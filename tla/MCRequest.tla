----------------------------- MODULE MCRequest -----------------------------
(* Instances of Request for TLC. *)
EXTENDS Request, TLC

CONSTANTS empty, start, query, rootless, short, host1, host2, agent, bare, payload,
          host, agentName, v1, v2, p1, p2

MCTexts == {empty, start, query, rootless, short, host1, host2, agent, bare, payload}

(* `host1' and `host2' give one header two values, `agent' another one;    *)
(* `bare' has no colon.  Lengths differ so that miscounts cannot cancel.   *)
MCSize == [x \in MCTexts |->
  CASE x = empty -> 0 [] x \in {start, bare} -> 3 [] x = query -> 5
    [] x = rootless -> 4 [] x = short -> 1 [] x \in {host1, host2} -> 6
    [] x = agent -> 7 [] x = payload -> 2]

MCColon == {host1, host2, agent}
MCName == host1 :> host @@ host2 :> host @@ agent :> agentName
MCValue == host1 :> v1 @@ host2 :> v2 @@ agent :> v1
MCWords3 == {start, query, rootless}
MCRooted == {start, query}
MCQuery ==
  start :> <<>> @@ rootless :> <<>>
  @@ query :> <<[name |-> p1, eq |-> TRUE, value |-> v1],
                [name |-> p2, eq |-> FALSE, value |-> v1],
                [name |-> p1, eq |-> TRUE, value |-> v2]>>

(* Bound: at most two headers, an empty line or none, and one more line.   *)
Headers == {host1, host2, agent, bare}
HeaderBlocks == {<<>>} \cup {<<h>> : h \in Headers} \cup (Headers \X Headers)
Tails == {<<>>, <<empty>>, <<empty, payload>>, <<empty, empty>>}
TextLists ==
  {<<>>} \cup
  {<<s>> \o h \o e : s \in {start, query, rootless, short, empty},
                     h \in HeaderBlocks, e \in Tails}

(* Lines end in "\n", in "\r\n", or some in one and some in the other.     *)
Line(x, cr) == [text |-> x, cr |-> cr]
EndWith(list, crs) == [i \in 1 .. Len(list) |-> Line(list[i], crs[i])]
WithCuts(lists) == {[lines |-> l, cut |-> b] : l \in lists, b \in BOOLEAN}

(* A last line that is cut and has no character left is no line at all.    *)
Real(d) ==
  d.cut => LET n == Len(d.lines)
           IN n > 0 /\ (d.lines[n].text # empty \/ d.lines[n].cr)

MCInputs ==
  {d \in WithCuts(UNION {{EndWith(l, crs) : crs \in [1 .. Len(l) -> BOOLEAN]}
                           : l \in TextLists}) : Real(d)}

(* The same with "\r\n" throughout.                                        *)
MCInputsCRLF ==
  {d \in WithCuts({EndWith(l, [i \in 1 .. Len(l) |-> TRUE]) : l \in TextLists}) :
     Real(d)}
=============================================================================
