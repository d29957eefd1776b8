------------------------------ MODULE Request ------------------------------
(***************************************************************************)
(* lhs::http::request::parse() (src/protocol/http/request.cc): the bytes a *)
(* client thread has read become a start line, parameters, headers and a   *)
(* body.  A line is a text and whether a '\r' precedes its '\n'; texts are *)
(* opaque, CONSTANTS say how long they are and where ' ', ':', '?' and '=' *)
(* divide them.  The bytes may stop anywhere: client_thread() parses what  *)
(* one short read() left it with.                                          *)
(***************************************************************************)
EXTENDS Integers, Sequences, Sums

CONSTANTS
  Texts,     (* the lines' texts, without '\r' and '\n'                    *)
  Empty,     (* the empty one                                              *)
  Size,      (* Size[x]: how many characters text x has                    *)
  Colon,     (* the texts with a ':'                                       *)
  Name,      (* Name[x], Value[x]: what is left and right of the first ':' *)
  Value,
  Words3,    (* the texts of exactly three words                           *)
  Rooted,    (* those whose path starts with '/'                           *)
  Query,     (* Query[x]: the parameters of their query string, in order,  *)
             (* each [name, eq, value], eq telling whether it has an '='   *)
  Inputs     (* what may have been read: [lines, cut], cut telling whether *)
             (* the last line lacks its '\n'                               *)

ASSUME RequestAssumption ==
  /\ Empty \in Texts
  /\ Size \in [Texts -> Nat]
  /\ \A x \in Texts : Size[x] = 0 <=> x = Empty
  /\ Rooted \subseteq Words3 /\ Words3 \subseteq Texts \ {Empty}
  /\ \A x \in Words3 : Query[x] \in Seq({Query[x][i] : i \in DOMAIN Query[x]})
  /\ \A d \in Inputs : /\ d.lines \in Seq([text : Texts, cr : BOOLEAN])
                       /\ d.cut \in BOOLEAN
                       /\ d.cut => LET n == Len(d.lines)  (* a byte at least *)
                                   IN n > 0 /\ (d.lines[n].text # Empty \/ d.lines[n].cr)

VARIABLES
  data,      (* data_, the bytes read: one of Inputs                       *)
  pc,        (* what parse() does next, or how it ended                    *)
  result,    (* the queue of lines                                         *)
  todo,      (* the parameters of _params still to visit                   *)
  nbchar,    (* characters counted up to the body                          *)
  header_,   (* the headers, name to value                                 *)
  params     (* the parameters, name to value                              *)

vars == <<data, pc, result, todo, nbchar, header_, params>>

-----------------------------------------------------------------------------
(* map[key] = value                                                        *)
Put(map, key, value) ==
  [k \in DOMAIN map \cup {key} |-> IF k = key THEN value ELSE map[k]]

(* find_first_of() returns npos when there is no ':' or '=': the name is   *)
(* then the whole string, and npos + 1 being 0, so is the value.           *)
HeaderName(x) == IF x \in Colon THEN Name[x] ELSE x
HeaderValue(x) == IF x \in Colon THEN Value[x] ELSE x

(* Likewise for a parameter with no '='.                                   *)
ParamValue(p) == IF p.eq THEN p.value ELSE p.name

(* Faulty variant: both bytes of an end of line are counted.               *)
CountedCRLF(x) == Size[x] + 2

(* What parse() counts for a line, once its '\r' is gone.                  *)
Counted(x) == Size[x] + 1

(* The '\r' of each line of d, and the bytes it occupies.                  *)
Returns(d) == [i \in 1 .. Len(d.lines) |-> IF d.lines[i].cr THEN 1 ELSE 0]

Raw(d) ==
  [i \in 1 .. Len(d.lines) |->
     Size[d.lines[i].text] + Returns(d)[i] + (IF i = Len(d.lines) /\ d.cut THEN 0 ELSE 1)]

RawSize(d, n) == SumTo(Raw(d), n)

DataSize(d) == RawSize(d, Len(d.lines))

Init ==
  /\ data \in Inputs
  /\ pc = "split"
  /\ result = <<>>
  /\ todo = <<>>
  /\ nbchar = 0
  /\ header_ = [k \in {} |-> Empty]
  /\ params = [k \in {} |-> Empty]

(* The getline() loop.  (Of an empty line it looks at line[-1], the top    *)
(* byte of the length word before the characters, which is no '\r'.)       *)
SplitLines ==
  /\ pc = "split"
  /\ result' = [i \in 1 .. Len(data.lines) |-> data.lines[i].text]
  /\ pc' = "start"
  /\ UNCHANGED <<data, todo, nbchar, header_, params>>

(* parse_init() up to parse_params(): three words, and the query is split. *)
ParseInit ==
  /\ pc = "start"
  /\ result # <<>>
  /\ IF Head(result) \in Words3
     THEN todo' = Query[Head(result)] /\ pc' = "params"
     ELSE todo' = todo /\ pc' = "thrown"
  /\ UNCHANGED <<data, result, nbchar, header_, params>>

(* Faulty variant: a parameter with no '=' is dropped.                     *)
ParamDropped ==
  /\ pc = "params"
  /\ todo # <<>>
  /\ params' = IF Head(todo).eq THEN Put(params, Head(todo).name, Head(todo).value)
               ELSE params
  /\ todo' = Tail(todo)
  /\ UNCHANGED <<data, pc, result, nbchar, header_>>

(* One round of the loop of parse_params().                                *)
ParseParam ==
  /\ pc = "params"
  /\ todo # <<>>
  /\ params' = Put(params, Head(todo).name, ParamValue(Head(todo)))
  /\ todo' = Tail(todo)
  /\ UNCHANGED <<data, pc, result, nbchar, header_>>

(* The path is checked last; then the start line is taken off and counted. *)
EndInit ==
  /\ pc = "params"
  /\ todo = <<>>
  /\ IF Head(result) \in Rooted
     THEN /\ nbchar' = nbchar + Counted(Head(result))
          /\ result' = Tail(result)
          /\ pc' = "headers"
     ELSE /\ pc' = "thrown"
          /\ UNCHANGED <<nbchar, result>>
  /\ UNCHANGED <<data, todo, header_, params>>

(* Faulty variant: the first of two headers of one name is kept.           *)
ParseHeaderOnce ==
  /\ pc = "headers"
  /\ result # <<>> /\ Head(result) # Empty
  /\ header_' = IF HeaderName(Head(result)) \in DOMAIN header_ THEN header_
                ELSE Put(header_, HeaderName(Head(result)), HeaderValue(Head(result)))
  /\ nbchar' = nbchar + Counted(Head(result))
  /\ result' = Tail(result)
  /\ UNCHANGED <<data, pc, todo, params>>

(* One round of the loop over the header lines.                            *)
ParseHeader ==
  /\ pc = "headers"
  /\ result # <<>> /\ Head(result) # Empty
  /\ header_' = Put(header_, HeaderName(Head(result)), HeaderValue(Head(result)))
  /\ nbchar' = nbchar + Counted(Head(result))
  /\ result' = Tail(result)
  /\ UNCHANGED <<data, pc, todo, params>>

(* The empty line is counted and the body copied from there to the end of  *)
(* data_; the copy throws if that is past the end.                         *)
TakeBody ==
  /\ nbchar' = nbchar + 1
  /\ pc' = IF nbchar' <= DataSize(data) THEN "done" ELSE "thrown"
  /\ UNCHANGED <<data, result, todo, header_, params>>

(* Faulty variant: the body is taken only once all lines have been read.   *)
EmptyLineSkipped ==
  /\ pc = "headers" /\ result # <<>> /\ Head(result) = Empty
  /\ nbchar' = nbchar + 1
  /\ result' = Tail(result)
  /\ UNCHANGED <<data, pc, todo, header_, params>>

EmptyLine == pc = "headers" /\ result # <<>> /\ Head(result) = Empty /\ TakeBody

(* No empty line was read: front() of an empty queue is whatever memory    *)
(* holds.  The program ends there, or finds an empty string.               *)
FrontOfNothing ==
  /\ pc \in {"start", "headers"}
  /\ result = <<>>
  /\ \/ pc' = "crashed" /\ UNCHANGED <<data, result, todo, nbchar, header_, params>>
     \/ pc = "headers" /\ TakeBody
     \/ pc = "start" /\ pc' = "thrown"
        /\ UNCHANGED <<data, result, todo, nbchar, header_, params>>

Next ==
  \/ SplitLines \/ ParseInit \/ ParseParam \/ EndInit
  \/ ParseHeader \/ EmptyLine \/ FrontOfNothing

Spec == Init /\ [][Next]_vars

-----------------------------------------------------------------------------
(* What was really read.                                                   *)

Blanks(d) == {i \in 1 .. Len(d.lines) : d.lines[i].text = Empty}

(* The head of d, up to its first empty line (0 when that was not read).   *)
HeadLen(d) ==
  IF Blanks(d) = {} THEN 0
  ELSE CHOOSE i \in Blanks(d) : \A j \in Blanks(d) : i <= j

(* The empty line was read, if only its '\r'...                            *)
HeadRead(d) == HeadLen(d) > 1

(* ...or all of it, so that the payload starts after it.                   *)
Whole(d) == HeadRead(d) /\ (d.cut => HeadLen(d) < Len(d.lines))

Ended == {"done", "thrown", "crashed"}

TypeOK ==
  /\ data.lines \in Seq([text : Texts, cr : BOOLEAN]) /\ data.cut \in BOOLEAN
  /\ pc \in Ended \cup {"split", "start", "params", "headers"}
  /\ result \in Seq(Texts)
  /\ nbchar \in Nat
  /\ nbchar <= DataSize(data) + 2

(* The number of '\r' that parse() drops, and does not count, in the head. *)
Uncounted(d) == SumTo(Returns(d), HeadLen(d))

(* However lines end, the body of a request whose head was read in full    *)
(* loses no byte of the payload: it is the payload, preceded by as many    *)
(* bytes of the head as parse() dropped '\r's.                             *)
PayloadKept ==
  pc = "done" /\ Whole(data) =>
    nbchar + Uncounted(data) = RawSize(data, HeadLen(data))

(* The body is what follows the empty line.                                *)
BodyFollowsEmptyLine ==
  pc = "done" /\ Whole(data) => nbchar = RawSize(data, HeadLen(data))

(* The head lines of d that set header k.                                  *)
Setting(d, k) ==
  {i \in 2 .. HeadLen(d) - 1 : HeaderName(d.lines[i].text) = k}

(* header_ has, for each name in the head and for no other, the value of   *)
(* the last line that gives it.                                            *)
LastHeaderWins ==
  pc = "done" /\ HeadRead(data) =>
    /\ \A k \in DOMAIN header_ : Setting(data, k) # {}
    /\ \A i \in 2 .. HeadLen(data) - 1 :
         LET k == HeaderName(data.lines[i].text)
         IN /\ k \in DOMAIN header_
            /\ (\A j \in Setting(data, k) : j <= i)
                 => header_[k] = HeaderValue(data.lines[i].text)

(* A request whose head was read and starts well is never rejected and     *)
(* never ends the program, wherever the bytes stop after that, even before *)
(* the last '\n' of the head.                                              *)
HeadSuffices ==
  HeadRead(data) /\ data.lines[1].text \in Rooted => pc \notin {"thrown", "crashed"}

(* params has, for each name of the query string and for no other, the     *)
(* value of the last parameter of that name, or the name when it has none. *)
LastParamWins ==
  pc \in {"headers", "done"} =>
    LET q == Query[data.lines[1].text]
        at(k) == {i \in 1 .. Len(q) : q[i].name = k}
    IN /\ \A k \in DOMAIN params : at(k) # {}
       /\ \A i \in 1 .. Len(q) :
            (\A j \in at(q[i].name) : j <= i)
              => /\ q[i].name \in DOMAIN params
                 /\ params[q[i].name] = IF q[i].eq THEN q[i].value ELSE q[i].name
=============================================================================
