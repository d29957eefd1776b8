------------------------------- MODULE Reply -------------------------------
(***************************************************************************)
(* What a call of the application promises, with no middleware running, no *)
(* file open and no block read: it is answered once, by the branch that    *)
(* the chain, the request and the code the response was constructed with   *)
(* call for, and what the answer says of the path was so during the call.  *)
(***************************************************************************)
EXTENDS Naturals, Sequences

CONSTANTS Threads, Chains, Garbage, Nodes, Dangling

VARIABLES
  app, explore,  (* the chain, and whether its static_file lists           *)
  up,            (* the process has not crashed                            *)
  path,          (* what the requested path names                          *)
  busy,          (* busy[t]: t has a request to answer                     *)
  asks, code,    (* the request; the code its response was constructed with *)
  seen, denied,  (* what the path has named; a descriptor was wanting      *)
  answer         (* the response, once there is one                        *)

vars == <<app, explore, up, path, busy, asks, code, seen, denied, answer>>

Has(m) == \E i \in 1 .. Len(app) : app[i] = m

(* An application is asked; it answers whatever else the chain has.        *)
Applied(t) == Has("about") \/ (Has("urlmap") /\ asks[t].mapped)

(* Why nothing was served.                                                 *)
Missing(t) ==
  \/ ~Has("static_file")
  \/ asks[t].refused
  \/ \E n \in seen[t] : n.kind = "none" \/ (n.kind = "directory" /\ ~explore)

IsAbout(r) == r.of = "about" /\ r.code = 200 /\ r.type = "text/plain"

IsNotFound(r) ==
  r.of = "not_found" /\ r.code = 404 /\ r.type = "text/html" /\ r.pragma

IsBlank(r, c) ==
  r.of = "nobody" /\ r.code = c /\ r.type = "" /\ ~r.pragma /\ r.data = <<>>

(* Bytes the path's files had, at their places; all of them if the path    *)
(* named one readable thing throughout.                                    *)
IsFile(t, r) ==
  /\ r.of = "file" /\ r.code = 200 /\ r.type = "mime"
  /\ \E n \in seen[t] : n.kind # "directory"
  /\ \A i \in 1 .. Len(r.data) : \E n \in seen[t] :
       i \in 1 .. Len(n.content) /\ n.content[i] = r.data[i]
  /\ \A n \in seen[t] :
       seen[t] = {n} /\ n.readable /\ ~denied[t] => r.data = n.content

Names(r) == {r.data[i] : i \in 1 .. Len(r.data)}

(* Entries the path's directories had, each once; all that were always     *)
(* there if there was always a readable directory.                         *)
IsListing(t, r) ==
  /\ r.of = "listing" /\ r.code = 200 /\ r.type = "text/html"
  /\ explore /\ \E n \in seen[t] : n.kind = "directory"
  /\ \A i, j \in 1 .. Len(r.data) : r.data[i] = r.data[j] => i = j
  /\ \A e \in Names(r) : \E n \in seen[t] : e \in n.entries
  /\ (\A n \in seen[t] : n.kind = "directory" /\ n.readable) /\ ~denied[t] =>
       \A n \in seen[t] : \A e \in n.entries :
         (\A o \in seen[t] : e \in o.entries) => e \in Names(r)

Served(t, r) ==
  /\ Has("static_file") /\ ~asks[t].refused
  /\ \E n \in seen[t] : n.kind # "none"
  /\ IsFile(t, r) \/ IsListing(t, r)

(* An application answers before anything else does; a code other than 0   *)
(* and 404 is taken for an answer; with either, what the path names is     *)
(* served, or else the code sent is 404, with a page if it was 0.          *)
Honest(t, r) ==
  /\ r.pragma /\ r.of # "not_found" => code[t] = 0 /\ Has("error_404")
  /\ IF app = <<>> THEN IsNotFound(r)
     ELSE IF Applied(t) THEN IsAbout(r)
     ELSE IF code[t] \notin {0, 404} THEN IsBlank(r, code[t])
     ELSE \/ Served(t, r)
          \/ Missing(t) /\ IF code[t] = 0 THEN IsNotFound(r) ELSE IsBlank(r, 404)

-----------------------------------------------------------------------------
Unasked == [mapped |-> FALSE, refused |-> FALSE]

Init ==
  /\ app \in Chains
  /\ explore \in BOOLEAN
  /\ up = TRUE
  /\ path \in Nodes
  /\ busy = [t \in Threads |-> FALSE]
  /\ asks = [t \in Threads |-> Unasked]
  /\ code = [t \in Threads |-> 0]
  /\ seen = [t \in Threads |-> {}]
  /\ denied = [t \in Threads |-> FALSE]
  /\ answer = [t \in Threads |-> {}]

Ask(t) ==
  /\ ~busy[t]
  /\ busy' = [busy EXCEPT ![t] = TRUE]
  /\ \E c \in Garbage, mapped, refused \in BOOLEAN :
       /\ code' = [code EXCEPT ![t] = c]
       /\ asks' = [asks EXCEPT ![t] = [mapped |-> mapped, refused |-> refused]]
  /\ seen' = [seen EXCEPT ![t] = {path}]
  /\ denied' = [denied EXCEPT ![t] = FALSE]
  /\ UNCHANGED <<app, explore, up, path, answer>>

(* The path comes to name something else.                                  *)
Change ==
  /\ path' \in Nodes \ {path}
  /\ seen' = [t \in Threads |-> IF busy[t] THEN seen[t] \cup {path'} ELSE {}]
  /\ UNCHANGED <<app, explore, up, busy, asks, code, denied, answer>>

Pending(t) == busy[t] /\ answer[t] = {}

(* There is no descriptor for what t opens.                                *)
Deny(t) ==
  /\ Pending(t)
  /\ ~denied[t]
  /\ denied' = [denied EXCEPT ![t] = TRUE]
  /\ UNCHANGED <<app, explore, up, path, busy, asks, code, seen, answer>>

Answer(t) ==
  /\ Pending(t)
  /\ \E r \in answer'[t] : Honest(t, r) /\ answer' = [answer EXCEPT ![t] = {r}]
  /\ UNCHANGED <<app, explore, up, path, busy, asks, code, seen, denied>>

Done(t) ==
  /\ answer[t] # {}
  /\ busy' = [busy EXCEPT ![t] = FALSE]
  /\ asks' = [asks EXCEPT ![t] = Unasked]
  /\ code' = [code EXCEPT ![t] = 0]
  /\ seen' = [seen EXCEPT ![t] = {}]
  /\ denied' = [denied EXCEPT ![t] = FALSE]
  /\ answer' = [answer EXCEPT ![t] = {}]
  /\ UNCHANGED <<app, explore, up, path>>

(* Only a listing crashes the process, at an entry that leads nowhere or   *)
(* that was not always there.                                              *)
Crash(t) ==
  /\ Pending(t)
  /\ Has("static_file") /\ explore /\ ~asks[t].refused
  /\ \E n \in seen[t] : \E e \in n.entries :
       e \in Dangling \/ \E o \in seen[t] : e \notin o.entries
  /\ up' = FALSE
  /\ UNCHANGED <<app, explore, path, busy, asks, code, seen, denied, answer>>

Next ==
  /\ up
  /\ \/ Change
     \/ \E t \in Threads : \/ Ask(t) \/ Deny(t) \/ Answer(t) \/ Done(t) \/ Crash(t)

Spec == Init /\ [][Next]_vars
=============================================================================
