------------------------------ MODULE Service ------------------------------
(***************************************************************************)
(* What the server promises its clients, with no threads, descriptors or   *)
(* buffers: a connection that arrives waits, is answered at most once and  *)
(* from its own request, and is given up only if its client reset it or    *)
(* the service is stopping.  It ends when it has stopped, and otherwise    *)
(* only if a client or the application gives it a reason.  The promise is  *)
(* conditional: once the hand-off of a connection to its thread has raced  *)
(* (tainted), nothing is promised of the connections.                      *)
(***************************************************************************)

CONSTANTS
  Conns,
  AppThrows (* whether the application may fail *)

VARIABLES
  status,   (* status[c]: what became of connection c           *)
  gone,     (* the connections whose clients reset them         *)
  service,  (* whether the service takes and answers requests   *)
  offended, (* a request has come in pieces, or malformed       *)
  tainted   (* a hand-off has raced                             *)

vars == <<status, gone, service, offended, tainted>>

(* "misanswered": answered twice, or with bytes of another connection.     *)
Status == {"new", "waiting", "answered", "misanswered", "lost"}
Stages == {"starting", "serving", "stopping", "ended"}

Waiting == {c \in Conns : status[c] = "waiting"}

(* The connections of set L are given up.                                  *)
GiveUp(L) == status' = [c \in Conns |-> IF c \in L THEN "lost" ELSE status[c]]

Init ==
  /\ status = [c \in Conns |-> "new"]
  /\ gone = {}
  /\ service = "starting"
  /\ offended = FALSE
  /\ tainted = FALSE

Open == /\ service = "starting"
        /\ service' = "serving"
        /\ UNCHANGED <<status, gone, offended, tainted>>

Arrive(c) == /\ service \in {"serving", "stopping"}
             /\ status[c] = "new"
             /\ status' = [status EXCEPT ![c] = "waiting"]
             /\ UNCHANGED <<gone, service, offended, tainted>>

Leave(c) == /\ status[c] # "new"
            /\ gone' = gone \cup {c}
            /\ UNCHANGED <<status, service, offended, tainted>>

Answer(c) == /\ status[c] = "waiting"
             /\ status' = [status EXCEPT ![c] = "answered"]
             /\ UNCHANGED <<gone, service, offended, tainted>>

Lose(c) == /\ status[c] = "waiting"
           /\ c \in gone
           /\ status' = [status EXCEPT ![c] = "lost"]
           /\ UNCHANGED <<gone, service, offended, tainted>>

(* The service stops taking connections and may drop some that wait.       *)
Stop == /\ service = "serving"
        /\ service' = "stopping"
        /\ \E L \in SUBSET Waiting : GiveUp(L)
        /\ tainted' \in {tainted, TRUE}
        /\ UNCHANGED <<gone, offended>>

Drop == /\ service = "stopping"
        /\ \E L \in SUBSET Waiting : GiveUp(L)
        /\ UNCHANGED <<gone, service, offended, tainted>>

Offend == /\ offended' = TRUE
          /\ UNCHANGED <<status, gone, service, tainted>>

(* The whole process ends, and with it every connection.                   *)
End == /\ \/ service \in {"starting", "stopping"}
          \/ gone # {} \/ offended \/ AppThrows
       /\ service' = "ended"
       /\ UNCHANGED <<status, gone, offended, tainted>>

Taint == /\ tainted' = TRUE
         /\ UNCHANGED <<status, gone, service, offended>>

(* Nothing is promised of a connection that has arrived.                   *)
Chaos == /\ tainted
         /\ status' \in [Conns -> Status]
         /\ \A c \in Conns : status[c] = "new" <=> status'[c] = "new"
         /\ offended' \in {offended, TRUE}
         /\ UNCHANGED <<gone, service, tainted>>

Next ==
  /\ service # "ended"
  /\ \/ Open \/ Stop \/ Drop \/ Offend \/ End \/ Taint \/ Chaos
     \/ \E c \in Conns : Arrive(c) \/ Leave(c) \/ Answer(c) \/ Lose(c)

Spec == Init /\ [][Next]_vars
=============================================================================
