---------------------------- MODULE ServerProofs ----------------------------
(***************************************************************************)
(* Proofs about Server, for any number of connections, threads and         *)
(* descriptors, any BUFFER_SIZE and any lengths of requests: first the     *)
(* invariants, then that the engine implements Service.                    *)
(***************************************************************************)
EXTENDS ServerProperties, TLAPS

(* What a read() returns: no more than has arrived, no more than a buffer. *)
LEMMA ReadSizeBounds ==
  ASSUME NEW c \in Conns, sent[c] \in Nat, consumed[c] \in Nat,
         consumed[c] <= sent[c]
  PROVE  /\ ReadSize(c) \in Nat
         /\ ReadSize(c) <= sent[c] - consumed[c]
         /\ ReadSize(c) <= BufferSize
  BY ServerAssumption DEF ReadSize, ServerAssumption

(* The bytes of a prefix and the next n ones make the longer prefix.       *)
LEMMA PrefixGrows ==
  ASSUME NEW c, NEW k \in Nat, NEW n \in Nat
  PROVE  Prefix(c, k) \cup (Prefix(c, k + n) \ Prefix(c, k)) = Prefix(c, k + n)
  BY DEF Prefix

LEMMA TypeInit == Init => TypeOK
<1> SUFFICES ASSUME Init PROVE TypeOK
  OBVIOUS
<1>1. \A c \in Conns : consumed[c] = 0 /\ sent[c] = 0 /\ ReqLen[c] \in Nat
  BY ServerAssumption DEF Init, ServerAssumption
<1>2. \A c \in Conns : consumed[c] <= sent[c] /\ sent[c] <= ReqLen[c]
  BY <1>1
<1>3. /\ phase \in [Conns -> Phases] /\ peer \in [Conns -> Peers]
      /\ sent \in [Conns -> Nat] /\ consumed \in [Conns -> Nat]
      /\ fd \in [Fds -> Conns \cup {None}]
  BY DEF Init, Phases, Peers
<1>4. /\ pc \in [Threads -> ThreadSteps]
      /\ c_socket \in [Threads -> Fds \cup {None}]
      /\ client \in [Threads -> Conns \cup {None}]
      /\ buffer \in [Threads -> SUBSET (Conns \X Nat)]
      /\ dest \in [Threads -> Conns \cup {None}]
  BY DEF Init, ThreadSteps
<1> QED
  BY <1>2, <1>3, <1>4 DEF Init, TypeOK, MainSteps

LEMMA TypeStep == TypeOK /\ [Next]_vars => TypeOK'
<1> SUFFICES ASSUME TypeOK, [Next]_vars
             PROVE  TypeOK'
  OBVIOUS
<1> USE DEF Phases, Peers, MainSteps, ThreadSteps, netVars, mainVars, threadVars
<1>1. ASSUME NEW c \in Conns, ClientConnect(c) PROVE TypeOK'
  BY <1>1 DEF ClientConnect, TypeOK
<1>2. ASSUME NEW c \in Conns, NEW n \in 1 .. ReqLen[c], ClientSend(c, n)
      PROVE TypeOK'
  BY <1>2, ServerAssumption DEF ClientSend, TypeOK, ServerAssumption
<1>3. ASSUME NEW c \in Conns, ClientShutdown(c) \/ ClientReset(c) PROVE TypeOK'
  BY <1>3 DEF ClientShutdown, ClientReset, TypeOK
<1>4. CASE ServerInit
  BY <1>4 DEF ServerInit, TypeOK
<1>5. CASE InitFails \/ MainReturns
  BY <1>5 DEF InitFails, MainReturns, Die, TypeOK
<1>6. ASSUME NEW c \in Conns, NEW f \in Fds, AcceptConnection(c, f)
      PROVE TypeOK'
  BY <1>6 DEF AcceptConnection, Addresses, TypeOK
<1>7. CASE AcceptFails
  BY <1>7 DEF AcceptFails, TypeOK
<1>8. CASE FillConnection \/ FillClient
  BY <1>8 DEF FillConnection, FillClient, TypeOK
<1>9. ASSUME NEW t \in Threads, CreateThread(t) PROVE TypeOK'
  BY <1>9 DEF CreateThread, TypeOK
<1>10. CASE CreateFails \/ Quit \/ DeleteApp
  BY <1>10 DEF CreateFails, Quit, DeleteApp, TypeOK
<1>11. ASSUME NEW t \in Threads, CopyConnection(t) \/ CopyClient(t) PROVE TypeOK'
  <2>1. ASSUME NEW f \in Fds \cup {None},
               c_socket' = [c_socket EXCEPT ![t] = f],
               pc' = [pc EXCEPT ![t] = "peer"],
               UNCHANGED <<netVars, fd, streams, mainVars, client, buffer, dest, up>>
        PROVE TypeOK'
    BY <2>1 DEF TypeOK
  <2>2. ASSUME NEW a \in Conns \cup {None},
               client' = [client EXCEPT ![t] = a],
               pc' = [pc EXCEPT ![t] = "read"],
               UNCHANGED <<netVars, fd, streams, mainVars, c_socket, buffer, dest, up>>
        PROVE TypeOK'
    BY <2>2 DEF TypeOK
  <2>3. CASE Die
    BY <2>3 DEF Die, TypeOK
  <2>4. /\ data_connection \in Fds \cup {None}
        /\ data_client \in Conns \cup {None}
    BY DEF TypeOK
  <2> QED
    BY <1>11, <2>1, <2>2, <2>3, <2>4 DEF CopyConnection, CopyClient
<1>12. ASSUME NEW t \in Threads, ReadSome(t) PROVE TypeOK'
  <2> DEFINE c == At(t)
             n == ReadSize(c)
  <2>1. c \in Conns
    BY <1>12 DEF ReadSome, Broken, At, TypeOK
  <2>2. n \in Nat /\ n <= sent[c] - consumed[c]
    BY <2>1, ReadSizeBounds DEF TypeOK
  <2> HIDE DEF c, n
  <2>3. /\ consumed' = [consumed EXCEPT ![c] = @ + n]
        /\ buffer' = [buffer EXCEPT ![t] =
             @ \cup (Prefix(c, consumed[c] + n) \ Prefix(c, consumed[c]))]
        /\ pc' = [pc EXCEPT ![t] = IF ShortRead(n) THEN "parse" ELSE "read"]
        /\ UNCHANGED <<phase, peer, sent, fd, streams, mainVars, c_socket, client, dest, up>>
    BY <1>12 DEF ReadSome, c, n
  <2>4. Prefix(c, consumed[c] + n) \subseteq Conns \X Nat
    BY <2>1, <2>2 DEF Prefix, TypeOK
  <2>5. buffer' \in [Threads -> SUBSET (Conns \X Nat)]
    BY <2>3, <2>4 DEF TypeOK
  <2>6. /\ consumed' \in [Conns -> Nat]
        /\ \A d \in Conns : consumed'[d] <= sent'[d] /\ sent'[d] <= ReqLen[d]
    BY <2>1, <2>2, <2>3, ServerAssumption DEF TypeOK, ServerAssumption
  <2> QED
    BY <2>3, <2>5, <2>6 DEF TypeOK
<1>13. ASSUME NEW t \in Threads, ReadEof(t) \/ ReadError(t) PROVE TypeOK'
  BY <1>13 DEF ReadEof, ReadError, TypeOK
<1>14. ASSUME NEW t \in Threads, Parse(t) \/ CallApp(t) PROVE TypeOK'
  BY <1>14 DEF Parse, CallApp, FreeFds, Die, TypeOK
<1>15. ASSUME NEW t \in Threads, Write(t) PROVE TypeOK'
  BY <1>15 DEF Write, Broken, At, Die, TypeOK
<1>16. ASSUME NEW t \in Threads, Close(t) PROVE TypeOK'
  BY <1>16 DEF Close, At, TypeOK
<1>17. CASE UNCHANGED vars
  BY <1>17 DEF vars, TypeOK
<1> QED
  BY <1>1, <1>2, <1>3, <1>4, <1>5, <1>6, <1>7, <1>8, <1>9, <1>10, <1>11, <1>12,
     <1>13, <1>14, <1>15, <1>16, <1>17
  DEF Next, ClientNext, MainNext, ThreadNext

(* Every state of the engine is well typed; no read() returns more bytes   *)
(* than were sent, and no more are sent than the request has.              *)
THEOREM TypeCorrect == Spec => []TypeOK
BY TypeInit, TypeStep, PTL DEF Spec
(* The inductive invariant holds initially...                              *)
LEMMA InvInit == Init => Inv
  BY ServerAssumption
  DEF Init, Inv, Undisturbed, Table, MainKnows, HandOff, Ownership, PeerKnown,
      Reading, Distinct, Active, Desc, Pending, MainHolds, Serving, Prefix

(* ...and accept() keeps it: the new descriptor is nobody else's.          *)
LEMMA AcceptKeepsInv ==
  ASSUME TypeOK, Inv, NEW c \in Conns, NEW f \in Fds, AcceptConnection(c, f)
  PROVE  Inv'
<1> USE DEF AcceptConnection, FreeFds, mainVars, threadVars, TypeOK, Table,
            MainKnows, HandOff, Ownership, PeerKnown, Reading, Distinct, Active, Desc,
            Pending, MainHolds, Serving
<1>1. fd[f] = None /\ fd' = [fd EXCEPT ![f] = c] /\ sockfd' = f /\ f # None
  BY ServerAssumption DEF ServerAssumption
<1>2. Table'
  BY DEF Inv
<1> SUFFICES ASSUME ~raced' PROVE Undisturbed'
  BY <1>2 DEF Inv
<1>3. Undisturbed
  BY DEF Inv
<1>4. MainKnows'
  <2>1. fd'[sockfd'] = c /\ c # None
    BY <1>1, ServerAssumption DEF ServerAssumption
  <2>2. client_' \in {c, None} /\ consumed'[c] = 0
    BY DEF Inv, Addresses
  <2> QED
    BY <1>1, <2>1, <2>2
<1>5. \A t \in Threads : Active(t) => Desc(t) # f
  BY <1>1, <1>3 DEF Undisturbed
<1>6. HandOff' /\ Ownership'
  BY <1>1, <1>3, <1>5 DEF Undisturbed
<1>7. PeerKnown' /\ Reading' /\ Distinct'
  BY <1>1, <1>3, <1>5 DEF Undisturbed
<1> QED
  BY <1>4, <1>6, <1>7 DEF Undisturbed

(* Filling `data` keeps it: as long as nothing has raced, no thread is     *)
(* still to read the field that is written.                                *)
LEMMA FillKeepsInv ==
  ASSUME TypeOK, Inv, FillConnection \/ FillClient
  PROVE  Inv'
<1> USE DEF netVars, mainVars, threadVars, TypeOK, Table, MainKnows, HandOff,
            Ownership, PeerKnown, Reading, Distinct, Active, Desc, Pending, MainHolds, Serving
<1>1. Table'
  BY DEF Inv, FillConnection, FillClient
<1> SUFFICES ASSUME ~raced' PROVE Undisturbed'
  BY <1>1 DEF Inv
<1>2. CASE FillConnection
  <2>1. \A t \in Threads : pc[t] # "start"
    BY <1>2 DEF FillConnection
  <2>2. Undisturbed
    BY <1>2 DEF FillConnection, Inv
  <2>3. /\ mpc = "fill" /\ mpc' = "client" /\ data_connection' = sockfd
        /\ UNCHANGED <<netVars, fd, streams, sockfd, client_, data_client, threadVars, up>>
    BY <1>2 DEF FillConnection
  <2>4. MainKnows' /\ HandOff'
    BY <2>1, <2>2, <2>3 DEF Undisturbed
  <2>5. \A t \in Threads : Active(t)' = Active(t) /\ Desc(t)' = Desc(t)
    BY <2>1, <2>3
  <2>6. Ownership' /\ PeerKnown' /\ Reading' /\ Distinct'
    BY <2>1, <2>2, <2>3, <2>5 DEF Undisturbed
  <2> QED
    BY <2>4, <2>6 DEF Undisturbed
<1>3. CASE FillClient
  <2>1. \A t \in Threads : ~Pending(t)
    BY <1>3 DEF FillClient
  <2>2. Undisturbed
    BY <1>3 DEF FillClient, Inv
  <2>3. /\ mpc = "client" /\ mpc' = "create" /\ data_client' = client_
        /\ UNCHANGED <<netVars, fd, streams, sockfd, client_, data_connection, threadVars, up>>
    BY <1>3 DEF FillClient
  <2>4. MainKnows' /\ HandOff'
    BY <2>1, <2>2, <2>3 DEF Undisturbed
  <2>5. Ownership' /\ PeerKnown' /\ Reading' /\ Distinct'
    BY <2>1, <2>2, <2>3 DEF Undisturbed
  <2> QED
    BY <2>4, <2>5 DEF Undisturbed
<1> QED
  BY <1>2, <1>3

(* Starting a thread keeps it: the descriptor run() held is now the new    *)
(* thread's, and nobody had read from it.                                  *)
LEMMA CreateKeepsInv ==
  ASSUME TypeOK, Inv, NEW t \in Threads, CreateThread(t)
  PROVE  Inv'
<1> USE DEF CreateThread, netVars, TypeOK, Table, MainKnows, HandOff,
            Ownership, PeerKnown, Reading, Distinct, Active, Desc, Pending, MainHolds, Serving
<1>1. Table'
  BY DEF Inv
<1> SUFFICES ASSUME ~raced' PROVE Undisturbed'
  BY <1>1 DEF Inv
<1>2. Undisturbed
  BY DEF Inv
<1>3. \A u \in Threads : ~Pending(u)
  BY <1>2 DEF Undisturbed
<1>4. MainKnows' /\ HandOff' /\ Ownership' /\ PeerKnown' /\ Distinct'
  BY <1>2, <1>3 DEF Undisturbed
<1>5. Reading'
  <2>1. buffer[t] = {} /\ consumed[fd[data_connection]] = 0
    BY <1>2 DEF Undisturbed
  <2>2. Prefix(fd[data_connection], 0) = {}
    BY DEF Prefix
  <2>3. dest[t] = None
    BY <1>2 DEF Undisturbed
  <2> QED
    BY <1>2, <1>3, <2>1, <2>2, <2>3 DEF Undisturbed
<1> QED
  BY <1>4, <1>5 DEF Undisturbed

(* Copying data->connection keeps it: run() has not left the record, or    *)
(* something would have raced.                                             *)
LEMMA CopyKeepsInv ==
  ASSUME TypeOK, Inv, NEW t \in Threads, CopyConnection(t)
  PROVE  Inv'
<1> USE DEF netVars, mainVars, threadVars, TypeOK, Table, MainKnows, HandOff,
            Ownership, PeerKnown, Reading, Distinct, Active, Desc, Pending, MainHolds, Serving
<1>1. Table'
  BY DEF Inv, CopyConnection, Die
<1> SUFFICES ASSUME ~raced' PROVE Undisturbed'
  BY <1>1 DEF Inv
<1>2. Undisturbed /\ pc[t] = "start"
  <2>1. pc[t] = "start"
    BY DEF CopyConnection
  <2>2. raced' = raced
    BY Zenon DEF CopyConnection, Die
  <2> QED
    BY <2>1, <2>2 DEF Inv
<1>3. InRun
  BY <1>2 DEF Undisturbed, InRun
<1>4. /\ c_socket' = [c_socket EXCEPT ![t] = data_connection]
      /\ pc' = [pc EXCEPT ![t] = "peer"]
      /\ UNCHANGED <<netVars, fd, streams, mainVars, client, buffer, dest, up>>
  BY <1>3 DEF CopyConnection
<1>5. Desc(t)' = Desc(t) /\ \A u \in Threads : Active(u)' = Active(u) /\ Desc(u)' = Desc(u)
  BY <1>2, <1>4
<1>6. MainKnows' /\ HandOff'
  BY <1>2, <1>4 DEF Undisturbed
<1>7. Ownership'
  BY <1>2, <1>4, <1>5 DEF Undisturbed
<1>8. PeerKnown' /\ Reading' /\ Distinct'
  BY <1>2, <1>4, <1>5 DEF Undisturbed
<1> QED
  BY <1>6, <1>7, <1>8 DEF Undisturbed

(* A read() keeps it: the bytes it appends are the ones that follow.       *)
LEMMA ReadKeepsInv ==
  ASSUME TypeOK, Inv, NEW t \in Threads, ReadSome(t)
  PROVE  Inv'
<1> DEFINE c == At(t)
           n == ReadSize(c)
<1> USE DEF mainVars, TypeOK, Table, MainKnows, HandOff, Ownership, PeerKnown,
            Reading, Distinct, Active, Desc, Pending, MainHolds, Serving
<1>1. c \in Conns /\ c_socket[t] \in Fds /\ c = fd[c_socket[t]] /\ pc[t] = "read"
  BY DEF ReadSome, Broken, At
<1>2. n \in Nat /\ consumed[c] \in Nat
  BY <1>1, ReadSizeBounds
<1> HIDE DEF c, n
<1>3. /\ consumed' = [consumed EXCEPT ![c] = @ + n]
      /\ buffer' = [buffer EXCEPT ![t] =
           @ \cup (Prefix(c, consumed[c] + n) \ Prefix(c, consumed[c]))]
      /\ pc' = [pc EXCEPT ![t] = IF ShortRead(n) THEN "parse" ELSE "read"]
      /\ UNCHANGED <<phase, peer, sent, fd, streams, mainVars, c_socket, client, dest, up>>
  BY DEF ReadSome, c, n
<1>4. phase[c] = "open" /\ c # None
  BY <1>1, ServerAssumption DEF Inv, ServerAssumption
<1>5. Table'
  BY <1>3, <1>4 DEF Inv
<1> SUFFICES ASSUME ~raced' PROVE Undisturbed'
  BY <1>5 DEF Inv
<1>6. Undisturbed
  BY <1>3 DEF Inv
<1>7. \A u \in Threads \ {t} : Active(u) => fd[Desc(u)] # c
  BY <1>1, <1>4, <1>6 DEF Inv, Undisturbed
<1>8. MainKnows'
  <2>1. mpc \in {"fill", "client", "create"} => fd[sockfd] # c
    BY <1>1, <1>4, <1>6 DEF Inv, Undisturbed
  <2> QED
    BY <1>3, <1>6, <2>1 DEF Undisturbed
<1>9. HandOff' /\ Ownership' /\ PeerKnown' /\ Distinct'
  BY <1>1, <1>3, <1>6 DEF Undisturbed
<1>10. Reading'
  <2>1. buffer'[t] = Prefix(c, consumed[c] + n)
    BY <1>1, <1>2, <1>3, <1>6, PrefixGrows DEF Undisturbed
  <2>2. consumed'[c] = consumed[c] + n
    BY <1>1, <1>3
  <2>3. \A u \in Threads \ {t} :
          Active(u) => consumed'[fd[Desc(u)]] = consumed[fd[Desc(u)]]
    BY <1>3, <1>6, <1>7 DEF Undisturbed
  <2>4. dest[t] = None
    BY <1>1, <1>6 DEF Undisturbed
  <2>5. \A u \in Threads : dest[u] # None => dest[u] # c
    BY <1>1, <1>4, <1>6, <1>7, <2>4 DEF Undisturbed
  <2>6. \A u \in Threads : dest[u] # None => consumed'[dest[u]] = consumed[dest[u]]
    BY <1>3, <2>5
  <2> QED
    BY <1>1, <1>3, <1>6, <2>1, <2>2, <2>3, <2>4, <2>6 DEF Undisturbed
<1> QED
  BY <1>8, <1>9, <1>10 DEF Undisturbed

(* So does a step of a thread that only moves on, or ends the process.     *)
LEMMA ComputeKeepsInv ==
  ASSUME TypeOK, Inv, NEW t \in Threads, Parse(t) \/ CallApp(t)
  PROVE  Inv'
<1> USE DEF netVars, mainVars, threadVars, TypeOK, Inv, Undisturbed, Table,
            MainKnows, HandOff, Ownership, PeerKnown, Reading, Distinct, Active, Desc,
            Pending, MainHolds, Serving
<1>1. CASE Die
  BY <1>1 DEF Die
<1>2. ASSUME NEW s \in {"call", "write"}, pc[t] \in {"parse", "call"},
             pc' = [pc EXCEPT ![t] = s],
             \A f \in streams' \ streams : fd[f] = None,
             UNCHANGED <<netVars, fd, mainVars, c_socket, client, buffer, dest, up>>
      PROVE  Inv'
  BY <1>2
<1> QED
  BY <1>1, <1>2 DEF Parse, CallApp, FreeFds

LEMMA WriteKeepsInv ==
  ASSUME TypeOK, Inv, NEW t \in Threads, Write(t)
  PROVE  Inv'
<1> USE DEF netVars, mainVars, threadVars, TypeOK, Table, MainKnows, HandOff,
            Ownership, PeerKnown, Reading, Distinct, Active, Desc, Pending, MainHolds, Serving
<1>1. CASE Die
  BY <1>1 DEF Die, Inv, Undisturbed
<1>2. CASE /\ dest' = [dest EXCEPT ![t] = IF Broken(t) THEN None ELSE At(t)]
           /\ pc' = [pc EXCEPT ![t] = "close"]
           /\ UNCHANGED <<netVars, fd, streams, mainVars, c_socket, client, buffer, up>>
  <2>1. Table'
    BY <1>2 DEF Inv
  <2> SUFFICES ASSUME ~raced' PROVE Undisturbed'
    BY <2>1 DEF Inv
  <2>2. Undisturbed /\ pc[t] = "write"
    BY <1>2 DEF Inv, Write
  <2>3. /\ c_socket[t] # None /\ fd[c_socket[t]] # None
        /\ At(t) = fd[c_socket[t]]
    BY <2>2 DEF Undisturbed, At
  <2>4. dest'[t] = IF peer[fd[c_socket[t]]] = "reset" THEN None ELSE fd[c_socket[t]]
    BY <1>2, <2>3 DEF Broken
  <2>5. MainKnows' /\ HandOff' /\ Ownership' /\ PeerKnown'
    BY <1>2, <2>2 DEF Undisturbed
  <2>6. Reading'
    BY <1>2, <2>2, <2>3, <2>4 DEF Undisturbed
  <2>7. Distinct'
    <3>1. \A u \in Threads : dest[u] # None => dest[u] # fd[c_socket[t]]
      BY <2>2, <2>3 DEF Undisturbed, Inv
    <3> QED
      BY <1>2, <2>2, <2>4, <3>1 DEF Undisturbed
  <2> QED
    BY <2>5, <2>6, <2>7 DEF Undisturbed
<1> QED
  BY <1>1, <1>2 DEF Write

(* Every step of the engine keeps the inductive invariant.                 *)
LEMMA InvStep == TypeOK /\ Inv /\ [Next]_vars => Inv'
<1> SUFFICES ASSUME TypeOK, Inv, [Next]_vars
             PROVE  Inv'
  OBVIOUS
<1> USE DEF netVars, mainVars, threadVars, Active, Desc, MainHolds, Pending,
            Serving, TypeOK, Inv, Undisturbed, Table, MainKnows, HandOff,
            Ownership, PeerKnown, Reading, Distinct
<1>1. ASSUME NEW c \in Conns, ClientConnect(c) PROVE Inv'
  BY <1>1 DEF ClientConnect
<1>2. ASSUME NEW c \in Conns, NEW n \in 1 .. ReqLen[c], ClientSend(c, n)
      PROVE  Inv'
  BY <1>2 DEF ClientSend
<1>3. ASSUME NEW c \in Conns, ClientShutdown(c) PROVE Inv'
  BY <1>3 DEF ClientShutdown
<1>4. ASSUME NEW c \in Conns, ClientReset(c) PROVE Inv'
  BY <1>4 DEF ClientReset
<1>5. CASE ServerInit
  BY <1>5 DEF ServerInit
<1>6. CASE InitFails \/ MainReturns
  BY <1>6 DEF InitFails, MainReturns, Die
<1>7. CASE AcceptFails
  <2>1. Table'
    BY <1>7 DEF AcceptFails
  <2> SUFFICES ASSUME ~raced' PROVE Undisturbed'
    BY <2>1
  <2>2. Undisturbed /\ \A t \in Threads : ~Pending(t)
    BY <1>7 DEF AcceptFails
  <2> QED
    BY <1>7, <2>2 DEF AcceptFails
<1>8. CASE CreateFails
  BY <1>8 DEF CreateFails
<1>9. CASE Quit
  BY <1>9 DEF Quit
<1>10. CASE DeleteApp
  BY <1>10 DEF DeleteApp
<1>11. ASSUME NEW t \in Threads, CopyClient(t) PROVE Inv'
  BY <1>11 DEF CopyClient, InRun
<1>12. ASSUME NEW t \in Threads, ReadEof(t) PROVE Inv'
  BY <1>12 DEF ReadEof
<1>13. ASSUME NEW t \in Threads, ReadError(t) PROVE Inv'
  BY <1>13 DEF ReadError
<1>14. ASSUME NEW t \in Threads, Close(t) PROVE Inv'
  BY <1>14 DEF Close, At
<1>15. CASE UNCHANGED vars
  BY <1>15 DEF vars
<1> QED
  BY <1>1, <1>2, <1>3, <1>4, <1>5, <1>6, <1>7, <1>8, <1>9, <1>10, <1>11, <1>12,
     <1>13, <1>14, <1>15, AcceptKeepsInv, FillKeepsInv, CreateKeepsInv,
     CopyKeepsInv, ReadKeepsInv, ComputeKeepsInv, WriteKeepsInv
  DEF Next, ClientNext, MainNext, ThreadNext

THEOREM InvCorrect == Spec => []Inv
BY TypeInit, TypeStep, TypeCorrect, InvInit, InvStep, PTL DEF Spec

(* A response is computed from exactly the bytes read from the connection  *)
(* it is written to, and from no other connection's.                       *)
THEOREM OwnRequestOnlyCorrect == Spec => []OwnRequestOnly
<1>1. Inv => OwnRequestOnly
  BY ServerAssumption
  DEF ServerAssumption, OwnRequestOnly, Inv, Undisturbed, Reading
<1> QED
  BY <1>1, InvCorrect, PTL

(* No connection is answered by two threads: of two that wrote to it, one  *)
(* would have written after the other closed it, or share its descriptor.  *)
THEOREM AnsweredOnceCorrect == Spec => []AnsweredOnce
<1>1. Inv => AnsweredOnce
  BY DEF Inv, Undisturbed, Distinct, AnsweredOnce
<1> QED
  BY <1>1, InvCorrect, PTL

(* The access log names the client that sent the request, or none.  While  *)
(* a thread serves, the invariant says so; after, nothing it logged moves. *)
THEOREM LogNamesPeerCorrect == Spec => []LogNamesPeer
<1> DEFINE LogWhileServing ==
  ~raced => \A t \in Threads, c \in Conns :
    pc[t] \in {"call", "write", "close"} /\ client[t] = c
      => buffer[t] \subseteq Bytes(c)
<1>1. Init => LogNamesPeer
  BY DEF Init, LogNamesPeer
<1>2. TypeOK /\ Inv => LogWhileServing
  <2> SUFFICES ASSUME TypeOK, Inv, ~raced, NEW t \in Threads, NEW c \in Conns,
                      pc[t] \in {"call", "write", "close"}, client[t] = c
               PROVE  buffer[t] \subseteq Bytes(c)
    OBVIOUS
  <2>1. c = fd[c_socket[t]]
    BY ServerAssumption
    DEF ServerAssumption, Inv, Undisturbed, PeerKnown, Serving
  <2>2. buffer[t] = Prefix(c, consumed[c])
    BY <2>1 DEF Inv, Undisturbed, Reading, Active, Desc, Serving
  <2>3. consumed[c] \in Nat /\ ReqLen[c] \in Nat /\ consumed[c] <= ReqLen[c]
    BY ServerAssumption DEF TypeOK, ServerAssumption
  <2> QED
    BY <2>2, <2>3 DEF Prefix, Bytes
<1>3. TypeOK /\ [Next]_vars =>
        \A t \in Threads :
          /\ ~raced' => ~raced
          /\ pc'[t] = "done" => /\ pc[t] \in {"close", "done"}
                               /\ client'[t] = client[t] /\ buffer'[t] = buffer[t]
  <2> SUFFICES ASSUME TypeOK, [Next]_vars, NEW t \in Threads
               PROVE  /\ ~raced' => ~raced
                      /\ pc'[t] = "done" =>
                           /\ pc[t] \in {"close", "done"}
                           /\ client'[t] = client[t] /\ buffer'[t] = buffer[t]
    OBVIOUS
  <2> USE DEF TypeOK, netVars, mainVars, threadVars, Die
  <2>1. CASE ClientNext
    BY <2>1 DEF ClientNext, ClientConnect, ClientSend, ClientShutdown, ClientReset
  <2>2. CASE MainNext
    BY <2>2 DEF MainNext, ServerInit, InitFails, AcceptConnection, AcceptFails,
                FillConnection, FillClient, CreateThread, CreateFails, Quit,
                DeleteApp, MainReturns
  <2>3. ASSUME NEW u \in Threads, ThreadNext(u)
        PROVE  /\ ~raced' => ~raced
               /\ pc'[t] = "done" =>
                    /\ pc[t] \in {"close", "done"}
                    /\ client'[t] = client[t] /\ buffer'[t] = buffer[t]
    BY <2>3 DEF ThreadNext, CopyConnection, CopyClient, ReadSome, ReadEof,
                ReadError, Parse, CallApp, Write, Close
  <2>4. CASE UNCHANGED vars
    BY <2>4 DEF vars
  <2> QED
    BY <2>1, <2>2, <2>3, <2>4 DEF Next
<1>4. TypeOK' /\ Inv' => LogWhileServing'
  BY <1>2, PTL
<1>5. LogNamesPeer /\ TypeOK /\ TypeOK' /\ Inv' /\ [Next]_vars => LogNamesPeer'
  <2> SUFFICES ASSUME LogNamesPeer, TypeOK, TypeOK', Inv', [Next]_vars, ~raced',
                      NEW t \in Threads, NEW c \in Conns,
                      pc'[t] \in {"call", "write", "close", "done"}, client'[t] = c
               PROVE  buffer'[t] \subseteq Bytes(c)
    BY DEF LogNamesPeer
  <2>1. CASE pc'[t] = "done"
    BY <1>3, <2>1 DEF LogNamesPeer
  <2>2. CASE pc'[t] \in {"call", "write", "close"}
    BY <1>4, <2>2
  <2> QED
    BY <2>1, <2>2
<1> QED
  BY <1>1, <1>5, TypeCorrect, InvCorrect, PTL DEF Spec

(* No connection is closed in silence.                                     *)
THEOREM ClosedMeansAnsweredCorrect == Spec => []ClosedMeansAnswered
<1>1. Init => ClosedMeansAnswered
  BY DEF Init, ClosedMeansAnswered
<1>2. TypeOK /\ Inv /\ ClosedMeansAnswered /\ [Next]_vars => ClosedMeansAnswered'
  <2> SUFFICES ASSUME TypeOK, Inv, ClosedMeansAnswered, [Next]_vars, ~raced',
                      NEW c \in Conns, phase'[c] = "closed", peer'[c] # "reset"
               PROVE  \E t \in Threads : dest'[t] = c
    BY DEF ClosedMeansAnswered
  <2> USE DEF TypeOK, ClosedMeansAnswered, netVars, mainVars, threadVars, Die
  <2>1. CASE ClientNext
    BY <2>1 DEF ClientNext, ClientConnect, ClientSend, ClientShutdown, ClientReset
  <2>2. CASE MainNext
    BY <2>2 DEF MainNext, ServerInit, InitFails, AcceptConnection, AcceptFails,
                FillConnection, FillClient, CreateThread, CreateFails, Quit,
                DeleteApp, MainReturns
  <2>3. ASSUME NEW u \in Threads, Write(u)
        PROVE  \E t \in Threads : dest'[t] = c
    <3>1. phase' = phase /\ peer' = peer /\ raced' = raced
      BY <2>3 DEF Write
    <3>2. PICK t \in Threads : dest[t] = c
      BY <3>1
    <3>3. pc[u] = "write" /\ c # None
      BY <2>3, ServerAssumption DEF Write, ServerAssumption
    <3>4. t # u
      BY <3>1, <3>2, <3>3 DEF Inv, Undisturbed, Reading
    <3>5. dest'[t] = dest[t]
      BY <2>3, <3>4 DEF Write
    <3> QED
      BY <3>2, <3>5
  <2>4. ASSUME NEW u \in Threads, Close(u)
        PROVE  \E t \in Threads : dest'[t] = c
    <3>1. CASE phase[c] = "closed"
      BY <2>4, <3>1 DEF Close
    <3>2. CASE phase[c] # "closed"
      <4>1. c = At(u) /\ pc[u] = "close" /\ ~raced /\ peer[c] # "reset"
        BY <2>4, <3>2 DEF Close
      <4>2. dest[u] = c
        BY <4>1, ServerAssumption
        DEF ServerAssumption, At, Inv, Undisturbed, Reading
      <4> QED
        BY <2>4, <4>2 DEF Close
    <3> QED
      BY <3>1, <3>2
  <2>5. ASSUME NEW u \in Threads,
               CopyConnection(u) \/ CopyClient(u) \/ ReadSome(u) \/ ReadEof(u)
                 \/ ReadError(u) \/ Parse(u) \/ CallApp(u)
        PROVE  \E t \in Threads : dest'[t] = c
    BY <2>5 DEF CopyConnection, CopyClient, ReadSome, ReadEof, ReadError, Parse,
                CallApp
  <2>6. CASE UNCHANGED vars
    BY <2>6 DEF vars
  <2> QED
    BY <2>1, <2>2, <2>3, <2>4, <2>5, <2>6 DEF Next, ThreadNext
<1> QED
  BY <1>1, <1>2, TypeCorrect, InvCorrect, PTL DEF Spec

(* How the charge of a descriptor passes on in a step: from run() to the   *)
(* thread it creates, from a thread to nobody.                             *)
ChargeMoves(f) ==
  /\ \A t \in Threads : Holds(t, f) =>
       \/ Holds(t, f)'
       \/ pc'[t] = "returned" /\ c_socket'[t] = f
       \/ fd'[f] = None
  /\ MainHolds(f) => \/ MainHolds(f)'
                     \/ \E t \in Threads : Holds(t, f)'
                     \/ \A t \in Threads : pc[t] # "unborn"
  /\ \A t \in Threads : pc[t] = "returned" =>
       pc'[t] = "returned" /\ c_socket'[t] = c_socket[t]
  /\ \A t \in Threads : pc'[t] = "unborn" => pc[t] = "unborn"
  /\ fd'[f] # None => fd[f] # None \/ MainHolds(f)'
  /\ \A t \in Threads : Holds(t, f)' => Holds(t, f) \/ MainHolds(f)
  /\ MainHolds(f)' => MainHolds(f) \/ fd[f] = None
  /\ fd[f] # None /\ fd'[f] = None => \E t \in Threads : Holds(t, f)
  /\ f \in streams => f \in streams'

LEMMA StepMovesCharge ==
  ASSUME TypeOK, Inv, [Next]_vars, ~raced', NEW f \in Fds
  PROVE  ~raced /\ ChargeMoves(f)
<1> USE DEF ChargeMoves, Holds, Active, Desc, MainHolds, Serving, TypeOK,
            netVars, mainVars, threadVars
<1>1. CASE ClientNext \/ UNCHANGED vars
  BY <1>1 DEF ClientNext, ClientConnect, ClientSend, ClientShutdown, ClientReset,
              vars
<1>2. CASE ServerInit \/ InitFails \/ MainReturns \/ Quit \/ DeleteApp \/ CreateFails
  BY <1>2 DEF ServerInit, InitFails, MainReturns, Quit, DeleteApp, CreateFails, Die
<1>3. CASE AcceptFails
  BY <1>3 DEF AcceptFails
<1>4. ASSUME NEW c \in Conns, NEW g \in Fds, AcceptConnection(c, g)
      PROVE  ~raced /\ ChargeMoves(f)
  BY <1>4, ServerAssumption DEF AcceptConnection, FreeFds, ServerAssumption
<1>5. CASE FillConnection
  BY <1>5 DEF FillConnection
<1>6. CASE FillClient
  BY <1>6 DEF FillClient
<1>7. ASSUME NEW t \in Threads, CreateThread(t) PROVE ~raced /\ ChargeMoves(f)
  BY <1>7 DEF CreateThread, Inv, Undisturbed, MainKnows
<1>8. ASSUME NEW t \in Threads, CopyConnection(t) PROVE ~raced /\ ChargeMoves(f)
  <2>1. raced' = raced /\ pc[t] = "start"
    BY <1>8, Zenon DEF CopyConnection, Die
  <2>2. InRun
    BY <2>1 DEF Inv, Undisturbed, HandOff, InRun
  <2>3. /\ c_socket' = [c_socket EXCEPT ![t] = data_connection]
        /\ pc' = [pc EXCEPT ![t] = "peer"]
        /\ UNCHANGED <<netVars, fd, streams, mainVars, client, buffer, dest, up>>
    BY <1>8, <2>2 DEF CopyConnection
  <2> QED
    BY <2>1, <2>3
<1>9. ASSUME NEW t \in Threads, CopyClient(t) \/ ReadSome(t) \/ ReadEof(t) \/ ReadError(t)
      PROVE  ~raced /\ ChargeMoves(f)
  BY <1>9 DEF CopyClient, ReadSome, ReadEof, ReadError
<1>10. ASSUME NEW t \in Threads, Parse(t) \/ CallApp(t) \/ Write(t)
       PROVE  ~raced /\ ChargeMoves(f)
  <2>1. raced' = raced /\ UNCHANGED <<fd, mpc, sockfd, data_connection, c_socket>>
    BY <1>10, Zenon DEF Parse, CallApp, Write, Die
  <2>2. \/ pc' = pc
        \/ /\ pc[t] \in {"parse", "call", "write"}
           /\ \E s \in {"call", "write", "close"} : pc' = [pc EXCEPT ![t] = s]
    BY <1>10, Zenon DEF Parse, CallApp, Write, Die
  <2>3. streams \subseteq streams'
    BY <1>10 DEF Parse, CallApp, Write, Die
  <2> QED
    BY <2>1, <2>2, <2>3
<1>11. ASSUME NEW t \in Threads, Close(t) PROVE ~raced /\ ChargeMoves(f)
  <2>1. raced' = raced /\ UNCHANGED <<mpc, sockfd, data_connection, c_socket>>
    BY <1>11, Zenon DEF Close
  <2>2. pc[t] = "close" /\ pc' = [pc EXCEPT ![t] = "done"]
    BY <1>11 DEF Close
  <2>3. \/ fd' = fd /\ At(t) = None
        \/ fd' = [fd EXCEPT ![c_socket[t]] = None]
    BY <1>11 DEF Close
  <2>4. Ownership
    BY <2>1 DEF Inv, Undisturbed
  <2>5. UNCHANGED streams
    <3>1. At(t) # None
      BY <2>2, <2>4 DEF Ownership, At
    <3> QED
      BY <1>11, <3>1 DEF Close
  <2> QED
    BY <2>1, <2>2, <2>3, <2>4, <2>5 DEF Ownership, At
<1> QED
  BY <1>1, <1>2, <1>3, <1>4, <1>5, <1>6, <1>7, <1>8, <1>9, <1>10, <1>11
  DEF Next, MainNext, ThreadNext

(* As long as pthread_create() has not failed, only a read() error leaves  *)
(* a descriptor that nobody will close.                                    *)
THEOREM OrphanCauseCorrect == Spec => []OrphanCause
<1>1. Init => OrphanCause
  BY DEF Init, OrphanCause, Orphan
<1>2. TypeOK /\ Inv /\ OrphanCause /\ [Next]_vars => OrphanCause'
  <2> SUFFICES ASSUME TypeOK, Inv, OrphanCause, [Next]_vars, ~raced',
                      NEW u \in Threads, pc'[u] = "unborn",
                      NEW f \in Fds, Orphan(f)'
               PROVE  \E t \in Threads : pc'[t] = "returned" /\ c_socket'[t] = f
    BY DEF OrphanCause
  <2>1. ~raced /\ ChargeMoves(f)
    BY StepMovesCharge
  <2>2. pc[u] = "unborn" /\ fd[f] # None /\ ~MainHolds(f)
    BY <2>1 DEF ChargeMoves, Orphan
  <2>3. CASE \E t \in Threads : Holds(t, f)
    BY <2>1, <2>3 DEF ChargeMoves, Orphan
  <2>4. CASE Orphan(f)
    BY <2>1, <2>2, <2>4 DEF ChargeMoves, OrphanCause
  <2> QED
    BY <2>2, <2>3, <2>4 DEF Orphan
<1> QED
  BY <1>1, <1>2, TypeCorrect, InvCorrect, PTL DEF Spec

(* A lost descriptor stays lost for the rest of the process.                 *)
THEOREM LostForeverCorrect == Spec => LostForever
<1>1. TypeOK /\ Inv /\ [Next]_vars =>
        [~raced' => \A f \in Fds : Lost(f) => Lost(f)']_vars
  <2> SUFFICES ASSUME TypeOK, Inv, [Next]_vars, ~raced', NEW f \in Fds, Lost(f)
               PROVE  Lost(f)'
    OBVIOUS
  <2>1. ChargeMoves(f)
    BY StepMovesCharge
  <2> QED
    BY <2>1 DEF ChargeMoves, Lost, Orphan
<1> QED
  BY <1>1, TypeCorrect, InvCorrect, PTL DEF Spec, LostForever

-----------------------------------------------------------------------------
(***************************************************************************)
(* The engine implements Service, for any number of connections, threads   *)
(* and descriptors: every step of Server is a step of Service under the    *)
(* refinement mapping of ServerProperties, or changes nothing of it.       *)
(***************************************************************************)

(* A response has only been written to a connection that was accepted,     *)
(* races or not.                                                           *)
Arrived == \A t \in Threads : dest[t] # None => phase[dest[t]] \notin {"idle", "queued"}

LEMMA ArrivedInit == Init => Arrived
  BY DEF Init, Arrived

LEMMA ArrivedStep == TypeOK /\ Table /\ Arrived /\ [Next]_vars => Arrived'
<1> SUFFICES ASSUME TypeOK, Table, Arrived, [Next]_vars PROVE Arrived'
  OBVIOUS
<1>1. CASE dest' = dest /\ \A c \in Conns :
             phase[c] \notin {"idle", "queued"} => phase'[c] \notin {"idle", "queued"}
  BY <1>1 DEF Arrived, TypeOK
<1> USE DEF netVars, mainVars, threadVars, TypeOK
<1>2. ASSUME NEW t \in Threads, Write(t) PROVE Arrived'
  <2>1. phase' = phase /\ (dest' = dest \/ dest' = [dest EXCEPT ![t] = None]
                             \/ dest' = [dest EXCEPT ![t] = At(t)])
    BY <1>2 DEF Write, Die
  <2>2. At(t) # None => phase[At(t)] = "open"
    BY DEF At, Table
  <2> QED
    BY <2>1, <2>2 DEF Arrived
<1>3. ASSUME NEW c \in Conns,
             \/ ClientConnect(c) \/ ClientShutdown(c) \/ ClientReset(c)
             \/ \E n \in 1 .. ReqLen[c] : ClientSend(c, n)
             \/ \E f \in Fds : AcceptConnection(c, f)
      PROVE  Arrived'
  BY <1>1, <1>3 DEF ClientConnect, ClientShutdown, ClientReset, ClientSend, AcceptConnection
<1>4. CASE ServerInit \/ InitFails \/ AcceptFails \/ FillConnection \/ FillClient
           \/ CreateFails \/ Quit \/ DeleteApp \/ MainReturns \/ UNCHANGED vars
  BY <1>1, <1>4 DEF ServerInit, InitFails, AcceptFails, FillConnection, FillClient,
                    CreateFails, Quit, DeleteApp, MainReturns, Die, vars
<1>5. ASSUME NEW t \in Threads, CreateThread(t) \/ CopyConnection(t) \/ CopyClient(t)
                                \/ ReadSome(t) \/ ReadEof(t) \/ ReadError(t)
      PROVE  Arrived'
  BY <1>1, <1>5 DEF CreateThread, CopyConnection, CopyClient, ReadSome, ReadEof, ReadError,
                    Die
<1>6. ASSUME NEW t \in Threads, Parse(t) \/ CallApp(t) \/ Close(t) PROVE Arrived'
  BY <1>1, <1>6 DEF Parse, CallApp, Close, Die, At
<1> QED
  BY <1>2, <1>3, <1>4, <1>5, <1>6 DEF Next, ClientNext, MainNext, ThreadNext

LEMMA ArrivedCorrect == Spec => []Arrived
<1>1. Inv => Table
  BY DEF Inv
<1> QED
  BY <1>1, ArrivedInit, ArrivedStep, TypeCorrect, InvCorrect, PTL DEF Spec

-----------------------------------------------------------------------------
Answered(c) == \A t, u \in Answerers(c) : t = u /\ buffer[t] \subseteq Bytes(c)

(* The refinement mapping, branch by branch.                               *)
LEMMA StatusCases ==
  ASSUME TypeOK, NEW c \in Conns
  PROVE  StatusOf(c) = IF phase[c] = "idle" THEN "new"
                       ELSE IF Answerers(c) # {}
                            THEN IF Answered(c) THEN "answered" ELSE "misanswered"
                       ELSE IF phase[c] \in {"closed", "lost"} THEN "lost"
                       ELSE "waiting"
<1>1. phase[c] \in Phases
  BY DEF TypeOK
<1> QED
  BY <1>1 DEF StatusOf, Answered, Phases

(* Of a step that writes no response.                                      *)
LEMMA NothingWritten ==
  ASSUME TypeOK, TypeOK', NEW c \in Conns, UNCHANGED dest, UNCHANGED buffer
  PROVE  /\ phase'[c] = phase[c] => StatusOf(c)' = StatusOf(c)
         /\ phase[c] = "queued" /\ phase'[c] = "open" => StatusOf(c)' = StatusOf(c)
         /\ phase[c] \in {"queued", "open"} /\ phase'[c] \in {"closed", "lost"} =>
              \/ StatusOf(c)' = StatusOf(c)
              \/ StatusOf(c) = "waiting" /\ StatusOf(c)' = "lost"
<1>1. Answerers(c)' = Answerers(c) /\ Answered(c)' = Answered(c)
  BY DEF Answerers, Answered
<1>2. StatusOf(c)' = IF phase'[c] = "idle" THEN "new"
                     ELSE IF Answerers(c) # {}
                          THEN IF Answered(c) THEN "answered" ELSE "misanswered"
                     ELSE IF phase'[c] \in {"closed", "lost"} THEN "lost"
                     ELSE "waiting"
  <2>1. StatusOf(c)' = IF phase'[c] = "idle" THEN "new"
                       ELSE IF Answerers(c)' # {}
                            THEN IF Answered(c)' THEN "answered" ELSE "misanswered"
                       ELSE IF phase'[c] \in {"closed", "lost"} THEN "lost"
                       ELSE "waiting"
    <3>1. phase'[c] \in Phases
      BY DEF TypeOK
    <3> QED
      BY <3>1 DEF StatusOf, Answered, Phases
  <2> QED
    BY <1>1, <2>1
<1> QED
  BY <1>2, StatusCases

Mapped == [c \in Conns |-> StatusOf(c)]
Gone == {c \in Conns : peer[c] = "reset"}
Offended == \E t \in Threads : Offends(t)

(* A step that changes nothing of the mapping stutters.                    *)
LEMMA Stutters ==
  ASSUME UNCHANGED <<Mapped, Gone, Stage, Offended, raced>>
  PROVE  UNCHANGED Promise!vars
  BY DEF Mapped, Gone, Offended, Promise!vars

(* One that only shows what a thread has read to be no request does not.   *)
LEMMA MayOffend ==
  ASSUME UNCHANGED <<Mapped, Gone, Stage, raced>>, Stage # "ended", Offended => Offended'
  PROVE  [Promise!Next]_(Promise!vars)
<1>1. CASE Offended \/ ~Offended'
  <2>1. Offended' <=> Offended
    BY <1>1
  <2>2. Offended' = Offended
    BY <2>1 DEF Offended
  <2> QED
    BY <2>2, Stutters
<1>2. CASE Offended'
  <2>1. Promise!Offend
    BY <1>2 DEF Promise!Offend, Mapped, Gone, Offended
  <2> QED
    BY <2>1 DEF Promise!Next
<1> QED
  BY <1>1, <1>2

(* Threads that have read their requests keep what they have read.         *)
Taken == {"parse", "call", "write", "close", "done"}

LEMMA SameOffence ==
  ASSUME UNCHANGED buffer, \A t \in Threads : pc'[t] \in Taken <=> pc[t] \in Taken
  PROVE  Offended' = Offended
<1>1. \A t \in Threads : Offends(t)' <=> Offends(t)
  BY DEF Offends, Taken
<1>2. Offended' <=> Offended
  BY <1>1 DEF Offended
<1> QED
  BY <1>2 DEF Offended

LEMMA SameStatus ==
  ASSUME TypeOK, TypeOK', UNCHANGED <<dest, buffer, phase>>
  PROVE  Mapped' = Mapped
<1>1. \A c \in Conns : StatusOf(c)' = StatusOf(c)
  BY NothingWritten
<1> QED
  BY <1>1 DEF Mapped

(* Once a hand-off has raced, any status of a connection that has arrived  *)
(* may be lost, answered twice, or come back.                              *)
LEMMA Anything ==
  ASSUME TypeOK, TypeOK', raced, Stage # "ended", UNCHANGED <<Gone, Stage, raced>>,
         Offended => Offended',
         \A c \in Conns : phase[c] = "idle" <=> phase'[c] = "idle"
  PROVE  Promise!Next
<1>1. \A c \in Conns : /\ StatusOf(c)' \in Promise!Status
                       /\ StatusOf(c)' = "new" <=> phase'[c] = "idle"
                       /\ StatusOf(c) = "new" <=> phase[c] = "idle"
  <2> SUFFICES ASSUME NEW c \in Conns
               PROVE  /\ StatusOf(c)' \in Promise!Status
                      /\ StatusOf(c)' = "new" <=> phase'[c] = "idle"
                      /\ StatusOf(c) = "new" <=> phase[c] = "idle"
    OBVIOUS
  <2>1. phase'[c] \in Phases /\ phase[c] \in Phases
    BY DEF TypeOK
  <2> QED
    BY <2>1 DEF StatusOf, Promise!Status, Phases
<1>2. Mapped' \in [Conns -> Promise!Status]
  BY <1>1 DEF Mapped
<1>3. \A c \in Conns : Mapped[c] = "new" <=> Mapped'[c] = "new"
  BY <1>1 DEF Mapped
<1>4. Offended' = Offended \/ Offended' = TRUE
  BY DEF Offended
<1>5. Promise!Chaos
  BY <1>2, <1>3, <1>4 DEF Promise!Chaos, Mapped, Gone, Offended
<1> QED
  BY <1>5 DEF Promise!Next

(* Connections given up by the engine when it stops: those that no thread  *)
(* has answered.                                                           *)
LEMMA GivenUp ==
  ASSUME TypeOK, TypeOK', UNCHANGED <<dest, buffer>>,
         \A c \in Conns : \/ phase'[c] = phase[c]
                          \/ phase[c] = "queued" /\ phase'[c] = "lost"
  PROVE  \E L \in SUBSET Promise!Waiting : Promise!GiveUp(L)
<1> DEFINE L == {c \in Conns : StatusOf(c) = "waiting" /\ StatusOf(c)' = "lost"}
<1>1. \A c \in Conns : StatusOf(c)' = IF c \in L THEN "lost" ELSE StatusOf(c)
  BY NothingWritten
<1>2. L \in SUBSET Promise!Waiting
  BY DEF Promise!Waiting
<1> HIDE DEF L
<1>3. Promise!GiveUp(L)
  BY <1>1 DEF Promise!GiveUp
<1> QED
  BY <1>2, <1>3

-----------------------------------------------------------------------------
(* A step after which the engine has ended, and no other variable changed. *)
LEMMA DeathEnds ==
  ASSUME TypeOK, TypeOK', up, Die,
         Stage \in {"starting", "stopping"} \/ Gone # {} \/ Offended \/ AppThrows
  PROVE  Promise!Next
<1>1. UNCHANGED <<Mapped, Gone, raced>> /\ Stage' = "ended" /\ Stage # "ended"
  BY SameStatus DEF Die, Gone, Stage, netVars, mainVars, threadVars
<1>2. Offended' = Offended
  BY SameOffence DEF Die, threadVars
<1> QED
  BY <1>1, <1>2 DEF Promise!Next, Promise!End, Mapped, Gone, Offended

(* The clients' steps: they connect, send, end their stream, reset.        *)
LEMMA ClientsRefine ==
  ASSUME TypeOK, TypeOK', Arrived, ClientNext
  PROVE  [Promise!Next]_(Promise!vars)
<1>0. UNCHANGED <<Stage, raced, dest, buffer, pc>> /\ Stage # "ended"
  BY DEF ClientNext, ClientConnect, ClientSend, ClientShutdown, ClientReset, mainVars,
         threadVars, Stage, InRun
<1>1. UNCHANGED <<Stage, raced, dest, buffer, Offended>> /\ Stage # "ended"
  BY <1>0, SameOffence
<1>2. ASSUME NEW c \in Conns, ClientConnect(c) PROVE Promise!Next
  <2>1. /\ phase[c] = "idle" /\ phase' = [phase EXCEPT ![c] = "queued"]
        /\ Gone' = Gone /\ Stage \in {"serving", "stopping"}
    BY <1>2 DEF ClientConnect, Listening, InRun, Stage, Gone
  <2>2. Answerers(c) = {} /\ Answerers(c)' = {}
    BY <1>1, <2>1, ServerAssumption DEF Answerers, Arrived, ServerAssumption
  <2>3. phase'[c] = "queued"
    BY <2>1 DEF TypeOK
  <2>4. StatusOf(c) = "new" /\ StatusOf(c)' = "waiting"
    BY <2>1, <2>2, <2>3 DEF StatusOf
  <2>5. \A d \in Conns \ {c} : StatusOf(d)' = StatusOf(d)
    BY <1>1, <2>1, NothingWritten DEF TypeOK
  <2>6. Mapped' = [Mapped EXCEPT ![c] = "waiting"]
    BY <2>4, <2>5 DEF Mapped
  <2>7. Promise!Arrive(c)
    BY <1>1, <2>1, <2>4, <2>6 DEF Promise!Arrive, Mapped, Gone, Offended
  <2> QED
    BY <1>1, <2>7 DEF Promise!Next
<1>3. ASSUME NEW c \in Conns,
             ClientShutdown(c) \/ \E n \in 1 .. ReqLen[c] : ClientSend(c, n)
      PROVE  UNCHANGED Promise!vars
  <2>1. UNCHANGED phase /\ Gone' = Gone
    BY <1>3 DEF ClientShutdown, ClientSend, Gone, TypeOK
  <2> QED
    BY <1>1, <2>1, SameStatus, Stutters
<1>4. ASSUME NEW c \in Conns, ClientReset(c) PROVE Promise!Next
  <2>1. UNCHANGED phase /\ phase[c] # "idle" /\ Gone' = Gone \cup {c}
    BY <1>4 DEF ClientReset, Gone, TypeOK
  <2>2. Mapped' = Mapped /\ StatusOf(c) # "new"
    BY <1>1, <2>1, SameStatus, StatusCases
  <2>3. Promise!Leave(c)
    BY <1>1, <2>1, <2>2 DEF Promise!Leave, Mapped, Gone, Offended
  <2> QED
    BY <1>1, <2>3 DEF Promise!Next
<1> QED
  BY <1>2, <1>3, <1>4 DEF ClientNext

(* The main thread's.                                                      *)
LEMMA MainRefines ==
  ASSUME TypeOK, TypeOK', MainNext
  PROVE  [Promise!Next]_(Promise!vars)
<1> USE DEF netVars, mainVars, threadVars
<1>0. Offended' = Offended
  <2>1. UNCHANGED buffer /\ \A t \in Threads : pc'[t] \in Taken <=> pc[t] \in Taken
    BY DEF MainNext, ServerInit, InitFails, AcceptConnection, AcceptFails, FillConnection,
           FillClient, CreateThread, CreateFails, Quit, DeleteApp, MainReturns, Die, Taken,
           TypeOK
  <2> QED
    BY <2>1, SameOffence
<1>1. CASE ServerInit
  <2>1. UNCHANGED <<phase, dest, buffer, raced, Gone>>
    BY <1>1 DEF ServerInit, Gone
  <2>2. Stage = "starting" /\ Stage' = "serving"
    BY <1>1 DEF ServerInit, Stage, InRun
  <2>3. Promise!Open
    BY <1>0, <2>1, <2>2, SameStatus DEF Promise!Open, Mapped, Gone, Offended
  <2> QED
    BY <2>2, <2>3 DEF Promise!Next
<1>2. CASE InitFails \/ MainReturns
  <2>1. Stage \in {"starting", "stopping"} /\ up /\ Die
    BY <1>2 DEF InitFails, MainReturns, Stage, InRun
  <2> QED
    BY <2>1, DeathEnds
<1>3. ASSUME NEW c \in Conns, NEW f \in Fds, AcceptConnection(c, f)
      PROVE  UNCHANGED Promise!vars
  <2>1. /\ UNCHANGED <<dest, buffer, raced, Gone, Stage>>
        /\ phase[c] = "queued" /\ phase' = [phase EXCEPT ![c] = "open"]
    BY <1>3 DEF AcceptConnection, Gone, Stage, InRun
  <2>2. \A d \in Conns : phase'[d] = phase[d] \/ (phase[d] = "queued" /\ phase'[d] = "open")
    BY <2>1 DEF TypeOK
  <2>3. \A d \in Conns : StatusOf(d)' = StatusOf(d)
    BY <2>1, <2>2, NothingWritten
  <2> QED
    BY <1>0, <2>1, <2>3, Stutters DEF Mapped
<1>4. CASE AcceptFails
  <2>1. /\ UNCHANGED <<dest, buffer, Gone>> /\ raced' \in {raced, TRUE}
        /\ Stage = "serving" /\ Stage' = "stopping"
    BY <1>4 DEF AcceptFails, Gone, Stage, InRun, TypeOK
  <2>2. \A c \in Conns : \/ phase'[c] = phase[c]
                         \/ phase[c] = "queued" /\ phase'[c] = "lost"
    BY <1>4 DEF AcceptFails, TypeOK
  <2>3. \E L \in SUBSET Promise!Waiting : Promise!GiveUp(L)
    BY <2>1, <2>2, GivenUp
  <2>4. Promise!Stop
    BY <1>0, <2>1, <2>3 DEF Promise!Stop, Gone, Offended
  <2> QED
    BY <2>1, <2>4 DEF Promise!Next
<1>5. CASE FillConnection \/ FillClient
  <2>1. /\ UNCHANGED <<phase, dest, buffer, Gone, Stage>> /\ raced' \in {raced, TRUE}
        /\ Stage # "ended"
    BY <1>5 DEF FillConnection, FillClient, Gone, Stage, InRun, TypeOK
  <2>2. Mapped' = Mapped
    BY <2>1, SameStatus
  <2>3. CASE raced' = raced
    BY <1>0, <2>1, <2>2, <2>3, Stutters
  <2>4. CASE raced' = TRUE
    BY <1>0, <2>1, <2>2, <2>4 DEF Promise!Next, Promise!Taint, Mapped, Gone, Offended
  <2> QED
    BY <2>1, <2>3, <2>4
<1>6. CASE CreateFails \/ DeleteApp \/ \E t \in Threads : CreateThread(t)
  <2>1. UNCHANGED <<phase, dest, buffer, Gone, Stage, raced>>
    BY <1>6 DEF CreateFails, DeleteApp, CreateThread, Gone, Stage, InRun
  <2> QED
    BY <1>0, <2>1, SameStatus, Stutters
<1>7. CASE Quit
  <2>1. UNCHANGED <<dest, buffer, Gone, raced>> /\ Stage = "stopping" /\ Stage' = "stopping"
    BY <1>7 DEF Quit, Gone, Stage, InRun
  <2>2. \A c \in Conns : \/ phase'[c] = phase[c]
                         \/ phase[c] = "queued" /\ phase'[c] = "lost"
    BY <1>7 DEF Quit
  <2>3. \E L \in SUBSET Promise!Waiting : Promise!GiveUp(L)
    BY <2>1, <2>2, GivenUp
  <2>4. Promise!Drop
    BY <1>0, <2>1, <2>3 DEF Promise!Drop, Gone, Offended
  <2> QED
    BY <2>1, <2>4 DEF Promise!Next
<1> QED
  BY <1>1, <1>2, <1>3, <1>4, <1>5, <1>6, <1>7 DEF MainNext

(* A response is written: the answer to a connection that waits for it, or *)
(* nothing, if the connection is broken.                                   *)
LEMMA WriteRefines ==
  ASSUME TypeOK, TypeOK', Inv, Inv', NEW t \in Threads, Write(t), ~Die
  PROVE  [Promise!Next]_(Promise!vars)
<1> USE DEF netVars, mainVars, threadVars
<1>0. Offended' = Offended
  <2>1. UNCHANGED buffer /\ pc[t] = "write" /\ pc' = [pc EXCEPT ![t] = "close"]
    BY DEF Write
  <2> QED
    BY <2>1, SameOffence DEF Taken, TypeOK
<1>1. /\ UNCHANGED <<phase, fd, buffer, consumed, sent, Gone, Stage, Offended, raced>>
      /\ pc[t] = "write" /\ Stage # "ended"
      /\ dest' = [dest EXCEPT ![t] = IF Broken(t) THEN None ELSE At(t)]
  BY <1>0 DEF Write, Gone, Stage, InRun
<1>2. CASE raced
  BY <1>1, <1>2, Anything
<1>3. CASE ~raced
  <2>1. Undisturbed /\ Distinct'
    BY <1>1, <1>3 DEF Inv, Undisturbed
  <2>2. dest[t] = None /\ At(t) # None /\ At(t) \in Conns /\ phase[At(t)] = "open"
    BY <1>1, <2>1, ServerAssumption
    DEF Undisturbed, Ownership, Reading, Active, Desc, Serving, At, Inv, Table, TypeOK,
        ServerAssumption
  <2>3. CASE Broken(t)
    <3>1. dest' = dest
      BY <1>1, <2>2, <2>3 DEF TypeOK
    <3> QED
      BY <1>1, <3>1, SameStatus, Stutters
  <2>4. CASE ~Broken(t)
    <3>0. PICK c \in Conns : c = At(t)
      BY <2>2
    <3>1. dest' = [dest EXCEPT ![t] = c] /\ dest'[t] = c
      BY <1>1, <2>4, <3>0 DEF TypeOK
    <3>2. Answerers(c)' = {t}
      BY <2>1, <2>2, <3>0, <3>1, ServerAssumption
      DEF Answerers, Distinct, ServerAssumption
    <3>3. Answerers(c) = {}
      BY <2>2, <3>0, <3>1, <3>2, ServerAssumption
      DEF Answerers, TypeOK, ServerAssumption
    <3>4. buffer[t] = Prefix(c, consumed[c])
      <4>1. Active(t) /\ Desc(t) = c_socket[t]
        BY <1>1 DEF Active, Desc, Serving
      <4>2. fd[c_socket[t]] = c
        BY <2>2, <3>0 DEF At
      <4> QED
        BY <2>1, <4>1, <4>2 DEF Undisturbed, Reading
    <3>5. buffer'[t] \subseteq Bytes(c)
      <4>1. /\ consumed[c] \in Nat /\ sent[c] \in Nat /\ ReqLen[c] \in Nat
            /\ consumed[c] <= sent[c] /\ sent[c] <= ReqLen[c]
        BY <2>2, ServerAssumption DEF TypeOK, ServerAssumption
      <4>2. 1 .. consumed[c] \subseteq 1 .. ReqLen[c]
        BY <4>1
      <4> QED
        BY <1>1, <3>4, <4>2 DEF Prefix, Bytes
    <3>6. StatusOf(c) = "waiting" /\ StatusOf(c)' = "answered"
      <4>1. phase'[c] = "open" /\ phase[c] = "open"
        BY <1>1, <2>2, <3>0
      <4>2. StatusOf(c) = "waiting"
        BY <2>2, <3>3, <4>1 DEF StatusOf
      <4>3. \A u, v \in Answerers(c)' : u = v /\ buffer'[u] \subseteq Bytes(c)
        BY <3>2, <3>5
      <4>4. StatusOf(c)' = "answered"
        BY <3>2, <4>1, <4>3 DEF StatusOf
      <4> QED
        BY <4>2, <4>4
    <3>7. ASSUME NEW d \in Conns, d # c PROVE StatusOf(d)' = StatusOf(d)
      <4>1. Answerers(d)' = Answerers(d)
        BY <2>2, <3>0, <3>1, <3>7, ServerAssumption DEF Answerers, TypeOK, ServerAssumption
      <4> QED
        BY <1>1, <4>1 DEF StatusOf
    <3>8. Mapped' = [Mapped EXCEPT ![c] = "answered"]
      BY <3>6, <3>7 DEF Mapped
    <3>9. Promise!Answer(c)
      BY <1>1, <2>2, <3>6, <3>8 DEF Promise!Answer, Mapped, Gone, Offended
    <3> QED
      BY <1>1, <2>2, <3>9 DEF Promise!Next
  <2> QED
    BY <2>3, <2>4
<1> QED
  BY <1>2, <1>3

(* A connection is closed: one that was answered, or that its client has   *)
(* reset.                                                                  *)
LEMMA CloseRefines ==
  ASSUME TypeOK, TypeOK', Inv, NEW t \in Threads, Close(t)
  PROVE  [Promise!Next]_(Promise!vars)
<1> USE DEF netVars, mainVars, threadVars
<1>0. Offended' = Offended
  <2>1. UNCHANGED buffer /\ pc[t] = "close" /\ pc' = [pc EXCEPT ![t] = "done"]
    BY DEF Close
  <2> QED
    BY <2>1, SameOffence DEF Taken, TypeOK
<1>1. /\ UNCHANGED <<dest, buffer, peer, Gone, Stage, Offended, raced>> /\ Stage # "ended"
      /\ pc[t] = "close"
  BY <1>0 DEF Close, Gone, Stage, InRun
<1>2. CASE At(t) = None
  <2>1. UNCHANGED phase
    BY <1>2 DEF Close
  <2> QED
    BY <1>1, <2>1, SameStatus, Stutters
<1>3. CASE At(t) # None
  <2>0. PICK c \in Conns : c = At(t)
    BY <1>3 DEF At, TypeOK
  <2>1. /\ phase[c] = "open"
        /\ phase' = [phase EXCEPT ![c] = "closed"] /\ phase'[c] = "closed"
    BY <1>3, <2>0 DEF Close, At, Inv, Table, TypeOK
  <2>2. CASE raced
    BY <1>1, <2>1, <2>2, Anything DEF TypeOK
  <2>3. CASE ~raced
    <3>1. \A d \in Conns \ {c} : StatusOf(d)' = StatusOf(d)
      BY <1>1, <2>1, NothingWritten DEF TypeOK
    <3>2. CASE StatusOf(c)' = StatusOf(c)
      <4>1. Mapped' = Mapped
        BY <3>1, <3>2 DEF Mapped
      <4> QED
        BY <1>1, <4>1, Stutters
    <3>3. CASE StatusOf(c)' # StatusOf(c)
      <4>1. StatusOf(c) = "waiting" /\ StatusOf(c)' = "lost"
        BY <1>1, <2>1, <3>3, NothingWritten
      <4>2. Answerers(c) = {}
        BY <2>1, <4>1, StatusCases
      <4>3. peer[c] = "reset"
        <5>1. c_socket[t] \in Fds /\ fd[c_socket[t]] = c
          BY <1>3, <2>0 DEF At, TypeOK
        <5>2. dest[t] # c
          BY <4>2 DEF Answerers
        <5> QED
          BY <1>1, <2>3, <5>1, <5>2 DEF Inv, Undisturbed, Reading
      <4>4. Mapped' = [Mapped EXCEPT ![c] = "lost"]
        BY <3>1, <4>1 DEF Mapped
      <4>5. Promise!Lose(c)
        BY <1>1, <2>1, <4>1, <4>3, <4>4 DEF Promise!Lose, Mapped, Gone, Offended
      <4> QED
        BY <1>1, <2>1, <4>5 DEF Promise!Next
    <3> QED
      BY <3>2, <3>3
  <2> QED
    BY <2>2, <2>3
<1> QED
  BY <1>2, <1>3

(* What the other steps of a client thread change is not in the mapping:   *)
(* a thread that reads has not answered, unless a hand-off has raced.      *)
LEMMA ThreadRefines ==
  ASSUME TypeOK, TypeOK', Inv, Inv', NEW t \in Threads, ThreadNext(t)
  PROVE  [Promise!Next]_(Promise!vars)
<1> USE DEF netVars, mainVars, threadVars
<1>0. up
  BY DEF ThreadNext, CopyConnection, CopyClient, ReadSome, ReadEof, ReadError, Parse,
         CallApp, Write, Close
<1>1. CASE Die
  <2>1. \/ pc[t] = "start" /\ ~InRun
        \/ Offends(t)
        \/ AppThrows \/ mpc = "exit"
        \/ At(t) # None /\ peer[At(t)] = "reset"
    <3>1. ~(ReadSome(t) \/ ReadEof(t) \/ ReadError(t) \/ CopyClient(t) \/ Close(t))
      BY <1>0, <1>1 DEF Die, ReadSome, ReadEof, ReadError, CopyClient, Close
    <3>2. CASE CopyConnection(t)
      BY <1>0, <1>1, <3>2 DEF Die, CopyConnection
    <3>3. CASE Parse(t)
      BY <1>0, <1>1, <3>3 DEF Die, Parse, Offends
    <3>4. CASE CallApp(t) \/ Write(t)
      BY <1>0, <1>1, <3>4 DEF Die, CallApp, Write
    <3> QED
      BY <3>1, <3>2, <3>3, <3>4 DEF ThreadNext
  <2>2. CASE pc[t] = "start" /\ ~InRun
    <3>1. Stage \in {"starting", "stopping"}
      BY <1>0, <2>2 DEF Stage
    <3> QED
      BY <1>0, <1>1, <3>1, DeathEnds
  <2>3. CASE Offends(t)
    BY <1>0, <1>1, <2>3, DeathEnds DEF Offended
  <2>4. CASE AppThrows
    BY <1>0, <1>1, <2>4, DeathEnds
  <2>5. CASE mpc = "exit"
    <3>1. Stage \in {"starting", "stopping"}
      BY <1>0, <2>5 DEF Stage, InRun
    <3> QED
      BY <1>0, <1>1, <3>1, DeathEnds
  <2>6. CASE At(t) # None /\ peer[At(t)] = "reset"
    <3>1. At(t) \in Conns
      BY <2>6 DEF At, TypeOK
    <3>2. Gone # {}
      BY <2>6, <3>1 DEF Gone
    <3> QED
      BY <1>0, <1>1, <3>2, DeathEnds
  <2> QED
    BY <2>1, <2>2, <2>3, <2>4, <2>5, <2>6
<1>2. CASE ~Die /\ (CopyConnection(t) \/ CopyClient(t) \/ ReadEof(t) \/ ReadError(t)
                    \/ Parse(t) \/ CallApp(t))
  <2>1. UNCHANGED <<phase, dest, buffer, peer, mpc, up, raced>>
    BY <1>2 DEF CopyConnection, CopyClient, ReadEof, ReadError, Parse, CallApp
  <2>2. UNCHANGED <<Gone, Stage>> /\ Stage # "ended"
    BY <1>0, <2>1 DEF Gone, Stage, InRun
  <2>3. \A u \in Threads : pc[u] \in Taken => pc'[u] \in Taken
    BY <1>2 DEF CopyConnection, CopyClient, ReadEof, ReadError, Parse, CallApp, Taken, TypeOK
  <2>4. Offended => Offended'
    BY <2>1, <2>3 DEF Offended, Offends, Taken
  <2> QED
    BY <2>1, <2>2, <2>4, SameStatus, MayOffend
<1>3. CASE ReadSome(t)
  <2>0. Offended => Offended'
    <3>1. \A u \in Threads : pc[u] \in Taken => pc'[u] = pc[u] /\ buffer'[u] = buffer[u]
      BY <1>3 DEF ReadSome, Taken, TypeOK
    <3> QED
      BY <3>1 DEF Offended, Offends, Taken
  <2>1. /\ UNCHANGED <<phase, dest, Gone, Stage, raced>> /\ Stage # "ended"
        /\ pc[t] = "read" /\ \A u \in Threads \ {t} : buffer'[u] = buffer[u]
    BY <1>3 DEF ReadSome, Gone, Stage, InRun, TypeOK
  <2>2. CASE raced
    BY <2>0, <2>1, <2>2, Anything
  <2>3. CASE ~raced
    <3>1. dest[t] = None
      BY <2>1, <2>3 DEF Inv, Undisturbed, Reading
    <3>2. ASSUME NEW c \in Conns PROVE StatusOf(c)' = StatusOf(c)
      <4>1. /\ t \notin Answerers(c) /\ Answerers(c) \subseteq Threads
            /\ Answerers(c)' = Answerers(c)
        BY <2>1, <3>1, ServerAssumption DEF Answerers, ServerAssumption
      <4>2. (\A u, v \in Answerers(c)' : u = v /\ buffer'[u] \subseteq Bytes(c))
              <=> \A u, v \in Answerers(c) : u = v /\ buffer[u] \subseteq Bytes(c)
        BY <2>1, <4>1
      <4> QED
        BY <2>1, <4>1, <4>2 DEF StatusOf
    <3>3. Mapped' = Mapped
      BY <3>2 DEF Mapped
    <3> QED
      BY <2>0, <2>1, <3>3, MayOffend
  <2> QED
    BY <2>2, <2>3
<1> QED
  BY <1>1, <1>2, <1>3, WriteRefines, CloseRefines DEF ThreadNext

(* Every behaviour of the engine, its races included, is one that Service  *)
(* allows: until a hand-off races, a connection is answered at most once,  *)
(* from its own request, and given up only if its client has reset it or   *)
(* the service is stopping; and, races or not, the process only ends when  *)
(* it has stopped or has a reason.                                         *)
THEOREM ImplementsServiceCorrect == Spec => ImplementsService
<1>1. Init => Promise!Init
  <2> SUFFICES ASSUME Init PROVE Promise!Init
    OBVIOUS
  <2>1. \A c \in Conns : StatusOf(c) = "new"
    BY DEF Init, StatusOf
  <2>2. {c \in Conns : peer[c] = "reset"} = {} /\ Stage = "starting" /\ raced = FALSE
    BY DEF Init, Stage
  <2>3. Offended = FALSE
    BY DEF Init, Offended, Offends
  <2> QED
    BY <2>1, <2>2, <2>3 DEF Promise!Init, Offended
<1>2. TypeOK /\ TypeOK' /\ Inv /\ Inv' /\ Arrived /\ [Next]_vars
        => [Promise!Next]_(Promise!vars)
  <2> SUFFICES ASSUME TypeOK, TypeOK', Inv, Inv', Arrived, [Next]_vars
               PROVE  [Promise!Next]_(Promise!vars)
    OBVIOUS
  <2>1. CASE UNCHANGED vars
    <3>1. UNCHANGED <<phase, dest, buffer, Gone, Stage, raced>>
      BY <2>1 DEF vars, netVars, mainVars, threadVars, Gone, Stage, InRun
    <3>2. Offended' = Offended
      BY <2>1, SameOffence DEF vars, threadVars
    <3> QED
      BY <3>1, <3>2, SameStatus, Stutters
  <2> QED
    BY <2>1, ClientsRefine, MainRefines, ThreadRefines DEF Next
<1> QED
  BY <1>1, <1>2, TypeCorrect, InvCorrect, ArrivedCorrect, PTL
  DEF Spec, ImplementsService, Promise!Spec

-----------------------------------------------------------------------------
(* The bytes of so many full buffers are no others.                        *)
LEMMA WholeBuffers ==
  ASSUME NEW B \in Nat \ {0}, NEW k \in Nat PROVE (k * B) % B = 0
<1> DEFINE a == k * B
           q == a \div B
           m == a % B
<1>1. q \in Int /\ m \in Int /\ a = B * q + m /\ 0 <= m /\ m < B
  <2>1. a \in Nat
    OBVIOUS
  <2> HIDE DEF a
  <2> QED
    BY <2>1
<1> HIDE DEF q, m
<1>2. m = (k - q) * B
  BY <1>1
<1>3. CASE k = q
  BY <1>2, <1>3 DEF m
<1>4. CASE k - q >= 1
  <2>1. (k - q) * B >= B
    BY <1>1, <1>4
  <2> QED
    BY <1>1, <1>2, <2>1
<1>5. CASE k - q <= -1
  <2>1. (k - q) * B <= -B
    BY <1>1, <1>5
  <2> QED
    BY <1>1, <1>2, <2>1
<1>6. k = q \/ k - q >= 1 \/ k - q <= -1
  BY <1>1
<1> QED
  BY <1>3, <1>4, <1>5, <1>6

Whole(n) == \E k \in Nat : n = k * BufferSize

(* As long as a thread reads on, every read() has filled its buffer.       *)
FullReads ==
  ~raced => \A t \in Threads :
    pc[t] \in {"start", "peer", "read"} => Whole(consumed[fd[Desc(t)]])

LEMMA WholeGrows ==
  /\ Whole(0)
  /\ \A n \in Nat : Whole(n) => Whole(n + BufferSize)
<1>1. BufferSize \in Nat
  BY ServerAssumption DEF ServerAssumption
<1>2. 0 = 0 * BufferSize
  BY <1>1
<1>3. ASSUME NEW k \in Nat PROVE k * BufferSize + BufferSize = (k + 1) * BufferSize
  BY <1>1
<1> QED
  BY <1>2, <1>3 DEF Whole

LEMMA FullReadsStep == TypeOK /\ Inv /\ FullReads /\ [Next]_vars => FullReads'
<1> SUFFICES ASSUME TypeOK, Inv, FullReads, [Next]_vars, ~raced', NEW t \in Threads,
                    pc'[t] \in {"start", "peer", "read"}
             PROVE  Whole(consumed[fd[Desc(t)]])'
  BY DEF FullReads
<1> USE DEF netVars, mainVars, threadVars, TypeOK, Pending, Desc
<1> DEFINE Reads == {"start", "peer", "read"}
<1>1. ASSUME ~raced, pc[t] \in Reads, consumed'[fd'[Desc(t)']] = consumed[fd[Desc(t)]]
      PROVE  Whole(consumed'[fd'[Desc(t)']])
  BY <1>1 DEF FullReads
<1>2. ASSUME ~raced
      PROVE  /\ MainKnows /\ Ownership /\ Table
             /\ pc[t] \in Reads => Active(t) /\ Desc(t) # None /\ fd[Desc(t)] # None
  BY <1>2 DEF Inv, Undisturbed, Ownership, Active, Serving
<1>3. CASE UNCHANGED <<consumed, fd, data_connection, pc, c_socket, raced>>
  BY <1>1, <1>3
<1>4. ASSUME NEW c \in Conns, NEW f \in Fds, AcceptConnection(c, f)
      PROVE  Whole(consumed'[fd'[Desc(t)']])
  <2>1. /\ fd' = [fd EXCEPT ![f] = c] /\ fd[f] = None /\ ~raced /\ pc[t] \in Reads
        /\ UNCHANGED <<consumed, data_connection, pc, c_socket>>
    BY <1>4 DEF AcceptConnection, FreeFds
  <2>2. Desc(t) # f /\ Desc(t)' = Desc(t)
    BY <1>2, <2>1
  <2> QED
    BY <1>1, <2>1, <2>2
<1>5. CASE AcceptFails
  <2>1. UNCHANGED <<consumed, fd, data_connection, pc, c_socket>> /\ ~raced
    BY <1>5 DEF AcceptFails
  <2> QED
    BY <1>1, <2>1
<1>6. CASE FillConnection \/ FillClient
  <2>1. /\ ~raced /\ pc[t] # "start" /\ UNCHANGED <<consumed, fd, pc, c_socket>>
    BY <1>6 DEF FillConnection, FillClient
  <2> QED
    BY <1>1, <2>1
<1>7. ASSUME NEW u \in Threads, CreateThread(u)
      PROVE  Whole(consumed'[fd'[Desc(t)']])
  <2>1. /\ ~raced /\ mpc = "create" /\ pc' = [pc EXCEPT ![u] = "start"]
        /\ UNCHANGED <<consumed, fd, data_connection, c_socket>>
    BY <1>7 DEF CreateThread
  <2>2. CASE u = t
    <3>1. Desc(t)' = data_connection /\ consumed[fd[data_connection]] = 0
      BY <1>2, <2>1, <2>2 DEF MainKnows
    <3> QED
      BY <2>1, <3>1, WholeGrows
  <2>3. CASE u # t
    BY <1>1, <2>1, <2>3
  <2> QED
    BY <2>2, <2>3
<1>8. ASSUME NEW u \in Threads, CopyConnection(u)
      PROVE  Whole(consumed'[fd'[Desc(t)']])
  <2>a. pc[u] = "start"
    BY <1>8 DEF CopyConnection
  <2>b. UNCHANGED <<consumed, fd, data_connection, raced>>
    BY <1>8, Zenon DEF CopyConnection, Die
  <2>1. ~raced /\ pc[u] = "start" /\ UNCHANGED <<consumed, fd, data_connection>>
    BY <2>a, <2>b
  <2>2. InRun
    BY <2>1 DEF Inv, Undisturbed, HandOff, InRun
  <2>3. /\ c_socket' = [c_socket EXCEPT ![u] = data_connection]
        /\ pc' = [pc EXCEPT ![u] = "peer"]
    BY <1>8, <2>2 DEF CopyConnection
  <2>4. Desc(t)' = Desc(t) /\ pc[t] \in Reads
    BY <2>1, <2>3
  <2> QED
    BY <1>1, <2>1, <2>4
<1>9. ASSUME NEW u \in Threads, ReadSome(u)
      PROVE  Whole(consumed'[fd'[Desc(t)']])
  <2> DEFINE c == At(u)
             n == ReadSize(c)
  <2>1. c \in Conns /\ c_socket[u] \in Fds /\ c = fd[c_socket[u]] /\ pc[u] = "read"
    BY <1>9 DEF ReadSome, Broken, At
  <2>2. n \in Nat /\ n <= BufferSize /\ consumed[c] \in Nat /\ BufferSize \in Nat
    BY <2>1, ReadSizeBounds, ServerAssumption DEF ServerAssumption
  <2> HIDE DEF c, n
  <2>3. /\ consumed' = [consumed EXCEPT ![c] = @ + n]
        /\ pc' = [pc EXCEPT ![u] = IF ShortRead(n) THEN "parse" ELSE "read"]
        /\ UNCHANGED <<fd, data_connection, c_socket>> /\ ~raced
    BY <1>9 DEF ReadSome, c, n
  <2>4. CASE u = t
    <3>1. n = BufferSize
      BY <2>2, <2>3, <2>4 DEF ShortRead
    <3>2. Desc(t) = c_socket[t] /\ Desc(t)' = c_socket[t] /\ pc[t] \in Reads
      BY <2>1, <2>3, <2>4
    <3>3. Whole(consumed[c])
      BY <2>1, <2>3, <2>4, <3>2 DEF FullReads
    <3>4. consumed'[fd'[Desc(t)']] = consumed[c] + BufferSize
      BY <2>1, <2>3, <2>4, <3>1, <3>2
    <3> QED
      BY <2>2, <3>3, <3>4, WholeGrows
  <2>5. CASE u # t
    <3>1. pc[t] \in Reads /\ Desc(t)' = Desc(t)
      BY <2>3, <2>5
    <3>2. Active(u) /\ Desc(u) = c_socket[u]
      BY <2>1 DEF Active, Serving
    <3>3. fd[Desc(t)] # c
      BY <1>2, <2>1, <2>3, <2>5, <3>1, <3>2 DEF Ownership, Table
    <3> QED
      BY <1>1, <2>3, <3>1, <3>3
  <2> QED
    BY <2>4, <2>5
<1>10. ASSUME NEW u \in Threads,
              CopyClient(u) \/ ReadEof(u) \/ ReadError(u) \/ Parse(u) \/ CallApp(u) \/ Write(u)
       PROVE  Whole(consumed'[fd'[Desc(t)']])
  <2>1. /\ UNCHANGED <<consumed, fd, data_connection, c_socket>> /\ ~raced
        /\ pc[t] \in Reads /\ Desc(t)' = Desc(t)
    BY <1>10 DEF CopyClient, ReadEof, ReadError, Parse, CallApp, Write, Die
  <2> QED
    BY <1>1, <2>1
<1>11. ASSUME NEW u \in Threads, Close(u)
       PROVE  Whole(consumed'[fd'[Desc(t)']])
  <2>1. /\ pc[u] = "close" /\ pc' = [pc EXCEPT ![u] = "done"]
        /\ UNCHANGED <<consumed, data_connection, c_socket>> /\ ~raced
    BY <1>11 DEF Close
  <2>2. u # t /\ pc[t] \in Reads /\ Desc(t)' = Desc(t)
    BY <2>1
  <2>3. Active(u) /\ Desc(u) = c_socket[u]
    BY <2>1 DEF Active, Serving
  <2>4. Desc(t) # c_socket[u]
    BY <1>2, <2>1, <2>2, <2>3 DEF Ownership
  <2>5. fd' = fd \/ fd' = [fd EXCEPT ![c_socket[u]] = None]
    BY <1>11 DEF Close
  <2>6. fd'[Desc(t)] = fd[Desc(t)]
    <3>1. Desc(t) \in Fds
      BY <1>2, <2>1, <2>2
    <3> QED
      BY <2>4, <2>5, <3>1
  <2> QED
    BY <1>1, <2>1, <2>2, <2>6
<1>12. CASE ClientNext
  BY <1>3, <1>12 DEF ClientNext, ClientConnect, ClientSend, ClientShutdown, ClientReset
<1>13. CASE ServerInit \/ InitFails \/ CreateFails \/ Quit \/ DeleteApp \/ MainReturns
  BY <1>3, <1>13 DEF ServerInit, InitFails, CreateFails, Quit, DeleteApp, MainReturns, Die
<1>14. CASE UNCHANGED vars
  BY <1>3, <1>14 DEF vars
<1> QED
  BY <1>4, <1>5, <1>6, <1>7, <1>8, <1>9, <1>10, <1>11, <1>12, <1>13, <1>14
  DEF Next, MainNext, ThreadNext

(* Whatever the size of the buffer, the length of the request and the      *)
(* segments it comes in, a thread that waits for bytes has been sent only  *)
(* part of a request, or one of whole buffers.                             *)
THEOREM NoVainWaitCorrect == Spec => []NoVainWait
<1>1. Init => FullReads
  BY DEF Init, FullReads
<1>2. TypeOK /\ Inv /\ FullReads => NoVainWait
  <2> SUFFICES ASSUME TypeOK, Inv, FullReads, ~raced, NEW t \in Threads, Waits(t),
                      Ends(At(t))
               PROVE  FALSE
    BY DEF NoVainWait
  <2> DEFINE c == At(t)
  <2>1. /\ c \in Conns /\ c = fd[Desc(t)] /\ peer[c] = "open" /\ sent[c] = consumed[c]
        /\ pc[t] = "read"
    BY DEF Waits, Broken, At, Desc, TypeOK
  <2>2. PICK k \in Nat : consumed[c] = k * BufferSize
    BY <2>1 DEF FullReads, Whole
  <2>3. ReqLen[c] = k * BufferSize /\ ReqLen[c] % BufferSize # 0
    BY <2>1, <2>2 DEF Ends
  <2>4. BufferSize \in Nat \ {0}
    BY ServerAssumption DEF ServerAssumption
  <2> QED
    BY <2>3, <2>4, WholeBuffers
<1> QED
  BY <1>1, <1>2, FullReadsStep, TypeCorrect, InvCorrect, PTL DEF Spec
=============================================================================
