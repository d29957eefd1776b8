-------------------------- MODULE ServerProperties --------------------------
(***************************************************************************)
(* What is checked and proved of Server.  Most properties carry the        *)
(* premise ~raced: run() overwrites the record a new thread still reads    *)
(* when two connections come close together, and from then on no thread is *)
(* sure which connection it serves.  They hold of every interleaving up to *)
(* that step, and say that nothing else in the engine breaks them.         *)
(***************************************************************************)
EXTENDS Server

Phases == {"idle", "queued", "open", "closed", "lost"}
Peers == {"open", "half", "reset"}
MainSteps == {"init", "accept", "fill", "client", "create", "quit", "delete", "exit"}
ThreadSteps == {"unborn", "start", "peer", "read", "parse", "call", "write",
                "close", "done", "returned"}

(* Type correctness.  No read() returns a byte that was not sent, and no   *)
(* client sends more than its request.                                     *)
TypeOK ==
  /\ phase \in [Conns -> Phases]
  /\ peer \in [Conns -> Peers]
  /\ sent \in [Conns -> Nat]
  /\ consumed \in [Conns -> Nat]
  /\ \A c \in Conns : consumed[c] <= sent[c] /\ sent[c] <= ReqLen[c]
  /\ fd \in [Fds -> Conns \cup {None}]
  /\ streams \subseteq Fds
  /\ mpc \in MainSteps
  /\ sockfd \in Fds \cup {None}
  /\ client_ \in Conns \cup {None}
  /\ data_connection \in Fds \cup {None}
  /\ data_client \in Conns \cup {None}
  /\ pc \in [Threads -> ThreadSteps]
  /\ c_socket \in [Threads -> Fds \cup {None}]
  /\ client \in [Threads -> Conns \cup {None}]
  /\ buffer \in [Threads -> SUBSET (Conns \X Nat)]
  /\ dest \in [Threads -> Conns \cup {None}]
  /\ up \in BOOLEAN
  /\ raced \in BOOLEAN

-----------------------------------------------------------------------------
(* Who is in charge of a descriptor.                                       *)

Serving == {"peer", "read", "parse", "call", "write", "close"}

(* Thread t has a connection to serve, or will as soon as it copies `data`. *)
Active(t) == pc[t] = "start" \/ pc[t] \in Serving

(* The descriptor of an active thread.                                     *)
Desc(t) == IF pc[t] = "start" THEN data_connection ELSE c_socket[t]

Holds(t, f) == Active(t) /\ Desc(t) = f

(* run() has accepted f and not yet created its thread.                    *)
MainHolds(f) == mpc \in {"fill", "client", "create"} /\ sockfd = f

(* Descriptor f is open and nobody will ever close it.                     *)
Orphan(f) ==
  fd[f] # None /\ ~MainHolds(f) /\ \A t \in Threads : ~Holds(t, f)

-----------------------------------------------------------------------------
(* A response is computed from exactly the bytes read so far from the      *)
(* connection it is written to, none missing, repeated or taken from       *)
(* another client, although the threads share descriptor numbers that the  *)
(* kernel reuses as soon as they are closed.                               *)
OwnRequestOnly ==
  ~raced => \A t \in Threads, c \in Conns :
    dest[t] = c => buffer[t] = Prefix(c, consumed[c])

(* No two threads write a response to the same connection.                 *)
AnsweredOnce ==
  ~raced => \A t, u \in Threads : dest[t] # None /\ dest[t] = dest[u] => t = u

(* client_thread() closes a connection only after the response was written *)
(* to it, or its client had reset it: no connection is closed in silence.  *)
ClosedMeansAnswered ==
  ~raced => \A c \in Conns :
    phase[c] = "closed" /\ peer[c] # "reset" => \E t \in Threads : dest[t] = c

(* The access log line of a thread (client.ip, client.port and the uri)    *)
(* names the client that sent the request, or no client when accept() cut  *)
(* the address short; never another client.                                *)
LogNamesPeer ==
  ~raced => \A t \in Threads : \A c \in Conns :
    pc[t] \in {"call", "write", "close", "done"} /\ client[t] = c
      => buffer[t] \subseteq Bytes(c)

(* Descriptor f is lost: a connection nobody will close, or the stream of  *)
(* a directory somebody has listed.                                        *)
Lost(f) == Orphan(f) \/ f \in streams

(* As long as pthread_create() has not failed, a connection nobody will    *)
(* close is one whose thread returned early on a read() error.             *)
OrphanCause ==
  ~raced /\ (\E t \in Threads : pc[t] = "unborn") =>
    \A f \in Fds : Orphan(f) =>
      \E t \in Threads : pc[t] = "returned" /\ c_socket[t] = f

(* A lost descriptor is never reclaimed while the process lives: no later  *)
(* connection, thread or close() frees it.                                 *)
LostForever ==
  [][~raced' => \A f \in Fds : Lost(f) => Lost(f)']_vars

(* The message `Connexion reset by peer!' of client_thread() is printed    *)
(* only by a thread whose client did reset the connection (threads whose   *)
(* record is gone with the frame of run() aside).  It is not: two threads  *)
(* that copied the same descriptor serve one connection, and the second is *)
(* told that the descriptor the first one closed is a bad one.             *)
ResetMessageTrue ==
  [][\A t \in Threads :
       InRun /\ pc[t] = "read" /\ pc'[t] = "returned" =>
         At(t) # None /\ peer[At(t)] = "reset"]_vars

-----------------------------------------------------------------------------
(* The inductive invariant behind the properties above.                    *)

(* The descriptor table: an entry is an open connection, and a connection  *)
(* has one descriptor, which is no directory's.  Nothing has been read of  *)
(* one not yet accepted.                                                   *)
Table ==
  /\ \A f \in Fds : fd[f] # None => phase[fd[f]] = "open"
  /\ \A f, g \in Fds : fd[f] # None /\ fd[f] = fd[g] => f = g
  /\ \A f \in streams : fd[f] = None
  /\ \A c \in Conns : phase[c] \in {"idle", "queued"} => consumed[c] = 0

(* What run() knows of the connection it is handing off.                   *)
MainKnows ==
  /\ mpc \in {"fill", "client", "create"} =>
       /\ sockfd # None /\ fd[sockfd] # None
       /\ client_ \in {fd[sockfd], None}
       /\ consumed[fd[sockfd]] = 0
  /\ mpc \in {"client", "create"} => data_connection = sockfd
  /\ mpc = "create" => data_client = client_

(* Where run() may be while a thread still reads `data`; one such thread   *)
(* at most, since a second create would find the first one's copy done.    *)
HandOff ==
  /\ \A t \in Threads :
       /\ pc[t] = "start" => mpc \in {"accept", "fill"}
       /\ pc[t] = "peer" => mpc \in {"accept", "fill", "client"}
  /\ \A t, u \in Threads : Pending(t) /\ Pending(u) => t = u

(* Each active thread has an open descriptor to itself.                    *)
Ownership ==
  /\ \A t \in Threads : Active(t) => Desc(t) # None /\ fd[Desc(t)] # None
  /\ \A t, u \in Threads : Active(t) /\ Active(u) /\ Desc(t) = Desc(u) => t = u
  /\ \A t \in Threads : Active(t) => ~MainHolds(Desc(t))

(* The address a thread has, or is about to copy, is its own client's.     *)
PeerKnown ==
  \A t \in Threads :
    /\ Pending(t) => data_client \in {fd[Desc(t)], None}
    /\ pc[t] \in Serving \ {"peer"} => client[t] \in {fd[c_socket[t]], None}

(* What a thread has read, and the connection it has answered, if any.     *)
Reading ==
  \A t \in Threads :
    /\ pc[t] = "unborn" => buffer[t] = {}
    /\ Active(t) => buffer[t] = Prefix(fd[Desc(t)], consumed[fd[Desc(t)]])
    /\ dest[t] # None =>
         /\ pc[t] \in {"close", "done"}
         /\ buffer[t] = Prefix(dest[t], consumed[dest[t]])
    /\ dest[t] # None /\ pc[t] = "close" => dest[t] = fd[c_socket[t]]
    /\ dest[t] # None /\ pc[t] = "done" => phase[dest[t]] = "closed"
    /\ pc[t] = "close" /\ peer[fd[c_socket[t]]] # "reset" => dest[t] # None

Distinct == \A t, u \in Threads : dest[t] # None /\ dest[t] = dest[u] => t = u

Undisturbed ==
  MainKnows /\ HandOff /\ Ownership /\ PeerKnown /\ Reading /\ Distinct

Inv == Table /\ (~raced => Undisturbed)

-----------------------------------------------------------------------------
(* The read loop of client_thread() is sure to end on c: the client ended  *)
(* its stream, or the request has arrived and its length is no multiple of *)
(* BUFFER_SIZE.  (Of a longer one that is, the thread waits for more.)     *)
Ends(c) ==
  peer[c] = "half" \/ (sent[c] = ReqLen[c] /\ ReqLen[c] % BufferSize # 0)

(* read() of thread t would block.                                         *)
Waits(t) ==
  /\ pc[t] = "read" /\ ~Broken(t)
  /\ peer[At(t)] = "open" /\ sent[At(t)] = consumed[At(t)]

(* The read loop (server.cc:160-177) never waits for bytes that will not   *)
(* come: it ends by itself, however the request was cut into segments and  *)
(* whatever part of it was there at each read().                           *)
NoVainWait == ~raced => \A t \in Threads : Waits(t) => ~Ends(At(t))

(* Every accepted connection whose stream ends is closed, however it was   *)
(* cut into segments and whatever the other threads do, unless its client  *)
(* resets it, its descriptor is orphaned or the process ends.              *)
Settled ==
  \A c \in Conns :
    phase[c] = "open" /\ Ends(c) ~>
      \/ phase[c] = "closed" \/ peer[c] = "reset" \/ ~up \/ raced
      \/ \E f \in Fds : fd[f] = c /\ Orphan(f)

(* When every descriptor is lost, to connections left open or to           *)
(* directories, the server cannot accept any more: it does not linger, the *)
(* process ends.                                                           *)
ExhaustionEnds == (~raced /\ \A f \in Fds : Lost(f)) ~> ~up

-----------------------------------------------------------------------------
(* The engine implements Service.                                          *)

Answerers(c) == {t \in Threads : dest[t] = c}

StatusOf(c) ==
  CASE phase[c] = "idle" -> "new"
    [] phase[c] # "idle" /\ Answerers(c) # {} ->
         IF \A t, u \in Answerers(c) : t = u /\ buffer[t] \subseteq Bytes(c)
         THEN "answered" ELSE "misanswered"
    [] phase[c] \in {"closed", "lost"} /\ Answerers(c) = {} -> "lost"
    [] phase[c] \in {"queued", "open"} /\ Answerers(c) = {} -> "waiting"

Stage ==
  IF ~up THEN "ended"
  ELSE IF mpc = "init" THEN "starting"
  ELSE IF InRun THEN "serving" ELSE "stopping"

(* Thread t has parsed, or is about to parse, what is no whole well-formed *)
(* request.                                                                *)
Offends(t) ==
  /\ pc[t] \in {"parse", "call", "write", "close", "done"}
  /\ \A c \in Conns \ Malformed : buffer[t] # Bytes(c)

Promise == INSTANCE Service WITH
  status   <- [c \in Conns |-> StatusOf(c)],
  gone     <- {c \in Conns : peer[c] = "reset"},
  service  <- Stage,
  offended <- \E t \in Threads : Offends(t),
  tainted  <- raced

(* Every behaviour of the engine, its races included, is one Service       *)
(* allows under the refinement mapping above; in particular, as long as    *)
(* every request is well formed and read whole, and no client resets its   *)
(* connection, no thread ends the process by an exception (request.cc:71,  *)
(* server.cc:212-214) or a signal.                                         *)
ImplementsService == Promise!Spec
=============================================================================
