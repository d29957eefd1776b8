------------------------------- MODULE Server -------------------------------
(***************************************************************************)
(* The thread-per-connection engine of lhs: lhs::server (src/server.cc)    *)
(* driven by main() of the bundled program (bin/lhs-server.cc).            *)
(*                                                                         *)
(* The main thread accepts a connection, writes its descriptor and its     *)
(* peer's address in ONE record `data` on the stack of run(), and starts a *)
(* thread that is given the ADDRESS of that record.  The loop then goes    *)
(* round and writes the same record again; nothing makes it wait until the *)
(* thread has copied its fields.  Threads are never joined and never       *)
(* detached.  The clients and the kernel (listen queue, descriptor table,  *)
(* byte streams) are the environment.                                      *)
(***************************************************************************)
EXTENDS Integers, FiniteSets

CONSTANTS
  Conns,      (* the connections clients may open                          *)
  Threads,    (* the threads the system can create before EAGAIN           *)
  Fds,        (* the descriptors the process may have open (RLIMIT_NOFILE) *)
  None,       (* no connection, no descriptor, no address                  *)
  BufferSize, (* BUFFER_SIZE: the most bytes one read() returns            *)
  Backlog,    (* max_conn of listen(), MAX_CONNECTIONS by default          *)
  ReqLen,     (* the length of the request sent on each connection         *)
  Malformed,  (* the connections whose request parse_init() rejects        *)
  AppThrows,  (* whether the middleware given to run() may throw           *)
  Lists       (* the connections whose request, even cut, may name a       *)
              (* directory that the middleware lists                       *)

ASSUME ServerAssumption ==
  /\ IsFiniteSet(Conns)
  /\ None \notin Conns \cup Fds \cup Threads
  /\ BufferSize \in Nat \ {0}
  /\ Backlog \in Nat \ {0}
  /\ ReqLen \in [Conns -> Nat \ {0}]
  /\ Malformed \subseteq Conns /\ Lists \subseteq Conns
  /\ AppThrows \in BOOLEAN

VARIABLES
  (* kernel and clients *)
  phase,      (* phase[c]: where connection c is, seen from the kernel     *)
  peer,       (* peer[c]: what the client's side of c still does           *)
  sent,       (* sent[c]: bytes of c that reached the server's kernel      *)
  consumed,   (* consumed[c]: bytes of c that some read() returned         *)
  fd,         (* fd[f]: the connection descriptor f denotes, or None       *)
  streams,    (* the descriptors DIR streams have taken                    *)
  (* the main thread *)
  mpc,        (* what it does next                                         *)
  sockfd,     (* run(): the descriptor accept() returned                   *)
  client_,    (* run(): the address accept() filled in, None if cut short  *)
  data_connection, data_client,  (* the fields of `data`, shared           *)
  (* the client threads *)
  pc,         (* pc[t]: what thread t does next                            *)
  c_socket,   (* c_socket[t]: its copy of data->connection                 *)
  client,     (* client[t]: its copy of data->client                       *)
  buffer,     (* buffer[t]: the bytes it has read                          *)
  dest,       (* dest[t]: the connection its response was written to       *)
  (* the process *)
  up,         (* FALSE once the process has ended                          *)
  raced       (* history: `data` was rewritten or left while a thread had  *)
              (* still to copy the field in question                       *)

netVars    == <<phase, peer, sent, consumed>>
mainVars   == <<mpc, sockfd, client_, data_connection, data_client, raced>>
threadVars == <<pc, c_socket, client, buffer, dest>>
vars == <<netVars, fd, streams, mainVars, threadVars, up>>

-----------------------------------------------------------------------------
(* The bytes of the request of connection c: the i-th one is <<c, i>>.     *)
Bytes(c) == {c} \X (1 .. ReqLen[c])

(* The first n bytes of it.                                                *)
Prefix(c, n) == {c} \X (1 .. n)

(* Faulty variant: the thread uses data->connection, not its own copy.     *)
AtShared(t) == IF data_connection = None THEN None ELSE fd[data_connection]

(* The connection thread t's descriptor denotes now, None once closed.     *)
At(t) == IF c_socket[t] = None THEN None ELSE fd[c_socket[t]]

(* A read() or write() of thread t would fail: its descriptor is closed, or *)
(* the client has reset the connection.                                    *)
Broken(t) == At(t) # None => peer[At(t)] = "reset"

(* Faulty variant: a read() taken to fill the whole buffer each time.      *)
ReadSizeFull(c) == BufferSize

(* What read() returns of the bytes of c that have arrived.                *)
ReadSize(c) ==
  LET unread == sent[c] - consumed[c]
  IN IF unread < BufferSize THEN unread ELSE BufferSize

(* Faulty variant: the loop reads on until the client ends its stream.     *)
ShortReadIgnored(n) == FALSE

(* A read() of n bytes is the last one.                                    *)
ShortRead(n) == n < BufferSize

FreeFds == {f \in Fds \ streams : fd[f] = None}

(* The frame of run(), which holds `data`, exists.                         *)
InRun == mpc \in {"accept", "fill", "client", "create"}

(* The listening socket is open.                                           *)
Listening == InRun \/ mpc = "quit"

(* Thread t was started and has not copied every field of `data`.          *)
Pending(t) == pc[t] \in {"start", "peer"}

Init ==
  /\ phase = [c \in Conns |-> "idle"]
  /\ peer = [c \in Conns |-> "open"]
  /\ sent = [c \in Conns |-> 0]
  /\ consumed = [c \in Conns |-> 0]
  /\ fd = [f \in Fds |-> None]
  /\ streams = {}
  /\ mpc = "init"
  /\ sockfd = None
  /\ client_ = None
  /\ data_connection = None
  /\ data_client = None
  /\ pc = [t \in Threads |-> "unborn"]
  /\ c_socket = [t \in Threads |-> None]
  /\ client = [t \in Threads |-> None]
  /\ buffer = [t \in Threads |-> {}]
  /\ dest = [t \in Threads |-> None]
  /\ up = TRUE
  /\ raced = FALSE

(* The process ends: exit(), abort() or a fatal signal.                    *)
Die == up' = FALSE /\ UNCHANGED <<netVars, fd, streams, mainVars, threadVars>>

-----------------------------------------------------------------------------
(* The clients (environment).                                              *)

(* The kernel completes a handshake and queues the connection.             *)
ClientConnect(c) ==
  /\ up
  /\ Listening
  /\ phase[c] = "idle"
  /\ Cardinality({d \in Conns : phase[d] = "queued"}) < Backlog
  /\ phase' = [phase EXCEPT ![c] = "queued"]
  /\ UNCHANGED <<peer, sent, consumed, fd, streams, mainVars, threadVars, up>>

(* A segment of n more bytes of the request arrives.                       *)
ClientSend(c, n) ==
  /\ up
  /\ phase[c] \in {"queued", "open"}
  /\ peer[c] = "open"
  /\ sent[c] + n <= ReqLen[c]
  /\ sent' = [sent EXCEPT ![c] = @ + n]
  /\ UNCHANGED <<phase, peer, consumed, fd, streams, mainVars, threadVars, up>>

(* The client ends its direction of the stream (FIN).                      *)
ClientShutdown(c) ==
  /\ up
  /\ phase[c] \in {"queued", "open"}
  /\ peer[c] = "open"
  /\ peer' = [peer EXCEPT ![c] = "half"]
  /\ UNCHANGED <<phase, sent, consumed, fd, streams, mainVars, threadVars, up>>

(* The client resets the connection (RST).                                 *)
ClientReset(c) ==
  /\ up
  /\ phase[c] \in {"queued", "open"}
  /\ peer[c] # "reset"
  /\ peer' = [peer EXCEPT ![c] = "reset"]
  /\ UNCHANGED <<phase, sent, consumed, fd, streams, mainVars, threadVars, up>>

ClientNext ==
  \E c \in Conns :
    \/ ClientConnect(c)
    \/ \E n \in 1 .. ReqLen[c] : ClientSend(c, n)
    \/ ClientShutdown(c)
    \/ ClientReset(c)

-----------------------------------------------------------------------------
(* The main thread.                                                        *)

(* server.init(): socket, bind and listen succeed.                         *)
ServerInit ==
  /\ up
  /\ mpc = "init"
  /\ mpc' = "accept"
  /\ UNCHANGED <<netVars, fd, streams, sockfd, client_, data_connection, data_client,
                 raced, threadVars, up>>

(* One of them fails: main() prints the exception and exits.               *)
InitFails == up /\ mpc = "init" /\ Die

(* Faulty variant: client_ is declared outside the loop, and not cleared.  *)
AddressesKept(c) == {c, client_}

(* What accept() leaves in client_, cleared just before: its address       *)
(* length argument is not initialised, and a small one cuts the address    *)
(* short.                                                                  *)
Addresses(c) == {c, None}

(* accept() returns a new descriptor.                                      *)
AcceptConnection(c, f) ==
  /\ up
  /\ mpc = "accept"
  /\ phase[c] = "queued"
  /\ f \in FreeFds
  /\ phase' = [phase EXCEPT ![c] = "open"]
  /\ fd' = [fd EXCEPT ![f] = c]
  /\ sockfd' = f
  /\ client_' \in Addresses(c)
  /\ mpc' = "fill"
  /\ UNCHANGED <<peer, sent, consumed, streams, data_connection, data_client,
                 raced, threadVars, up>>

(* Faulty variant: run() closes the last descriptor when accept() fails.   *)
AcceptFailsCloses ==
  /\ up
  /\ mpc = "accept" /\ FreeFds = {} /\ sockfd # None
  /\ fd' = [fd EXCEPT ![sockfd] = None]
  /\ mpc' = "quit"
  /\ UNCHANGED <<netVars, streams, sockfd, client_, data_connection, data_client,
                 raced, threadVars, up>>

(* Faulty variant: run() tries again when accept() fails.                  *)
AcceptFailsRetries == up /\ mpc = "accept" /\ FreeFds = {} /\ UNCHANGED vars

(* accept() fails, with EMFILE when no descriptor is free, or with EINVAL  *)
(* when the uninitialised length is negative (the kernel has then taken    *)
(* the connection off the queue and closes it).  run() throws: the frame   *)
(* of `data` is gone, and main() goes on to quit().                        *)
AcceptFails ==
  /\ up
  /\ mpc = "accept"
  /\ \/ FreeFds = {} /\ UNCHANGED phase
     \/ /\ FreeFds # {}
        /\ \E c \in Conns : /\ phase[c] = "queued"
                            /\ phase' = [phase EXCEPT ![c] = "lost"]
  /\ mpc' = "quit"
  /\ raced' = (raced \/ \E t \in Threads : Pending(t))
  /\ UNCHANGED <<peer, sent, consumed, fd, streams, sockfd, client_, data_connection,
                 data_client, threadVars, up>>

(* data.connection = sockfd                                                *)
FillConnection ==
  /\ up
  /\ mpc = "fill"
  /\ data_connection' = sockfd
  /\ raced' = (raced \/ \E t \in Threads : pc[t] = "start")
  /\ mpc' = "client"
  /\ UNCHANGED <<netVars, fd, streams, sockfd, client_, data_client, threadVars, up>>

(* data.client = getpeer(client_)                                          *)
FillClient ==
  /\ up
  /\ mpc = "client"
  /\ data_client' = client_
  /\ raced' = (raced \/ \E t \in Threads : Pending(t))
  /\ mpc' = "create"
  /\ UNCHANGED <<netVars, fd, streams, sockfd, client_, data_connection, threadVars, up>>

(* Faulty variant: success taken for failure, so that create is retried.   *)
CreateThreadRetried(t) ==
  /\ up
  /\ mpc = "create"
  /\ pc[t] = "unborn"
  /\ pc' = [pc EXCEPT ![t] = "start"]
  /\ UNCHANGED <<netVars, fd, streams, mainVars, c_socket, client, buffer, dest, up>>

(* pthread_create() succeeds; the loop goes back to accept().              *)
CreateThread(t) ==
  /\ up
  /\ mpc = "create"
  /\ pc[t] = "unborn"
  /\ pc' = [pc EXCEPT ![t] = "start"]
  /\ mpc' = "accept"
  /\ UNCHANGED <<netVars, fd, streams, sockfd, client_, data_connection, data_client,
                 raced, c_socket, client, buffer, dest, up>>

(* pthread_create() fails: every thread ever created, ended or not, holds  *)
(* its resources because none is joined.  The result is ignored.           *)
CreateFails ==
  /\ up
  /\ mpc = "create"
  /\ \A t \in Threads : pc[t] # "unborn"
  /\ mpc' = "accept"
  /\ UNCHANGED <<netVars, fd, streams, sockfd, client_, data_connection, data_client,
                 raced, threadVars, up>>

(* server.quit() closes the listening socket; the kernel resets what is    *)
(* still queued.                                                           *)
Quit ==
  /\ up
  /\ mpc = "quit"
  /\ phase' = [c \in Conns |-> IF phase[c] = "queued" THEN "lost" ELSE phase[c]]
  /\ mpc' = "delete"
  /\ UNCHANGED <<peer, sent, consumed, fd, streams, sockfd, client_, data_connection,
                 data_client, raced, threadVars, up>>

(* delete app, while client threads may be running.                        *)
DeleteApp ==
  /\ up
  /\ mpc = "delete"
  /\ mpc' = "exit"
  /\ UNCHANGED <<netVars, fd, streams, sockfd, client_, data_connection, data_client,
                 raced, threadVars, up>>

(* return 0                                                                *)
MainReturns == up /\ mpc = "exit" /\ Die

MainNext ==
  \/ ServerInit \/ InitFails
  \/ \E c \in Conns, f \in Fds : AcceptConnection(c, f)
  \/ AcceptFails
  \/ FillConnection \/ FillClient
  \/ \E t \in Threads : CreateThread(t)
  \/ CreateFails
  \/ Quit \/ DeleteApp \/ MainReturns

-----------------------------------------------------------------------------
(* A client thread: client_thread_helper(), then client_thread().          *)

(* c_socket = data->connection.  Once run() has returned, `data` is dead   *)
(* stack: the value is arbitrary (None stands for a number that is no open *)
(* descriptor), or the garbage next to it ends the process.                *)
CopyConnection(t) ==
  /\ up
  /\ pc[t] = "start"
  /\ \/ /\ \E f \in (IF InRun THEN {data_connection} ELSE Fds \cup {None}) :
             c_socket' = [c_socket EXCEPT ![t] = f]
        /\ pc' = [pc EXCEPT ![t] = "peer"]
        /\ UNCHANGED <<netVars, fd, streams, mainVars, client, buffer, dest, up>>
     \/ ~InRun /\ Die

(* client = data->client                                                   *)
CopyClient(t) ==
  /\ up
  /\ pc[t] = "peer"
  /\ \E a \in (IF InRun THEN {data_client} ELSE Conns \cup {None}) :
       client' = [client EXCEPT ![t] = a]
  /\ pc' = [pc EXCEPT ![t] = "read"]
  /\ UNCHANGED <<netVars, fd, streams, mainVars, c_socket, buffer, dest, up>>

(* read() returns n bytes of what has arrived; a short read ends the loop. *)
ReadSome(t) ==
  /\ up
  /\ pc[t] = "read"
  /\ ~Broken(t)
  /\ LET c == At(t)
         n == ReadSize(c)
     IN /\ n > 0
        /\ buffer' = [buffer EXCEPT ![t] =
             @ \cup (Prefix(c, consumed[c] + n) \ Prefix(c, consumed[c]))]
        /\ consumed' = [consumed EXCEPT ![c] = @ + n]
        /\ pc' = [pc EXCEPT ![t] = IF ShortRead(n) THEN "parse" ELSE "read"]
  /\ UNCHANGED <<phase, peer, sent, fd, streams, mainVars, c_socket, client, dest, up>>

(* Faulty variant: the end of the stream taken for an aborted connection.  *)
ReadEofDrops(t) ==
  /\ up
  /\ pc[t] = "read"
  /\ At(t) # None
  /\ peer[At(t)] = "half"
  /\ pc' = [pc EXCEPT ![t] = "close"]
  /\ UNCHANGED <<netVars, fd, streams, mainVars, c_socket, client, buffer, dest, up>>

(* read() returns 0: the client has ended its stream.                      *)
ReadEof(t) ==
  /\ up
  /\ pc[t] = "read"
  /\ At(t) # None
  /\ peer[At(t)] = "half"
  /\ sent[At(t)] = consumed[At(t)]
  /\ pc' = [pc EXCEPT ![t] = "parse"]
  /\ UNCHANGED <<netVars, fd, streams, mainVars, c_socket, client, buffer, dest, up>>

(* read() fails, the connection being reset or the descriptor closed: the  *)
(* thread returns without close(c_socket).                                 *)
ReadError(t) ==
  /\ up
  /\ pc[t] = "read"
  /\ Broken(t)
  /\ pc' = [pc EXCEPT ![t] = "returned"]
  /\ UNCHANGED <<netVars, fd, streams, mainVars, c_socket, client, buffer, dest, up>>

(* lhs::http::request request(buffer), and the access log line.  A whole   *)
(* request is parsed, or rejected by an exception no frame of the thread   *)
(* catches.  A truncated one may take the parser past the end of its queue *)
(* of lines: it may end the process or yield a request all the same.       *)
Parse(t) ==
  /\ up
  /\ pc[t] = "parse"
  /\ \/ /\ \A c \in Malformed : buffer[t] # Bytes(c)
        /\ pc' = [pc EXCEPT ![t] = "call"]
        /\ UNCHANGED <<netVars, fd, streams, mainVars, c_socket, client, buffer, dest, up>>
     \/ /\ \A c \in Conns \ Malformed : buffer[t] # Bytes(c)
        /\ Die

(* response = app->call(env).  A directory it lists keeps its descriptor   *)
(* for good (static_file.cc:216; Middleware has the details).  An          *)
(* exception ends the process, and so may a call into an application that  *)
(* main() has deleted.                                                     *)
CallApp(t) ==
  /\ up
  /\ pc[t] = "call"
  /\ \/ /\ \/ UNCHANGED streams
           \/ /\ \E c \in Lists : buffer[t] \subseteq Bytes(c)
              /\ \E f \in FreeFds : streams' = streams \cup {f}
        /\ pc' = [pc EXCEPT ![t] = "write"]
        /\ UNCHANGED <<netVars, fd, mainVars, c_socket, client, buffer, dest, up>>
     \/ (AppThrows \/ mpc = "exit") /\ Die

(* Faulty variant: nothing is written to a client that ended its stream.   *)
WriteUnlessHalf(t) ==
  /\ up
  /\ pc[t] = "write"
  /\ dest' = [dest EXCEPT ![t] =
       IF Broken(t) \/ peer[At(t)] = "half" THEN None ELSE At(t)]
  /\ pc' = [pc EXCEPT ![t] = "close"]
  /\ UNCHANGED <<netVars, fd, streams, mainVars, c_socket, client, buffer, up>>

(* response.write(c_socket).  The result of a failed write() is -1, which  *)
(* the test `-1 > result' lets through.  Writing to a reset connection     *)
(* fails or raises SIGPIPE, for which no handler is installed.             *)
Write(t) ==
  /\ up
  /\ pc[t] = "write"
  /\ \/ /\ dest' = [dest EXCEPT ![t] =
             IF Broken(t) THEN None ELSE At(t)]
        /\ pc' = [pc EXCEPT ![t] = "close"]
        /\ UNCHANGED <<netVars, fd, streams, mainVars, c_socket, client, buffer, up>>
     \/ At(t) # None /\ peer[At(t)] = "reset" /\ Die

(* Faulty variant: the descriptor is not closed.                           *)
CloseForgotten(t) ==
  /\ up
  /\ pc[t] = "close"
  /\ pc' = [pc EXCEPT ![t] = "done"]
  /\ UNCHANGED <<netVars, fd, streams, mainVars, c_socket, client, buffer, dest, up>>

(* close(c_socket), whatever the descriptor denotes by now.                *)
Close(t) ==
  /\ up
  /\ pc[t] = "close"
  /\ IF At(t) = None
     THEN /\ streams' = streams \ {c_socket[t]}
          /\ UNCHANGED <<phase, fd>>
     ELSE /\ phase' = [phase EXCEPT ![At(t)] = "closed"]
          /\ fd' = [fd EXCEPT ![c_socket[t]] = None]
          /\ UNCHANGED streams
  /\ pc' = [pc EXCEPT ![t] = "done"]
  /\ UNCHANGED <<peer, sent, consumed, mainVars, c_socket, client, buffer, dest, up>>

ThreadNext(t) ==
  \/ CopyConnection(t) \/ CopyClient(t)
  \/ ReadSome(t) \/ ReadEof(t) \/ ReadError(t)
  \/ Parse(t) \/ CallApp(t) \/ Write(t) \/ Close(t)

Next == ClientNext \/ MainNext \/ \E t \in Threads : ThreadNext(t)

Spec == Init /\ [][Next]_vars

(* The operating system schedules every thread of the process; clients owe *)
(* nothing.                                                                *)
FairSpec ==
  /\ Spec
  /\ WF_vars(MainNext)
  /\ \A t \in Threads : WF_vars(ThreadNext(t))
=============================================================================
