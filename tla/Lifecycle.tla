----------------------------- MODULE Lifecycle ------------------------------
(***************************************************************************)
(* The life of the program (bin/lhs-server.cc): main() installs handlers,  *)
(* opens the socket, builds the chain of middlewares, serves, and cleans   *)
(* up when accept() fails; terminate(), a signal handler, cleans up from   *)
(* wherever a thread happens to be.  Nothing protects the socket's number, *)
(* the pointer app and the objects of the chain from two clean-ups at      *)
(* once, nor from the client threads.                                      *)
(***************************************************************************)
EXTENDS Integers, Sequences, FiniteSets

CONSTANTS
  Clients,     (* client threads                                           *)
  Signals,     (* SIGTERM and SIGINT, in the order main() handles them     *)
  MaxSignals,  (* bound on the signals sent                                *)
  Main, Nobody (* model values                                             *)

ASSUME LifecycleAssumption ==
  /\ IsFiniteSet(Clients)
  /\ Signals \in Seq(STRING) /\ Signals # <<>>
  /\ \A i, j \in DOMAIN Signals : Signals[i] = Signals[j] => i = j
  /\ MaxSignals \in Nat
  /\ {Main, Nobody} \cap Clients = {} /\ Main # Nobody

Actors == {Main} \cup Clients

(* What main() makes, in this order: the application urlmap only points to *)
(* (its destructor deletes nothing), and urlmap, error_404 and             *)
(* static_file, each of which owns the one before.                         *)
About == 0
Objects == About .. 3

VARIABLES
  handled,  (* how many of Signals terminate() has been installed for      *)
  socket_,  (* TRUE: quit() takes the number in it for open                *)
  number,   (* whose descriptor has that number: Main's, listening, a      *)
            (* client's, or Nobody's                                       *)
  holds,    (* clients whose connection or file was given that number      *)
  app,      (* the global: the object it points to, or 0 for NULL (About   *)
            (* is only put in the map)                                     *)
  built,    (* how many objects have been constructed                      *)
  frees,    (* how often each has been destroyed                           *)
  stack,    (* per thread, the code it runs and the handlers on top of it: *)
            (* [sig, at, left], left being what `delete app' has to free   *)
  heap,     (* the allocator's lock: Nobody, or the frame that holds it    *)
  sent,     (* signals so far                                              *)
  status    (* "running", or how the process has ended                     *)

vars == <<handled, socket_, number, holds, app, built, frees, stack, heap, sent, status>>

-----------------------------------------------------------------------------
Frame(sig, at) == [sig |-> sig, at |-> at, left |-> <<>>]

Running(a) == status = "running" /\ stack[a] # <<>>
Top(a) == stack[a][Len(stack[a])]
Id(a) == <<a, Len(stack[a])>>
Is(a, at) == Running(a) /\ Top(a).at = at

(* A handler never returns: what it has interrupted stays where it is.     *)
Goto(a, at) == stack' = [stack EXCEPT ![a][Len(stack[a])].at = at]

Init ==
  /\ handled = 0
  /\ socket_ = FALSE
  /\ number = Nobody
  /\ holds = {}
  /\ app = 0
  /\ built = 0
  /\ frees = [o \in Objects |-> 0]
  /\ stack = [a \in Actors |-> IF a = Main THEN <<Frame("none", "signal")>> ELSE <<>>]
  /\ heap = Nobody
  /\ sent = 0
  /\ status = "running"

-----------------------------------------------------------------------------
(* main()                                                                  *)
Install ==
  /\ Is(Main, "signal")
  /\ handled' = handled + 1
  /\ Goto(Main, IF handled' = Len(Signals) THEN "init" ELSE "signal")
  /\ UNCHANGED <<socket_, number, holds, app, built, frees, heap, sent, status>>

(* init() sets socket_ before bind() and listen(); a failure ends with     *)
(* exit(-1), which goes through no clean-up.                               *)
ServerInit ==
  /\ Is(Main, "init")
  /\ \/ socket_' = TRUE /\ number' = Main /\ Goto(Main, "new") /\ UNCHANGED status
     \/ status' = "failed" /\ UNCHANGED <<socket_, number, stack>>
  /\ UNCHANGED <<handled, holds, app, built, frees, heap, sent>>

(* Faulty variant: main() has an app of its own.                           *)
AssignedLocal(o) == 0

(* app = new ...(app)                                                      *)
Assigned(o) == o

(* The object is made, and then the pointer assigned (About goes to the    *)
(* map instead); allocating it takes the lock (Enter).                     *)
New ==
  /\ Is(Main, "new")
  /\ heap = Id(Main)
  /\ heap' = Nobody
  /\ built' = built + 1
  /\ Goto(Main, IF built = About THEN "new" ELSE "assign")
  /\ UNCHANGED <<handled, socket_, number, holds, app, frees, sent, status>>

Assign ==
  /\ Is(Main, "assign")
  /\ app' = Assigned(built - 1)
  /\ Goto(Main, IF built = 4 THEN "run" ELSE "new")
  /\ UNCHANGED <<handled, socket_, number, holds, built, frees, heap, sent, status>>

(* run(): accept() fails at once on a number that does not listen, but one *)
(* that waits is not woken when another thread closes the number.          *)
Accept ==
  /\ Is(Main, "run")
  /\ Goto(Main, IF number = Main THEN "accept" ELSE "quit")
  /\ UNCHANGED <<handled, socket_, number, holds, app, built, frees, heap, sent, status>>

(* A connection accepted after that may have the number itself.            *)
Accepted(c) ==
  /\ Is(Main, "accept")
  /\ stack[c] = <<>>
  /\ \/ UNCHANGED <<number, holds>>
     \/ number = Nobody /\ number' = c /\ holds' = holds \cup {c}
  /\ stack' = [stack EXCEPT ![c] = <<Frame("none", "call")>>,
                            ![Main][Len(stack[Main])].at = "run"]
  /\ UNCHANGED <<handled, socket_, app, built, frees, heap, sent, status>>

AcceptFails ==
  /\ Is(Main, "accept")
  /\ Goto(Main, "quit")
  /\ UNCHANGED <<handled, socket_, number, holds, app, built, frees, heap, sent, status>>

-----------------------------------------------------------------------------
(* A client thread in app->call(): it goes through the chain and           *)
(* allocates, opens a file that may get the socket's number once that is   *)
(* free (another number does not matter here), closes it, and returns,     *)
(* closing its connection.                                                 *)
Allocate(c) ==
  /\ Is(c, "call")
  /\ heap = Id(c)
  /\ heap' = Nobody
  /\ UNCHANGED <<handled, socket_, number, holds, app, built, frees, stack, sent, status>>

OpenFile(c) ==
  /\ Is(c, "call") /\ heap # Id(c)
  /\ socket_ /\ number = Nobody
  /\ number' = c /\ holds' = holds \cup {c}
  /\ Goto(c, "file")
  /\ UNCHANGED <<handled, socket_, app, built, frees, heap, sent, status>>

CloseFile(c) ==
  /\ Is(c, "file")
  /\ number' = Nobody /\ holds' = holds \ {c}
  /\ Goto(c, "call")
  /\ UNCHANGED <<handled, socket_, app, built, frees, heap, sent, status>>

Return(c) ==
  /\ Is(c, "call") /\ heap # Id(c) /\ Len(stack[c]) = 1
  /\ number' = IF c \in holds THEN Nobody ELSE number
  /\ holds' = holds \ {c}
  /\ stack' = [stack EXCEPT ![c] = <<>>]
  /\ UNCHANGED <<handled, socket_, app, built, frees, heap, sent, status>>

-----------------------------------------------------------------------------
(* A signal reaches any thread, but not one that is handling it already.   *)
(* Until its handler is installed it ends the process.                     *)
Signal(a) ==
  /\ Running(a)
  /\ sent < MaxSignals
  /\ sent' = sent + 1
  /\ \E i \in DOMAIN Signals :
       /\ \A j \in DOMAIN stack[a] : stack[a][j].sig # Signals[i]
       /\ IF i <= handled
          THEN stack' = [stack EXCEPT ![a] = Append(@, Frame(Signals[i], "quit"))]
               /\ UNCHANGED status
          ELSE status' = "killed" /\ UNCHANGED stack
  /\ UNCHANGED <<handled, socket_, number, holds, app, built, frees, heap>>

(* Faulty variant: close() is tried again when it was interrupted.         *)
AfterQuitRetried == {"quit", "delete"}

AfterQuit == {"delete"}

(* Faulty variant: ~middleware() does not delete app_.                     *)
OwnedAlone(o) == IF o = 0 THEN <<>> ELSE <<o>>

(* Faulty variant: main() deletes the map's application itself as well.    *)
OwnedTwice(o) == [i \in 1 .. o |-> i] \o [i \in 1 .. (IF o = 0 THEN 0 ELSE 1) |-> i]

(* What `delete app' destroys, the innermost first (~middleware()).        *)
Owned(o) == [i \in 1 .. o |-> i]

(* The clean-up, in terminate() as at the end of main().  quit() tests     *)
(* socket_, which nobody resets: it closes whatever has the number now.    *)
Quit(a) ==
  /\ Is(a, "quit")
  /\ number' = IF socket_ THEN Nobody ELSE number
  /\ \E at \in AfterQuit :
       stack' = [stack EXCEPT ![a][Len(stack[a])].at = at,
                              ![a][Len(stack[a])].left = Owned(app)]
  /\ UNCHANGED <<handled, socket_, holds, app, built, frees, heap, sent, status>>

Free(a) ==
  /\ Is(a, "delete")
  /\ heap = Id(a)
  /\ Top(a).left # <<>>
  /\ heap' = Nobody
  /\ frees' = [frees EXCEPT ![Head(Top(a).left)] = @ + 1]
  /\ stack' = [stack EXCEPT ![a][Len(stack[a])].left = Tail(@)]
  /\ UNCHANGED <<handled, socket_, number, holds, app, built, sent, status>>

(* Faulty variant: pthread_exit(), which ends the thread only.             *)
ExitThread(a) ==
  /\ Is(a, "delete")
  /\ Top(a).left = <<>>
  /\ stack' = [stack EXCEPT ![a] = <<>>]
  /\ UNCHANGED <<handled, socket_, number, holds, app, built, frees, heap, sent, status>>

(* exit(0), or return from main(): every thread ends.                      *)
Exit(a) ==
  /\ Is(a, "delete")
  /\ Top(a).left = <<>>
  /\ status' = "exited"
  /\ UNCHANGED <<handled, socket_, number, holds, app, built, frees, stack, heap, sent>>

(* The allocator has one lock (at worst: some requests need none).         *)
Enter(a) ==
  /\ Running(a)
  /\ Top(a).at \in {"new", "call"} \/ (Is(a, "delete") /\ Top(a).left # <<>>)
  /\ heap = Nobody
  /\ heap' = Id(a)
  /\ UNCHANGED <<handled, socket_, number, holds, app, built, frees, stack, sent, status>>

(* Whoever uses or destroys an object that has been destroyed may crash.   *)
Crash(a) ==
  /\ Running(a)
  /\ Top(a).at \in {"call", "delete"}
  /\ \E o \in Objects : frees[o] > 0
  /\ status' = "crashed"
  /\ UNCHANGED <<handled, socket_, number, holds, app, built, frees, stack, heap, sent>>

MainStep == Install \/ ServerInit \/ New \/ Assign \/ Accept
CleanUp(a) == Quit(a) \/ Free(a) \/ Exit(a)
ClientStep(c) == Allocate(c) \/ OpenFile(c) \/ CloseFile(c) \/ Return(c)

Step(a) ==
  \/ a = Main /\ MainStep
  \/ a \in Clients /\ ClientStep(a)
  \/ CleanUp(a)

Next ==
  \/ AcceptFails \/ \E c \in Clients : Accepted(c)
  \/ \E a \in Actors : Step(a) \/ Enter(a) \/ Signal(a) \/ Crash(a)

Spec == Init /\ [][Next]_vars

(* The system runs every thread and hands the lock to whoever waits for    *)
(* it; clients need not connect and nobody need send a signal.             *)
FairSpec == Spec /\ \A a \in Actors : WF_vars(Step(a)) /\ SF_vars(Enter(a))

-----------------------------------------------------------------------------
Frames == {f \in Actors \X (1 .. MaxSignals + 1) : f[2] <= Len(stack[f[1]])}
At(f) == stack[f[1]][f[2]].at
Left(f) == stack[f[1]][f[2]].left

(* Frames that have closed the socket; they have yet to end the process.   *)
CleaningUp == {f \in Frames : At(f) = "delete"}

(* What is in the variables, and every lock has its holder.                *)
TypeOK ==
  /\ handled \in 0 .. Len(Signals) /\ socket_ \in BOOLEAN
  /\ number \in Actors \cup {Nobody} /\ holds \subseteq Clients
  /\ app \in 0 .. 3 /\ built \in 0 .. 4
  /\ built > 0 => app \in {built - 1, built - 2}
  /\ heap \in Frames \cup {Nobody}
  /\ sent \in 0 .. MaxSignals
  /\ status \in {"running", "failed", "killed", "crashed", "exited"}
  /\ \A f \in Frames : /\ stack[f[1]][f[2]].sig \in {Signals[i] : i \in DOMAIN Signals} \cup {"none"}
                       /\ At(f) \in {"signal", "init", "new", "assign", "run", "accept",
                                     "quit", "delete", "call", "file"}

(* An object of the chain is destroyed at most once by each clean-up       *)
(* (middleware.cc:7-11, lhs-server.cc:33-40, 73-74): with one signal, or   *)
(* one failure of accept(), at most once.                                  *)
DestroyedOnce ==
  \A o \in Objects :
    frees[o] <= Cardinality({f \in CleaningUp : \A i \in DOMAIN Left(f) : Left(f)[i] # o})

(* quit() does not reset socket_ (server.cc:121-130), so that a second one *)
(* closes a connection or a file that has got the number since; nothing    *)
(* less does: with one clean-up, a client thread uses what is its own.     *)
KeepsNumber ==
  \A c \in Clients : c \in holds /\ number # c => \E f, g \in CleaningUp : f # g

(* exit(0) or the return from main() leaves neither the listening socket   *)
(* open nor an object of the chain alive, wherever the signal came, except *)
(* one that main() had made and not yet assigned (lhs-server.cc:62-65).    *)
(* What urlmap points to nobody deletes (urlmap.cc:12-13): it is left.     *)
LeavesOnlyAbout ==
  status = "exited" =>
    /\ number # Main
    /\ \A o \in Objects :
         o < built =>
           (frees[o] = 0 <=> o = About \/ (o > app /\ At(<<Main, 1>>) = "assign"))

Ended == status # "running"

(* The lock is held by a frame that a handler has interrupted, for ever.   *)
Stuck == \E f \in Frames : heap = f /\ f[2] < Len(stack[f[1]])

(* A signal that is handled ends the process, and so does a failure of     *)
(* accept(), whatever the clients do meanwhile: unless the signal came     *)
(* while its thread was in the allocator, for which terminate() then waits *)
(* for ever (lhs-server.cc:33-40).                                         *)
SignalEnds == (\E f \in Frames : At(f) = "quit") ~> (Ended \/ Stuck)

=============================================================================
