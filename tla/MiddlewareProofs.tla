-------------------------- MODULE MiddlewareProofs --------------------------
(***************************************************************************)
(* Proofs about Middleware: whatever chain was built, whatever the         *)
(* uninitialised code is and however the file system changes, a response   *)
(* is that of one branch, "not found" is true, only an entry that cannot   *)
(* be looked at crashes the process, the streams listings leave open end   *)
(* the reading of files, the calls implement Reply, and every step of a    *)
(* call brings it nearer to its end.                                       *)
(***************************************************************************)
EXTENDS Middleware, FiniteSetTheorems, SequenceTheorems, TLAPS

(* All but the connections that wait, which concern no call.               *)
calls == <<app, allow_explore_, alive, fs, dirs, pc, asks, level, response,
           buffer, entry, held, history, denied, listings>>

LEMMA CallsStay == Accept \/ UNCHANGED vars => UNCHANGED calls
  BY DEF Accept, vars, calls

(* A response between two middlewares has one of five forms, one no branch *)
(* has made keeping the code g it was constructed with.                    *)
Formed(r, g) ==
  \/ r.of = "not_found" /\ r.code = Not_Found /\ r.type = "text/html" /\ r.pragma
  \/ r.of = "about"     /\ r.code = OK /\ r.type = "text/plain"
  \/ r.of = "listing"   /\ r.code = OK /\ r.type = "text/html"
  \/ r.of = "file"      /\ r.code = OK /\ r.type = "mime"
  \/ r.of = "nobody"    /\ r.code = g /\ r.type = "" /\ ~r.pragma

Reading == {"open", "read"}
Listing == {"opendir", "readdir", "stat"}

(* Inside static_file the code and type are those of the body to come; a   *)
(* response without a branch is only sent with a code that is not 0.       *)
FormedThread(t) ==
  /\ pc[t] \notin Reading \cup Listing => Formed(response[t], garbage[t])
  /\ pc[t] \in Reading => response[t].code = OK /\ response[t].type = "mime"
  /\ pc[t] \in Listing => response[t].code = OK /\ response[t].type = "text/html"
  /\ pc[t] = "write" /\ response[t].of = "nobody" => response[t].code # 0

FormedInv ==
  /\ pc = [t \in Threads |-> pc[t]]
  /\ response = [t \in Threads |-> response[t]]
  /\ garbage = [t \in Threads |-> garbage[t]]
  /\ \A t \in Threads : FormedThread(t)

(* A response just constructed, a page, and a body with the code and type  *)
(* set for it are all formed.                                              *)
LEMMA Forms ==
  ASSUME NEW r, NEW g, NEW d
  PROVE  /\ Formed(Constructed(g), g)
         /\ Formed(NotFoundPage, g) /\ NotFoundPage.of # "nobody"
         /\ Formed(AboutPage(r), g)
         /\ r.code = OK /\ r.type = "mime" => Formed(Body(r, "file", d), g)
         /\ r.code = OK /\ r.type = "text/html" => Formed(Body(r, "listing", d), g)
  BY DEF Formed, Constructed, NotFoundPage, AboutPage, Body

(* A step of one thread that leaves garbage alone and gives the thread a   *)
(* response that suits its new pc keeps the invariant.                     *)
LEMMA OneThread ==
  ASSUME FormedInv, NEW t \in Threads, NEW r, NEW label,
         UNCHANGED garbage,
         response' = [response EXCEPT ![t] = r],
         pc' = [pc EXCEPT ![t] = label],
         label \notin Reading \cup Listing => Formed(r, garbage[t]),
         label \in Reading => r.code = OK /\ r.type = "mime",
         label \in Listing => r.code = OK /\ r.type = "text/html",
         label = "write" /\ r.of = "nobody" => r.code # 0
  PROVE  FormedInv'
<1>1. /\ pc' = [u \in Threads |-> pc'[u]]
      /\ response' = [u \in Threads |-> response'[u]]
      /\ garbage' = [u \in Threads |-> garbage'[u]]
  BY DEF FormedInv
<1>2. ASSUME NEW u \in Threads PROVE FormedThread(u)'
  <2>1. CASE u = t
    <3>1. response'[u] = r /\ pc'[u] = label /\ garbage'[u] = garbage[t]
      BY <2>1 DEF FormedInv
    <3> QED
      BY <3>1 DEF FormedThread
  <2>2. CASE u # t
    <3>1. response'[u] = response[u] /\ pc'[u] = pc[u] /\ garbage'[u] = garbage[u]
      BY <2>2 DEF FormedInv
    <3>2. FormedThread(u)
      BY DEF FormedInv
    <3> QED
      BY <3>1, <3>2 DEF FormedThread
  <2> QED
    BY <2>1, <2>2
<1> QED
  BY <1>1, <1>2 DEF FormedInv

(* So does one that only moves the thread among the labels of one kind.    *)
LEMMA SameResponse ==
  ASSUME FormedInv, NEW t \in Threads, NEW label,
         UNCHANGED <<garbage, response>>,
         pc' = [pc EXCEPT ![t] = label],
         label # "write",
         pc[t] \in Reading <=> label \in Reading,
         pc[t] \in Listing <=> label \in Listing
  PROVE  FormedInv'
<1>1. response' = [response EXCEPT ![t] = response[t]]
  BY DEF FormedInv
<1>2. FormedThread(t)
  BY DEF FormedInv
<1> QED
  BY <1>1, <1>2, OneThread DEF FormedThread

(* One step per action of a thread.                                        *)
LEMMA ThreadKeepsFormed ==
  ASSUME FormedInv, NEW t \in Threads, ThreadNext(t)
  PROVE  FormedInv'
<1> DEFINE r == response[t]
           g == garbage[t]
<1> USE DEF Reading, Listing
<1>0. FormedThread(t)
  BY DEF FormedInv
<1>1. CASE Env(t)
  <2>1. PICK code \in Garbage :
          /\ response' = [response EXCEPT ![t] = Constructed(code)]
          /\ garbage' = [garbage EXCEPT ![t] = code]
    BY <1>1 DEF Env
  <2>2. pc' = [pc EXCEPT ![t] = "call"]
    BY <1>1 DEF Env, Goto
  <2>3. Formed(Constructed(code), code)
    BY <1>0, Forms
  <2>4. ASSUME NEW u \in Threads PROVE FormedThread(u)'
    BY <2>1, <2>2, <2>3 DEF FormedInv, FormedThread
  <2> QED
    BY <2>1, <2>2, <2>4 DEF FormedInv
<1>2. CASE About(t)
  <2>1. Formed(AboutPage(r), g)
    BY <1>0, Forms
  <2> QED
    BY <1>2, <2>1, OneThread DEF About, Return, history
<1>3. CASE Urlmap(t)
  <2>1. Formed(AboutPage(r), g)
    BY <1>0, Forms
  <2>2. Formed(r, g)
    BY <1>0, <1>3 DEF Urlmap, At, FormedThread
  <2> QED
    BY <1>0, <1>3, <2>1, <2>2, OneThread DEF Urlmap, Return, history
<1>4. CASE Error404(t)
  <2>1. Formed(NotFoundPage, g)
    BY <1>0, Forms
  <2>2. Formed(r, g)
    BY <1>0, <1>4 DEF Error404, At, FormedThread
  <2> QED
    BY <1>0, <1>4, <2>1, <2>2, OneThread DEF Error404, Return, history
<1>5. CASE StaticFile(t)
  <2>1. pc[t] = "call" /\ Formed(r, g)
    BY <1>0, <1>5 DEF StaticFile, At, FormedThread
  <2>2. CASE Goto(t, "exist") /\ UNCHANGED response
    BY <1>5, <2>1, <2>2, SameResponse DEF StaticFile, Goto, history
  <2>3. CASE Return(t, r)
    BY <1>0, <1>5, <2>1, <2>3, OneThread DEF StaticFile, Return, history
  <2> QED
    BY <1>5, <2>2, <2>3 DEF StaticFile
<1>6. CASE Exist(t)
  <2>1. pc[t] = "exist" /\ Formed(r, g)
    BY <1>0, <1>6 DEF Exist, FormedThread
  <2>2. CASE Goto(t, "is_directory") /\ UNCHANGED response
    BY <1>6, <2>1, <2>2, SameResponse DEF Exist, Goto, history
  <2>3. CASE Return(t, r)
    BY <1>0, <1>6, <2>1, <2>3, OneThread DEF Exist, Return, history
  <2> QED
    BY <1>6, <2>2, <2>3 DEF Exist
<1>7. CASE IsDirectory(t)
  <2>1. pc[t] = "is_directory" /\ Formed(r, g) /\ UNCHANGED garbage
    BY <1>0, <1>7 DEF IsDirectory, FormedThread, history
  <2>2. \A type : Found(r, type).code = OK /\ Found(r, type).type = type
    BY DEF Found
  <2>3. CASE /\ response' = [response EXCEPT ![t] = Found(r, "text/html")]
             /\ Goto(t, "opendir")
    BY <2>1, <2>2, <2>3, OneThread DEF Goto
  <2>4. CASE Return(t, r)
    BY <1>0, <2>1, <2>4, OneThread DEF Return
  <2>5. CASE /\ response' = [response EXCEPT ![t] = Found(r, "mime")]
             /\ Goto(t, "open")
    BY <2>1, <2>2, <2>5, OneThread DEF Goto
  <2> QED
    BY <1>7, <2>3, <2>4, <2>5 DEF IsDirectory
<1>8. CASE OpenFile(t) \/ ReadBlock(t)
  <2>1. /\ pc[t] \in Reading /\ UNCHANGED garbage
        /\ r.code = OK /\ r.type = "mime"
    BY <1>0, <1>8 DEF OpenFile, ReadBlock, FormedThread, history
  <2>2. ASSUME NEW d, Return(t, Body(r, "file", d))
        PROVE  FormedInv'
    <3>1. Formed(Body(r, "file", d), g)
      BY <2>1, Forms
    <3> QED
      BY <2>1, <2>2, <3>1, OneThread DEF Return
  <2>3. \/ \E d : Return(t, Body(r, "file", d))
        \/ Goto(t, "read") /\ UNCHANGED response
        \/ UNCHANGED <<pc, response>>
    BY <1>8 DEF OpenFile, ReadBlock
  <2>4. CASE Goto(t, "read") /\ UNCHANGED response
    BY <2>1, <2>4, SameResponse DEF Goto
  <2>5. CASE UNCHANGED <<pc, response>>
    BY <2>1, <2>5 DEF FormedInv, FormedThread
  <2> QED
    BY <2>2, <2>3, <2>4, <2>5
<1>9. CASE OpenDir(t) \/ ReadDir(t) \/ StatEntry(t) \/ EndDir(t)
  <2>1. /\ pc[t] \in Listing /\ UNCHANGED garbage
        /\ r.code = OK /\ r.type = "text/html"
    BY <1>0, <1>9 DEF OpenDir, ReadDir, StatEntry, EndDir, FormedThread, history
  <2>2. ASSUME NEW d, Return(t, Body(r, "listing", d))
        PROVE  FormedInv'
    <3>1. Formed(Body(r, "listing", d), g)
      BY <2>1, Forms
    <3> QED
      BY <2>1, <2>2, <3>1, OneThread DEF Return
  <2>3. \/ \E d : Return(t, Body(r, "listing", d))
        \/ \E label \in {"readdir", "stat"} : Goto(t, label) /\ UNCHANGED response
        \/ UNCHANGED <<pc, response>>
    BY <1>9 DEF OpenDir, ReadDir, StatEntry, EndDir
  <2>4. ASSUME NEW label \in {"readdir", "stat"}, Goto(t, label), UNCHANGED response
        PROVE  FormedInv'
    BY <2>1, <2>4, SameResponse DEF Goto
  <2>5. CASE UNCHANGED <<pc, response>>
    BY <2>1, <2>5 DEF FormedInv, FormedThread
  <2> QED
    BY <2>2, <2>3, <2>4, <2>5
<1>10. CASE Respond(t)
  <2>1. Formed(r, g) /\ UNCHANGED garbage /\ pc' = [pc EXCEPT ![t] = "write"]
    BY <1>0, <1>10 DEF Respond, Goto, FormedThread, history
  <2>2. CASE Internal404(r)
    <3>1. response' = [response EXCEPT ![t] = NotFoundPage]
      BY <1>10, <2>2 DEF Respond, FormedInv
    <3>2. /\ Formed(NotFoundPage, g)
          /\ NotFoundPage.of # "nobody"
      BY <1>0, Forms
    <3> QED
      BY <2>1, <3>1, <3>2, OneThread
  <2>3. CASE ~Internal404(r)
    <3>1. response' = [response EXCEPT ![t] = r]
      BY <1>10, <2>3 DEF Respond, FormedInv
    <3>2. r.code # 0
      BY <2>3 DEF Internal404
    <3> QED
      BY <1>0, <2>1, <3>1, <3>2, OneThread
  <2> QED
    BY <2>2, <2>3
<1>11. CASE Write(t)
  <2>1. /\ response' = [response EXCEPT ![t] = Constructed(0)]
        /\ garbage' = [garbage EXCEPT ![t] = 0]
        /\ pc' = [pc EXCEPT ![t] = "idle"]
    BY <1>11 DEF Write, Goto
  <2>2. Formed(Constructed(0), 0)
    BY <1>0, Forms
  <2>3. ASSUME NEW u \in Threads PROVE FormedThread(u)'
    BY <2>1, <2>2 DEF FormedInv, FormedThread
  <2> QED
    BY <2>1, <2>3 DEF FormedInv
<1> QED
  BY <1>1, <1>2, <1>3, <1>4, <1>5, <1>6, <1>7, <1>8, <1>9, <1>10, <1>11
  DEF ThreadNext, CallStep

LEMMA FormedCorrect == Spec => []FormedInv
<1>1. Init => FormedInv
  <2> SUFFICES ASSUME Init PROVE FormedInv
    OBVIOUS
  <2>1. /\ pc = [t \in Threads |-> "idle"]
        /\ response = [t \in Threads |-> Constructed(0)]
        /\ garbage = [t \in Threads |-> 0]
    BY DEF Init
  <2> QED
    BY <2>1 DEF FormedInv, FormedThread, Formed, Constructed,
                Reading, Listing
<1>2. FormedInv /\ [Next]_vars => FormedInv'
  <2> SUFFICES ASSUME FormedInv, [Next]_vars PROVE FormedInv'
    OBVIOUS
  <2>1. CASE Change \/ UNCHANGED calls
    <3>1. UNCHANGED <<pc, response, garbage>>
      BY <2>1 DEF Change, calls, history
    <3> QED
      BY <3>1 DEF FormedInv, FormedThread
  <2>2. ASSUME NEW t \in Threads, ThreadNext(t) PROVE FormedInv'
    BY <2>2, ThreadKeepsFormed
  <2> QED
    BY <2>1, <2>2, CallsStay DEF Next
<1> QED
  BY <1>1, <1>2, PTL DEF Spec

-----------------------------------------------------------------------------
Labels == {"idle", "call", "exist", "is_directory", "open", "read",
           "opendir", "readdir", "stat", "write"}
Inside == {"exist", "is_directory", "open", "read", "opendir", "readdir", "stat"}

Shape ==
  /\ pc = [t \in Threads |-> pc[t]]       /\ asks = [t \in Threads |-> asks[t]]
  /\ level = [t \in Threads |-> level[t]] /\ response = [t \in Threads |-> response[t]]
  /\ entry = [t \in Threads |-> entry[t]] /\ seen = [t \in Threads |-> seen[t]]

(* What holds of one thread: within static_file a middleware has still to  *)
(* return, and what the path names now has been seen by the call.          *)
ThreadOK(t) ==
  /\ pc[t] \in Labels
  /\ level[t] \in 0 .. Len(app)
  /\ pc[t] \in Inside => level[t] > 0
  /\ IF pc[t] = "stat" THEN \E e : entry[t] = {e} ELSE entry[t] = {}
  /\ seen[t] \subseteq Nodes
  /\ pc[t] # "idle" => node \in seen[t]
  /\ response[t].code \in Garbage \cup {0, OK, Not_Found}

(* The part of the state all threads share.                                *)
SharedOK ==
  /\ app \in Chains
  /\ {allow_explore_, alive} \subseteq BOOLEAN
  /\ node \in Nodes
  /\ changes \in 0 .. MaxChanges
  /\ waiting \in Nat /\ dirs \in Nat /\ listings = dirs
  /\ waiting + dirs + Cardinality(Busy) + Cardinality(Readers) <= MaxFds

(* What a step of thread t leaves alone.                                   *)
LEMMA OthersStay ==
  ASSUME Shape, NEW t \in Threads, ThreadNext(t)
  PROVE  /\ Shape' /\ UNCHANGED <<app, allow_explore_, node, changes>>
         /\ \A u \in Threads \ {t} :
              UNCHANGED <<pc[u], asks[u], level[u], response[u], entry[u], seen[u]>>
<1> USE DEF Shape, fs, history, Goto, Return
<1>1. CASE Env(t)
  BY <1>1 DEF Env
<1>2. CASE About(t) \/ Urlmap(t) \/ Error404(t)
  BY <1>2 DEF About, Urlmap, Error404
<1>3. CASE StaticFile(t) \/ Exist(t)
  BY <1>3 DEF StaticFile, Exist
<1>4. CASE IsDirectory(t)
  BY <1>4 DEF IsDirectory
<1>5. CASE OpenFile(t) \/ ReadBlock(t)
  BY <1>5 DEF OpenFile, ReadBlock
<1>6. CASE OpenDir(t) \/ ReadDir(t) \/ StatEntry(t) \/ EndDir(t)
  BY <1>6 DEF OpenDir, ReadDir, StatEntry, EndDir
<1>7. CASE Respond(t) \/ Write(t)
  BY <1>7 DEF Respond, Write
<1> QED
  BY <1>1, <1>2, <1>3, <1>4, <1>5, <1>6, <1>7 DEF ThreadNext, CallStep

(* Of the constants.                                                       *)
LEMMA Constants ==
  /\ \A c \in Chains : Len(c) \in Nat
  /\ MaxFds \in Nat /\ MaxChanges \in Nat /\ IsFiniteSet(Threads)
  /\ \A n \in Nodes : n.kind # "directory" => n.entries = {}
  BY MiddlewareAssumption DEF MiddlewareAssumption

(* A step of one thread keeps what holds of it...                          *)
LEMMA ThreadKeepsOK ==
  ASSUME Shape, SharedOK, NEW t \in Threads, ThreadOK(t), ThreadNext(t)
  PROVE  ThreadOK(t)'
<1> DEFINE Codes == Garbage \cup {0, OK, Not_Found}
<1>0. /\ Len(app) \in Nat /\ level[t] \in 0 .. Len(app) /\ app' = app /\ node' = node
      /\ node \in Nodes /\ seen[t] \subseteq Nodes /\ response[t].code \in Codes
      /\ pc[t] # "idle" => node \in seen[t]
      /\ pc[t] \in Inside => level[t] > 0
      /\ IF pc[t] = "stat" THEN \E e : entry[t] = {e} ELSE entry[t] = {}
      /\ {0, OK, Not_Found} \subseteq Codes
  BY Constants, OthersStay DEF SharedOK, ThreadOK
<1> HIDE DEF Codes
(* The step leaves static_file's middleware its place, or returns from it. *)
<1>1. ASSUME pc[t] # "idle", seen'[t] = seen[t], response'[t].code \in Codes,
             \/ /\ pc'[t] \in {"call", "write"}
                /\ level'[t] \in {level[t], level[t] - 1} /\ level'[t] >= 0
                /\ entry'[t] = {}
             \/ /\ pc'[t] \in Inside \ {"stat"} /\ level[t] > 0
                /\ level'[t] = level[t] /\ entry'[t] = {}
             \/ /\ pc'[t] = "stat" /\ level[t] > 0
                /\ level'[t] = level[t] /\ \E e : entry'[t] = {e}
      PROVE  ThreadOK(t)'
  <2>1. pc'[t] \in Labels /\ (pc'[t] \in Inside => level'[t] > 0)
    BY <1>1 DEF Labels, Inside
  <2>2. level'[t] \in 0 .. Len(app)
    BY <1>0, <1>1
  <2>3. IF pc'[t] = "stat" THEN \E e : entry'[t] = {e} ELSE entry'[t] = {}
    BY <1>1
  <2> QED
    BY <1>0, <1>1, <2>1, <2>2, <2>3 DEF ThreadOK, Codes
<1> USE DEF Shape, history, Goto, Return, Inside
<1>2. CASE Env(t)
  <2>1. PICK code \in Garbage : response'[t] = Constructed(code)
    BY <1>2 DEF Env
  <2>2. /\ pc'[t] = "call" /\ level'[t] = Len(app) /\ seen'[t] = {node}
        /\ entry'[t] = {}
    BY <1>0, <1>2 DEF Env
  <2>3. response'[t].code \in Codes
    <3>1. Constructed(code).code = code
      BY DEF Constructed
    <3> QED
      BY <2>1, <3>1 DEF Codes
  <2>4. pc'[t] \in Labels /\ pc'[t] \notin Inside /\ level'[t] \in 0 .. Len(app)
    BY <1>0, <2>2 DEF Labels
  <2> QED
    BY <1>0, <2>2, <2>3, <2>4 DEF ThreadOK, Codes
<1>3. CASE About(t) \/ Urlmap(t) \/ Error404(t)
  <2>1. pc'[t] = "call" /\ pc[t] = "call" /\ entry'[t] = {} /\ seen'[t] = seen[t]
    BY <1>0, <1>3 DEF About, Urlmap, Error404, At
  <2>2. level'[t] = level[t] - 1 /\ level[t] > 0
    BY <1>0, <1>3 DEF About, Urlmap, Error404, At
  <2>3. response'[t].code \in Codes
    BY <1>0, <1>3 DEF About, Urlmap, Error404, AboutPage, NotFoundPage
  <2> QED
    BY <1>0, <1>1, <2>1, <2>2, <2>3
<1>4. CASE StaticFile(t)
  BY <1>0, <1>1, <1>4 DEF StaticFile, At
<1>5. CASE Exist(t)
  BY <1>0, <1>1, <1>5 DEF Exist
<1>6. CASE IsDirectory(t)
  <2>1. response'[t].code \in Codes
    BY <1>0, <1>6 DEF IsDirectory, Found
  <2> QED
    BY <1>0, <1>1, <1>6, <2>1 DEF IsDirectory
<1>7. CASE OpenFile(t) \/ ReadBlock(t)
  <2>1. response'[t].code \in Codes
    BY <1>0, <1>7 DEF OpenFile, ReadBlock, Body
  <2>2. pc[t] \in {"open", "read"} /\ level[t] > 0 /\ seen'[t] = seen[t] /\ entry'[t] = {}
    BY <1>0, <1>7 DEF OpenFile, ReadBlock
  <2>3. \/ pc'[t] = "call" /\ level'[t] = level[t] - 1
        \/ pc'[t] = "read" /\ level'[t] = level[t]
    BY <1>0, <1>7 DEF OpenFile, ReadBlock
  <2> QED
    BY <1>0, <1>1, <2>1, <2>2, <2>3
<1>8. CASE OpenDir(t) \/ EndDir(t)
  <2>1. response'[t].code \in Codes
    BY <1>0, <1>8 DEF OpenDir, EndDir, Body
  <2>2. /\ pc[t] \in {"opendir", "readdir"} /\ level[t] > 0 /\ seen'[t] = seen[t]
        /\ entry'[t] = {}
    BY <1>0, <1>8 DEF OpenDir, EndDir
  <2>3. \/ pc'[t] = "call" /\ level'[t] = level[t] - 1
        \/ pc'[t] = "readdir" /\ level'[t] = level[t]
    BY <1>0, <1>8 DEF OpenDir, EndDir
  <2> QED
    BY <1>0, <1>1, <2>1, <2>2, <2>3
<1>9. CASE ReadDir(t)
  <2>1. PICK e : entry'[t] = {e}
    BY <1>9 DEF ReadDir
  <2>2. /\ pc'[t] = "stat" /\ level'[t] = level[t] /\ seen'[t] = seen[t]
        /\ response'[t] = response[t] /\ pc[t] = "readdir"
    BY <1>9 DEF ReadDir
  <2> QED
    BY <1>0, <1>1, <2>1, <2>2
<1>10. CASE StatEntry(t)
  <2>1. /\ level'[t] = level[t] /\ seen'[t] = seen[t]
        /\ response'[t] = response[t] /\ pc[t] = "stat"
    BY <1>10 DEF StatEntry
  <2>2. \/ pc'[t] = "readdir" /\ entry'[t] = {}
        \/ pc'[t] = pc[t] /\ entry'[t] = entry[t]
    BY <1>10 DEF StatEntry
  <2> QED
    BY <1>0, <1>1, <2>1, <2>2
<1>11. CASE Respond(t)
  <2>1. response'[t].code \in Codes
    BY <1>0, <1>11 DEF Respond, NotFoundPage
  <2> QED
    BY <1>0, <1>1, <1>11, <2>1 DEF Respond
<1>12. CASE Write(t)
  <2>1. /\ pc'[t] = "idle" /\ level'[t] = level[t] /\ seen'[t] = {}
        /\ entry'[t] = {}
    BY <1>0, <1>12 DEF Write
  <2>2. response'[t].code \in Codes
    BY <1>0, <1>12 DEF Write, Constructed
  <2> QED
    BY <1>0, <2>1, <2>2 DEF ThreadOK, Labels, Codes
<1> QED
  BY <1>2, <1>3, <1>4, <1>5, <1>6, <1>7, <1>8, <1>9, <1>10, <1>11, <1>12
  DEF ThreadNext, CallStep

(* ...and the table of descriptors within its bounds.                      *)
LEMMA OneMoves ==
  ASSUME NEW S \in SUBSET Threads, NEW T \in SUBSET Threads, NEW t \in Threads,
         \A u \in Threads \ {t} : u \in T <=> u \in S
  PROVE  /\ Cardinality(S) \in Nat /\ Cardinality(T) \in Nat
         /\ t \in S => Cardinality(S) >= 1
         /\ (t \in S <=> t \in T) => Cardinality(T) = Cardinality(S)
         /\ t \notin S /\ t \in T => Cardinality(T) = Cardinality(S) + 1
         /\ t \in S /\ t \notin T => Cardinality(T) = Cardinality(S) - 1
<1>1. IsFiniteSet(S) /\ IsFiniteSet(T)
  BY Constants, FS_Subset
<1>2. Cardinality(S) \in Nat /\ Cardinality(T) \in Nat
  BY <1>1, FS_CardinalityType
<1>3. t \in S => Cardinality(S) >= 1
  <2>1. S = {} => t \notin S
    OBVIOUS
  <2> QED
    BY <1>1, <1>2, <2>1, FS_EmptySet
<1>4. (t \in S <=> t \in T) => Cardinality(T) = Cardinality(S)
  <2>1. (t \in S <=> t \in T) => T = S
    OBVIOUS
  <2> QED
    BY <2>1
<1>5. t \notin S /\ t \in T => Cardinality(T) = Cardinality(S) + 1
  <2>1. t \notin S /\ t \in T => T = S \cup {t}
    OBVIOUS
  <2> QED
    BY <1>1, <2>1, FS_AddElement
<1>6. t \in S /\ t \notin T => Cardinality(T) = Cardinality(S) - 1
  <2>1. t \in S /\ t \notin T => S = T \cup {t}
    OBVIOUS
  <2>2. t \in S /\ t \notin T => Cardinality(S) = Cardinality(T) + 1
    BY <1>1, <2>1, FS_AddElement
  <2> QED
    BY <1>2, <2>2
<1> QED
  BY <1>2, <1>3, <1>4, <1>5, <1>6

LEMMA ThreadKeepsShared ==
  ASSUME Shape, SharedOK, NEW t \in Threads, ThreadOK(t), ThreadNext(t)
  PROVE  SharedOK'
<1> DEFINE b == Cardinality(Busy)
           n == Cardinality(Readers)
<1>1. \A u \in Threads \ {t} : pc'[u] = pc[u]
  BY OthersStay
<1>2. /\ b \in Nat /\ b' \in Nat /\ (pc[t] # "idle" => b >= 1)
      /\ pc[t] # "idle" /\ pc'[t] # "idle" => b' = b
      /\ pc[t] = "idle" /\ pc'[t] # "idle" => b' = b + 1
      /\ pc[t] # "idle" /\ pc'[t] = "idle" => b' = b - 1
  <2>1. /\ Busy \in SUBSET Threads /\ Busy' \in SUBSET Threads
        /\ \A u \in Threads \ {t} : u \in Busy' <=> u \in Busy
        /\ (t \in Busy <=> pc[t] # "idle") /\ (t \in Busy' <=> pc'[t] # "idle")
    BY <1>1 DEF Busy
  <2> QED
    BY <2>1, OneMoves
<1>3. /\ n \in Nat /\ n' \in Nat
      /\ pc'[t] # "read" => n' <= n
      /\ pc[t] = "read" => n' <= n
      /\ n' <= n + 1
  <2>1. /\ Readers \in SUBSET Threads /\ Readers' \in SUBSET Threads
        /\ \A u \in Threads \ {t} : u \in Readers' <=> u \in Readers
        /\ (t \in Readers <=> pc[t] = "read") /\ (t \in Readers' <=> pc'[t] = "read")
    BY <1>1 DEF Readers
  <2>2. n \in Nat /\ n' \in Nat
    BY <2>1, OneMoves
  <2>3. CASE t \in Readers <=> t \in Readers'
    <3>1. n' = n
      BY <2>1, <2>3, OneMoves
    <3> QED
      BY <2>2, <3>1
  <2>4. CASE t \notin Readers /\ t \in Readers'
    <3>1. n' = n + 1
      BY <2>1, <2>4, OneMoves
    <3> QED
      BY <2>1, <2>2, <2>4, <3>1
  <2>5. CASE t \in Readers /\ t \notin Readers'
    <3>1. n' = n - 1
      BY <2>1, <2>5, OneMoves
    <3> QED
      BY <2>2, <3>1
  <2> QED
    BY <2>3, <2>4, <2>5
<1>4. UNCHANGED <<app, allow_explore_, node, changes>>
  BY OthersStay
<1>5. /\ app' \in Chains /\ node' \in Nodes /\ changes' \in 0 .. MaxChanges
      /\ allow_explore_' \in BOOLEAN
      /\ waiting \in Nat /\ dirs \in Nat /\ waiting + dirs + b + n <= MaxFds
      /\ listings = dirs /\ MaxFds \in Nat /\ alive \in BOOLEAN
  BY <1>4, Constants DEF SharedOK
<1>6. FreeFds = MaxFds - waiting - dirs - b - n
  BY DEF FreeFds
<1> HIDE DEF b, n
<1>7. ASSUME alive' \in BOOLEAN, waiting' \in Nat, dirs' \in Nat, listings' = dirs',
             waiting' + dirs' + b' + n' <= MaxFds
      PROVE  SharedOK'
  BY <1>5, <1>7 DEF SharedOK, b, n
<1> USE DEF Shape, fs, Goto, Return
<1>8. CASE Env(t)
  <2>1. /\ UNCHANGED <<dirs, listings, alive>> /\ waiting > 0 /\ waiting' = waiting - 1
        /\ pc[t] = "idle" /\ pc'[t] = "call"
    BY <1>8 DEF Env
  <2>2. b' = b + 1 /\ n' <= n
    BY <1>2, <1>3, <2>1
  <2> QED
    BY <1>2, <1>3, <1>5, <1>7, <2>1, <2>2
<1>9. CASE Write(t)
  <2>1. UNCHANGED <<waiting, dirs, listings, alive>> /\ pc[t] = "write" /\ pc'[t] = "idle"
    BY <1>9 DEF Write
  <2>2. b' = b - 1 /\ n' <= n
    BY <1>2, <1>3, <2>1
  <2> QED
    BY <1>2, <1>3, <1>5, <1>7, <2>1, <2>2
<1>10. ASSUME UNCHANGED <<waiting, dirs, listings>>, alive' \in BOOLEAN,
              pc[t] # "idle", pc'[t] # "idle",
              n' <= n \/ (n' <= n + 1 /\ FreeFds # 0)
       PROVE  SharedOK'
  <2>1. b' = b
    BY <1>2, <1>10
  <2>2. waiting' + dirs' + b' + n' <= MaxFds
    BY <1>2, <1>3, <1>5, <1>6, <1>10, <2>1
  <2> QED
    BY <1>5, <1>7, <1>10, <2>2
<1>11. CASE \/ About(t) \/ Urlmap(t) \/ Error404(t) \/ StaticFile(t) \/ Exist(t)
            \/ IsDirectory(t) \/ ReadDir(t) \/ Respond(t)
  <2>1. /\ UNCHANGED <<waiting, dirs, listings, alive>>
        /\ pc[t] # "idle" /\ pc'[t] \notin {"idle", "read"}
    BY <1>11 DEF At, About, Urlmap, Error404, StaticFile, Exist, IsDirectory, ReadDir, Respond
  <2> QED
    BY <1>3, <1>5, <1>10, <2>1
<1>12. CASE StatEntry(t)
  <2>1. /\ UNCHANGED <<waiting, dirs, listings>> /\ alive' \in BOOLEAN
        /\ pc[t] # "idle" /\ pc'[t] \notin {"idle", "read"}
    BY <1>5, <1>12 DEF StatEntry
  <2> QED
    BY <1>3, <1>10, <2>1
<1>13. CASE OpenFile(t)
  <2>1. /\ UNCHANGED <<waiting, dirs, listings, alive>> /\ pc[t] # "idle" /\ pc'[t] # "idle"
        /\ pc'[t] = "read" => FreeFds # 0
    BY <1>13 DEF OpenFile
  <2> QED
    BY <1>3, <1>5, <1>10, <2>1
<1>14. CASE ReadBlock(t)
  <2>1. /\ UNCHANGED <<waiting, dirs, listings, alive>> /\ pc[t] = "read" /\ pc'[t] # "idle"
    BY <1>14 DEF ReadBlock
  <2> QED
    BY <1>3, <1>5, <1>10, <2>1
<1>15. CASE OpenDir(t)
  <2>1. /\ UNCHANGED <<waiting, alive>> /\ pc[t] # "idle" /\ pc'[t] \notin {"idle", "read"}
    BY <1>15 DEF OpenDir
  <2>2. CASE UNCHANGED <<dirs, listings>>
    BY <1>3, <1>5, <1>10, <2>1, <2>2
  <2>3. CASE FreeFds > 0 /\ dirs' = dirs + 1 /\ listings' = listings + 1
    <3>1. b' = b /\ n' <= n
      BY <1>2, <1>3, <2>1
    <3> QED
      BY <1>2, <1>3, <1>5, <1>6, <1>7, <2>1, <2>3, <3>1
  <2> QED
    BY <1>15, <2>2, <2>3 DEF OpenDir, OpensDir
<1>16. CASE EndDir(t)
  <2>1. /\ UNCHANGED <<waiting, dirs, listings, alive>>
        /\ pc[t] # "idle" /\ pc'[t] \notin {"idle", "read"}
    BY <1>16 DEF EndDir, LeftOpen
  <2> QED
    BY <1>3, <1>5, <1>10, <2>1
<1> QED
  BY <1>8, <1>9, <1>11, <1>12, <1>13, <1>14, <1>15, <1>16 DEF ThreadNext, CallStep

-----------------------------------------------------------------------------
TypeInv == Shape /\ SharedOK /\ \A t \in Threads : ThreadOK(t)

LEMMA InitTyped == Init => TypeInv
<1> SUFFICES ASSUME Init PROVE TypeInv
  OBVIOUS
<1>1. Shape /\ Readers = {} /\ Busy = {}
  BY DEF Init, Shape, Readers, Busy
<1>2. SharedOK
  <2>1. Cardinality(Readers) = 0 /\ Cardinality(Busy) = 0
    BY <1>1, FS_EmptySet
  <2>2. /\ waiting \in Nat /\ dirs \in Nat /\ listings = dirs /\ changes \in 0 .. MaxChanges
        /\ waiting + dirs + Cardinality(Busy) + Cardinality(Readers) <= MaxFds
    BY <2>1, Constants DEF Init
  <2> QED
    BY <2>2 DEF Init, SharedOK
<1>3. ASSUME NEW t \in Threads PROVE ThreadOK(t)
  <2>1. /\ pc[t] = "idle" /\ level[t] = 0 /\ entry[t] = {} /\ seen[t] = {}
        /\ response[t].code = 0 /\ Len(app) \in Nat
    BY Constants DEF Init, Constructed
  <2>2. pc[t] \in Labels /\ pc[t] \notin Inside
    BY <2>1 DEF Labels, Inside
  <2>3. level[t] \in 0 .. Len(app)
    BY <2>1
  <2> QED
    BY <2>1, <2>2, <2>3 DEF ThreadOK
<1> QED
  BY <1>1, <1>2, <1>3 DEF TypeInv

LEMMA ChangeKeepsTyped == TypeInv /\ Change => TypeInv'
<1> SUFFICES ASSUME TypeInv, Change PROVE TypeInv'
  OBVIOUS
<1>1. /\ UNCHANGED <<app, allow_explore_, alive, waiting, dirs, listings, pc, asks, level,
                     response, entry>>
      /\ changes < MaxChanges /\ changes' = changes + 1
  BY DEF Change
<1>2. PICK n \in Nodes :
        /\ node' = n
        /\ seen' = [t \in Threads |-> IF pc[t] = "idle" THEN {} ELSE seen[t] \cup {n}]
  BY DEF Change
<1>3. Readers' = Readers /\ Busy' = Busy
  BY <1>1 DEF Readers, Busy
<1>4. SharedOK'
  BY <1>1, <1>2, <1>3, Constants DEF TypeInv, SharedOK
<1>5. Shape'
  BY <1>1, <1>2 DEF TypeInv, Shape
<1>6. ASSUME NEW t \in Threads PROVE ThreadOK(t)'
  BY <1>1, <1>2 DEF TypeInv, ThreadOK
<1> QED
  BY <1>4, <1>5, <1>6 DEF TypeInv

LEMMA ThreadKeepsTyped ==
  ASSUME TypeInv, NEW t \in Threads, ThreadNext(t) PROVE TypeInv'
<1>1. Shape' /\ SharedOK' /\ ThreadOK(t)'
  BY OthersStay, ThreadKeepsOK, ThreadKeepsShared DEF TypeInv
<1>2. ASSUME NEW u \in Threads \ {t} PROVE ThreadOK(u)'
  BY OthersStay DEF TypeInv, ThreadOK
<1> QED
  BY <1>1, <1>2 DEF TypeInv

LEMMA StillKeepsTyped == TypeInv /\ (Accept \/ UNCHANGED vars) => TypeInv'
<1> SUFFICES ASSUME TypeInv, Accept \/ UNCHANGED vars PROVE TypeInv'
  OBVIOUS
<1>1. UNCHANGED calls
  BY CallsStay
<1>2. Readers' = Readers /\ Busy' = Busy
  BY <1>1 DEF calls, Readers, Busy
<1>3. waiting' \in Nat
      /\ waiting' + dirs + Cardinality(Busy) + Cardinality(Readers) <= MaxFds
  <2>1. Cardinality(Readers) \in Nat /\ Cardinality(Busy) \in Nat
    BY Constants, FS_Subset, FS_CardinalityType DEF Readers, Busy
  <2> QED
    BY <2>1, Constants DEF TypeInv, SharedOK, Accept, FreeFds, vars
<1> QED
  BY <1>1, <1>2, <1>3 DEF calls, fs, history, TypeInv, Shape, SharedOK, ThreadOK

LEMMA Typed == Spec => []TypeInv
<1>1. TypeInv /\ [Next]_vars => TypeInv'
  BY ChangeKeepsTyped, ThreadKeepsTyped, StillKeepsTyped DEF Next
<1> QED
  BY <1>1, InitTyped, PTL DEF Spec

(* The types of the variables, and connections, streams and files never    *)
(* are more than there are descriptors for.                                *)
THEOREM TypeCorrect == Spec => []TypeOK
<1>1. TypeInv => TypeOK
  <2> SUFFICES ASSUME TypeInv PROVE TypeOK
    OBVIOUS
  <2>1. /\ waiting + dirs + Cardinality(Busy) + Cardinality(Readers) \in 0 .. MaxFds
        /\ listings \in 0 .. MaxFds
    <3>1. Cardinality(Readers) \in Nat /\ Cardinality(Busy) \in Nat
      BY Constants, FS_Subset, FS_CardinalityType DEF Readers, Busy
    <3> QED
      BY <3>1, Constants DEF TypeInv, SharedOK
  <2>2. ASSUME NEW t \in Threads PROVE pc[t] = "stat" <=> Cardinality(entry[t]) = 1
    <3>1. CASE pc[t] = "stat"
      <4>1. PICK e : entry[t] = {e}
        BY <3>1 DEF TypeInv, ThreadOK
      <4> QED
        BY <3>1, <4>1, FS_Singleton
    <3>2. CASE pc[t] # "stat"
      <4>1. entry[t] = {}
        BY <3>2 DEF TypeInv, ThreadOK
      <4> QED
        BY <3>2, <4>1, FS_EmptySet
    <3> QED
      BY <3>1, <3>2
  <2>3. ASSUME NEW t \in Threads
        PROVE  /\ pc[t] \in Labels /\ level[t] \in 0 .. Len(app) /\ seen[t] \subseteq Nodes
               /\ response[t].code \in Garbage \cup {0, OK, Not_Found}
    BY DEF TypeInv, ThreadOK
  <2> QED
    BY <2>1, <2>2, <2>3 DEF TypeInv, SharedOK, TypeOK, Labels
<1> QED
  BY <1>1, Typed, PTL

-----------------------------------------------------------------------------
LEMMA StepKeepsCause == TypeInv /\ CrashCause /\ [Next]_vars => CrashCause'
<1> SUFFICES ASSUME TypeInv, CrashCause, [Next]_vars PROVE CrashCause'
  OBVIOUS
<1>1. CASE UNCHANGED calls
  BY <1>1 DEF calls, history, CrashCause
<1>2. CASE alive /\ alive' = alive
  BY <1>2 DEF CrashCause
<1>3. ASSUME NEW t \in Threads, StatEntry(t), ~alive' PROVE CrashCause'
  <2>1. PICK e \in entry[t] : ~StatFinds(e) /\ UNCHANGED <<entry, seen>>
    BY <1>3 DEF StatEntry, history, TypeInv, SharedOK
  <2>2. node \in Nodes /\ node \in seen[t]
    BY <1>3 DEF StatEntry, TypeInv, SharedOK, ThreadOK
  <2>3. e \in Dangling \/ e \notin node.entries
    BY <2>1, <2>2, Constants DEF StatFinds
  <2> QED
    BY <2>1, <2>2, <2>3 DEF CrashCause
<1>4. ASSUME NEW t \in Threads, ThreadNext(t), ~StatEntry(t) PROVE alive /\ alive' = alive
  BY <1>4 DEF ThreadNext, CallStep, Env, About, Urlmap, Error404, StaticFile, Exist, At,
              IsDirectory, OpenFile, ReadBlock, OpenDir, ReadDir, EndDir, Respond, Write
<1>5. Change => alive /\ alive' = alive
  BY DEF Change
<1>6. ASSUME NEW t \in Threads, StatEntry(t), alive' PROVE alive /\ alive' = alive
  BY <1>6 DEF StatEntry, TypeInv, SharedOK
<1> QED
  BY <1>1, <1>2, <1>3, <1>4, <1>5, <1>6, CallsStay DEF Next

(* Whatever the number of threads and of entries, only a dangling link or  *)
(* an entry that vanished during the listing crashes the process.          *)
THEOREM CrashCauseCorrect == Spec => []CrashCause
<1>1. Init => CrashCause
  BY DEF Init, CrashCause
<1> QED
  BY <1>1, StepKeepsCause, Typed, PTL DEF Spec

-----------------------------------------------------------------------------
(* With all descriptors but one gone to streams, a call has the last one.  *)
LEMMA NothingFree ==
  ASSUME TypeInv, listings >= MaxFds - 1, NEW t \in Threads, pc[t] # "idle"
  PROVE  FreeFds = 0
<1>1. Cardinality(Busy) \in Nat /\ Cardinality(Busy) >= 1
  <2>1. t \in Busy /\ Busy \in SUBSET Threads
    BY DEF Busy
  <2> QED
    BY <2>1, OneMoves
<1>2. Cardinality(Readers) \in Nat
  BY Constants, FS_Subset, FS_CardinalityType DEF Readers
<1> QED
  BY <1>1, <1>2, Constants DEF TypeInv, SharedOK, FreeFds

LEMMA NothingOpened ==
  ASSUME TypeInv, FormedInv, [Next]_vars, listings >= MaxFds - 1, NEW u \in Threads,
         pc[u] \in {"open", "opendir"}, pc'[u] # pc[u]
  PROVE  pc'[u] = "call" /\ response'[u].code = OK /\ response'[u].data = <<>>
<1>1. response[u].code = OK /\ FreeFds = 0
  BY NothingFree DEF FormedInv, FormedThread, Reading, Listing
<1>2. \A r, of : Body(r, of, <<>>).code = r.code /\ Body(r, of, <<>>).data = <<>>
  BY DEF Body
<1>3. ~(Change \/ UNCHANGED calls)
  BY DEF Change, calls
<1>4. PICK t \in Threads : ThreadNext(t)
  BY <1>3, CallsStay DEF Next
<1>5. t = u
  BY <1>4, OthersStay DEF TypeInv
<1>6. OpenFile(u) \/ OpenDir(u)
  BY <1>4, <1>5
  DEF ThreadNext, CallStep, Env, About, Urlmap, Error404, StaticFile, Exist, At, IsDirectory,
      ReadBlock, ReadDir, StatEntry, EndDir, Respond, Write
<1>7. Return(u, Body(response[u], "file", <<>>)) \/ Return(u, Body(response[u], "listing", <<>>))
  BY <1>1, <1>6 DEF OpenFile, OpenDir, OpensDir
<1> QED
  BY <1>1, <1>2, <1>7 DEF Return, TypeInv, Shape

(* For any number of descriptors: once there have been listings for all    *)
(* but one, no file or directory is opened again, and static_file answers  *)
(* 200 with nothing.                                                       *)
THEOREM DrainedCorrect == Spec => Drained
<1>1. TypeInv /\ FormedInv /\ [Next]_vars =>
        [listings >= MaxFds - 1 =>
           \A t \in Threads : pc[t] \in {"open", "opendir"} /\ pc'[t] # pc[t] =>
             /\ pc'[t] = "call"
             /\ response'[t].code = OK /\ response'[t].data = <<>>]_vars
  BY NothingOpened
<1> QED
  BY <1>1, Typed, FormedCorrect, PTL DEF Spec, Drained

-----------------------------------------------------------------------------
(* Why a page that says "not found" would be true.                         *)
Cause(t) ==
  \/ asks[t].refused
  \/ \E n \in seen[t] : n.kind = "none" \/ (n.kind = "directory" /\ ~allow_explore_)

(* A static_file below the ones that have still to return has had its say. *)
Passed(t) == \E i \in 1 .. Len(app) : i > level[t] /\ app[i] = "static_file"

(* Once a static_file has let a request without an answer pass, there is a *)
(* cause; what makes a page of it comes later.                             *)
HonestThread(t) ==
  /\ pc[t] = "call" /\ Passed(t) /\ response[t].code \in {0, Not_Found} => Cause(t)
  /\ pc[t] = "write" /\ response[t].of = "not_found"
       /\ (\E i \in 1 .. Len(app) : app[i] = "static_file") => Cause(t)

HonestInv == \A t \in Threads : HonestThread(t)

(* A cause stays one while the call lasts.                                 *)
LEMMA CauseStays ==
  ASSUME NEW t \in Threads, Cause(t), asks'[t] = asks[t], seen[t] \subseteq seen'[t],
         allow_explore_' = allow_explore_
  PROVE  Cause(t)'
  BY DEF Cause

LEMMA ThreadKeepsHonest ==
  ASSUME TypeInv, FormedInv, HonestInv, NEW t \in Threads, CallStep(t)
  PROVE  HonestThread(t)'
<1>1. /\ app' = app /\ allow_explore_' = allow_explore_ /\ node' = node
      /\ Len(app) \in Nat /\ level[t] \in 0 .. Len(app)
      /\ node \in Nodes /\ (pc[t] # "idle" => node \in seen[t])
      /\ HonestThread(t) /\ FormedThread(t) /\ Shape
  BY OthersStay, Constants
  DEF TypeInv, SharedOK, ThreadOK, HonestInv, FormedInv, ThreadNext
<1> USE DEF Shape, history, Goto, Return
<1>2. CASE Write(t)
  BY <1>1, <1>2 DEF Write, HonestThread
(* A middleware that is not static_file.                                   *)
<1>4. CASE About(t) \/ Urlmap(t) \/ Error404(t)
  <2>1. /\ pc[t] = "call" /\ pc'[t] = "call" /\ level'[t] = level[t] - 1 /\ level[t] > 0
        /\ app[level[t]] # "static_file"
    BY <1>1, <1>4 DEF About, Urlmap, Error404, At
  <2>2. Passed(t)' => Passed(t)
    BY <1>1, <2>1 DEF Passed
  <2>3. response'[t].code \in {0, Not_Found} => response[t].code \in {0, Not_Found}
    <3>1. AboutPage(response[t]).code \notin {0, Not_Found}
      BY DEF AboutPage, OK, Not_Found
    <3>2. \/ response'[t] \in {AboutPage(response[t]), response[t]}
          \/ response[t].code = 0
      BY <1>1, <1>4 DEF About, Urlmap, Error404
    <3> QED
      BY <3>1, <3>2
  <2>4. asks'[t] = asks[t] /\ seen'[t] = seen[t]
    BY <1>4 DEF About, Urlmap, Error404
  <2> QED
    BY <1>1, <2>1, <2>2, <2>3, <2>4, CauseStays DEF HonestThread
<1>5. CASE StaticFile(t)
  BY <1>1, <1>5 DEF StaticFile, HonestThread
<1>6. CASE Exist(t)
  <2>1. asks'[t] = asks[t] /\ seen'[t] = seen[t]
    BY <1>6 DEF Exist
  <2>2. CASE Exists(t)
    BY <1>1, <1>6, <2>2 DEF Exist, HonestThread
  <2>3. CASE ~Exists(t)
    <3>1. Cause(t) /\ pc'[t] = "call"
      BY <1>1, <1>6, <2>3 DEF Exist, Exists, Cause
    <3> QED
      BY <1>1, <2>1, <3>1, CauseStays DEF HonestThread
  <2> QED
    BY <2>2, <2>3
<1>7. CASE IsDirectory(t)
  <2>1. asks'[t] = asks[t] /\ seen'[t] = seen[t]
    BY <1>7 DEF IsDirectory
  <2>2. CASE node.kind = "directory" /\ ~allow_explore_
    <3>1. Cause(t) /\ pc'[t] = "call"
      BY <1>1, <1>7, <2>2 DEF IsDirectory, Cause
    <3> QED
      BY <1>1, <2>1, <3>1, CauseStays DEF HonestThread
  <2>3. CASE ~(node.kind = "directory" /\ ~allow_explore_)
    <3>1. pc'[t] \in {"open", "opendir"}
      BY <1>1, <1>7, <2>3 DEF IsDirectory
    <3> QED
      BY <3>1 DEF HonestThread
  <2> QED
    BY <2>2, <2>3
(* What static_file finds goes out with OK.                                *)
<1>8. CASE \/ OpenFile(t) \/ ReadBlock(t) \/ OpenDir(t) \/ EndDir(t)
  <2>1. response[t].code = OK
    BY <1>1, <1>8 DEF OpenFile, ReadBlock, OpenDir, EndDir, FormedThread, Reading, Listing
  <2>2. response'[t].code = OK /\ pc'[t] # "write"
    BY <1>1, <1>8, <2>1 DEF OpenFile, ReadBlock, OpenDir, EndDir, Body
  <2> QED
    BY <2>2 DEF HonestThread, OK, Not_Found
<1>9. CASE ReadDir(t) \/ StatEntry(t)
  <2>1. pc'[t] \in {"readdir", "stat"}
    BY <1>1, <1>9 DEF ReadDir, StatEntry
  <2> QED
    BY <2>1 DEF HonestThread
<1>10. CASE Respond(t)
  <2> DEFINE HasFile == \E i \in 1 .. Len(app) : app[i] = "static_file"
  <2>1. pc[t] = "call" /\ pc'[t] = "write" /\ asks'[t] = asks[t] /\ seen'[t] = seen[t]
    BY <1>1, <1>10 DEF Respond
  <2>2. HasFile => Passed(t) /\ app # <<>>
    BY <1>1, <1>10 DEF Respond, Passed
  <2>3. response'[t].of = "not_found" /\ HasFile => response[t].code \in {0, Not_Found}
    <3>1. Internal404(response[t]) => app = <<>> \/ response[t].code = 0
      BY DEF Internal404
    <3>2. ~Internal404(response[t]) => response'[t] = response[t]
      BY <1>1, <1>10 DEF Respond
    <3>3. response[t].of = "not_found" => response[t].code = Not_Found
      BY <1>1, <2>1 DEF FormedThread, Formed, Reading, Listing
    <3> QED
      BY <2>2, <3>1, <3>2, <3>3
  <2>4. response'[t].of = "not_found" /\ HasFile => Cause(t)
    BY <1>1, <2>1, <2>2, <2>3 DEF HonestThread
  <2> QED
    BY <1>1, <2>1, <2>4, CauseStays DEF HonestThread
<1> QED
  BY <1>2, <1>4, <1>5, <1>6, <1>7, <1>8, <1>9, <1>10 DEF CallStep

LEMMA StepKeepsHonest == TypeInv /\ FormedInv /\ HonestInv /\ [Next]_vars => HonestInv'
<1> SUFFICES ASSUME TypeInv, FormedInv, HonestInv, [Next]_vars, NEW t \in Threads
             PROVE  HonestThread(t)'
  BY DEF HonestInv
<1>1. CASE UNCHANGED calls
  BY <1>1 DEF calls, history, HonestInv, HonestThread, Passed, Cause
<1>2. CASE Change
  <2>1. UNCHANGED <<app, allow_explore_, pc, asks, level, response>>
    BY <1>2 DEF Change
  <2>2. pc[t] # "idle" => seen[t] \subseteq seen'[t]
    BY <1>2 DEF Change
  <2> QED
    BY <2>1, <2>2, CauseStays DEF HonestInv, HonestThread, Passed
<1>3. ASSUME NEW u \in Threads, ThreadNext(u) PROVE HonestThread(t)'
  <2>1. CASE u # t
    BY <1>3, <2>1, OthersStay DEF TypeInv, HonestInv, HonestThread, Passed, Cause
  <2>2. CASE u = t /\ Env(t)
    <3>1. pc'[t] = "call" /\ level'[t] = Len(app) /\ app' = app /\ Len(app) \in Nat
      BY <2>2, Constants DEF Env, Goto, TypeInv, Shape, SharedOK
    <3> QED
      BY <3>1 DEF HonestThread, Passed
  <2>3. CASE u = t /\ CallStep(t)
    BY <2>3, ThreadKeepsHonest
  <2> QED
    BY <1>3, <2>1, <2>2, <2>3 DEF ThreadNext
<1> QED
  BY <1>1, <1>2, <1>3, CallsStay DEF Next

LEMMA HonestCorrect == Spec => []HonestInv
<1>1. Init => HonestInv
  BY DEF Init, HonestInv, HonestThread
<1> QED
  BY <1>1, StepKeepsHonest, Typed, FormedCorrect, PTL DEF Spec

(* With a static_file anywhere in the chain, however many middlewares are  *)
(* above and below it, "not found" is only said of what was not there, or  *)
(* of what is never served.                                                *)
THEOREM NotFoundTrueCorrect == Spec => []NotFoundTrue
<1>1. HonestInv => NotFoundTrue
  BY DEF HonestInv, HonestThread, NotFoundTrue, Sent, Cause
<1> QED
  BY <1>1, HonestCorrect, PTL

-----------------------------------------------------------------------------
(***************************************************************************)
(* Proofs about what static_file sends: every byte of a file was there at  *)
(* its place, and a listing names what the directory had, however often    *)
(* and at whatever moment the path is overwritten or replaced.             *)
(***************************************************************************)

(* Every byte of b is one that a member of S has at its place.             *)
Witnessed(S, b) ==
  \A i \in 1 .. Len(b) : \E n \in S : i \in 1 .. Len(n.content) /\ n.content[i] = b[i]

(* What FileTrue says of a response.                                       *)
FileOK(S, d, r) ==
  /\ Witnessed(S, r.data)
  /\ \A n \in S : S = {n} /\ n.readable /\ ~d => r.data = n.content

(* While the file is read, its content is one the path has named.          *)
FileRead(S, b, h) ==
  /\ b \in Seq(Bytes) /\ h.content \in Seq(Bytes)
  /\ \E n \in S : n.content = h.content
  /\ Witnessed(S, b)

(* The next block of c when b has been read.                               *)
Upto(b, c) == IF Len(b) + Block < Len(c) THEN Len(b) + Block ELSE Len(c)
NextOf(b, c) == SubSeq(c, Len(b) + 1, Upto(b, c))
Last(b, c) == Len(NextOf(b, c)) < Block

(* The next block of c goes where it belongs; a short one is the last.     *)
LEMMA NextBlock ==
  ASSUME NEW c \in Seq(Bytes), NEW b \in Seq(Bytes), NEW all, all = Gathered(b, NextOf(b, c))
  PROVE  /\ all \in Seq(Bytes)
         /\ \A i \in 1 .. Len(all) :
              \/ i \in 1 .. Len(b) /\ all[i] = b[i]
              \/ i \in 1 .. Len(c) /\ all[i] = c[i]
         /\ Last(b, c) => Len(all) >= Len(c)
<1> DEFINE upto == Upto(b, c)
           block == NextOf(b, c)
<1>0. /\ upto = IF Len(b) + Block < Len(c) THEN Len(b) + Block ELSE Len(c)
      /\ block = SubSeq(c, Len(b) + 1, upto) /\ all = b \o block
      /\ Last(b, c) <=> Len(block) < Block
  BY DEF Upto, NextOf, Last, Gathered
<1> HIDE DEF upto, block
<1>1. /\ Len(b) \in Nat /\ Len(c) \in Nat /\ Block \in Nat \ {0} /\ upto <= Len(c)
      /\ \A i \in 1 .. Len(c) : c[i] \in Bytes
      /\ upto \in Nat
  BY <1>0, MiddlewareAssumption, LenProperties, ElementOfSeq DEF MiddlewareAssumption
<1>2. \A i \in Len(b) + 1 .. upto : c[i] \in Bytes
  BY <1>1
<1>3. /\ block \in Seq(Bytes)
      /\ Len(block) = IF Len(b) + 1 <= upto THEN upto - Len(b) ELSE 0
      /\ \A i \in 1 .. upto - Len(b) : block[i] = c[Len(b) + i]
  <2>1. Len(b) + 1 \in Int /\ upto \in Int
    BY <1>1
  <2>2. /\ block \in Seq(Bytes)
        /\ Len(block) = IF Len(b) + 1 <= upto THEN upto - (Len(b) + 1) + 1 ELSE 0
        /\ \A i \in 1 .. upto - (Len(b) + 1) + 1 : block[i] = c[Len(b) + 1 + i - 1]
    BY <1>0, <1>2, <2>1, SubSeqProperties
  <2>3. upto - (Len(b) + 1) + 1 = upto - Len(b)
    BY <1>1
  <2>4. \A i \in Int : Len(b) + 1 + i - 1 = Len(b) + i
    BY <1>1
  <2>5. \A i \in 1 .. upto - Len(b) : block[i] = c[Len(b) + i]
    BY <2>2, <2>3, <2>4
  <2> QED
    BY <2>2, <2>3, <2>5
<1>4. /\ b \o block \in Seq(Bytes) /\ Len(b \o block) = Len(b) + Len(block)
      /\ \A i \in 1 .. Len(b) + Len(block) :
           (b \o block)[i] = IF i <= Len(b) THEN b[i] ELSE block[i - Len(b)]
  <2>1. block \in Seq(Bytes)
    BY <1>3
  <2> QED
    BY <2>1, ConcatProperties
<1>5. ASSUME NEW i \in 1 .. Len(b \o block)
      PROVE  \/ i \in 1 .. Len(b) /\ (b \o block)[i] = b[i]
             \/ i \in 1 .. Len(c) /\ (b \o block)[i] = c[i]
  <2>1. CASE i <= Len(b)
    BY <1>1, <1>3, <1>4, <2>1
  <2>2. CASE i > Len(b)
    <3>1. /\ Len(block) = upto - Len(b)
          /\ i - Len(b) \in 1 .. upto - Len(b) /\ i \in 1 .. Len(c)
      BY <1>1, <1>3, <1>4, <2>2
    <3>2. (b \o block)[i] = block[i - Len(b)]
      BY <1>1, <1>4, <2>2
    <3>3. block[i - Len(b)] = c[Len(b) + (i - Len(b))]
      BY <1>3, <3>1
    <3>4. Len(b) + (i - Len(b)) = i
      BY <1>1
    <3> QED
      BY <3>1, <3>2, <3>3, <3>4
  <2> QED
    BY <1>1, <1>4, <2>1, <2>2
<1>6. Len(block) < Block => Len(b \o block) >= Len(c)
  BY <1>0, <1>1, <1>3, <1>4
<1> QED
  BY <1>0, <1>4, <1>5, <1>6

(* A witnessed sequence that is as long as the only content is that.       *)
LEMMA WholeFile ==
  ASSUME NEW n \in Nodes, NEW b \in Seq(Bytes), Witnessed({n}, b), Len(b) >= Len(n.content)
  PROVE  b = n.content
<1>1. n.content \in Seq(Bytes)
  BY MiddlewareAssumption DEF MiddlewareAssumption
<1>2. Len(b) \in Nat /\ Len(n.content) \in Nat
  BY <1>1, LenProperties
<1>3. \A i \in 1 .. Len(b) : i \in 1 .. Len(n.content) /\ n.content[i] = b[i]
  BY DEF Witnessed
<1>4. Len(b) = Len(n.content)
  BY <1>2, <1>3
<1> QED
  BY <1>1, <1>3, <1>4, SeqEqual

(* A look at the file system loses nothing.                                *)
LEMMA FileSeenGrows ==
  ASSUME NEW S, NEW T, S \subseteq T, NEW x \in S
  PROVE  /\ \A b : Witnessed(S, b) => Witnessed(T, b)
         /\ \A d, r : FileOK(S, d, r) => FileOK(T, d, r)
         /\ \A b, h : FileRead(S, b, h) => FileRead(T, b, h)
<1>1. ASSUME NEW b, Witnessed(S, b) PROVE Witnessed(T, b)
  BY <1>1 DEF Witnessed
<1>2. ASSUME NEW d, NEW r, FileOK(S, d, r) PROVE FileOK(T, d, r)
  BY <1>1, <1>2 DEF FileOK
<1>3. ASSUME NEW b, NEW h, FileRead(S, b, h) PROVE FileRead(T, b, h)
  BY <1>1, <1>3 DEF FileRead
<1> QED
  BY <1>1, <1>2, <1>3

(* A round of the loop leaves bytes the file had, and all of them if it is *)
(* the last round and the file was left alone.                             *)
LEMMA Round ==
  ASSUME NEW S \in SUBSET Nodes, NEW b, NEW h, FileRead(S, b, h)
  PROVE  /\ FileRead(S, Gathered(b, NextOf(b, h.content)), h)
         /\ Last(b, h.content) =>
              \A n \in S : S = {n} => Gathered(b, NextOf(b, h.content)) = n.content
<1> DEFINE all == Gathered(b, NextOf(b, h.content))
<1>1. /\ b \in Seq(Bytes) /\ h.content \in Seq(Bytes) /\ Witnessed(S, b)
  BY DEF FileRead
<1>2. PICK m \in S : m.content = h.content
  BY DEF FileRead
<1>3. /\ all \in Seq(Bytes)
      /\ \A i \in 1 .. Len(all) :
           \/ i \in 1 .. Len(b) /\ all[i] = b[i]
           \/ i \in 1 .. Len(h.content) /\ all[i] = h.content[i]
      /\ Last(b, h.content) => Len(all) >= Len(h.content)
  <2>1. \A c \in Seq(Bytes) : c = h.content =>
          /\ Gathered(b, NextOf(b, c)) \in Seq(Bytes)
          /\ \A i \in 1 .. Len(Gathered(b, NextOf(b, c))) :
               \/ i \in 1 .. Len(b) /\ Gathered(b, NextOf(b, c))[i] = b[i]
               \/ i \in 1 .. Len(c) /\ Gathered(b, NextOf(b, c))[i] = c[i]
          /\ Last(b, c) => Len(Gathered(b, NextOf(b, c))) >= Len(c)
    BY <1>1, NextBlock
  <2> QED
    BY <1>1, <2>1
<1> HIDE DEF all
<1>4. Witnessed(S, all)
  <2> SUFFICES ASSUME NEW i \in 1 .. Len(all)
               PROVE  \E n \in S : i \in 1 .. Len(n.content) /\ n.content[i] = all[i]
    BY DEF Witnessed
  <2>1. CASE i \in 1 .. Len(b) /\ all[i] = b[i]
    BY <1>1, <2>1 DEF Witnessed
  <2>2. CASE i \in 1 .. Len(h.content) /\ all[i] = h.content[i]
    BY <1>2, <2>2
  <2> QED
    BY <1>3, <2>1, <2>2
<1>5. ASSUME Last(b, h.content), NEW n \in S, S = {n} PROVE all = n.content
  <2>1. n \in Nodes /\ m = n
    BY <1>2, <1>5
  <2> QED
    BY <1>2, <1>3, <1>4, <1>5, <2>1, WholeFile
<1>6. FileRead(S, all, h)
  BY <1>1, <1>2, <1>3, <1>4 DEF FileRead
<1> QED
  BY <1>5, <1>6 DEF all

-----------------------------------------------------------------------------
Entries == UNION {n.entries : n \in Nodes}
Had(S) == UNION {n.entries : n \in S}
Elements(b) == {b[i] : i \in 1 .. Len(b)}

(* What ListingTrue says of a response.                                    *)
ListOK(S, d, r) ==
  /\ Cardinality(Elements(r.data)) = Len(r.data)
  /\ \A i, j \in 1 .. Len(r.data) : r.data[i] = r.data[j] => i = j
  /\ Elements(r.data) \subseteq Had(S)
  /\ (\A n \in S : n.kind = "directory" /\ n.readable) /\ ~d =>
       \A e : (\A n \in S : e \in n.entries) => e \in Elements(r.data)

(* While the directory is read, what is listed and what may come has been  *)
(* there, and what has been there throughout must come.                    *)
ListRead(S, b, h) ==
  /\ b \in Seq(Entries)
  /\ \A i, j \in 1 .. Len(b) : b[i] = b[j] => i = j
  /\ Elements(b) \subseteq Had(S) /\ h.may \subseteq Had(S)
  /\ \A e : (\A n \in S : e \in n.entries) => e \in h.must

LEMMA ListSeenGrows ==
  ASSUME NEW S, NEW T, S \subseteq T, NEW x \in S
  PROVE  /\ \A d, r : ListOK(S, d, r) => ListOK(T, d, r)
         /\ \A b, h : ListRead(S, b, h) => ListRead(T, b, h)
<1>1. Had(S) \subseteq Had(T)
  BY DEF Had
<1>2. ASSUME NEW d, NEW r, ListOK(S, d, r) PROVE ListOK(T, d, r)
  BY <1>1, <1>2 DEF ListOK
<1>3. ASSUME NEW b, NEW h, ListRead(S, b, h) PROVE ListRead(T, b, h)
  BY <1>1, <1>3 DEF ListRead
<1> QED
  BY <1>2, <1>3

(* One entry more, which is not there yet.                                 *)
LEMMA OneMore ==
  ASSUME NEW S \in SUBSET Nodes, NEW b, NEW h, ListRead(S, b, h),
         NEW e \in h.may \ Elements(b)
  PROVE  ListRead(S, Append(b, e), h)
<1>1. b \in Seq(Entries) /\ e \in Had(S) /\ e \in Entries /\ Elements(b) \subseteq Had(S)
  BY DEF ListRead, Had, Entries
<1>2. /\ Append(b, e) \in Seq(Entries) /\ Len(Append(b, e)) = Len(b) + 1
      /\ \A i \in 1 .. Len(b) : Append(b, e)[i] = b[i]
      /\ Append(b, e)[Len(b) + 1] = e
      /\ Len(b) \in Nat
  BY <1>1, AppendProperties, LenProperties
<1>3. \A i \in 1 .. Len(b) : b[i] # e
  BY DEF Elements
<1>4. ASSUME NEW i \in 1 .. Len(b) + 1, NEW j \in 1 .. Len(b) + 1,
             Append(b, e)[i] = Append(b, e)[j]
      PROVE  i = j
  <2>1. (i \in 1 .. Len(b) \/ i = Len(b) + 1) /\ (j \in 1 .. Len(b) \/ j = Len(b) + 1)
    BY <1>2
  <2> QED
    BY <1>2, <1>3, <1>4, <2>1 DEF ListRead
<1>5. Elements(Append(b, e)) \subseteq Elements(b) \cup {e}
  <2> SUFFICES ASSUME NEW i \in 1 .. Len(b) + 1
               PROVE  Append(b, e)[i] \in Elements(b) \cup {e}
    BY <1>2 DEF Elements
  <2>1. i \in 1 .. Len(b) \/ i = Len(b) + 1
    BY <1>2
  <2> QED
    BY <1>2, <2>1 DEF Elements
<1> QED
  BY <1>1, <1>2, <1>4, <1>5 DEF ListRead

(* When all that must come has come, the listing is what it should be.     *)
LEMMA Complete ==
  ASSUME NEW S \in SUBSET Nodes, NEW b, NEW h, ListRead(S, b, h), h.must \subseteq Elements(b),
         NEW d, NEW r, r.data = b
  PROVE  ListOK(S, d, r)
<1>1. b \in [1 .. Len(b) -> Entries] /\ Len(b) \in Nat
  BY LenProperties DEF ListRead
<1>2. b \in Surjection(1 .. Len(b), Elements(b)) /\ b \in Injection(1 .. Len(b), Elements(b))
  <2>1. \A i \in 1 .. Len(b) : b[i] \in Elements(b)
    BY DEF Elements
  <2>2. b \in [1 .. Len(b) -> Elements(b)]
    BY <1>1, <2>1
  <2>3. \A e \in Elements(b) : \E i \in 1 .. Len(b) : b[i] = e
    BY DEF Elements
  <2>4. \A i, j \in 1 .. Len(b) : b[i] = b[j] => i = j
    BY DEF ListRead
  <2> QED
    BY <2>2, <2>3, <2>4 DEF Surjection, Injection, IsInjective
<1>3. IsFiniteSet(1 .. Len(b)) /\ Cardinality(1 .. Len(b)) = Len(b)
  <2>1. /\ IsFiniteSet(1 .. Len(b))
        /\ Cardinality(1 .. Len(b)) = IF 1 > Len(b) THEN 0 ELSE Len(b) - 1 + 1
    BY <1>1, FS_Interval
  <2> QED
    BY <1>1, <2>1
<1>4. Cardinality(Elements(b)) = Len(b)
  BY <1>2, <1>3, FS_Surjection
<1> QED
  BY <1>4 DEF ListRead, ListOK

(* No directory is opened: nothing is listed.                              *)
LEMMA NothingListed ==
  ASSUME NEW S, NEW d, NEW r, r.data = <<>>,
         d \/ \E n \in S : ~(n.kind = "directory" /\ n.readable)
  PROVE  ListOK(S, d, r)
<1>1. Len(r.data) = 0 /\ Elements(r.data) = {}
  BY EmptySeq DEF Elements
<1> QED
  BY <1>1, FS_EmptySet DEF ListOK

-----------------------------------------------------------------------------
Carrying == {"call", "exist", "is_directory", "write"}

SoundResponse(t) ==
  /\ response[t].of = "file"    => FileOK(seen[t], denied[t], response[t])
  /\ response[t].of = "listing" => ListOK(seen[t], denied[t], response[t])

(* A body on its way up is sound, and so is what has been read of the next *)
(* one; readdir() has given an entry that is not listed yet.               *)
SoundThread(t) ==
  /\ pc[t] \in Carrying => SoundResponse(t)
  /\ pc[t] = "read" => FileRead(seen[t], buffer[t], held[t])
  /\ pc[t] \in {"readdir", "stat"} => ListRead(seen[t], buffer[t], held[t])
  /\ pc[t] = "stat" => \A e \in entry[t] : e \in held[t].may \ Listed(t)

FileShape ==
  /\ buffer = [t \in Threads |-> buffer[t]]
  /\ held = [t \in Threads |-> held[t]]
  /\ denied = [t \in Threads |-> denied[t]]

SoundInv == FileShape /\ \A t \in Threads : SoundThread(t)

(* What a step of thread t leaves alone.                                   *)
LEMMA FilesOfOthersStay ==
  ASSUME Shape, FileShape, NEW t \in Threads, ThreadNext(t)
  PROVE  /\ FileShape'
         /\ \A u \in Threads \ {t} : UNCHANGED <<buffer[u], held[u], denied[u]>>
<1> USE DEF FileShape
<1>1. CASE Env(t) \/ Write(t)
  BY <1>1 DEF Env, Write
<1>2. CASE About(t) \/ Urlmap(t) \/ Error404(t)
  BY <1>2 DEF About, Urlmap, Error404
<1>3. CASE StaticFile(t) \/ Exist(t) \/ IsDirectory(t)
  BY <1>3 DEF StaticFile, Exist, IsDirectory
<1>4. CASE OpenFile(t)
  BY <1>4 DEF OpenFile
<1>5. CASE ReadBlock(t)
  BY <1>5 DEF ReadBlock
<1>6. CASE OpenDir(t)
  BY <1>6 DEF OpenDir
<1>7. CASE ReadDir(t) \/ StatEntry(t) \/ EndDir(t)
  BY <1>7 DEF ReadDir, StatEntry, EndDir
<1>8. CASE Respond(t)
  BY <1>8 DEF Respond
<1> QED
  BY <1>1, <1>2, <1>3, <1>4, <1>5, <1>6, <1>7, <1>8 DEF ThreadNext, CallStep

(* A thread that keeps its response, or makes a page, keeps it sound.      *)
LEMMA CarriedOn ==
  ASSUME NEW t \in Threads, SoundResponse(t), UNCHANGED <<seen[t], denied[t]>>,
         response'[t] = response[t] \/ response'[t].of \notin {"file", "listing"},
         pc'[t] \in Carrying
  PROVE  SoundThread(t)'
<1>1. SoundResponse(t)'
  BY DEF SoundResponse
<1> QED
  BY <1>1 DEF SoundThread, Carrying

(* What Body leaves.                                                       *)
LEMMA BodyFields ==
  ASSUME NEW r, NEW of, NEW d
  PROVE  Body(r, of, d).of = of /\ Body(r, of, d).data = d
  BY DEF Body

(* What open() and opendir() hold.                                         *)
LEMMA HandleFields ==
  ASSUME NEW c, NEW s
  PROVE  /\ [NoHandle EXCEPT !.linked = TRUE, !.content = c].content = c
         /\ [NoHandle EXCEPT !.linked = TRUE, !.may = s, !.must = s].may = s
         /\ [NoHandle EXCEPT !.linked = TRUE, !.may = s, !.must = s].must = s
  BY DEF NoHandle

(* One step per action of a thread.                                        *)
LEMMA ThreadKeepsSound ==
  ASSUME TypeInv, FormedInv, SoundInv, NEW t \in Threads, ThreadNext(t)
  PROVE  SoundThread(t)'
<1> DEFINE S == seen[t]
           r == response[t]
<1>1. /\ Shape /\ FileShape /\ SoundThread(t) /\ S \in SUBSET Nodes
      /\ node \in Nodes /\ (pc[t] # "idle" => node \in S)
  BY DEF TypeInv, SharedOK, ThreadOK, SoundInv
<1> USE DEF Shape, FileShape, history, Goto, Return
<1>2. CASE Env(t)
  <2>1. /\ pc'[t] = "call"
        /\ \E code \in Garbage : response'[t] = Constructed(code)
    BY <1>1, <1>2 DEF Env
  <2>2. \A code \in Garbage : Constructed(code).of = "nobody"
    BY DEF Constructed
  <2> QED
    BY <2>1, <2>2 DEF SoundThread, SoundResponse
<1>3. CASE About(t) \/ Urlmap(t) \/ Error404(t)
  <2>1. /\ pc[t] = "call" /\ pc'[t] = "call" /\ UNCHANGED <<seen[t], denied[t]>>
        /\ response'[t] \in {AboutPage(r), NotFoundPage, r}
    BY <1>1, <1>3 DEF About, Urlmap, Error404, At
  <2>2. AboutPage(r).of = "about" /\ NotFoundPage.of = "not_found"
    BY DEF AboutPage, NotFoundPage
  <2> QED
    BY <1>1, <2>1, <2>2, CarriedOn DEF SoundThread, Carrying
<1>4. CASE StaticFile(t) \/ Exist(t)
  <2>1. /\ pc[t] \in Carrying /\ pc'[t] \in Carrying /\ UNCHANGED <<seen[t], denied[t]>>
        /\ response'[t] = r
    BY <1>1, <1>4 DEF StaticFile, Exist, At, Carrying
  <2> QED
    BY <1>1, <2>1, CarriedOn DEF SoundThread
<1>5. CASE IsDirectory(t)
  <2>1. /\ pc[t] = "is_directory" /\ UNCHANGED <<seen[t], denied[t]>>
        /\ \/ pc'[t] \in {"open", "opendir"}
           \/ pc'[t] = "call" /\ response'[t] = r
    BY <1>1, <1>5 DEF IsDirectory
  <2> QED
    BY <1>1, <2>1, CarriedOn DEF SoundThread, Carrying
<1>6. CASE OpenFile(t)
  <2>1. /\ pc[t] = "open" /\ UNCHANGED seen[t] /\ node \in S
        /\ denied'[t] = (FreeFds = 0)
    BY <1>1, <1>6 DEF OpenFile
  <2>2. CASE node.kind = "none" \/ ~node.readable \/ FreeFds = 0
    <3>1. pc'[t] = "call" /\ response'[t] = Body(r, "file", <<>>)
      BY <1>1, <1>6, <2>2 DEF OpenFile
    <3>2. response'[t].of = "file" /\ response'[t].data = <<>>
      BY <3>1, BodyFields
    <3>3. ASSUME NEW n \in S, S = {n}, n.readable, FreeFds # 0
          PROVE  n.content = <<>>
      BY <1>1, <2>1, <2>2, <3>3, MiddlewareAssumption DEF MiddlewareAssumption
    <3>4. Witnessed(S, <<>>)
      BY EmptySeq DEF Witnessed
    <3>5. FileOK(S, denied'[t], response'[t])
      BY <2>1, <3>2, <3>3, <3>4 DEF FileOK
    <3> QED
      BY <2>1, <3>1, <3>2, <3>5 DEF SoundThread, SoundResponse
  <2>3. CASE ~(node.kind = "none" \/ ~node.readable \/ FreeFds = 0)
    <3>1. /\ pc'[t] = "read" /\ buffer'[t] = <<>>
          /\ held'[t] = [NoHandle EXCEPT !.linked = TRUE, !.content = node.content]
      BY <1>1, <1>6, <2>3 DEF OpenFile
    <3>2. held'[t].content = node.content
      BY <3>1, HandleFields
    <3>3. node.content \in Seq(Bytes)
      BY <1>1, MiddlewareAssumption DEF MiddlewareAssumption
    <3>4. <<>> \in Seq(Bytes) /\ Witnessed(S, <<>>)
      BY EmptySeq DEF Witnessed
    <3>5. FileRead(S, buffer'[t], held'[t])
      BY <2>1, <3>1, <3>2, <3>3, <3>4 DEF FileRead
    <3> QED
      BY <2>1, <3>1, <3>5 DEF SoundThread, Carrying
  <2> QED
    BY <2>2, <2>3
<1>7. CASE ReadBlock(t)
  <2> DEFINE b == buffer[t]
             bytes == Gathered(b, NextOf(b, held[t].content))
  <2>1. /\ pc[t] = "read" /\ UNCHANGED <<seen[t], denied[t]>> /\ FileRead(S, b, held[t])
    BY <1>1, <1>7 DEF ReadBlock, SoundThread
  <2>2. /\ FileRead(S, bytes, held[t])
        /\ Last(b, held[t].content) => \A n \in S : S = {n} => bytes = n.content
    BY <1>1, <2>1, Round
  <2>3. \/ /\ Last(b, held[t].content)
           /\ pc'[t] = "call" /\ response'[t] = Body(r, "file", bytes)
        \/ pc'[t] = "read" /\ buffer'[t] = bytes /\ held'[t] = held[t]
    BY <1>1, <1>7 DEF ReadBlock, Last, NextOf, Upto
  <2> HIDE DEF bytes
  <2>4. CASE /\ Last(b, held[t].content)
             /\ pc'[t] = "call" /\ response'[t] = Body(r, "file", bytes)
    <3>1. response'[t].of = "file" /\ response'[t].data = bytes
      BY <2>4, BodyFields
    <3>2. FileOK(S, denied'[t], response'[t])
      BY <2>2, <2>4, <3>1 DEF FileOK, FileRead
    <3> QED
      BY <2>1, <2>4, <3>1, <3>2 DEF SoundThread, SoundResponse
  <2>5. CASE pc'[t] = "read" /\ buffer'[t] = bytes /\ held'[t] = held[t]
    BY <2>1, <2>2, <2>5 DEF SoundThread, Carrying
  <2> QED
    BY <2>3, <2>4, <2>5
<1>8. CASE OpenDir(t)
  <2>1. /\ pc[t] = "opendir" /\ UNCHANGED seen[t] /\ node \in S
        /\ denied'[t] = (FreeFds = 0)
    BY <1>1, <1>8 DEF OpenDir
  <2>2. CASE OpensDir
    <3>1. /\ pc'[t] = "readdir" /\ buffer'[t] = <<>>
          /\ held'[t] = [NoHandle EXCEPT !.linked = TRUE, !.may = node.entries,
                                         !.must = node.entries]
      BY <1>1, <1>8, <2>2 DEF OpenDir
    <3>2. held'[t].may = node.entries /\ held'[t].must = node.entries
      BY <3>1, HandleFields
    <3>3. node.entries \subseteq Had(S)
      BY <2>1 DEF Had
    <3>4. <<>> \in Seq(Entries) /\ Len(<<>>) = 0 /\ Elements(<<>>) = {}
      BY EmptySeq DEF Elements
    <3>5. ListRead(S, buffer'[t], held'[t])
      BY <2>1, <3>1, <3>2, <3>3, <3>4 DEF ListRead
    <3> QED
      BY <2>1, <3>1, <3>5 DEF SoundThread, Carrying
  <2>3. CASE ~OpensDir
    <3>1. pc'[t] = "call" /\ response'[t] = Body(r, "listing", <<>>)
      BY <1>1, <1>8, <2>3 DEF OpenDir
    <3>2. response'[t].of = "listing" /\ response'[t].data = <<>>
      BY <3>1, BodyFields
    <3>3. FreeFds > 0 \/ FreeFds = 0
      <4>1. Cardinality(Readers) \in Nat /\ Cardinality(Busy) \in Nat
        BY Constants, FS_Subset, FS_CardinalityType DEF Readers, Busy
      <4> QED
        BY <4>1, Constants DEF TypeInv, SharedOK, FreeFds
    <3>4. denied'[t] \/ \E n \in S : ~(n.kind = "directory" /\ n.readable)
      BY <2>1, <2>3, <3>3 DEF OpensDir
    <3>5. ListOK(S, denied'[t], response'[t])
      BY <3>2, <3>4, NothingListed
    <3> QED
      BY <2>1, <3>1, <3>2, <3>5 DEF SoundThread, SoundResponse
  <2> QED
    BY <2>2, <2>3
<1>9. CASE ReadDir(t)
  <2>1. /\ pc[t] = "readdir" /\ pc'[t] = "stat"
        /\ UNCHANGED <<seen[t], buffer[t], held[t]>>
    BY <1>1, <1>9 DEF ReadDir
  <2>2. PICK e \in held[t].may \ Listed(t) : entry'[t] = {e}
    BY <1>1, <1>9 DEF ReadDir
  <2>3. Listed(t)' = Listed(t)
    BY <2>1 DEF Listed
  <2> QED
    BY <1>1, <2>1, <2>2, <2>3 DEF SoundThread, Carrying
<1>10. CASE StatEntry(t)
  <2>1. pc[t] = "stat" /\ UNCHANGED <<seen[t], held[t]>>
    BY <1>1, <1>10 DEF StatEntry
  <2>2. CASE UNCHANGED <<buffer, pc, entry>>
    BY <1>1, <2>1, <2>2 DEF SoundThread, Carrying, Listed
  <2>3. ASSUME NEW e \in entry[t], buffer' = [buffer EXCEPT ![t] = Append(@, e)],
               pc' = [pc EXCEPT ![t] = "readdir"]
        PROVE  SoundThread(t)'
    <3>1. e \in held[t].may \ Elements(buffer[t]) /\ ListRead(S, buffer[t], held[t])
      BY <1>1, <2>1 DEF SoundThread, Listed, Elements
    <3>2. ListRead(S, Append(buffer[t], e), held[t])
      BY <1>1, <3>1, OneMore
    <3>3. pc'[t] = "readdir" /\ buffer'[t] = Append(buffer[t], e)
      BY <1>1, <2>3
    <3> QED
      BY <2>1, <3>2, <3>3 DEF SoundThread, Carrying
  <2> QED
    BY <1>10, <2>2, <2>3 DEF StatEntry
<1>11. CASE EndDir(t)
  <2>1. /\ pc[t] = "readdir" /\ pc'[t] = "call" /\ UNCHANGED <<seen[t], denied[t]>>
        /\ response'[t] = Body(r, "listing", buffer[t])
        /\ held[t].must \subseteq Elements(buffer[t])
    BY <1>1, <1>11 DEF EndDir, ListedAll, Listed, Elements
  <2>2. response'[t].of = "listing" /\ response'[t].data = buffer[t]
    BY <2>1, BodyFields
  <2>3. ListOK(S, denied'[t], response'[t])
    BY <1>1, <2>1, <2>2, Complete DEF SoundThread
  <2> QED
    BY <2>1, <2>2, <2>3 DEF SoundThread, SoundResponse
<1>12. CASE Respond(t)
  <2>1. /\ pc[t] = "call" /\ pc'[t] = "write" /\ UNCHANGED <<seen[t], denied[t]>>
        /\ response'[t] \in {NotFoundPage, r}
    BY <1>1, <1>12 DEF Respond
  <2>2. NotFoundPage.of = "not_found"
    BY DEF NotFoundPage
  <2> QED
    BY <1>1, <2>1, <2>2, CarriedOn DEF SoundThread, Carrying
<1>13. CASE Write(t)
  BY <1>1, <1>13 DEF Write, SoundThread, Carrying
<1> QED
  BY <1>2, <1>3, <1>4, <1>5, <1>6, <1>7, <1>8, <1>9, <1>10, <1>11, <1>12, <1>13
  DEF ThreadNext, CallStep

(* The path is changed: what it names now joins what the call has seen,    *)
(* and if it was changed in place, what is held open follows.              *)
LEMMA ChangeKeepsSound ==
  ASSUME TypeInv, SoundInv, Change, NEW t \in Threads
  PROVE  SoundThread(t)'
<1> DEFINE S == seen[t]
           h == held[t]
<1>1. /\ UNCHANGED <<pc, response, buffer, entry, denied>>
      /\ pc[t] # "idle" => node \in S
  BY DEF Change, TypeInv, ThreadOK
<1>2. PICK n \in Nodes, inPlace \in BOOLEAN :
        /\ held' = [u \in Threads |->
             IF ~held[u].linked THEN held[u]
             ELSE IF ~inPlace THEN [held[u] EXCEPT !.linked = FALSE]
             ELSE [linked |-> TRUE, content |-> n.content,
                   may |-> held[u].may \cup n.entries,
                   must |-> held[u].must \cap n.entries]]
        /\ seen' = [u \in Threads |-> IF pc[u] = "idle" THEN {} ELSE seen[u] \cup {n}]
  BY DEF Change
<1>3. SoundThread(t)
  BY DEF SoundInv
<1>4. CASE pc[t] = "idle"
  BY <1>1, <1>4 DEF SoundThread, Carrying
<1>5. CASE pc[t] # "idle"
  <2>1. seen'[t] = S \cup {n} /\ node \in S
    BY <1>1, <1>2, <1>5
  <2>2. /\ S \subseteq S \cup {n}
        /\ h.may \subseteq held'[t].may
        /\ \/ held'[t].content = h.content /\ held'[t].must = h.must /\ held'[t].may = h.may
           \/ /\ held'[t].content = n.content /\ held'[t].must = h.must \cap n.entries
              /\ held'[t].may = h.may \cup n.entries
    <3>1. held'[t] = IF ~h.linked THEN h
             ELSE IF ~inPlace THEN [h EXCEPT !.linked = FALSE]
             ELSE [linked |-> TRUE, content |-> n.content,
                   may |-> h.may \cup n.entries, must |-> h.must \cap n.entries]
      BY <1>2
    <3> HIDE DEF h
    <3> QED
      BY <3>1
  <2>3. SoundResponse(t) => SoundResponse(t)'
    BY <1>1, <2>1, <2>2, FileSeenGrows, ListSeenGrows DEF SoundResponse
  <2>4. FileRead(S, buffer[t], h) => FileRead(S \cup {n}, buffer[t], held'[t])
    <3> SUFFICES ASSUME FileRead(S, buffer[t], h)
                 PROVE  FileRead(S \cup {n}, buffer[t], held'[t])
      OBVIOUS
    <3>1. FileRead(S \cup {n}, buffer[t], h)
      BY <2>1, <2>2, FileSeenGrows
    <3>2. n.content \in Seq(Bytes)
      BY MiddlewareAssumption DEF MiddlewareAssumption
    <3> QED
      BY <2>2, <3>1, <3>2 DEF FileRead
  <2>5. ListRead(S, buffer[t], h) => ListRead(S \cup {n}, buffer[t], held'[t])
    <3> SUFFICES ASSUME ListRead(S, buffer[t], h)
                 PROVE  ListRead(S \cup {n}, buffer[t], held'[t])
      OBVIOUS
    <3>1. ListRead(S \cup {n}, buffer[t], h)
      BY <2>1, <2>2, ListSeenGrows
    <3>2. n.entries \subseteq Had(S \cup {n})
      BY DEF Had
    <3> QED
      BY <2>2, <3>1, <3>2 DEF ListRead
  <2>6. Listed(t)' = Listed(t)
    BY <1>1 DEF Listed
  <2> QED
    BY <1>1, <1>3, <2>1, <2>2, <2>3, <2>4, <2>5, <2>6 DEF SoundThread
<1> QED
  BY <1>4, <1>5

LEMMA StepKeepsSound == TypeInv /\ FormedInv /\ SoundInv /\ [Next]_vars => SoundInv'
<1> SUFFICES ASSUME TypeInv, FormedInv, SoundInv, [Next]_vars PROVE SoundInv'
  OBVIOUS
<1>1. CASE UNCHANGED calls
  BY <1>1 DEF calls, history, SoundInv, FileShape, SoundThread, SoundResponse, Listed
<1>2. CASE Change
  <2>1. FileShape'
    BY <1>2 DEF Change, SoundInv, FileShape
  <2> QED
    BY <1>2, <2>1, ChangeKeepsSound DEF SoundInv
<1>3. ASSUME NEW t \in Threads, ThreadNext(t) PROVE SoundInv'
  <2>1. FileShape' /\ SoundThread(t)'
    BY <1>3, FilesOfOthersStay, ThreadKeepsSound DEF SoundInv, TypeInv
  <2>2. ASSUME NEW u \in Threads \ {t} PROVE SoundThread(u)'
    <3>1. UNCHANGED <<pc[u], response[u], entry[u], seen[u], buffer[u], held[u], denied[u]>>
      BY <1>3, OthersStay, FilesOfOthersStay DEF SoundInv, TypeInv
    <3>2. Listed(u)' = Listed(u)
      BY <3>1 DEF Listed
    <3> QED
      BY <3>1, <3>2 DEF SoundInv, SoundThread, SoundResponse
  <2> QED
    BY <2>1, <2>2 DEF SoundInv
<1> QED
  BY <1>1, <1>2, <1>3, CallsStay DEF Next

LEMMA SoundCorrect == Spec => []SoundInv
<1>1. Init => SoundInv
  BY DEF Init, SoundInv, FileShape, SoundThread, Carrying
<1> QED
  BY <1>1, StepKeepsSound, Typed, FormedCorrect, PTL DEF Spec

(* However long the file is, whatever the size of a block and however      *)
(* often the path is changed while it is read, every byte sent was at its  *)
(* place in the file, and a file left alone is sent whole.                 *)
THEOREM FileTrueCorrect == Spec => []FileTrue
<1>1. SoundInv => FileTrue
  BY DEF SoundInv, SoundThread, SoundResponse, Carrying, FileOK, Witnessed, FileTrue, Sent
<1> QED
  BY <1>1, SoundCorrect, PTL

(* However many entries come and go while a directory is listed, the       *)
(* listing names none twice, none that was never there, and all that were  *)
(* there throughout.                                                       *)
THEOREM ListingTrueCorrect == Spec => []ListingTrue
<1>1. SoundInv => ListingTrue
  <2> SUFFICES ASSUME SoundInv, NEW t \in Threads, NEW r \in Sent(t), r.of = "listing"
               PROVE  LET names == {r.data[i] : i \in 1 .. Len(r.data)}
                      IN /\ Cardinality(names) = Len(r.data)
                         /\ \A e \in names : \E n \in seen[t] : e \in n.entries
                         /\ (\A n \in seen[t] : n.kind = "directory" /\ n.readable)
                              /\ ~denied[t] =>
                              \A n \in seen[t] : \A e \in n.entries :
                                (\A o \in seen[t] : e \in o.entries) => e \in names
    BY DEF ListingTrue
  <2>1. pc[t] = "write" /\ r = response[t]
    BY DEF Sent
  <2>2. ListOK(seen[t], denied[t], r)
    BY <2>1 DEF SoundInv, SoundThread, SoundResponse, Carrying
  <2> QED
    BY <2>2 DEF ListOK, Elements, Had
<1> QED
  BY <1>1, SoundCorrect, PTL

-----------------------------------------------------------------------------
(***************************************************************************)
(* Proof that the calls implement Reply: which branch answers depends on   *)
(* the chain, the request, the code and the path alone.                    *)
(***************************************************************************)

(* An application below the middlewares that have still to return.         *)
AskedBelow(t) ==
  \E i \in 1 .. Len(app) :
    i > level[t] /\ (app[i] = "about" \/ (app[i] = "urlmap" /\ asks[t].mapped))

(* static_file has found what request q names, in what the path was (S).   *)
LookedUp(q, S) ==
  Call!Has("static_file") /\ ~q.refused /\ \E n \in S : n.kind # "none"

(* What is known, on its way up, of a response r constructed with code g,  *)
(* d telling whether a descriptor was wanting and a whether an application *)
(* was asked.                                                              *)
Routed(r, g, q, S, d, a) ==
  /\ r.of = "about" <=> a
  /\ r.of = "not_found" => g = 0
  /\ r.of = "nobody" => r.data = <<>>
  /\ r.pragma => g = 0 /\ Call!Has("error_404")
  /\ r.of \in {"file", "listing"} => g \in {0, Not_Found} /\ LookedUp(q, S)
  /\ r.of = "file" => \E n \in S : n.kind # "directory"
  /\ r.of = "listing" => allow_explore_ /\ \E n \in S : n.kind = "directory"
  /\ d => r.code = OK

(* Inside static_file nobody has answered yet but with a page that says    *)
(* not found.                                                              *)
Looking(l, r, g, q, S, d) ==
  /\ ~d /\ r.of \in {"nobody", "not_found"} /\ g \in {0, Not_Found}
  /\ l # "exist" => LookedUp(q, S)
  /\ l \in Reading => \E n \in S : n.kind # "directory"
  /\ l \in Listing => allow_explore_ /\ \E n \in S : n.kind = "directory"

RoutedThread(t) ==
  /\ pc[t] = "call" \/ pc[t] \in Inside =>
       Routed(response[t], garbage[t], asks[t], seen[t], denied[t], AskedBelow(t))
  /\ pc[t] \in Inside =>
       /\ Looking(pc[t], response[t], garbage[t], asks[t], seen[t], denied[t])
       /\ app[level[t]] = "static_file"

RoutedInv ==
  /\ denied = [t \in Threads |-> denied[t]]
  /\ \A t \in Threads : denied[t] \in BOOLEAN /\ RoutedThread(t)

(* What a branch makes of a response suits the branch.                     *)
LEMMA RoutedForms ==
  ASSUME NEW r, NEW g, NEW q, NEW S, NEW d, NEW a, Routed(r, g, q, S, d, a), NEW type
  PROVE  /\ Routed(AboutPage(r), g, q, S, d, TRUE)
         /\ Routed(Found(r, type), g, q, S, d, a)
         /\ Found(r, type).of = r.of
<1>1. /\ AboutPage(r).of = "about" /\ AboutPage(r).code = OK
      /\ AboutPage(r).pragma = r.pragma
  BY DEF AboutPage
<1>3. /\ Found(r, type).of = r.of /\ Found(r, type).pragma = r.pragma
      /\ Found(r, type).data = r.data /\ Found(r, type).code = OK
  BY DEF Found
<1>4. Routed(AboutPage(r), g, q, S, d, TRUE)
  BY <1>1 DEF Routed
<1>5. Routed(Found(r, type), g, q, S, d, a)
  BY <1>3 DEF Routed
<1> QED
  BY <1>3, <1>4, <1>5

LEMMA RoutedPage ==
  ASSUME NEW q, NEW S, Call!Has("error_404")
  PROVE  Routed(NotFoundPage, 0, q, S, FALSE, FALSE)
<1>1. NotFoundPage.of = "not_found"
  BY DEF NotFoundPage
<1> QED
  BY <1>1 DEF Routed

(* A code that is no answer yet comes from the constructor or from a page. *)
LEMMA Unanswered ==
  ASSUME NEW r, NEW g, Formed(r, g), r.code \in {0, Not_Found}
  PROVE  /\ r.of \in {"nobody", "not_found"} /\ (r.of = "nobody" => r.code = g)
         /\ r.code = 0 => r.of = "nobody"
<1>1. OK # 0 /\ OK # Not_Found /\ Not_Found # 0
  BY DEF OK, Not_Found
<1> QED
  BY <1>1, Zenon DEF Formed

LEMMA RoutedBody ==
  ASSUME NEW r, NEW g, NEW q, NEW S, NEW d, NEW a, NEW l, NEW e, NEW data,
         Routed(r, g, q, S, d, a), Looking(l, r, g, q, S, d), r.code = OK
  PROVE  /\ l \in Reading => Routed(Body(r, "file", data), g, q, S, e, a)
         /\ l \in Listing => Routed(Body(r, "listing", data), g, q, S, e, a)
<1>1. \A of : /\ Body(r, of, data).of = of /\ Body(r, of, data).pragma = r.pragma
              /\ Body(r, of, data).code = OK
  BY DEF Body
<1>2. ~a
  BY DEF Routed, Looking
<1>3. l \in Reading \cup Listing => l # "exist"
  BY DEF Reading, Listing
<1>4. ASSUME l \in Reading PROVE Routed(Body(r, "file", data), g, q, S, e, a)
  BY <1>1, <1>2, <1>3, <1>4 DEF Routed, Looking
<1>5. ASSUME l \in Listing PROVE Routed(Body(r, "listing", data), g, q, S, e, a)
  BY <1>1, <1>2, <1>3, <1>5 DEF Routed, Looking
<1> QED
  BY <1>4, <1>5

(* The path only comes to have been more.                                  *)
LEMMA RoutedStays ==
  ASSUME NEW r, NEW g, NEW q, NEW S, NEW d, NEW a, NEW l, NEW T, S \subseteq T
  PROVE  /\ Routed(r, g, q, S, d, a) => Routed(r, g, q, T, d, a)
         /\ Looking(l, r, g, q, S, d) => Looking(l, r, g, q, T, d)
<1>1. LookedUp(q, S) => LookedUp(q, T)
  BY DEF LookedUp
<1> QED
  BY <1>1 DEF Routed, Looking

(* When a middleware returns, it joins those that have.                    *)
LEMMA AskedReturns ==
  ASSUME TypeInv, NEW t \in Threads, level[t] > 0, level'[t] = level[t] - 1, app' = app,
         asks'[t] = asks[t]
  PROVE  AskedBelow(t)' <=> \/ AskedBelow(t)
                            \/ app[level[t]] = "about"
                            \/ app[level[t]] = "urlmap" /\ asks[t].mapped
<1>1. Len(app) \in Nat /\ level[t] \in 1 .. Len(app)
  BY Constants DEF TypeInv, SharedOK, ThreadOK
<1>2. \A i \in 1 .. Len(app) : i > level'[t] <=> i > level[t] \/ i = level[t]
  BY <1>1
<1>3. AskedBelow(t)' <=> \E i \in 1 .. Len(app) :
        i > level'[t] /\ (app[i] = "about" \/ (app[i] = "urlmap" /\ asks[t].mapped))
  BY DEF AskedBelow
<1> QED
  BY <1>1, <1>2, <1>3 DEF AskedBelow

LEMMA AskedStays ==
  ASSUME NEW t \in Threads, level'[t] = level[t], app' = app, asks'[t] = asks[t]
  PROVE  AskedBelow(t)' = AskedBelow(t)
  BY DEF AskedBelow

LEMMA ThreadKeepsRouted ==
  ASSUME TypeInv, FormedInv, RoutedInv, NEW t \in Threads, CallStep(t)
  PROVE  RoutedThread(t)'
<1> DEFINE r == response[t]
           g == garbage[t]
           q == asks[t]
           S == seen[t]
           d == denied[t]
           a == AskedBelow(t)
<1>1. /\ app' = app /\ allow_explore_' = allow_explore_
      /\ Len(app) \in Nat /\ level[t] \in 0 .. Len(app)
      /\ node \in Nodes /\ (pc[t] # "idle" => node \in S)
      /\ (pc[t] \in Inside => level[t] > 0)
      /\ RoutedThread(t) /\ FormedThread(t) /\ Shape
      /\ d \in BOOLEAN /\ a \in BOOLEAN
      /\ denied = [u \in Threads |-> denied[u]] /\ garbage = [u \in Threads |-> garbage[u]]
  BY OthersStay, Constants
  DEF TypeInv, SharedOK, ThreadOK, RoutedInv, FormedInv, ThreadNext, AskedBelow
<1>2. \A x, y, z, S1, d1, a1 : Routed(x, y, z, S1, d1, a1)' = Routed(x, y, z, S1, d1, a1)
  BY <1>1 DEF Routed, LookedUp, Call!Has
(* Ways a step may leave the thread.                                       *)
<1>3. ASSUME UNCHANGED <<garbage[t], asks[t], seen[t]>>, pc'[t] = "call",
             Routed(response'[t], g, q, S, denied'[t], AskedBelow(t)')
      PROVE  RoutedThread(t)'
  <2>1. "call" \notin Inside
    BY DEF Inside
  <2> QED
    BY <1>2, <1>3, <2>1 DEF RoutedThread
<1>4. ASSUME UNCHANGED <<garbage[t], asks[t], seen[t], level[t]>>, pc'[t] \in Inside,
             app[level[t]] = "static_file",
             Routed(response'[t], g, q, S, denied'[t], a),
             Looking(pc'[t], response'[t], g, q, S, denied'[t])
      PROVE  RoutedThread(t)'
  <2>1. \A l, x, y, z, S1, d1 : Looking(l, x, y, z, S1, d1)' = Looking(l, x, y, z, S1, d1)
    BY <1>1 DEF Looking, LookedUp, Call!Has
  <2>2. AskedBelow(t)' = a
    BY <1>1, <1>4, AskedStays
  <2> QED
    BY <1>1, <1>2, <1>4, <2>1, <2>2 DEF RoutedThread
<1>5. pc[t] = "call" \/ pc[t] \in Inside => Routed(r, g, q, S, d, a)
  BY <1>1 DEF RoutedThread
<1>6. pc[t] \in Inside => /\ Looking(pc[t], r, g, q, S, d)
                          /\ app[level[t]] = "static_file" /\ level[t] > 0
  BY <1>1 DEF RoutedThread
<1>55. pc[t] = "call" => Formed(r, g)
  BY <1>1 DEF FormedThread, Reading, Listing
<1> HIDE DEF r, g, q, S, d, a
<1> USE DEF Shape, history, Goto, Return
<1>7. CASE About(t)
  <2>1. /\ pc[t] = "call" /\ pc'[t] = "call" /\ level[t] > 0 /\ level'[t] = level[t] - 1
        /\ app[level[t]] = "about" /\ response'[t] = AboutPage(r)
        /\ UNCHANGED <<garbage[t], asks[t], seen[t], denied[t]>>
    BY <1>1, <1>7 DEF About, At, r
  <2>2. AskedBelow(t)' = TRUE
    BY <1>1, <2>1, AskedReturns DEF AskedBelow
  <2>3. Routed(AboutPage(r), g, q, S, d, TRUE)
    BY <1>1, <1>5, <2>1, RoutedForms
  <2> QED
    BY <1>3, <2>1, <2>2, <2>3 DEF d
<1>8. CASE Urlmap(t)
  <2>1. /\ pc[t] = "call" /\ pc'[t] = "call" /\ level[t] > 0 /\ level'[t] = level[t] - 1
        /\ app[level[t]] = "urlmap"
        /\ response'[t] = IF q.mapped THEN AboutPage(r) ELSE r
        /\ UNCHANGED <<garbage[t], asks[t], seen[t], denied[t]>>
    BY <1>1, <1>8 DEF Urlmap, At, r, q
  <2>2. AskedBelow(t)' <=> a \/ q.mapped
    BY <1>1, <2>1, AskedReturns DEF a, q
  <2>3. Routed(AboutPage(r), g, q, S, d, TRUE) /\ Routed(r, g, q, S, d, a)
    BY <1>1, <1>5, <2>1, RoutedForms
  <2>4. CASE q.mapped
    <3>1. AskedBelow(t)' = TRUE /\ response'[t] = AboutPage(r)
      BY <2>1, <2>2, <2>4 DEF AskedBelow
    <3> QED
      BY <1>3, <2>1, <2>3, <3>1 DEF d
  <2>5. CASE ~q.mapped
    <3>1. AskedBelow(t)' = a /\ response'[t] = r
      BY <1>1, <2>1, <2>2, <2>5 DEF AskedBelow
    <3> QED
      BY <1>3, <2>1, <2>3, <3>1 DEF d
  <2> QED
    BY <2>4, <2>5
<1>9. CASE Error404(t)
  <2>1. /\ pc[t] = "call" /\ pc'[t] = "call" /\ level[t] > 0 /\ level'[t] = level[t] - 1
        /\ app[level[t]] = "error_404"
        /\ response'[t] = IF r.code = 0 THEN NotFoundPage ELSE r
        /\ UNCHANGED <<garbage[t], asks[t], seen[t], denied[t]>>
    BY <1>1, <1>9 DEF Error404, At, r
  <2>2. AskedBelow(t)' = a
    <3>1. AskedBelow(t)' <=> a
      BY <1>1, <2>1, AskedReturns DEF a
    <3> QED
      BY <1>1, <3>1 DEF AskedBelow
  <2>3. Routed(r, g, q, S, d, a)
    BY <1>5, <2>1
  <2>4. CASE r.code = 0
    <3>1. r.of = "nobody" /\ g = 0
      BY <1>55, <2>1, <2>4, Unanswered
    <3>2. d = FALSE /\ a = FALSE
      BY <1>1, <2>3, <2>4, <3>1 DEF Routed, OK
    <3>3. Call!Has("error_404")
      BY <1>1, <2>1 DEF Call!Has
    <3>4. Routed(NotFoundPage, g, q, S, d, a)
      BY <3>1, <3>2, <3>3, RoutedPage
    <3> QED
      BY <1>3, <2>1, <2>2, <2>4, <3>4 DEF d
  <2>5. CASE r.code # 0
    BY <1>3, <2>1, <2>2, <2>3, <2>5 DEF d
  <2> QED
    BY <2>4, <2>5
<1>10. CASE StaticFile(t)
  <2>1. /\ pc[t] = "call" /\ level[t] > 0 /\ app[level[t]] = "static_file"
        /\ UNCHANGED <<garbage[t], asks[t], seen[t], denied[t], response[t]>>
    BY <1>1, <1>10 DEF StaticFile, At
  <2>2. Routed(r, g, q, S, d, a)
    BY <1>5, <2>1
  <2>3. CASE r.code \in {0, Not_Found}
    <3>1. pc'[t] = "exist" /\ level'[t] = level[t]
      BY <1>1, <1>10, <2>3 DEF StaticFile, r
    <3>2. r.of \in {"nobody", "not_found"} /\ (r.of = "nobody" => r.code = g)
      BY <1>55, <2>1, <2>3, Unanswered
    <3>3. Looking("exist", r, g, q, S, d)
      BY <1>1, <2>2, <2>3, <3>2 DEF Looking, Routed, OK, Not_Found, Reading, Listing
    <3> QED
      BY <1>4, <2>1, <2>2, <3>1, <3>3 DEF r, d, Inside
  <2>4. CASE r.code \notin {0, Not_Found}
    <3>1. pc'[t] = "call" /\ level'[t] = level[t] - 1
      BY <1>1, <1>10, <2>4 DEF StaticFile, r
    <3>2. AskedBelow(t)' = a
      <4>1. AskedBelow(t)' <=> a
        BY <1>1, <2>1, <3>1, AskedReturns DEF a
      <4> QED
        BY <1>1, <4>1 DEF AskedBelow
    <3> QED
      BY <1>3, <2>1, <2>2, <3>1, <3>2 DEF r, d
  <2> QED
    BY <2>3, <2>4
<1>11. CASE Exist(t)
  <2>1. /\ pc[t] = "exist" /\ pc[t] \in Inside
        /\ UNCHANGED <<garbage[t], asks[t], seen[t], denied[t], response[t]>>
    BY <1>1, <1>11 DEF Exist, Inside
  <2>2. CASE Exists(t)
    <3>1. pc'[t] = "is_directory" /\ level'[t] = level[t]
      BY <1>1, <1>11, <2>2 DEF Exist
    <3>2. LookedUp(q, S)
      <4>1. Call!Has("static_file")
        BY <1>1, <1>6, <2>1 DEF Call!Has
      <4> QED
        BY <1>1, <2>1, <2>2, <4>1 DEF Exists, LookedUp, q, S
    <3>3. Looking("is_directory", r, g, q, S, d)
      BY <1>6, <2>1, <3>2 DEF Looking, Reading, Listing
    <3> QED
      BY <1>4, <1>5, <1>6, <2>1, <3>1, <3>3 DEF r, d, Inside
  <2>3. CASE ~Exists(t)
    <3>1. pc'[t] = "call" /\ level'[t] = level[t] - 1
      BY <1>1, <1>11, <2>3 DEF Exist
    <3>2. AskedBelow(t)' = a
      <4>1. AskedBelow(t)' <=> a
        BY <1>1, <1>6, <2>1, <3>1, AskedReturns DEF a
      <4> QED
        BY <1>1, <4>1 DEF AskedBelow
    <3> QED
      BY <1>3, <1>5, <2>1, <3>1, <3>2 DEF r, d
  <2> QED
    BY <2>2, <2>3
<1>12. CASE IsDirectory(t)
  <2>1. /\ pc[t] = "is_directory" /\ pc[t] \in Inside
        /\ UNCHANGED <<garbage[t], asks[t], seen[t], denied[t]>>
        /\ node \in S
    BY <1>1, <1>12 DEF IsDirectory, Inside, S
  <2>2. Routed(r, g, q, S, d, a) /\ Looking("is_directory", r, g, q, S, d)
    BY <1>5, <1>6, <2>1
  <2>3. \A type : Routed(Found(r, type), g, q, S, d, a) /\ Found(r, type).of = r.of
    BY <1>1, <2>2, RoutedForms
  <2>4. CASE node.kind = "directory" /\ allow_explore_
    <3>1. /\ pc'[t] = "opendir" /\ level'[t] = level[t]
          /\ response'[t] = Found(r, "text/html")
      BY <1>1, <1>12, <2>4 DEF IsDirectory, r
    <3>2. Looking("opendir", Found(r, "text/html"), g, q, S, d)
      BY <2>1, <2>2, <2>3, <2>4 DEF Looking, Reading, Listing
    <3> QED
      BY <1>4, <1>6, <2>1, <2>3, <3>1, <3>2 DEF d, Inside
  <2>5. CASE node.kind = "directory" /\ ~allow_explore_
    <3>1. pc'[t] = "call" /\ level'[t] = level[t] - 1 /\ response'[t] = r
      BY <1>1, <1>12, <2>5 DEF IsDirectory, r
    <3>2. AskedBelow(t)' = a
      <4>1. AskedBelow(t)' <=> a
        BY <1>1, <1>6, <2>1, <3>1, AskedReturns DEF a
      <4> QED
        BY <1>1, <4>1 DEF AskedBelow
    <3> QED
      BY <1>3, <2>1, <2>2, <3>1, <3>2 DEF d
  <2>6. CASE node.kind # "directory"
    <3>1. /\ pc'[t] = "open" /\ level'[t] = level[t]
          /\ response'[t] = Found(r, "mime")
      BY <1>1, <1>12, <2>6 DEF IsDirectory, r
    <3>2. Looking("open", Found(r, "mime"), g, q, S, d)
      BY <2>1, <2>2, <2>3, <2>6 DEF Looking, Reading, Listing
    <3> QED
      BY <1>4, <1>6, <2>1, <2>3, <3>1, <3>2 DEF d, Inside
  <2> QED
    BY <2>4, <2>5, <2>6
(* static_file returns what it has found...                                *)
<1>13. ASSUME pc[t] \in Reading \cup Listing, UNCHANGED <<garbage[t], asks[t], seen[t]>>,
              NEW data, pc'[t] = "call", level'[t] = level[t] - 1,
              \/ pc[t] \in Reading /\ response'[t] = Body(r, "file", data)
              \/ pc[t] \in Listing /\ response'[t] = Body(r, "listing", data)
       PROVE  RoutedThread(t)'
  <2>1. pc[t] \in Inside /\ r.code = OK
    BY <1>1, <1>13 DEF Inside, Reading, Listing, FormedThread, r
  <2>2. Routed(response'[t], g, q, S, denied'[t], a)
    <3>1. Routed(r, g, q, S, d, a) /\ Looking(pc[t], r, g, q, S, d)
      BY <1>5, <1>6, <2>1
    <3>2. CASE pc[t] \in Reading
      <4>1. \A e : Routed(Body(r, "file", data), g, q, S, e, a)
        BY <1>1, <2>1, <3>1, <3>2, RoutedBody
      <4> QED
        BY <1>13, <3>2, <4>1 DEF Reading, Listing
    <3>3. CASE pc[t] \in Listing
      <4>1. \A e : Routed(Body(r, "listing", data), g, q, S, e, a)
        BY <1>1, <2>1, <3>1, <3>3, RoutedBody
      <4> QED
        BY <1>13, <3>3, <4>1 DEF Reading, Listing
    <3> QED
      BY <1>13, <3>2, <3>3
  <2>3. AskedBelow(t)' = a
    <3>1. AskedBelow(t)' <=> a
      BY <1>1, <1>6, <1>13, <2>1, AskedReturns DEF a
    <3> QED
      BY <1>1, <3>1 DEF AskedBelow
  <2> QED
    BY <1>3, <1>13, <2>2, <2>3
(* ...or goes on.                                                          *)
<1>14. ASSUME UNCHANGED <<garbage[t], asks[t], seen[t], level[t], response[t], denied[t]>>,
              \/ pc[t] \in Reading /\ pc'[t] \in Reading
              \/ pc[t] \in Listing /\ pc'[t] \in Listing
       PROVE  RoutedThread(t)'
  <2>1. pc[t] \in Inside /\ pc'[t] \in Inside /\ pc[t] # "exist"
    BY <1>14 DEF Inside, Reading, Listing
  <2>2. Looking(pc'[t], r, g, q, S, d)
    BY <1>6, <1>14, <2>1 DEF Looking, Reading, Listing
  <2> QED
    BY <1>4, <1>5, <1>6, <1>14, <2>1, <2>2 DEF r, d
<1>15. CASE OpenFile(t)
  <2>1. /\ pc[t] = "open" /\ UNCHANGED <<garbage[t], asks[t], seen[t]>>
        /\ denied'[t] = (FreeFds = 0)
    BY <1>1, <1>15 DEF OpenFile
  <2>2. CASE node.kind = "none" \/ ~node.readable \/ FreeFds = 0
    BY <1>1, <1>13, <1>15, <2>1, <2>2 DEF OpenFile, Reading, r
  <2>3. CASE ~(node.kind = "none" \/ ~node.readable \/ FreeFds = 0)
    <3>1. d = FALSE
      BY <1>1, <1>6, <2>1 DEF Looking, Inside
    <3>2. /\ pc'[t] = "read" /\ UNCHANGED <<response[t], level[t]>>
          /\ denied'[t] = FALSE
      BY <1>1, <1>15, <2>1, <2>3 DEF OpenFile
    <3> QED
      BY <1>14, <2>1, <3>1, <3>2 DEF Reading, d
  <2> QED
    BY <2>2, <2>3
<1>16. CASE ReadBlock(t)
  <2>1. pc[t] = "read" /\ UNCHANGED <<garbage[t], asks[t], seen[t], denied[t]>>
    BY <1>1, <1>16 DEF ReadBlock
  <2>2. \/ /\ pc'[t] = "call" /\ level'[t] = level[t] - 1
           /\ \E data : response'[t] = Body(r, "file", data)
        \/ pc'[t] = "read" /\ UNCHANGED <<response[t], level[t]>>
    BY <1>1, <1>16, <2>1 DEF ReadBlock, r
  <2> QED
    BY <1>13, <1>14, <2>1, <2>2 DEF Reading
<1>17. CASE OpenDir(t)
  <2>1. /\ pc[t] = "opendir" /\ UNCHANGED <<garbage[t], asks[t], seen[t]>>
        /\ denied'[t] = (FreeFds = 0)
    BY <1>1, <1>17 DEF OpenDir
  <2>2. CASE ~OpensDir
    BY <1>1, <1>13, <1>17, <2>1, <2>2 DEF OpenDir, Listing, r
  <2>3. CASE OpensDir
    <3>1. d = FALSE
      BY <1>1, <1>6, <2>1 DEF Looking, Inside
    <3>2. pc'[t] = "readdir" /\ UNCHANGED <<response[t], level[t]>>
      BY <1>1, <1>17, <2>1, <2>3 DEF OpenDir
    <3>3. denied'[t] = FALSE
      <4>1. Cardinality(Readers) \in Nat /\ Cardinality(Busy) \in Nat
        BY Constants, FS_Subset, FS_CardinalityType DEF Readers, Busy
      <4>2. FreeFds # 0
        BY <2>3, <4>1, Constants DEF OpensDir, FreeFds, TypeInv, SharedOK
      <4> QED
        BY <2>1, <4>2
    <3> QED
      BY <1>14, <2>1, <3>1, <3>2, <3>3 DEF Listing, d
  <2> QED
    BY <2>2, <2>3
<1>18. CASE ReadDir(t) \/ StatEntry(t)
  <2>1. /\ pc[t] \in {"readdir", "stat"} /\ pc'[t] \in {"readdir", "stat"}
        /\ UNCHANGED <<garbage[t], asks[t], seen[t], level[t], response[t], denied[t]>>
    BY <1>1, <1>18 DEF ReadDir, StatEntry
  <2> QED
    BY <1>14, <2>1 DEF Listing
<1>19. CASE EndDir(t)
  <2>1. pc[t] = "readdir" /\ UNCHANGED <<garbage[t], asks[t], seen[t]>>
    BY <1>1, <1>19 DEF EndDir
  <2>2. /\ pc'[t] = "call" /\ level'[t] = level[t] - 1
        /\ response'[t] = Body(r, "listing", buffer[t])
    BY <1>1, <1>19 DEF EndDir, r
  <2> QED
    BY <1>13, <2>1, <2>2 DEF Listing
<1>20. CASE Respond(t) \/ Write(t)
  <2>1. pc'[t] \in {"write", "idle"}
    BY <1>1, <1>20 DEF Respond, Write
  <2> QED
    BY <2>1 DEF RoutedThread, Inside
<1> QED
  BY <1>7, <1>8, <1>9, <1>10, <1>11, <1>12, <1>15, <1>16, <1>17, <1>18, <1>19, <1>20
  DEF CallStep

LEMMA StepKeepsRouted == TypeInv /\ FormedInv /\ RoutedInv /\ [Next]_vars => RoutedInv'
<1> SUFFICES ASSUME TypeInv, FormedInv, RoutedInv, [Next]_vars PROVE RoutedInv'
  OBVIOUS
<1> DEFINE Kept(t) == denied'[t] \in BOOLEAN /\ RoutedThread(t)'
<1>1. ASSUME UNCHANGED <<app, allow_explore_>>
      PROVE  /\ \A r, g, q, S, d, a : Routed(r, g, q, S, d, a)' = Routed(r, g, q, S, d, a)
             /\ \A l, r, g, q, S, d : Looking(l, r, g, q, S, d)' = Looking(l, r, g, q, S, d)
  BY <1>1 DEF Routed, Looking, LookedUp, Call!Has
<1>2. ASSUME UNCHANGED <<app, allow_explore_>>, NEW t \in Threads,
             UNCHANGED <<pc[t], response[t], garbage[t], asks[t], denied[t], level[t]>>,
             pc[t] = "idle" \/ seen[t] \subseteq seen'[t]
      PROVE  Kept(t)
  <2>1. denied[t] \in BOOLEAN /\ RoutedThread(t) /\ AskedBelow(t)' = AskedBelow(t)
    BY <1>2, AskedStays DEF RoutedInv
  <2>2. CASE pc[t] = "idle"
    BY <1>2, <2>1, <2>2 DEF RoutedThread, Inside
  <2>3. CASE seen[t] \subseteq seen'[t]
    BY <1>1, <1>2, <2>1, <2>3, RoutedStays DEF RoutedThread
  <2> QED
    BY <1>2, <2>2, <2>3
<1>3. CASE UNCHANGED calls
  <2>1. \A t \in Threads : Kept(t)
    BY <1>2, <1>3 DEF calls, history
  <2> QED
    BY <1>3, <2>1 DEF calls, RoutedInv
<1>4. CASE Change
  <2>1. UNCHANGED <<app, allow_explore_, pc, asks, level, response, garbage, denied>>
    BY <1>4 DEF Change
  <2>2. \A t \in Threads : pc[t] # "idle" => seen[t] \subseteq seen'[t]
    BY <1>4 DEF Change
  <2>3. \A t \in Threads : Kept(t)
    BY <1>2, <2>1, <2>2
  <2> QED
    BY <2>1, <2>3 DEF RoutedInv
<1>5. ASSUME NEW t \in Threads, ThreadNext(t) PROVE RoutedInv'
  <2>1. UNCHANGED <<app, allow_explore_>>
    BY <1>5, OthersStay DEF TypeInv
  <2>2. /\ denied' = [u \in Threads |-> denied'[u]] /\ denied'[t] \in BOOLEAN
        /\ \A u \in Threads \ {t} : UNCHANGED <<denied[u], garbage[u]>>
    <3> USE DEF RoutedInv, FormedInv, history
    <3>1. CASE Env(t) \/ Write(t)
      BY <3>1 DEF Env, Write
    <3>2. CASE About(t) \/ Urlmap(t) \/ Error404(t) \/ StaticFile(t) \/ Exist(t)
      BY <3>2 DEF About, Urlmap, Error404, StaticFile, Exist
    <3>3. CASE IsDirectory(t) \/ ReadBlock(t) \/ ReadDir(t) \/ StatEntry(t) \/ EndDir(t)
      BY <3>3 DEF IsDirectory, ReadBlock, ReadDir, StatEntry, EndDir
    <3>4. CASE OpenFile(t) \/ OpenDir(t)
      BY <3>4 DEF OpenFile, OpenDir
    <3>5. CASE Respond(t)
      BY <3>5 DEF Respond
    <3> QED
      BY <1>5, <3>1, <3>2, <3>3, <3>4, <3>5 DEF ThreadNext, CallStep
  <2>3. ASSUME NEW u \in Threads \ {t} PROVE Kept(u)
    <3>1. UNCHANGED <<pc[u], response[u], garbage[u], asks[u], denied[u], level[u], seen[u]>>
      BY <1>5, <2>2, OthersStay DEF TypeInv
    <3> QED
      BY <1>2, <2>1, <3>1
  <2>4. RoutedThread(t)'
    <3>1. CASE Env(t)
      <4>1. PICK code \in Garbage, mapped, refused \in BOOLEAN :
              /\ asks' = [asks EXCEPT ![t] = [mapped |-> mapped, refused |-> refused]]
              /\ response' = [response EXCEPT ![t] = Constructed(code)]
              /\ garbage' = [garbage EXCEPT ![t] = code]
        BY <3>1 DEF Env
      <4>2. /\ pc'[t] = "call" /\ level'[t] = Len(app) /\ Len(app) \in Nat
            /\ response'[t] = Constructed(code) /\ denied'[t] = FALSE
        BY <3>1, <4>1, Constants DEF Env, Goto, TypeInv, Shape, SharedOK, RoutedInv
      <4>3. AskedBelow(t)' = FALSE
        BY <2>1, <4>2 DEF AskedBelow
      <4>4. /\ Constructed(code).of = "nobody" /\ Constructed(code).data = <<>>
            /\ Constructed(code).pragma = FALSE
        BY DEF Constructed
      <4>5. \A g, q, S : Routed(Constructed(code), g, q, S, FALSE, FALSE)
        BY <4>4 DEF Routed
      <4>6. pc'[t] \notin Inside
        BY <4>2 DEF Inside
      <4>7. PICK r, g, q, S : /\ r = Constructed(code) /\ g = garbage'[t]
                              /\ q = asks'[t] /\ S = seen'[t]
        OBVIOUS
      <4>8. Routed(r, g, q, S, FALSE, FALSE)'
        <5>1. Routed(r, g, q, S, FALSE, FALSE)
          BY <4>5, <4>7
        <5>2. \A r0, g0, q0, S0, d, a :
                Routed(r0, g0, q0, S0, d, a)' = Routed(r0, g0, q0, S0, d, a)
          BY <1>1, <2>1
        <5> QED
          BY <5>1, <5>2
      <4> QED
        BY <4>2, <4>3, <4>6, <4>7, <4>8 DEF RoutedThread
    <3>2. CASE CallStep(t)
      BY <3>2, ThreadKeepsRouted
    <3> QED
      BY <1>5, <3>1, <3>2 DEF ThreadNext
  <2> QED
    BY <2>2, <2>3, <2>4 DEF RoutedInv
<1> QED
  BY <1>3, <1>4, <1>5, CallsStay DEF Next

LEMMA RoutedCorrect == Spec => []RoutedInv
<1>1. Init => RoutedInv
  <2> SUFFICES ASSUME Init PROVE RoutedInv
    OBVIOUS
  <2>1. \A t \in Threads : pc[t] = "idle" /\ denied[t] = FALSE
    BY DEF Init
  <2> QED
    BY <2>1 DEF Init, RoutedInv, RoutedThread, Inside
<1> QED
  BY <1>1, StepKeepsRouted, Typed, FormedCorrect, PTL DEF Spec

(* At the top of the chain, what is known of the response makes it honest. *)
LEMMA AnswerHonest ==
  ASSUME TypeInv, FormedInv, HonestInv, SoundInv, RoutedInv, NEW t \in Threads,
         pc[t] = "call", level[t] = 0, NEW r,
         r = IF Internal404(response[t]) THEN NotFoundPage ELSE response[t]
  PROVE  Call!Honest(t, r)
<1> DEFINE R == response[t]
           g == garbage[t]
           q == asks[t]
           S == seen[t]
           d == denied[t]
           a == AskedBelow(t)
<1>1. /\ Routed(R, g, q, S, d, a) /\ Formed(R, g)
      /\ R.of = "file" => FileOK(S, d, R)
      /\ R.of = "listing" => ListOK(S, d, R)
  BY DEF RoutedInv, RoutedThread, FormedInv, FormedThread, SoundInv, SoundThread,
         SoundResponse, Carrying, Reading, Listing
<1>2. Len(app) \in Nat /\ \A i \in 1 .. Len(app) : i > level[t]
  BY Constants DEF TypeInv, SharedOK
<1>3. Call!Applied(t) <=> a
  BY <1>2 DEF Call!Applied, Call!Has, AskedBelow
<1>4. R.code \in {0, Not_Found} => Call!Missing(t)
  BY <1>2 DEF HonestInv, HonestThread, Passed, Cause, Call!Missing, Call!Has
<1>5. /\ NotFoundPage.of = "not_found" /\ Call!IsNotFound(NotFoundPage)
  BY DEF NotFoundPage, Call!IsNotFound, Not_Found
<1> HIDE DEF R, g, q, S, d, a
<1>6. CASE app = <<>>
  <2>1. r = NotFoundPage
    BY <1>6 DEF Internal404
  <2> QED
    BY <1>5, <1>6, <2>1 DEF Call!Honest
<1>7. CASE app # <<>> /\ R.code = 0
  <2>1. r = NotFoundPage
    BY <1>7 DEF Internal404, R
  <2>2. R.of = "nobody" /\ g = 0
    BY <1>1, <1>7, Unanswered
  <2>3. ~Call!Applied(t) /\ Call!Missing(t)
    BY <1>1, <1>3, <1>4, <1>7, <2>2 DEF Routed
  <2> QED
    BY <1>5, <1>7, <2>1, <2>2, <2>3 DEF Call!Honest, g
<1>8. CASE app # <<>> /\ R.code # 0
  <2>1. r = R
    BY <1>8 DEF Internal404, R
  <2>2. R.pragma /\ R.of # "not_found" => g = 0 /\ Call!Has("error_404")
    BY <1>1 DEF Routed
  <2>3. CASE Call!Applied(t)
    <3>1. R.of = "about"
      BY <1>1, <1>3, <2>3 DEF Routed
    <3>2. Call!IsAbout(R)
      BY <1>1, <3>1 DEF Formed, Call!IsAbout, OK
    <3> QED
      BY <1>8, <2>1, <2>2, <2>3, <3>2 DEF Call!Honest, g
  <2>4. CASE ~Call!Applied(t) /\ R.of = "nobody"
    <3>1. R.code = g /\ Call!IsBlank(R, g)
      BY <1>1, <2>4 DEF Formed, Routed, Call!IsBlank
    <3>2. g = 404 => Call!Missing(t)
      BY <1>4, <3>1 DEF Not_Found
    <3> QED
      BY <1>8, <2>1, <2>2, <2>4, <3>1, <3>2 DEF Call!Honest, g
  <2>5. CASE ~Call!Applied(t) /\ R.of = "not_found"
    <3>1. g = 0 /\ Call!IsNotFound(R) /\ R.code = Not_Found
      BY <1>1, <2>5 DEF Formed, Routed, Call!IsNotFound, Not_Found
    <3>2. Call!Missing(t)
      BY <1>4, <3>1
    <3> QED
      BY <1>8, <2>1, <2>2, <2>5, <3>1, <3>2 DEF Call!Honest, g
  <2>6. CASE ~Call!Applied(t) /\ R.of \in {"file", "listing"}
    <3>1. /\ g \in {0, 404} /\ Call!Has("static_file") /\ ~q.refused
          /\ \E n \in S : n.kind # "none"
      BY <1>1, <2>6 DEF Routed, LookedUp, Not_Found
    <3>2. R.of = "file" => Call!IsFile(t, R)
      BY <1>1 DEF Formed, Routed, FileOK, Witnessed, Call!IsFile, OK, S, d
    <3>3. R.of = "listing" => Call!IsListing(t, R)
      <4>1. R.of = "listing" =>
              /\ R.code = 200 /\ R.type = "text/html" /\ allow_explore_
              /\ \E n \in S : n.kind = "directory"
        BY <1>1 DEF Formed, Routed, OK
      <4> SUFFICES ASSUME R.of = "listing" PROVE Call!IsListing(t, R)
        OBVIOUS
      <4>2. ListOK(S, d, R)
        BY <1>1
      <4>3. \A e \in Elements(R.data) : \E n \in S : e \in n.entries
        BY <4>2 DEF ListOK, Had
      <4>4. (\A n \in S : n.kind = "directory" /\ n.readable) /\ ~d =>
              \A n \in S : \A e \in n.entries :
                (\A o \in S : e \in o.entries) => e \in Elements(R.data)
        BY <4>2 DEF ListOK
      <4>5. Call!Names(R) = Elements(R.data)
        BY DEF Call!Names, Elements
      <4>6. \A i, j \in 1 .. Len(R.data) : R.data[i] = R.data[j] => i = j
        BY <4>2 DEF ListOK
      <4> QED
        BY <4>1, <4>3, <4>4, <4>5, <4>6 DEF Call!IsListing, S, d
    <3>4. Call!Served(t, R)
      BY <2>6, <3>1, <3>2, <3>3 DEF Call!Served, S, q
    <3> QED
      BY <1>8, <2>1, <2>2, <2>6, <3>1, <3>4 DEF Call!Honest, g
  <2>7. R.of \in {"nobody", "not_found", "file", "listing"} \/ Call!Applied(t)
    BY <1>1, <1>3 DEF Formed, Routed
  <2> QED
    BY <2>3, <2>4, <2>5, <2>6, <2>7
<1> QED
  BY <1>6, <1>7, <1>8

(* A thread that goes on in its call shows nothing.                        *)
LEMMA Unseen ==
  ASSUME NEW t \in Threads, \A u \in Threads \ {t} : UNCHANGED <<pc[u], response[u]>>,
         pc[t] \notin {"idle", "write"}, pc'[t] \notin {"idle", "write"}
  PROVE  /\ UNCHANGED [u \in Threads |-> pc[u] # "idle"]
         /\ UNCHANGED [u \in Threads |-> Sent(u)]
         /\ Call!Pending(t)
<1>1. \A u \in Threads : (pc'[u] # "idle") = (pc[u] # "idle") /\ Sent(u)' = Sent(u)
  BY DEF Sent
<1>2. Call!Pending(t)
  BY DEF Call!Pending, Sent
<1> QED
  BY <1>1, <1>2

LEMMA StepImplements ==
  ASSUME TypeInv, FormedInv, HonestInv, SoundInv, RoutedInv, [Next]_vars
  PROVE  [Call!Next]_(Call!vars)
<1> USE DEF history
<1>1. CASE UNCHANGED calls
  BY <1>1 DEF calls, fs, Call!vars, Sent
<1>2. CASE Change
  <2>1. Call!Change /\ alive
    BY <1>2 DEF Change, Call!Change, Sent
  <2> QED
    BY <2>1 DEF Call!Next
<1>3. ASSUME NEW t \in Threads, ThreadNext(t) PROVE [Call!Next]_(Call!vars)
  <2>1. /\ Shape /\ Shape' /\ UNCHANGED <<app, allow_explore_, node>>
        /\ \A u \in Threads \ {t} : UNCHANGED <<pc[u], response[u]>>
        /\ \A u \in Threads \ {t} : Sent(u)' = Sent(u)
    BY <1>3, OthersStay DEF TypeInv, Sent
  <2> DEFINE Asked == [u \in Threads |-> pc[u] # "idle"]
             Answers == [u \in Threads |-> Sent(u)]
  <2>2. ASSUME pc[t] \notin {"idle", "write"}, pc'[t] \notin {"idle", "write"}
        PROVE  UNCHANGED <<Asked, Answers>> /\ Call!Pending(t)
    BY <2>1, <2>2, Unseen
  <2>3. CASE Env(t)
    <3>1. alive /\ pc[t] = "idle" /\ pc' = [pc EXCEPT ![t] = "call"]
      BY <2>3 DEF Env, Goto
    <3>2. Asked' = [Asked EXCEPT ![t] = TRUE] /\ UNCHANGED Answers /\ ~Asked[t]
      <4>1. Sent(t)' = Sent(t)
        BY <2>1, <3>1 DEF Sent, Shape
      <4> QED
        BY <2>1, <3>1, <4>1 DEF Shape
    <3>3. Call!Ask(t)
      BY <2>1, <2>3, <3>2 DEF Env, Call!Ask, fs
    <3> QED
      BY <3>1, <3>3 DEF Call!Next
  <2>4. CASE \/ About(t) \/ Urlmap(t) \/ Error404(t) \/ StaticFile(t) \/ Exist(t)
             \/ IsDirectory(t) \/ ReadBlock(t) \/ ReadDir(t) \/ EndDir(t)
    <3>1. /\ pc[t] \notin {"idle", "write"} /\ pc'[t] \notin {"idle", "write"}
          /\ UNCHANGED <<alive, asks, history, denied>>
      BY <2>1, <2>4 DEF About, Urlmap, Error404, StaticFile, Exist, IsDirectory, ReadBlock,
                        ReadDir, EndDir, At, Return, Goto, Shape
    <3> QED
      BY <2>1, <2>2, <3>1 DEF Call!vars
  <2>5. CASE OpenFile(t) \/ OpenDir(t)
    <3>1. /\ pc[t] \notin {"idle", "write"} /\ pc'[t] \notin {"idle", "write"}
          /\ alive /\ UNCHANGED <<alive, asks, history>>
          /\ denied' = [denied EXCEPT ![t] = FreeFds = 0] /\ pc[t] \in Inside
      BY <2>1, <2>5 DEF OpenFile, OpenDir, Return, Goto, Shape, Inside
    <3>2. ~denied[t] /\ denied[t] \in BOOLEAN /\ denied = [u \in Threads |-> denied[u]]
      BY <3>1 DEF RoutedInv, RoutedThread, Looking
    <3>3. CASE FreeFds = 0
      <4>1. Call!Deny(t)
        BY <2>1, <2>2, <3>1, <3>2, <3>3 DEF Call!Deny
      <4> QED
        BY <3>1, <4>1 DEF Call!Next
    <3>4. CASE FreeFds # 0
      <4>1. denied' = denied
        BY <3>1, <3>2, <3>4
      <4> QED
        BY <2>1, <2>2, <3>1, <4>1 DEF Call!vars
    <3> QED
      BY <3>3, <3>4
  <2>6. CASE StatEntry(t)
    <3>1. /\ pc[t] = "stat" /\ pc'[t] \notin {"idle", "write"}
          /\ alive /\ UNCHANGED <<asks, history, denied>>
      BY <2>1, <2>6 DEF StatEntry, Goto, Shape
    <3>2. CASE UNCHANGED alive
      BY <2>1, <2>2, <3>1, <3>2 DEF Call!vars
    <3>3. ASSUME NEW e \in entry[t], ~StatFinds(e), alive' = FALSE
          PROVE  Call!Crash(t)
      <4>1. /\ Call!Has("static_file") /\ allow_explore_ /\ ~asks[t].refused
        BY <3>1 DEF RoutedInv, RoutedThread, Inside, Looking, Listing, LookedUp
      <4>2. PICK n \in seen[t] : e \in n.entries
        BY <3>1, <3>3 DEF SoundInv, SoundThread, ListRead, Had
      <4>3. e \in Dangling \/ e \notin node.entries
        BY <3>3, Constants DEF StatFinds, TypeInv, SharedOK
      <4>4. node \in seen[t]
        BY <3>1 DEF TypeInv, ThreadOK
      <4> QED
        BY <2>1, <2>2, <3>1, <3>3, <4>1, <4>2, <4>3, <4>4 DEF Call!Crash
    <3> QED
      BY <2>6, <3>1, <3>2, <3>3 DEF StatEntry, Call!Next
  <2>7. CASE Respond(t)
    <3> DEFINE r == IF Internal404(response[t]) THEN NotFoundPage ELSE response[t]
    <3>1. /\ alive /\ pc[t] = "call" /\ level[t] = 0 /\ pc'[t] = "write"
          /\ UNCHANGED <<alive, asks, history, denied>> /\ response'[t] = r
      BY <2>1, <2>7 DEF Respond, Goto, Shape
    <3>2. Call!Honest(t, r)
      BY <3>1, AnswerHonest
    <3> HIDE DEF r
    <3>3. Sent(t) = {} /\ Sent(t)' = {r}
      BY <3>1 DEF Sent
    <3>4. /\ UNCHANGED Asked /\ Answers' = [Answers EXCEPT ![t] = {r}]
          /\ r \in Answers'[t] /\ Call!Pending(t)
      BY <2>1, <3>1, <3>3 DEF Call!Pending
    <3>5. Call!Answer(t)
      BY <2>1, <3>1, <3>2, <3>4 DEF Call!Answer
    <3> QED
      BY <3>1, <3>5 DEF Call!Next
  <2>8. CASE Write(t)
    <3>1. /\ alive /\ pc[t] = "write" /\ pc'[t] = "idle" /\ UNCHANGED alive
      BY <2>1, <2>8 DEF Write, Goto, Shape
    <3>2. Sent(t) # {} /\ Sent(t)' = {}
      BY <3>1 DEF Sent
    <3>3. /\ Asked' = [Asked EXCEPT ![t] = FALSE] /\ Answers' = [Answers EXCEPT ![t] = {}]
          /\ Answers[t] # {}
      BY <2>1, <3>1, <3>2
    <3>4. Call!Done(t)
      BY <2>1, <2>8, <3>1, <3>3 DEF Write, Call!Done, Call!Unasked
    <3> QED
      BY <3>1, <3>4 DEF Call!Next
  <2> QED
    BY <1>3, <2>3, <2>4, <2>5, <2>6, <2>7, <2>8 DEF ThreadNext, CallStep
<1> QED
  BY <1>1, <1>2, <1>3, CallsStay DEF Next

(* Whatever the chain, the request, the code found and the moments at      *)
(* which the path changes, a call is answered once, by the branch it       *)
(* calls for, and truly: it implements Reply.                              *)
THEOREM ImplementsReplyCorrect == Spec => ImplementsReply
<1>1. Init => Call!Init
  BY DEF Init, Call!Init, Call!Unasked, Sent, history, fs
<1>2. /\ TypeInv /\ FormedInv /\ HonestInv /\ SoundInv /\ RoutedInv /\ [Next]_vars
      => [Call!Next]_(Call!vars)
  BY StepImplements
<1> QED
  BY <1>1, <1>2, Typed, FormedCorrect, HonestCorrect, SoundCorrect, RoutedCorrect, PTL
  DEF Spec, ImplementsReply, Call!Spec

-----------------------------------------------------------------------------
(* How far a call is from its end: the middlewares that have still to      *)
(* return, and the steps of static_file; then what is left to read.        *)
PositionOf(p, l) ==
  CASE p = "idle"  -> 0
    [] p = "write" -> 1
    [] p = "call"  -> 5 * l + 6
    [] p = "exist" -> 5 * l + 5
    [] p = "is_directory" -> 5 * l + 4
    [] p \in {"open", "opendir"} -> 5 * l + 3
    [] p \in {"read", "readdir", "stat"} -> 5 * l + 2

Unread(b, c) == IF Len(b) < Len(c) THEN Len(c) - Len(b) ELSE 0

WorkOf(p, b, h) ==
  CASE p = "read"    -> Unread(b, h.content)
    [] p = "readdir" -> 2 * Cardinality(h.may \ Elements(b)) + 1
    [] p = "stat"    -> 2 * Cardinality(h.may \ Elements(b))
    [] p \notin {"read", "readdir", "stat"} -> 0

Position(t) == PositionOf(pc[t], level[t])
Work(t) == WorkOf(pc[t], buffer[t], held[t])

Advances(t) ==
  \/ Position(t)' < Position(t)
  \/ Position(t)' = Position(t) /\ Work(t)' < Work(t)

(* A thread in a call comes nearer to its end with each of its steps, but  *)
(* for the one in which it crashes; the steps of other threads do not put  *)
(* it back, and a change of the path only adds to what it has to read.     *)
CallAdvances ==
  [][\A t \in Threads :
       /\ Position(t) \in Nat /\ Work(t) \in Nat
       /\ CallStep(t) /\ alive' => Advances(t)
       /\ pc[t] # "idle" /\ ~CallStep(t) =>
            /\ Position(t)' = Position(t)
            /\ UNCHANGED fs => Work(t)' = Work(t)]_vars

FiniteMay == \A t \in Threads : IsFiniteSet(held[t].may)

(* A full block leaves less to read.                                       *)
LEMMA FullBlock ==
  ASSUME NEW b \in Seq(Bytes), NEW c \in Seq(Bytes), ~Last(b, c)
  PROVE  Unread(Gathered(b, NextOf(b, c)), c) < Unread(b, c)
<1> DEFINE upto == Upto(b, c)
           block == NextOf(b, c)
<1>0. /\ upto = IF Len(b) + Block < Len(c) THEN Len(b) + Block ELSE Len(c)
      /\ block = SubSeq(c, Len(b) + 1, upto) /\ Len(block) >= Block
      /\ Gathered(b, block) = b \o block
  BY MiddlewareAssumption DEF Upto, NextOf, Last, Gathered, MiddlewareAssumption
<1> HIDE DEF upto, block
<1>1. /\ Len(b) \in Nat /\ Len(c) \in Nat /\ Block \in Nat \ {0} /\ upto <= Len(c)
      /\ upto \in Nat /\ \A i \in 1 .. Len(c) : c[i] \in Bytes
  BY <1>0, MiddlewareAssumption, LenProperties, ElementOfSeq DEF MiddlewareAssumption
<1>2. \A i \in Len(b) + 1 .. upto : c[i] \in Bytes
  BY <1>1
<1>3. /\ block \in Seq(Bytes)
      /\ Len(block) = IF Len(b) + 1 <= upto THEN upto - (Len(b) + 1) + 1 ELSE 0
  <2>1. Len(b) + 1 \in Int /\ upto \in Int
    BY <1>1
  <2> QED
    BY <1>0, <1>2, <2>1, SubSeqProperties
<1>4. Len(b \o block) = Len(b) + Len(block)
  BY <1>3, ConcatProperties
<1>5. Len(b) < Len(c) /\ Len(b \o block) > Len(b)
  BY <1>0, <1>1, <1>3, <1>4
<1> DEFINE all == b \o block
<1>6. Len(all) \in Nat
  BY <1>1, <1>3, <1>4, LenProperties
<1> HIDE DEF all
<1>7. Len(all) > Len(b)
  BY <1>5 DEF all
<1>8. Unread(b, c) = Len(c) - Len(b)
  BY <1>5 DEF Unread
<1>9. Unread(all, c) = IF Len(all) < Len(c) THEN Len(c) - Len(all) ELSE 0
  BY DEF Unread
<1>10. Unread(all, c) < Unread(b, c)
  <2> DEFINE x == Len(all)
             y == Len(b)
             z == Len(c)
  <2>1. /\ x \in Nat /\ y \in Nat /\ z \in Nat /\ y < z /\ y < x
        /\ Unread(b, c) = z - y /\ Unread(all, c) = IF x < z THEN z - x ELSE 0
    BY <1>1, <1>5, <1>6, <1>7, <1>8, <1>9
  <2> HIDE DEF x, y, z
  <2> QED
    BY <2>1
<1> QED
  BY <1>0, <1>10 DEF all, block

LEMMA Appended ==
  ASSUME NEW T, NEW b \in Seq(T), NEW e \in T
  PROVE  Elements(Append(b, e)) = Elements(b) \cup {e}
<1>1. /\ Len(Append(b, e)) = Len(b) + 1 /\ Len(b) \in Nat
      /\ \A i \in 1 .. Len(b) : Append(b, e)[i] = b[i]
      /\ Append(b, e)[Len(b) + 1] = e
  BY AppendProperties, LenProperties
<1> QED
  BY <1>1 DEF Elements

(* Fewer are left when one of them is taken.                               *)
LEMMA OneFewer ==
  ASSUME NEW S, IsFiniteSet(S), NEW e \in S
  PROVE  /\ Cardinality(S) \in Nat /\ Cardinality(S \ {e}) \in Nat
         /\ Cardinality(S \ {e}) < Cardinality(S)
<1>1. Cardinality(S) \in Nat /\ IsFiniteSet(S \ {e})
  BY FS_CardinalityType, FS_RemoveElement
<1>2. Cardinality(S \ {e}) \in Nat /\ Cardinality(S \ {e}) = Cardinality(S) - 1
  BY <1>1, FS_CardinalityType, FS_RemoveElement
<1> QED
  BY <1>1, <1>2

(* The values of Position and Work.                                        *)
LEMMA Positions ==
  ASSUME NEW l \in Nat
  PROVE  /\ PositionOf("idle", l) = 0              /\ PositionOf("write", l) = 1
         /\ PositionOf("call", l) = 5 * l + 6      /\ PositionOf("exist", l) = 5 * l + 5
         /\ PositionOf("is_directory", l) = 5 * l + 4
         /\ PositionOf("open", l) = 5 * l + 3      /\ PositionOf("opendir", l) = 5 * l + 3
         /\ PositionOf("read", l) = 5 * l + 2      /\ PositionOf("readdir", l) = 5 * l + 2
         /\ PositionOf("stat", l) = 5 * l + 2
  BY DEF PositionOf

LEMMA Works ==
  ASSUME NEW b, NEW h
  PROVE  /\ WorkOf("read", b, h) = Unread(b, h.content)
         /\ WorkOf("readdir", b, h) = 2 * Cardinality(h.may \ Elements(b)) + 1
         /\ WorkOf("stat", b, h) = 2 * Cardinality(h.may \ Elements(b))
         /\ \A p \in Labels \ {"read", "readdir", "stat"} : WorkOf(p, b, h) = 0
  BY DEF WorkOf, Labels

LEMMA OpenedMay ==
  ASSUME NEW c PROVE [NoHandle EXCEPT !.linked = TRUE, !.content = c].may = {}
  BY DEF NoHandle

LEMMA FiniteMayCorrect == Spec => []FiniteMay
<1>1. Init => FiniteMay
  <2>1. NoHandle.may = {}
    BY DEF NoHandle
  <2>2. Init => \A t \in Threads : held[t] = NoHandle
    BY DEF Init
  <2> QED
    BY <2>1, <2>2, FS_EmptySet DEF FiniteMay
<1>2. TypeInv /\ SoundInv /\ FiniteMay /\ [Next]_vars => FiniteMay'
  <2> SUFFICES ASSUME TypeInv, SoundInv, FiniteMay, [Next]_vars, NEW t \in Threads
               PROVE  IsFiniteSet(held'[t].may)
    BY DEF FiniteMay
  <2>0. Shape /\ FileShape /\ node \in Nodes /\ IsFiniteSet(held[t].may)
    BY DEF TypeInv, SoundInv, SharedOK, FiniteMay
  <2>1. \A n \in Nodes : IsFiniteSet(n.entries)
    BY MiddlewareAssumption DEF MiddlewareAssumption
  <2>2. CASE UNCHANGED held
    BY <2>0, <2>2
  <2>3. CASE Change
    <3> DEFINE h == held[t]
    <3>1. PICK n \in Nodes, inPlace \in BOOLEAN :
            held'[t] = IF ~h.linked THEN h
                       ELSE IF ~inPlace THEN [h EXCEPT !.linked = FALSE]
                       ELSE [linked |-> TRUE, content |-> n.content,
                             may |-> h.may \cup n.entries,
                             must |-> h.must \cap n.entries]
      BY <2>3 DEF Change
    <3> HIDE DEF h
    <3>2. held'[t].may = h.may \/ held'[t].may = h.may \cup n.entries
      BY <3>1
    <3> USE DEF h
    <3>3. IsFiniteSet(held[t].may \cup n.entries)
      BY <2>0, <2>1, FS_Union
    <3> QED
      BY <2>0, <3>2, <3>3
  <2>4. ASSUME NEW u \in Threads, ThreadNext(u) PROVE IsFiniteSet(held'[t].may)
    <3>1. CASE u # t
      BY <2>0, <2>4, <3>1, FilesOfOthersStay
    <3>2. CASE u = t
      <4>1. \/ held'[t] = held[t] \/ held'[t] = NoHandle
            \/ held'[t] = [NoHandle EXCEPT !.linked = TRUE, !.content = node.content]
            \/ held'[t] = [NoHandle EXCEPT !.linked = TRUE, !.may = node.entries,
                                           !.must = node.entries]
        BY <2>0, <2>4, <3>2
        DEF FileShape, ThreadNext, CallStep, Env, About, Urlmap, Error404, StaticFile,
            Exist, IsDirectory, OpenFile, ReadBlock, OpenDir, ReadDir, StatEntry,
            EndDir, Respond, Write
      <4>2. held'[t].may \in {held[t].may, {}, node.entries}
        <5> DEFINE h == held[t]
        <5> HIDE DEF h
        <5>1. \/ held'[t] = h \/ held'[t] = NoHandle
              \/ held'[t].may = {} \/ held'[t].may = node.entries
          BY <4>1, HandleFields, OpenedMay DEF h
        <5> QED
          BY <5>1 DEF NoHandle, h
      <4> QED
        BY <2>0, <2>1, <4>2, FS_EmptySet
    <3> QED
      BY <3>1, <3>2
  <2> QED
    BY <2>2, <2>3, <2>4, CallsStay DEF Next, calls
<1> QED
  BY <1>1, <1>2, Typed, SoundCorrect, PTL DEF Spec

(* Both parts of the measure are natural numbers.                          *)
LEMMA Measured ==
  ASSUME TypeInv, SoundInv, FiniteMay, NEW t \in Threads
  PROVE  Position(t) \in Nat /\ Work(t) \in Nat
<1> DEFINE b == buffer[t]
           h == held[t]
<1>1. pc[t] \in Labels /\ level[t] \in Nat /\ IsFiniteSet(h.may) /\ SoundThread(t)
  BY Constants DEF TypeInv, SharedOK, ThreadOK, FiniteMay, SoundInv
<1>2. Position(t) \in Nat
  <2> DEFINE f == 5 * level[t]
  <2>1. f \in Nat
    BY <1>1
  <2>2. PositionOf(pc[t], level[t]) \in {0, 1, f + 2, f + 3, f + 4, f + 5, f + 6}
    BY <1>1, Positions DEF Labels
  <2> HIDE DEF f
  <2>3. {0, 1, f + 2, f + 3, f + 4, f + 5, f + 6} \subseteq Nat
    BY <2>1
  <2> QED
    BY <2>2, <2>3 DEF Position
<1>3. Cardinality(h.may \ Elements(b)) \in Nat
  BY <1>1, FS_Subset, FS_CardinalityType
<1>4. ASSUME pc[t] = "read" PROVE Unread(b, h.content) \in Nat
  BY <1>1, <1>4, LenProperties DEF SoundThread, FileRead, Unread
<1>8. Work(t) = WorkOf(pc[t], b, h)
  BY DEF Work
<1> HIDE DEF b, h
<1> DEFINE k == Cardinality(h.may \ Elements(b))
<1>9. 2 * k \in Nat /\ 2 * k + 1 \in Nat
  BY <1>3
<1> HIDE DEF k
<1>5. CASE pc[t] = "read"
  BY <1>2, <1>4, <1>5, <1>8, Works
<1>6. CASE pc[t] \in {"readdir", "stat"}
  <2>1. WorkOf("readdir", b, h) = 2 * k + 1 /\ WorkOf("stat", b, h) = 2 * k
    BY Works DEF k
  <2> QED
    BY <1>2, <1>6, <1>8, <1>9, <2>1
<1>7. CASE pc[t] \notin {"read", "readdir", "stat"}
  <2>1. pc[t] \in Labels \ {"read", "readdir", "stat"}
    BY <1>1, <1>7
  <2>2. Work(t) = 0
    BY <1>8, <2>1, Works
  <2> QED
    BY <1>2, <2>2
<1> QED
  BY <1>5, <1>6, <1>7

(* One step per action of the call.                                        *)
LEMMA StepAdvances ==
  ASSUME TypeInv, SoundInv, FiniteMay, NEW t \in Threads, CallStep(t), alive'
  PROVE  Advances(t)
<1> DEFINE b == buffer[t]
           h == held[t]
           p == pc[t]
           l == level[t]
           q == pc'[t]
           m == level'[t]
<1>1. /\ Shape /\ FileShape /\ SoundThread(t) /\ IsFiniteSet(h.may)
      /\ l \in Nat /\ p \in Labels
  BY Constants DEF TypeInv, SharedOK, ThreadOK, FiniteMay, SoundInv
<1>2. /\ Position(t) = PositionOf(p, l) /\ Position(t)' = PositionOf(q, m)
      /\ Work(t) = WorkOf(p, b, h) /\ Work(t)' = WorkOf(q, buffer'[t], held'[t])
  BY DEF Position, Work
<1> HIDE DEF b, h, p, l, q, m
<1>3. ASSUME PositionOf(q, m) < PositionOf(p, l) PROVE Advances(t)
  BY <1>2, <1>3 DEF Advances
<1>4. ASSUME PositionOf(q, m) = PositionOf(p, l),
             WorkOf(q, buffer'[t], held'[t]) < WorkOf(p, b, h)
      PROVE  Advances(t)
  BY <1>2, <1>4 DEF Advances
(* A middleware that returns.                                              *)
<1>5. ASSUME l > 0, p \in Inside \cup {"call"}, q = "call", m = l - 1 PROVE Advances(t)
  <2>1. m \in Nat /\ PositionOf(q, m) = 5 * l + 1
    BY <1>1, <1>5, Positions
  <2>2. PositionOf(p, l) \in {5 * l + 2, 5 * l + 3, 5 * l + 4, 5 * l + 5, 5 * l + 6}
    BY <1>1, <1>5, Positions DEF Inside
  <2>3. PositionOf(q, m) < PositionOf(p, l)
    BY <1>1, <2>1, <2>2
  <2> QED
    BY <1>3, <2>3
<1>6. p \in Inside => l > 0
  BY DEF TypeInv, ThreadOK, p, l
<1> USE DEF Shape, FileShape, history, Goto, Return
<1>7. CASE About(t) \/ Urlmap(t) \/ Error404(t)
  <2>1. l > 0 /\ p = "call" /\ q = "call" /\ m = l - 1
    BY <1>1, <1>7 DEF About, Urlmap, Error404, At, l, p, q, m
  <2> QED
    BY <1>5, <2>1
<1>8. CASE StaticFile(t) \/ Exist(t) \/ IsDirectory(t)
  <2>1. p \in {"call", "exist", "is_directory"} /\ l > 0
    BY <1>6, <1>8 DEF StaticFile, At, Exist, IsDirectory, p, l, Inside
  <2>2. \/ q = "call" /\ m = l - 1
        \/ m = l /\ \/ p = "call" /\ q = "exist"
                    \/ p = "exist" /\ q = "is_directory"
                    \/ p = "is_directory" /\ q \in {"open", "opendir"}
    BY <1>1, <1>8 DEF StaticFile, At, Exist, IsDirectory, p, q, l, m
  <2>3. CASE q = "call" /\ m = l - 1
    BY <1>5, <2>1, <2>3 DEF Inside
  <2>4. CASE q # "call"
    <3>1. PositionOf(q, m) < PositionOf(p, l)
      BY <1>1, <2>2, <2>4, Positions
    <3> QED
      BY <1>3, <3>1
  <2> QED
    BY <2>2, <2>3, <2>4
<1>9. CASE OpenFile(t) \/ OpenDir(t)
  <2>1. /\ p \in {"open", "opendir"} /\ l > 0
        /\ \/ q = "call" /\ m = l - 1
           \/ q \in {"read", "readdir"} /\ m = l
    BY <1>1, <1>6, <1>9 DEF OpenFile, OpenDir, p, q, l, m, Inside
  <2>2. CASE q = "call"
    BY <1>5, <2>1, <2>2 DEF Inside
  <2>3. CASE q # "call"
    <3>1. PositionOf(q, m) < PositionOf(p, l)
      BY <1>1, <2>1, <2>3, Positions
    <3> QED
      BY <1>3, <3>1
  <2> QED
    BY <2>2, <2>3
<1>10. CASE ReadBlock(t)
  <2> DEFINE c == h.content
             block == NextOf(b, c)
  <2>1. /\ p = "read" /\ b \in Seq(Bytes) /\ c \in Seq(Bytes)
    BY <1>1, <1>10 DEF ReadBlock, SoundThread, FileRead, p, b, h
  <2>2. IF Last(b, c) THEN q = "call" /\ m = l - 1
        ELSE q = p /\ m = l /\ buffer'[t] = Gathered(b, block) /\ held'[t] = h
    BY <1>1, <1>10 DEF ReadBlock, Last, NextOf, Upto, p, q, l, m, b, h
  <2>3. CASE Last(b, c)
    BY <1>5, <1>6, <2>1, <2>2, <2>3 DEF Inside
  <2>4. CASE ~Last(b, c)
    <3>1. Unread(Gathered(b, block), c) < Unread(b, c)
      BY <2>1, <2>4, FullBlock
    <3>2. WorkOf(p, b, h) = Unread(b, c)
      BY <2>1, Works
    <3>3. WorkOf(q, buffer'[t], held'[t]) = Unread(Gathered(b, block), c)
      BY <2>1, <2>2, <2>4, Works
    <3> QED
      BY <1>4, <2>2, <2>4, <3>1, <3>2, <3>3
  <2> QED
    BY <2>3, <2>4
<1>11. CASE ReadDir(t)
  <2>1. /\ p = "readdir" /\ q = "stat" /\ m = l /\ buffer'[t] = b /\ held'[t] = h
    BY <1>1, <1>11 DEF ReadDir, p, q, l, m, b, h
  <2>2. Cardinality(h.may \ Elements(b)) \in Nat
    BY <1>1, FS_Subset, FS_CardinalityType
  <2> DEFINE k == Cardinality(h.may \ Elements(b))
  <2>a. WorkOf(p, b, h) = 2 * k + 1 /\ WorkOf(q, buffer'[t], held'[t]) = 2 * k
    BY <2>1, Works
  <2> HIDE DEF k
  <2>3. WorkOf(q, buffer'[t], held'[t]) < WorkOf(p, b, h)
    BY <2>2, <2>a DEF k
  <2>4. PositionOf(q, m) = PositionOf(p, l)
    BY <1>1, <2>1, Positions
  <2> QED
    BY <1>4, <2>3, <2>4
<1>12. CASE StatEntry(t)
  <2>1. PICK e : /\ e \in entry[t] /\ buffer'[t] = Append(b, e) /\ q = "readdir"
    BY <1>1, <1>12 DEF StatEntry, q, b
  <2>2. p = "stat" /\ m = l /\ held'[t] = h
    BY <1>12 DEF StatEntry, p, l, m, h
  <2>3. e \in h.may \ Elements(b) /\ ListRead(seen[t], b, h)
    BY <1>1, <2>1, <2>2 DEF SoundThread, Listed, Elements, p, b, h
  <2>4. h.may \ Elements(Append(b, e)) = (h.may \ Elements(b)) \ {e}
    <3>1. seen[t] \subseteq Nodes
      BY DEF TypeInv, ThreadOK
    <3>2. b \in Seq(Entries) /\ e \in Entries
      BY <2>3, <3>1 DEF ListRead, Had, Entries
    <3> QED
      BY <3>2, Appended
  <2> DEFINE rest == h.may \ Elements(b)
  <2>5. IsFiniteSet(rest) /\ e \in rest
    BY <1>1, <2>3, FS_Subset
  <2>6. WorkOf(p, b, h) = 2 * Cardinality(rest)
    BY <2>2, Works
  <2>7. WorkOf(q, buffer'[t], held'[t]) = 2 * Cardinality(rest \ {e}) + 1
    BY <2>1, <2>2, <2>4, Works
  <2> HIDE DEF rest
  <2>8. WorkOf(q, buffer'[t], held'[t]) < WorkOf(p, b, h)
    BY <2>5, <2>6, <2>7, OneFewer
  <2>9. PositionOf(q, m) = PositionOf(p, l)
    BY <1>1, <2>1, <2>2, Positions
  <2> QED
    BY <1>4, <2>8, <2>9
<1>13. CASE EndDir(t)
  <2>1. p = "readdir" /\ q = "call" /\ m = l - 1
    BY <1>1, <1>13 DEF EndDir, p, q, l, m
  <2> QED
    BY <1>5, <1>6, <2>1 DEF Inside
<1>14. CASE Respond(t) \/ Write(t)
  <2>1. m = l /\ \/ p = "call" /\ q = "write"
                 \/ p = "write" /\ q = "idle"
    BY <1>1, <1>14 DEF Respond, Write, p, q, l, m
  <2>2. PositionOf(q, m) < PositionOf(p, l)
    BY <1>1, <2>1, Positions
  <2> QED
    BY <1>3, <2>2
<1> QED
  BY <1>7, <1>8, <1>9, <1>10, <1>11, <1>12, <1>13, <1>14 DEF CallStep

(* Whatever the chain, the files and the threads, a call can only take     *)
(* finitely many steps between two changes of what it reads.               *)
THEOREM CallAdvancesCorrect == Spec => CallAdvances
<1>1. ASSUME TypeInv, SoundInv, FiniteMay, [Next]_vars, NEW t \in Threads,
             pc[t] # "idle", ~CallStep(t)
      PROVE  /\ Position(t)' = Position(t)
             /\ UNCHANGED fs => Work(t)' = Work(t)
  <2>1. /\ UNCHANGED <<pc[t], level[t]>>
        /\ UNCHANGED fs => UNCHANGED <<buffer[t], held[t]>>
    <3>1. CASE Change
      BY <3>1, <1>1 DEF Change, fs, TypeInv, SharedOK
    <3>2. CASE UNCHANGED calls
      BY <3>2 DEF calls
    <3>3. ASSUME NEW u \in Threads, ThreadNext(u)
          PROVE  UNCHANGED <<pc[t], level[t], buffer[t], held[t]>>
      <4>1. u # t
        BY <1>1, <3>3 DEF ThreadNext, Env
      <4> QED
        BY <1>1, <3>3, <4>1, OthersStay, FilesOfOthersStay DEF TypeInv, SoundInv
    <3> QED
      BY <1>1, <3>1, <3>2, <3>3, CallsStay DEF Next
  <2> QED
    BY <2>1 DEF Position, Work
<1>2. TypeInv /\ SoundInv /\ FiniteMay /\ [Next]_vars =>
        \A t \in Threads :
          /\ Position(t) \in Nat /\ Work(t) \in Nat
          /\ CallStep(t) /\ alive' => Advances(t)
          /\ pc[t] # "idle" /\ ~CallStep(t) =>
               /\ Position(t)' = Position(t)
               /\ UNCHANGED fs => Work(t)' = Work(t)
  BY <1>1, Measured, StepAdvances
<1> QED
  BY <1>2, Typed, SoundCorrect, FiniteMayCorrect, PTL DEF Spec, CallAdvances
=============================================================================
