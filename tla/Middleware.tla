---------------------------- MODULE Middleware -----------------------------
(***************************************************************************)
(* How a client thread gets its response: app->call(env) goes down the     *)
(* chain of middlewares (src/protocol/http/middleware.cc) without changing *)
(* anything, env being passed by value, and the response comes back up     *)
(* through each of them, the innermost first: about, urlmap, error_404 and *)
(* static_file, which looks at the file system.  One action is one         *)
(* middleware, or one look of static_file at the file system, which        *)
(* changes at any time.  The middlewares are shared by all threads and     *)
(* keep no state; what the threads share is the table of descriptors, in   *)
(* which connections have their share: each call comes of one, and closes  *)
(* it in the end.  That connection is the call's own: see Server for what  *)
(* a race of the hand-off record makes of that.                            *)
(***************************************************************************)
EXTENDS Integers, Sequences, FiniteSets

CONSTANTS
  Threads,    (* client threads, each serving one request after another    *)
  Chains,     (* the chains the program may have built, outermost first;   *)
              (* <<>> is run(NULL)                                         *)
  Garbage,    (* what the uninitialised code of a response may be          *)
  Nodes,      (* what the requested path may name: [kind, readable,        *)
              (* content, entries]                                         *)
  Dangling,   (* entries of a directory whose target does not exist        *)
  Block,      (* HANDLER_STATIC_FILE_BUFFER_SIZE                           *)
  MaxFds,     (* descriptors there are for connections, files and listings *)
  MaxChanges  (* bound on the changes of the file system                   *)

OK == 200
Not_Found == 404

(* The bytes of the files there may be.                                    *)
Bytes == UNION {{n.content[i] : i \in DOMAIN n.content} : n \in Nodes}

ASSUME MiddlewareAssumption ==
  /\ \A app \in Chains : app \in Seq({"static_file", "error_404", "urlmap", "about"})
  /\ IsFiniteSet(Threads)
  /\ Garbage \subseteq Int
  /\ \A n \in Nodes : /\ n.kind \in {"none", "file", "directory"}
                      /\ n.readable \in BOOLEAN
                      /\ n.content \in Seq(Bytes)
                      /\ n.kind # "file" => n.content = <<>>
                      /\ n.kind # "directory" => n.entries = {}
                      /\ IsFiniteSet(n.entries)
  /\ Block \in Nat \ {0} /\ MaxFds \in Nat /\ MaxChanges \in Nat

VARIABLES
  app,            (* the chain                                             *)
  allow_explore_, (* of the static_file in it                              *)
  alive,          (* the process has not crashed                           *)
  node,           (* what the path names now                               *)
  changes,        (* how often that has changed                            *)
  waiting,        (* connections accepted that are in no call: somebody    *)
                  (* reads their requests, or has given up on them         *)
  dirs,           (* DIR streams open: descriptors listings have taken     *)
  pc,             (* what the thread does next                             *)
  asks,           (* asks[t].mapped: urlmap finds about for the URI;       *)
                  (* asks[t].refused: the file name is empty or has ".."   *)
  level,          (* how many middlewares have still to return             *)
  response,       (* the response on its way up: [code, type, pragma, of,  *)
                  (* data]; `of' names the branch that made the body       *)
  buffer,         (* the file's bytes, or the directory's entries, so far  *)
  entry,          (* the entry readdir() gave last                         *)
  held,           (* the file or directory open: [linked, content, may,    *)
                  (* must], linked while the path still names it           *)
  garbage,        (* history: the code the response was constructed with   *)
  seen,           (* history: what the path has named during the call      *)
  denied,         (* history: an open failed for want of a descriptor      *)
  listings        (* history: how many listings opened their directory     *)

fs == <<node, changes>>
history == <<garbage, seen>>
vars == <<app, allow_explore_, alive, fs, waiting, dirs, pc, asks, level, response,
          buffer, entry, held, history, denied, listings>>

-----------------------------------------------------------------------------
(* What the constructor of response leaves, but for the code.              *)
Constructed(code) ==
  [code |-> code, type |-> "", pragma |-> FALSE, of |-> "nobody", data |-> <<>>]

(* Both replace a body set below; only about leaves a Pragma set below.    *)
NotFoundPage ==
  [code |-> Not_Found, type |-> "text/html", pragma |-> TRUE, of |-> "not_found",
   data |-> <<>>]

AboutPage(r) ==
  [code |-> OK, type |-> "text/plain", pragma |-> r.pragma, of |-> "about",
   data |-> <<>>]

(* response.body(data) in static_file, the rest having been set before.    *)
Body(r, of, data) ==
  [code |-> r.code, type |-> r.type, pragma |-> r.pragma, of |-> of, data |-> data]

NoHandle == [linked |-> FALSE, content |-> <<>>, may |-> {}, must |-> {}]

(* A call has its connection's descriptor, and a reader the file's.        *)
Busy == {t \in Threads : pc[t] # "idle"}
Readers == {t \in Threads : pc[t] = "read"}
FreeFds == MaxFds - waiting - dirs - Cardinality(Busy) - Cardinality(Readers)

(* The thread has the response of the middlewares below m.                 *)
At(t, m) ==
  /\ alive
  /\ pc[t] = "call"
  /\ level[t] > 0
  /\ app[level[t]] = m

(* Middleware number level[t] returns r to the one above it.               *)
Return(t, r) ==
  /\ response' = [response EXCEPT ![t] = r]
  /\ level' = [level EXCEPT ![t] = @ - 1]
  /\ pc' = [pc EXCEPT ![t] = "call"]

Goto(t, label) == pc' = [pc EXCEPT ![t] = label]

Init ==
  /\ app \in Chains
  /\ allow_explore_ \in BOOLEAN
  /\ alive = TRUE
  /\ node \in Nodes
  /\ changes = 0
  /\ waiting = 0
  /\ dirs = 0
  /\ pc = [t \in Threads |-> "idle"]
  /\ asks = [t \in Threads |-> [mapped |-> FALSE, refused |-> FALSE]]
  /\ level = [t \in Threads |-> 0]
  /\ response = [t \in Threads |-> Constructed(0)]
  /\ buffer = [t \in Threads |-> <<>>]
  /\ entry = [t \in Threads |-> {}]
  /\ held = [t \in Threads |-> NoHandle]
  /\ garbage = [t \in Threads |-> 0]
  /\ seen = [t \in Threads |-> {}]
  /\ denied = [t \in Threads |-> FALSE]
  /\ listings = 0

-----------------------------------------------------------------------------
(* accept() has given a connection a descriptor (what it does when there   *)
(* is none is in Server).                                                  *)
Accept ==
  /\ alive
  /\ FreeFds > 0
  /\ waiting' = waiting + 1
  /\ UNCHANGED <<app, allow_explore_, alive, fs, dirs, pc, asks, level, response,
                 buffer, entry, held, history, denied, listings>>

(* Its request has been read.  env(request): the response is constructed;  *)
(* the innermost middleware gets it as it is, its app_ being NULL.         *)
Env(t) ==
  /\ alive
  /\ pc[t] = "idle"
  /\ waiting > 0
  /\ waiting' = waiting - 1
  /\ \E code \in Garbage, mapped, refused \in BOOLEAN :
       /\ asks' = [asks EXCEPT ![t] = [mapped |-> mapped, refused |-> refused]]
       /\ response' = [response EXCEPT ![t] = Constructed(code)]
       /\ garbage' = [garbage EXCEPT ![t] = code]
  /\ level' = [level EXCEPT ![t] = Len(app)]
  /\ seen' = [seen EXCEPT ![t] = {node}]
  /\ denied' = [denied EXCEPT ![t] = FALSE]
  /\ Goto(t, "call")
  /\ UNCHANGED <<app, allow_explore_, alive, fs, dirs, buffer, entry, held, listings>>

About(t) ==
  /\ At(t, "about")
  /\ Return(t, AboutPage(response[t]))
  /\ UNCHANGED <<app, allow_explore_, alive, fs, waiting, dirs, asks, buffer, entry, held,
                 history, denied, listings>>

(* The application found, or else env.response.                            *)
Urlmap(t) ==
  /\ At(t, "urlmap")
  /\ Return(t, IF asks[t].mapped THEN AboutPage(response[t]) ELSE response[t])
  /\ UNCHANGED <<app, allow_explore_, alive, fs, waiting, dirs, asks, buffer, entry, held,
                 history, denied, listings>>

Error404(t) ==
  /\ At(t, "error_404")
  /\ Return(t, IF response[t].code = 0 THEN NotFoundPage
               ELSE response[t])
  /\ UNCHANGED <<app, allow_explore_, alive, fs, waiting, dirs, asks, buffer, entry, held,
                 history, denied, listings>>

-----------------------------------------------------------------------------
(* static_file::call(): it only looks for a file when nobody has answered. *)
StaticFile(t) ==
  /\ At(t, "static_file")
  /\ IF response[t].code \in {0, Not_Found}
     THEN Goto(t, "exist") /\ UNCHANGED <<response, level>>
     ELSE Return(t, response[t])
  /\ UNCHANGED <<app, allow_explore_, alive, fs, waiting, dirs, asks, buffer, entry, held,
                 history, denied, listings>>

(* Faulty variant: access() asks for permission to read.                   *)
ExistsReadable(t) == ~asks[t].refused /\ node.kind # "none" /\ node.readable

(* exist(): an empty name and one with ".." never do; access(name, 0) asks *)
(* no permission.                                                          *)
Exists(t) == ~asks[t].refused /\ node.kind # "none"

Exist(t) ==
  /\ alive
  /\ pc[t] = "exist"
  /\ IF Exists(t) THEN Goto(t, "is_directory") /\ UNCHANGED <<response, level>>
     ELSE Return(t, response[t])
  /\ UNCHANGED <<app, allow_explore_, alive, fs, waiting, dirs, asks, buffer, entry, held,
                 history, denied, listings>>

(* What is set before the body is fetched; a Pragma set below remains.     *)
Found(r, type) ==
  [code |-> OK, type |-> type, pragma |-> r.pragma, of |-> r.of, data |-> r.data]

(* is_directory() calls stat() and then access(), and is true if both find *)
(* the path and stat() a directory.  Whatever changes in between, the      *)
(* outcome is the one of both at the time of one of them.                  *)
IsDirectory(t) ==
  /\ alive
  /\ pc[t] = "is_directory"
  /\ \/ /\ node.kind = "directory" /\ allow_explore_
        /\ response' = [response EXCEPT ![t] = Found(@, "text/html")]
        /\ Goto(t, "opendir")
        /\ UNCHANGED level
     \/ /\ node.kind = "directory" /\ ~allow_explore_
        /\ Return(t, response[t])
     \/ /\ node.kind # "directory"
        /\ response' = [response EXCEPT ![t] = Found(@, "mime")]
        /\ Goto(t, "open")
        /\ UNCHANGED level
  /\ UNCHANGED <<app, allow_explore_, alive, fs, waiting, dirs, asks, buffer, entry, held,
                 history, denied, listings>>

(* The ifstream of get_file_content().  It opens a directory, but reads    *)
(* nothing from it; when it cannot be opened nothing is read either.       *)
OpenFile(t) ==
  /\ alive
  /\ pc[t] = "open"
  /\ IF node.kind = "none" \/ ~node.readable \/ FreeFds = 0
     THEN /\ Return(t, Body(response[t], "file", <<>>))
          /\ UNCHANGED <<buffer, held>>
     ELSE /\ Goto(t, "read")
          /\ buffer' = [buffer EXCEPT ![t] = <<>>]
          /\ held' = [held EXCEPT ![t] = [NoHandle EXCEPT !.linked = TRUE,
                                                          !.content = node.content]]
          /\ UNCHANGED <<response, level>>
  /\ denied' = [denied EXCEPT ![t] = FreeFds = 0]
  /\ UNCHANGED <<app, allow_explore_, alive, fs, waiting, dirs, asks, entry, history,
                 listings>>

(* Faulty variant: a short block ends the loop before it is inserted.      *)
GatheredBeforeEnd(b, block) == IF Len(block) < Block THEN b ELSE b \o block

(* Faulty variant: a full block is not kept, and is read again.            *)
GatheredAgain(b, block) == IF Len(block) = Block THEN b ELSE b \o block

(* buffer.insert() of a block                                              *)
Gathered(b, block) == b \o block

(* One round of the loop: the file position is how much has been read.     *)
ReadBlock(t) ==
  LET content == held[t].content
      from    == Len(buffer[t])
      upto    == IF from + Block < Len(content) THEN from + Block ELSE Len(content)
      block   == SubSeq(content, from + 1, upto)
      bytes   == Gathered(buffer[t], block)
  IN /\ alive
     /\ pc[t] = "read"
     /\ IF Len(block) < Block
        THEN /\ Return(t, Body(response[t], "file", bytes))
             /\ buffer' = [buffer EXCEPT ![t] = <<>>]
             /\ held' = [held EXCEPT ![t] = NoHandle]
        ELSE /\ buffer' = [buffer EXCEPT ![t] = bytes]
             /\ UNCHANGED <<pc, held, response, level>>
     /\ UNCHANGED <<app, allow_explore_, alive, fs, waiting, dirs, asks, entry, history,
                    denied, listings>>

-----------------------------------------------------------------------------
(* Faulty variant: the result of opendir() is not checked against the      *)
(* table of descriptors.                                                   *)
OpensDirAlways == node.kind = "directory" /\ node.readable

(* opendir() succeeds                                                      *)
OpensDir == node.kind = "directory" /\ node.readable /\ FreeFds > 0

(* get_directory_content() up to the loop: "" if opendir() fails.          *)
OpenDir(t) ==
  /\ alive
  /\ pc[t] = "opendir"
  /\ IF OpensDir
     THEN /\ Goto(t, "readdir")
          /\ dirs' = dirs + 1
          /\ listings' = listings + 1
          /\ buffer' = [buffer EXCEPT ![t] = <<>>]
          /\ held' = [held EXCEPT ![t] = [NoHandle EXCEPT !.linked = TRUE,
                                !.may = node.entries, !.must = node.entries]]
          /\ UNCHANGED <<response, level>>
     ELSE /\ Return(t, Body(response[t], "listing", <<>>))
          /\ UNCHANGED <<dirs, listings, buffer, held>>
  /\ denied' = [denied EXCEPT ![t] = FreeFds = 0]
  /\ UNCHANGED <<app, allow_explore_, alive, fs, waiting, asks, entry, history>>

Listed(t) == {buffer[t][i] : i \in 1 .. Len(buffer[t])}

(* readdir() gives each entry once: one there since opendir() for sure,    *)
(* one that has come or gone since perhaps.                                *)
ReadDir(t) ==
  /\ alive
  /\ pc[t] = "readdir"
  /\ \E e \in held[t].may \ Listed(t) : entry' = [entry EXCEPT ![t] = {e}]
  /\ Goto(t, "stat")
  /\ UNCHANGED <<app, allow_explore_, alive, fs, waiting, dirs, asks, level, response,
                 buffer, held, history, denied, listings>>

(* Faulty variant: stat() of the bare name, not of its path.               *)
StatFindsBare(e) == FALSE

(* stat() of sys_file, which goes by the path and not by the DIR stream    *)
StatFinds(e) ==
  node.kind = "directory" /\ e \in node.entries \ Dangling

(* A failed stat() leaves `status' uninitialised: gmtime() gets a time     *)
(* that it may find no year for, and strftime() then its null pointer.     *)
StatEntry(t) ==
  /\ alive
  /\ pc[t] = "stat"
  /\ \E e \in entry[t] :
       \/ /\ buffer' = [buffer EXCEPT ![t] = Append(@, e)]
          /\ Goto(t, "readdir")
          /\ entry' = [entry EXCEPT ![t] = {}]
          /\ UNCHANGED alive
       \/ /\ ~StatFinds(e)
          /\ alive' = FALSE
          /\ UNCHANGED <<buffer, pc, entry>>
  /\ UNCHANGED <<app, allow_explore_, fs, waiting, dirs, asks, level, response, held,
                 history, denied, listings>>

(* Faulty variant: the stream is closed, as closedir() would.              *)
LeftOpenClosed(n) == n - 1

(* How many of n streams stay open when a listing ends.                    *)
LeftOpen(n) == n

(* Faulty variant: the listing ends with the first entry.                  *)
ListedOne(t) == held[t].must = {} \/ Listed(t) # {}

(* readdir() may give NULL.                                                *)
ListedAll(t) == held[t].must \subseteq Listed(t)

(* The function returns without closedir(): nobody reads the stream any    *)
(* more, and its descriptor is gone.                                       *)
EndDir(t) ==
  /\ alive
  /\ pc[t] = "readdir"
  /\ ListedAll(t)
  /\ Return(t, Body(response[t], "listing", buffer[t]))
  /\ dirs' = LeftOpen(dirs)
  /\ buffer' = [buffer EXCEPT ![t] = <<>>]
  /\ held' = [held EXCEPT ![t] = NoHandle]
  /\ UNCHANGED <<app, allow_explore_, alive, fs, waiting, asks, entry, history, denied,
                 listings>>

-----------------------------------------------------------------------------
(* Faulty variant: an application is trusted to have answered.             *)
Internal404NoApp(r) == app = <<>>

(* internal_404 in client_thread()                                         *)
Internal404(r) == app = <<>> \/ r.code = 0

(* client_thread() has the response: the last chance for a page.           *)
Respond(t) ==
  /\ alive
  /\ pc[t] = "call"
  /\ level[t] = 0
  /\ response' = [response EXCEPT ![t] = IF Internal404(@) THEN NotFoundPage ELSE @]
  /\ Goto(t, "write")
  /\ UNCHANGED <<app, allow_explore_, alive, fs, waiting, dirs, asks, level, buffer, entry,
                 held, history, denied, listings>>

(* response.write(), in one piece; then close(c_socket) gives the          *)
(* descriptor back, and the thread ends, with its locals.                  *)
Write(t) ==
  /\ alive
  /\ pc[t] = "write"
  /\ Goto(t, "idle")
  /\ asks' = [asks EXCEPT ![t] = [mapped |-> FALSE, refused |-> FALSE]]
  /\ response' = [response EXCEPT ![t] = Constructed(0)]
  /\ garbage' = [garbage EXCEPT ![t] = 0]
  /\ seen' = [seen EXCEPT ![t] = {}]
  /\ denied' = [denied EXCEPT ![t] = FALSE]
  /\ UNCHANGED <<app, allow_explore_, alive, fs, waiting, dirs, level, buffer, entry, held,
                 listings>>

CallStep(t) ==
  \/ About(t) \/ Urlmap(t) \/ Error404(t)
  \/ StaticFile(t) \/ Exist(t) \/ IsDirectory(t)
  \/ OpenFile(t) \/ ReadBlock(t)
  \/ OpenDir(t) \/ ReadDir(t) \/ StatEntry(t) \/ EndDir(t)
  \/ Respond(t) \/ Write(t)

(* Somebody changes what the path names: in place (bytes are overwritten,  *)
(* entries come and go, permissions change), which whoever holds it open   *)
(* sees, or by another file or directory, which he does not.               *)
Change ==
  /\ alive
  /\ changes < MaxChanges
  /\ changes' = changes + 1
  /\ \E n \in Nodes \ {node}, inPlace \in BOOLEAN :
       /\ inPlace => n.kind = node.kind /\ n.kind # "none"
       /\ node' = n
       /\ held' = [t \in Threads |->
            IF ~held[t].linked THEN held[t]
            ELSE IF ~inPlace THEN [held[t] EXCEPT !.linked = FALSE]
            ELSE [linked |-> TRUE, content |-> n.content,
                  may |-> held[t].may \cup n.entries,
                  must |-> held[t].must \cap n.entries]]
       /\ seen' = [t \in Threads |-> IF pc[t] = "idle" THEN {} ELSE seen[t] \cup {n}]
  /\ UNCHANGED <<app, allow_explore_, alive, waiting, dirs, pc, asks, level, response,
                 buffer, entry, garbage, denied, listings>>

ThreadNext(t) == Env(t) \/ CallStep(t)

Next == Change \/ Accept \/ \E t \in Threads : ThreadNext(t)

Spec == Init /\ [][Next]_vars

(* The system runs every thread; nobody need ask for anything.             *)
FairSpec == Spec /\ \A t \in Threads : WF_vars(CallStep(t))

-----------------------------------------------------------------------------
(* The variables have their types and no more descriptors are in use than  *)
(* there are.                                                              *)
TypeOK ==
  /\ app \in Chains
  /\ {allow_explore_, alive} \subseteq BOOLEAN
  /\ node \in Nodes
  /\ changes \in 0 .. MaxChanges
  /\ listings \in 0 .. MaxFds
  /\ waiting + dirs + Cardinality(Busy) + Cardinality(Readers) \in 0 .. MaxFds
  /\ \A t \in Threads :
       /\ pc[t] \in {"idle", "call", "exist", "is_directory", "open", "read",
                     "opendir", "readdir", "stat", "write"}
       /\ level[t] \in 0 .. Len(app)
       /\ pc[t] = "stat" <=> Cardinality(entry[t]) = 1
       /\ seen[t] \subseteq Nodes
       /\ response[t].code \in Garbage \cup {0, OK, Not_Found}

Sent(t) == IF pc[t] = "write" THEN {response[t]} ELSE {}

(* The calls implement Reply (middleware.cc:17-23, server.cc:194-212): by  *)
(* whatever way a response has come up the chain, and whatever became of   *)
(* the path meanwhile, it is the one the request was to get, and the only  *)
(* one.                                                                    *)
Call == INSTANCE Reply WITH
  explore <- allow_explore_, up <- alive, path <- node, code <- garbage,
  busy   <- [t \in Threads |-> pc[t] # "idle"],
  answer <- [t \in Threads |-> Sent(t)]

ImplementsReply == Call!Spec

(* The page "The requested URL was not found on this server" is the truth: *)
(* with a static_file in the chain, there was a moment during the call     *)
(* when the path named nothing, or it names what is never served: a path   *)
(* with ".." (static_file.cc:93), a directory that may not be explored.    *)
NotFoundTrue ==
  \A t \in Threads : \A r \in Sent(t) :
    r.of = "not_found" /\ (\E i \in 1 .. Len(app) : app[i] = "static_file") =>
      \/ asks[t].refused
      \/ \E n \in seen[t] : \/ n.kind = "none"
                            \/ n.kind = "directory" /\ ~allow_explore_

(* A file's body is made of bytes the file had, each at its place, however *)
(* it was replaced or overwritten between access(), stat(), open() and the *)
(* reads (static_file.cc:56-66, 126-152); a file left alone is sent whole, *)
(* its last block included, unless it cannot be opened.                    *)
FileTrue ==
  \A t \in Threads : \A r \in Sent(t) : r.of = "file" =>
    /\ \A i \in 1 .. Len(r.data) : \E n \in seen[t] :
         i \in 1 .. Len(n.content) /\ n.content[i] = r.data[i]
    /\ \A n \in seen[t] :
         seen[t] = {n} /\ n.readable /\ ~denied[t] => r.data = n.content

(* A listing names only entries the directory has had during the call,     *)
(* none twice, and every entry that was there from first to last           *)
(* (static_file.cc:221-241), unless opendir() failed.                      *)
ListingTrue ==
  \A t \in Threads : \A r \in Sent(t) : r.of = "listing" =>
    LET names == {r.data[i] : i \in 1 .. Len(r.data)}
    IN /\ Cardinality(names) = Len(r.data)
       /\ \A e \in names : \E n \in seen[t] : e \in n.entries
       /\ (\A n \in seen[t] : n.kind = "directory" /\ n.readable) /\ ~denied[t] =>
            \A n \in seen[t] : \A e \in n.entries :
              (\A o \in seen[t] : e \in o.entries) => e \in names

(* The process only crashes in strftime() (static_file.cc:228-231) on an   *)
(* entry that is a dangling link, or that has vanished during the call.    *)
CrashCause ==
  ~alive => \E t \in Threads : \E e \in entry[t] :
              e \in Dangling \/ \E n \in seen[t] : e \notin n.entries

(* No DIR stream is closed (static_file.cc:215-244): once there have been  *)
(* listings for all descriptors but one, each connection that comes has    *)
(* that one, to give it back in the end (server.cc:216), and no file or    *)
(* directory is opened again: static_file answers 200 for it with nothing. *)
Drained ==
  [][listings >= MaxFds - 1 =>
       \A t \in Threads : pc[t] \in {"open", "opendir"} /\ pc'[t] # pc[t] =>
         /\ pc'[t] = "call"
         /\ response'[t].code = OK /\ response'[t].data = <<>>]_vars

(* Every call comes back, whatever becomes of the path meanwhile, or the   *)
(* process crashes (static_file.cc:130-150, 221-241): provided the file    *)
(* system comes to rest, as MaxChanges has it, since a file that grows as  *)
(* fast as it is read would be read for ever.                              *)
CallEnds == \A t \in Threads : pc[t] # "idle" ~> (pc[t] = "idle" \/ ~alive)

=============================================================================
