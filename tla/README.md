# A TLA+ verification of lhs

lhs is a small HTTP server: one process, one listening socket, one POSIX thread per
connection, and a chain of *middlewares* that turns a request into a response. These
modules model what it does, state what it should guarantee, check that on small
instances with TLC and prove the main safety properties with TLAPS.

Paths below are those of the repository (`src/server.cc` is the engine).

## Inventory

| part | state | operations | hard behaviours |
|---|---|---|---|
| engine, `src/server.cc`, `include/server.h` | `socket_`, the stack record `data` of `run()`, per thread `c_socket`, `client`, `buffer`; the kernel's queue, descriptors and streams | `init`, `run` (accept, fill `data`, create a thread), `client_thread` (copy `data`, read loop, parse, call the application, write, close), `quit` | `data` is shared with threads that nothing waits for; threads are never joined; short reads; errors that are ignored or skip `close()`; one exception ends the process |
| program, `bin/lhs-server.cc` | globals `server`, `app`, the installed handlers | build the chain, `run`, `quit`, `delete app`; `terminate` on a signal | a signal on top of any step of any thread; two clean-ups at once; a handler that allocates |
| request parser, `src/protocol/http/request.cc` | queue of lines, `nbchar`, headers, parameters, body | `parse`, `parse_init`, `parse_params` | input cut anywhere; `\r\n`; missing separators; an empty queue |
| response and env, `response.cc`, `env.cc` | `code`, `version`, headers, body | constructors, `operator[]`, `body`, `write` | `code` is not initialised; what middlewares leave in the headers; one `write`, its failure ignored |
| middleware chain, `middleware.cc`, `error_404.cc` | `app_` | `call`, `get_response`, destructor | everybody tests `code == 0`; ownership of the next middleware |
| static files, `static_file.cc` | `allow_explore_`, `root_` | `call`, look-ups, file and directory reading | the file system changes between `access`, `stat` and `open` |
| url map, `urlmap.cc` | `mapping_` | `remap`, `find_app` | sort after each insertion, first match wins, hosts ignored |
| headers, `header.cc` | a map to `any` | `operator[]`, `to_string` | a look-up inserts; a cast throws |
| names and codes, `http.cc`, `http.h` | three pairs of maps, filled before `main()` | look-ups with a default: `find`, then `operator[]` | the maps are shared by all threads, and `operator[]` writes when a key is missing |

How they interact: the main thread hands each connection to a new thread through
`data`; the thread builds a `request` from what it read, an `env` from the request,
calls `app->call(env)` (the chain static_file, error_404, urlmap, about in the bundled
program), writes the response and closes. A signal handler may run on top of any of this. Threads share
the descriptor table, the middlewares, the tables of names, the allocator and the process
itself; nothing of the program's own is locked.

What makes each part correct:

* engine: a response is computed from the bytes of the connection it is written to;
  no connection is answered twice or closed in silence; a connection whose stream
  ends is dealt with; a descriptor is not lost, or only for a known reason.
* parser: the body is the payload, later headers and parameters replace earlier ones,
  and a request whose head was read is accepted.
* chain and static files: the code and headers sent belong to the branch that
  produced the body, whatever the file system does meanwhile.
* url map: the longest location that matches answers.
* response and headers: what is sent is what was last assigned, the length is that of the
  body, and nothing throws but for a header left without a string.
* names: look-ups never write, and answer each other.
* lifecycle: a clean-up destroys each object it owns once and closes its own socket, and the program
  ends leaving nothing but the application the url map points to, which nobody owns.

## Modules

| module | what it is |
|---|---|
| `Service` | abstract specification: what a client of the server may rely on |
| `Server` | the engine with its clients and the end of the process |
| `ServerProperties` | type invariant, safety, action and liveness properties, the inductive invariant, the refinement mapping to `Service` |
| `ServerProofs` | proofs: the invariants, and that `Server` implements `Service` |
| `MCServer` | request lengths, symmetry and the state constraint for TLC |
| `Middleware` | the chain of middlewares and the files and directories it serves, with its properties |
| `Reply` | abstract specification: what one call of the application answers |
| `MiddlewareProofs` | proofs: what a call answers, and that `Middleware` implements `Reply` |
| `MCMiddleware` | chains and paths for TLC |
| `Request` | the parser, with its properties |
| `RequestProofs`, `MCRequest` | proofs; texts and inputs for TLC |
| `Response` | a response from its construction to `write()`, and the headers in it |
| `ResponseProofs`, `MCResponse` | proofs; names and bodies for TLC |
| `Urlmap` | the url map, with its properties |
| `UrlmapProofs`, `MCUrlmap` | proofs; maps and URIs for TLC |
| `Names` | the tables of names and codes, looked up by several threads |
| `NamesProofs` | proofs |
| `Lifecycle` | `main()`, `terminate()`, and the chain they build and destroy |
| `LifecycleProofs`, `MCLifecycle` | proofs; the signals for TLC |
| `Sums`, `SumTheorems` | sums over a sequence of numbers, and what holds of them |

Operators and actions whose comment starts with "Faulty variant" are not part of any
specification. Each is a plausible mistake in the definition that follows it, and is
there so that one can see the properties fail when it takes its place.

### Server

One action is one step that other threads can come between.

* Main thread, `mpc`: `ServerInit`/`InitFails`; then `AcceptConnection`,
  `FillConnection` (`data.connection = sockfd`), `FillClient`
  (`data.client = getpeer(client_)`), `CreateThread` in a loop. `AcceptFails` throws
  out of `run()`; `main()` then goes through `Quit`, `DeleteApp`, `MainReturns`, and
  its return ends the process with every thread in it. `CreateFails` is the ignored
  error of `pthread_create()`: threads are never joined or detached, so each one ever
  created keeps counting. `data.server` and `data.app` never change and are left out.
* Client thread, `pc[t]`: `CopyConnection`, `CopyClient` read the shared record;
  `ReadSome`, `ReadEof`, `ReadError` are the three outcomes of `read()`; then `Parse`,
  `CallApp`, `Write`, `Close`. `ReadError` ends the thread without `close()`.
* Environment: `ClientConnect`, `ClientSend` (a segment of any length),
  `ClientShutdown`, `ClientReset`.

The record `data` is one pair of variables. A thread that copies it late finds what
the loop has written since; when `run()` has returned it finds any value
(`InRun`). `raced` is a history variable: it becomes TRUE when a field is
rewritten, or the frame left, while a thread has still to copy the field. The code
reads it nowhere; it only lets the properties say "until then".

Bytes are pairs of a connection and a position, so that a byte in a wrong
buffer, twice or out of order can be told. A buffer is a set of them and a response is the
connection it went to (`dest`). The uninitialised `max_size` of `accept()` may cut the
address short (`client_` is then `None`) or make the call fail.
`Parse` leaves to `Request` how a request is parsed: a whole, well-formed one is accepted
(`HeadSuffices` there), a malformed one ends the process, one that was cut does either.
`CallApp` may end the process if the application throws or has been deleted. It may also take a
descriptor for good (`streams`): a connection in `Lists` may ask for a directory, whose DIR stream
`static_file` never closes. This is where `Server` and `Middleware` meet: sockets and listings
exhaust one table, and `close()` on a stale number may close a stream. What the call answers
does not matter to the engine and is left to `Middleware`.

Not in it: what signal handlers do (`Lifecycle`); the Windows branches; a response larger than the socket's send buffer (the
single `write()` is whole or fails); a `read()` that blocks on a descriptor another
thread then closes (it fails at once here, and needs a race). `accept()` may take any
queued connection, the order of the queue being of no consequence to the properties.

### Request

`parse()` step by step over a queue of lines. A line is an opaque text plus whether
`\r` preceded its `\n`; constants say how long a text is and where it divides. One action
is one round of a loop or one step of the function. `cut` says that the bytes stop before the
last `\n`. `front()` of an empty queue is undefined: `FrontOfNothing` ends the program
or finds an empty string (in memory that happens to be zero). `line[line.size() - 1]` on an empty
line reads the byte before the characters, which is the top byte of a length in every
string layout in use, and so no `\r`; it is modelled as such. How method and version
names map to codes is in `Names`. What was read (`Raw`, `RawSize`) counts every byte; what
`parse()` counts is `Counted`; the properties compare the two.

### Response

The middlewares a response passes may look a header up (`LookUp`, which inserts an empty value),
assign a string or a number to it (`Assign`) or replace the body (`SetBody`), in any order; `Write`
sets Server, Date and Content-Length and converts every header to a string, which throws for an
empty value and for a number. `ops` is a history of what was done, which the code does not
keep: the properties say what is sent in terms of it, the actions look only at its length, for the bound `MaxOps`. Two names that
differ in case are two headers, as in the map (`Lower` serves the properties only). The status line and the values
of Date and Server are left out; the socket's side of `write()` is in `Server`.

### Middleware

`env` goes down the chain by value and unchanged, so the model starts where the
innermost middleware gets `env.response` and follows the response up: `level[t]`
middlewares have still to return, and `About`, `Urlmap`, `Error404` and `StaticFile` are
what each does on its way. The last step is the thread's own test for 0 (`Respond`).
`code` is whatever the constructor found (`Env` picks it from `Garbage`).
Once `StaticFile` looks at the file system, each system call is a step: `Exist`,
`IsDirectory`, `OpenFile`, `ReadBlock`, `OpenDir`, `ReadDir`, `StatEntry`. `Change`, which
may come between any two, overwrites what the path names in place, so that whoever has
it open sees the change, or puts something else there, so that he does not.

All threads ask for one path. A file is a sequence of bytes, each a version and a position,
so that a torn or misplaced one can be told; a directory is a set of entries.
`readdir()` gives entries that were there all along for sure and the others perhaps,
as POSIX says. A failed `stat()` leaves the status uninitialised: the row gets some
date or `strftime()` gets a null pointer and the process dies. The DIR stream is
never closed: `dirs` only grows. Descriptors are `MaxFds` in number and shared with the connections: `Accept` takes one
(`waiting`) as long as one is free, `Env` makes the connection the call's own, and `Write`, which stands for `close(c_socket)`
as well, gives it back: a file that could not be opened may be opened again when a connection ends, unless listings have left only
one descriptor, which each connection needs for itself. A connection in `waiting` may stay there for good, as those do that `Server` calls orphans; that
`accept()` fails when there is no descriptor, and what a race of the hand-off record makes of whose
connection is whose, is in `Server` too: here each call has its own. `open`
and `readdir` failing for other reasons than those of the model (`EIO`, `ENOMEM`) look like
the ones in it. `garbage`, `seen`, `denied` and `listings` (how many have opened their directory) are history variables the code does not read.

Left out: the rows' icons, dates and sizes, MIME names, headers nothing reads again, and the
throw in `get_file_content()`, whose condition (`gcount() < 0`) is never met.

### Urlmap

`Remap` is one round of the loop of `remap()`, the sort included; `Skip`, `Find`,
`FindNone` are rounds of `find_app()`. `std::sort` may leave ties in any
order. The regular expressions are modelled by what they match. `Mapping` is the one that splits
off a host. `Matches` says that a location, each of its slashes standing for one or more, matches a URI
from the left: there is a way to cut the URI into what matches each character. The properties say the
same in another way, with `Squeezed`, the URI with its runs of slashes made one. A scheme
anywhere but at the start of a key is left out.

### Names

`Rows` are the tables of `http.h`, row for row, in both directions (`CreateMap`). A look-up
is a call, `find()`, `operator[]` and a return, so that those of two threads interleave; `Index` inserts
a missing key as `operator[]` does, and `OnlyRead` says that this never happens: the reason why the
maps need no lock.

### Lifecycle

Each thread has a stack of frames: the code it runs and the handlers on top of it. `Signal` pushes
a frame on any running thread, in front of any step; a handler never returns, so that what it
has interrupted stays where it was, with the allocator's lock if it held it. `main()` is `Install`,
`ServerInit`, `New` four times, for `about` and the three middlewares, each of these followed by `Assign`, `Accept`, and the clean-up, `Quit`, `Free` per object
and `Exit`, which is the code of `terminate()` too and the same actions. `left` is what a `delete app`
has still to destroy; `about` is never in it, since the url map's destructor deletes nothing (`urlmap.cc:12-13`). Of descriptors only the number in `socket_` is kept: whose it is (`number`) and which
client threads believe it theirs (`holds`). A client thread in `app->call()` allocates and opens files
again and again. Whoever uses or destroys an object that has been destroyed may crash (`Crash`).
The allocator is one lock, as in the simplest C library; one with several only makes
`Stuck` rarer. What the connections themselves do is in `Server`; the race of `delete app` with a call is there too
(`CallApp`), with one clean-up.

## Runs

All bounds are small because the hazards are pairwise: two connections race for one record,
two threads for one descriptor, two clean-ups for one pointer; a third connection reuses what
the first one released. The proofs (below) have no bounds.

| run | instance | shows |
|---|---|---|
| `segments` | 2 connections (3 and 1 bytes, `BufferSize` 2), 2 threads, 2 descriptors; one request malformed, the application does not throw; races explored to the end | with every cut into segments, half-close and reset: `TypeOK`, `Inv`, `OwnRequestOnly`, `AnsweredOnce`, `ClosedMeansAnswered`, `LogNamesPeer`, `NoVainWait`, `ImplementsService` |
| `reuse` | 3 connections of one byte, each of which may list a directory, 2 threads, 2 descriptors, the application may throw | descriptors are reused, taken by listings, run out, and threads run out: `OrphanCause`, `LostForever` |
| `live` | 2 connections (2 and 1 bytes), one of which may list, no symmetry, fairness | `Settled`, `ExhaustionEnds` |
| `message` | 2 connections (3 and 2 bytes) | violated: see Findings |
| `parse` | every list of a start line (5 kinds), up to 2 of 4 headers, 4 ends, each line with `\n` or `\r\n`, cut or not | `TypeOK`, `PayloadKept`, `LastHeaderWins`, `LastParamWins`, `HeadSuffices` |
| `crlf` | the same with `\r\n` throughout | violated: see Findings |
| `files` | nine chains, `allow_explore_` or not, four initial codes, every file and directory of `MCMiddleware`, two changes at any time, one thread, two descriptors: the connection's and one for a file or a stream, unless a second connection takes it | `TypeOK`, `ImplementsReply`, `NotFoundTrue`, `FileTrue`, `ListingTrue`, `CrashCause` |
| `drained` | the bundled chain, two threads, three descriptors, one change, fairness | `Drained`, `CallEnds` |
| `response` | up to four operations on five names (two spellings of Content-Length), two strings, a number, bodies of up to two bytes | `TypeOK`, `ThrowsCause`, `HeadersTrue`, `LengthTrue` |
| `names` | two threads, all tables, two names and a code that are in none | `TypeOK`, `RoundTrip`, `OnlyRead` |
| `lifecycle` | two client threads, up to two signals, fairness | `TypeOK`, `DestroyedOnce`, `KeepsNumber`, `LeavesOnlyAbout`, `SignalEnds` |
| `urlmap` | every map of up to three of eight keys (three with a host), every URI of up to four characters | `MappingKept`, `LongestFound`, `NoneFound` |

`BufferSize` 2 is the least at which a `read()` can be short; lengths 1, 2 and 3 are a short read, a
full one after which the loop goes on, and a full one followed by a short one. In `files`
one thread serves one request after another, since threads meet only in the table
of descriptors, which is what `drained` is about (three descriptors are two that listings can take and the last one, which the two
threads then have in turn); files have no bytes, one block exactly, or one and
a half; a directory has up to two entries, of which one may be a dangling link. Two changes are
what it takes for a path to be one thing in `access()`, another in `stat()` and a third in `open()`.
Four operations are enough for a look-up before and one after an assignment, with another
header in between. Two signals are one handler on top of another, or one in each of two threads.
A location of three characters and a URI of four let a slash be
doubled and leave something over. `BeforeRace`
(`reuse`, `live`) checks the states in which a hand-off has just raced but does not go on from them:
the properties of `reuse` have the premise `~raced`, `Settled` has the conclusion and `ExhaustionEnds` the
premise, and `raced` stays TRUE, so nothing is lost, and in `live` a behaviour cut off there already satisfies
both properties. `segments` has no such bound.
Deadlock is checked in `names` and `urlmap`, and not in the others, where the system may
really stop: the process ends or crashes, the parser has finished, a response is sent, a handler waits for
its own thread, or nobody asks for anything.

### Fairness

`FairSpec` assumes weak fairness of the main thread and of each client thread, because the
operating system schedules them; nothing is assumed of clients, who may stop
sending for ever. `Settled` therefore speaks of connections whose stream *ends*: the client has shut its
side down, or the request is complete and does not fill the last `read()` exactly.
(A complete request that is a multiple of `BUFFER_SIZE` long leaves its thread waiting.)
Its exceptions are the ones the code has: the client resets, the process ends, `pthread_create()`
failed for it or a `read()` error left it open (`Orphan`), or a hand-off raced.

In `Middleware`, `FairSpec` is weak fairness of each thread's call, for the same reason; nobody need
ask for anything. `CallEnds` holds because the file system comes to rest: `MaxChanges` bounds how often
it changes, and without that a file that grows as fast as it is read is read for ever.

In `Lifecycle`, `FairSpec` is weak fairness of each thread's steps and strong fairness of `Enter`:
the allocator's lock is free again and again while others use it, and the system does give it to
whoever waits. Neither signals nor connections nor a failure of `accept()` are fair. `SignalEnds` has
one exception, `Stuck`, which the code has too: the handler came in the allocator, on the thread
that holds the lock.

### What the refinement says

`Service` has no threads, descriptors or buffers. Under the mapping of
`ServerProperties`, each connection is new, waiting, answered once from its own
request, misanswered, or lost. `Service` lets a connection be lost while the service
runs only if its client reset it, and lets it be misanswered only after a race (`Chaos`). It lets the process end
(`End`), races or not, while it starts or stops, and otherwise only if a client has reset its connection, a thread has read
what is no whole and well-formed request (`Offends`), or the application may throw, which in `segments` it may not: no
other exception of a thread gets out.
The run `segments` shows that every step of `Server`, those after a race included, is such a step,
and `ImplementsServiceCorrect` proves it.

`Reply` has no middlewares, descriptors or blocks. A thread is asked, the path may come to name something
else, a descriptor may be wanting (`Deny`), and the thread answers once, by what `Honest` makes
of the chain, the request and the code found: an application before anything else, a blank response if the code
is neither 0 nor 404, a file or a listing if there is one, a page otherwise. An asked thread may only
bring the process down (`Crash`) by a listing with an entry that leads nowhere or was not there throughout. Order in the
chain is not in `Reply`: that it makes no difference to who answers, but for the Pragma that a page
below leaves in what is found above it, is what `ImplementsReply` says.
The run `files` shows it for nine chains and `ImplementsReplyCorrect` proves it for all.

## Findings

1. `message`. The record `data` (`src/server.cc:109-114`) is shared by all threads. Two
   connections accepted in quick succession can give both threads the second
   descriptor. The first connection is then never served; one thread answers and closes the second, and
   the other gets an error from `read()` and prints "Connexion reset by peer!"
   (`src/server.cc:166`), which no client did. `ResetMessageTrue` states what the message says.
2. `crlf`. `nbchar` counts `line.size() + 1` after the `\r` has been stripped
   (`request.cc:34-36`, `43`, `51`, `55`), so with CRLF the body starts one byte too early per
   line of the head. The unit test has bare `\n` and asserts that the body is what
   follows the empty line (`test/request_unittest.cc:26-27`). `PayloadKept` says
   exactly how far off it is, and that nothing of the payload is lost.

## Proofs

Every safety property of every passing run is proved for every value of
the constants that the module's assumption allows. The assumptions only say what kind of thing each constant is
(`ServerAssumption`: finitely many connections, lengths and buffers that are not 0, and so on), or, in `Names`, that
no table repeats a name or a value (`DistinctRows`), which is so of the rows of `http.h`;
TLC evaluates them in every run.

`ServerProofs`, for any connections, threads, descriptors, buffer size and lengths:

* `TypeCorrect`; `InvCorrect`: `Spec => []Inv`. The properties are not inductive: that two threads
  do not answer one connection depends on who holds which descriptor, that on
  what was in `data` when it was copied, and that on where `run()` can be while a thread is
  still to copy it. `Inv` says all of this: `Table` (an open descriptor is one open
  connection, always), and until something races `MainKnows`, `HandOff`, `Ownership`,
  `PeerKnown`, `Reading` and `Distinct`. One lemma or step per action shows that `Inv`
  is kept.
* `OwnRequestOnlyCorrect`, `AnsweredOnceCorrect` follow from `Inv` alone;
  `LogNamesPeerCorrect` and `ClosedMeansAnsweredCorrect` need one more induction each,
  since they speak of threads that have finished.
* `NoVainWaitCorrect`, the safety half of `Settled`, from `FullReads`: as long as a thread reads on, what it has read is
  a number of whole buffers, so that it has not read all of a request that fills its last buffer only in part.
* `OrphanCauseCorrect`, `LostForeverCorrect` rest on `StepMovesCharge`: in a step the
  charge of a descriptor passes from `run()` to the thread it creates, or from a
  thread to nobody, and in no other way; a stream's passes to nobody at once.
* `ImplementsServiceCorrect`: `Spec => ImplementsService`. Initial states map to initial
  states (`NothingWritten`), and each step to a step of `Service` or a stutter
  (`ClientsRefine`, `MainRefines`, `WriteRefines`, `CloseRefines`, and `DeathEnds` for whatever ends the process, which needs a reason; `SameOffence` and `MayOffend` say when
there comes to be one). What
  `Service` lets happen after a race is any change of status but from or to new (`Anything`), so that after one it is enough
  that no response goes to a connection that never arrived (`Arrived`, a further invariant);
  before one, `Inv` says which connection a write or close is about.

`MiddlewareProofs`, for any chains, codes, files and directories, any number of threads and changes:

* `FormedInv`, on which the others rest: between two middlewares the response has one
  of five forms, one that nobody made keeping its first code, and while static_file
  fetches a body the code and type are already those of that body.
* `TypeCorrect`, `CrashCauseCorrect`, `DrainedCorrect` from `TypeInv`, whose point is that connections, streams and open
  files together never exceed `MaxFds`, and that there are as many streams as there have been listings: after `MaxFds - 1`
  of them a thread that is about to open something has the last descriptor itself, for its connection (`NothingFree`).
* `NotFoundTrueCorrect` from `HonestInv`: once the response has passed static_file with code 0
  or 404, there is a cause for it, and causes last as long as the call.
* `FileTrueCorrect`, `ListingTrueCorrect` from `SoundInv`: what the loops have read so far is right for what the path has been so
  far (`FileRead`, `ListRead`), one lemma for a block, a round that is the last, an entry, and a change in between.
* `ImplementsReplyCorrect`. `RoutedInv` says why the response is what it is so far: it is about's if and only if an
  application is among the middlewares that have returned (`AskedBelow`), static_file has found something if it
  is a file or a listing, and while static_file looks nobody has answered (`Looking`). With the
  invariants above, `AnswerHonest` is what `Respond` needs; every other step of a call is `Deny`, `Crash` or
  `Done`, or shows nothing (`Unseen`).
* `CallAdvancesCorrect`, the measure behind `CallEnds`: the pair of `Position` (middlewares still to return, steps of
  static_file still to come) and `Work` (bytes to read, entries to list) goes down with each step of a call that does not crash, is left alone by
  the steps of other threads, and only its second part grows when the path changes. `StepAdvances` has one step per
  action; a round of the read loop goes down because a block that does not end it is full (`FullBlock`), one of the listing because `readdir()` has not given
  the entry before (`SoundInv`). A directory has finitely many entries (`MiddlewareAssumption`).

`RequestProofs`, for requests of any length, any texts and any cut:

* `LastHeaderWinsCorrect`, `LastParamWinsCorrect`: after i lines, or parameters, the map is that of the first i (`Wins`).
* `CountCorrect`, `PayloadKeptCorrect`, `HeadSufficesCorrect`, `TypeCorrect`: `CountInv` ties `nbchar` to the bytes of the lines
  taken, less a `\r` for each that had one; `CountCorrect` is that statement for the lines of the head.

`UrlmapProofs`, for locations and URIs of any length and maps of any size:

* `MappingKeptCorrect`: `Remapped`, whatever order `Sort` leaves ties in.
* `LongestFoundCorrect`, `NoneFoundCorrect`: `Looking`, and the fact that `Matches` and "the squeezed URI
  starts with the location" are the same for a location without runs of slashes, which is most of the module.

`ResponseProofs`, for any names, values, bodies and number of operations: until `write()`, each header has the value of the last
operation that gave it one, or is empty when there was none (`GivenBy`), and so for the body; `ThrowsCauseCorrect`,
`HeadersTrueCorrect` and `LengthTrueCorrect` then speak of one step.

`NamesProofs`, for any number of threads: a thread at `operator[]` has found its key, each map keeps exactly the keys
of its rows, hence `OnlyReadCorrect`; as no table repeats a name or a value, the map made of a table holds the row that a
key is in, and `RoundTripCorrect` follows for every row (`AnswersInv`).

`LifecycleProofs`, for any finite number of client threads, any signals and any number of them. What each action does to
the frames of all threads comes first (`Effect`): one frame moves on, begins, or ends, and the others stay. Then
`LifecycleInv` has, besides `LeavesOnlyAbout`, five parts: where frames may be (`Formed`), what `main()` has built (`Typed`), whose the socket's number is
(`Sockets`), and for each object that it has been destroyed at most as often as there are clean-ups
done with it, and at least once by each (`Chain`), and that none destroys what the chain does not own (`Spared`). `DestroyedOnceCorrect`, `KeepsNumberCorrect` and `LeavesOnlyAboutCorrect` follow.
Two more theorems are the safety half of `SignalEnds`: the allocator's lock is held where something is allocated or freed (`Allocating`), so that
unless it is `Stuck` its holder gives it back with its next step (`HolderMovesCorrect`), and what a clean-up has still
to free only gets less (`CleanUpAdvancesCorrect`).

Sums and squeezed URIs are recursive functions. The induction theorems of the library take an operator as a
parameter, which no backend here can instantiate; `SumTheorems` therefore proves by least counterexample
(`Least`) that such a function exists and is unique, and from it the few facts about sums that the other modules cite.
No module with a theorem uses a RECURSIVE operator; neither do the others.

Only model-checked: the liveness properties (`Settled`, `ExhaustionEnds`, `CallEnds`, `SignalEnds`), since fairness
and ENABLED are beyond TLAPS as used here, though what they rest on is proved for three of them
(`NoVainWaitCorrect`, `CallAdvancesCorrect`, `HolderMovesCorrect`); and the assumption `DistinctRows`, of constants, which TLC evaluates.

## Plan

Done: everything listed under Modules. What could follow:

1. `Lifecycle` on top of `Server` in one module, with `data` and the socket's number in one table. Each
   has an abstraction of the other now: `Server` one clean-up, `Lifecycle` one descriptor number.

## Not modelled

* The vendored gtest 1.6.0 (`ext/`): third-party code, and nearly all of the lines of the repository.
  The code of lhs itself is about a fortieth of them.
* Hosts in the url map (`urlmap.cc:46`): `Mapping` splits them off as the code does, but `find_app()` never
  compares them and nothing says what they are for, so no property is about them.
* The layout of a directory page (icons, dates, sizes), MIME names, messages and `to_string()` of a request: formatting.
* The enumeration of header names in `header.h`, which nothing uses.
* The branches for Windows.
* The library the build takes from elsewhere (mgz: sockets, `any`, regular expressions, file names), except as
  `src/` uses it: descriptors in `Server`, casts in `Response`, matches in `Urlmap`, the file system in `Middleware`.
