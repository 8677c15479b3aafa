# bared in TLA+

bared is a set of header-only C99 libraries (arenas, slices, maps, strings,
rings, pools, threads, processes, sockets, HTTP, text formats). This directory
holds TLA+ models of them, the TLC configurations that check the models, and
proofs of the most important properties for every value of the constants. The
models are translations of the headers at this commit; `PROJECT.json` maps each
definition to the lines it stands for.

To run: `tlc -config HttpPool.cfg MCHttpPool.tla` (and so on for each run of
section 4), `tlapm Http_proofs.tla`.

## 1. Inventory

### 1.1 Components, their state and their operations

| Component (header) | State | Operations | What makes it correct |
|---|---|---|---|
| HTTP server, pool (`barehttp.h` 1012-1089) | ring of connections, `head`, `len`, one mutex, two condition variables; one acceptor and n workers | `http_serve_pool`, `_http_pool_worker`, `_http_handle_conn` | each accepted connection is served in order, by one worker, closed once; no wakeup is lost; the ring is never overrun |
| HTTP server, thread per connection (986-1010) | none shared | `http_serve` | as above, per connection |
| HTTP mux, requests, responses (467-980) | route table, request fields, header table and buffer of the response | registration, `_http_match`, the parser, `http_set_header`, `http_write`, `http_json` ... | the route does not depend on the order of registration; the response is what the handler said, in order |
| HTTP client (1184-1425) | URL, redirect count, arena | `http_request` | the server sees what was asked, the caller gets what was answered; redirects end |
| Mutex, rwlock, condvar, once (`baresync.h`) | system objects; `_init` of the Windows mutex; `_done` of `Once` | lock, trylock, unlock, destroy, wait, signal, broadcast, `once_run` | exclusion, one initialisation, effects of `fn` visible |
| Threads, TLS (`barethreads.h`) | system objects, one small heap block per spawn | spawn, join, detach, keys | the block is freed once, by the new thread |
| Arena, scratch (`barestd.h` 69-336) | chain of chunks with positions, marks of open scopes | `arena_push`, `arena_pop_to`, `arena_reset`, `scratch_begin`, `scratch_end` | live blocks disjoint and out of reach of later pushes |
| Slices, builder (`barestd.h`, `barebuilder.h`) | header and elements in an arena; a builder also a scope | push (moves when full), `sb_write_*`, `sb_to_cstr`, `sb_reset` | the current buffer is live and large enough |
| Hash map (`barestd.h` 195-240, 630-821) | table of buckets, `len`; iterator index | `map_set`, `map_get`, `map_del`, `map_clear`, `map_next` | a finite function, whatever the collisions and rehashes |
| Byte ring (`barebuf.h`) | buffer, absolute cursors | write, read, peek, discard, clear; typed push, pop, peek | a bounded FIFO across the wrap of index and cursors |
| Slab pool (`barepool.h`) | slots, free list threaded through them, `used` | alloc, free, reset | every slot is lent once or in the list once |
| Connection pool (`barenet.h` 560-614) | sockets and in-use flags | get, put, close_all | one borrower per connection, no place lost |
| Sockets, framing, poll (`barenet.h`) | descriptors | connect, listen, accept, send, recv, `net_send_msg`, `net_recv_msg`, poll | whole messages over short reads and writes; no descriptor leaks |
| Child processes (`bareproc.h`) | pid, three pipes, static read buffer | spawn, wait, running, kill, read, write, close_stdin, `proc_run_capture`, `proc_run_stdout` | all output collected, no deadlock, right exit code |
| Coroutines (`barecoro.h`) | state, own and saved context; scheduler array | new, resume, yield, free; add, run_all, active | switches nest; run_all ends with all done |
| Signals (`baresig.h`) | a flag per signal | catch, ignore, default, received, reset, wait_any | a caught signal is seen |
| Logger (`barelog.h`) | level, sink, static line buffer, pending fields, mutex | `log_with*`, `log_*`, `log_set_*` | a line is one call's |
| Readers, writers (`bareio.h`) | positions, buffers | read, write, tee, buffered variants, read_line, copy, typed items | bytes in order over short reads; types read back as written |
| Files (`bareos.h`) | the file system | read, write, mkdir_all, remove, rename, stat, readdir | an answer is true of the tree, other processes notwithstanding |
| Time (`baretime.h`) | two clocks | instants, dates, texts of durations | conversions lose no more than they say |
| Strings, CSV, JSON, UTF-8, encodings, paths | cursors of parsers, the emitter's flags | scan, parse, emit, convert | inverse of each other; agree with the format |
| Integers (`baremath.h` 548-791, 1222-1450) | none | divisors, roots, bits, checked arithmetic, fixed point | exact, or say that they are not |
| Floating point, vectors, hashes; test harness | none of interest | | |

### 1.2 How they interact

* The HTTP pool runs `_http_handle_conn` on a connection a worker took from the
  ring; mutex and condition variables come from `baresync.h`, threads from
  `barethreads.h`, the connection from `barenet.h`. Within it, the parser, the
  mux, the handler and the response writer share the connection's arena and
  buffers.
* Client and server talk over a stream that may give any part of what was sent
  to each receive.
* Nearly everything allocates from an arena. A scratch scope is a saved position
  of the arena's head chunk; the string builder, the capture functions of
  `bareproc.h` and the HTTP client open scopes of their own in the caller's
  arena, so that lifetimes of unrelated results meet in one chain of chunks.
* A child process and its parent interact through pipes of bounded size and
  through `waitpid`, which may be called from `proc_wait` and `proc_running`.
* A signal handler and the program share the flags; processes share the file
  tree; the logger's statics are shared by every thread that logs.

### 1.3 What is hard to test

Interleavings on the ring and its condition variables; a full ring with the
acceptor asleep; silent clients; requests, messages and responses cut anywhere;
nested scopes over a chain of chunks; long runs of sets and deletes over colliding
keys; cursors that wrap; free-list links under user data; descriptor reuse; two
processes blocked on two pipes, or between two system calls of the other; a child
reaped twice; signals between a test and a wait; first lockers arriving together;
coroutines resuming each other under the scheduler; threads in the logger; the
bounds of every format. `PROJECT.json` lists each under "hazards" with its line
and the properties that cover it, or the reason none does.

## 2. Plan

Done: the HTTP pool with its abstract line; memory; the map; containers; processes;
runtime with signals; the HTTP application layer; text, IO, time, files and
integers. Proofs of the safety of `HttpPool`, `Pool`, `ConnPool`, `Sync`, `Coro`,
`Signals`, `Proc`, `Files`, `Sockets`, `Memory`, `RobinHood`, `Streams`, `Mux`,
`Words` and `Clock`, and of the refinements of `ConnQueue`, `ByteQueue`, `Dict` and `MsgLink`.

Left, in this order:

1. **Lifetimes of results**: `HttpExchange` and `Proc` as clients of `Memory`, for
   the results both push inside a scope that ends before they return.
2. **Left out of modelled headers**: UDP, stdio readers and writers, file handles.

## 3. Modules

Properties stand at the end of the module they are about. Modules whose name
begins with MC give a specification its instance; four of them (`MCData`,
`MCRuntime`, `MCIo`, `MCText`) run several components that share no state:
a behaviour exercises one of them, its `subject`, and leaves the others alone.

### 3.1 HTTP pool: `HttpPool`, `ConnQueue`, `MCHttpPool`

`HttpPool` has a variable for each field of `_HttpPool` (`queue`, `head`, `len`,
`mu`), a `pc` and the local `conn` for each thread, and what the outside sees
(`accepted`, `answered`, `closes`). Every statement that touches shared state is
an action: `Put` and `Grow` (1081-1083) are two steps, as are `Read` and
`Advance` (1033-1035), although the mutex makes them one for other threads: the
invariants show that it does. A wait is `pc = "wait"`; `SignalAndGoto` moves
one waiter to `"relock"`, or nobody; `SpuriousWakeup` moves one without a signal.
`Alloc`, `Recv`, `Respond`, `Close` are the paths of `_http_handle_conn`: what is
read and written is abstracted to whether there is a response.

`ConnQueue` is what the server promises: a bounded FIFO line, each connection
served by one server and closed once; `ImplementsConnQueue` maps the pool to it.

### 3.2 HTTP application: `Mux`, `HttpText`, `HttpExchange`

`Mux` is a program that registers routes and sets the user pointer in any order;
`Visit` is one turn of the loop of `_http_match`, with the early return as a flag in
what the loop holds. Where no route admits a request and covers it, `_http_match`
falls back to a "/" by whatever method it is restricted (finding 7): `RoutingSound`
leaves open which "/" answers where one of them is restricted to another method.
`HttpText` has the text of both sides as functions: the parsers move a cursor over
bytes as the code does; names that mean something to the code ("Content-Length")
stand by one byte. The head of a request is built in `ReadBuf` bytes: headers of the
caller that find the buffer all but full are left out (`Fitting`), and of a head that
ends behind the buffer the client sends what fits, a 0 and what lies behind it
(`HeadBytes`; C leaves that undefined). `HttpExchange` is a
call of `http_request` against the server's thread: `client` and `server` hold the
locals of `_http_do_request` and `_http_handle_conn`, `up` and `down` the bytes in
flight. Each `net_recv` gets any part of them (`Splits` bounds where it may stop),
a timeout ends the client's reading, and a handler makes any calls of the writer
its assertion allows (`HandlerSetsHeader`, `HandlerWrites`, `HandlerFlushes`,
`Respond`), through a buffer of `WriteBuf` bytes.

### 3.3 Memory: `ArenaOps`, `Memory`, `MemoryDocs`

`ArenaOps` is the chain of chunks as a value (`Push`, `PopTo`, `Rewound`).
`Memory` has the chain, the stack of marks, the set of live blocks (each with the
scope it belongs to) and one builder. A block's contents are left out: it keeps
them exactly when no live block overlaps it. `ArenaSound` is the conjunction of
`MemTypeOK`, `LiveDisjoint`, `LiveProtected` and `MarksInOrder`. `MemoryDocs` adds
the history that the promise about `sb_to_cstr` speaks of. Sizes are unbounded.

### 3.4 Map: `Dict`, `RobinHood`

One action is one turn of one of the map's loops, so that every table a loop
passes through is a state: `GetStep`, `DelStep`, `ShiftStep`, `Rehash` and the
three branches of `_map_insert` (`PutInFree`, `Overwrite`, `PassOn`). Keys are
model values with given raw hashes. `Dict` is the finite function; the mapping
takes the call under way as done at its start (`MapContents`) and what it owes as
`Due`. The instance is a subject of `MCIo`, the run with fairness of calls.
`IterationExact` covers passes during which values are overwritten, not passes under
moves, growth or deletions, of which the header promises nothing.

### 3.5 Containers and files: `ByteQueue`, `RingBuf`, `Pool`, `ConnPool`, `Files`, `MCData`

`RingBuf` keeps the cursors modulo `W` (2^64 in the code) and masks them only at
the access. In `Pool` the first word of a slot is the link or the user's data.
`ConnPool` has the kernel's table of descriptor numbers, with a program that opens
and closes descriptors of its own. The pool may be closed while connections are lent;
the histories `stale` and `misput` say who holds a number the pool has closed since,
and which connections such a holder gave back in another's name. Those the code does
lend twice (Get, CloseAll, Get, the first borrower's Put, Get), and `LoansExact`
leaves them out. `Files` is the tree of a POSIX file system
(external) and two processes in the calls of `bareos.h`: a step is one system
call; the history `touched` says what others changed since a call began.

### 3.6 Processes and runtime: `Proc`, `Sync`, `Coro`, `Signals`, `Log`, `MCRuntime`

`Proc` is the POSIX half of `bareproc.h` and, as external actions, the kernel's
pipes and a child that reads, writes, closes and exits as it likes. `ends` is the
set of open descriptors after fork, including those a later child inherits. Data is
counted in units. `use` chooses between the two collecting calls and a session.

`Sync` has the Windows mutex with its three-state initialisation (a
CRITICAL_SECTION is external) and the POSIX `once_run`. The flag `_done` is
volatile, not atomic: `ordered`, chosen at the start, says whether the machine keeps
the order of stores and of loads. `OnceExact` holds on both kinds of machine; that a
caller on the fast path sees what `fn` did is claimed on the first only. In `Proc`
no read is interrupted: handlers set by `sig_catch` restart system calls (under
others, the loop of `proc_run_stdout`, `bareproc.h:457`, would end early). `Coro` has the states and saved callers of coroutines and
the loop of `coro_run_all`; a coroutine's program is any that resumes only ready
or suspended coroutines. `Signals` has the flags and dispositions; the handler
(`Arrive`) may run between any two steps of the program, each flag of a loop being
a step. `Log` is the logger under several threads.

### 3.7 Streams: `Streams`, `MsgLink`, `Framing`, `Sockets`, `Clock`, `MCIo`

`Streams` takes the loops of `buf_read`, `buf_read_line`, `buf_write` and `io_copy`
turn by turn, over sources that read short and memory sinks that double, and has
the typed items of `bareio.h`. `Framing` has both ends of a connection with a kernel that takes and gives
any part; each may give up. `MsgLink` is what they promise: whole messages, in
order. `Sockets` follows descriptors through calls that may fail at each system
call; `net_poll`, which keeps no state, is left out. `Clock` has the two clocks, which
run between any two readings of a call; how far they are apart is chosen once.

### 3.8 Text and numbers: `Strs`, `Encodings`, `Utf8`, `Csv`, `Paths`, `JsonText`, `Words`, `IntMath`, `MCText`

Operations on byte sequences (on words, in `Words` and `IntMath`), each beside a reference
definition: splitting against joining and counting, decoding against the table of
the standard, paths against walking the tree, JSON texts against the grammar, bit
tricks against the set of bits. In `MCText` a behaviour grows a text byte by byte,
so that every text up to the bound is a state that the properties look at.
The second half of `JsonText` is a caller of the emitter that makes any legal
sequence of calls.

`Words` is what `baremath.h` computes by arithmetic alone, of words that wrap at any
even number: checked operations, divisors, the square root, fixed point. Its state is
the word a program has, which becomes the result of an operation on it and an operand,
wrapped or not, so that the promises are asked of every word such a program can come
to. The loops of `math_gcd` and `math_isqrt` are functions of what they hold.
`IntMath` adds what rests on bits: counts, reversals, rotations, fields, logarithms,
the cube root, alignment. A shift by the whole word, undefined in C, is a choice
between the outcomes of compilers (`Shls`, `Shrs`), so that a rotation or a field is
the set of what may come out.

## 4. Runs

| Run | Checks | States | Shows |
|---|---|---|---|
| `http_pool` | `TypeOK`, `OnePlace`, `RingBounds`, `NoLostWakeup`, `AcceptorAwake`, `UseBeforeClose`, `EventuallyClosed`, `ImplementsConnQueue` | 368,139 | no connection is lost, duplicated, reordered or closed twice; who must wake wakes; clients that let it are served |
| `data` | `LoansExact`, `FreeListExact`, `ArenaSound`, `BuilderBuffer`, `FilesSound`, `ImplementsByteQueue`, `FreshLoan` | 666,211 | the containers keep their promises; live blocks never overlap and no push reaches them; file calls answer what is true |
| `runtime` | `LockSound`, `OnceExact`, `CoroStack`, `CaptureSound`, `RunAllComplete`, `WaitFindsFired`, `CaptureReturns`, `StdinEnds` | 423,567 | exclusion and one initialisation; switches nest; the scheduler ends with all done; the scan finds a signal that fired; collecting calls return everything when the output fits the pipes |
| `io` | `StreamsExact`, `SocketsSound`, `DatesNearInstants`, `DurationsReadBack`, `ImplementsMsgLink`, `EverythingArrives`, `MapSound`, `IterationExact`, `ImplementsDict`, `EveryCallReturns` | 265,653 | no byte is lost, doubled or moved between buffers, types and messages; descriptors balance; time converts within its resolution; the map's table is a finite function in every state of its loops |
| `text` | `TextsExact`, `CodesExact`, `RoutingSound`, `TextIsTheTree`, `ExchangeExact`, `ArithmeticExact`, `BitOpsExact` | 204,592 | operations agree with their reference definitions on every short text; an exchange carries what both sides said |
| `cstr_stable` | `CStrStable`, violated | | finding 1 |
| `capture_large_output` | `CaptureReturns`, violated | | finding 2 |
| `wait_after_running` | `WaitTellsExit`, violated | | finding 3 |
| `log_lines` | `LinesWhole`, violated | | finding 4 |
| `wait_any_signal` | `WaitSeesFired`, violated | | finding 5 |
| `next_perm` | `NextPermIsNext`, violated | | finding 6 |
| `methods_kept` | `MethodsKept`, violated | | finding 7 |

### 4.1 Bounds, and why they are enough

* `http_pool`: two workers (the least that can compete for one connection or pass
  a signal to the wrong one), two slots (full and empty differ, `head` wraps),
  four connections (the ring fills while a worker serves, and wraps twice), one
  silent client, one spurious wakeup. Proofs cover every other size.
* `data`: a ring of four bytes with cursors of eight values, so that both wrap;
  inputs from nothing to more than fits; four slots with any index as junk; two
  places, three borrowers, four descriptors; a head chunk of 6 bytes and one
  overflow chunk, so that most pushes of the builder overflow; sizes 1 and 3 with
  alignments 1 and 2 give padding; two nested scopes and three blocks give every
  order of push, end and restart. Two processes on two names and one within, one
  symbolic link, two inodes to give.
* `io`, the map: four keys, two of which share a home in both table sizes, one in
  the way, one that hashes to 0; capacities 4 and 8 (the code's least is 8: the
  rules are the same, the table is small enough for the run to wrap). The table
  grows at three entries, with the fourth to be added.
* `runtime`: three threads (two that race and one that comes later); three
  coroutines, two yields each, a scheduler of three; signals within and beyond the
  flags, one ignored by default; pipes of two units, reads of two (a short read is
  one unit), three units to the child's stdin, so that each pipe fills. The child
  may write two units to stdout and one to stderr: no more than fits.
* `io`: sources of up to four bytes through a buffer of two, so that lines and
  newline pairs straddle refills; a writer's buffer of three and texts shorter,
  equal and longer; bytes of one bit, so that values of every width meet their
  extremes; three messages through a socket that holds three bytes, less than a
  header; two threads on two descriptors; units of time of 2 to 32 nanoseconds,
  so that every unit carries.
* `text`: alphabets of the bytes that mean something to a format and a neighbour or
  two of each bound; lengths (3 to 6) long enough for the longest thing an
  operation looks at twice. Route tables of up to three of four patterns: two prefixes of
  one path and an exact match, in every order and with every method. The exchange has five requests (one whose
  second header does not fit the client's buffer, one whose head does not), two
  statuses, two writes by a handler, a write buffer of 20 bytes and one redirect. Words of eight
  bits with bytes of four, every word alone and aligned to each power of two; a
  program that computes with eight operands (0, 1, the bounds of both readings, two
  divisors) comes to every word, and each is put to every operation with each of them.

The `Max...` constants, `Splits` and `Reach` are the bounds in guards;
each says so at its declaration.

Deadlock is not checked where a system really stops: `http_pool` once every client
has been served; `runtime`, `io` and `text`, whose sessions end; the violation runs
of processes, log, signals, `next_perm` and `methods_kept`.

### 4.2 Fairness

* `HttpPool`: weak fairness of the acceptor's and of each worker's steps: threads
  that can run are run by the scheduler. A mutex need not be fair: weak fairness
  does not promise a thread the mutex when others keep taking it, and
  `EventuallyClosed` holds since a finite number of connections leaves nobody to
  compete with. Clients (`Accept`), spurious wakeups and `Recv` of a silent client
  have no fairness. `EventuallyClosed` needs fewer silent clients than workers:
  `net_recv` has no timeout.
* `RobinHood`: weak fairness of `Step`: a call runs.
* `Proc`: weak fairness of the parent inside a call and of the child; none of the
  caller, and none of the second child, which may keep a pipe open for ever.
* `Framing`: weak fairness of each end inside a call: a send or receive that can
  go on does. Nobody need begin a message, and nobody need give up.
* `Signals`: weak fairness of the program's steps; signals come or do not.

## 5. Proofs

| Module | Theorems | Assumptions |
|---|---|---|
| `Http_proofs` | `TypeCorrect`, `RingNeverOverruns`, `AcceptorIsWoken`, `ConnectionsConserved`, `NoUseAfterClose`, `WakeupsAreNotLost`, `PoolImplementsConnQueue`, `RoutesAreSound`, `OrderDoesNotMatter` | `PoolAssumption` of `HttpPool`: a finite set of workers, `Cap > 0`, distinct names; `MuxAssumption`: patterns and paths are texts |
| `RobinHood_proofs` | `MapIsSound`, `IterationIsExact`, `MapIsADict` | `MapAssumption`: the least capacity is a power of two, at least 4; two names that are no key or value |
| `Data_proofs` | `RingTypeCorrect`, `RingImplementsByteQueue`, `ArenaIsSound`, `BuilderIsSound`, `PoolTypeCorrect`, `FreeListIsExact`, `LoansAreFresh`, `LoansAreExact` | `RingAssumption`: the capacity divides the cursors' `W`; `MemoryAssumption`: sizes and alignments are numbers, no alignment 0; a slab of at least one slot, NULL is no slot; descriptors are numbered from 0 |
| `Runtime_proofs` | `LockIsSound`, `OnceIsExact`, `CoroStackIsChain`, `RunAllIsComplete`, `WaitAnswersFired`, `CaptureIsSound`, `FilesAreSound` | `main` is no coroutine; signals are numbers, more than one tracked; `ProcAssumption`: pipes and reads of at least a unit, exit codes below 128; `FilesAssumption`: no call names the root by the empty path |
| `Io_proofs` | `SocketsAreSound`, `MessagesArriveWhole`, `DatesAreNear`, `DurationsSayWhatTheyAre`, `StreamsAreExact` | `FramingAssumption`: payloads whose length four bytes hold; `ClockAssumption`: units of rising length; `ReaderAssumption`, `WriterAssumption`, `TypedAssumption`: buffers and capacities are not empty, CR and LF differ; values are in the range of their type |
| `Words_proofs` | `ArithmeticIsExact` | `WordsAssumption`: the number of words is even, `One` is positive, operands are words |
| `RingLemmas` | (lemmas on remainders and slots: `ModBelow`, `ModOfSum`, `SlotShift`, `SlotInjective` ...; on counting and recursive functions: `FirstExists`, `CountUp`, `ValuesExist`) | |

None of them bounds the number of threads, keys, blocks, messages or steps. The
`Max...` bounds in guards are any number, so that they exclude no behaviour.

**The HTTP pool.** `TypeOK` is not inductive: that `head` stays a slot and `len`
within `0..Cap` depends on what a thread knew when it tested the ring.
`IInv == TypeOK /\ MutexInv /\ RingBounds /\ HeldInv` is:
`MutexInv` says the thread between lock and unlock is the mutex's holder, so
that no two threads are there; `RingBounds` that a worker about to read finds an
entry and the acceptor about to write finds room, which the holder tested and
nobody else could change; `HeldInv` what is in the hand of a thread in the middle
of its two-step update. `AcceptorAwake` and `NoLostWakeup` are then shown with
`IInv` as a lemma, the latter by counting the workers on their way, and `OnePlace`
by relating slots before and after each step through `RingLemmas` (the slot of
`i` from `head + 1` is the slot of `i + 1` from `head`; different places of a
window no longer than the ring are different slots). `UseBeforeClose` follows
from `OnePlace`: a worker that responds owns the connection.

That the pool implements `ConnQueue` needs the same two facts about slots: `Put` and `Read`
are the abstract steps, since the queue the mapping reads off the ring changes there
and nowhere else.

**Routes.** `LoopInv` is what the loop of `_http_match` holds behind the first `k`
routes: it has returned at the first exact match, or none was among them and it has
the longest prefix of those, if any. `VisitHolds` is one turn of the loop, for any
kind of route; `MatchFinds` counts the turns with `CountUp`, over the recursive
function `ValuesExist` gives, and `MatchIsRight` is the part of it that the header
describes. `OrderDoesNotMatter` is about two tables: two prefixes
of one path of the greatest length are the same text, so that only which of several
equal patterns answers can depend on the order. `MuxInv` carries that a plain route's
user is the mux's from one registration to the next.

**The slab.** The free list is given by the sequence of its slots (`FreeChain`):
allocation drops the first, freeing puts one in front, and a user's write is
outside it. That `used` counts the lent slots (`UsedIsLent`) is needed to show
that a free of a lent slot leaves `used` a natural number, and that a step that
raises `used` lends a new slot.

**The byte ring.** The two cursors are remainders modulo `W`, and so is their
difference, the fill, which `RingTypeOK` keeps within the capacity. Since the capacity
divides `W`, masking a cursor that has wrapped gives the slot it would have had
(`RingMod`), and places less than the capacity apart are different slots. A write or a read is one abstract step however
the copy is cut at the end of the buffer.

**The arena.** `Arena` relates chunks, marks and live blocks: `Chain` says that
positions lie within their chunks, `Apart` that the blocks share no byte and lie
below the positions, `Nested` that what a scope may rewind over is no block of an
outer scope. The last is what `ArenaSound` alone does not carry: `scratch_end` is
safe because the blocks of outer scopes were pushed below its mark, or into chunks
it leaves alone. `Built` adds that the builder's buffer is a live block, of the
builder's scope, with room for `cap`.

**The map.** `Order` is the Robin Hood order bucket by bucket: `At` says that an
entry's `psl` is its distance from its home, `May` that the bucket before a displaced
entry is occupied by one at most a step nearer home. A `get` may stop at the first
nearer entry because of it. The loops disturb all this for a while, and the invariant
says how: the entry in the hand of `_map_insert` could stand where it is
(`HandInv`), the hole of `map_del` is one place (`Live`), what a rehash has still to
move is neither in the table nor in the hand and fits (`OldInv`). That an insert
ends needs a free bucket: three quarters of the table at most are used, and of a
table of two that would be all; `MinCap` is 8 in the code and `>= 4` suffices. For
the refinement of `Dict`, `ArgInv` relates a call under way to what it looks for: a
probe has passed no bucket with its key.

**The connection pool.** `LoansExact` does not survive a step by itself: `ConnInv`
adds that a place in use has a connection in it, for a caller who gives back
SOCK_INVALID, which `conn_pool_put` looks for like any number: it finds free places
only. A stale put can free the place of a later borrower of the number, never close
his connection (`KeepsItsOwn`) nor leave a place in use for nobody (`NoPlaceLost`).

**Child processes.** `ProcInv`: what was written to a pipe is what was read and
what is in it (`Flows`); a blocked child holds its end (`ChildHolds`); a stream the
collecting loop has left was empty with nobody left to write to it (`Collected`),
which is why the sums at the end are whole.

**The file tree.** `FilesSound` speaks of calls that have just returned; the invariant
has what a call under way knows (`CallOK`): the file it opened still exists, and has
the size it had unless somebody wrote to it; the parts behind `os_mkdir_all` are
directories, or one is a file or link, or the disk was full; each entry of
`os_readdir` is still to look at, has its link still to read, or is listed as it is.
`Changes(H)` says that a step changes the tree in the things `H` at most, and
`PassedBy` that a call stays as true as it was when others' steps pass, its history
grown by those of `H` that matter to it; then each system call has only its own
process to look after.

**Mutex and once.** `MutexInv`: an initialising thread has `_init` at 1, whoever is
past the spin loop has it at 2, and nobody initialises twice. `OnceInv`: the
holder of the mutex knows `_done`, and `fn` has been started exactly when it is
done or the holder is between start and store. Whether the caller on the fast path
sees what `fn` did depends on `ordered` alone.

**Coroutines and signals.** `CoroStack` speaks of callers one at a time and is not
inductive: that a yield finds its caller waiting needs the whole stack, which
`Chained` gives as a sequence from the main program to whoever runs. `PassSeen` is
what a pass of `coro_run_all` knows of the places behind `i`. `SigInv`: while
`sig_wait_any` scans, the flag of the signal that woke it is set and in front of the
index, unless it is beyond the flags.

**Sockets and framing.** `InOneHand`: every open descriptor is the local of one
call, at a stage that holds one (`HoldsFd`), or was returned to one thread. For the
framing, the proof gives the stream and the places where messages begin in it as
two sequences: header and payload received so far, the bytes in flight and what is
still to be sent lie in the stream one after the other (`Underway`), so that a whole
header is the header of the next message. `Length` undoes `Header` because a length
fits four bytes (`FramingAssumption`); a longer payload is cut in the code, too.

**Readers and writers.** `ReaderInv` places everything in the source: for some `r`, the
buffer is the part that ends at `r` and the source still has the rest
(`BufferFrom`); for some places, each result so far is what a reader with no buffer
would have given there (`TakenSoFar`); the call under way has the bytes from the last
of them to the next one to give, and no newline if it reads a line (`CallFrom`). Every step
cuts one part or joins two that meet (`PartCut`, `PartJoin`). `WriterInv` has the
bytes that reached the sinks, and an empty buffer while `io_copy` goes past it.
`TypedInv` gives the bytes behind each item as a sequence of texts (`Behind`): a
read takes the first item's bytes off the next such text. That they decode is
`BytesRoundTrip`: reading from the high byte on meets the shifted values of the
writer in the opposite order, and the last shift of a value that fits is 0.
These functions are recursive along the numbers; `ValuesExist` gives such a function and
`CountUp` what holds of all its values.

**Words.** That the word is a word is all the invariant there is; the work is in the
operations. A wrapped number is whole turns away from the exact one (`WrapIs`,
`SignedIs`), so that a sum or difference, which is less than a turn out of range, is
the exact one or a turn away from it; `QuotientTest` turns the division of
`math_mul_u64` into the product it stands for. For `math_isqrt`, Newton's step from
an `x` whose square is above `n` goes to a smaller one no less than the root, because
(x + n / x + 2)^2 >= 4 x (n / x + 1) > 4 n, and from the root it does not go down;
the steps wrap for the largest word only. For `math_gcd`, a step of Euclid's loop
keeps the common divisors (`CommonStays`), and the greatest is one (`GcdIsOne`). That
the two recursive functions exist is shown by giving them (an `x` whose square is at
most `n` for itself, the root for any other; the greatest common divisor of each
pair), and what they give by the smallest argument at which it would be something
else. Fixed point is division with its sign. No use is made of the width being a
power of two.

**Time.** `ClockInv` bounds a conversion's error by what it dropped and by `lag`, the
time between its two readings, which ends up on one side only. The parts of a
duration are put in front of each other from the smallest on; each is what the next
larger unit leaves, so that their total is the duration cut to the last unit.

### 5.1 Only model-checked

* Liveness (`EventuallyClosed`, `EveryCallReturns`, `CaptureReturns`, `StdinEnds`,
  `EverythingArrives`): the prover has no backend for fairness and ENABLED.
* `TextsExact`, `CodesExact`, `TextIsTheTree`, `ExchangeExact`, `BitOpsExact`: their
  modules are built from recursive operators, with which the prover loses its arithmetic backend, and the induction
  theorems over sequences take an operator as a parameter, which it cannot
  instantiate.

## 6. Findings

Disagreements of code and documentation that a run shows:

1. `sb_to_cstr` (`barebuilder.h:165`) pushes its result after the builder's scope
   has begun again at the old mark: the next `sb_reset` or `sb_to_cstr` of the
   builder pops it. The header promises a pointer "stable for the lifetime of a".
2. `proc_run_capture` (`bareproc.h:399-428`) reads the two streams in turn, each
   with a blocking read: a child that fills stdout while it writes nothing to
   stderr and the parent wait for each other.
3. `proc_running` (`bareproc.h:341`) reaps a child that has ended; `proc_wait` after
   it fails with ECHILD, which it ignores, and answers 0.
4. `_log_write` (`barelog.h:209-287`) formats into one static buffer and takes the
   mutex of `log_set_mutex` around the sink alone.
5. `sig_wait_any` (`baresig.h:164`) suspends without a look at the flags: a signal
   that was caught just before is not waited for any more.
6. `bit_next_perm` (`baremath.h:648`) clears the lowest bit of `~t` instead of
   isolating it: the successor of 7 is not 11.
7. `_http_match` (`barehttp.h:561-568`) falls back to the first "/" without its
   method filter: a handler registered for one method answers every other.

Others met while translating, each a clause or a precondition of a property:

* `barestd.h:334`: `scratch_end` rewinds the head chunk only, what a scope pushed
  into an overflow chunk stays until `arena_reset`; `README.md:412` says freed.
* `barehttp.h`: one `net_recv` takes the request, although the client sends head and
  body in two calls (924); the client treats a timeout as the end of the response
  (1310) and pushes its results inside a scope that ends (1383); a relative
  `Location` ends in "bad redirect URL"; of equal prefixes the later route wins; a
  request head longer than its buffer is cut, and bytes behind the buffer are sent
  (1286-1296); a full header table refuses overwrites (747); `_http_match` knows no ":"
  patterns, so that `http_path_param` matches nothing it routed
  (`examples/http_server.c:19`).
* `barecsv.h`: newlines inside quotes end the row, against its line 25.
  `barejson.h`: containers deeper than `JSON_EMIT_MAX_DEPTH` share a comma flag; an
  unterminated string is accepted. `barepath.h`: `path_clean("../..")` is ".",
  `path_join("/", "a")` loses the root. `bareencoding.h:95`: `pct_decode` turns '+'
  into a space, where the header says that it passes through; of texts with a '+'
  `CodesExact` claims nothing for the query encoder.
* `baretime.h`: `datetime_fmt` loses the sign of offsets of -59 to -1 minutes;
  `datetime_utc` drops the wall clock's fraction. `barenet.h`: `net_poll` counts
  closed descriptors and reports nothing of them, where 147 says that it returns the
  number of descriptors with events. `conn_pool_put` of a number that
  `conn_pool_close_all` closed may free the place of whoever has the number now. `bareos.h:439`: `os_mkdir_all`
  says true when a file has the name. `bareio.h:502`: the pieces of a long line are
  taken for one string though an arena may put them into different chunks.
* `baremath.h`: `math_isqrt` of the largest word divides by zero (1256),
  `math_icbrt` near it wraps (1269), `math_next_pow2` past the middle, rotations
  by 0 and fields of 64 bits shift by the width (1251, 613, 630, 634: `bit_extract(x,
  0, 64)` is 0 on x86), `math_div_ceil` wraps (578).

## 7. What is not modelled

* Windows variants, except the mutex: the same interfaces over other calls.
* The accept loop of `http_serve` (no state shared between its connections; what it
  spawns is `HttpExchange`'s server). UDP, socket options, address texts.
* `coro_free` and the coroutines' stacks; `coro_run_all` called by a coroutine.
* Readers and writers over files, formatted output, floats (`bareio.h`); numbers
  with fractions and the pretty-printer (`barejson.h`); the calendar
  (`baretime.h`), which is the system's; handles and modes (`bareos.h`).
* Floating point, vectors, matrices and hashes (`baremath.h`): out of TLC's reach.
  `baretest.h`, the examples and the installer: nothing the library rests on.
* Callers that break a contract a header states: a double free of a slot, a slab
  without slots, a builder used out of turn, a map changed by `map_del` during a
  pass, a coroutine resumed while it runs.
* Arithmetic at the width of `size_t` other than the ring's cursors.
