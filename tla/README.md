# Verification of the AESD character driver and socket server

TLA+ models of the two programs this repository builds up to: the character
driver `aesd-char-driver/` with its circular buffer, and the socket server
`server/src/` with its threads, timer, signals and list of threads; and of the
two example libraries `examples/systemcalls` and `examples/threading`. TLC
checks them on small instances, TLAPS proves the main invariants for every
instance.

```
tlc -workers 2 -config MCAesdSocket.cfg MCAesdSocket     # one run
tlapm AesdSocketProofs.tla                               # one proof module
```

## 1. Inventory

| Component | Source | State it keeps | Operations | What is hard about it |
|---|---|---|---|---|
| circular buffer | `aesd-circular-buffer.c/.h` | array of entries, `in_offs`, `out_offs`, `full` | init, add_entry, find_entry_offset_for_fpos | index wrap, boundary bytes, a failed lookup resets the indices |
| character driver | `main.c`, `aesdchar.h` | the buffer, `temp_char_buffer`, a rw semaphore, kmalloc'd blocks, `f_pos` per file | load, unload, open, release, read, write | entry used after `up_read`, trylocks that drop data, unchecked kmalloc in the critical section, lookups that write under the read lock |
| socket server | `aesdsocket.c`, `aesdsocket_thread.c`, `timer_thread.c`, `aesdsocket.h` | list of thread nodes, mutex, stdio stream, descriptors, `EXIT_SIGNAL` | startup, accept loop, worker per connection, timer thread per expiry, signal handler, shutdown | threads on one stream, joins, signals around `accept`, clients that disappear, resources destroyed while the timer is armed |
| tail queue | `server/src/queue.h` (vendored) | heads and linked elements | the TAILQ macros | `tqh_last` and `tqe_prev` point to links, and have to be moved by every operation that touches an end |
| threading example | `examples/threading` | thread_data blocks, the caller's mutexes | start_thread_obtaining_mutex, threadfunc | ownership of the block between starter, thread and joiner, a result set by the last step, calls that fail in the middle |
| system call examples | `examples/systemcalls` | children, descriptors, errno | do_system, do_exec, do_exec_redirect | `wait` takes any child, stale errno, standard output and descriptors of the whole process |
| finder and writer, autotest example, scripts | `finder-app`, `examples/autotest-validate`, build files | none that outlives a call | – | nothing concurrent |

Interactions: the driver calls the buffer under its semaphore, owns the memory
behind every entry and frees what `add_entry` hands back. In the server main
creates workers and joins them; workers and timer threads share the mutex and
the stream `fp`; the handler talks to main and the workers through
`EXIT_SIGNAL`, and to main by interrupting `accept`. main keeps its workers in a
tail queue, which it walks to join them and empties when it ends. The threads
that call the system call library share the process's children, its standard
output and its table of descriptors. The threading library hands a block to the
thread it starts, and the thread hands it to whoever joins it.

What makes each part correct:

- *buffer*: it is a window of the most recent entries; lookup is indexing into
  their concatenation; what is handed back to be freed is nowhere else.
- *driver*: memory is never freed while an owner is left and not lost either;
  the lock comes back on every path; entries stay put during a search; a read
  gets the bytes at `f_pos`; every call returns.
- *server*: a client's data is contiguous in the file; the reply is the file up
  to its line; nobody leaves with the mutex; nothing is destroyed while a worker
  uses it; what a client was sent survives a crash; after a signal the program
  ends. All of it together: every connection is served as if in one step.
- *queue*: the links are those of the list its user built.
- *system calls*: a call that has the process for itself reports on its own
  command and leaves no child behind; where it shares the process it still comes
  back, with a status.
- *threading*: a thread's block is its own until it is joined, and says the
  truth then.

The list of hazards, each with its line and the properties aimed at it, is
`hazards` in `PROJECT.json`.

## 2. Modules and their correspondence to the code

| Module | Role |
|---|---|
| `CircularBuffer` | the struct as a record, the three functions as operators; no variables |
| `CircularBufferSpec` | a caller that adds and looks up in any order; the reference definition of lookup; refines `RecentEntries` |
| `RecentEntries` | abstract specification: a window of the last `Capacity` entries |
| `AesdChar` | the driver; extends `CircularBuffer` |
| `PacketLog` | abstract specification: a log that grows by whole packets and stamps, and what a crash may leave of it |
| `AesdSocket` | the running server; refines `PacketLog`, and one serving instance of `AesdSocketInstances` |
| `AesdSocketInstances` | starting and stopping: several instances that share the port and the file |
| `TailQueue` | the TAILQ macros on a heap of links, with the list the user meant as history |
| `SystemCalls` | do_system, do_exec and do_exec_redirect of several threads |
| `Threading` | start_thread_obtaining_mutex, threadfunc and their caller |
| `MC...` | TLC instances: symmetry sets |
| `CircularBufferLemmas` and the seven `...Proofs` modules | theorems |

Definitions whose names end in `_mutant` are never part of a specification.
Each is the definition that follows it with one plausible mistake in it (a
dropped guard, a forgotten unlock or reset), used to confirm that a property
notices that mistake.

**CircularBuffer.** A pointer is a number and `NULL` is 0. The search loop is a
recursive function `char_offset_left` (what is left of `char_offset` in
iteration i) and the first iteration whose test succeeds. `find_miss_reset` is
the assignment of lines 46-48, which the code makes before it returns NULL.

**AesdChar.** One label per point where another process can get in between:

| label | the process is |
|---|---|
| `r_find`, `r_scan` | holding the read lock, before and after the search copied `out_offs` |
| `r_size`, `r_ptr`, `r_copy` | past `up_read`: about to read `entry->size`, to read `entry->buffptr`, to copy |
| `w_lock` | holding its copy of the user data, before `down_write_trylock` |
| `w_body` | holding the write lock |
| `oops` | dead, the write lock still taken (kmalloc returned NULL and strcpy used it) |

The heap is the set of live blocks and every kmalloc gives a new number, so a
stale pointer can be told from a new block. Of the data only its length and the
outcome of `strstr` are kept. Since the block is not zero-terminated, `strstr`
may report a newline that is not in the data, or miss one behind a zero byte:
`newline` is a free choice. Memory corruption that follows from the missing
terminator is not modelled, nor are writes of zero bytes.

**AesdSocket.** `mpc` is main's place: `check` (the loop condition), `accept`
(about to call), `accepting` (blocked), `spawn` (malloc and pthread_create),
`insert` (the node's malloc and TAILQ_INSERT_TAIL), `reap` (check_thread_exit),
`release`, `destroy`, `remove`, and the three ends of the process: `exited` (0 is
returned), `failed` (a return from inside the loop, with 1) and `killed`. A worker goes `start`,
`loop` (the test of EXIT_SIGNAL), `recv`, `send`, `leave`, `exited`; a timer
thread `lock`, `write`, `done`. Points worth knowing when reading it against
the code:

- `signal()` under `_POSIX_C_SOURCE 200112L` has System V semantics: the
  handler is one-shot and `accept` returns EINTR.
- The check behind `accept` tests `ret`, so -1 goes on as a descriptor and gets
  a worker (`conn = "bad"`), which leaves through the error path of `recv`.
- `node.thread_exit` is assigned a pointer and is therefore always true;
  `check_thread_exit` joins every node on every pass. A second join of a
  pthread_t returns ESRCH, or joins the thread that got the same id.
- `recv` returning 0 neither ends the loop nor writes anything; `strchr` then
  looks at what the buffer held before.
- The node's malloc is not tested: when it fails main dies in the middle of
  whatever the new worker is doing (`node_malloc_fails`).
- A worker flushes after a newline, the timer does not: `flushed` says how much of
  the stream is in the file, and stdio may write out more at any `fwrite`.
- `send` waits for a client that does not read, holding the mutex, and no signal
  interrupts it; to a real client it is a step of the client.
- `remove` may fail; main says so in a message and returns 0 all the same.
- The timer is never deleted; a lock of the destroyed mutex returns EINVAL and
  the thread goes on.
- `send` to a client that has gone raises SIGPIPE, whose default action ends
  the process.
- A connection takes a descriptor until `close`. `accept` and the `fopen` of
  `send_file_to_client` need a free one: without it `accept` returns -1, and
  `fgetc(NULL)` kills the process (`send_file_crashes`). The error path of
  `recv` does not close, so a reset connection keeps its descriptor.

Abstracted in `AesdSocket`: chunk contents (only "has a newline" is kept),
`get_client_info` (log output), and the write of one byte past `buf` when a
chunk fills it. The list of nodes is a sequence of thread ids; that the macros
implement a sequence is what `TailQueue` shows.

`ServesAtomically` is the refinement of `PacketLog`. While the process lives, the
log is the part of the stream whose author does not hold the mutex: what a worker
writes enters the log, with the answer to its client, in the step that gives the
mutex back. When the process was killed, the log is what is in the file. So a
death is a step in which the log may change, and `Crash` says how: every record
a client was sent is still there, records at the end that nobody was sent may be
lost, and at most the beginning of one packet that was not answered is added.

**TailQueue.** A head and an entry have the same layout, two pointers, and
TAILQ_LAST and TAILQ_PREV rely on it; both are a cell with `next` and `prev`
here, and the address of a link is the cell it is in. The history variable
`list` is what the user asked for. The links of an element that is on no list
are arbitrary at first and keep their old values after a removal, as without
QUEUE_MACRO_DEBUG.

**SystemCalls.** One label per library call: `system`, `waitpid` (both inside
system()), `open`, `dup2`, `fork`, `wait`. A new child gets any
pid that no child has, also one that a thread still waits for. Points worth knowing when reading it against the code:

- A status is `code * 256 + signal` and WEXITSTATUS takes it apart, so that a
  killed command counts as a success, as in the code.
- `errno` is per thread and nothing resets it; do_system tests it even when
  system() succeeded. Its other test, `ret == 127`, never holds: a shell that
  exits with 127 gives the status 127 * 256.
- `dup2` is called by the parent: standard output stays redirected for the
  whole process and `fd` stays open. When open fails, dup2(-1) fails and the
  command runs with the standard output there is.
- `wait` without children would leave `status` uninitialised; `Wait` returns an
  arbitrary result then, and `StatusAlwaysStored` proves that this never happens.

`alone` records which call had the process for itself; `stolen` counts the
system() calls whose child another thread's wait has reaped.

**Threading.** The labels are the next call of the thread. The block is what
malloc returned with `thread_complete_success` undefined. A failed malloc kills
the process (its result is used unchecked), a failed pthread_create loses the
block (`orphans`). A failed lock is not noticed: the thread goes on without the
mutex, and its unlock is then an error or undefined, and may take the mutex from
its holder. The caller is external, modelled from `threading.h`: it joins
a thread, frees the block it returns, and uses the mutex itself.

**AesdSocketInstances.** One label per call of main that can fail or that other
instances can notice: `file` (fopen), `addr`, `fork`, `timer`, `socket`, `bind`,
`listen`, then `serving` (all of `AesdSocket` up to the close of the socket),
`closing`, `exited`. A file is an identity, `path` is what TEMP_PATH names, and
an instance goes on writing to the file it opened even when TEMP_PATH no longer
names it. The kernel's side is external: with SO_REUSEADDR two sockets may be
bound as long as none listens, and `listen` fails when another socket listens.

Every error return of main has its own value, `ErrorReturns`: 1 for a wrong
option, the file and setsockopt, the EAI code for getaddrinfo, `RETCODE_FAILURE`
for fork and the timer, and the -1 of socket, bind and listen. `Exit` keeps the
low byte of it, as the kernel does, and it reaches the starter unless the parent
of a daemon has said 0 already; 256 stands for a process killed by a signal, -1
for none yet. The EAI codes are external: `EaiErrors` is assumed to lie in
-255..-1, where glibc has them.

Records are numbered, `writes` counts them and the first `flushed` have left the
buffer of the instance: a write flushes some part, `flush_stream` (a worker's
fflush), the close of the stream and every exit but a kill all of it. When
another instance has the same file open, what is flushed may overwrite its
records. `loop_fails` is a return from inside the accept loop, `killed` every end
by a signal. `Numbers` is the set of numbers an instance may use, finite for TLC
and any set of naturals for the proofs.

The two server modules meet at the accept loop: `listen_port` leads to the state
`Init` of `AesdSocket` describes. From there on `RunsAsInstance` maps the state
of `AesdSocket` to that of a single instance `"me"`: it serves while the process
runs and the socket is open, it wrote the records of `written`, of which
`flushed` are in the file, TEMP_PATH names its file until `removed`, and its
status is that of the way in which the process ended. Every step of every thread
is then `write_record`, `flush_stream`, `close_socket`, `remove_file`, `loop_fails`, `killed` or
invisible.

## 3. Runs

| Run | Specification and bounds | Shows |
|---|---|---|
| `circular_buffer` | 3 slots, sizes 0-2, offsets 0-6, 7 adds | types, index agreement, nothing handed back is still stored, lookup equals indexing into the concatenation, refinement of `RecentEntries` |
| `driver` | 2 processes, 2 slots, one-byte calls, 4 allocations, fair | no owner is left with a freed block, writes are dropped only under contention, entries do not move under a search, every call returns, also after another process died with the lock |
| `server` | 2 accepts and one interrupted, 2 descriptors, 1 part, 1 expiry, 2 ids, 2 signals, fair | refinement of the packet log and of a serving instance; contiguous packets, exact replies, also across a crash, mutex discipline, workers gone before cleanup, only resets leave descriptors; shutdown completes, a failed or interrupted accept does no harm, a signal ends a spinning worker |
| `instances` | 3 instances, 1 record each, 2 clock values, EAI codes -2 and -11 | one server at a time, legal timer, no error return of main comes out as 0, a server that met no other keeps its file and what it flushed |
| `tail_queue` | 2 queues, 3 elements, any initial links | links, loops and checks agree with the list the user built |
| `system_calls` | 2 threads, 2 children at a time, 1 file, 2 descriptors, exit codes 0 and 127, one signal, fair | children are accounted for, lone calls are exact, every call returns |
| `threading` | 3 threads, 1 mutex, 3 blocks, fair | every thread has a block of its own, joined threads are done and hold nothing, started threads return once the caller stands still |

*Why the bounds are enough.* Seven adds on three slots fill the ring, wrap it
twice and leave room for failed lookups before, between and after; sizes 0-2
give empty entries and inner bytes, offset 6 is past any content of three
two-byte entries. Four allocations are two more than the driver's slots, so
an eviction happens while another write is in flight, and a line can follow a
grown `temp_char_buffer` (three blocks); two processes are enough for a lock
that has one holder. Call sizes do not matter to these properties; the run
`driver_short_read`, which is about sizes, uses calls of one and two bytes.
Two ids for three workers force a pthread_t to be reused; the expiry can come
before, inside and after a packet of a part and a line, and before and after the
mutex is destroyed; two descriptors are used up by a connection and the file
that is sent to it, so one reset connection is enough for fopen and accept to
fail. Three instances give one that starts while another shuts
down, before a third; a second has 2 nanoseconds, since only the first and the
last one of a second matter. Two queues of three elements have a first, an inner
and a last element and an empty queue to concatenate or swap with. Two children
are enough for one to be taken by the wrong thread and another to be left over
when the next call starts; two descriptors let two redirections meet and the
third one fail. Three blocks for three threads let one be lost and make two
threads compete for the rest. The proofs of section 5 remove these bounds for
safety.

*Deadlock* is checked for the buffer and the driver. The server and instance
cfgs say `CHECK_DEADLOCK FALSE` because the processes end, that of `threading`
because the process may be killed; the others are checked.

*Fairness.* Driver: weak fairness of the steps a process takes inside a call
(the kernel keeps scheduling it; it never waits, since both locks are taken
with a trylock); none for starting a call. Server: weak fairness of main's
steps outside `accept`, of a worker's steps that do not depend on its client,
and of a timer thread's steps; none for clients, signals or the clock. A `send` to
a real client is a step of the client: `SignalEndsSpinning` is about clients that
do not leave their worker in `send` for ever. System calls: strong fairness of a
thread inside a call, since a thread blocked in `wait` competes with others for
the children that end, and weak fairness of the commands, which are assumed to
end. Threading: weak fairness of a thread and of the caller's unlock; none for
starting, joining and the caller's lock. Nothing is assumed of who gets a mutex
that several wait for, and so `ThreadsReturn` is about behaviours in which the
caller at last neither locks nor starts threads: a thread that is passed over then
gets its turn because the others run out.

Five runs are expected to be violated. Each states a sentence of the
repository's comments and finds a behaviour of the code that contradicts it
(`findings` in `PROJECT.json` has the quotations):

| Run | Contradiction |
|---|---|
| `driver_leak` | after a read past the end, writes overwrite occupied slots and nobody frees the blocks |
| `driver_use_after_free` | a reader copies from a block freed after its `up_read` |
| `driver_short_read` | after a short read the next one starts at the beginning of the entry again |
| `server_graceful_exit` | a signal between the loop test and `accept` leaves main blocked |
| `server_timestamps` | a client that closes before a newline keeps the mutex taken, and no timestamp is written |

More disagreements have no run of their own, most of them because reading the
lines shows them:

- a write that completes a partial one adds only its own bytes (`aesdchar.h:36`
  says the saved input waits for the newline);
- `check_thread_exit` joins a running thread under the comment "Thread is
  terminated" (`aesdsocket_thread.c:25`; `aesdsocket.h:43` has "true if
  terminated"), which serialises the server; no property says that this is right,
  `WorkersGoneBeforeCleanup` only that nothing is destroyed too early;
- main returns success when it could not remove the file
  (`aesdsocket.c:262-268`), so `RunsAsInstance` does not claim that a success
  means that the file is gone;
- "stop all thread" (`aesdsocket.c:250`) does not stop the timer: its threads
  may still be there when main closes the stream;
- a server started while another shuts down can lose the file it serves from,
  which is removed by name (`aesdsocket.c:262`); `LoneServerKeepsFile` states
  the condition under which it does not;
- do_system returns true for a command that exits with an error, and false after
  any earlier error of the thread (`systemcalls.c:12-15` says otherwise);
- do_exec reports whichever child ends first, which need not be its own
  (`systemcalls.c:50-53`), and takes a killed command for a success;
  `LoneCallsAreExact` claims of these two functions only what the code does;
- do_exec_redirect never closes the file (`systemcalls.c:114` says it will);
- threadfunc sets thread_complete_success also when it did not get the mutex
  (`threading.c:21-27`), so that `JoinedIsDone` does not say that it had it;
- start_thread_obtaining_mutex stores its two waits the wrong way round
  (`threading.c:46-48` against `threading.h:29-30`).

## 4. Properties

Every property is stated in a comment above its definition. The ones a reader
should start with:

- `RefinesRecentEntries` (buffer): two indices and a flag implement a window.
  It also says what a failed lookup does: the window is forgotten, the entries
  stay behind as leftovers that lookups still see, in rotated order.
- `OwnedBlocksLive` (driver): slots, `temp_char_buffer` and the writers in
  flight own disjoint live blocks. This is the reason none of the five `kfree`
  calls frees another owner's memory, in spite of the index reset. It does not
  cover a reader past `up_read`, and `driver_use_after_free` shows why not.
- `ScanSeesStableEntries` (driver): lookups write `in_offs`, `out_offs` and
  `full` while sharing the lock, but no search sees an entry change.
- `PacketsContiguous`, `ReplyEndsWithOwnLine` (server): what the assignment
  asks of the file and of the replies.
- `WorkersGoneBeforeCleanup` (server): holds although nodes are joined again
  and again under ids that may be reused, because a new thread is joined before
  the next `accept`.
- `LoneServerKeepsFile` (instances): the condition under which the server's use
  of one fixed file name is safe: what it flushed is under TEMP_PATH, and from the
  close of the stream all it wrote. It needs the previous instance to be gone, not
  only to have given up the port.
- `ServesAtomically` (server): the abstract specification a client could be
  given. A client that sent no line gets a prefix of the log or nothing; one
  that did gets the log up to its line; whatever kills the process (a signal,
  SIGPIPE, a failed malloc, no descriptor), what a client was sent is in the file.
- `RunsAsInstance` (server): what the other instances on the machine can see of
  the threads. It rests on the timer, which is never deleted, not getting a
  record into the file once the stream is closed, and on the stream being closed,
  hence all records being in the file, before the port is given up.
- `ForegroundSuccessServed` (instances): of all the values main may return, after
  the truncation to a byte, only that of the last line is seen as 0.
- `FindMatchesConcatenation` (buffer): the running subtraction of the search
  loop against "all buffer strings concatenated", written as such.
- `Linked` (queue): the shape every macro assumes and re-establishes.
- `ChildrenAccounted` (system calls): calls rob each other of children, yet
  whoever takes a child leaves one of its own, so no wait comes away empty.
- `LoneCallsAreExact` (system calls): the condition under which the result is
  about the caller's own command: true only if it was started, and for the two
  exec functions true exactly when it exited with 0, if it was not killed. A left over zombie breaks it as much as a concurrent call does.
- `ThreadsReturn` (threading): waiters cannot starve each other for ever, although
  the mutex is not fair.

## 5. Proofs

All theorems hold for every value of the constants that meets the module's
`ASSUME`s: ring size 1 to 256 (the indices are `uint8_t`), any set of
processes, any number of accepts, parts, expiries, ids, signals and
descriptors, any finite set of callers and children, any sets of threads,
mutexes, blocks, queues and elements.

**CircularBufferProofs.** `CircularBufferLemmas` has the modular arithmetic of
the indices and what each operator does to type, index agreement and block
ownership. The inductive invariant joins `TypeOK`, `IndicesConsistent`,
`ReturnedIsGone` and the fact that every stored block was added before, without
which a new block could coincide with a stored one. `Refinement` maps the
ring to `RecentEntries`: an add with `full` is `AddEvicting`, since the slot
written is the one read first; an add without is `AddToRoom`, since `out_offs`
is 0 then; a failed lookup is `Forget` with rotation by `-out_offs`.

`LookupAlwaysExact` compares the search loop with the concatenation. Both are
recursive functions, and the library's induction rules cannot be used, so the
argument is one by least counterexample: `LeastNumber` (from `WFMin` and
`NatLessThanWellFounded`) gives the first place where two functions differ. A
recursive function is a `CHOOSE`; a closed form that satisfies its equation
shows that the choice exists, and the least place where the choice differs from
the closed form contradicts the equation. The closed form is written with
`Offsets`, the running sums of the sizes: `CharOffsetLeft` says that what is
left in iteration i is `char_offset` minus the i-th sum, `OneStringHolds` that
one string holds each position, `FindResult` what the loop returns, and
`ConcatenationValue` what `FlattenSeq` has at each place.

**AesdCharProofs.** `OwnedBlocksLive` is not inductive: when `add_entry` hands
back an entry, it is the slot overwritten only if `full` implies
`in_offs = out_offs`, and a writer's block is live only if it has one. The
invariant is

    IInv == TypeOK /\ IndicesAgree(buffer) /\ FilesOpen /\ SemAgrees
                   /\ WriterHasBlock /\ OwnedBlocksLive

where `SemAgrees` ties the semaphore to the labels (this gives mutual
exclusion, hence `DroppedOnlyUnderContention` and `ScanSeesStableEntries` as
action properties) and `FilesOpen` says that a process inside a call has its
file open, so that no reload happens under it.

Two theorems are about the properties that the runs `driver_leak` and
`driver_use_after_free` find violated: they show that the one cause the run
exhibits is the only one. `LeakNeedsFailedRead` proves `OverwrittenEntriesFreed`
of every behaviour without a failed lookup, from `UnusedSlotsEmpty` (in a ring
that is not full nothing lies behind the entries, which the index reset breaks).
`UseAfterFreeNeedsOverlap` proves `CopyFromLiveBlock` of every behaviour in which
no line is added while a reader past `up_read` uses an entry, which is what
holding the semaphore until the copy is over would give; its invariant
`EntriesInUse` says that the entry a reader uses has a block, the one it is about
to copy. Failed lookups, dropped writes and reloads are among those behaviours.

**AesdSocketProofs.** The invariant is

    IInv == TypeOK /\ AcceptCounted /\ JoinAgrees /\ LockAgrees
                   /\ StreamAgrees /\ ReplyAgrees /\ ConnAgrees /\ RecordsAgree
                   /\ FileAgrees

`AcceptCounted` says which workers exist at each place of main and that accept
is interrupted at most once. `JoinAgrees` is the heart: outside `insert` and
`reap` every started worker was joined; in `insert` only the last one was not, and
in `reap` that one has its id in the part of the list the cursor has yet to visit.
`LockAgrees` ties the mutex to the labels, `StreamAgrees` says that the author
at the end of the stream is the only one who may still write there,
`ReplyAgrees` that a worker about to answer after its line has that line last
and flushed. `ConnAgrees` says that a connection the client did not reset is
open only while its worker is at it; with it `DescriptorsAlwaysReturned` shows
that whenever main is back at accept, or past its loop, only connections whose
client reset them are still open.
`RecordsAgree` keeps the authors of packets and of timestamps apart. `FileAgrees`
says that what a client was sent is in the file, that everything is once the
stream is closed, and that the file is removed only on the way out.

`AlwaysServesAtomically` shows that the server implements `PacketLog`. The log
of the abstract specification is what the stream holds without the records of
the worker that has the mutex. `CommittedIsPrefix` proves that this is a prefix
of the stream: the records of the holder start at a least position
(`LeastNumber`), and by `PacketsContiguous` nobody else writes behind it. The
unlock then is the step `Serve` (`UnlockCommits`), a write of the timer is
`Stamp`, and every other step of a living process leaves the log alone (`LogStep`).
A step that kills the process is `Crash` (`KillIsCrash`): the file is a prefix of
the stream that has all answered records (`FileAgrees`), and what it has beyond
the log is by the one worker that holds the mutex.

`AlwaysRunsAsInstance` shows the refinement of a serving instance. `OutsideView`
sorts the steps of all threads by what they do to main's place, the stream and
the file: a record is added only while the port is still held, because
`LockAgrees` has the stream open exactly until main closes it, which is before
the socket; and TEMP_PATH changes only in the last step. `FlushIsFlushTo`
translates a change of `flushed` into that of the file's contents, and `LifeStep`
gives each kind of step its action of `AesdSocketInstances`.

**AesdSocketInstancesProofs.** `OneServer` follows from the listener being the
instance that serves. `LoneServerKeepsFile` needs the strengthening
`FileAgrees`: an active instance that never shared the file is the only active
one, so nobody else can truncate, overwrite or remove it; `FlushFacts` says what
flushing does to a file that others may have written to. `SuccessMeansServed`
rests on `ErrorsReported`: no value of `ErrorReturns` is 0 modulo 256, at any
place, which for getaddrinfo needs the range of the EAI codes. The timer's theorem
rests on `TenSeconds`: adding a whole number of seconds never reaches the carry
that `timespec_add` gets wrong.

**TailQueueProofs.** `IInv == TypeOK /\ OnOneList /\ Linked`. `OnOneList` (no
element is on two queues, or twice on one) makes the cells of all queues
distinct, so that an assignment through one pointer leaves the links of every
other element alone. `QueueLoops` follows from `Linked` alone, for queues of any
length, again by the least round in which a loop differs from the list
(`SameRounds`). The four insertions are one change of links, `LinkIn`,
proved once; removal, concatenation and swap have a lemma each. That the
kernel's four checks never panic follows from `Linked` alone.

**SystemCallsProofs.** `IInv == TypeOK /\ ChildrenAccounted /\ PlaceAgrees
/\ LoneAgrees`. `ChildrenAccounted` is an equation between cardinalities: the
lemmas `CountFork`, `CountReap` and `CountStolen` are its three kinds of step.
It gives `StatusAlwaysStored`: a thread inside `wait` always finds a child, so
`status` is never read uninitialized even when another call took its child.
`PlaceAgrees` ties the place of a thread to the call it is in and to its child
and file. `LoneAgrees` says that a call that was never overlapped has the only
child; together with `StatusValue`, which decodes the 16-bit status, it gives
`LoneCallsAlwaysExact`.

**ThreadingProofs.** `IInv == TypeOK /\ BlocksAccounted /\ JoinedIsDone /\
HoldersAgree`. `BlocksAccounted` says that every allocated block belongs to
exactly one thread or was lost by a failed `pthread_create`; it is what keeps
two threads from sharing a `thread_data`. `HoldersAgree` is needed because the
code unlocks whatever mutex its block names: it is the one that was locked.
`TypeOK` says that a thread has a block to dereference at every place; a step past
the failed malloc would break it.

**Only model-checked.** Liveness (`CallsReturn` of the driver and of the system
calls, `ThreadsReturn`, and the four of the server): fairness is out of the
prover's reach. Every other property of the passing runs is stated by a theorem.

## 6. Plan

The order is that of importance: the driver with its buffer and the running
server carry the program's logic; the instances of the server follow; the
vendored list and the two example libraries come last.

Done: all of these, with the theorems above: circular buffer, driver, running
server with its descriptors and its two refinements, instances, tail queue,
system calls, threading.

Left:

1. The third violated property of the driver, `ReadStartsAtFpos`, still lacks
   the theorem that names its causes: short reads, lookups past the end and
   evictions between two reads of a file.
2. The `_FROM` and `_SAFE` loops of the tail queue.

## 7. Not modelled

- Finder and writer: short sequential programs; nothing runs concurrently and
  no state outlives a call. The autotest example returns constants; scripts,
  build files and CI run external commands.
- Writes of zero bytes to the driver: what `strstr` does with the pointer that
  `kmalloc(0)` returns is the kernel's. A process that dies inside the lock is
  in the model for the other reason the code has, the unchecked `kmalloc`.
- `AESD_CIRCULAR_BUFFER_FOREACH`, and the SLIST, STAILQ and LIST macros of
  `queue.h`: no code here uses them. The `_FROM` and `_SAFE` loops of TAILQ
  differ from the plain ones only in where they start and in reading the next
  element early.
- `get_client_info`, which formats an address for the log.
- In the system calls, what a command does and the stdio buffers a child
  inherits; in the threading example, how long the two sleeps are: each takes
  any time.

Components and reasons are listed in `PROJECT.json`.
