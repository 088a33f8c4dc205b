# Verification of SAIO

SAIO lets an event-driven server hand its system calls to kernel threads. A
preloaded library replaces `close`, `sendfile`, `write`, `send`, `sendmsg` and
`shutdown` by wrappers. Between `batch_start` and `batch_flush` a wrapper writes
the call into a table in shared memory and reports success at once. A kernel
worker reads the table and performs the call. This directory models that
machinery in TLA+, checks it with TLC and proves the central facts with TLAPS.

## The system

| part | code | state | operations |
|---|---|---|---|
| shared table | `module/include/esca.h`, `wrapper/preload.c` | ring of entries (`sysnum`, `args`, `rstatus`), `head_*`, `tail_*`, `flags`, `idle_time` | `batch_start`, `batch_flush`, `toggle_region`, `update_index`, the body shared by all wrappers |
| kernel worker | `module/lioo.c` | `i`, `j`, `timeout`, `submitted[]`, wait queue | `worker`, `indirect_call`, `sys_esca_wakeup`, `sys_esca_wait` |
| wrappers | `wrapper/{ngx,ngx_tls,ngx_ktls,lighty,redis,echo,mcached}.c` | `in_segment`, `batch_num`; the descriptors they act on | one function per system call |
| registration | `preload.c`, `lioo.c`, the nginx and lighttpd patches | `table[]`, `shared_info_pinned_pages`, the kernel workers | `init_worker`, `sys_esca_register` |
| configuration | `preload.c`, `lioo.c`, `esca.conf` | the configuration variables of the library and of the module | `setup`, `init_config`, `sys_esca_init_config` |
| buffer pools | `mcached.c`, `ngx_tls.c`, `lighty.c` | `mpool`, `iovpool`, `msgpool`, `off_arr` and their offsets | inside the wrappers |
| memory layout | `preload.c`, `lioo.c`, `esca.h` | `user_tables[]` and `tables[]` | address arithmetic |
| system call hooks | `lioo.c`, `module/lib` | four slots of the system call table, the write protection | `lioo_init`, `lioo_exit` |
| echo programs | `echo/` | epoll server, io_uring server, load generator | event loops, completion handlers, client threads |
| other servers | `patches/` | - | where `batch_start`, `batch_flush` and `init_worker` are called |

How they interact. A server process has one set of `RATIO` tables. Its wrappers
choose a table of the set by a descriptor. Each table has its own kernel
worker, so the workers of one set run concurrently with each other and with the
process. The worker polls the entry at the head; after `idle_time` without work
it raises `ESCA_WORKER_NEED_WAKEUP` in the shared flag word and sleeps. Only
`batch_start` looks at that flag; a wrapper does not.

What makes it hard: the process and the worker share the ring and the flag word
without a lock, and read-modify-write both; a wrapper moves the tail before it
marks the entry busy; head and tail are two words each; the worker may go to
sleep at any moment; calls are reported done before they are performed; a
process may be killed at any moment; registration shares a variable between
processes. `PROJECT.json` lists these hazards with their lines and the
properties that cover them.

What should be true of each part:

- table and worker: the calls are performed once each, in order, with their own
  arguments; no entry is overwritten while it waits; a sleeping worker is always
  flagged and is woken; every call is performed in the end; the worker leaves
  when its process does;
- wrappers: a call acts on the file the program meant; calls that depend on each
  other keep their order; the program's view of its descriptors stays true;
- registration: a process is served by its own workers through its own tables;
  `init_worker` returns;
- pools: a queued call still finds its own bytes when it is performed;
- layout: both sides mean the same memory by the same entry;
- module: the system call table is put back as it was, no worker runs code that
  has been freed, and the module works with the configuration its process read;
- echo programs: every request is answered once, with its own bytes, and a
  measurement ends.

## Modules

**`EscaTable`** models one table, the process that fills it and its worker.
Every load and store of a shared word is one step. `upc` and `wpc` are the
positions of the two threads; `ui`, `uj`, `uflags` and `wi`, `wj`, `wtail`,
`wflags` are their locals. A call is its number in program order: a wrapper
stores that number as `sysnum` and then as `args`, so an entry made of two calls
can be told from a real one.

| code | actions |
|---|---|
| `batch_start` | `BatchStart`, `StartCheck`, `StartLoad`, `StartStore`, (`sys_esca_wakeup`:) `WakeupCheck`, `WakeupWake`, `StartLoad`, `StartClear` |
| `batch_flush`, `toggle_region` | `BatchFlush`, `ToggleRegion` |
| a wrapper with `update_index` | `FillEntry`, `FillArgs`, `SpinFull`, `AdvanceEntry`, `AdvanceTable`, `SetBusy` |
| `worker`, waiting | `LoadHead`, `Poll`, `PrepareToWait`, `WorkerLoad`, `NeedStore`, `Recheck`, `Schedule`, `ClearNeedStore` |
| `worker`, performing | `LoadTailTable`, `LoadTailEntry`, `IndirectCall`, `RetireEntry`, `PublishHeadTable`, `PublishHeadEntry` |
| time, end of the process | `Tick`, `ProcessExit` |

Abstractions. The timeout is `expired`, `armed`, or `fresh` (armed since the
current `batch_start` began). A poll that finds nothing before the timeout
changes nothing and is a stuttering step. `sys_esca_wait` waits for the constant
condition 1, so `batch_flush` does not wait and `wq` has no sleeper. The
argument registers of `indirect_call` and the result in `sysret`, which nobody
reads, are left out. Stores become visible in program order, as on x86-64. The
library is built without optimisation (`wrapper/Makefile`), so its loads and
stores are those of the source. In the kernel module the compiler may swap the
two loads of the tail or the two stores of the head; the module keeps the
source's order. With one table, the case of the theorems about the ring, the
`_table` words never change and the order makes no difference.

**`OffloadQueue`** says what a table promises: a first-in first-out queue of
calls. **`EscaTableQueue`** states that `EscaTable` implements it. The queue is
what lies from the next entry to be performed up to the tail, so a call is
accepted by the store of `tail_entry` and not by the store of `rstatus`.

**`FdDispatch`** models a set of tables, each as such a queue, the wrappers of
all targets with the descriptor each one uses to choose a table, direct calls,
and the kernel's descriptor table, from which a new file gets the lowest free
number. `held` is what the program believes open, `fdtable` what is open. The
sockets and files a program opens and the order of its calls are arbitrary.

**`EscaRegister`** models the configuration, the fork of user workers with
increasing index, `init_worker`, `sys_esca_register` in the steps another
process can come between, and the death of processes. Header pages and entry
pages are known by the process that allocated them.

**`CallBuffers`** models the memory queued calls refer to: the byte, iovec and
header pools of `mcached.c` and `ngx_tls.c`, which are used round and round, and
`lighty.c`'s offset for each entry. Calls go to the tables in any order and
workers perform them at any time; `Reads` is what the kernel would read for a
queued call at this moment. `alloc` is a history variable that counts what was
taken from each pool. `MayCall`, which paces the program, is an assumption about
the server and models no line of the code. `sendmsg` of `mcached.c` is three actions, because workers
run while it copies: `sendmsg` (up to its loop), `sendmsg_piece` (a turn of the
loop) and `sendmsg_submit` (the header and the entry); `sending` holds its
locals in between. `ngx_tls_write`, `lighty_sendfile` and `worker` are the others.

**`TableLayout`** has the two ways to compute the address of an entry, as byte
offsets. `sizeof` of an entry is a constant.

**`LiooModule`** models the module's life: `lioo_init` and `lioo_exit` one store
to the system call table at a time, with write protection per CPU on x86-64
(CR0) and for all CPUs on arm64 (page attributes), and a loader that may be moved
to another CPU (`Move`). Against it runs one preloaded process: the scan of the
configuration file with `fscanf`, `init_config`, the two system calls, and its
death. A file is a sequence of words; memory from `malloc` holds anything of
`Garbage`. `moves` and `careless` are history variables that say whether the
loader was moved and whether the module was loaded or unloaded while a preloaded
process existed. Both the library and the module divide by `max_usr_worker`
untested; `Quotient` traps on x86-64, where the process then dies in
`init_config`, and yields 0 on arm64, where it goes on and registers no worker.

**`Rps`**, **`EpollEcho`** and **`UringEcho`** are the programs in `echo/`;
**`EchoBench`** composes the load generator with each server. `Rps` also has the
network: reliable, in order on each connection, requests that fit a segment. A
request is `<<c, n>>`, the n-th of client c, so that a swapped answer shows;
`rps.c` itself sends the same bytes everywhere and could not tell. `EpollEcho` is
run as `"epoll"` (with the dummy library, whose functions are empty) and as
`"esca"` (preloaded: `send` queues a pointer into the server's one buffer, the
worker may be asleep). Edge-triggered reports are modelled by the number of
arrivals on a connection. `UringEcho` has the submission queue, operations under
way, completions and the buffer group.

| code | actions |
|---|---|
| `rps.c` `main` | `create_worker`, `broadcast`, `stop`, `join` |
| `rps.c` thread | `wait_ready`, `connect`, `ask`, `answer`, `lost`, `finish`, `die` |
| `epoll_echo_server.c` | `epoll_wait` with `batch_start`, `accept4`, `accept4_error`, `recv_send`, `recv_end`, `batch_flush` |
| kernel worker | `Perform`, and falling asleep |
| `io_uring_echo_server.c` | `submit`, `wait_cqe`, `for_each_cqe` (all handlers of one completion), `cq_advance` |
| io_uring | `KernelAccept`, `KernelRefuse`, `KernelRead`, `KernelNoBufs`, `KernelWrite` |

`MCEscaTable`, `MCEscaRegister`, `MCLiooModule` and `MCEchoBench` are the
modules TLC runs; `FdDispatch` and `CallBuffers` are run directly. The proofs are
in `EscaTableProof`, `FdDispatchProof`, `RegisterProof`, `CallBuffersProof`,
`LiooProof` and, for the echo programs, `EchoProof` (types, and where the buffers
are), `EchoServedProof` (what the clients get) and `EchoRoomProof` (what the
io_uring server needs); the last two extend the first.
Definitions marked "Faulty variant" are plausible mistakes in the definition
that follows them. They take no part in the specifications; each shows that some
property would notice the mistake.

## Runs

| run | instance | what it shows |
|---|---|---|
| `ring_paced` | 1 table of 3 entries, 5 calls, at most 2 outstanding, any timing | `TypeOK`, `ExecutedInOrder`, `NoOverwrite`, `ImplementsQueue` |
| `wakeup` | 1 table of 3 entries, 3 calls, ring may fill up, idle time outlasts a `batch_start` | `SleeperFlagged`, `StartWakes`, `WorkerExits`; while an entry stays free, `MarkedInTime`, and `CallsComplete` for programs that return to `batch_start` |
| `dispatch` | all targets, 1 and 2 kernel workers, 3 descriptors, 4 files, 3 calls | `TypeOK`, `HeldIsOpen`, `QueuedActsOnMeantFile`, `StreamOrder`, `FileOrder` |
| `register` | 3 processes, 4 configurations, restarts, registration one at a time | `TypeOK`, `SetServed`, `NoHijack`, `InitReturns` |
| `buffers` | a ring of 3 entries, at most 2 calls waiting in it, 4 calls of up to 2 pieces of up to 2 bytes, 1 and 2 workers, pools of 9 bytes, 4 iovecs, 2 headers | `OffsetsInPools`, `SentAsMeant`, `PoolsHoldTable` |
| `bench` | 2 clients, 2 requests each, all three servers, 0 or 1 refused connection, io_uring with enough and with too few buffers or entries | `OneEcho`, `OwnBytes`, `BuffersAccounted`, `ServerSurvives`, `ReportComplete`, `BenchEnds` |
| `module` | x86-64 and arm64, 2 CPUs, 1 move, files of two lines out of eight, and no file | `TableWhole`, `CodePresent`, `WorkerConfigured`, `KernelDivides`, `ParsedAsWritten`, `SameMemory` |
| `v_overwrite` | 1 table of 2 entries, ring may fill up | `NoOverwrite` fails: the full test does not wrap |
| `v_torn_tail` | 2 tables of 3 entries | `ExecutedInOrder` fails: the tail is read between its two stores |
| `v_ngx_two` | nginx, 2 kernel workers | `ActsOnMeantFile` fails: a close overtakes a sendfile |
| `v_pinned` | 2 processes register at the same time | `SetServed` fails: one gets the header page of the other |
| `v_echo_hang` | the preloaded echo server, idle time may end inside a segment | `BenchEnds` fails: the echo waits for a worker that nobody wakes |

The passing runs of the ring, and the ring theorems below, have one table. The
shipped `esca.conf` sets `max_table_len = 10`, and for several tables
`v_torn_tail` shows that the promises of the ring do not hold.

The runs named `v_` end with a counterexample; `PROJECT.json` ("findings") says
which comment of the code each one contradicts.

Bounds. Three entries are the fewest with which the tail can wrap while entries
before and after the wrap wait and one entry stays free; five calls take the
ring round almost twice. The worker's local state depends only on the ring, so
more calls repeat these positions. Two tables of two entries exercise all
advances of `tail_table` and the full test. Three descriptors and four files
force the reuse of a descriptor number while a call on the old one is queued; a
sendfile needs two descriptors. Three processes allow two at once and a
replacement, which is where an index passes the limit. Two clients are the
fewest that can share a buffer or a round of completions. In `buffers` all pools
wrap within four calls, and the pools are exactly as large as
`PoolsHoldTable` asks for; smaller ones let it fail. Two lines of a
configuration file are enough for one to spoil the next, and one move falls at
every point of the loader.

Conditions. Several properties are implications, and each condition was seen to
be needed: without it TLC finds a counterexample.

- `SentAsMeant` asks that no pool has gone round since the call was queued and
  that the message's iovecs do not run over the end of `iovpool`. The code
  ensures neither. `PoolsHoldTable` says when the first is certain.
- `QueuedActsOnMeantFile` is about nginx with one kernel worker and closes made in
  a segment. The other servers close directly, and so does nginx outside a
  segment; nothing holds such a close back for the calls queued on the file, and
  a redis `write` can be performed on a closed descriptor, or on a connection
  that got its number since.
- `OwnBytes` leaves out the preloaded server: its queued send points into the
  one buffer the next request is received into.
- `TableWhole` asks that the loader stays on its CPU: on x86-64 a moved loader
  faults, or leaves a CPU without write protection.
- `CodePresent`, `WorkerConfigured`, `SameMemory` and the second part of
  `KernelDivides` (no worker divides by 0) ask that the module is not
  loaded or unloaded under a preloaded process: `lioo_exit` stops no worker, and
  `setup` does not look whether its `esca_config` call succeeded.
- `SameMemory` also asks that a table fills its page, as the shipped 64 entries
  of 64 bytes do, or that there is one table.
- `ServerSurvives` names the sizes the io_uring server needs: a buffer for each
  connection and two submission entries for each. The source has 4096
  buffers and connections, but 2048 entries.

The workload constant `MaxOutstanding` says how many entries the program lets
lie between head and tail. The code does not enforce it: its full test misses
the wrap, as `v_overwrite` shows. `MaxOutstanding < MAX_TABLE_ENTRY` is
therefore an assumption about the server, not a fact about SAIO.
`IdleCoversStart` says that an idle time (150 ms by default) that begins during
a `batch_start` outlasts that `batch_start` (a few instructions and a system
call). Without it the flag word can lose a flag and `SleeperFlagged` fails. `EventLoop`,
the premise of `CallsComplete`, says that the program keeps returning to
`batch_start` and never has all entries waiting; `MarkedInTime` has the second
half of that premise alone. Without it both fail: a full ring reads as empty and
the worker performs nothing, or, when the full test does hit, the process loops
in `update_index` for a worker that sleeps until its next `batch_start`. No
property says that this loop ends, because it need not. `NoTimeoutInSegment` says that the idle time
does not end between `batch_start` and `batch_flush`; `v_echo_hang` shows that
`BenchEnds` needs it. `ForkOverlap`
says whether a user worker may be forked while another is inside `init_worker`;
nginx does so as soon as it has two workers. With `max_usr_worker = 1`, the
shipped configuration, there is no overlap either way.

Deadlock is not checked: a program may stop calling the library, a worker whose
process has ended has nothing left to do, and the bounds on calls end every
behaviour.

Fairness. `FairSpec` of `EscaTable` has weak fairness of the library's code, of
the worker and of time: both are runnable threads of a preemptive kernel, and
jiffies advance. A sleeping worker is not enabled, so fairness does not wake it.
Nothing makes the program call the library, except in `EventLoop`: strong
fairness of `BatchStart` for the servers, whose event loop reaches `batch_start`
in every round; a program stuck inside a wrapper gets no help from it, because
`BatchStart` is not enabled there. `Spec` of `EchoBench` has weak fairness of the
generator's threads, of the server, of an awake worker and of the kernel's
completions; refusing connections and falling asleep are not fair. `FairSpec` of `EscaRegister` has weak
fairness of the steps of `init_worker`.

## Proofs

| theorem | statement | assumption |
|---|---|---|
| `EscaTableProof!TypeCorrect` | `Spec => []TypeOK` | none: any geometry |
| `EscaTableProof!SleeperIsFlagged` | `Spec => []SleeperFlagged` | `IdleCoversStart` |
| `EscaTableProof!CallsInOrder` | `Spec => []ExecutedInOrder` | `Paced` |
| `EscaTableProof!NeverOverwrites` | `Spec => []NoOverwrite` | `Paced` |
| `EscaTableProof!RingImplementsQueue` | `Spec => ImplementsQueue` | `Paced` |
| `FdDispatchProof!DispatchTypeCorrect` | `Spec => []TypeOK` | none: any targets, tables, descriptors |
| `FdDispatchProof!HeldStaysOpen` | `Spec => []HeldIsOpen` | none |
| `FdDispatchProof!StreamsKeepOrder` | `Spec => []StreamOrder` | none |
| `FdDispatchProof!FilesKeepOrder` | `Spec => []FileOrder` | none |
| `FdDispatchProof!QueuedCallsFindTheirFiles` | `Spec => []QueuedActsOnMeantFile` | none; the property names the target and the number of tables |
| `RegisterProof!RegisterTypeCorrect` | `Spec => []TypeOK` | `~ForkOverlap` |
| `RegisterProof!OwnTables` | `Spec => []SetServed` | `~ForkOverlap` |
| `RegisterProof!NeverHijacked` | `Spec => NoHijack` | `~ForkOverlap` |
| `LiooProof!FilledPagesAreShared`, `SharedPagesAreFilled` | both sides mean the same bytes, if and (from two tables on) only if a table fills its page | none: any sizes |
| `LiooProof!TableStaysWhole` | `Spec => []TableWhole` | any CPUs, any number of loads |
| `LiooProof!WorkersHaveCode` | `Spec => []CodePresent` | none |
| `LiooProof!WorkersAreConfigured` | `Spec => []WorkerConfigured` | none |
| `LiooProof!KernelNeverFaults` | `Spec => []KernelDivides` | numbers in the file and in unset memory are not negative |
| `LiooProof!WorkersShareMemory` | `Spec => []SameMemory` | the same |
| `LiooProof!FileIsParsed` | `Spec => []ParsedAsWritten` | any files, any keys other than `=` |
| `CallBuffersProof!OffsetsStayInPools` | `Spec => []OffsetsInPools` | a copy fits the pool |
| `CallBuffersProof!KernelReadsWhatWasMeant` | `Spec => []SentAsMeant` | the same; fewer calls wait than the ring has entries |
| `CallBuffersProof!PoolsAsLargeAsTheTable` | `Spec => []PoolsHoldTable` | the same; the property names the sizes |
| `CallBuffersProof!RoomyPoolsSendAsMeant` | with those sizes a call is sent as meant, however late the worker | the same |
| `EchoProof!EachBufferInOnePlace` | `Spec => []BuffersAccounted` | any finite number of clients, any sizes |
| `EchoServedProof!EveryRequestEchoedOnce` | `Spec => []OneEcho` | the same; all three servers |
| `EchoServedProof!EachClientGetsItsOwnBytes` | `Spec => []OwnBytes` | the same; the property names the servers |
| `EchoServedProof!TheReportIsComplete` | `Spec => []ReportComplete` | the same; all three servers |
| `EchoRoomProof!TheServerSurvives` | `Spec => []ServerSurvives` | the same; the property names the sizes |

`Paced` is one table, of any length, and `MaxOutstanding < MAX_TABLE_ENTRY`. The
shipped configuration has ten tables, so the three theorems that need `Paced` do
not speak about it.

- *Types.* `TypeOK` is inductive. What needs an argument is that `Distance` of
  two ring indices is below the size of the ring, hence that `submitted` is, and
  that it is positive wherever the worker decrements it.
- *Flags.* `SleeperFlagged` is not inductive: `uflags` may hold an old copy of
  the word. `SleepInv` adds that from its raising of the flag to its wake-up the
  worker's flag is in the word, and that a process about to store its copy holds
  one with the flag in it whenever that could matter. The timing assumption
  enters in one place: the worker cannot go round from clearing the flag to
  raising it within one `batch_start`.
- *Ring.* `RingInv` counts. The entries from the worker to the tail hold the
  calls from `Len(done) + 1` on; the head lies behind the worker by the number
  of entries retired and not published; head to tail is never more than
  `MaxOutstanding`, because the program paces itself on the published head. The
  status words do not occur in it: an entry is protected by head and tail alone,
  so the order of the tail and status stores does no harm within these bounds.
- *Queue.* From `RingInv`, the pending calls are the next calls in program order
  (`PendingIsNext`); `AdvanceEntry` appends one, `IndirectCall` removes the
  first, every other step leaves them alone.
- *Descriptors.* `DispatchInv`: a queued close names a file that is still open
  and no longer held, and no file has two closes queued. So a number with a
  close queued is not free and cannot be given out again.
- *Order.* `NameInv`: a file number is used once and keeps its descriptor, so two
  queued calls on one file (the socket, or for nginx the file that is read) have
  the same key descriptor, hence the same table. `WaitOrder` and `DoneOrder`: the
  calls of one table wait, and were performed, in the order of the program.
- *Meaning.* `MeantInv`: after a queued close no call on its descriptor follows
  in its table, because the program no longer holds it. So with one table the
  close is performed after every call it could harm.
- *Registration.* `RegInv`: at most one process is inside `init_worker`; live
  processes have different indices, hence disjoint sets of tables; the header
  page pinned last is that of the process about to map it; the tables a process
  has been through lead to its own headers and pages, and the kernel workers
  with those numbers are its own.
- *Module.* `LiooInv` follows the loader: how much of the table is hooked or put
  back at each of its steps, that the saved slots are the original ones, that the
  table is open exactly on the loader's CPU while it stores; and the process: the
  module stands still while a process exists, and from `esca_config` on the two
  configurations agree. `Placed` carries what `KernelDivides` needs: at the
  system call the process has itself divided the same two numbers on the same
  machine, and a process with a worker has a positive `RATIO`.
- *Parsing.* `ScanInv`: of the places before the position that set a key, the last
  has given the key its value. A round of `fscanf` never passes a place it does
  not start at (`ScanMissesNone`), because what it passes is `=` or a number.
- *Pools.* A position of a pool is a count modulo its size (`Lap`), so two copies
  less than a pool apart do not overlap (`Apart`). `Held`: for every queued
  message whose pools have not gone round, and for what `sendmsg` has copied so
  far, the header names the iovecs, the iovecs name the bytes and the bytes are
  the caller's. `TlsHeld` is the same for one copy. `OffsetsKept`: the i-th call
  from the tail of a queue has the i-th element behind the tail of `off_arr`, and
  the queue is shorter than the ring, so no live element is written. For
  `PoolsHoldTable`, `Counted` bounds what was used since each queued call by the
  calls behind it. The bytes are the delicate part: a copy that does not fit the
  end of `mpool` leaves that end unused, but at most one of the copies since a
  queued call does so before the pool has gone round past it (`Used`).
- *Echo, places.* The rings of the io_uring server are counted: `Total` is the
  number of entries and completions of a kind in `sq`, `ops` and `cq` together.
  `Weights` says once what each step of the server and the kernel does to the
  total of any kind, and the theorems choose the kinds: those that hold buffer b
  for `BuffersAccounted`, those that carry a request of client c for `OneEcho`.
  In `Types`, besides types: a server that is not measured has nothing to do.
- *Echo, bytes.* `OwnInv`: every buffer that a completion or an entry of client c
  names holds what c asked last (`Content`). A receive takes its buffer from the
  group, and by `BuffersAccounted` such a buffer is named nowhere else; by
  `OneEcho` nothing of c is under way when c asks again.
- *Echo, report.* `Counted`: `total_success` is the sum over the threads that are
  done, and each thread's own count is what it asked, less one while it waits.
  The sum is stated by an enumeration of the threads (`IsSum`); adding a thread
  extends the enumeration (`SumAdd`), so no induction is needed.
- *Echo, room.* `Room` is an argument about order. `Slack` counts the clients the
  server is through with. `Ordered`: in every tail of the submission queue there
  are at most `Slack` more buffers given back than receives. The kernel takes the
  queue from the front, so a receive that finds the group empty has no more
  buffers behind it than there are clients that need none, and every buffer is
  held for a client of its own. `Fits` sets the buffers given back and the accepts
  of a round against its receives and the waiting connections in the same way,
  which leaves at most two entries for each client.

Only model-checked: liveness (`StartWakes`, `WorkerExits`, `CallsComplete`,
`MarkedInTime`, `InitReturns`, `BenchEnds`). TLAPS proves no formulas with
fairness or `ENABLED`. Every safety property the passing runs check is also
proved. Findings are counterexamples of TLC and have nothing to prove.

## Not modelled

- `sys_lioo_exit`, which is never installed.
- How the address of the system call table is found (`symbol.c`). On arm64
  `lioo_exit` leaves the cycle counter running, because the register it writes
  ignores zeros; the model has the user's access to it, which is closed.
- Processes with several threads that use the library. memcached has them, and
  they share `in_segment`, `batch_num` and the pool offsets without a lock; all
  models have one thread for each set of tables.
- The buffers of redis and memcached themselves. `write` of `redis.c` queues the
  caller's pointer; when redis reuses the buffer is not in this repository. The
  echo server shows what can happen.
- arm64's memory order, which is weaker than the models'.
- Unsuccessful allocations, which the code does not test for, negative numbers in
  the configuration file. A process that goes on with a `RATIO` of 0 (fewer
  kernel than user workers, or `max_usr_worker = 0` on arm64) is followed up to
  `init_worker`, which registers nothing; its wrappers, which compute
  `fd % RATIO`, are not.
- A second server with the same worker indices at the same time.
- Results of queued calls: `sysret` is never read, so short and failed calls have
  no effect to model.
- `lighty.c`'s `writev`, which is compiled out. The options, start-up failures
  and output of the echo programs. The echo servers' connections when the
  generator has ended: the epoll server never closes them.

## What would come next

1. `EscaRegister` composed with the start of `EscaTable`: a worker's first steps
   against the last steps of `init_worker`.
2. A variant of the stores of a wrapper in the order arm64 allows.
3. Several threads of one process in `EscaTable`, once the code says what should
   keep them apart.
