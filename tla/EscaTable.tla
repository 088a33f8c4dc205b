----------------------------- MODULE EscaTable -----------------------------
(***************************************************************************)
(* One shared SAIO table: the ring of entries between the wrappers that a  *)
(* user process calls (wrapper/preload.c, wrapper/redis.c and its          *)
(* siblings) and the kernel worker that performs the calls                 *)
(* (module/lioo.c), with the flag word and the wait queue through which    *)
(* the process wakes the worker.                                           *)
(*                                                                         *)
(* Every load and store of a shared word is a step of its own, so all      *)
(* interleavings of the two threads are behaviours of this module.  A read *)
(* followed by a write of the same word (table[j]->flags |= ...) is a load *)
(* step and a store step.  Stores become visible in program order, as on   *)
(* x86-64.                                                                 *)
(***************************************************************************)
EXTENDS Integers, Sequences

CONSTANTS
  MAX_TABLE_LEN,    \* number of tables (pages) in the ring
  MAX_TABLE_ENTRY,  \* entries in one table
  MaxCalls,         \* bound: calls the program offloads in one behaviour
  MaxOutstanding,   \* workload: the program offloads a call only while fewer
                    \* than this many entries lie between head and tail
  IdleCoversStart   \* timing: TRUE if an idle time that starts to run during
                    \* a batch_start outlasts that batch_start

ASSUME TableAssumption ==
  /\ MAX_TABLE_LEN \in Nat \ {0}
  /\ MAX_TABLE_ENTRY \in Nat \ {0}
  /\ MaxCalls \in Nat
  /\ MaxOutstanding \in Nat
  /\ IdleCoversStart \in BOOLEAN

VARIABLES
  \* the entries, shared: tables[i][j].{sysnum, args, rstatus}
  sysnum, args, rstatus,
  \* the header, shared
  head_table, head_entry, tail_table, tail_entry, flags,
  \* the user process: library state, position in the code, locals
  in_segment, batch_num, upc, ui, uj, uflags,
  \* the kernel worker: position in the code, locals, submitted[]
  wpc, wi, wj, wtail, wflags, submitted,
  \* the scheduler's view of the worker
  waiting,   \* on worker_wait in state TASK_INTERRUPTIBLE
  timer,     \* the worker's timeout, see Arm
  sigkill,   \* a SIGKILL is pending for the worker
  \* history
  issued,    \* calls the program has offloaded so far
  done       \* calls the worker has performed, oldest first

entries    == <<sysnum, args, rstatus>>
head       == <<head_table, head_entry>>
tail       == <<tail_table, tail_entry>>
ring       == <<entries, head, tail>>
lib        == <<in_segment, batch_num, issued>>
slot       == <<ui, uj>>
userVars   == <<lib, upc, slot, uflags>>
wslot      == <<wi, wj>>
workerVars == <<wpc, wslot, wtail, wflags, submitted, done>>
schedVars  == <<waiting, timer, sigkill>>
vars       == <<ring, flags, userVars, workerVars, schedVars>>
-----------------------------------------------------------------------------
Tables  == 0 .. MAX_TABLE_LEN - 1
Entries == 0 .. MAX_TABLE_ENTRY - 1
N       == MAX_TABLE_LEN * MAX_TABLE_ENTRY

EMPTY == 0   \* BENTRY_EMPTY
BUSY  == 1   \* BENTRY_BUSY
NEED  == "ESCA_WORKER_NEED_WAKEUP"
START == "ESCA_START_WAKEUP"

\* Positions of the process inside batch_start, from the test of the flags on.
StartPcs == {"check", "set_ld", "set_st", "wakeup", "wake", "clr_ld", "clr_st"}
\* Positions inside a wrapper before the entry it fills is behind the tail.
FillPcs  == {"args", "full", "full_t", "advance"}
UserPcs  == StartPcs \cup FillPcs \cup {"app", "adv_t", "busy", "dead"}
WorkerPcs ==
  {"head", "poll", "prep", "set_ld", "set_st", "recheck", "sched", "woke_ld",
   "woke_st", "clr_ld", "clr_st", "tail", "tail_e", "exec", "clear", "pub_e",
   "exit"}

Index(i, j) == i * MAX_TABLE_ENTRY + j
HeadIndex   == Index(head_table, head_entry)
TailIndex   == Index(tail_table, tail_entry)

\* Faulty variant of Distance: one entry too many when the range wraps.
DistanceOffByOne(h, t) == IF t >= h THEN t - h ELSE N - h + t + 1

\* Entries from ring index h up to ring index t, as the worker counts them.
Distance(h, t) == IF t >= h THEN t - h ELSE N - h + t

\* Faulty variant of StepEntry: the end of the table is found too late.
StepEntryLate(j) == IF j = MAX_TABLE_ENTRY THEN 0 ELSE j + 1

\* The entry after j in its table, or the first of the next table ...
StepEntry(j) == IF j = MAX_TABLE_ENTRY - 1 THEN 0 ELSE j + 1
\* ... and the table after i.
StepTable(i) == IF i = MAX_TABLE_LEN - 1 THEN 0 ELSE i + 1

(***************************************************************************)
(* The worker's timeout.  "expired": jiffies has passed it; "armed": it    *)
(* lies in the future; "fresh": it lies in the future and was set since    *)
(* the batch_start the process is in began.                                *)
(***************************************************************************)
\* Faulty variant of Arm: the timeout is never set again.
ArmNever == UNCHANGED timer

Arm == timer' = IF upc \in StartPcs THEN "fresh" ELSE "armed"

LeaveStart == timer' = IF timer = "fresh" THEN "armed" ELSE timer
-----------------------------------------------------------------------------
(***************************************************************************)
(* The state sys_esca_register leaves behind: every entry empty, head and  *)
(* tail at entry 0, the worker created and its flags announcing that it    *)
(* needs a wake-up.  The pages come from aligned_alloc; 0 stands for the   *)
(* old contents of an entry.  The worker's timeout is 0, long past.        *)
(***************************************************************************)
Init ==
  /\ sysnum  = [i \in Tables |-> [j \in Entries |-> 0]]
  /\ args    = [i \in Tables |-> [j \in Entries |-> 0]]
  /\ rstatus = [i \in Tables |-> [j \in Entries |-> EMPTY]]
  /\ head_table = 0 /\ head_entry = 0 /\ tail_table = 0 /\ tail_entry = 0
  /\ flags = {NEED}
  /\ in_segment = 0 /\ batch_num = 0 /\ issued = 0
  /\ upc = "app" /\ ui = 0 /\ uj = 0 /\ uflags = {}
  /\ wpc = "head" /\ wi = 0 /\ wj = 0 /\ wtail = 0 /\ wflags = {}
  /\ submitted = 0 /\ done = <<>>
  /\ waiting = FALSE /\ timer = "expired" /\ sigkill = FALSE
-----------------------------------------------------------------------------
(***************************************************************************)
(* batch_start and sys_esca_wakeup                                         *)
(***************************************************************************)
BatchStart ==
  /\ upc = "app"
  /\ in_segment' = 1
  /\ upc' = "check"
  /\ UNCHANGED <<ring, flags, batch_num, issued, slot, uflags>>
  /\ UNCHANGED <<workerVars, schedVars>>

\* if (flags & ESCA_WORKER_NEED_WAKEUP), else batch_start returns
StartCheck ==
  /\ upc = "check"
  /\ \/ NEED \in flags /\ upc' = "set_ld" /\ UNCHANGED timer
     \/ NEED \notin flags /\ upc' = "app" /\ LeaveStart
  /\ UNCHANGED <<ring, flags, lib, slot, uflags, workerVars, waiting, sigkill>>

\* The load of flags |= ESCA_START_WAKEUP and of flags &= ~ESCA_START_WAKEUP
StartLoad ==
  /\ \/ upc = "set_ld" /\ upc' = "set_st"
     \/ upc = "clr_ld" /\ upc' = "clr_st"
  /\ uflags' = flags
  /\ UNCHANGED <<ring, flags, lib, slot, workerVars, schedVars>>

\* Faulty variant of StartStore: ESCA_START_WAKEUP is never raised.
StartStoreNoFlag ==
  /\ upc = "set_st"
  /\ flags' = uflags
  /\ upc' = "wakeup"
  /\ UNCHANGED <<ring, lib, slot, uflags, workerVars, schedVars>>

StartStore ==
  /\ upc = "set_st"
  /\ flags' = uflags \cup {START}
  /\ upc' = "wakeup"
  /\ UNCHANGED <<ring, lib, slot, uflags, workerVars, schedVars>>

\* sys_esca_wakeup: the test of the flags, then wake_up
WakeupCheck ==
  /\ upc = "wakeup"
  /\ upc' = IF START \in flags THEN "wake" ELSE "clr_ld"
  /\ UNCHANGED <<ring, flags, lib, slot, uflags, workerVars, schedVars>>

WakeupWake ==
  /\ upc = "wake"
  /\ waiting' = FALSE
  /\ upc' = "clr_ld"
  /\ UNCHANGED <<ring, flags, lib, slot, uflags, workerVars, timer, sigkill>>

StartClear ==
  /\ upc = "clr_st"
  /\ flags' = uflags \ {START}
  /\ upc' = "app"
  /\ LeaveStart
  /\ UNCHANGED <<ring, lib, slot, uflags, workerVars, waiting, sigkill>>

(***************************************************************************)
(* batch_flush.  sys_esca_wait waits for the condition 1, so the call      *)
(* returns without waiting and touches no shared word.                     *)
(***************************************************************************)
BatchFlush ==
  /\ upc = "app"
  /\ in_segment' = 0
  /\ batch_num' = 0
  /\ UNCHANGED <<ring, flags, issued, upc, slot, uflags>>
  /\ UNCHANGED <<workerVars, schedVars>>

ToggleRegion ==
  /\ upc = "app"
  /\ in_segment' = 1 - in_segment
  /\ UNCHANGED <<ring, flags, batch_num, issued, upc, slot, uflags>>
  /\ UNCHANGED <<workerVars, schedVars>>
-----------------------------------------------------------------------------
(***************************************************************************)
(* A wrapped system call inside a segment: fill the entry at the tail,     *)
(* update_index, mark the entry busy.  Outside a segment the wrapper calls *)
(* the C library and touches nothing here.                                 *)
(***************************************************************************)
FillEntry ==
  /\ upc = "app"
  /\ in_segment = 1
  /\ issued < MaxCalls
  /\ Distance(HeadIndex, TailIndex) < MaxOutstanding
  /\ batch_num' = batch_num + 1
  /\ issued' = issued + 1
  /\ ui' = tail_table
  /\ uj' = tail_entry
  /\ sysnum' = [sysnum EXCEPT ![tail_table][tail_entry] = issued + 1]
  /\ upc' = "args"
  /\ UNCHANGED <<args, rstatus, head, tail, flags, in_segment, uflags>>
  /\ UNCHANGED <<workerVars, schedVars>>

FillArgs ==
  /\ upc = "args"
  /\ args' = [args EXCEPT ![ui][uj] = issued]
  /\ upc' = "full"
  /\ UNCHANGED <<sysnum, rstatus, head, tail, flags, lib, slot, uflags>>
  /\ UNCHANGED <<workerVars, schedVars>>

\* while (tail_entry + 1 == head_entry && tail_table == head_table) ;
SpinFull ==
  /\ \/ /\ upc = "full"
        /\ upc' = IF tail_entry + 1 = head_entry THEN "full_t" ELSE "advance"
     \/ /\ upc = "full_t"
        /\ upc' = IF tail_table = head_table THEN "full" ELSE "advance"
  /\ UNCHANGED <<ring, flags, lib, slot, uflags, workerVars, schedVars>>

\* tail_entry is stored first; tail_table only when the entry wrapped
AdvanceEntry ==
  /\ upc = "advance"
  /\ tail_entry' = StepEntry(tail_entry)
  /\ upc' = IF tail_entry = MAX_TABLE_ENTRY - 1 THEN "adv_t" ELSE "busy"
  /\ UNCHANGED <<entries, head, tail_table, flags, lib, slot, uflags>>
  /\ UNCHANGED <<workerVars, schedVars>>

AdvanceTable ==
  /\ upc = "adv_t"
  /\ tail_table' = StepTable(tail_table)
  /\ upc' = "busy"
  /\ UNCHANGED <<entries, head, tail_entry, flags, lib, slot, uflags>>
  /\ UNCHANGED <<workerVars, schedVars>>

\* Faulty variant of SetBusy: the entry is found through the advanced tail.
SetBusyAtTail ==
  /\ upc = "busy"
  /\ rstatus' = [rstatus EXCEPT ![tail_table][tail_entry] = BUSY]
  /\ upc' = "app"
  /\ UNCHANGED <<sysnum, args, head, tail, flags, lib, slot, uflags>>
  /\ UNCHANGED <<workerVars, schedVars>>

SetBusy ==
  /\ upc = "busy"
  /\ rstatus' = [rstatus EXCEPT ![ui][uj] = BUSY]
  /\ upc' = "app"
  /\ UNCHANGED <<sysnum, args, head, tail, flags, lib, slot, uflags>>
  /\ UNCHANGED <<workerVars, schedVars>>

(***************************************************************************)
(* The process exits or is killed, at any point of its code; its I/O       *)
(* threads get SIGKILL.  The pinned pages stay.                            *)
(***************************************************************************)
ProcessExit ==
  /\ upc # "dead"
  /\ upc' = "dead"
  /\ sigkill' = TRUE
  /\ LeaveStart
  /\ UNCHANGED <<ring, flags, lib, slot, uflags, workerVars, waiting>>
-----------------------------------------------------------------------------
(***************************************************************************)
(* The kernel worker waits for the entry at the head.  Until its timeout   *)
(* it polls again and again, which changes nothing.                        *)
(***************************************************************************)
LoadHead ==
  /\ wpc = "head"
  /\ wi' = head_table
  /\ wj' = head_entry
  /\ wpc' = "poll"
  /\ UNCHANGED <<ring, flags, userVars, wtail, wflags, submitted, done>>
  /\ UNCHANGED schedVars

\* Faulty variant of Poll: the loop never looks for a signal.
PollNoSignal ==
  /\ wpc = "poll"
  /\ \/ rstatus[wi][wj] # EMPTY /\ wpc' = "tail"
     \/ rstatus[wi][wj] = EMPTY /\ timer = "expired" /\ wpc' = "prep"
  /\ UNCHANGED <<ring, flags, userVars, wslot, wtail, wflags, submitted, done>>
  /\ UNCHANGED schedVars

Poll ==
  /\ wpc = "poll"
  /\ \/ rstatus[wi][wj] # EMPTY /\ wpc' = "tail"
     \/ rstatus[wi][wj] = EMPTY /\ sigkill /\ wpc' = "exit"
     \/ /\ rstatus[wi][wj] = EMPTY /\ ~sigkill /\ timer = "expired"
        /\ wpc' = "prep"
  /\ UNCHANGED <<ring, flags, userVars, wslot, wtail, wflags, submitted, done>>
  /\ UNCHANGED schedVars

PrepareToWait ==
  /\ wpc = "prep"
  /\ waiting' = TRUE
  /\ wpc' = "set_ld"
  /\ UNCHANGED <<ring, flags, userVars, wslot, wtail, wflags, submitted, done>>
  /\ UNCHANGED <<timer, sigkill>>

\* The load of flags | NEED_WAKEUP and of the two flags & ~NEED_WAKEUP
WorkerLoad ==
  /\ \/ wpc = "set_ld" /\ wpc' = "set_st"
     \/ wpc = "woke_ld" /\ wpc' = "woke_st"
     \/ wpc = "clr_ld" /\ wpc' = "clr_st"
  /\ wflags' = flags
  /\ UNCHANGED <<ring, flags, userVars, wslot, wtail, submitted, done>>
  /\ UNCHANGED schedVars

NeedStore ==
  /\ wpc = "set_st"
  /\ flags' = wflags \cup {NEED}
  /\ wpc' = "recheck"
  /\ UNCHANGED <<ring, userVars, wslot, wtail, wflags, submitted, done>>
  /\ UNCHANGED schedVars

\* Faulty variant of Recheck: the worker goes to sleep without a second look.
RecheckNot ==
  /\ wpc = "recheck" /\ wpc' = "sched"
  /\ UNCHANGED <<ring, flags, userVars, wslot, wtail, wflags, submitted, done>>
  /\ UNCHANGED schedVars

\* The entry is tested again: schedule() if still empty, else finish_wait
Recheck ==
  /\ wpc = "recheck"
  /\ \/ rstatus[wi][wj] = EMPTY /\ wpc' = "sched" /\ UNCHANGED waiting
     \/ rstatus[wi][wj] # EMPTY /\ wpc' = "clr_ld" /\ waiting' = FALSE
  /\ UNCHANGED <<ring, flags, userVars, wslot, wtail, wflags, submitted, done>>
  /\ UNCHANGED <<timer, sigkill>>

\* schedule() returns once the worker was woken or has a signal; finish_wait
Schedule ==
  /\ wpc = "sched"
  /\ ~waiting \/ sigkill
  /\ waiting' = FALSE
  /\ wpc' = "woke_ld"
  /\ UNCHANGED <<ring, flags, userVars, wslot, wtail, wflags, submitted, done>>
  /\ UNCHANGED <<timer, sigkill>>

\* Only after a sleep does a new idle time start.
ClearNeedStore ==
  /\ \/ wpc = "woke_st" /\ Arm
     \/ wpc = "clr_st" /\ UNCHANGED timer
  /\ flags' = wflags \ {NEED}
  /\ wpc' = "poll"
  /\ UNCHANGED <<ring, userVars, wslot, wtail, wflags, submitted, done>>
  /\ UNCHANGED <<waiting, sigkill>>

\* Time passes the worker's timeout.
Tick ==
  /\ timer = "armed" \/ (timer = "fresh" /\ ~IdleCoversStart)
  /\ timer' = "expired"
  /\ UNCHANGED <<ring, flags, userVars, workerVars, waiting, sigkill>>
-----------------------------------------------------------------------------
(***************************************************************************)
(* The kernel worker performs what lies between head and tail.             *)
(***************************************************************************)
LoadTailTable ==
  /\ wpc = "tail"
  /\ wtail' = tail_table
  /\ wpc' = "tail_e"
  /\ UNCHANGED <<ring, flags, userVars, wslot, wflags, submitted, done>>
  /\ UNCHANGED schedVars

\* Faulty variant of LoadTailEntry: the entry at the tail is counted too.
LoadTailEntryInclusive ==
  /\ wpc = "tail_e"
  /\ submitted' = Distance(Index(wi, wj), Index(wtail, tail_entry)) + 1
  /\ wpc' = "exec"
  /\ UNCHANGED <<ring, flags, userVars, wslot, wtail, wflags, done, schedVars>>

LoadTailEntry ==
  /\ wpc = "tail_e"
  /\ submitted' = Distance(Index(wi, wj), Index(wtail, tail_entry))
  /\ wpc' = "exec"
  /\ UNCHANGED <<ring, flags, userVars, wslot, wtail, wflags, done, schedVars>>

\* The reads of the entry are one step: NoOverwrite says of every state that no
\* wrapper is writing to it.
IndirectCall ==
  /\ wpc = "exec"
  /\ submitted # 0
  /\ done' = Append(done, [sysnum |-> sysnum[wi][wj], args |-> args[wi][wj]])
  /\ wpc' = "clear"
  /\ UNCHANGED <<ring, flags, userVars, wslot, wtail, wflags, submitted>>
  /\ UNCHANGED schedVars

\* The entry is marked empty, i and j step on, the idle time starts again.
\* Nobody sleeps on wq (see BatchFlush), so waking it changes nothing.
RetireEntry ==
  /\ wpc = "clear"
  /\ rstatus' = [rstatus EXCEPT ![wi][wj] = EMPTY]
  /\ wi' = IF wj = MAX_TABLE_ENTRY - 1 THEN StepTable(wi) ELSE wi
  /\ wj' = StepEntry(wj)
  /\ submitted' = submitted - 1
  /\ Arm
  /\ wpc' = "exec"
  /\ UNCHANGED <<sysnum, args, head, tail, flags, userVars, wtail, wflags>>
  /\ UNCHANGED <<done, waiting, sigkill>>

\* head_table is stored, then head_entry, then a signal is looked for
PublishHeadTable ==
  /\ wpc = "exec"
  /\ submitted = 0
  /\ head_table' = wi
  /\ wpc' = "pub_e"
  /\ UNCHANGED <<entries, head_entry, tail, flags, userVars, wslot, wtail>>
  /\ UNCHANGED <<wflags, submitted, done, schedVars>>

\* Faulty variant of PublishHeadEntry: the head is set to the current tail.
PublishTail ==
  /\ wpc = "pub_e"
  /\ head_entry' = tail_entry
  /\ wpc' = IF sigkill THEN "exit" ELSE "head"
  /\ UNCHANGED <<entries, head_table, tail, flags, userVars, wslot, wtail>>
  /\ UNCHANGED <<wflags, submitted, done, schedVars>>

PublishHeadEntry ==
  /\ wpc = "pub_e"
  /\ head_entry' = wj
  /\ wpc' = IF sigkill THEN "exit" ELSE "head"
  /\ UNCHANGED <<entries, head_table, tail, flags, userVars, wslot, wtail>>
  /\ UNCHANGED <<wflags, submitted, done, schedVars>>
-----------------------------------------------------------------------------
\* What the program decides to do next.
Program == BatchStart \/ BatchFlush \/ ToggleRegion \/ FillEntry

\* The rest of a library call the program has made.
Library ==
  \/ StartCheck \/ StartLoad \/ StartStore
  \/ WakeupCheck \/ WakeupWake \/ StartClear
  \/ FillArgs \/ SpinFull \/ AdvanceEntry \/ AdvanceTable \/ SetBusy

Worker ==
  \/ LoadHead \/ Poll
  \/ PrepareToWait \/ WorkerLoad \/ NeedStore \/ Recheck \/ Schedule
  \/ ClearNeedStore
  \/ LoadTailTable \/ LoadTailEntry \/ IndirectCall \/ RetireEntry
  \/ PublishHeadTable \/ PublishHeadEntry

Next == Program \/ Library \/ Worker \/ Tick \/ ProcessExit

Spec == Init /\ [][Next]_vars

(***************************************************************************)
(* Fairness.  Both threads are scheduled again and again and time passes.  *)
(* Nothing makes the program call the library.                             *)
(***************************************************************************)
FairSpec == Spec /\ WF_vars(Library) /\ WF_vars(Worker) /\ WF_vars(Tick)
-----------------------------------------------------------------------------
(***************************************************************************)
(* Properties                                                              *)
(***************************************************************************)
CallNumbers == 0 .. MaxCalls
Flags       == SUBSET {NEED, START}
Calls       == [sysnum : CallNumbers, args : CallNumbers]

\* Every variable has its type; in particular the four ring indices stay
\* inside the tables and submitted stays below the size of the ring.
TypeOK ==
  /\ sysnum  \in [Tables -> [Entries -> CallNumbers]]
  /\ args    \in [Tables -> [Entries -> CallNumbers]]
  /\ rstatus \in [Tables -> [Entries -> {EMPTY, BUSY}]]
  /\ head_table \in Tables /\ head_entry \in Entries
  /\ tail_table \in Tables /\ tail_entry \in Entries
  /\ flags \in Flags
  /\ in_segment \in {0, 1}
  /\ issued \in CallNumbers /\ batch_num \in 0 .. issued
  /\ upc \in UserPcs /\ ui \in Tables /\ uj \in Entries /\ uflags \in Flags
  /\ wpc \in WorkerPcs /\ wi \in Tables /\ wj \in Entries
  /\ wtail \in Tables /\ wflags \in Flags
  /\ submitted \in 0 .. N - 1 /\ (wpc = "clear" => submitted > 0)
  /\ done \in Seq(Calls)
  /\ waiting \in BOOLEAN /\ sigkill \in BOOLEAN
  /\ timer \in {"expired", "armed", "fresh"}

\* The worker performs the program's calls once each, in program order, and
\* never a half-filled entry: the k-th call it performs is the k-th the
\* program offloaded, with that call's number and that call's arguments
\* (wrappers, update_index and the loop over submitted[] in worker).
ExecutedInOrder ==
  \A k \in 1 .. Len(done) : done[k] = [sysnum |-> k, args |-> k]

\* Ring index x lies among the entries from h up to, not including, t.
Within(x, h, t) == Distance(h, x) < Distance(h, t)

\* "avoid overwriting": the entry a wrapper is filling is none of those from
\* the entry the worker stands at up to the tail (update_index).
NoOverwrite ==
  upc \in FillPcs =>
    /\ ~Within(Index(ui, uj), Index(wi, wj), TailIndex)
    /\ wpc \in {"exec", "clear"} =>
         ~(Distance(Index(wi, wj), Index(ui, uj)) < submitted)

Asleep == wpc = "sched" /\ waiting

\* A sleeping worker has announced that it needs a wake-up, at every moment,
\* although both threads rewrite the flag word without a lock (batch_start and
\* the two WRITE_ONCE in worker): the next batch_start will see it.
SleeperFlagged == Asleep => NEED \in flags

\* A batch_start that finds the worker asleep wakes it before it returns.
StartWakes == (Asleep /\ upc = "check") ~> ~Asleep

\* Once its process is gone the worker leaves its loop, whatever it was doing:
\* polling, going to sleep, asleep or performing calls.
WorkerExits == sigkill ~> wpc = "exit"

\* A program that is an event loop, coming back to batch_start again and again,
\* and that never offloads a call while the ring has one free entry only.
EventLoop ==
  SF_vars(BatchStart) /\ [](issued - Len(done) < N)

\* Every call the wrappers of such a program took over is performed, as long as
\* the process lives, although no wrapper looks whether the worker sleeps.
CallsComplete ==
  EventLoop => \A n \in 1 .. MaxCalls :
                 (issued >= n) ~> (Len(done) >= n \/ upc = "dead")

\* Call n has its entry marked busy.
Marked(n) ==
  issued > n \/ (issued = n /\ upc \notin FillPcs \cup {"adv_t", "busy"})

\* No wake-up is lost between the worker's last look at the entry and its
\* schedule(): a call marked busy before ESCA_WORKER_NEED_WAKEUP is raised is
\* performed even if the program never comes back to batch_start, because the
\* worker tests the entry again after raising the flag.  An entry of the ring
\* stays free throughout.
MarkedInTime ==
  [](issued - Len(done) < N) =>
    \A n \in 1 .. MaxCalls :
      (Marked(n) /\ NEED \notin flags) ~> (Len(done) >= n \/ sigkill)
=============================================================================
