--------------------------- MODULE EscaTableProof ---------------------------
(***************************************************************************)
(* Proofs about EscaTable, for every size of the ring and every bound: its *)
(* types, and the flag a sleeping worker leaves.                           *)
(***************************************************************************)
EXTENDS EscaTableQueue, SequenceTheorems, TLAPS

\* A ring index lies inside the ring.
LEMMA IndexInRing ==
  ASSUME NEW i \in Tables, NEW j \in Entries
  PROVE  Index(i, j) \in 0 .. N - 1
<1> DEFINE E == MAX_TABLE_ENTRY
           L == MAX_TABLE_LEN
<1>1. /\ E \in Nat /\ L \in Nat /\ i \in Nat /\ j \in Nat
      /\ i <= L - 1 /\ j <= E - 1
  BY TableAssumption DEF Tables, Entries
<1> HIDE DEF E, L
<1>2. i * E \in Nat /\ L * E \in Nat
  BY <1>1
<1>3. i * E + E <= L * E
  BY <1>1
<1>4. i * E + j \in 0 .. L * E - 1
  BY <1>1, <1>2, <1>3
<1> QED
  BY <1>4 DEF Index, N, E, L

\* The worker's count of submitted entries is less than the size of the ring.
LEMMA DistanceInRing ==
  ASSUME NEW h \in 0 .. N - 1, NEW t \in 0 .. N - 1
  PROVE  Distance(h, t) \in 0 .. N - 1
<1>1. N \in Int
  BY TableAssumption DEF N
<1> QED
  BY <1>1 DEF Distance

\* Stepping on from an entry, or from a table, stays inside the tables.
LEMMA StepInTables ==
  /\ \A j \in Entries : StepEntry(j) \in Entries
  /\ \A i \in Tables : StepTable(i) \in Tables
BY TableAssumption DEF StepEntry, StepTable, Entries, Tables

\* What sys_esca_register leaves behind is well typed.
LEMMA InitTypeOK == Init => TypeOK
<1> SUFFICES ASSUME Init PROVE TypeOK
  OBVIOUS
<1>1. 0 \in Tables /\ 0 \in Entries
  BY TableAssumption DEF Tables, Entries
<1>2. N - 1 \in Nat
  BY TableAssumption DEF N
<1> QED
  BY <1>1, <1>2, TableAssumption
  DEF Init, TypeOK, CallNumbers, Flags, UserPcs, WorkerPcs, EMPTY, BUSY, NEED

\* Every step of either thread keeps every variable in its type.
LEMMA NextTypeOK == TypeOK /\ [Next]_vars => TypeOK'
<1> SUFFICES ASSUME TypeOK, [Next]_vars PROVE TypeOK'
  OBVIOUS
<1> USE DEF ring, entries, head, tail, lib, slot, userVars, wslot, workerVars,
            schedVars
<1>1. CASE BatchStart
  BY <1>1 DEF TypeOK, BatchStart, UserPcs, StartPcs
<1>2. CASE BatchFlush
  <2>1. batch_num' \in 0 .. issued'
    BY <1>2, TableAssumption DEF TypeOK, BatchFlush, CallNumbers
  <2> QED
    BY <1>2, <2>1 DEF TypeOK, BatchFlush
<1>3. CASE ToggleRegion
  BY <1>3 DEF TypeOK, ToggleRegion
<1>4. CASE FillEntry
  <2>1. issued' \in CallNumbers /\ batch_num' \in 0 .. issued'
    BY <1>4, TableAssumption DEF TypeOK, FillEntry, CallNumbers
  <2>2. sysnum' \in [Tables -> [Entries -> CallNumbers]]
    BY <1>4, <2>1 DEF TypeOK, FillEntry
  <2> QED
    BY <1>4, <2>1, <2>2 DEF TypeOK, FillEntry, UserPcs, FillPcs
<1>5. CASE StartCheck
  BY <1>5 DEF TypeOK, StartCheck, UserPcs, StartPcs, LeaveStart
<1>6. CASE StartLoad
  BY <1>6 DEF TypeOK, StartLoad, UserPcs, StartPcs
<1>7. CASE StartStore
  BY <1>7 DEF TypeOK, StartStore, UserPcs, StartPcs, Flags
<1>8. CASE WakeupCheck
  BY <1>8 DEF TypeOK, WakeupCheck, UserPcs, StartPcs
<1>9. CASE WakeupWake
  BY <1>9, ZenonT(60) DEF TypeOK, WakeupWake, UserPcs, StartPcs
<1>10. CASE StartClear
  BY <1>10 DEF TypeOK, StartClear, UserPcs, Flags, LeaveStart
<1>11. CASE FillArgs
  BY <1>11 DEF TypeOK, FillArgs, UserPcs, FillPcs
<1>12. CASE SpinFull
  BY <1>12 DEF TypeOK, SpinFull, UserPcs, FillPcs
<1>13. CASE AdvanceEntry
  BY <1>13, StepInTables DEF TypeOK, AdvanceEntry, UserPcs
<1>14. CASE AdvanceTable
  BY <1>14, StepInTables DEF TypeOK, AdvanceTable, UserPcs
<1>15. CASE SetBusy
  BY <1>15 DEF TypeOK, SetBusy, UserPcs, BUSY
<1>16. CASE LoadHead
  BY <1>16 DEF TypeOK, LoadHead, WorkerPcs
<1>17. CASE Poll
  BY <1>17 DEF TypeOK, Poll, WorkerPcs
<1>18. CASE PrepareToWait
  BY <1>18 DEF TypeOK, PrepareToWait, WorkerPcs
<1>19. CASE WorkerLoad
  BY <1>19 DEF TypeOK, WorkerLoad, WorkerPcs
<1>20. CASE NeedStore
  BY <1>20 DEF TypeOK, NeedStore, WorkerPcs, Flags
<1>21. CASE Recheck
  BY <1>21, ZenonT(60) DEF TypeOK, Recheck, WorkerPcs
<1>22. CASE Schedule
  BY <1>22, ZenonT(60) DEF TypeOK, Schedule, WorkerPcs
<1>23. CASE ClearNeedStore
  BY <1>23 DEF TypeOK, ClearNeedStore, WorkerPcs, Flags, Arm
<1>24. CASE LoadTailTable
  BY <1>24 DEF TypeOK, LoadTailTable, WorkerPcs
<1>25. CASE LoadTailEntry
  BY <1>25, IndexInRing, DistanceInRing, ZenonT(60) DEF TypeOK, LoadTailEntry, WorkerPcs
<1>26. CASE IndirectCall
  BY <1>26 DEF TypeOK, IndirectCall, WorkerPcs, Calls
<1>27. CASE RetireEntry
  BY <1>27, StepInTables, TableAssumption
  DEF TypeOK, RetireEntry, WorkerPcs, Arm, EMPTY, N
<1>28. CASE PublishHeadTable
  BY <1>28 DEF TypeOK, PublishHeadTable, WorkerPcs
<1>29. CASE PublishHeadEntry
  BY <1>29 DEF TypeOK, PublishHeadEntry, WorkerPcs
<1>30. CASE Tick
  BY <1>30 DEF TypeOK, Tick
<1>31. CASE ProcessExit
  BY <1>31 DEF TypeOK, ProcessExit, UserPcs, LeaveStart
<1>32. CASE UNCHANGED vars
  BY <1>32 DEF TypeOK, vars
<1> QED
  BY <1>1, <1>2, <1>3, <1>4, <1>5, <1>6, <1>7, <1>8, <1>9, <1>10, <1>11, <1>12,
     <1>13, <1>14, <1>15, <1>16, <1>17, <1>18, <1>19, <1>20, <1>21, <1>22,
     <1>23, <1>24, <1>25, <1>26, <1>27, <1>28, <1>29, <1>30, <1>31, <1>32
  DEF Next, Program, Library, Worker

\* In every behaviour of every ring the indices stay inside the tables and the
\* count of submitted entries below the size of the ring.
THEOREM TypeCorrect == Spec => []TypeOK
<1>1. Init => TypeOK
  BY InitTypeOK
<1>2. TypeOK /\ [Next]_vars => TypeOK'
  BY NextTypeOK
<1> QED
  BY <1>1, <1>2, PTL DEF Spec
-----------------------------------------------------------------------------
(***************************************************************************)
(* Why a sleeping worker is always announced in the flag word, although    *)
(* batch_start and worker both read, change and write that word without a  *)
(* lock.  The word can lose ESCA_WORKER_NEED_WAKEUP only to a batch_start  *)
(* that read it while the flag was down; the invariant says that the       *)
(* worker is then kept from going to sleep until that batch_start is over, *)
(* by an idle time it has just begun or by a busy entry.                   *)
(***************************************************************************)
\* The worker has found its entry empty and its timeout past, and has not been
\* woken since.
SleepPcs == {"prep", "set_ld", "set_st", "recheck", "sched"}

\* The process is about to write a flag word without NEED.
Stale ==
  \/ upc \in {"set_ld", "wakeup", "wake", "clr_ld"} /\ NEED \notin flags
  \/ upc \in {"set_st", "clr_st"} /\ NEED \notin uflags

\* The worker will not go to sleep during the current batch_start.
KeptAwake ==
  /\ wpc \notin SleepPcs
  /\ timer = "fresh" \/ rstatus[wi][wj] = BUSY

SleepInv ==
  /\ wpc \in {"recheck", "sched"} => NEED \in flags
  /\ Stale => KeptAwake
  /\ wpc \in {"clr_ld", "clr_st"} => rstatus[wi][wj] = BUSY
  /\ wpc \in {"pub_e", "head"} => wi = head_table
  /\ wpc = "head" => wj = head_entry

\* SleepInv holds when the worker has just been created.
LEMMA InitSleepInv == Init => SleepInv
BY DEF Init, SleepInv, Stale, KeptAwake, SleepPcs

\* Every step keeps SleepInv, if an idle time outlasts a batch_start.
LEMMA NextSleepInv ==
  ASSUME IdleCoversStart
  PROVE  TypeOK /\ SleepInv /\ [Next]_vars => SleepInv'
<1> SUFFICES ASSUME TypeOK, SleepInv, [Next]_vars PROVE SleepInv'
  OBVIOUS
<1> USE DEF ring, entries, head, tail, lib, slot, userVars, wslot, workerVars,
            schedVars
<1>1. CASE BatchStart
  BY <1>1 DEF BatchStart, SleepInv, Stale, KeptAwake, SleepPcs
<1>2. CASE BatchFlush
  BY <1>2 DEF BatchFlush, SleepInv, Stale, KeptAwake, SleepPcs
<1>3. CASE ToggleRegion
  BY <1>3 DEF ToggleRegion, SleepInv, Stale, KeptAwake, SleepPcs
<1>4. CASE FillEntry
  BY <1>4 DEF FillEntry, SleepInv, Stale, KeptAwake, SleepPcs
<1>5. CASE StartCheck
  BY <1>5 DEF StartCheck, SleepInv, Stale, KeptAwake, SleepPcs, LeaveStart
<1>6. CASE StartLoad
  BY <1>6 DEF StartLoad, SleepInv, Stale, KeptAwake, SleepPcs
<1>7. CASE StartStore
  BY <1>7 DEF StartStore, SleepInv, Stale, KeptAwake, SleepPcs
<1>8. CASE WakeupCheck
  BY <1>8 DEF WakeupCheck, SleepInv, Stale, KeptAwake, SleepPcs
<1>9. CASE WakeupWake
  BY <1>9 DEF WakeupWake, SleepInv, Stale, KeptAwake, SleepPcs
<1>10. CASE StartClear
  BY <1>10
  DEF StartClear, SleepInv, Stale, KeptAwake, SleepPcs, LeaveStart, NEED, START
<1>11. CASE FillArgs
  BY <1>11 DEF FillArgs, SleepInv, Stale, KeptAwake, SleepPcs
<1>12. CASE SpinFull
  BY <1>12 DEF SpinFull, SleepInv, Stale, KeptAwake, SleepPcs
<1>13. CASE AdvanceEntry
  BY <1>13 DEF AdvanceEntry, SleepInv, Stale, KeptAwake, SleepPcs
<1>14. CASE AdvanceTable
  BY <1>14 DEF AdvanceTable, SleepInv, Stale, KeptAwake, SleepPcs
<1>15. CASE SetBusy
  BY <1>15
  DEF SetBusy, SleepInv, Stale, KeptAwake, SleepPcs, BUSY, EMPTY, TypeOK
<1>16. CASE LoadHead
  BY <1>16 DEF LoadHead, SleepInv, Stale, KeptAwake, SleepPcs
<1>17. CASE Poll
  BY <1>17 DEF Poll, SleepInv, Stale, KeptAwake, SleepPcs, EMPTY, BUSY, TypeOK
<1>18. CASE PrepareToWait
  BY <1>18 DEF PrepareToWait, SleepInv, Stale, KeptAwake, SleepPcs
<1>19. CASE WorkerLoad
  BY <1>19 DEF WorkerLoad, SleepInv, Stale, KeptAwake, SleepPcs
<1>20. CASE NeedStore
  BY <1>20 DEF NeedStore, SleepInv, Stale, KeptAwake, SleepPcs
<1>21. CASE Recheck
  BY <1>21
  DEF Recheck, SleepInv, Stale, KeptAwake, SleepPcs, EMPTY, BUSY, TypeOK
<1>22. CASE Schedule
  BY <1>22 DEF Schedule, SleepInv, Stale, KeptAwake, SleepPcs
<1>23. CASE ClearNeedStore
  BY <1>23
  DEF ClearNeedStore, SleepInv, Stale, KeptAwake, SleepPcs, Arm, StartPcs
<1>24. CASE LoadTailTable
  BY <1>24 DEF LoadTailTable, SleepInv, Stale, KeptAwake, SleepPcs
<1>25. CASE LoadTailEntry
  BY <1>25 DEF LoadTailEntry, SleepInv, Stale, KeptAwake, SleepPcs
<1>26. CASE IndirectCall
  BY <1>26 DEF IndirectCall, SleepInv, Stale, KeptAwake, SleepPcs
<1>27. CASE RetireEntry
  BY <1>27 DEF RetireEntry, SleepInv, Stale, KeptAwake, SleepPcs, Arm, StartPcs
<1>28. CASE PublishHeadTable
  BY <1>28 DEF PublishHeadTable, SleepInv, Stale, KeptAwake, SleepPcs
<1>29. CASE PublishHeadEntry
  BY <1>29 DEF PublishHeadEntry, SleepInv, Stale, KeptAwake, SleepPcs
<1>30. CASE Tick
  BY <1>30 DEF Tick, SleepInv, Stale, KeptAwake, SleepPcs
<1>31. CASE ProcessExit
  BY <1>31 DEF ProcessExit, SleepInv, Stale, KeptAwake, SleepPcs, LeaveStart
<1>32. CASE UNCHANGED vars
  BY <1>32 DEF vars, SleepInv, Stale, KeptAwake
<1> QED
  BY <1>1, <1>2, <1>3, <1>4, <1>5, <1>6, <1>7, <1>8, <1>9, <1>10, <1>11, <1>12,
     <1>13, <1>14, <1>15, <1>16, <1>17, <1>18, <1>19, <1>20, <1>21, <1>22,
     <1>23, <1>24, <1>25, <1>26, <1>27, <1>28, <1>29, <1>30, <1>31, <1>32, SMTT(30), Z3
  DEF Next, Program, Library, Worker

\* While an idle time outlasts a batch_start, a worker that sleeps is announced
\* in the flag word at every moment, in rings of every size.
THEOREM SleeperIsFlagged ==
  ASSUME IdleCoversStart
  PROVE  Spec => []SleeperFlagged
<1>1. Init => TypeOK /\ SleepInv
  BY InitTypeOK, InitSleepInv
<1>2. TypeOK /\ SleepInv /\ [Next]_vars => (TypeOK /\ SleepInv)'
  BY NextTypeOK, NextSleepInv
<1>3. SleepInv => SleeperFlagged
  BY DEF SleepInv, SleeperFlagged, Asleep
<1> QED
  BY <1>1, <1>2, <1>3, PTL DEF Spec
-----------------------------------------------------------------------------
(***************************************************************************)
(* Why a ring of one table performs the program's calls once each and in   *)
(* order, when the program keeps at least one entry of the ring free.      *)
(*                                                                         *)
(* The invariant says where the worker stands between head and tail, and   *)
(* that the entries from there up to the tail hold, one after the other,   *)
(* the calls that come next in program order.  It does not mention         *)
(* rstatus: the tail alone decides what the worker performs.               *)
(***************************************************************************)

\* The geometry and the workload the proof is about.
Paced == MAX_TABLE_LEN = 1 /\ MaxOutstanding < MAX_TABLE_ENTRY

\* Entries from j up to k in a ring of one table.
Gap(j, k) == IF k >= j THEN k - j ELSE MAX_TABLE_ENTRY - j + k

\* Calls whose entry the worker has stepped over.
Retired == IF wpc = "clear" THEN Len(done) - 1 ELSE Len(done)

\* The worker stands between head and tail, at the head unless it is busy
\* performing calls.
Position ==
  /\ wpc \notin {"exec", "clear", "pub_e"} => wj = head_entry
  /\ Gap(head_entry, wj) + Gap(wj, tail_entry) = Gap(head_entry, tail_entry)

\* The worker never means to go past the tail.
Submitted ==
  wpc \in {"exec", "clear"} => submitted <= Gap(wj, tail_entry)

\* A wrapper fills the entry at the tail, and that leaves one entry free.
Filling ==
  upc \in FillPcs =>
    /\ uj = tail_entry
    /\ Gap(head_entry, tail_entry) <= MAX_TABLE_ENTRY - 2
    /\ sysnum[0][uj] = issued
    /\ upc # "args" => args[0][uj] = issued

\* Every call is performed, pending or being filled in.
Count ==
  /\ upc \in FillPcs => Retired + Gap(wj, tail_entry) + 1 = issued
  /\ upc \notin FillPcs \cup {"dead"} => Retired + Gap(wj, tail_entry) = issued

\* The pending entries hold the next calls of the program, in order.
Content ==
  \A s \in Entries :
    Gap(wj, s) < Gap(wj, tail_entry) =>
      /\ sysnum[0][s] = Retired + Gap(wj, s) + 1
      /\ args[0][s] = Retired + Gap(wj, s) + 1

RingInv ==
  Position /\ Submitted /\ Filling /\ Count /\ Content /\ ExecutedInOrder
-----------------------------------------------------------------------------
\* With one table the ring is that table and a ring index an entry.
LEMMA OneTable ==
  ASSUME Paced
  PROVE  /\ MAX_TABLE_ENTRY \in Nat \ {0} /\ N = MAX_TABLE_ENTRY
         /\ Tables = {0}
         /\ \A i \in Tables, j \in Entries : Index(i, j) = j
         /\ \A j, k \in Entries : Distance(j, k) = Gap(j, k)
<1>1. MAX_TABLE_ENTRY \in Nat \ {0} /\ N = MAX_TABLE_ENTRY
  BY TableAssumption DEF Paced, N
<1>2. Tables = {0}
  BY DEF Paced, Tables
<1>3. \A i \in Tables, j \in Entries : Index(i, j) = j
  BY <1>1, <1>2 DEF Index, Entries
<1> QED
  BY <1>1, <1>2, <1>3 DEF Distance, Gap

\* The arithmetic of gaps around the ring.
LEMMA GapFacts ==
  ASSUME MAX_TABLE_ENTRY \in Nat \ {0}
  PROVE  \A j, k \in Entries :
           /\ Gap(j, k) \in 0 .. MAX_TABLE_ENTRY - 1
           /\ Gap(j, j) = 0
           /\ Gap(j, k) = 0 => j = k
           /\ Gap(j, k) # MAX_TABLE_ENTRY - 1
                => Gap(j, StepEntry(k)) = Gap(j, k) + 1
           /\ Gap(j, k) # 0 => Gap(StepEntry(j), k) = Gap(j, k) - 1
           /\ Gap(StepEntry(j), j) = MAX_TABLE_ENTRY - 1
           /\ \A l \in Entries : Gap(j, k) = Gap(j, l) => k = l
BY DEF Gap, StepEntry, Entries

\* RingInv holds of the empty ring.
LEMMA InitRingInv ==
  ASSUME Paced
  PROVE  Init => RingInv
<1> SUFFICES ASSUME Init PROVE RingInv
  OBVIOUS
<1>1. 0 \in Entries
  BY OneTable, SMTT(60), Z3 DEF Entries
<1> QED
  BY <1>1, OneTable, GapFacts
  DEF Init, RingInv, Position, Submitted, Filling, Count, Content, Retired,
      ExecutedInOrder, FillPcs, Entries

\* Every step keeps RingInv.
LEMMA NextRingInv ==
  ASSUME Paced
  PROVE  TypeOK /\ RingInv /\ [Next]_vars => RingInv'
<1> SUFFICES ASSUME TypeOK, RingInv, [Next]_vars PROVE RingInv'
  OBVIOUS
<1> USE DEF ring, entries, head, tail, lib, slot, userVars, wslot, workerVars,
            schedVars, RingInv
<1>a. /\ MAX_TABLE_ENTRY \in Nat \ {0} /\ Tables = {0}
      /\ wi = 0 /\ ui = 0 /\ wtail = 0 /\ tail_table = 0 /\ head_table = 0
      /\ wj \in Entries /\ uj \in Entries
      /\ tail_entry \in Entries /\ head_entry \in Entries
      /\ issued \in Nat /\ Len(done) \in Nat /\ submitted \in Nat
  BY OneTable, TableAssumption, SMTT(60), Z3 DEF TypeOK, CallNumbers
<1>b. /\ \A j, k \in Entries :
           Gap(j, k) \in Nat /\ Gap(j, k) <= MAX_TABLE_ENTRY - 1
      /\ Gap(wj, tail_entry) \in Nat /\ Gap(head_entry, tail_entry) \in Nat
      /\ Gap(head_entry, wj) \in Nat /\ Retired \in Int
      /\ MAX_TABLE_ENTRY \in Nat
  BY <1>a, GapFacts DEF Retired
<1>1. CASE BatchStart \/ BatchFlush \/ ToggleRegion \/ StartCheck \/ StartLoad
           \/ StartStore \/ WakeupCheck \/ WakeupWake \/ StartClear
  <2>1. CASE BatchStart \/ BatchFlush \/ ToggleRegion
    BY <2>1, SMTT(60), Z3
    DEF BatchStart, BatchFlush, ToggleRegion, Position, Submitted, Filling,
        Count, Content, Retired, ExecutedInOrder, FillPcs
  <2>2. CASE StartCheck \/ StartLoad \/ StartStore
    BY <2>2, SMTT(60), Z3
    DEF StartCheck, StartLoad, StartStore, Position, Submitted, Filling,
        Count, Content, Retired, ExecutedInOrder, FillPcs
  <2>3. CASE WakeupCheck \/ WakeupWake \/ StartClear
    BY <2>3, Zenon
    DEF WakeupCheck, WakeupWake, StartClear, Position, Submitted, Filling,
        Count, Content, Retired, ExecutedInOrder, FillPcs
  <2> QED
    BY <1>1, <2>1, <2>2, <2>3, ZenonT(30)
<1>2. CASE SpinFull \/ AdvanceTable \/ SetBusy \/ ProcessExit \/ Tick
  <2>1. CASE SpinFull \/ AdvanceTable \/ SetBusy
    BY <2>1, SMTT(60), Z3
    DEF SpinFull, AdvanceTable, SetBusy, Position, Submitted, Filling, Count,
        Content, Retired, ExecutedInOrder, FillPcs
  <2>2. CASE ProcessExit \/ Tick
    BY <2>2, Zenon
    DEF ProcessExit, Tick, Position, Submitted, Filling, Count, Content,
        Retired, ExecutedInOrder, FillPcs
  <2> QED
    BY <1>2, <2>1, <2>2, Zenon
<1>3. CASE Poll \/ PrepareToWait \/ WorkerLoad \/ NeedStore \/ Recheck
           \/ Schedule \/ ClearNeedStore \/ LoadTailTable \/ PublishHeadTable
  <2>1. CASE Poll \/ PrepareToWait \/ WorkerLoad \/ NeedStore
    BY <2>1, Zenon
    DEF Poll, PrepareToWait, WorkerLoad, NeedStore, Position, Submitted,
        Filling, Count, Content, Retired, ExecutedInOrder
  <2>2. CASE Recheck \/ Schedule \/ ClearNeedStore
    BY <2>2, Zenon
    DEF Recheck, Schedule, ClearNeedStore, Position, Submitted,
        Filling, Count, Content, Retired, ExecutedInOrder
  <2>3. CASE LoadTailTable \/ PublishHeadTable
    BY <2>3, Zenon
    DEF LoadTailTable, PublishHeadTable, Position, Submitted,
        Filling, Count, Content, Retired, ExecutedInOrder
  <2> QED
    BY <1>3, <2>1, <2>2, <2>3, Zenon
<1>4. CASE FillEntry
  <2>1. Gap(head_entry, tail_entry) < MaxOutstanding
    BY <1>4, <1>a, OneTable DEF FillEntry, HeadIndex, TailIndex
  <2>2. /\ sysnum'[0][tail_entry] = issued + 1
        /\ \A s \in Entries : s # tail_entry => sysnum'[0][s] = sysnum[0][s]
    BY <1>4, <1>a DEF FillEntry, TypeOK
  <2>3. Retired' = Retired
    BY <1>4 DEF FillEntry, Retired
  <2>4. Filling'
    BY <1>4, <1>a, <1>b, <2>1, <2>2, TableAssumption, SMTT(30), Z3
    DEF FillEntry, Filling, Paced, TypeOK
  <2>5. Content'
    <3> SUFFICES ASSUME NEW s \in Entries, Gap(wj, s) < Gap(wj, tail_entry)
                 PROVE  /\ sysnum'[0][s] = Retired + Gap(wj, s) + 1
                        /\ args[0][s] = Retired + Gap(wj, s) + 1
      BY <1>4, <2>3 DEF FillEntry, Content
    <3>1. s # tail_entry
      BY <1>b
    <3> QED
      BY <2>2, <3>1 DEF Content
  <2>6. Count'
    BY <1>4, <1>a, <1>b, <2>3 DEF FillEntry, Count, FillPcs
  <2> QED
    BY <1>4, <2>4, <2>5, <2>6
    DEF FillEntry, Position, Submitted, ExecutedInOrder
<1>5. CASE FillArgs
  <2>1. /\ args'[0][uj] = issued
        /\ \A s \in Entries : s # uj => args'[0][s] = args[0][s]
    BY <1>5, <1>a DEF FillArgs, TypeOK
  <2>2. uj = tail_entry
    BY <1>5 DEF FillArgs, Filling, FillPcs
  <2>3. Retired' = Retired
    BY <1>5 DEF FillArgs, Retired
  <2>4. Content'
    <3> SUFFICES ASSUME NEW s \in Entries, Gap(wj, s) < Gap(wj, tail_entry)
                 PROVE  /\ sysnum[0][s] = Retired + Gap(wj, s) + 1
                        /\ args'[0][s] = Retired + Gap(wj, s) + 1
      BY <1>5, <2>3 DEF FillArgs, Content
    <3>1. s # uj
      BY <1>b, <2>2
    <3> QED
      BY <2>1, <3>1 DEF Content
  <2> QED
    BY <1>5, <2>1, <2>3, <2>4
    DEF FillArgs, Position, Submitted, Filling, Count, ExecutedInOrder, FillPcs
<1>6. CASE AdvanceEntry
  <2>1. /\ uj = tail_entry
        /\ Gap(head_entry, tail_entry) <= MAX_TABLE_ENTRY - 2
        /\ sysnum[0][tail_entry] = issued /\ args[0][tail_entry] = issued
    <3>1. upc = "advance" /\ upc \in FillPcs
      BY <1>6 DEF AdvanceEntry, FillPcs
    <3> QED
      BY <3>1 DEF Filling
  <2>2. Gap(wj, tail_entry) <= MAX_TABLE_ENTRY - 2
    BY <1>a, <1>b, <2>1 DEF Position
  <2>3. /\ Gap(wj, tail_entry') = Gap(wj, tail_entry) + 1
        /\ Gap(head_entry, tail_entry') = Gap(head_entry, tail_entry) + 1
    <3>1. /\ Gap(wj, tail_entry) # MAX_TABLE_ENTRY - 1
          /\ Gap(head_entry, tail_entry) # MAX_TABLE_ENTRY - 1
      BY <1>a, <1>b, <2>1, <2>2, SMTT(30), Z3
    <3> QED
      BY <1>6, <1>a, <3>1, GapFacts DEF AdvanceEntry
  <2>4. Retired + Gap(wj, tail_entry) + 1 = issued /\ Retired' = Retired
    BY <1>6 DEF AdvanceEntry, Count, FillPcs, Retired
  <2>5. Position'
    BY <1>6, <1>b, <2>3 DEF AdvanceEntry, Position
  <2>6. Submitted'
    BY <1>6, <1>a, <1>b, <2>3 DEF AdvanceEntry, Submitted
  <2>7. Count'
    BY <1>6, <1>a, <1>b, <2>3, <2>4, SMTT(60), Z3 DEF AdvanceEntry, Count, FillPcs
  <2>8. Content'
    <3> SUFFICES ASSUME NEW s \in Entries,
                        Gap(wj, s) < Gap(wj, tail_entry) + 1
                 PROVE  /\ sysnum[0][s] = Retired + Gap(wj, s) + 1
                        /\ args[0][s] = Retired + Gap(wj, s) + 1
      BY <1>6, <2>3, <2>4 DEF AdvanceEntry, Content
    <3>0. Gap(wj, s) \in Nat
      BY <1>a, <1>b
    <3>1. CASE Gap(wj, s) < Gap(wj, tail_entry)
      BY <3>1 DEF Content
    <3>2. CASE Gap(wj, s) = Gap(wj, tail_entry)
      <4>1. s = tail_entry
        BY <1>a, <3>2, GapFacts, ZenonT(30)
      <4> QED
        BY <2>1, <2>4, <4>1
    <3> QED
      BY <3>0, <3>1, <3>2, <1>b, SMTT(60), Z3
  <2> QED
    BY <1>6, <2>5, <2>6, <2>7, <2>8
    DEF AdvanceEntry, Filling, FillPcs, ExecutedInOrder
<1>7. CASE LoadHead
  <2>1. Position' /\ Submitted' /\ Filling'
    BY <1>7, <1>a, SMTT(60), Z3 DEF LoadHead, Position, Submitted, Filling
  <2>2. Count' /\ Content' /\ ExecutedInOrder'
    BY <1>7, <1>a, Zenon
    DEF LoadHead, Position, Count, Content, Retired, ExecutedInOrder
  <2> QED
    BY <2>1, <2>2
<1>8. CASE LoadTailEntry
  <2>1. submitted' = Gap(wj, tail_entry)
    BY <1>8, <1>a, OneTable DEF LoadTailEntry
  <2>2. Position' /\ Submitted'
    BY <1>8, <1>a, <1>b, <2>1, SMTT(60), Z3 DEF LoadTailEntry, Position, Submitted
  <2>3. Filling' /\ Count'
    BY <1>8, <1>a, SMTT(30), Z3 DEF LoadTailEntry, Filling, Count, Retired
  <2>4. Content' /\ ExecutedInOrder'
    BY <1>8, <1>a, Zenon DEF LoadTailEntry, Content, Retired, ExecutedInOrder
  <2> QED
    BY <2>2, <2>3, <2>4
<1>9. CASE IndirectCall
  <2>1. 0 < Gap(wj, tail_entry) /\ Gap(wj, wj) = 0
    BY <1>9, <1>a, <1>b, GapFacts, SMTT(30), Z3 DEF IndirectCall, Submitted
  <2>2. sysnum[0][wj] = Len(done) + 1 /\ args[0][wj] = Len(done) + 1
    BY <1>9, <1>a, <2>1, SMTT(30), Z3 DEF IndirectCall, Content, Retired
  <2>3. done' = Append(done, [sysnum |-> Len(done) + 1,
                              args |-> Len(done) + 1])
    BY <1>9, <1>a, <2>2 DEF IndirectCall
  <2>4. Len(done') = Len(done) + 1 /\ ExecutedInOrder'
    BY <2>3 DEF TypeOK, ExecutedInOrder
  <2>5. Retired' = Retired
    BY <1>9, <1>a, <2>4 DEF IndirectCall, Retired
  <2> QED
    <3>1. Position' /\ Submitted' /\ Filling'
      BY <1>9, SMTT(60), Z3 DEF IndirectCall, Position, Submitted, Filling
    <3>2. Count' /\ Content'
      BY <1>9, <2>4, <2>5, Zenon DEF IndirectCall, Count, Content
    <3> QED
      BY <2>4, <3>1, <3>2
<1>10. CASE RetireEntry
  <2>1. 0 < Gap(wj, tail_entry)
    BY <1>10, <1>a, <1>b DEF RetireEntry, Submitted, TypeOK
  <2>2. wj' \in Entries /\ wj' = StepEntry(wj)
    BY <1>10, <1>a, StepInTables DEF RetireEntry
  <2>3. /\ \A t \in Entries : Gap(wj, t) # 0 => Gap(wj', t) = Gap(wj, t) - 1
        /\ Gap(wj', wj) = MAX_TABLE_ENTRY - 1
    BY <1>a, <2>2, GapFacts
  <2>4. Gap(wj', tail_entry) = Gap(wj, tail_entry) - 1
    BY <1>a, <1>b, <2>1, <2>3
  <2>5. Gap(head_entry, wj') = Gap(head_entry, wj) + 1
    <3>1. Gap(head_entry, wj) # MAX_TABLE_ENTRY - 1
      BY <1>a, <1>b, <2>1 DEF Position
    <3> QED
      BY <1>a, <2>2, <3>1, GapFacts
  <2>6. Retired' = Retired + 1
    BY <1>10, <1>a DEF RetireEntry, Retired
  <2>7. Position'
    BY <1>10, <1>b, <2>4, <2>5 DEF RetireEntry, Position
  <2>8. Submitted'
    BY <1>10, <1>a, <1>b, <2>4 DEF RetireEntry, Submitted
  <2>9. Count'
    <3>1. Retired' + Gap(wj', tail_entry) = Retired + Gap(wj, tail_entry)
      BY <1>b, <2>4, <2>6
    <3> QED
      BY <1>10, <3>1 DEF RetireEntry, Count
  <2>10. Content'
    <3> SUFFICES ASSUME NEW s \in Entries, Gap(wj', s) < Gap(wj', tail_entry)
                 PROVE  /\ sysnum[0][s] = Retired + 1 + Gap(wj', s) + 1
                        /\ args[0][s] = Retired + 1 + Gap(wj', s) + 1
      BY <1>10, <2>6 DEF RetireEntry, Content
    <3>1. Gap(wj, s) \in Nat
      BY <1>a, <1>b
    <3>2. Gap(wj, s) # 0
      <4>1. SUFFICES ASSUME s = wj PROVE FALSE
        BY <1>a, GapFacts
      <4>2. Gap(wj, tail_entry) <= MAX_TABLE_ENTRY - 1
        BY <1>a, <1>b
      <4> QED
        BY <1>a, <1>b, <2>3, <2>4, <4>1, <4>2
    <3>3. Gap(wj', s) = Gap(wj, s) - 1
      BY <2>3, <3>2
    <3>4. Gap(wj, s) < Gap(wj, tail_entry)
      BY <1>b, <2>4, <3>1, <3>3
    <3>5. /\ sysnum[0][s] = Retired + Gap(wj, s) + 1
          /\ args[0][s] = Retired + Gap(wj, s) + 1
      BY <3>4, Zenon DEF Content
    <3> QED
      BY <1>b, <3>1, <3>3, <3>5
  <2> QED
    BY <1>10, <2>7, <2>8, <2>9, <2>10, SMTT(60), Z3 DEF RetireEntry, Filling, ExecutedInOrder
<1>11. CASE PublishHeadEntry
  <2>1. Gap(wj, wj) = 0 /\ Gap(wj, tail_entry) <= Gap(head_entry, tail_entry)
    BY <1>a, <1>b, GapFacts DEF Position
  <2>2. Position'
    BY <1>11, <1>a, <1>b, <2>1, SMTT(60), Z3 DEF PublishHeadEntry, Position
  <2>3. Filling'
    BY <1>11, <1>a, <1>b, <2>1, SMTT(30), Z3 DEF PublishHeadEntry, Filling
  <2> QED
    BY <1>11, <2>2, <2>3
    DEF PublishHeadEntry, Submitted, Count, Content, Retired, ExecutedInOrder
<1>12. CASE UNCHANGED vars
  BY <1>12
  DEF vars, Position, Submitted, Filling, Count, Content, Retired,
      ExecutedInOrder
<1> QED
  BY <1>1, <1>2, <1>3, <1>4, <1>5, <1>6, <1>7, <1>8, <1>9, <1>10, <1>11, <1>12
  DEF Next, Program, Library, Worker
-----------------------------------------------------------------------------
\* RingInv holds in every state a paced program can bring the ring into.
LEMMA RingInvariant ==
  ASSUME Paced
  PROVE  Spec => [](TypeOK /\ RingInv)
<1>1. Init => TypeOK /\ RingInv
  BY InitTypeOK, InitRingInv
<1>2. TypeOK /\ RingInv /\ [Next]_vars => (TypeOK /\ RingInv)'
  BY NextTypeOK, NextRingInv
<1> QED
  BY <1>1, <1>2, PTL DEF Spec

\* With one table and a program that keeps an entry free, the worker performs
\* every call once, whole and in program order, however large the table.
THEOREM CallsInOrder ==
  ASSUME Paced
  PROVE  Spec => []ExecutedInOrder
<1>1. RingInv => ExecutedInOrder
  BY DEF RingInv
<1> QED
  BY <1>1, RingInvariant, PTL

\* Under the same conditions no wrapper fills an entry the worker has still to
\* perform: update_index does avoid overwriting.
THEOREM NeverOverwrites ==
  ASSUME Paced
  PROVE  Spec => []NoOverwrite
<1>1. TypeOK /\ RingInv => NoOverwrite
  <2> SUFFICES ASSUME TypeOK, RingInv, upc \in FillPcs PROVE NoOverwrite
    BY DEF NoOverwrite
  <2>1. /\ Index(ui, uj) = tail_entry /\ TailIndex = tail_entry
        /\ Index(wi, wj) = wj
    BY OneTable DEF TypeOK, RingInv, Filling, TailIndex
  <2>2. Distance(wj, tail_entry) = Gap(wj, tail_entry)
    BY OneTable, Zenon DEF TypeOK
  <2>3. Gap(wj, tail_entry) \in Int /\ submitted \in Int
    BY OneTable, GapFacts DEF TypeOK
  <2> QED
    BY <2>1, <2>2, <2>3 DEF NoOverwrite, Within, RingInv, Submitted
<1> QED
  BY <1>1, RingInvariant, PTL
-----------------------------------------------------------------------------
(***************************************************************************)
(* A paced ring of one table implements the queue of OffloadQueue.  The    *)
(* argument is RingInv: it gives the pending entries as a function of how  *)
(* many calls have been performed and how many are pending, so a step of   *)
(* the ring is a step of the queue as soon as those two numbers change as  *)
(* the queue's lengths do.                                                 *)
(***************************************************************************)

\* The number of pending calls.
Todo == IF wpc = "clear" THEN Gap(wj, tail_entry) - 1 ELSE Gap(wj, tail_entry)

\* The calls of the program from number p + 1 up to number p + q.
CallsAfter(p, q) == [k \in 1 .. q |-> Queue!Call(p + k)]

\* Indices of the first table are entries of it.
LEMMA DivMod ==
  ASSUME NEW E \in Nat \ {0}, NEW x \in 0 .. E - 1
  PROVE  x \div E = 0 /\ x % E = x
BY Z3

\* Going on from entry j by less than a whole ring.
LEMMA WrapFacts ==
  ASSUME Paced, NEW j \in Entries, NEW m \in 0 .. MAX_TABLE_ENTRY - 1
  PROVE  Wrap(j + m) \in Entries /\ Gap(j, Wrap(j + m)) = m
BY OneTable DEF Wrap, Gap, Entries

\* Sequences of consecutive calls, made longer at the end ...
LEMMA CallsAppend ==
  ASSUME NEW p \in Nat, NEW q \in Nat
  PROVE  /\ Len(CallsAfter(p, q)) = q
         /\ CallsAfter(p, q + 1) = Append(CallsAfter(p, q), Queue!Call(p + q + 1))
BY DEF CallsAfter

\* ... and shorter at the front.
LEMMA CallsTail ==
  ASSUME NEW p \in Nat, NEW q \in Nat \ {0}
  PROVE  /\ CallsAfter(p, q) # <<>>
         /\ Head(CallsAfter(p, q)) = Queue!Call(p + 1)
         /\ Tail(CallsAfter(p, q)) = CallsAfter(p + 1, q - 1)
<1> DEFINE S == {Queue!Call(n) : n \in Nat}
<1>1. CallsAfter(p, q) \in Seq(S) /\ CallsAfter(p + 1, q - 1) \in Seq(S)
  <2>1. ASSUME NEW l \in Nat, NEW m \in Nat
        PROVE  CallsAfter(l, m) \in Seq(S)
    <3>1. CallsAfter(l, m) \in [1 .. m -> S]
      BY DEF CallsAfter
    <3> HIDE DEF S
    <3> QED
      BY <3>1, SeqDef
  <2>2. p + 1 \in Nat /\ q \in Nat /\ q - 1 \in Nat
    OBVIOUS
  <2> HIDE DEF S
  <2> QED
    BY <2>1, <2>2
<1>2. Len(CallsAfter(p, q)) = q /\ Len(CallsAfter(p + 1, q - 1)) = q - 1
  BY DEF CallsAfter
<1>3. CallsAfter(p, q) # <<>>
  BY <1>2
<1>4. Tail(CallsAfter(p, q)) = CallsAfter(p + 1, q - 1)
  <2>1. /\ Tail(CallsAfter(p, q)) \in Seq(S)
        /\ Len(Tail(CallsAfter(p, q))) = q - 1
        /\ \A k \in 1 .. q - 1 :
             Tail(CallsAfter(p, q))[k] = CallsAfter(p, q)[k + 1]
    BY <1>1, <1>2, <1>3, HeadTailProperties
  <2>2. \A k \in 1 .. q - 1 :
          Tail(CallsAfter(p, q))[k] = CallsAfter(p + 1, q - 1)[k]
    <3> SUFFICES ASSUME NEW k \in 1 .. q - 1
                 PROVE  CallsAfter(p, q)[k + 1] = CallsAfter(p + 1, q - 1)[k]
      BY <2>1
    <3>1. p + (k + 1) = (p + 1) + k
      OBVIOUS
    <3> QED
      BY <3>1 DEF CallsAfter
  <2> QED
    BY <1>1, <1>2, <2>1, <2>2, SeqEqual, Zenon
<1>5. Head(CallsAfter(p, q)) = Queue!Call(p + 1)
  BY DEF CallsAfter
<1> QED
  BY <1>3, <1>4, <1>5
-----------------------------------------------------------------------------
\* The pending calls are those that follow the calls performed so far.
LEMMA PendingIsNext ==
  ASSUME Paced, TypeOK, RingInv
  PROVE  /\ Todo \in Nat /\ Len(done) \in Nat
         /\ PendingCalls = CallsAfter(Len(done), Todo)
<1> DEFINE next == IF wpc = "clear" THEN StepEntry(wj) ELSE wj
           ahead == IF wpc = "clear" THEN 1 ELSE 0
<1>a. /\ MAX_TABLE_ENTRY \in Nat \ {0} /\ N = MAX_TABLE_ENTRY
      /\ wi = 0 /\ wj \in Entries /\ tail_entry \in Entries
      /\ Len(done) \in Nat
  BY OneTable DEF TypeOK
<1>b. Gap(wj, tail_entry) \in 0 .. MAX_TABLE_ENTRY - 1
  BY <1>a, GapFacts
<1>1. wpc = "clear" => Gap(wj, tail_entry) # 0
  BY <1>a, <1>b DEF TypeOK, RingInv, Submitted
<1>2. next \in Entries /\ Gap(next, tail_entry) = Todo
  BY <1>a, <1>b, <1>1, GapFacts, StepInTables, ZenonT(60) DEF Todo
<1>3. Todo \in Nat /\ Todo + ahead = Gap(wj, tail_entry)
  BY <1>b, <1>1 DEF Todo
<1>4. NextToPerform = next /\ TailIndex = tail_entry
  BY <1>a, <1>2, OneTable, StepInTables
  DEF NextToPerform, TailIndex, TypeOK
<1>5. Distance(NextToPerform, TailIndex) = Todo
  BY <1>a, <1>2, <1>4, OneTable, Zenon
<1>6. ASSUME NEW k \in 1 .. Todo
      PROVE  CallAt(Wrap(next + k - 1)) = Queue!Call(Len(done) + k)
  <2> DEFINE s == Wrap(next + k - 1)
  <2>1. k - 1 \in 0 .. MAX_TABLE_ENTRY - 1 /\ next + k - 1 = next + (k - 1)
    BY <1>a, <1>b, <1>2, <1>3 DEF Entries
  <2>2. s \in Entries /\ Gap(next, s) = k - 1
    BY <1>2, <2>1, WrapFacts
  <2>3. Gap(wj, s) = k - 1 + ahead
    <3>1. CASE wpc = "clear"
      <4>1. Gap(wj, s) \in Nat /\ k - 1 # MAX_TABLE_ENTRY - 1
        BY <1>a, <1>b, <1>3, <2>2, <3>1, GapFacts
      <4>2. Gap(wj, s) # 0
        BY <1>a, <2>2, <3>1, <4>1, GapFacts
      <4> HIDE DEF s
      <4> QED
        BY <1>a, <2>2, <3>1, <4>1, <4>2, GapFacts, SMTT(60), Z3
    <3>2. CASE wpc # "clear"
      BY <2>2, <3>2
    <3> QED
      BY <3>1, <3>2
  <2>4. Gap(wj, s) < Gap(wj, tail_entry)
    BY <1>b, <1>3, <2>3, SMTT(30), Z3
  <2>5. /\ sysnum[0][s] = Retired + Gap(wj, s) + 1
        /\ args[0][s] = Retired + Gap(wj, s) + 1
    BY <2>2, <2>4 DEF RingInv, Content
  <2>6. Retired + Gap(wj, s) + 1 = Len(done) + k
    BY <1>a, <2>3 DEF Retired
  <2>7. CallAt(s) = [sysnum |-> sysnum[0][s], args |-> args[0][s]]
    <3>1. s \div MAX_TABLE_ENTRY = 0 /\ s % MAX_TABLE_ENTRY = s
      BY <1>a, <2>2, DivMod, Zenon DEF Entries
    <3> HIDE DEF s
    <3> QED
      BY <3>1 DEF CallAt
  <2> QED
    BY <2>5, <2>6, <2>7 DEF Queue!Call
<1> QED
  BY <1>a, <1>3, <1>4, <1>5, <1>6 DEF PendingCalls, CallsAfter

\* What a step does to the two numbers that determine the queue: nothing, one
\* call more is pending, or the oldest pending call is performed.
LEMMA TodoSteps ==
  ASSUME Paced, TypeOK, RingInv, [Next]_vars
  PROVE  \/ Todo' = Todo /\ done' = done
         \/ Todo' = Todo + 1 /\ done' = done
         \/ Todo # 0 /\ Todo' = Todo - 1
            /\ done' = Append(done, Queue!Call(Len(done) + 1))
<1> USE DEF ring, entries, head, tail, lib, slot, userVars, wslot, workerVars,
            schedVars
<1>a. /\ MAX_TABLE_ENTRY \in Nat \ {0} /\ wi = 0
      /\ wj \in Entries /\ tail_entry \in Entries /\ head_entry \in Entries
      /\ Len(done) \in Nat /\ submitted \in Nat
  BY OneTable DEF TypeOK
<1>b. Gap(wj, tail_entry) \in Nat
  BY <1>a, GapFacts
<1>1. CASE AdvanceEntry
  <2>1. /\ Gap(head_entry, tail_entry) <= MAX_TABLE_ENTRY - 2
        /\ Gap(head_entry, wj) + Gap(wj, tail_entry) = Gap(head_entry, tail_entry)
        /\ Gap(head_entry, wj) \in Nat /\ Gap(head_entry, tail_entry) \in Nat
    BY <1>1, <1>a, GapFacts
    DEF AdvanceEntry, RingInv, Filling, Position, FillPcs
  <2>2. Gap(wj, tail_entry) # MAX_TABLE_ENTRY - 1
    BY <1>a, <1>b, <2>1, SMTT(30), Z3
  <2>3. Gap(wj, tail_entry') = Gap(wj, tail_entry) + 1
    BY <1>1, <1>a, <2>2, GapFacts, Zenon DEF AdvanceEntry
  <2> QED
    BY <1>1, <1>b, <2>3, SMTT(60), Z3 DEF AdvanceEntry, Todo
<1>2. CASE IndirectCall
  <2>1. 0 < Gap(wj, tail_entry) /\ Gap(wj, wj) = 0
    BY <1>2, <1>a, <1>b, GapFacts, SMTT(60), Z3 DEF IndirectCall, RingInv, Submitted
  <2>2. sysnum[0][wj] = Len(done) + 1 /\ args[0][wj] = Len(done) + 1
    BY <1>2, <1>a, <2>1, SMTT(30), Z3 DEF IndirectCall, RingInv, Content, Retired
  <2> QED
    BY <1>2, <1>a, <1>b, <2>1, <2>2, SMTT(60), Z3 DEF IndirectCall, Todo, Queue!Call
<1>3. CASE RetireEntry
  <2>1. Gap(wj, tail_entry) # 0 /\ wj' = StepEntry(wj)
    BY <1>3, <1>a, <1>b DEF RetireEntry, TypeOK, RingInv, Submitted
  <2>2. Gap(wj', tail_entry) = Gap(wj, tail_entry) - 1
    BY <1>a, <2>1, GapFacts
  <2> QED
    BY <1>3, <2>2, Zenon DEF RetireEntry, Todo
<1>4. CASE LoadHead
  BY <1>4, Zenon DEF LoadHead, RingInv, Position, Todo
<1>5. CASE Program
  BY <1>5, ZenonT(30)
  DEF Program, BatchStart, BatchFlush, ToggleRegion, FillEntry, Todo
<1>6. CASE Tick \/ ProcessExit \/ UNCHANGED vars
  BY <1>6, Zenon DEF Tick, ProcessExit, vars, Todo
<1>7. CASE StartCheck \/ StartLoad \/ StartStore \/ WakeupCheck \/ WakeupWake
  <2>1. CASE StartCheck \/ StartLoad \/ StartStore
    BY <2>1, Zenon DEF StartCheck, StartLoad, StartStore, Todo
  <2>2. CASE WakeupCheck \/ WakeupWake
    BY <2>2, Zenon DEF WakeupCheck, WakeupWake, Todo
  <2> QED
    BY <1>7, <2>1, <2>2, ZenonT(30)
<1>8. CASE StartClear \/ FillArgs \/ SpinFull \/ AdvanceTable \/ SetBusy
  <2>1. CASE StartClear \/ FillArgs
    BY <2>1, Zenon DEF StartClear, FillArgs, Todo
  <2>2. CASE SpinFull \/ AdvanceTable \/ SetBusy
    BY <2>2, Zenon DEF SpinFull, AdvanceTable, SetBusy, Todo
  <2> QED
    BY <1>8, <2>1, <2>2, Zenon
<1>9. CASE Poll \/ PrepareToWait \/ WorkerLoad
  BY <1>9, Zenon DEF Poll, PrepareToWait, WorkerLoad, Todo
<1>10. CASE NeedStore \/ Recheck \/ Schedule \/ ClearNeedStore
  BY <1>10, ZenonT(30) DEF NeedStore, Recheck, Schedule, ClearNeedStore, Todo
<1>11. CASE LoadTailTable \/ LoadTailEntry \/ PublishHeadTable \/ PublishHeadEntry
  BY <1>11, Zenon
  DEF LoadTailTable, LoadTailEntry, PublishHeadTable, PublishHeadEntry, Todo
<1> QED
  BY <1>1, <1>2, <1>3, <1>4, <1>5, <1>6, <1>7, <1>8, <1>9, <1>10,
     <1>11, SMTT(60), Z3
  DEF Next, Library, Worker

\* A paced ring of one table implements the first-in first-out queue: every
\* step of either thread accepts the program's next call, performs the oldest
\* accepted one, or leaves the queue as it is.
THEOREM RingImplementsQueue ==
  ASSUME Paced
  PROVE  Spec => ImplementsQueue
<1>1. Init => Queue!Init
  <2> SUFFICES ASSUME Init PROVE Queue!Init
    OBVIOUS
  <2>1. PendingCalls = CallsAfter(0, 0) /\ done = <<>>
    <3>1. Todo = 0 /\ done = <<>>
      BY DEF Init, Todo, Gap
    <3>2. Len(done) = 0
      BY <3>1
    <3> QED
      BY <3>1, <3>2, InitTypeOK, InitRingInv, PendingIsNext
  <2> QED
    BY <2>1 DEF Queue!Init, CallsAfter
<1>a. (TypeOK /\ RingInv => PendingCalls = CallsAfter(Len(done), Todo))'
  <2>1. TypeOK /\ RingInv => PendingCalls = CallsAfter(Len(done), Todo)
    BY PendingIsNext
  <2> QED
    BY <2>1, PTL
<1>2. ASSUME TypeOK, RingInv, TypeOK', RingInv', [Next]_vars
      PROVE  [Queue!Next]_Queue!vars
  <2>1. /\ Todo \in Nat /\ Len(done) \in Nat
        /\ PendingCalls = CallsAfter(Len(done), Todo)
    BY <1>2, PendingIsNext
  <2>2. PendingCalls' = CallsAfter(Len(done'), Todo')
    BY <1>2, <1>a DEF CallsAfter
  <2>3. CASE Todo' = Todo /\ done' = done
    BY <2>1, <2>2, <2>3 DEF Queue!vars
  <2>4. CASE Todo' = Todo + 1 /\ done' = done
    BY <2>1, <2>2, <2>4, CallsAppend, Zenon DEF Queue!Next, Queue!Accept
  <2>5. CASE Todo # 0 /\ Todo' = Todo - 1
             /\ done' = Append(done, Queue!Call(Len(done) + 1))
    <3>1. Len(done') = Len(done) + 1
      BY <1>2, <2>5 DEF TypeOK
    <3>2. /\ PendingCalls # <<>>
          /\ Head(PendingCalls) = Queue!Call(Len(done) + 1)
          /\ Tail(PendingCalls) = CallsAfter(Len(done) + 1, Todo - 1)
      BY <2>1, <2>5, CallsTail, Zenon
    <3> QED
      BY <2>2, <2>5, <3>1, <3>2, SMTT(30), Z3 DEF Queue!Next, Queue!Perform
  <2> QED
    BY <1>2, <2>3, <2>4, <2>5, TodoSteps
<1>3. Spec => [](TypeOK /\ RingInv)
  BY RingInvariant
<1> QED
  BY <1>1, <1>2, <1>3, PTL DEF Spec, ImplementsQueue, Queue!Spec
=============================================================================
