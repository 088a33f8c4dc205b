--------------------------- MODULE EscaTableQueue ---------------------------
(***************************************************************************)
(* The shared table of EscaTable implements the queue of OffloadQueue.     *)
(* The queue is what lies from the next entry the worker will perform up   *)
(* to the tail, so a call is accepted when update_index stores the new     *)
(* tail_entry, not when the wrapper marks the entry busy, and it is        *)
(* performed when indirect_call runs.                                      *)
(***************************************************************************)
EXTENDS EscaTable

\* The ring index of the next entry to perform: the entry the worker stands
\* at, or the one after it while that entry is performed but not yet retired.
NextToPerform ==
  IF wpc # "clear" THEN Index(wi, wj)
  ELSE Index(IF wj = MAX_TABLE_ENTRY - 1 THEN StepTable(wi) ELSE wi,
             StepEntry(wj))

\* What the entry at ring index x holds.
CallAt(x) ==
  LET i == x \div MAX_TABLE_ENTRY
      j == x % MAX_TABLE_ENTRY
  IN [sysnum |-> sysnum[i][j], args |-> args[i][j]]

\* A ring index that may have run past the end of the ring, once.
Wrap(x) == IF x >= N THEN x - N ELSE x

PendingCalls ==
  [k \in 1 .. Distance(NextToPerform, TailIndex) |->
     CallAt(Wrap(NextToPerform + k - 1))]

Queue == INSTANCE OffloadQueue WITH queue <- PendingCalls, performed <- done

\* The table is a first-in first-out queue: a wrapper appends the program's
\* next call with its own arguments, the worker removes and performs the
\* oldest, and no other step of either side changes what is pending.
ImplementsQueue == Queue!Spec
=============================================================================
