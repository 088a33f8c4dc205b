--------------------------- MODULE OffloadQueue ----------------------------
(***************************************************************************)
(* What one SAIO table promises the program that offloads its system       *)
(* calls: the calls accepted by the wrappers are performed by the kernel   *)
(* worker once each, in program order, with the arguments the program      *)
(* gave.  A call is known by its number in program order; the two fields   *)
(* of a call are the two halves of a table entry, its system call number   *)
(* and its arguments, so that a call made of two different calls' halves   *)
(* is not a legal one.                                                     *)
(***************************************************************************)
EXTENDS Naturals, Sequences

VARIABLES
  queue,     \* accepted calls that have not been performed, oldest first
  performed  \* the calls performed so far, oldest first

vars == <<queue, performed>>

Call(n) == [sysnum |-> n, args |-> n]

Init ==
  /\ queue = <<>>
  /\ performed = <<>>

\* The wrapper hands the program's next call over and returns at once.
Accept ==
  /\ queue' = Append(queue, Call(Len(performed) + Len(queue) + 1))
  /\ UNCHANGED performed

\* The kernel worker performs the oldest accepted call.
Perform ==
  /\ queue # <<>>
  /\ performed' = Append(performed, Head(queue))
  /\ queue' = Tail(queue)

Next == Accept \/ Perform

Spec == Init /\ [][Next]_vars
=============================================================================
