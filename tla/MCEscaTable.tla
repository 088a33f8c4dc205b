---------------------------- MODULE MCEscaTable ----------------------------
(***************************************************************************)
(* The module TLC runs for EscaTable and EscaTableQueue; the configuration *)
(* files give the geometry of the ring, the workload and the timing.       *)
(***************************************************************************)
EXTENDS EscaTableQueue
=============================================================================
