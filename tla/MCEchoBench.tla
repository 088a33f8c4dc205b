---------------------------- MODULE MCEchoBench ----------------------------
(* Instances of EchoBench for TLC. *)
EXTENDS EchoBench

\* A server with a buffer and the entries for two connections, one that is
\* short of buffers, and one that is short of submission entries.
MCSizes == {[bufs |-> 2, sqes |-> 4], [bufs |-> 1, sqes |-> 4],
            [bufs |-> 2, sqes |-> 3]}
=============================================================================
