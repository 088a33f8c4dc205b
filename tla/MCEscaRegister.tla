--------------------------- MODULE MCEscaRegister ---------------------------
(***************************************************************************)
(* The module TLC runs for EscaRegister.                                   *)
(***************************************************************************)
EXTENDS EscaRegister

Conf(usr, ker) == [max_usr_worker |-> usr, max_ker_worker |-> ker]

\* One and two user workers, one and two kernel workers for each, and a number
\* of kernel workers that is no multiple of the number of user workers.
RegisterConfigs == {Conf(1, 1), Conf(1, 2), Conf(2, 3), Conf(2, 4)}
=============================================================================
