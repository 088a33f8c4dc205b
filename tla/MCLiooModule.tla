---------------------------- MODULE MCLiooModule ----------------------------
(* Instance of LiooModule for TLC. *)
EXTENDS LiooModule

MCKeys == {usr, ker, ent, tln}

Sets(key, n) == <<<<key>>, <<"=">>, <<"number", n>>>>

\* Lines of a configuration file: options, one that is commented out, one
\* without "=" and one without a number.
Lines == {Sets(usr, 0), Sets(usr, 2), Sets(ker, 2), Sets(tln, 2), Sets(ent, 64),
          <<<<"#">>>> \o Sets(ker, 4), <<<<usr>>, <<"number", 4>>>>,
          <<<<tln>>, <<"=">>>>}

MCFiles == {a \o b : a, b \in Lines}
=============================================================================
