------------------------------ MODULE MCBisect ------------------------------
(* Instances of Bisect for TLC. *)
EXTENDS Bisect

\* All the builds; a --good that is broken already when an older build broke it; and
\* the two options the wrong way round, which the script refuses.
MCBrackets == {<<1, N>>, <<3, N>>, <<N - 1, 1>>}
=============================================================================
