---------------------------- MODULE MCMatterLink ----------------------------
(* Instances of MatterLink for TLC. *)
EXTENDS MatterLink

\* The shortest and the longest message, one that is neither, an empty one and one
\* that is too long.  Their bytes look like length prefixes where that is possible.
Messages == {<<1>>, <<1, 0, 0, 0, 1, 0>>, <<0, 1>>, <<>>, <<1, 1, 0, 0, 0, 1, 0, 0, 0>>}
MCScripts == UNION {[1..n -> Messages] : n \in 1..3}
=============================================================================
