------------------------------- MODULE MCHerald -------------------------------
(* An instance of Herald for TLC. *)
EXTENDS Herald

CONSTANTS s1, s2

\* Both cameras stream; they have the same host name or different ones.
MCService == [s \in Servers |-> "rtsp"]
MCNamings == {[s \in Servers |-> "cam"], [s \in Servers |-> IF s = s1 THEN "cam" ELSE "door"]}
=============================================================================
