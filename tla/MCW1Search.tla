------------------------------ MODULE MCW1Search ------------------------------
(* An instance of W1Search for TLC. *)
EXTENDS W1Search

\* Every bus of up to two sensors with codes of Width bits, the empty one included,
\* and the one with all of them.
MCCodes == {c \in Code : ChecksOut(c)}
MCBuses == {b \in SUBSET MCCodes : Cardinality(b) <= 2 \/ b = MCCodes}

\* One thing on the bus is no DS18B20.
MCMute == {[b \in Bits |-> 1]}
=============================================================================
