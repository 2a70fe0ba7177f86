------------------------------- MODULE MCMotors -------------------------------
(* An instance of Motors for TLC. *)
EXTENDS Motors, TLC

MCPan == <<3, 4, 72, 73>>
MCTilt == <<69, 59, 58, 57>>

Move(p, t) == [a \in Axes |-> IF a = "pan" THEN p ELSE t]

\* Eight pins, and the driver for them: one axis forward, both at once backward and
\* forward.  Five pins: one axis at a time, and a run that only exports and releases
\* beside one that steps, with a third run after or next to them.
OfCamera(eight, five) == [s \in BOOLEAN |-> IF s THEN five ELSE eight]
MCMoves == OfCamera({Move(1, 0), Move(-1, 1)}, {Move(1, 0), Move(0, -1)})
MCBeside == OfCamera({}, {Move(0, 0)})
MCMaxRuns == OfCamera(2, 3)

Symmetry == Permutations(Procs)
=============================================================================
