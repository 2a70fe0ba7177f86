---------------------------- MODULE MatterSession ----------------------------
(***************************************************************************)
(* What a connection to general/package/matter/src/matter-server.c         *)
(* promises: the messages a controller sends are dispatched one by one, in *)
(* the order they were sent, none twice and none skipped, until the        *)
(* connection is closed.  MatterLink implements it over a byte stream.     *)
(***************************************************************************)
EXTENDS Naturals, Sequences

VARIABLES
    todo,     \* messages sent or still to be sent, not dispatched
    handled,  \* messages dispatched, the last one last
    open      \* the connection

vars == <<todo, handled, open>>

Dispatch ==
    /\ open /\ todo # <<>>
    /\ handled' = Append(handled, Head(todo))
    /\ todo' = Tail(todo)
    /\ UNCHANGED open

Close ==
    /\ open /\ open' = FALSE
    /\ UNCHANGED <<todo, handled>>

Next == Dispatch \/ Close

Spec == handled = <<>> /\ open = TRUE /\ [][Next]_vars
=============================================================================
