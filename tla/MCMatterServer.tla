---------------------------- MODULE MCMatterServer ----------------------------
(* Instances of MatterServer for TLC. *)
EXTENDS MatterServer

MCLabel0 == <<7, 8, 9>>
Req(op, arg) == [op |-> op, arg |-> arg]

\* A command that reads what it writes, a write, a label that is shorter than the
\* buffer, one that is longer and one whose length is a lie, a message without an
\* answer.
MCRequests ==
    {Req("toggle", 0), Req("on", 0), Req("off", 0), Req("write", 1), Req("level", 255),
     Req("label", <<2, 1, 2>>), Req("label", <<5, 1, 1, 1, 1, 1>>), Req("label", <<3, 1>>),
     Req("read", 0), Req("unknown", 0)}
=============================================================================
