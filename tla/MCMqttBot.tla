------------------------------ MODULE MCMqttBot ------------------------------
(* An instance of MqttBot for TLC. *)
EXTENDS MqttBot

SpecOf(cmd, exec) == [cmd |-> cmd, exec |-> exec]
Good == <<SpecOf(Command, "/sbin/x"), SpecOf(LongCommand, "/sbin/y")>>

\* With and without -r; no -w at all, an invalid one and one too many.
MCCommandLines ==
    {[specs |-> Good, response |-> "none"],
     [specs |-> Good, response |-> "own"],
     [specs |-> <<>>, response |-> "none"],
     [specs |-> <<SpecOf(Command, "")>>, response |-> "none"],
     [specs |-> Good \o Good, response |-> "none"]}

\* What controllers send: each name, one with a NUL and one with other bytes after it.
MCOrders ==
    {[text |-> t[1], tail |-> t[2], from |-> "controller"] :
        t \in {<<"snap", "end">>, <<Command, "nul">>, <<Command, "more">>, <<LongCommand, "more">>}}
=============================================================================
