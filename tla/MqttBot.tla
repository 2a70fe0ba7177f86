-------------------------------- MODULE MqttBot --------------------------------
(***************************************************************************)
(* general/package/mqtt-bot/src/mqtt-bot.c: the start of main(), the       *)
(* callbacks that mosquitto_loop_forever makes, and the watchers, processes*)
(* that on_message forks and that run at the same time as it and as each   *)
(* other, each with the command it runs at the other end of a pipe.        *)
(*                                                                         *)
(* A payload is the name it begins with and what comes after the name.     *)
(* Output is counted in units; what a command prints is anything.          *)
(***************************************************************************)
EXTENDS Naturals, Sequences, SequencesExt

CONSTANTS
    Command,        \* a command's name
    LongCommand,    \* one of MAX_STR - 1 bytes, the longest there is
    Other,          \* the text of a payload that begins with no name, or is empty
    CMD_OUTPUT_MAX, \* the size of the output buffer; 8192 bytes in the code
    FooterSize,     \* the length of the footer
    MaxWhitelist,   \* MAX_WHITELIST
    CommandLines,   \* the command lines the bot is started with: [specs, response]
    Orders,         \* messages controllers send
    MaxWatchers,    \* bound: watchers ever forked
    MaxOutput,      \* bound: units a command writes
    MaxOrders,      \* bound: messages of controllers
    MaxFaults       \* bound: failures of fork, malloc, the camera and the broker

Names == {"snap", Command, LongCommand}

\* A message: the name its payload begins with; whether nothing follows the name, a
\* NUL, or something else; and who sent it.
Message == [text : Names \cup {Other}, tail : {"end", "nul", "more"}, from : {"controller", "bot"}]
NoOrder == [text |-> Other, tail |-> "more", from |-> "controller"]

ASSUME BufferAssumption == CMD_OUTPUT_MAX \in Nat \ {0} /\ FooterSize \in Nat \ {0}
ASSUME WhitelistAssumption ==
    /\ MaxWhitelist \in Nat \ {0} /\ Other \notin Names
    /\ \A l \in CommandLines : \A i \in DOMAIN l.specs : l.specs[i].cmd # Other
ASSUME OrdersAssumption == Orders \subseteq {m \in Message : m.from = "controller"}
ASSUME BoundsAssumption == {MaxWatchers, MaxOutput, MaxOrders, MaxFaults} \subseteq Nat

VARIABLES
    run,       \* main(): "args", "connect", "loop", "gone"
    line,      \* its command line
    whitelist, \* cfg.whitelist: a sequence of command names
    link,      \* the connection of the loop: "new", "down", "up", "subscribed", "deaf"
    inbox,     \* messages the broker has for the loop
    watch,     \* the watchers, in the order of their forks, and their commands
    orders, faults

loopVars == <<run, line, whitelist, link>>
vars == <<loopVars, inbox, watch, orders, faults>>

Watchers == 1..MaxWatchers
NoAnswer == <<>>

\* at: where the watcher is; order: its message; text: total before line 400; child,
\* wrote and status: the command's process; code: exit_code; answer: what was published.
FreeWatcher ==
    [at |-> "free", order |-> NoOrder, text |-> 0, child |-> "none", wrote |-> 0,
     status |-> 0, code |-> 0, answer |-> NoAnswer]

Signalled == 128  \* exit_code -1
Codes == {0, 1}

-----------------------------------------------------------------------------
(* Start *)

\* whitelist_add: cmd:exec, neither of them empty.
Valid(spec) == spec.cmd # "" /\ spec.exec # ""
Accepts(specs) ==
    /\ Len(specs) \in 1..MaxWhitelist
    /\ \A i \in DOMAIN specs : Valid(specs[i])

\* No -r: answers go to the topic the bot is subscribed to.
Echoes == line.response = "none"

Init ==
    /\ run = "args" /\ line \in CommandLines /\ whitelist = <<>>
    /\ link = "new" /\ inbox = <<>>
    /\ watch = [w \in Watchers |-> FreeWatcher]
    /\ orders = 0 /\ faults = 0

Fault == faults < MaxFaults /\ faults' = faults + 1

ParseArgs ==
    /\ run = "args"
    /\ IF Accepts(line.specs)
       THEN run' = "connect" /\ whitelist' = [i \in DOMAIN line.specs |-> line.specs[i].cmd]
       ELSE run' = "gone" /\ UNCHANGED whitelist
    /\ UNCHANGED <<line, link, inbox, watch, orders, faults>>

\* mosquitto_connect, which main() does not retry.
MainConnect ==
    /\ run = "connect"
    /\ \/ run' = "loop" /\ UNCHANGED faults
       \/ Fault /\ run' = "gone"
    /\ UNCHANGED <<line, whitelist, link, inbox, watch, orders>>

-----------------------------------------------------------------------------
(* mosquitto_loop_forever: it reconnects by itself and calls back *)

Lost == link \in {"new", "down"}

OnConnect_First == IF link = "new" THEN "subscribed" ELSE "up"  \* mutant: subscribes in main() only
OnConnect == "subscribed"

Connack ==
    /\ run = "loop" /\ Lost
    /\ \/ link' = OnConnect /\ UNCHANGED faults
       \/ Fault /\ link' = "deaf"  \* mosquitto_subscribe fails: logged
       \/ Fault /\ link' = "down"  \* refused: logged
    /\ UNCHANGED <<run, line, whitelist, inbox, watch, orders>>

\* on_disconnect.  It is a clean session: the broker forgets what it had.
Disconnect ==
    /\ run = "loop" /\ ~Lost
    /\ Fault
    /\ link' = "down" /\ inbox' = <<>>
    /\ UNCHANGED <<run, line, whitelist, watch, orders>>

\* The loop returns some time after a signal or for an error that is no lost
\* connection (g_running tells the two apart for the log); the watchers go on.
LoopReturns ==
    /\ run = "loop"
    /\ run' = "gone" /\ inbox' = <<>>
    /\ UNCHANGED <<line, whitelist, link, watch, orders, faults>>

-----------------------------------------------------------------------------
(* on_message *)

\* strcmp with cmd, the C string that the first MAX_STR - 1 bytes of the payload make.
Reads(m, name) == m.text = name /\ (m.tail \in {"end", "nul"} \/ name = LongCommand)

Lookup(m) == \E name \in ToSet(whitelist) : Reads(m, name)
BuiltIn(m) == Reads(m, "snap")

\* The next process; past the bound nothing is forked.
Fork(m, at) ==
    \E w \in Watchers :
        /\ watch[w].at = "free" /\ \A v \in 1..(w - 1) : watch[v].at # "free"
        /\ watch' = [watch EXCEPT ![w] = [FreeWatcher EXCEPT !.at = at, !.order = m]]

OnMessage ==
    /\ run = "loop" /\ link = "subscribed" /\ inbox # <<>>
    /\ LET m == Head(inbox)
       IN  CASE BuiltIn(m) -> Fork(m, "snap")
             [] Lookup(m) /\ ~BuiltIn(m) -> Fork(m, "start")
             [] OTHER -> UNCHANGED watch
    /\ inbox' = Tail(inbox)
    /\ UNCHANGED <<loopVars, orders, faults>>

\* fork fails: the message is dropped.
OnMessageFails ==
    /\ run = "loop" /\ link = "subscribed" /\ inbox # <<>>
    /\ BuiltIn(Head(inbox)) \/ Lookup(Head(inbox))
    /\ Fault
    /\ inbox' = Tail(inbox)
    /\ UNCHANGED <<loopVars, watch, orders>>

-----------------------------------------------------------------------------
(* A watcher and the command it runs *)

Set(w, r) == watch' = [watch EXCEPT ![w] = r]
At(w, place) == watch[w].at = place
Goto(w, place) == Set(w, [watch[w] EXCEPT !.at = place])
Quit(w) == Set(w, [FreeWatcher EXCEPT !.at = "gone"])
Idle == UNCHANGED <<loopVars, inbox, orders>>

\* pipe, fork and malloc; out of memory the watcher waits for its command and ends.
RunCommand(w) ==
    /\ At(w, "start")
    /\ \/ Set(w, [watch[w] EXCEPT !.at = "read", !.child = "running"]) /\ UNCHANGED faults
       \/ Fault /\ Set(w, [watch[w] EXCEPT !.at = "reap", !.child = "running"])
       \/ Fault /\ Quit(w)
    /\ Idle

\* A command is followed as long as its watcher is there; later nothing sees it.
Runs(w) == watch[w].child = "running"

\* A write: if the watcher has closed the pipe, SIGPIPE ends the command.
Reader(w) == watch[w].at \in {"read", "reap"}
ChildWrites(w) ==
    /\ Runs(w)
    /\ IF Reader(w)
       THEN watch[w].wrote < MaxOutput /\ Set(w, [watch[w] EXCEPT !.wrote = @ + 1])
       ELSE Set(w, [watch[w] EXCEPT !.child = "ended", !.status = Signalled])
    /\ Idle /\ UNCHANGED faults

\* It exits, its execv fails, or something kills it; it may also run for ever.
ChildEnds(w) ==
    /\ Runs(w)
    /\ \E s \in Codes \cup {Signalled} :
          Set(w, [watch[w] EXCEPT !.child = "ended", !.status = s])
    /\ Idle /\ UNCHANGED faults

Room_All(w) == watch[w].text < CMD_OUTPUT_MAX  \* mutant: no place for the NUL
Room(w) == watch[w].text < CMD_OUTPUT_MAX - 1

Read(w) ==
    /\ At(w, "read") /\ Room(w) /\ watch[w].text < watch[w].wrote
    /\ Set(w, [watch[w] EXCEPT !.text = @ + 1])
    /\ Idle /\ UNCHANGED faults

\* End of file or a full buffer: close(pipefd[0]).
ReadEnds(w) ==
    /\ At(w, "read")
    /\ ~Room(w) \/ (watch[w].child = "ended" /\ watch[w].text = watch[w].wrote)
    /\ Goto(w, "wait")
    /\ Idle /\ UNCHANGED faults

\* waitpid finds the status because watcher_reset_signals undid the SIG_IGN of main().
Collected_Ignored(w) == 0  \* mutant: SIGCHLD is still ignored, waitpid fails
Collected(w) == watch[w].status

Wait(w) ==
    /\ watch[w].child = "ended"
    /\ \/ At(w, "wait") /\ Set(w, [watch[w] EXCEPT !.at = "publish", !.code = Collected(w)])
       \/ At(w, "reap") /\ Quit(w)
    /\ Idle /\ UNCHANGED faults

\* total after snprintf, which returns the footer's length also where it cut it.
Total_Bare(w) == watch[w].text  \* mutant: the output is published as it is
Total(w) == watch[w].text + FooterSize

\* Any output may begin with a name.  The footer follows it, or more output than any
\* name has: at least one byte in either case, which may be a NUL of the output's own.
Payloads(w) ==
    {m \in Message :
        /\ m.from = "bot" /\ (watch[w].text = 0 => m.text = Other)
        /\ m.text = Other => m.tail = "more"
        /\ m.tail = "end" => Total(w) = watch[w].text}

\* publish_response over a connection of its own.
Publish(w) ==
    /\ At(w, "publish")
    /\ Set(w, [watch[w] EXCEPT !.at = "ack", !.answer = <<Total(w), watch[w].code>>])
    /\ IF Echoes /\ link = "subscribed"
       THEN \E m \in Payloads(w) : inbox' = Append(inbox, m)
       ELSE UNCHANGED inbox
    /\ UNCHANGED <<loopVars, orders, faults>>

\* The broker acknowledges it, does not in 40 rounds of the loop, or is not there.
PublishEnds(w) ==
    /\ \/ At(w, "ack") /\ UNCHANGED faults
       \/ At(w, "publish") /\ Fault
    /\ Quit(w) /\ Idle

\* watcher_snap: an image, which no command's name equals, or none.
Snap(w) ==
    /\ At(w, "snap")
    /\ \/ Goto(w, "ack") /\ UNCHANGED faults
       \/ Fault /\ Quit(w)
    /\ Idle

\* alarm(WATCHER_TIMEOUT) ends the watcher wherever it is, not its command.
Armed_No(w) == FALSE  \* mutant: no alarm
Armed(w) == watch[w].at \notin {"free", "gone"}

Alarm(w) ==
    /\ Armed(w)
    /\ Quit(w)
    /\ Idle /\ UNCHANGED faults

-----------------------------------------------------------------------------
\* A controller publishes; at QoS 1 and up it may reach the bot twice.
Order ==
    /\ orders < MaxOrders /\ orders' = orders + 1
    /\ \E m \in Orders :
          \/ link # "subscribed" /\ UNCHANGED <<inbox, faults>>
          \/ link = "subscribed" /\ inbox' = Append(inbox, m) /\ UNCHANGED faults
          \/ link = "subscribed" /\ inbox' = inbox \o <<m, m>> /\ Fault
    /\ UNCHANGED <<loopVars, watch>>

Watcher(w) ==
    \/ RunCommand(w) \/ Read(w) \/ ReadEnds(w) \/ Wait(w)
    \/ Publish(w) \/ PublishEnds(w) \/ Snap(w)

Loop == ParseArgs \/ MainConnect \/ Connack \/ OnMessage

Next ==
    \/ Loop \/ Disconnect \/ LoopReturns \/ OnMessageFails \/ Order
    \/ \E w \in Watchers : Watcher(w) \/ Alarm(w) \/ ChildWrites(w) \/ ChildEnds(w)

\* The loop and the alarm clock run.  Nothing is assumed of a command, nor of the
\* broker a watcher waits for.
Spec ==
    /\ Init /\ [][Next]_vars
    /\ WF_vars(Loop)
    /\ \A w \in Watchers : WF_vars(Alarm(w))

-----------------------------------------------------------------------------
(* Properties *)

TypeOK ==
    /\ run \in {"args", "connect", "loop", "gone"}
    /\ line \in CommandLines
    /\ \A i \in DOMAIN whitelist : whitelist[i] # ""
    /\ link \in {"new", "down", "up", "subscribed", "deaf"}
    /\ inbox \in Seq(Message)
    /\ \A w \in Watchers :
          /\ watch[w].at \in {"free", "start", "snap", "read", "reap", "wait",
                              "publish", "ack", "gone"}
          /\ watch[w].text \in 0..(CMD_OUTPUT_MAX - 1)
          /\ watch[w].wrote \in 0..MaxOutput
          /\ watch[w].child \in {"none", "running", "ended"}
          /\ watch[w].order \in Message
          /\ watch[w].answer # NoAnswer =>
                watch[w].answer[1] \in 0..(CMD_OUTPUT_MAX - 1 + FooterSize)
    /\ orders \in 0..MaxOrders /\ faults \in 0..MaxFaults

\* What a command's answer says is true.  Unless more bytes are published than the
\* buffer has (total of line 400), the footer is whole, gives the code the command
\* really ended with, and stands after everything the command ever wrote, however the
\* command's writes and its end fell between the watcher's steps.
AnswerIsTrue ==
    \A w \in Watchers :
        (watch[w].answer # NoAnswer /\ watch[w].answer[1] < CMD_OUTPUT_MAX) =>
            watch[w].answer = <<watch[w].wrote + FooterSize, watch[w].status>>

\* Without -r the bot also reads its own answers.  None is taken for an order, because
\* a footer follows the output, but for the two that the C string of lines 481-493
\* hides the footer of: a name with a NUL after it, and one of MAX_STR - 1 bytes.
Hides(m) == m.tail = "nul" \/ m.text = LongCommand
OnlyOrdered ==
    \A w \in Watchers : watch[w].order.from = "controller" \/ Hides(watch[w].order)

\* Every watcher ends, whatever its command, the camera or the broker does.
EveryWatcherEnds == \A w \in Watchers : ~At(w, "free") ~> At(w, "gone")

\* As long as the loop runs the bot gets back to listening after every lost
\* connection, unless the subscription itself fails: that is never tried again.
Listens == run = "loop" ~> (link \in {"subscribed", "deaf"} \/ run = "gone")
=============================================================================
