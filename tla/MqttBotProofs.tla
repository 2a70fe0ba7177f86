---------------------------- MODULE MqttBotProofs ----------------------------
(***************************************************************************)
(* Theorems about MqttBot, for any number of watchers, orders and faults,  *)
(* any buffer, footer and whitelist.                                       *)
(***************************************************************************)
EXTENDS MqttBot, SequenceTheorems, TLAPS

Places == {"free", "start", "snap", "read", "reap", "wait", "publish", "ack", "gone"}
Statuses == Codes \cup {Signalled}

WatcherType ==
    [at : Places, order : Message, text : 0..(CMD_OUTPUT_MAX - 1),
     child : {"none", "running", "ended"}, wrote : 0..MaxOutput,
     status : Statuses, code : Statuses, answer : Seq(Nat)]

\* A message that may start a watcher: all but an answer whose footer is seen.
Ordered(m) == m \in Message /\ (m.from = "controller" \/ Hides(m))

\* What a watcher has read, and what it will say, is about a command that cannot write
\* any more once end of file was seen; and it has an order.
Honest(r) ==
    /\ Ordered(r.order)
    /\ r.at \in {"wait", "publish"} /\ r.text < CMD_OUTPUT_MAX - 1 =>
          r.child = "ended" /\ r.text = r.wrote
    /\ r.at = "publish" => r.code = r.status /\ r.child = "ended"
    /\ r.answer # NoAnswer =>
          /\ r.at = "ack" /\ r.child = "ended"
          /\ r.answer = <<r.text + FooterSize, r.status>>
          /\ r.text < CMD_OUTPUT_MAX - 1 => r.text = r.wrote

\* What comes back from the bot itself has something behind every name.
Sent == {m \in Message : m.from = "bot" => m.tail # "end"}

WatchInv == watch \in [Watchers -> {r \in WatcherType : Honest(r)}]

MainInv ==
    /\ run \in {"args", "connect", "loop", "gone"} /\ line \in CommandLines
    /\ link \in {"new", "down", "up", "subscribed", "deaf"}
    /\ \A i \in DOMAIN whitelist : whitelist[i] # ""
    /\ inbox \in Seq(Sent)
    /\ orders \in 0..MaxOrders /\ faults \in 0..MaxFaults

Numbers ==
    /\ CMD_OUTPUT_MAX \in Nat /\ CMD_OUTPUT_MAX > 0 /\ FooterSize \in Nat /\ FooterSize > 0
    /\ MaxWatchers \in Nat /\ MaxOutput \in Nat /\ MaxOrders \in Nat /\ MaxFaults \in Nat

LEMMA NumbersHold == Numbers
BY BufferAssumption, BoundsAssumption DEF Numbers

\* A watcher, field by field.
Rec(a, f, t, c, w, s, k, n) ==
    [at |-> a, order |-> f, text |-> t, child |-> c, wrote |-> w, status |-> s, code |-> k,
     answer |-> n]

LEMMA AsRec ==
    \A r \in WatcherType :
        r = Rec(r.at, r.order, r.text, r.child, r.wrote, r.status, r.code, r.answer)
BY DEF WatcherType, Rec

LEMMA RecFields ==
    \A a, f, t, c, w, s, k, n :
        /\ Rec(a, f, t, c, w, s, k, n).at = a /\ Rec(a, f, t, c, w, s, k, n).order = f
        /\ Rec(a, f, t, c, w, s, k, n).text = t /\ Rec(a, f, t, c, w, s, k, n).child = c
        /\ Rec(a, f, t, c, w, s, k, n).wrote = w /\ Rec(a, f, t, c, w, s, k, n).status = s
        /\ Rec(a, f, t, c, w, s, k, n).code = k /\ Rec(a, f, t, c, w, s, k, n).answer = n
BY DEF Rec

LEMMA RecType ==
    \A a \in Places, f \in Message, t \in 0..(CMD_OUTPUT_MAX - 1),
       c \in {"none", "running", "ended"}, w \in 0..MaxOutput, s \in Statuses, k \in Statuses,
       n \in Seq(Nat) : Rec(a, f, t, c, w, s, k, n) \in WatcherType
BY DEF WatcherType, Rec

\* What an action changes of a watcher.
LEMMA ChangeAt ==
    ASSUME NEW r \in WatcherType, NEW x
    PROVE  [r EXCEPT !.at = x] = Rec(x, r.order, r.text, r.child, r.wrote, r.status, r.code, r.answer)
BY DEF WatcherType, Rec

LEMMA ChangeText ==
    ASSUME NEW r \in WatcherType, NEW x
    PROVE  [r EXCEPT !.text = x] = Rec(r.at, r.order, x, r.child, r.wrote, r.status, r.code, r.answer)
<1>1. ASSUME NEW a, NEW f, NEW t, NEW c, NEW w, NEW s, NEW k, NEW n, NEW q, q = Rec(a, f, t, c, w, s, k, n)
      PROVE  [q EXCEPT !.text = x] = Rec(a, f, x, c, w, s, k, n)
    BY <1>1 DEF Rec
<1> QED
    BY <1>1, AsRec

LEMMA ChangeWrote ==
    ASSUME NEW r \in WatcherType, NEW x
    PROVE  [r EXCEPT !.wrote = x] = Rec(r.at, r.order, r.text, r.child, x, r.status, r.code, r.answer)
BY DEF WatcherType, Rec

LEMMA ChangeAtChild ==
    ASSUME NEW r \in WatcherType, NEW x, NEW y
    PROVE  [r EXCEPT !.at = x, !.child = y]
            = Rec(x, r.order, r.text, y, r.wrote, r.status, r.code, r.answer)
<1>1. [r EXCEPT !.at = x] = Rec(x, r.order, r.text, r.child, r.wrote, r.status, r.code, r.answer)
    BY DEF WatcherType, Rec
<1>2. [Rec(x, r.order, r.text, r.child, r.wrote, r.status, r.code, r.answer) EXCEPT !.child = y]
          = Rec(x, r.order, r.text, y, r.wrote, r.status, r.code, r.answer)
    BY DEF Rec
<1>3. [r EXCEPT !.at = x, !.child = y] = [[r EXCEPT !.at = x] EXCEPT !.child = y]
    BY Zenon
<1> QED
    BY <1>1, <1>2, <1>3, Zenon

LEMMA ChangeChildStatus ==
    ASSUME NEW r \in WatcherType, NEW x, NEW y
    PROVE  [r EXCEPT !.child = x, !.status = y]
            = Rec(r.at, r.order, r.text, x, r.wrote, y, r.code, r.answer)
<1>1. [r EXCEPT !.child = x] = Rec(r.at, r.order, r.text, x, r.wrote, r.status, r.code, r.answer)
    BY DEF WatcherType, Rec
<1>2. [Rec(r.at, r.order, r.text, x, r.wrote, r.status, r.code, r.answer) EXCEPT !.status = y]
          = Rec(r.at, r.order, r.text, x, r.wrote, y, r.code, r.answer)
    BY DEF Rec
<1>3. [r EXCEPT !.child = x, !.status = y] = [[r EXCEPT !.child = x] EXCEPT !.status = y]
    BY Zenon
<1> QED
    BY <1>1, <1>2, <1>3, Zenon

LEMMA ChangeAtCode ==
    ASSUME NEW r \in WatcherType, NEW x, NEW y
    PROVE  [r EXCEPT !.at = x, !.code = y]
            = Rec(x, r.order, r.text, r.child, r.wrote, r.status, y, r.answer)
<1>1. [r EXCEPT !.at = x] = Rec(x, r.order, r.text, r.child, r.wrote, r.status, r.code, r.answer)
    BY DEF WatcherType, Rec
<1>2. [Rec(x, r.order, r.text, r.child, r.wrote, r.status, r.code, r.answer) EXCEPT !.code = y]
          = Rec(x, r.order, r.text, r.child, r.wrote, r.status, y, r.answer)
    BY DEF Rec
<1>3. [r EXCEPT !.at = x, !.code = y] = [[r EXCEPT !.at = x] EXCEPT !.code = y]
    BY Zenon
<1> QED
    BY <1>1, <1>2, <1>3, Zenon

LEMMA ChangeAtAnswer ==
    ASSUME NEW r \in WatcherType, NEW x, NEW y
    PROVE  [r EXCEPT !.at = x, !.answer = y]
            = Rec(x, r.order, r.text, r.child, r.wrote, r.status, r.code, y)
<1>1. [r EXCEPT !.at = x] = Rec(x, r.order, r.text, r.child, r.wrote, r.status, r.code, r.answer)
    BY DEF WatcherType, Rec
<1>2. [Rec(x, r.order, r.text, r.child, r.wrote, r.status, r.code, r.answer) EXCEPT !.answer = y]
          = Rec(x, r.order, r.text, r.child, r.wrote, r.status, r.code, y)
    BY DEF Rec
<1>3. [r EXCEPT !.at = x, !.answer = y] = [[r EXCEPT !.at = x] EXCEPT !.answer = y]
    BY Zenon
<1> QED
    BY <1>1, <1>2, <1>3, Zenon

LEMMA NobodysOrder == NoOrder \in Message /\ Ordered(NoOrder)
BY DEF NoOrder, Message, Ordered

LEMMA FreeIsHonest ==
    /\ FreeWatcher = Rec("free", NoOrder, 0, "none", 0, 0, 0, NoAnswer)
    /\ \A place \in {"free", "start", "snap", "gone"}, m \in Message :
          LET r == Rec(place, m, 0, "none", 0, 0, 0, NoAnswer)
          IN  Ordered(m) => r \in WatcherType /\ Honest(r)
<1>1. FreeWatcher = Rec("free", NoOrder, 0, "none", 0, 0, 0, NoAnswer)
    BY DEF FreeWatcher, Rec
<1>2. ASSUME NEW place \in {"free", "start", "snap", "gone"}, NEW m \in Message, Ordered(m)
      PROVE  LET r == Rec(place, m, 0, "none", 0, 0, 0, NoAnswer)
             IN  r \in WatcherType /\ Honest(r)
    <2>1. 0 \in 0..(CMD_OUTPUT_MAX - 1) /\ 0 \in 0..MaxOutput /\ 0 \in Statuses /\ NoAnswer \in Seq(Nat)
        BY NumbersHold DEF Numbers, Statuses, Codes, NoAnswer
    <2>2. place \in Places
        BY DEF Places
    <2>3. Rec(place, m, 0, "none", 0, 0, 0, NoAnswer) \in WatcherType
        BY <2>1, <2>2, RecType
    <2>4. Honest(Rec(place, m, 0, "none", 0, 0, 0, NoAnswer))
        BY <1>2, RecFields DEF Honest
    <2> QED
        BY <2>3, <2>4
<1> QED
    BY <1>1, <1>2

\* A watcher begins, or is gone.
LEMMA FreshRec ==
    \A place, m :
        /\ [FreeWatcher EXCEPT !.at = place] = Rec(place, NoOrder, 0, "none", 0, 0, 0, NoAnswer)
        /\ [FreeWatcher EXCEPT !.at = place, !.order = m]
              = Rec(place, m, 0, "none", 0, 0, 0, NoAnswer)
<1> TAKE place, m
<1>1. [FreeWatcher EXCEPT !.at = place] = Rec(place, NoOrder, 0, "none", 0, 0, 0, NoAnswer)
    BY DEF FreeWatcher, Rec
<1>2. [Rec(place, NoOrder, 0, "none", 0, 0, 0, NoAnswer) EXCEPT !.order = m]
          = Rec(place, m, 0, "none", 0, 0, 0, NoAnswer)
    BY DEF Rec
<1>3. [FreeWatcher EXCEPT !.at = place, !.order = m]
          = [[FreeWatcher EXCEPT !.at = place] EXCEPT !.order = m]
    BY Zenon
<1> QED
    BY <1>1, <1>2, <1>3, Zenon

LEMMA InitInv == Init => MainInv /\ WatchInv
<1>1. Init => MainInv
    BY NumbersHold DEF Init, MainInv, Numbers
<1>2. FreeWatcher \in WatcherType /\ Honest(FreeWatcher)
    BY FreeIsHonest, NobodysOrder
<1>3. Init => WatchInv
    BY <1>2 DEF Init, WatchInv
<1> QED
    BY <1>1, <1>3

(***************************************************************************)
(* The loop                                                                *)
(***************************************************************************)

\* A message on which the bot forks is an order: one of its own that it takes for a name
\* has a NUL behind the name, or the name is as long as the copy.
LEMMA OnlyOrdersCommand ==
    ASSUME NEW m \in Sent, BuiltIn(m) \/ Lookup(m)
    PROVE  m \in Message /\ Ordered(m)
<1>1. PICK name : Reads(m, name)
    BY DEF BuiltIn, Lookup
<1> QED
    BY <1>1 DEF Reads, Sent, Message, Ordered, Hides

LEMMA SetKeeps ==
    ASSUME WatchInv, NEW w \in Watchers, NEW r \in WatcherType, Honest(r),
           watch' = [watch EXCEPT ![w] = r]
    PROVE  WatchInv'
BY DEF WatchInv

LEMMA ForkKeeps ==
    ASSUME WatchInv, NEW m \in Message, Ordered(m), NEW at \in {"snap", "start"}, Fork(m, at)
    PROVE  WatchInv'
<1>1. PICK w \in Watchers : watch' = [watch EXCEPT ![w] = [FreeWatcher EXCEPT !.at = at, !.order = m]]
    BY DEF Fork
<1>2. watch' = [watch EXCEPT ![w] = Rec(at, m, 0, "none", 0, 0, 0, NoAnswer)]
    BY <1>1, FreshRec, Zenon
<1> QED
    BY <1>2, FreeIsHonest, SetKeeps

LEMMA FaultType ==
    ASSUME MainInv, Fault \/ UNCHANGED faults
    PROVE  faults' \in 0..MaxFaults
<1>1. faults \in 0..MaxFaults
    BY DEF MainInv
<1>2. CASE Fault
    BY <1>1, <1>2, NumbersHold DEF Fault, Numbers
<1> QED
    BY <1>1, <1>2

LEMMA MessageStep ==
    ASSUME MainInv, WatchInv, OnMessage \/ OnMessageFails
    PROVE  MainInv' /\ WatchInv'
<1>1. Head(inbox) \in Sent /\ Tail(inbox) \in Seq(Sent)
    <2>1. inbox \in Seq(Sent) /\ inbox # <<>>
        BY DEF MainInv, OnMessage, OnMessageFails
    <2> QED
        BY <2>1
<1>2. CASE OnMessage
    <2>1. MainInv'
        BY <1>1, <1>2 DEF OnMessage, MainInv, loopVars
    <2>2. CASE BuiltIn(Head(inbox)) /\ Fork(Head(inbox), "snap")
        BY <1>1, <2>1, <2>2, OnlyOrdersCommand, ForkKeeps
    <2>3. CASE Lookup(Head(inbox)) /\ Fork(Head(inbox), "start")
        BY <1>1, <2>1, <2>3, OnlyOrdersCommand, ForkKeeps
    <2>4. CASE UNCHANGED watch
        BY <2>1, <2>4 DEF WatchInv
    <2> QED
        BY <1>2, <2>1, <2>2, <2>3, <2>4 DEF OnMessage
<1>3. CASE OnMessageFails
    <2>1. faults' \in 0..MaxFaults
        BY <1>3, FaultType DEF OnMessageFails
    <2> QED
        BY <1>1, <1>3, <2>1 DEF OnMessageFails, MainInv, WatchInv, loopVars
<1> QED
    BY <1>2, <1>3

LEMMA OrderStep ==
    ASSUME MainInv, WatchInv, Order
    PROVE  MainInv' /\ WatchInv'
<1>1. PICK m \in Orders :
          \/ UNCHANGED <<inbox, faults>>
          \/ inbox' = Append(inbox, m) /\ UNCHANGED faults
          \/ inbox' = inbox \o <<m, m>> /\ Fault
    BY DEF Order
<1>2. m \in Sent
    BY OrdersAssumption DEF Sent
<1>3. inbox' \in Seq(Sent)
    <2>1. inbox \in Seq(Sent) /\ (inbox' = inbox \/ inbox' = Append(inbox, m) \/ inbox' = inbox \o <<m, m>>)
        BY <1>1 DEF MainInv
    <2> QED
        BY <1>2, <2>1
<1>4. faults' \in 0..MaxFaults
    BY <1>1, FaultType
<1>5. orders' \in 0..MaxOrders
    <2>1. orders \in 0..MaxOrders /\ orders < MaxOrders /\ orders' = orders + 1
        BY DEF Order, MainInv
    <2> QED
        BY <2>1, NumbersHold DEF Numbers
<1> QED
    BY <1>3, <1>4, <1>5 DEF Order, MainInv, WatchInv, loopVars

LEMMA LoopStep ==
    ASSUME MainInv, WatchInv, ParseArgs \/ MainConnect \/ Connack \/ Disconnect \/ LoopReturns
    PROVE  MainInv' /\ WatchInv'
<1>1. WatchInv'
    BY DEF ParseArgs, MainConnect, Connack, Disconnect, LoopReturns, WatchInv
<1>2. CASE ParseArgs
    <2>1. \A i \in DOMAIN whitelist' : whitelist'[i] # ""
        <3>1. CASE Accepts(line.specs)
            BY <1>2, <3>1, WhitelistAssumption DEF ParseArgs, MainInv, Accepts, Valid
        <3>2. CASE ~Accepts(line.specs)
            BY <1>2, <3>2 DEF ParseArgs, MainInv
        <3> QED
            BY <3>1, <3>2
    <2> QED
        BY <1>1, <1>2, <2>1 DEF ParseArgs, MainInv
<1>3. CASE MainConnect \/ Connack \/ Disconnect \/ LoopReturns
    <2>1. faults' \in 0..MaxFaults
        BY <1>3, FaultType DEF MainConnect, Connack, Disconnect, LoopReturns
    <2>2. inbox' \in Seq(Sent)
        <3>1. inbox' = inbox \/ inbox' = <<>>
            BY <1>3 DEF MainConnect, Connack, Disconnect, LoopReturns
        <3> QED
            BY <3>1, EmptySeq DEF MainInv
    <2> QED
        BY <1>1, <1>3, <2>1, <2>2 DEF MainConnect, Connack, Disconnect, LoopReturns, OnConnect, MainInv
<1> QED
    BY <1>2, <1>3

(***************************************************************************)
(* Watchers and their commands                                             *)
(***************************************************************************)

\* Watcher w becomes the record with these fields.
Becomes(w, a, t, c, o, s, k, n) ==
    watch' = [watch EXCEPT ![w] = Rec(a, watch[w].order, t, c, o, s, k, n)]

LEMMA BecomesKeeps ==
    ASSUME WatchInv, NEW w \in Watchers, NEW a \in Places, NEW t \in 0..(CMD_OUTPUT_MAX - 1),
           NEW c \in {"none", "running", "ended"}, NEW o \in 0..MaxOutput, NEW s \in Statuses,
           NEW k \in Statuses, NEW n \in Seq(Nat),
           a \in {"wait", "publish"} /\ t < CMD_OUTPUT_MAX - 1 => c = "ended" /\ t = o,
           a = "publish" => k = s /\ c = "ended",
           n # NoAnswer => /\ a = "ack" /\ c = "ended" /\ n = <<t + FooterSize, s>>
                           /\ t < CMD_OUTPUT_MAX - 1 => t = o,
           Becomes(w, a, t, c, o, s, k, n)
    PROVE  WatchInv'
<1> DEFINE r == Rec(a, watch[w].order, t, c, o, s, k, n)
<1>1. watch[w] \in WatcherType /\ watch[w].order \in Message /\ Ordered(watch[w].order)
    BY DEF WatchInv, Honest, Ordered
<1>2. r \in WatcherType
    BY <1>1, RecType
<1>3. /\ r.at = a /\ r.order = watch[w].order /\ r.text = t /\ r.child = c /\ r.wrote = o
      /\ r.status = s /\ r.code = k /\ r.answer = n
    BY <1>1, RecFields
<1> HIDE DEF r
<1>4. Honest(r)
    BY <1>1, <1>3 DEF Honest
<1>5. watch' = [watch EXCEPT ![w] = r]
    BY DEF Becomes, r
<1> QED
    BY <1>2, <1>4, <1>5, SetKeeps

\* What is known of a watcher that is there.
LEMMA Known ==
    ASSUME WatchInv, NEW w \in Watchers
    PROVE  /\ watch[w] \in WatcherType /\ Honest(watch[w])
           /\ watch[w] = Rec(watch[w].at, watch[w].order, watch[w].text, watch[w].child,
                             watch[w].wrote, watch[w].status, watch[w].code, watch[w].answer)
           /\ watch[w].at \in Places /\ watch[w].text \in 0..(CMD_OUTPUT_MAX - 1)
           /\ watch[w].child \in {"none", "running", "ended"} /\ watch[w].wrote \in 0..MaxOutput
           /\ watch[w].status \in Statuses /\ watch[w].code \in Statuses
           /\ watch[w].answer \in Seq(Nat)
<1>1. watch[w] \in WatcherType /\ Honest(watch[w])
    BY DEF WatchInv
<1> QED
    BY <1>1, AsRec DEF WatcherType

LEMMA QuitKeeps ==
    ASSUME WatchInv, NEW w \in Watchers, Quit(w)
    PROVE  WatchInv'
<1>1. watch' = [watch EXCEPT ![w] = Rec("gone", NoOrder, 0, "none", 0, 0, 0, NoAnswer)]
    BY FreshRec, Zenon DEF Quit, Set
<1> QED
    BY <1>1, NobodysOrder, FreeIsHonest, SetKeeps

LEMMA GotoBecomes ==
    ASSUME WatchInv, NEW w \in Watchers, NEW place \in Places, Goto(w, place)
    PROVE  Becomes(w, place, watch[w].text, watch[w].child, watch[w].wrote, watch[w].status,
                   watch[w].code, watch[w].answer)
<1>1. watch[w] \in WatcherType
    BY Known
<1> QED
    BY <1>1, ChangeAt, Zenon DEF Goto, Set, Becomes

LEMMA RunCommandKeeps ==
    ASSUME WatchInv, NEW w \in Watchers, RunCommand(w)
    PROVE  WatchInv'
<1> DEFINE r == watch[w]
<1>1. r.answer = NoAnswer
    BY Known DEF Honest, RunCommand, At
<1>2. ASSUME NEW place \in {"read", "reap"}, Set(w, [r EXCEPT !.at = place, !.child = "running"])
      PROVE  WatchInv'
    <2>1. r \in WatcherType
        BY Known
    <2>4. Becomes(w, place, r.text, "running", r.wrote, r.status, r.code, r.answer)
        BY <1>2, <2>1, ChangeAtChild, Zenon DEF Becomes, Set
    <2>5. place \in Places
        BY DEF Places
    <2> QED
        BY <1>1, <1>2, <2>4, <2>5, Known, BecomesKeeps
<1> QED
    BY <1>2, QuitKeeps DEF RunCommand

\* A command that is still there has not been spoken of.
LEMMA RunningIsQuiet ==
    ASSUME WatchInv, NEW w \in Watchers, Runs(w)
    PROVE  /\ watch[w].answer = NoAnswer /\ watch[w].at # "publish"
           /\ watch[w].at = "wait" => ~(watch[w].text < CMD_OUTPUT_MAX - 1)
BY Known DEF Honest, Runs

LEMMA EndedKeeps ==
    ASSUME WatchInv, NEW w \in Watchers, Runs(w), NEW x \in Statuses,
           Set(w, [watch[w] EXCEPT !.child = "ended", !.status = x])
    PROVE  WatchInv'
<1> DEFINE r == watch[w]
<1>1. r \in WatcherType
    BY Known
<1>4. Becomes(w, r.at, r.text, "ended", r.wrote, x, r.code, r.answer)
    BY <1>1, ChangeChildStatus, Zenon DEF Becomes, Set
<1> QED
    BY <1>4, Known, RunningIsQuiet, BecomesKeeps

LEMMA ChildKeeps ==
    ASSUME WatchInv, NEW w \in Watchers, ChildWrites(w) \/ ChildEnds(w)
    PROVE  WatchInv'
<1> DEFINE r == watch[w]
<1>1. Runs(w)
    BY DEF ChildWrites, ChildEnds
<1>2. CASE Reader(w) /\ r.wrote < MaxOutput /\ Set(w, [r EXCEPT !.wrote = @ + 1])
    <2>1. [r EXCEPT !.wrote = r.wrote + 1]
              = Rec(r.at, r.order, r.text, r.child, r.wrote + 1, r.status, r.code, r.answer)
        BY Known, ChangeWrote
    <2>2. Becomes(w, r.at, r.text, r.child, r.wrote + 1, r.status, r.code, r.answer)
        BY <1>2, <2>1 DEF Becomes, Set
    <2>3. r.wrote + 1 \in 0..MaxOutput
        BY <1>2, Known, NumbersHold DEF Numbers
    <2>4. r.at \notin {"wait", "publish"}
        BY <1>2 DEF Reader
    <2> QED
        BY <1>1, <2>2, <2>3, <2>4, Known, RunningIsQuiet, BecomesKeeps
<1>3. ASSUME NEW x \in Statuses, Set(w, [r EXCEPT !.child = "ended", !.status = x]) PROVE WatchInv'
    BY <1>1, <1>3, EndedKeeps
<1> QED
    BY <1>2, <1>3 DEF ChildWrites, ChildEnds, Statuses

LEMMA ReadKeeps ==
    ASSUME WatchInv, NEW w \in Watchers, Read(w) \/ ReadEnds(w)
    PROVE  WatchInv'
<1> DEFINE r == watch[w]
<1>1. r.at = "read" /\ r.answer = NoAnswer
    BY Known DEF Read, ReadEnds, At, Honest
<1>2. CASE Read(w)
    <2>1. [r EXCEPT !.text = r.text + 1]
              = Rec(r.at, r.order, r.text + 1, r.child, r.wrote, r.status, r.code, r.answer)
        BY Known, ChangeText
    <2>2. Becomes(w, r.at, r.text + 1, r.child, r.wrote, r.status, r.code, r.answer)
        BY <1>2, <2>1 DEF Becomes, Set, Read
    <2>3. r.text + 1 \in 0..(CMD_OUTPUT_MAX - 1)
        BY <1>2, Known, NumbersHold DEF Numbers, Read, Room
    <2> QED
        BY <1>1, <2>2, <2>3, Known, BecomesKeeps
<1>3. CASE ReadEnds(w)
    <2>1. "wait" \in Places
        BY DEF Places
    <2>2. Becomes(w, "wait", r.text, r.child, r.wrote, r.status, r.code, r.answer)
        BY <1>3, <2>1, GotoBecomes DEF ReadEnds
    <2>3. r.text < CMD_OUTPUT_MAX - 1 => r.child = "ended" /\ r.text = r.wrote
        BY <1>3 DEF ReadEnds, Room
    <2> QED
        BY <1>1, <2>1, <2>2, <2>3, Known, BecomesKeeps
<1> QED
    BY <1>2, <1>3

LEMMA WaitKeeps ==
    ASSUME WatchInv, NEW w \in Watchers, Wait(w)
    PROVE  WatchInv'
<1> DEFINE r == watch[w]
<1>1. CASE At(w, "wait") /\ Set(w, [r EXCEPT !.at = "publish", !.code = Collected(w)])
    <2>1. r.at = "wait" /\ r.child = "ended" /\ r.answer = NoAnswer
          /\ (r.text < CMD_OUTPUT_MAX - 1 => r.text = r.wrote)
        BY <1>1, Known DEF At, Honest, Wait
    <2>2. r \in WatcherType
        BY Known
    <2>5. Becomes(w, "publish", r.text, r.child, r.wrote, r.status, r.status, r.answer)
        BY <1>1, <2>2, ChangeAtCode, Zenon DEF Becomes, Set, Collected
    <2>6. "publish" \in Places
        BY DEF Places
    <2> QED
        BY <2>1, <2>5, <2>6, Known, BecomesKeeps
<1> QED
    BY <1>1, QuitKeeps DEF Wait

LEMMA PublishKeeps ==
    ASSUME WatchInv, NEW w \in Watchers, Publish(w)
    PROVE  WatchInv'
<1> DEFINE r == watch[w]
           x == <<r.text + FooterSize, r.code>>
<1>1. r.at = "publish" /\ r.child = "ended" /\ r.code = r.status
      /\ (r.text < CMD_OUTPUT_MAX - 1 => r.text = r.wrote)
    BY Known DEF Publish, At, Honest
<1>2. x \in Seq(Nat) /\ x = <<r.text + FooterSize, r.status>>
    <2>1. r.text + FooterSize \in Nat /\ r.code \in Nat
        BY Known, NumbersHold DEF Numbers, Statuses, Codes, Signalled
    <2> QED
        BY <1>1, <2>1
<1>3. r \in WatcherType
    BY Known
<1>4. Set(w, [r EXCEPT !.at = "ack", !.answer = x])
    BY DEF Publish, Total
<1>5. [r EXCEPT !.at = "ack", !.answer = x]
          = Rec("ack", r.order, r.text, r.child, r.wrote, r.status, r.code, x)
    BY <1>3, ChangeAtAnswer, Zenon
<1>6. Becomes(w, "ack", r.text, r.child, r.wrote, r.status, r.code, x)
    BY <1>4, <1>5, Zenon DEF Becomes, Set
<1>7. "ack" \in Places
    BY DEF Places
<1>8. r.text < CMD_OUTPUT_MAX - 1 => r.text = r.wrote
    BY <1>1
<1>9. /\ r.text \in 0..(CMD_OUTPUT_MAX - 1) /\ r.child \in {"none", "running", "ended"}
      /\ r.wrote \in 0..MaxOutput /\ r.status \in Statuses /\ r.code \in Statuses
    BY Known
<1> HIDE DEF x, r
<1> QED
    BY <1>1, <1>2, <1>6, <1>7, <1>8, <1>9, BecomesKeeps

LEMMA PublishMain ==
    ASSUME MainInv, WatchInv, NEW w \in Watchers, Publish(w)
    PROVE  MainInv'
<1>1. inbox' = inbox \/ \E m \in Payloads(w) : inbox' = Append(inbox, m)
    BY DEF Publish
<1>2. Payloads(w) \subseteq Sent
    <2>1. Total(w) # watch[w].text
        BY Known, NumbersHold DEF Total, Numbers
    <2> QED
        BY <2>1 DEF Payloads, Sent
<1>3. inbox' \in Seq(Sent)
    <2>1. PICK m \in Sent : inbox' = inbox \/ inbox' = Append(inbox, m)
        BY <1>1, <1>2, NobodysOrder DEF Sent, NoOrder
    <2>2. inbox \in Seq(Sent)
        BY DEF MainInv
    <2> QED
        BY <2>1, <2>2
<1> QED
    BY <1>3 DEF Publish, MainInv, loopVars

LEMMA SnapKeeps ==
    ASSUME WatchInv, NEW w \in Watchers, Snap(w)
    PROVE  WatchInv'
<1> DEFINE r == watch[w]
<1>1. CASE Goto(w, "ack")
    <2>1. "ack" \in Places
        BY DEF Places
    <2>2. Becomes(w, "ack", r.text, r.child, r.wrote, r.status, r.code, r.answer)
        BY <1>1, <2>1, GotoBecomes
    <2>3. r.answer = NoAnswer
        BY Known DEF Snap, At, Honest
    <2> QED
        BY <2>1, <2>2, <2>3, Known, BecomesKeeps
<1> QED
    BY <1>1, QuitKeeps DEF Snap

LEMMA WatcherStep ==
    ASSUME MainInv, WatchInv, NEW w \in Watchers,
           Watcher(w) \/ Alarm(w) \/ ChildWrites(w) \/ ChildEnds(w)
    PROVE  MainInv' /\ WatchInv'
<1>1. WatchInv'
    BY RunCommandKeeps, ChildKeeps, ReadKeeps, WaitKeeps, PublishKeeps, SnapKeeps, QuitKeeps
       DEF Watcher, Alarm, PublishEnds
<1>2. CASE Publish(w)
    BY <1>1, <1>2, PublishMain
<1>3. CASE ~Publish(w)
    <2>1. Idle /\ (Fault \/ UNCHANGED faults)
        BY <1>3 DEF Watcher, Alarm, RunCommand, ChildWrites, ChildEnds, Read, ReadEnds, Wait,
           PublishEnds, Snap
    <2>2. faults' \in 0..MaxFaults
        BY <2>1, FaultType
    <2> QED
        BY <1>1, <2>1, <2>2 DEF Idle, loopVars, MainInv
<1> QED
    BY <1>2, <1>3

LEMMA StepInv == MainInv /\ WatchInv /\ [Next]_vars => MainInv' /\ WatchInv'
<1>1. MainInv /\ WatchInv /\ UNCHANGED vars => MainInv' /\ WatchInv'
    BY DEF MainInv, WatchInv, vars, loopVars
<1> QED
    BY <1>1, LoopStep, MessageStep, OrderStep, WatcherStep DEF Next, Loop

LEMMA AllInvariants == Spec => [](MainInv /\ WatchInv)
<1>1. Init /\ [][Next]_vars => [](MainInv /\ WatchInv)
    BY InitInv, StepInv, PTL
<1> QED
    BY <1>1, PTL DEF Spec

\* Every variable keeps its type; a text never outgrows its buffer, whatever is written.
THEOREM TypeCorrect == Spec => []TypeOK
<1>1. ASSUME MainInv, WatchInv PROVE TypeOK
    <2>1. inbox \in Seq(Message)
        BY <1>1, SeqMonotonic DEF MainInv, Sent
    <2>2. \A w \in Watchers :
              /\ watch[w].at \in {"free", "start", "snap", "read", "reap", "wait",
                                  "publish", "ack", "gone"}
              /\ watch[w].text \in 0..(CMD_OUTPUT_MAX - 1)
              /\ watch[w].wrote \in 0..MaxOutput
              /\ watch[w].child \in {"none", "running", "ended"}
              /\ watch[w].order \in Message
        BY <1>1, Known DEF Places, Honest, Ordered
    <2>3. ASSUME NEW w \in Watchers, watch[w].answer # NoAnswer
          PROVE  watch[w].answer[1] \in 0..(CMD_OUTPUT_MAX - 1 + FooterSize)
        <3>1. watch[w].answer = <<watch[w].text + FooterSize, watch[w].status>>
            BY <1>1, <2>3, Known DEF Honest
        <3> QED
            BY <1>1, <3>1, Known, NumbersHold DEF Numbers
    <2> QED
        BY <1>1, <2>1, <2>2, <2>3 DEF MainInv, TypeOK
<1> QED
    BY <1>1, AllInvariants, PTL

\* Every watcher was started by a controller, or by an answer in which a NUL or the length
\* of the name hides the footer from the comparison, whichever topic answers go to.
THEOREM ControllersOrder == Spec => []OnlyOrdered
<1>1. WatchInv => OnlyOrdered
    BY Known DEF OnlyOrdered, Honest, Ordered
<1> QED
    BY <1>1, AllInvariants, PTL

\* An answer that is no longer than the buffer gives the status the command ended with,
\* after all that it wrote.
THEOREM AnswersAreTrue == Spec => []AnswerIsTrue
<1>1. ASSUME WatchInv, NEW w \in Watchers, watch[w].answer # NoAnswer,
             watch[w].answer[1] < CMD_OUTPUT_MAX
      PROVE  watch[w].answer = <<watch[w].wrote + FooterSize, watch[w].status>>
    <2>1. watch[w].answer = <<watch[w].text + FooterSize, watch[w].status>>
        BY <1>1, Known DEF Honest
    <2>2. watch[w].text < CMD_OUTPUT_MAX - 1
        BY <1>1, <2>1, Known, NumbersHold DEF Numbers
    <2> QED
        BY <1>1, <2>1, <2>2, Known DEF Honest
<1>2. WatchInv => AnswerIsTrue
    BY <1>1 DEF AnswerIsTrue
<1> QED
    BY <1>2, AllInvariants, PTL
=============================================================================
