---------------------------- MODULE MotorsProofs ----------------------------
(***************************************************************************)
(* Theorems about Motors, for any number of overlapping runs of either     *)
(* program, any pins and any moves.                                        *)
(***************************************************************************)
EXTENDS Motors, TLAPS

LEMMA DriverPinsType ==
    /\ \A i \in 1..8 : DriverPins[i] \in AllPins
    /\ \A i \in 1..4 : Pan[i] = DriverPins[i] /\ Tilt[i] = DriverPins[i + 4]
    /\ \A x \in ToSet(DriverPins) : \E i \in 1..8 : x = DriverPins[i]
BY DEF AllPins, ToSet, DriverPins

LEMMA PinsType == \A a \in Axes, i \in Coil : PinsOf(a)[i] \in AllPins
<1>1. \A i \in 1..4 : i + 4 \in 1..8
    OBVIOUS
<1>2. \A i \in 1..4 : Pan[i] \in AllPins /\ Tilt[i] \in AllPins
    BY <1>1, DriverPinsType
<1> QED
    BY <1>2 DEF PinsOf, Coil

LEMMA OrderType ==
    /\ Len(Order) = IF shared THEN 9 ELSE 8
    /\ DOMAIN Order = 1..Len(Order)
    /\ \A k \in 1..Len(Order) : Order[k] \in AllPins
<1>1. \A i \in Coil : Pan[i] \in AllPins /\ Tilt[i] \in AllPins
    BY PinsType, DriverPinsType DEF Coil
<1>2. Select \in AllPins
    BY DEF AllPins
<1>3. CASE shared
    BY <1>1, <1>2, <1>3 DEF Order, Coil
<1>4. CASE ~shared
    BY <1>1, <1>4 DEF Order, Coil
<1> QED
    BY <1>3, <1>4

LEMMA OrderLength == Len(Order) \in 8..9
<1>1. CASE shared
    BY <1>1 DEF Order
<1>2. CASE ~shared
    BY <1>2 DEF Order
<1> QED
    BY <1>1, <1>2

LEMMA FirstPin == 1 \in 1..Len(Order) /\ \A j \in 1..Len(Order) : ~(j < 1)
<1>1. \A n \in 8..9 : 1 \in 1..n /\ \A j \in 1..n : ~(j < 1)
    OBVIOUS
<1> QED
    BY <1>1, OrderLength, Zenon

LEMMA NextPin == \A i \in 1..9, n \in 8..9 : i < n => i + 1 \in 1..9
OBVIOUS

LEMMA EndedType == Ended \in Run
<1>1. /\ "idle" \in Places /\ [a \in Axes |-> 0] \in [Axes -> Int] /\ "pan" \in Axes
      /\ 0 \in Nat /\ 1 \in 1..8 /\ 1 \in 1..9 /\ TRUE \in BOOLEAN /\ FALSE \in BOOLEAN
    BY DEF Places, Axes
<1> DEFINE still == [a \in Axes |-> 0]
<1>2. Ended = [at |-> "idle", move |-> still, axis |-> "pan", left |-> 0,
               micro |-> 1, k |-> 1, error |-> FALSE, alone |-> TRUE]
    BY DEF Ended
<1>3. still \in [Axes -> Int]
    BY <1>1, Zenon
<1> HIDE DEF still
<1> QED
    BY <1>1, <1>2, <1>3, Zenon DEF Run

\* A run that goes somewhere else, with another pin to look at.
LEMMA RunAt ==
    ASSUME NEW r \in Run, NEW place \in Places, NEW i \in 1..9
    PROVE  /\ [r EXCEPT !.at = place] \in Run /\ [r EXCEPT !.at = place, !.k = i] \in Run
           /\ [r EXCEPT !.k = i] \in Run
           /\ [r EXCEPT !.at = place, !.k = i, !.error = TRUE] \in Run
<1>1. TRUE \in BOOLEAN
    OBVIOUS
<1> QED
    BY <1>1, Zenon DEF Run

LEMMA RunAxesType ==
    ASSUME NEW r \in Run, NEW a \in Axes \cup {"none"}, NEW first \in Places,
           NEW then \in Places
    PROVE  RunAxes(r, a, first, then) \in Run
<1>1. \A b \in Axes : Abs(r.move[b]) \in Nat
    BY DEF Run, Abs
<1>2. \A b \in Axes :
          [r EXCEPT !.at = first, !.axis = b, !.left = Abs(r.move[b]),
                     !.micro = 1, !.k = 1] \in Run
    <2>1. 1 \in 1..8 /\ 1 \in 1..9
        OBVIOUS
    <2> QED
        BY <1>1, <2>1, Zenon DEF Run
<1>3. [Ended EXCEPT !.at = then, !.alone = r.alone] \in Run
    BY EndedType DEF Run
<1> QED
    BY <1>2, <1>3 DEF RunAxes, Axes

LEMMA TurnType ==
    ASSUME NEW r \in Int, NEW field
    PROVE  Turn(r, field) \in Int
<1>1. CASE \E n \in 1..8 : STEP_SEQUENCE[n] = field
    <2> DEFINE n == CHOOSE m \in 1..8 : STEP_SEQUENCE[m] = field
               d == (n - 1 - r) % 8
    <2>1. n \in 1..8
        BY <1>1
    <2> HIDE DEF n
    <2>2. d \in 0..7
        BY <2>1
    <2> HIDE DEF d
    <2>3. Turn(r, field) = IF d < 4 THEN r + d ELSE IF d > 4 THEN r - (8 - d) ELSE r
        BY <1>1 DEF Turn, n, d
    <2> QED
        BY <2>2, <2>3
<1>2. CASE ~\E n \in 1..8 : STEP_SEQUENCE[n] = field
    BY <1>2 DEF Turn
<1> QED
    BY <1>1, <1>2

LEMMA DelayType ==
    ASSUME TypeOK, NEW p \in Procs, NEW next \in Places, NEW v, proc[p].left > 0,
           Delay(p, next, v)
    PROVE  proc' \in [Procs -> Run] /\ rotor' \in [Axes -> Int]
<1> DEFINE r == proc[p]
           more == IF r.micro < 8 THEN [r EXCEPT !.micro = @ + 1]
                   ELSE [r EXCEPT !.micro = 1, !.left = @ - 1]
<1>1. r \in Run
    BY DEF TypeOK
<1>2. more \in Run
    <2>1. r.micro < 8 => r.micro + 1 \in 1..8
        BY <1>1 DEF Run
    <2>2. r.left - 1 \in Nat /\ 1 \in 1..8
        BY <1>1 DEF Run
    <2>3. r.micro < 8 => [r EXCEPT !.micro = @ + 1] \in Run
        BY <1>1, <2>1, Zenon DEF Run
    <2>4. [r EXCEPT !.micro = 1, !.left = @ - 1] \in Run
        BY <1>1, <2>2, Zenon DEF Run
    <2> QED
        BY <2>3, <2>4
<1>3. proc' = [proc EXCEPT ![p] = [more EXCEPT !.at = next, !.k = 1]]
    BY DEF Delay, Goto
<1> HIDE DEF more
<1>4. 1 \in 1..9
    OBVIOUS
<1>5. [more EXCEPT !.at = next, !.k = 1] \in Run
    BY <1>2, <1>4, RunAt
<1>6. \A a \in Axes : Turn(rotor[a], Field(a, v)) \in Int
    BY TurnType DEF TypeOK
<1>7. rotor' \in [Axes -> Int]
    BY <1>6 DEF Delay, TypeOK
<1> QED
    BY <1>3, <1>5, <1>7 DEF TypeOK

LEMMA AxisDoneType ==
    ASSUME TypeOK, NEW p \in Procs, NEW first \in Places, NEW then \in Places,
           AxisDone(p, first, then)
    PROVE  proc' \in [Procs -> Run] /\ asked' \in [Axes -> Int]
<1> DEFINE r == proc[p]
           next == RunAxes(r, IF r.axis = "pan" THEN "tilt" ELSE "none", first, then)
<1>1. r \in Run
    BY DEF TypeOK
<1>2. next \in Run
    BY <1>1, RunAxesType DEF Axes
<1>3. proc' = [proc EXCEPT ![p] = next]
    BY DEF AxisDone, Goto
<1>4. r.axis \in Axes /\ r.move \in [Axes -> Int]
    BY <1>1 DEF Run
<1>5. asked' \in [Axes -> Int]
    BY <1>4 DEF AxisDone, TypeOK
<1> HIDE DEF next
<1> QED
    BY <1>2, <1>3, <1>5 DEF TypeOK

LEMMA MaxRunsType == shared \in BOOLEAN => MaxRuns[shared] \in Nat
BY BoundsAssumption

LEMMA MoveType ==
    ASSUME shared \in BOOLEAN
    PROVE  \A m \in Moves[shared] \cup Beside[shared] : m \in [Axes -> Int]
BY MovesAssumption

\* The next pin of a loop over Order.
LEMMA LoopType ==
    ASSUME NEW r \in Run, NEW place \in Places, r.k < Len(Order)
    PROVE  [r EXCEPT !.at = place, !.k = @ + 1] \in Run
<1>1. r.k \in 1..9
    BY DEF Run
<1>2. r.k + 1 \in 1..9
    BY <1>1, OrderLength, NextPin, Zenon
<1> QED
    BY <1>2, RunAt

LEMMA InitTyped == Init => TypeOK
<1> SUFFICES ASSUME Init PROVE TypeOK
    OBVIOUS
<1>1. proc \in [Procs -> Run]
    BY EndedType DEF Init
<1>2. /\ owner \in [AllPins -> {"free", "sysfs", "driver"}] /\ value \in [AllPins -> {0, 1}]
      /\ rotor \in [Axes -> Int] /\ asked \in [Axes -> Int]
    BY DEF Init
<1>3. lock \subseteq Procs /\ asking \in 1..9 /\ driver = "out"
    BY DEF Init
<1>4. shared \in BOOLEAN /\ disturbed \in BOOLEAN
    BY DEF Init
<1>5. runs \in 0..MaxRuns[shared] /\ faults \in 0..MaxFaults
    BY BoundsAssumption, MaxRunsType DEF Init
<1> QED
    BY <1>1, <1>2, <1>3, <1>4, <1>5, Zenon DEF TypeOK

\* A run sleeps in the loop of axis_run only.
SleepInv == \A p \in Procs : At(p, "sleep") => proc[p].left > 0

LEMMA StepTyped == TypeOK /\ SleepInv /\ [Next]_vars => TypeOK'
<1> SUFFICES ASSUME TypeOK, SleepInv, [Next]_vars PROVE TypeOK'
    OBVIOUS
<1>1. /\ {"clean", "set", "sleep", "unexport", "select", "export"} \subseteq Places /\ 1 \in 1..9
      /\ \A p \in Procs : proc[p] \in Run
    BY DEF Places, ToolPlaces, TypeOK
<1> USE DEF TypeOK, Goto
<1>2. CASE Insmod \/ Register \/ Rmmod
    BY <1>2, BoundsAssumption DEF Insmod, Register, Rmmod, Unwind, Free, pins, kernel, world
<1>3. CASE Request
    <2>1. [owner EXCEPT ![DriverPins[asking]] = "driver"] \in [AllPins -> {"free", "sysfs", "driver"}]
        OBVIOUS
    <2>2. [value EXCEPT ![DriverPins[asking]] = 0] \in [AllPins -> {0, 1}]
        OBVIOUS
    <2> QED
        BY <1>3, <2>1, <2>2 DEF Request, Unwind, Free, pins, kernel, world
<1>4. ASSUME NEW p \in Procs, StartMotors(p) PROVE TypeOK'
    <2>1. \A m \in Moves[shared] \cup Beside[shared] :
              [Ended EXCEPT !.at = "export", !.move = m, !.alone = ToolRuns = {}] \in Run
        BY EndedType, MoveType DEF Run, Places, ToolPlaces
    <2>2. \A q \in Procs : [proc[q] EXCEPT !.alone = FALSE] \in Run
        BY DEF Run
    <2>3. proc' \in [Procs -> Run]
        <3>1. CASE UNCHANGED proc
            BY <3>1
        <3>2. CASE ~UNCHANGED proc
            <4>1. PICK m \in Moves[shared] \cup Beside[shared] :
                      proc' = [q \in Procs |->
                          IF q = p
                          THEN [Ended EXCEPT !.at = "export", !.move = m, !.alone = ToolRuns = {}]
                          ELSE IF q \in ToolRuns THEN [proc[q] EXCEPT !.alone = FALSE]
                          ELSE proc[q]]
                BY <1>4, <3>2 DEF StartMotors
            <4> QED
                BY <2>1, <2>2, <4>1
        <3> QED
            BY <3>1, <3>2
    <2>5. disturbed' \in BOOLEAN
        BY <1>4, Zenon DEF StartMotors
    <2>4. runs' \in 0..MaxRuns[shared]
        <3>1. runs < MaxRuns[shared] /\ runs' = runs + 1
            BY <1>4, Zenon DEF StartMotors
        <3> QED
            BY <3>1, MaxRunsType
    <2> QED
        BY <1>4, <2>3, <2>4, <2>5 DEF StartMotors, pins, kernel
<1>5. ASSUME NEW p \in Procs, Export(p) PROVE TypeOK'
    <2>1. [proc[p] EXCEPT !.at = "direction"] \in Run
        BY DEF Run, Places, ToolPlaces
    <2> QED
        BY <1>5, <2>1 DEF Export, kernel, world
<1>6. ASSUME NEW p \in Procs PROVE Fails(p) => proc' \in [Procs -> Run]
    <2>1. [proc[p] EXCEPT !.at = "clean", !.k = 1, !.error = TRUE] \in Run
        BY RunAt, <1>1
    <2> QED
        BY <2>1 DEF Fails
<1>7. ASSUME NEW p \in Procs, Direction(p) PROVE TypeOK'
    <2> DEFINE r == proc[p]
    <2>1. r.k < Len(Order) => [r EXCEPT !.at = "export", !.k = @ + 1] \in Run
        BY <1>1, LoopType
    <2>2. RunAxes(r, "pan", "select", "clean") \in Run
        BY <1>1, RunAxesType DEF Axes
    <2>3. proc' \in [Procs -> Run]
        BY <1>6, <1>7, <2>1, <2>2 DEF Direction
    <2> QED
        BY <1>7, <2>3 DEF Direction, kernel, world
<1>8. ASSUME NEW p \in Procs, SelectAxis(p) PROVE TypeOK'
    <2>1. [proc[p] EXCEPT !.at = "set"] \in Run
        BY RunAt, <1>1
    <2>2. proc' \in [Procs -> Run]
        BY <1>6, <1>8, <2>1 DEF SelectAxis
    <2>3. value' \in [AllPins -> {0, 1}]
        BY <1>8 DEF SelectAxis, Level
    <2> QED
        BY <1>8, <2>2, <2>3 DEF SelectAxis, kernel, world
<1>9. ASSUME NEW p \in Procs, SetCoils(p) PROVE TypeOK'
    <2> DEFINE r == proc[p]
               x == PinsOf(r.axis)[r.k]
    <2>1. value' \in [AllPins -> {0, 1}]
        <3>1. value' \in {value, [value EXCEPT ![x] = 0], [value EXCEPT ![x] = 1]}
            BY <1>9 DEF SetCoils
        <3> QED
            BY <3>1
    <2>2. proc' \in [Procs -> Run] /\ asked' \in [Axes -> Int]
        <3>1. CASE Fails(p) /\ UNCHANGED asked
            BY <1>6, <3>1
        <3>2. CASE r.k < 4 /\ Goto(p, [r EXCEPT !.k = @ + 1]) /\ UNCHANGED asked
            <4>1. r.k + 1 \in 1..9
                BY <1>1, <3>2 DEF Run
            <4>2. [r EXCEPT !.k = r.k + 1] \in Run
                BY <1>1, <4>1, RunAt
            <4> QED
                BY <3>2, <4>2
        <3>3. CASE Goto(p, [r EXCEPT !.at = "sleep"]) /\ UNCHANGED asked
            <4>1. [r EXCEPT !.at = "sleep"] \in Run
                BY <1>1, RunAt
            <4> QED
                BY <3>3, <4>1
        <3>4. CASE AxisDone(p, "select", "clean")
            BY <1>1, <3>4, AxisDoneType
        <3> QED
            BY <1>9, <3>1, <3>2, <3>3, <3>4 DEF SetCoils
    <2> QED
        BY <1>9, <2>1, <2>2 DEF SetCoils, kernel
<1>10. ASSUME NEW p \in Procs, Sleep(p) PROVE TypeOK'
    BY <1>1, <1>10, DelayType DEF Sleep, SleepInv, pins, kernel
<1>11. ASSUME NEW p \in Procs, Release(p) PROVE TypeOK'
    <2>1. [proc[p] EXCEPT !.at = "unexport"] \in Run
        BY <1>1, RunAt
    <2>2. value' \in [AllPins -> {0, 1}]
        BY <1>11 DEF Release
    <2> QED
        BY <1>11, <2>1, <2>2 DEF Release, kernel, world
<1>12. ASSUME NEW p \in Procs, Unexport(p) PROVE TypeOK'
    <2>1. proc[p].k < Len(CleanOrder) => [proc[p] EXCEPT !.at = "clean", !.k = @ + 1] \in Run
        BY <1>1, LoopType DEF CleanOrder
    <2>2. proc' \in [Procs -> Run]
        BY <1>12, <2>1, EndedType DEF Unexport
    <2>3. owner' \in [AllPins -> {"free", "sysfs", "driver"}]
        BY <1>12 DEF Unexport
    <2> QED
        BY <1>12, <2>2, <2>3 DEF Unexport, kernel, world
<1>13. ASSUME NEW p \in Procs, Kill(p) PROVE TypeOK'
    BY <1>13, EndedType, BoundsAssumption DEF Kill, pins, kernel
<1>14. ASSUME NEW p \in Procs, StartCtl(p) PROVE TypeOK'
    <2>1. \A m \in Moves[shared] : [Ended EXCEPT !.at = "wait", !.move = m] \in Run
        BY EndedType, MoveType DEF Run, Places
    <2>2. runs' \in 0..MaxRuns[shared]
        BY <1>14, MaxRunsType DEF StartCtl
    <2>3. proc' \in [Procs -> Run]
        BY <1>14, <2>1 DEF StartCtl
    <2> QED
        BY <1>14, <2>2, <2>3 DEF StartCtl, pins, kernel, world
<1>15. ASSUME NEW p \in Procs, Ioctl(p) PROVE TypeOK'
    <2>1. RunAxes(proc[p], "pan", "drive", "idle") \in Run
        BY <1>1, RunAxesType DEF Axes, Places
    <2> QED
        BY <1>15, <2>1 DEF Ioctl, pins, world
<1>16. ASSUME NEW p \in Procs, Drive(p) PROVE TypeOK'
    <2>1. value' \in [AllPins -> {0, 1}]
        BY <1>16 DEF Drive
    <2>2. "drive" \in Places /\ "idle" \in Places
        BY DEF Places
    <2>3. /\ proc' \in [Procs -> Run]
          /\ rotor' \in [Axes -> Int] /\ asked' \in [Axes -> Int]
        BY <1>16, <2>2, DelayType, AxisDoneType DEF Drive
    <2> QED
        BY <1>16, <2>1, <2>3 DEF Drive
<1>17. CASE UNCHANGED vars
    BY <1>17 DEF vars, pins, kernel, world
<1> QED
    BY <1>2, <1>3, <1>4, <1>5, <1>7, <1>8, <1>9, <1>10, <1>11, <1>12, <1>13, <1>14, <1>15,
       <1>16, <1>17 DEF Next, Tool, Ctl

\* Where axis_run goes on.
LEMMA RunAxesPlace ==
    ASSUME NEW r \in Run, NEW a, NEW first \in Places, NEW then \in Places
    PROVE  LET s == RunAxes(r, a, first, then)
           IN  s.alone = r.alone /\ s.at \in {first, then} /\ s.k = 1
<1>1. \A b, n : LET s == [r EXCEPT !.at = first, !.axis = b, !.left = n, !.micro = 1, !.k = 1]
                IN  s.alone = r.alone /\ s.at = first /\ s.k = 1
    BY Zenon DEF Run
<1>2. LET s == [Ended EXCEPT !.at = then, !.alone = r.alone]
      IN  s.alone = r.alone /\ s.at = then /\ s.k = 1
    BY EndedType, Zenon DEF Run, Ended
<1> QED
    BY <1>1, <1>2 DEF RunAxes

LEMMA DelayPlace ==
    ASSUME TypeOK, NEW p \in Procs, NEW next, NEW v, Delay(p, next, v)
    PROVE  /\ \A o \in Procs : o # p => proc'[o] = proc[o]
           /\ proc'[p].at = next /\ proc'[p].k = 1
           /\ proc'[p].alone = proc[p].alone /\ proc'[p].axis = proc[p].axis
           /\ proc'[p].move = proc[p].move
           /\ IF proc[p].micro < 8
              THEN proc'[p].micro = proc[p].micro + 1 /\ proc'[p].left = proc[p].left
              ELSE proc'[p].micro = 1 /\ proc'[p].left = proc[p].left - 1
<1> DEFINE r == proc[p]
           more == IF r.micro < 8 THEN [r EXCEPT !.micro = r.micro + 1]
                   ELSE [r EXCEPT !.micro = 1, !.left = r.left - 1]
           there == [more EXCEPT !.at = next, !.k = 1]
<1>1. r \in Run /\ proc \in [Procs -> Run]
    BY DEF TypeOK
<1>2. CASE r.micro < 8
    <2>1. there = [[r EXCEPT !.micro = r.micro + 1] EXCEPT !.at = next, !.k = 1]
        BY <1>2
    <2>2. /\ there.at = next /\ there.k = 1 /\ there.alone = r.alone /\ there.axis = r.axis
          /\ there.move = r.move /\ there.micro = r.micro + 1 /\ there.left = r.left
        BY <1>1, <2>1, Zenon DEF Run
    <2>3. proc' = [proc EXCEPT ![p] = there]
        BY DEF Delay, Goto
    <2> HIDE DEF there
    <2> QED
        BY <1>1, <1>2, <2>2, <2>3
<1>3. CASE ~(r.micro < 8)
    <2>1. there = [[r EXCEPT !.micro = 1, !.left = r.left - 1] EXCEPT !.at = next, !.k = 1]
        BY <1>3
    <2>2. /\ there.at = next /\ there.k = 1 /\ there.alone = r.alone /\ there.axis = r.axis
          /\ there.move = r.move /\ there.micro = 1 /\ there.left = r.left - 1
        BY <1>1, <2>1, Zenon DEF Run
    <2>3. proc' = [proc EXCEPT ![p] = there]
        BY DEF Delay, Goto
    <2> HIDE DEF there
    <2> QED
        BY <1>1, <1>3, <2>2, <2>3
<1> QED
    BY <1>2, <1>3

LEMMA AxisDonePlace ==
    ASSUME TypeOK, NEW p \in Procs, NEW first \in Places, NEW then \in Places,
           AxisDone(p, first, then)
    PROVE  /\ \A o \in Procs : o # p => proc'[o] = proc[o]
           /\ proc'[p].alone = proc[p].alone
           /\ proc'[p].at \in {first, then} /\ proc'[p].k = 1
<1> DEFINE next == RunAxes(proc[p], IF proc[p].axis = "pan" THEN "tilt" ELSE "none", first, then)
<1>1. proc[p] \in Run /\ proc \in [Procs -> Run]
    BY DEF TypeOK
<1>2. next.alone = proc[p].alone /\ next.at \in {first, then} /\ next.k = 1
    BY <1>1, RunAxesPlace
<1>3. proc' = [proc EXCEPT ![p] = next]
    BY DEF AxisDone, Goto
<1> HIDE DEF next
<1> QED
    BY <1>1, <1>2, <1>3

\* gpio_clean(1)
LEMMA FailsPlace ==
    ASSUME TypeOK, NEW p \in Procs, Fails(p)
    PROVE  /\ \A o \in Procs : o # p => proc'[o] = proc[o]
           /\ proc'[p].alone = proc[p].alone
           /\ proc'[p].at = "clean" /\ proc'[p].k = 1 /\ proc'[p].error
<1> DEFINE r == [proc[p] EXCEPT !.at = "clean", !.k = 1, !.error = TRUE]
<1>1. proc[p] \in Run /\ proc \in [Procs -> Run]
    BY DEF TypeOK
<1>2. r.at = "clean" /\ r.alone = proc[p].alone /\ r.k = 1 /\ r.error
    BY <1>1, Zenon DEF Run
<1>3. proc' = [proc EXCEPT ![p] = r]
    BY DEF Fails, Goto
<1> HIDE DEF r
<1> QED
    BY <1>1, <1>2, <1>3

\* A start: the run that starts is alone if there is no other, and no other is any more.
LEMMA StartMotorsPlace ==
    ASSUME TypeOK, NEW p \in Procs, StartMotors(p)
    PROVE  \/ UNCHANGED proc
           \/ /\ proc'[p].at = "export" /\ proc'[p].k = 1
              /\ proc'[p].alone <=> ToolRuns = {}
              /\ \A q \in ToolRuns : q # p => proc'[q].at = proc[q].at
                                           /\ proc'[q].left = proc[q].left /\ ~proc'[q].alone
              /\ \A q \in Procs : q # p /\ q \notin ToolRuns => proc'[q] = proc[q]
<1>1. \A o \in Procs : proc[o] \in Run
    BY DEF TypeOK
<1>2. SUFFICES ASSUME ~UNCHANGED proc
               PROVE  /\ proc'[p].at = "export" /\ proc'[p].k = 1
                      /\ proc'[p].alone <=> ToolRuns = {}
                      /\ \A q \in ToolRuns : q # p => proc'[q].at = proc[q].at
                                           /\ proc'[q].left = proc[q].left /\ ~proc'[q].alone
                      /\ \A q \in Procs : q # p /\ q \notin ToolRuns => proc'[q] = proc[q]
    OBVIOUS
<1>3. PICK m \in Moves[shared] \cup Beside[shared] :
          proc' = [q \in Procs |->
              IF q = p THEN [Ended EXCEPT !.at = "export", !.move = m, !.alone = ToolRuns = {}]
              ELSE IF q \in ToolRuns THEN [proc[q] EXCEPT !.alone = FALSE]
              ELSE proc[q]]
    BY <1>2 DEF StartMotors
<1>4. LET s == [Ended EXCEPT !.at = "export", !.move = m, !.alone = ToolRuns = {}]
      IN  s.at = "export" /\ s.k = 1 /\ (s.alone <=> ToolRuns = {})
    BY EndedType, Zenon DEF Run, Ended
<1>5. \A q \in Procs : LET s == [proc[q] EXCEPT !.alone = FALSE]
                       IN  s.at = proc[q].at /\ s.left = proc[q].left /\ ~s.alone
    BY <1>1, Zenon DEF Run
<1>6. ToolRuns \subseteq Procs
    BY DEF ToolRuns
<1> QED
    BY <1>3, <1>4, <1>5, <1>6, Zenon

\* Only gpio_set of the last coil goes to sleep.
LEMMA StepSleep == TypeOK /\ SleepInv /\ [Next]_vars => SleepInv'
<1> SUFFICES ASSUME TypeOK, SleepInv, [Next]_vars, NEW q \in Procs, proc'[q].at = "sleep"
             PROVE  proc'[q].left > 0
    BY DEF SleepInv, At
<1>1. /\ \A o \in Procs : proc[o] \in Run
      /\ proc \in [Procs -> Run] /\ Ended.at = "idle"
      /\ {"clean", "select", "drive", "idle"} \subseteq Places
    BY DEF TypeOK, Ended, Places, ToolPlaces
<1>2. SUFFICES ASSUME proc'[q] # proc[q], proc'[q].at # proc[q].at \/ proc'[q].left # proc[q].left
               PROVE  proc'[q].left > 0
    BY DEF SleepInv, At
<1>3. ASSUME NEW p \in Procs, StartMotors(p) PROVE FALSE
    BY <1>2, <1>3, StartMotorsPlace
<1>4. ASSUME NEW p \in Procs, NEW r, Goto(p, r), r.at = "sleep" => r.left > 0
      PROVE  proc'[q].left > 0
    BY <1>1, <1>2, <1>4 DEF Goto
<1>5. ASSUME NEW p \in Procs, NEW s \in Run, Goto(p, s), s.at # "sleep" PROVE FALSE
    BY <1>1, <1>2, <1>5 DEF Goto
<1>6. ASSUME NEW p \in Procs, Fails(p) PROVE FALSE
    BY <1>2, <1>6, FailsPlace
<1>7. ASSUME NEW p \in Procs, NEW first \in {"select", "drive"}, NEW then \in {"clean", "idle"},
             AxisDone(p, first, then)
      PROVE  FALSE
    BY <1>1, <1>2, <1>7, AxisDonePlace
<1>8. ASSUME NEW p \in Procs, NEW next \in {"set", "drive"}, NEW v, Delay(p, next, v) PROVE FALSE
    BY <1>2, <1>8, DelayPlace
<1>9. ASSUME NEW p \in Procs PROVE \A place \in {"direction", "set", "unexport"} :
          [proc[p] EXCEPT !.at = place].at = place
    BY <1>1, Zenon DEF Run
<1>10. ASSUME NEW p \in Procs
       PROVE  /\ RunAxes(proc[p], "pan", "select", "clean").at \in {"select", "clean"}
              /\ RunAxes(proc[p], "pan", "drive", "idle").at \in {"drive", "idle"}
    BY <1>1, RunAxesPlace
<1>11. ASSUME NEW p \in Procs, NEW n
       PROVE  /\ [proc[p] EXCEPT !.at = "export", !.k = n].at = "export"
              /\ [proc[p] EXCEPT !.at = "clean", !.k = n].at = "clean"
              /\ [proc[p] EXCEPT !.at = "sleep"].left = proc[p].left
              /\ [proc[p] EXCEPT !.k = n].at = proc[p].at
    BY <1>1, Zenon DEF Run
<1>12. ASSUME NEW m PROVE [Ended EXCEPT !.at = "wait", !.move = m].at = "wait"
    BY EndedType, Zenon DEF Run
<1>13. ASSUME NEW p \in Procs, Tool(p) \/ Ctl(p) PROVE proc'[q].left > 0
    <2>1. CASE Export(p) \/ Release(p)
        BY <1>4, <1>9, <2>1 DEF Export, Release
    <2>2. CASE Direction(p)
        BY <1>4, <1>6, <1>10, <1>11, <2>2 DEF Direction
    <2>3. CASE SelectAxis(p)
        BY <1>4, <1>6, <1>9, <2>3 DEF SelectAxis
    <2>4. CASE SetCoils(p)
        <3>1. CASE Goto(p, [proc[p] EXCEPT !.k = proc[p].k + 1])
            BY <1>4, <1>11, <2>4, <3>1 DEF SetCoils, At
        <3>2. CASE proc[p].left > 0 /\ Goto(p, [proc[p] EXCEPT !.at = "sleep"])
            BY <1>4, <1>11, <3>2
        <3> QED
            BY <1>6, <1>7, <2>4, <3>1, <3>2 DEF SetCoils
    <2>5. CASE Sleep(p) \/ Drive(p)
        BY <1>7, <1>8, <2>5 DEF Sleep, Drive
    <2>6. CASE Unexport(p) \/ Kill(p)
        BY <1>1, <1>4, <1>11, <2>6 DEF Unexport, Kill
    <2>7. CASE StartCtl(p) \/ Ioctl(p)
        BY <1>4, <1>10, <1>12, <2>7 DEF StartCtl, Ioctl
    <2> QED
        BY <1>3, <1>13, <2>1, <2>2, <2>3, <2>4, <2>5, <2>6, <2>7 DEF Tool, Ctl
<1> QED
    BY <1>2, <1>13 DEF Next, Insmod, Request, Register, Rmmod, vars

TypedInv == TypeOK /\ SleepInv

LEMMA InitTypedInv == Init => TypedInv
<1> SUFFICES ASSUME Init PROVE TypedInv
    OBVIOUS
<1>1. \A p \in Procs : proc[p].at = "idle"
    BY DEF Init, Ended
<1> QED
    BY <1>1, InitTyped DEF TypedInv, SleepInv, At

LEMMA StepTypedInv == TypedInv /\ [Next]_vars => TypedInv'
BY StepTyped, StepSleep DEF TypedInv

\* Every variable keeps its type, whoever runs, is killed or loads the driver.
THEOREM TypeCorrect == Spec => []TypeOK
<1>1. TypedInv => TypeOK
    BY DEF TypedInv
<1> QED
    BY <1>1, InitTypedInv, StepTypedInv, PTL DEF Spec

(***************************************************************************)
(* Who owns the pins.  While the driver loads it owns the pins it has      *)
(* requested so far.                                                       *)
(***************************************************************************)
PinsInv ==
    /\ driver = "out" => \A x \in AllPins : owner[x] # "driver"
    /\ driver = "request" => \A i \in 1..8 : i < asking => owner[DriverPins[i]] = "driver"
    /\ driver = "in" => \A i \in 1..8 : owner[DriverPins[i]] = "driver"

LEMMA SamePins ==
    ASSUME PinsInv, UNCHANGED <<driver, asking>>,
           \A x \in AllPins : owner[x] = "driver" <=> owner'[x] = "driver"
    PROVE  PinsInv'
<1>1. \A i \in 1..8 : DriverPins[i] \in AllPins
    BY DriverPinsType
<1> QED
    BY <1>1 DEF PinsInv

LEMMA FreeType ==
    ASSUME TypeOK
    PROVE  /\ Free(owner) \in [AllPins -> {"free", "sysfs"}]
           /\ \A x \in AllPins : Free(owner)[x] = IF owner[x] = "driver" THEN "free" ELSE owner[x]
BY DEF Free, TypeOK

LEMMA StepPins == TypeOK /\ PinsInv /\ [Next]_vars => PinsInv'
<1> SUFFICES ASSUME TypeOK, PinsInv, [Next]_vars PROVE PinsInv'
    OBVIOUS
<1>1. CASE Insmod
    BY <1>1 DEF Insmod, PinsInv, pins
<1>2. CASE Request
    <2>1. asking \in 1..8 /\ DriverPins[asking] \in AllPins
        BY <1>2, DriverPinsType DEF Request, TypeOK
    <2>2. CASE owner[DriverPins[asking]] = "free"
        <3>1. /\ owner' = [owner EXCEPT ![DriverPins[asking]] = "driver"]
              /\ asking' = asking + 1 /\ driver' = "request"
            BY <1>2, <2>2 DEF Request
        <3>2. \A i \in 1..8 : DriverPins[i] \in AllPins
            BY DriverPinsType
        <3>3. \A i \in 1..8 : i < asking' => i < asking \/ i = asking
            BY <2>1, <3>1
        <3>4. ASSUME NEW i \in 1..8, i < asking' PROVE owner'[DriverPins[i]] = "driver"
            BY <1>2, <2>1, <3>1, <3>2, <3>3, <3>4 DEF Request, PinsInv, TypeOK
        <3> QED
            BY <3>1, <3>4 DEF PinsInv
    <2>3. CASE owner[DriverPins[asking]] # "free"
        BY <1>2, <2>3, FreeType DEF Request, Unwind, PinsInv
    <2> QED
        BY <2>2, <2>3
<1>3. CASE Register
    <2>1. CASE driver' = "in"
        <3>1. \A i \in 1..8 : i < 9
            OBVIOUS
        <3> QED
            BY <1>3, <2>1, <3>1 DEF Register, PinsInv
    <2>2. CASE driver' = "out"
        BY <1>3, <2>2, FreeType DEF Register, Unwind, PinsInv
    <2> QED
        BY <1>3, <2>1, <2>2 DEF Register
<1>4. CASE Rmmod
    BY <1>4, FreeType DEF Rmmod, PinsInv
<1>5. ASSUME NEW p \in Procs, Export(p) PROVE PinsInv'
    <2>1. \A x \in AllPins : owner[x] = "driver" <=> owner'[x] = "driver"
        BY <1>5 DEF Export, TypeOK
    <2> QED
        BY <1>5, <2>1, SamePins DEF Export, kernel
<1>6. ASSUME NEW p \in Procs, Unexport(p) PROVE PinsInv'
    <2>1. \A x \in AllPins : owner[x] = "driver" <=> owner'[x] = "driver"
        BY <1>6 DEF Unexport, Exported, TypeOK
    <2> QED
        BY <1>6, <2>1, SamePins DEF Unexport, kernel
<1>7. CASE UNCHANGED <<owner, driver, asking>>
    BY <1>7, SamePins
<1>8. ASSUME NEW p \in Procs,
             \/ StartMotors(p) \/ Direction(p) \/ SelectAxis(p) \/ SetCoils(p) \/ Sleep(p)
             \/ Release(p) \/ Kill(p) \/ Ctl(p)
      PROVE  UNCHANGED <<owner, driver, asking>>
    BY <1>8 DEF StartMotors, Direction, SelectAxis, SetCoils, Sleep, Release, Kill, Ctl,
       StartCtl, Ioctl, Drive, pins, kernel
<1> QED
    BY <1>1, <1>2, <1>3, <1>4, <1>5, <1>6, <1>7, <1>8 DEF Next, Tool, vars, pins, kernel

\* The driver has all of its pins or none, whoever exports some while it loads.
THEOREM DriverHasAllOrNone == Spec => []AllOrNone
<1>1. Init => PinsInv
    BY DEF Init, PinsInv
<1>2. PinsInv => AllOrNone
    BY DriverPinsType DEF PinsInv, AllOrNone
<1>3. TypedInv => TypeOK
    BY DEF TypedInv
<1> QED
    BY <1>1, <1>2, <1>3, InitTypedInv, StepTypedInv, StepPins, PTL DEF Spec

(***************************************************************************)
(* What is on.  A caller that drives holds the lock and the driver is in;  *)
(* a pin of the driver is on only while its axis is driven.  A run of      *)
(* gpio-motors that is alone is the only one, and has exported, switched   *)
(* off and unexported what its place says.                                 *)
(***************************************************************************)
Driving(p) == At(p, "drive")
Mine(p) == {PinsOf(proc[p].axis)[i] : i \in Coil}

LockInv ==
    \A p \in Procs : /\ Driving(p) => lock = {p} /\ driver = "in"
                     /\ At(p, "wait") => driver = "in"
DrivenInv ==
    \A x \in AllPins :
        owner[x] = "driver" /\ value[x] # 0 => \E p \in Procs : Driving(p) /\ x \in Mine(p)
AloneInv == \A p, q \in ToolRuns : proc[p].alone => q = p

\* The pins, of owners o and values v, behind and before a run r that is alone in its
\* loop over the sequence s.
Placed(r, o, v, s) ==
    /\ r.at \in {"export", "direction"} => \A j \in 1..Len(s) : j < r.k => o[s[j]] = "sysfs"
    /\ r.at \in {"select", "set", "sleep"} => \A j \in 1..Len(s) : o[s[j]] = "sysfs"
    /\ r.at \in {"clean", "unexport"} =>
           /\ r.k \in 1..Len(s)
           /\ \A j \in 1..Len(s) : /\ j < r.k => o[s[j]] # "sysfs"
                                   /\ ~r.error /\ o[s[j]] = "free" => v[s[j]] = 0
    /\ r.at = "unexport" => (o[s[r.k]] = "sysfs" => v[s[r.k]] = 0)
LoneInv == \A p \in ToolRuns : proc[p].alone => Placed(proc[p], owner, value, Order)

QuietInv == TypedInv /\ PinsInv /\ LockInv /\ DrivenInv /\ AloneInv /\ LoneInv

\* A step of gpio-motors, which touches no pin of the driver and no caller of it.
LEMMA ToolKeeps ==
    ASSUME QuietInv, UNCHANGED <<shared, driver, lock>>,
           \A o \in Procs : proc'[o].at \in {"wait", "drive"} \/ proc[o].at \in {"wait", "drive"}
                                => proc'[o] = proc[o],
           \A x \in AllPins : owner'[x] = "driver" => owner[x] = "driver" /\ value'[x] = value[x]
    PROVE  LockInv' /\ DrivenInv'
<1>1. LockInv'
    BY DEF QuietInv, LockInv, Driving, At
<1>2. \A p \in Procs : Driving(p) => Driving(p)' /\ Mine(p)' = Mine(p)
    BY DEF Driving, At, Mine, PinsOf
<1>3. ASSUME NEW x \in AllPins, owner'[x] = "driver", value'[x] # 0
      PROVE  \E p \in Procs : Driving(p)' /\ x \in Mine(p)'
    BY <1>2, <1>3 DEF QuietInv, DrivenInv
<1> QED
    BY <1>1, <1>3 DEF DrivenInv

LEMMA AloneKept ==
    ASSUME AloneInv,
           \A o \in Procs : proc'[o].at \in ToolPlaces =>
               proc[o].at \in ToolPlaces /\ proc'[o].alone = proc[o].alone
    PROVE  AloneInv'
BY DEF AloneInv, ToolRuns

\* The other steps take no pin from the exported ones, and turn off what they free.
LEMMA LoneKept ==
    ASSUME LoneInv, TypeOK, shared' = shared,
           \A o \in Procs : proc'[o].at \in ToolPlaces /\ proc'[o].alone => proc'[o] = proc[o],
           \A x \in AllPins : /\ owner'[x] = "sysfs" <=> owner[x] = "sysfs"
                              /\ owner[x] = "sysfs" => value'[x] = value[x]
                              /\ owner'[x] = "free" =>
                                     value'[x] = 0 \/ (owner[x] = "free" /\ value'[x] = value[x])
    PROVE  LoneInv'
<1> SUFFICES ASSUME NEW p \in Procs, proc'[p].at \in ToolPlaces, proc'[p].alone
             PROVE  Placed(proc'[p], owner', value', Order')
    BY DEF LoneInv, ToolRuns
<1>1. proc'[p] = proc[p] /\ Order' = Order
    BY DEF Order
<1>2. Placed(proc[p], owner, value, Order)
    BY <1>1 DEF LoneInv, ToolRuns
<1>3. \A j \in 1..Len(Order) : Order[j] \in AllPins
    BY OrderType
<1>4. Placed(proc[p], owner', value', Order)
    BY <1>2, <1>3 DEF Placed
<1> QED
    BY <1>1, <1>4

\* What the steps of gpio-motors share: one process goes from place to place.
LEMMA QuietTool ==
    ASSUME QuietInv, TypedInv', PinsInv', UNCHANGED <<shared, driver, lock>>, NEW p \in Procs,
           \A o \in Procs : o # p => proc'[o] = proc[o],
           proc[p].at \in ToolPlaces, proc'[p].at \in ToolPlaces \cup {"idle"},
           proc'[p].at # "idle" => proc'[p].alone = proc[p].alone,
           \A x \in AllPins : owner'[x] = "driver" => owner[x] = "driver" /\ value'[x] = value[x],
           proc[p].alone /\ proc'[p].at # "idle" => Placed(proc'[p], owner', value', Order)
    PROVE  QuietInv'
<1>1. "wait" \notin ToolPlaces /\ "drive" \notin ToolPlaces /\ "idle" \notin ToolPlaces
    BY DEF ToolPlaces
<1>2. LockInv' /\ DrivenInv'
    BY <1>1, ToolKeeps
<1>3. AloneInv'
    BY <1>1, AloneKept DEF QuietInv
<1>4. LoneInv'
    <2> SUFFICES ASSUME NEW o \in Procs, proc'[o].at \in ToolPlaces, proc'[o].alone
                 PROVE  Placed(proc'[o], owner', value', Order')
        BY DEF LoneInv, ToolRuns
    <2>1. Order' = Order
        BY DEF Order
    <2>2. o = p
        <3>1. o # p => o \in ToolRuns /\ proc[o].alone /\ p \in ToolRuns
            BY DEF ToolRuns
        <3> QED
            BY <3>1 DEF QuietInv, AloneInv
    <2> QED
        BY <1>1, <2>1, <2>2
<1> QED
    BY <1>2, <1>3, <1>4 DEF QuietInv

\* Where it goes from.
LEMMA WasPlaced ==
    ASSUME QuietInv, NEW p \in Procs, proc[p].at \in ToolPlaces, proc[p].alone
    PROVE  Placed(proc[p], owner, value, Order)
BY DEF QuietInv, LoneInv, ToolRuns

LEMMA ExportQuiet ==
    ASSUME QuietInv, TypedInv', PinsInv', NEW p \in Procs, Export(p)
    PROVE  QuietInv'
<1>1. proc[p] \in Run /\ proc \in [Procs -> Run] /\ owner \in [AllPins -> {"free", "sysfs", "driver"}]
    BY DEF QuietInv, TypedInv, TypeOK
<1> DEFINE r == [proc[p] EXCEPT !.at = "direction"]
<1>2. r.at = "direction" /\ r.alone = proc[p].alone /\ r.k = proc[p].k
    BY <1>1, Zenon DEF Run
<1>3. proc' = [proc EXCEPT ![p] = r]
    BY DEF Export, Goto
<1> HIDE DEF r
<1>4. proc'[p] = r /\ \A o \in Procs : o # p => proc'[o] = proc[o]
    BY <1>1, <1>3
<1>5. /\ \A x \in AllPins : owner'[x] = "driver" => owner[x] = "driver" /\ value'[x] = value[x]
      /\ \A x \in AllPins : owner[x] = "sysfs" => owner'[x] = "sysfs"
    BY <1>1 DEF Export
<1>6. proc[p].at \in ToolPlaces /\ "direction" \in ToolPlaces /\ proc[p].at = "export"
    BY DEF Export, At, ToolPlaces
<1>7. UNCHANGED <<shared, driver, lock>>
    BY DEF Export, kernel
<1>8. ASSUME proc[p].alone PROVE Placed(r, owner', value', Order)
    BY <1>2, <1>5, <1>6, <1>8, WasPlaced, OrderType DEF Placed
<1> QED
    BY <1>2, <1>4, <1>5, <1>6, <1>7, <1>8, QuietTool

LEMMA FailsQuiet ==
    ASSUME QuietInv, TypedInv', PinsInv', NEW p \in Procs, proc[p].at \in ToolPlaces, Fails(p),
           UNCHANGED <<shared, driver, lock, owner, value>>
    PROVE  QuietInv'
<1>1. /\ \A o \in Procs : o # p => proc'[o] = proc[o]
      /\ proc'[p].alone = proc[p].alone
      /\ proc'[p].at = "clean" /\ proc'[p].k = 1 /\ proc'[p].error
    BY FailsPlace DEF QuietInv, TypedInv
<1>2. Placed(proc'[p], owner', value', Order)
    BY <1>1, FirstPin DEF Placed
<1>3. "clean" \in ToolPlaces
    BY DEF ToolPlaces
<1> QED
    BY <1>1, <1>2, <1>3, QuietTool

\* A run goes on with another axis, or begins to clean: it has all the pins.
LEMMA AllExported ==
    ASSUME NEW r, NEW v, r.at \in {"select", "set", "sleep", "clean"}, r.k = 1,
           \A j \in 1..Len(Order) : owner[Order[j]] = "sysfs"
    PROVE  Placed(r, owner, v, Order)
BY FirstPin DEF Placed

LEMMA DirectionQuiet ==
    ASSUME QuietInv, TypedInv', PinsInv', NEW p \in Procs, Direction(p)
    PROVE  QuietInv'
<1>1. /\ proc[p] \in Run /\ proc \in [Procs -> Run] /\ value \in [AllPins -> {0, 1}]
      /\ proc[p].k \in 1..9 /\ Len(Order) \in 8..9
    BY OrderLength DEF QuietInv, TypedInv, TypeOK, Run
<1>2. /\ proc[p].at \in ToolPlaces /\ proc[p].at = "direction"
      /\ "export" \in ToolPlaces /\ "select" \in ToolPlaces /\ "clean" \in ToolPlaces
      /\ "select" \in Places /\ "clean" \in Places
    BY DEF Direction, At, ToolPlaces, Places
<1>3. UNCHANGED <<shared, driver, lock, owner>>
    BY DEF Direction, kernel
<1> DEFINE x == Order[proc[p].k]
<1>4. CASE owner[x] # "sysfs"
    BY <1>2, <1>3, <1>4, FailsQuiet DEF Direction
<1>5. CASE owner[x] = "sysfs"
    <2>1. value' = [value EXCEPT ![x] = 0]
        BY <1>5 DEF Direction
    <2>2. \A y \in AllPins : owner'[y] = "driver" => owner[y] = "driver" /\ value'[y] = value[y]
        BY <1>1, <1>3, <1>5, <2>1
    <2>3. ASSUME proc[p].alone
          PROVE  \A j \in 1..Len(Order) : j < proc[p].k + 1 => owner[Order[j]] = "sysfs"
        <3>1. Placed(proc[p], owner, value, Order)
            BY <1>2, <2>3, WasPlaced
        <3>2. \A j \in 1..Len(Order) : j < proc[p].k + 1 => j < proc[p].k \/ j = proc[p].k
            BY <1>1
        <3> QED
            BY <1>2, <1>5, <3>1, <3>2 DEF Placed
    <2>4. CASE proc[p].k < Len(Order)
        <3> DEFINE r == [proc[p] EXCEPT !.at = "export", !.k = proc[p].k + 1]
        <3>1. proc' = [proc EXCEPT ![p] = r]
            BY <1>5, <2>4 DEF Direction, Goto
        <3>2. r.at = "export" /\ r.alone = proc[p].alone /\ r.k = proc[p].k + 1
            BY <1>1, Zenon DEF Run
        <3> HIDE DEF r
        <3>3. proc'[p] = r /\ \A o \in Procs : o # p => proc'[o] = proc[o]
            BY <1>1, <3>1
        <3>4. ASSUME proc[p].alone PROVE Placed(r, owner', value', Order)
            BY <1>3, <2>3, <3>2, <3>4 DEF Placed
        <3> QED
            BY <1>2, <1>3, <2>2, <3>2, <3>3, <3>4, QuietTool
    <2>5. CASE ~(proc[p].k < Len(Order))
        <3> DEFINE r == RunAxes(proc[p], "pan", "select", "clean")
        <3>1. proc' = [proc EXCEPT ![p] = r]
            BY <1>5, <2>5 DEF Direction, Goto
        <3>2. r.alone = proc[p].alone /\ r.at \in {"select", "clean"} /\ r.k = 1
            BY <1>1, <1>2, RunAxesPlace
        <3> HIDE DEF r
        <3>3. proc'[p] = r /\ \A o \in Procs : o # p => proc'[o] = proc[o]
            BY <1>1, <3>1
        <3>4. ASSUME proc[p].alone PROVE Placed(r, owner', value', Order)
            <4>1. \A j \in 1..Len(Order) : j < proc[p].k + 1
                BY <1>1, <2>5
            <4>2. Placed(r, owner, value', Order)
                BY <2>3, <3>2, <3>4, <4>1, AllExported
            <4> QED
                BY <1>3, <4>2
        <3> QED
            BY <1>2, <1>3, <2>2, <3>2, <3>3, <3>4, QuietTool
    <2> QED
        BY <2>4, <2>5
<1> QED
    BY <1>4, <1>5

LEMMA SelectAxisQuiet ==
    ASSUME QuietInv, TypedInv', PinsInv', NEW p \in Procs, SelectAxis(p)
    PROVE  QuietInv'
<1>1. proc[p] \in Run /\ proc \in [Procs -> Run] /\ value \in [AllPins -> {0, 1}]
    BY DEF QuietInv, TypedInv, TypeOK
<1>2. proc[p].at \in ToolPlaces /\ "set" \in ToolPlaces /\ proc[p].at = "select"
    BY DEF SelectAxis, At, ToolPlaces
<1>3. UNCHANGED <<shared, driver, lock, owner>>
    BY DEF SelectAxis, kernel
<1>4. CASE shared /\ ~Exported(Select)
    BY <1>2, <1>3, <1>4, FailsQuiet DEF SelectAxis
<1>5. CASE ~(shared /\ ~Exported(Select))
    <2> DEFINE r == [proc[p] EXCEPT !.at = "set"]
    <2>1. proc' = [proc EXCEPT ![p] = r]
        BY <1>5 DEF SelectAxis, Goto
    <2>2. value' = IF shared THEN [value EXCEPT ![Select] = Level(r.axis)] ELSE value
        BY <1>5 DEF SelectAxis
    <2>3. r.at = "set" /\ r.alone = proc[p].alone
        BY <1>1, Zenon DEF Run
    <2> HIDE DEF r
    <2>4. \A y \in AllPins : owner'[y] = "driver" => owner[y] = "driver" /\ value'[y] = value[y]
        BY <1>1, <1>3, <1>5, <2>2 DEF Exported
    <2>5. proc'[p] = r /\ \A o \in Procs : o # p => proc'[o] = proc[o]
        BY <1>1, <2>1
    <2>6. ASSUME proc[p].alone PROVE Placed(r, owner', value', Order)
        BY <1>2, <1>3, <2>3, <2>6, WasPlaced DEF Placed
    <2> QED
        BY <1>2, <1>3, <2>3, <2>4, <2>5, <2>6, QuietTool
<1> QED
    BY <1>4, <1>5

LEMMA SetCoilsQuiet ==
    ASSUME QuietInv, TypedInv', PinsInv', NEW p \in Procs, SetCoils(p)
    PROVE  QuietInv'
<1> DEFINE r == proc[p]
           x == PinsOf(r.axis)[r.k]
<1>1. r \in Run /\ proc \in [Procs -> Run] /\ value \in [AllPins -> {0, 1}] /\ TypeOK
    BY DEF QuietInv, TypedInv, TypeOK
<1>2. /\ r.at \in ToolPlaces /\ r.at = "set"
      /\ {"set", "sleep", "select", "clean"} \subseteq ToolPlaces
      /\ "select" \in Places /\ "clean" \in Places
    BY DEF SetCoils, At, ToolPlaces, Places
<1>3. UNCHANGED <<shared, driver, lock, owner>>
    BY DEF SetCoils, kernel
<1>4. CASE ~Exported(x)
    BY <1>2, <1>3, <1>4, FailsQuiet DEF SetCoils
<1>5. CASE Exported(x)
    <2>1. \A y \in AllPins : owner'[y] = "driver" => owner[y] = "driver" /\ value'[y] = value[y]
        <3>1. value' \in {[value EXCEPT ![x] = 0], [value EXCEPT ![x] = 1]}
            BY <1>5 DEF SetCoils
        <3> QED
            BY <1>1, <1>3, <1>5, <3>1 DEF Exported
    <2>2. /\ \A o \in Procs : o # p => proc'[o] = proc[o]
          /\ proc'[p].alone = r.alone
          /\ \/ proc'[p].at \in {"set", "sleep"}
             \/ proc'[p].at \in {"select", "clean"} /\ proc'[p].k = 1
        <3>1. CASE Goto(p, [r EXCEPT !.k = @ + 1])
            <4>1. [r EXCEPT !.k = r.k + 1].at = r.at /\ [r EXCEPT !.k = r.k + 1].alone = r.alone
                BY <1>1, Zenon DEF Run
            <4> QED
                BY <1>1, <1>2, <3>1, <4>1 DEF Goto
        <3>2. CASE Goto(p, [r EXCEPT !.at = "sleep"])
            <4>1. [r EXCEPT !.at = "sleep"].at = "sleep" /\ [r EXCEPT !.at = "sleep"].alone = r.alone
                BY <1>1, Zenon DEF Run
            <4> QED
                BY <1>1, <3>2, <4>1 DEF Goto
        <3>3. CASE AxisDone(p, "select", "clean")
            BY <1>1, <1>2, <3>3, AxisDonePlace
        <3> QED
            BY <1>5, <3>1, <3>2, <3>3 DEF SetCoils
    <2>3. ASSUME r.alone PROVE Placed(proc'[p], owner', value', Order)
        <3>1. \A j \in 1..Len(Order) : owner[Order[j]] = "sysfs"
            BY <1>2, <2>3, WasPlaced DEF Placed
        <3>2. CASE proc'[p].at \in {"set", "sleep"}
            BY <1>3, <3>1, <3>2 DEF Placed
        <3>3. CASE proc'[p].at \in {"select", "clean"} /\ proc'[p].k = 1
            <4> DEFINE s == proc'[p]
            <4>1. s.at \in {"select", "set", "sleep", "clean"} /\ s.k = 1
                BY <3>3
            <4> HIDE DEF s
            <4>2. Placed(s, owner, value', Order)
                BY <3>1, <4>1, AllExported
            <4> QED
                BY <1>3, <4>2 DEF s
        <3> QED
            BY <2>2, <3>2, <3>3
    <2> QED
        BY <1>2, <1>3, <2>1, <2>2, <2>3, QuietTool
<1> QED
    BY <1>4, <1>5

LEMMA SleepQuiet ==
    ASSUME QuietInv, TypedInv', PinsInv', NEW p \in Procs, Sleep(p)
    PROVE  QuietInv'
<1>1. UNCHANGED <<shared, driver, lock, owner, value>> /\ proc[p].at = "sleep"
    BY DEF Sleep, pins, kernel, At
<1>2. {"set", "sleep"} \subseteq ToolPlaces
    BY DEF ToolPlaces
<1>3. /\ \A o \in Procs : o # p => proc'[o] = proc[o]
      /\ proc'[p].at = "set" /\ proc'[p].alone = proc[p].alone
    BY DelayPlace DEF Sleep, QuietInv, TypedInv
<1>4. ASSUME proc[p].alone PROVE Placed(proc'[p], owner', value', Order)
    BY <1>1, <1>2, <1>3, <1>4, WasPlaced DEF Placed
<1> QED
    BY <1>1, <1>2, <1>3, <1>4, QuietTool

\* gpio_release, its two steps.
LEMMA ReleaseQuiet ==
    ASSUME QuietInv, TypedInv', PinsInv', NEW p \in Procs, Release(p)
    PROVE  QuietInv'
<1> DEFINE x == Order[proc[p].k]
           r == [proc[p] EXCEPT !.at = "unexport"]
<1>1. proc[p] \in Run /\ proc \in [Procs -> Run] /\ value \in [AllPins -> {0, 1}]
    BY DEF QuietInv, TypedInv, TypeOK
<1>2. proc[p].at = "clean" /\ {"clean", "unexport"} \subseteq ToolPlaces
    BY DEF Release, At, ToolPlaces
<1>3. UNCHANGED <<shared, driver, lock, owner>>
    BY DEF Release, kernel
<1>4. value' = IF owner[x] = "sysfs" THEN [value EXCEPT ![x] = 0] ELSE value
    BY DEF Release, Exported, CleanOrder
<1>5. r.at = "unexport" /\ r.alone = proc[p].alone /\ r.k = proc[p].k /\ r.error = proc[p].error
    BY <1>1, Zenon DEF Run
<1>6. proc' = [proc EXCEPT ![p] = r]
    BY DEF Release, Goto
<1> HIDE DEF r
<1>7. proc'[p] = r /\ \A o \in Procs : o # p => proc'[o] = proc[o]
    BY <1>1, <1>6
<1>8. \A y \in AllPins : owner'[y] = "driver" => owner[y] = "driver" /\ value'[y] = value[y]
    BY <1>1, <1>3, <1>4
<1>9. ASSUME proc[p].alone PROVE Placed(r, owner', value', Order)
    <2>1. Placed(proc[p], owner, value, Order)
        BY <1>2, <1>9, WasPlaced
    <2>2. proc[p].k \in 1..Len(Order) /\ \A j \in 1..Len(Order) : Order[j] \in AllPins
        BY <1>2, <2>1, OrderType DEF Placed
    <2>3. \A j \in 1..Len(Order) : owner[Order[j]] # "sysfs" => value'[Order[j]] = value[Order[j]]
        BY <1>1, <1>4, <2>2
    <2>4. owner[x] = "sysfs" => value'[x] = 0
        BY <1>1, <1>4, <2>2
    <2> QED
        BY <1>2, <1>3, <1>5, <2>1, <2>2, <2>3, <2>4 DEF Placed
<1> QED
    BY <1>2, <1>3, <1>5, <1>7, <1>8, <1>9, QuietTool

\* The pins behind a run that has unexported one more.
LEMMA UnexportPlaced ==
    ASSUME QuietInv, NEW p \in Procs, Unexport(p), proc[p].alone
    PROVE  /\ UNCHANGED value
           /\ \A j \in 1..Len(Order) :
                  /\ j < proc[p].k + 1 => owner'[Order[j]] # "sysfs"
                  /\ ~proc[p].error /\ owner'[Order[j]] = "free" => value[Order[j]] = 0
<1> DEFINE x == Order[proc[p].k]
<1>1. proc[p].at = "unexport" /\ Placed(proc[p], owner, value, Order)
    BY WasPlaced DEF Unexport, At, ToolPlaces
<1>2. /\ UNCHANGED value
      /\ owner' = IF owner[x] = "sysfs" THEN [owner EXCEPT ![x] = "free"] ELSE owner
    BY DEF Unexport, Exported, CleanOrder
<1>3. /\ owner \in [AllPins -> {"free", "sysfs", "driver"}]
      /\ \A j \in 1..Len(Order) : Order[j] \in AllPins
    BY OrderType DEF QuietInv, TypedInv, TypeOK
<1>4. proc[p].k \in 1..Len(Order)
    BY <1>1 DEF Placed
<1>5. \A j \in 1..Len(Order) : j < proc[p].k + 1 => j < proc[p].k \/ j = proc[p].k
    BY <1>4, OrderLength
<1>6. \A j \in 1..Len(Order) : j < proc[p].k \/ j = proc[p].k => owner'[Order[j]] # "sysfs"
    BY <1>1, <1>2, <1>3, <1>4 DEF Placed
<1>7. \A j \in 1..Len(Order) :
          ~proc[p].error /\ owner'[Order[j]] = "free" => value[Order[j]] = 0
    BY <1>1, <1>2, <1>3, <1>4 DEF Placed
<1> QED
    BY <1>2, <1>5, <1>6, <1>7

LEMMA UnexportQuiet ==
    ASSUME QuietInv, TypedInv', PinsInv', NEW p \in Procs, Unexport(p)
    PROVE  QuietInv'
<1> DEFINE x == Order[proc[p].k]
           more == [proc[p] EXCEPT !.at = "clean", !.k = proc[p].k + 1]
<1>1. /\ proc[p] \in Run /\ proc \in [Procs -> Run]
      /\ owner \in [AllPins -> {"free", "sysfs", "driver"}]
      /\ proc[p].k \in 1..9 /\ Len(Order) \in 8..9
    BY OrderLength DEF QuietInv, TypedInv, TypeOK, Run
<1>2. proc[p].at = "unexport" /\ {"clean", "unexport"} \subseteq ToolPlaces
    BY DEF Unexport, At, ToolPlaces
<1>3. UNCHANGED <<shared, driver, lock, value>>
    BY DEF Unexport, kernel
<1>4. owner' = IF owner[x] = "sysfs" THEN [owner EXCEPT ![x] = "free"] ELSE owner
    BY DEF Unexport, Exported, CleanOrder
<1>5. \A y \in AllPins : owner'[y] = "driver" => owner[y] = "driver" /\ value'[y] = value[y]
    BY <1>1, <1>3, <1>4
<1>6. CASE proc[p].k < Len(Order)
    <2>1. /\ more.at = "clean" /\ more.alone = proc[p].alone
          /\ more.k = proc[p].k + 1 /\ more.error = proc[p].error
        BY <1>1, Zenon DEF Run
    <2>2. proc' = [proc EXCEPT ![p] = more]
        BY <1>6 DEF Unexport, Goto, CleanOrder
    <2> HIDE DEF more
    <2>3. proc'[p] = more /\ \A o \in Procs : o # p => proc'[o] = proc[o]
        BY <1>1, <2>2
    <2>4. ASSUME proc[p].alone PROVE Placed(more, owner', value', Order)
        <3>1. proc[p].k + 1 \in 1..Len(Order)
            BY <1>1, <1>6
        <3> QED
            BY <2>1, <2>4, <3>1, UnexportPlaced DEF Placed
    <2> QED
        BY <1>2, <1>3, <1>5, <2>1, <2>3, <2>4, QuietTool
<1>7. CASE ~(proc[p].k < Len(Order))
    <2>1. proc' = [proc EXCEPT ![p] = Ended]
        BY <1>7 DEF Unexport, Goto, CleanOrder
    <2>2. proc'[p] = Ended /\ \A o \in Procs : o # p => proc'[o] = proc[o]
        BY <1>1, <2>1
    <2>3. Ended.at = "idle"
        BY DEF Ended
    <2> QED
        BY <1>2, <1>3, <1>5, <2>2, <2>3, QuietTool
<1> QED
    BY <1>6, <1>7

LEMMA KillQuiet ==
    ASSUME QuietInv, TypedInv', PinsInv', NEW p \in Procs, Kill(p)
    PROVE  QuietInv'
<1>1. proc'[p] = Ended /\ \A o \in Procs : o # p => proc'[o] = proc[o]
    BY DEF Kill, Goto, QuietInv, TypedInv, TypeOK
<1>2. Ended.at = "idle"
    BY DEF Ended
<1>3. UNCHANGED <<shared, driver, lock, owner, value>> /\ proc[p].at \in ToolPlaces
    BY DEF Kill, kernel, pins, ToolRuns
<1> QED
    BY <1>1, <1>2, <1>3, QuietTool

LEMMA StartMotorsQuiet ==
    ASSUME QuietInv, TypedInv', PinsInv', NEW p \in Procs, StartMotors(p)
    PROVE  QuietInv'
<1>1. UNCHANGED <<shared, driver, lock, owner, value>> /\ proc[p].at = "idle"
    BY DEF StartMotors, kernel, pins, At
<1>2. /\ "wait" \notin ToolPlaces /\ "drive" \notin ToolPlaces /\ "idle" \notin ToolPlaces
      /\ "export" \in ToolPlaces
    BY DEF ToolPlaces
<1>3. CASE UNCHANGED proc
    BY <1>1, <1>3, ToolKeeps, AloneKept, LoneKept DEF QuietInv, TypedInv
<1>4. CASE ~UNCHANGED proc
    <2>1. /\ proc'[p].at = "export" /\ proc'[p].k = 1
          /\ proc'[p].alone <=> ToolRuns = {}
          /\ \A q \in ToolRuns : q # p => proc'[q].at = proc[q].at /\ ~proc'[q].alone
          /\ \A q \in Procs : q # p /\ q \notin ToolRuns => proc'[q] = proc[q]
        BY <1>4, StartMotorsPlace DEF QuietInv, TypedInv
    <2>2. LockInv' /\ DrivenInv'
        <3>1. \A o \in Procs : proc'[o].at \in {"wait", "drive"} \/ proc[o].at \in {"wait", "drive"}
                  => proc'[o] = proc[o]
            BY <1>1, <1>2, <2>1 DEF ToolRuns
        <3> QED
            BY <1>1, <3>1, ToolKeeps
    <2>3. \A n \in ToolRuns' : n = p \/ n \in ToolRuns
        BY <1>2, <2>1 DEF ToolRuns
    <2>4. \A o \in ToolRuns' : proc'[o].alone => o = p /\ ToolRuns = {}
        BY <2>1, <2>3
    <2>5. AloneInv'
        BY <2>3, <2>4 DEF AloneInv
    <2>6. LoneInv'
        <3>1. Order' = Order
            BY <1>1 DEF Order
        <3>2. Placed(proc'[p], owner', value', Order')
            BY <1>1, <2>1, <3>1, FirstPin DEF Placed
        <3> QED
            BY <2>4, <3>2 DEF LoneInv
    <2> QED
        BY <2>2, <2>5, <2>6 DEF QuietInv
<1> QED
    BY <1>3, <1>4

(* The kernel and the callers of the driver. *)

\* While nobody drives every pin of the driver is off, so it may free them.
LEMMA NobodyDrives ==
    ASSUME QuietInv, \A p \in Procs : ~Driving(p)
    PROVE  /\ \A x \in AllPins : owner[x] = "driver" => value[x] = 0
           /\ \A x \in AllPins : Free(owner)[x] = "free" => owner[x] = "free" \/ value[x] = 0
           /\ \A x \in AllPins : Free(owner)[x] # "driver"
           /\ \A x \in AllPins : Free(owner)[x] = "sysfs" <=> owner[x] = "sysfs"
BY FreeType DEF QuietInv, TypedInv, DrivenInv

LEMMA KernelQuiet ==
    ASSUME QuietInv, TypedInv', PinsInv', Insmod \/ Request \/ Register \/ Rmmod
    PROVE  QuietInv'
<1>1. UNCHANGED <<shared, lock, proc>>
    BY DEF Insmod, Request, Register, Rmmod
<1>2. \A p \in Procs : ~Driving(p) /\ proc[p].at # "wait"
    BY DEF Insmod, Request, Register, Rmmod, QuietInv, LockInv, Driving, At
<1>3. LockInv'
    BY <1>1, <1>2 DEF LockInv, Driving, At
<1>4. /\ \A x \in AllPins : owner'[x] = "driver" => value'[x] = 0
      /\ \A x \in AllPins : /\ owner'[x] = "sysfs" <=> owner[x] = "sysfs"
                            /\ owner[x] = "sysfs" => value'[x] = value[x]
                            /\ owner'[x] = "free" =>
                                   value'[x] = 0 \/ (owner[x] = "free" /\ value'[x] = value[x])
    <2>1. CASE Request /\ owner[DriverPins[asking]] = "free"
        <3>1. /\ owner' = [owner EXCEPT ![DriverPins[asking]] = "driver"]
              /\ value' = [value EXCEPT ![DriverPins[asking]] = 0]
            BY <2>1 DEF Request
        <3> QED
            BY <1>2, <2>1, <3>1, NobodyDrives DEF QuietInv, TypedInv, TypeOK
    <2>2. CASE owner' = Free(owner) /\ value' = value
        BY <1>2, <2>2, NobodyDrives
    <2>3. CASE UNCHANGED <<owner, value>>
        BY <1>2, <2>3, NobodyDrives
    <2> QED
        BY <2>1, <2>2, <2>3 DEF Insmod, Request, Register, Rmmod, Unwind, pins
<1>5. DrivenInv'
    BY <1>4 DEF DrivenInv
<1>6. AloneInv' /\ LoneInv'
    BY <1>1, <1>4, AloneKept, LoneKept DEF QuietInv, TypedInv
<1> QED
    BY <1>3, <1>5, <1>6 DEF QuietInv

LEMMA StartCtlQuiet ==
    ASSUME QuietInv, TypedInv', PinsInv', NEW p \in Procs, StartCtl(p)
    PROVE  QuietInv'
<1>1. PICK m \in Moves[shared] : proc' = [proc EXCEPT ![p] = [Ended EXCEPT !.at = "wait", !.move = m]]
    BY DEF StartCtl, Goto
<1>2. [Ended EXCEPT !.at = "wait", !.move = m].at = "wait"
    BY EndedType, Zenon DEF Run
<1>3. proc'[p].at = "wait" /\ \A o \in Procs : o # p => proc'[o] = proc[o]
    BY <1>1, <1>2 DEF QuietInv, TypedInv, TypeOK
<1>4. UNCHANGED <<shared, driver, lock, owner, value>> /\ driver = "in" /\ proc[p].at = "idle"
    BY DEF StartCtl, kernel, pins, At
<1>5. LockInv'
    BY <1>3, <1>4 DEF QuietInv, LockInv, Driving, At
<1>6. \A q \in Procs : Driving(q) => Driving(q)' /\ Mine(q)' = Mine(q)
    BY <1>3, <1>4 DEF Driving, At, Mine, PinsOf
<1>7. DrivenInv'
    BY <1>4, <1>6 DEF QuietInv, DrivenInv
<1>8. "wait" \notin ToolPlaces
    BY DEF ToolPlaces
<1>9. AloneInv' /\ LoneInv'
    BY <1>3, <1>4, <1>8, AloneKept, LoneKept DEF QuietInv, TypedInv
<1> QED
    BY <1>5, <1>7, <1>9 DEF QuietInv

\* A caller takes the lock, drives, or gives the lock back.
LEMMA CtlQuiet ==
    ASSUME QuietInv, TypedInv', PinsInv', NEW p \in Procs, UNCHANGED <<shared, driver, owner>>,
           proc[p].at \in {"wait", "drive"}, proc'[p].at \in {"drive", "idle"},
           \A o \in Procs : o # p => proc'[o] = proc[o] /\ ~Driving(o),
           proc'[p].at = "drive" => lock' = {p},
           \A x \in AllPins : owner[x] # "driver" => value'[x] = value[x],
           \A x \in AllPins : owner[x] = "driver" /\ value'[x] # 0 =>
               Driving(p)' /\ x \in Mine(p)'
    PROVE  QuietInv'
<1>1. driver = "in"
    BY DEF QuietInv, LockInv, Driving, At
<1>2. LockInv'
    BY <1>1 DEF QuietInv, LockInv, Driving, At
<1>3. DrivenInv'
    BY DEF DrivenInv
<1>4. "drive" \notin ToolPlaces /\ "idle" \notin ToolPlaces
    BY DEF ToolPlaces
<1>5. AloneInv' /\ LoneInv'
    BY <1>4, AloneKept, LoneKept DEF QuietInv, TypedInv
<1> QED
    BY <1>2, <1>3, <1>5 DEF QuietInv

LEMMA IoctlQuiet ==
    ASSUME QuietInv, TypedInv', PinsInv', NEW p \in Procs, Ioctl(p)
    PROVE  QuietInv'
<1> DEFINE r == RunAxes(proc[p], "pan", "drive", "idle")
<1>1. proc[p] \in Run /\ "drive" \in Places /\ "idle" \in Places
    BY DEF QuietInv, TypedInv, TypeOK, Places
<1>2. r.at = "drive" \/ r.at = "idle"
    BY <1>1, RunAxesPlace
<1>3. proc' = [proc EXCEPT ![p] = r] /\ lock' = IF r.at = "idle" THEN lock ELSE lock \cup {p}
    BY DEF Ioctl, Goto
<1> HIDE DEF r
<1>4. proc'[p] = r /\ \A o \in Procs : o # p => proc'[o] = proc[o]
    BY <1>3 DEF QuietInv, TypedInv, TypeOK
<1>5. UNCHANGED <<shared, driver, owner, value>> /\ proc[p].at = "wait" /\ lock = {}
    BY DEF Ioctl, pins, At, LockFree
<1>6. \A q \in Procs : ~Driving(q)
    BY <1>5 DEF QuietInv, LockInv
<1>7. \A x \in AllPins : owner[x] = "driver" => value'[x] = 0
    BY <1>5, <1>6, NobodyDrives
<1>8. r.at = "drive" => lock' = {p}
    BY <1>3, <1>5
<1> QED
    BY <1>2, <1>4, <1>5, <1>6, <1>7, <1>8, CtlQuiet

\* What a phase makes of the pins `mine`.
Lit(mine, on) ==
    [x \in AllPins |->
        IF x \in ToSet(mine) THEN (IF \E k \in on : mine[k] = x THEN 1 ELSE 0) ELSE value[x]]

LEMMA MineType == \A p \in Procs : proc[p].axis \in Axes => ToSet(PinsOf(proc[p].axis)) = Mine(p)
BY PinsAssumption DEF ToSet, Mine, PinsOf

LEMMA DriveQuiet ==
    ASSUME QuietInv, TypedInv', PinsInv', NEW p \in Procs, Drive(p)
    PROVE  QuietInv'
<1>1. /\ TypeOK /\ proc[p].axis \in Axes /\ proc[p].left \in Nat
      /\ "drive" \in Places /\ "idle" \in Places
    BY DEF QuietInv, TypedInv, TypeOK, Run, Places
<1>2. proc[p].at = "drive" /\ lock = {p} /\ driver = "in"
    BY DEF Drive, At, QuietInv, LockInv, Driving
<1>3. \A o \in Procs : Driving(o) => o = p
    BY <1>2 DEF QuietInv, LockInv
<1>4. /\ \A o \in Procs : o # p => proc'[o] = proc[o]
      /\ \/ /\ proc[p].left > 0
            /\ proc'[p].at = "drive" /\ proc'[p].axis = proc[p].axis
         \/ proc[p].left = 0 /\ proc'[p].at \in {"drive", "idle"}
    BY <1>1, <1>2, DelayPlace, AxisDonePlace DEF Drive
<1>5. UNCHANGED <<shared, driver, owner>>
    BY DEF Drive
<1>6. value' = Lit(PinsOf(proc[p].axis), Pattern(p)) /\ ToSet(PinsOf(proc[p].axis)) = Mine(p)
    BY <1>1, MineType DEF Drive, Lit
<1>7. \A x \in AllPins : x \notin Mine(p) => value'[x] = value[x]
    BY <1>6 DEF Lit
<1>8. \A x \in Mine(p) : owner[x] = "driver"
    <2>1. \A i \in 1..4 : i \in 1..8 /\ i + 4 \in 1..8
        OBVIOUS
    <2>2. \A i \in 1..4 : owner[Pan[i]] = "driver" /\ owner[Tilt[i]] = "driver"
        BY <1>2, <2>1, DriverPinsType DEF QuietInv, PinsInv
    <2> QED
        BY <2>2 DEF Mine, PinsOf, Coil
<1>9. \A x \in AllPins : owner[x] # "driver" => value'[x] = value[x]
    BY <1>7, <1>8
<1>10. \A x \in AllPins : owner[x] = "driver" /\ x \notin Mine(p) => value'[x] = 0
    BY <1>3, <1>7 DEF QuietInv, DrivenInv
<1>11. lock' = IF proc'[p].at = "idle" THEN lock \ {p} ELSE lock
    BY DEF Drive
<1>12. CASE proc[p].left > 0
    <2>1. Driving(p)' /\ Mine(p)' = Mine(p)
        BY <1>4, <1>5, <1>12 DEF Driving, At, Mine, PinsOf
    <2> QED
        BY <1>2, <1>3, <1>4, <1>5, <1>9, <1>10, <1>11, <1>12, <2>1, CtlQuiet
<1>13. CASE proc[p].left = 0
    <2>1. Pattern(p) = {}
        BY <1>13 DEF Pattern
    <2>2. \A x \in AllPins : x \in Mine(p) => value'[x] = 0
        BY <1>6, <2>1 DEF Lit
    <2> QED
        BY <1>2, <1>3, <1>4, <1>5, <1>9, <1>10, <1>11, <1>13, <2>2, CtlQuiet
<1> QED
    BY <1>1, <1>12, <1>13

LEMMA StepQuiet == QuietInv /\ [Next]_vars => QuietInv'
<1> SUFFICES ASSUME QuietInv, [Next]_vars PROVE QuietInv'
    OBVIOUS
<1>1. TypedInv' /\ PinsInv'
    BY StepTypedInv, StepPins DEF QuietInv, TypedInv
<1>2. CASE Insmod \/ Request \/ Register \/ Rmmod
    BY <1>1, <1>2, KernelQuiet
<1>3. ASSUME NEW p \in Procs, Tool(p) PROVE QuietInv'
    BY <1>1, <1>3, StartMotorsQuiet, ExportQuiet, DirectionQuiet, SelectAxisQuiet,
       SetCoilsQuiet, SleepQuiet, ReleaseQuiet, UnexportQuiet, KillQuiet DEF Tool
<1>4. ASSUME NEW p \in Procs, Ctl(p) PROVE QuietInv'
    BY <1>1, <1>4, StartCtlQuiet, IoctlQuiet, DriveQuiet DEF Ctl
<1>5. CASE UNCHANGED vars
    <2>1. UNCHANGED <<shared, owner, value, driver, asking, lock, proc>>
        BY <1>5 DEF vars, pins, kernel
    <2> QED
        BY <1>1, <2>1, ToolKeeps, AloneKept, LoneKept DEF QuietInv, TypedInv
<1> QED
    BY <1>2, <1>3, <1>4, <1>5 DEF Next

LEMMA InitQuiet == Init => QuietInv
<1> SUFFICES ASSUME Init PROVE QuietInv
    OBVIOUS
<1>1. \A p \in Procs : proc[p].at = "idle"
    BY DEF Init, Ended
<1>2. TypedInv /\ PinsInv
    BY InitTypedInv DEF Init, PinsInv
<1>3. LockInv /\ AloneInv /\ LoneInv
    BY <1>1 DEF LockInv, AloneInv, LoneInv, Driving, At, ToolRuns, ToolPlaces
<1>4. DrivenInv
    BY DEF Init, DrivenInv
<1> QED
    BY <1>2, <1>3, <1>4 DEF QuietInv

\* Only the last unexport ends a run that is there, unless it is killed.
LEMMA EndIsUnexport ==
    ASSUME QuietInv, [Next]_vars, NEW p \in Procs, At(p, "unexport"), proc'[p].at = "idle",
           faults' = faults
    PROVE  Unexport(p)
<1>1. TypeOK /\ faults \in Int /\ \A o \in Procs : proc[o] \in Run
    BY BoundsAssumption DEF QuietInv, TypedInv, TypeOK
<1>2. proc'[p].at # proc[p].at
    BY DEF At
<1>3. ~Kill(p)
    BY <1>1 DEF Kill
<1>4. ASSUME NEW q \in Procs, q # p, Tool(q) \/ Ctl(q) PROVE FALSE
    <2>1. CASE StartMotors(q)
        BY <1>1, <1>2, <1>4, <2>1, StartMotorsPlace
    <2>2. ASSUME NEW r, Goto(q, r) PROVE FALSE
        BY <1>2, <1>4, <2>2 DEF Goto
    <2>3. CASE SetCoils(q) \/ Sleep(q) \/ Drive(q)
        BY <2>2, <2>3 DEF SetCoils, Sleep, Drive, Delay, AxisDone, Fails
    <2>4. CASE \/ Export(q) \/ Direction(q) \/ SelectAxis(q) \/ Release(q) \/ Unexport(q)
               \/ Kill(q) \/ StartCtl(q) \/ Ioctl(q)
        BY <2>2, <2>4 DEF Export, Direction, SelectAxis, Release, Unexport, Kill, Fails,
           StartCtl, Ioctl
    <2> QED
        BY <1>4, <2>1, <2>3, <2>4 DEF Tool, Ctl
<1>5. Tool(p) \/ Ctl(p)
    BY <1>2, <1>4 DEF Next, Insmod, Request, Register, Rmmod, vars
<1> QED
    BY <1>3, <1>5 DEF Tool, Ctl, StartMotors, Export, Direction, SelectAxis, SetCoils, Sleep,
       Release, StartCtl, Ioctl, Drive, At

\* A run of gpio-motors that had the pins to itself and was not killed leaves none of
\* them exported and, unless the driver kept it from some, all of them off: whatever the
\* runs before it had left, coils on and pins freed with one on included.
THEOREM LastRunLeavesQuiet == Spec => LeavesQuiet
<1> DEFINE Quiet ==
        \A p \in Procs : Ends(p) /\ proc[p].alone =>
            \A x \in ToSet(Order) :
                /\ owner'[x] # "sysfs"
                /\ ~proc[p].error /\ owner'[x] = "free" => value'[x] = 0
<1>1. QuietInv /\ [Next]_vars => Quiet
    <2> SUFFICES ASSUME QuietInv, [Next]_vars, NEW p \in Procs, Ends(p), proc[p].alone,
                        NEW x \in ToSet(Order)
                 PROVE  /\ owner'[x] # "sysfs"
                        /\ ~proc[p].error /\ owner'[x] = "free" => value'[x] = 0
        OBVIOUS
    <2>1. PICK j \in 1..Len(Order) : x = Order[j]
        BY OrderType DEF ToSet
    <2>2. Unexport(p)
        BY EndIsUnexport DEF Ends
    <2>3. proc[p] \in Run /\ proc \in [Procs -> Run] /\ proc[p].k \in 1..9 /\ Len(Order) \in 8..9
        BY OrderLength DEF QuietInv, TypedInv, TypeOK, Run
    <2>4. ~(proc[p].k < Len(Order))
        <3>1. [proc[p] EXCEPT !.at = "clean", !.k = @ + 1].at = "clean"
            BY <2>3, Zenon DEF Run
        <3> QED
            BY <2>2, <2>3, <3>1 DEF Unexport, Goto, CleanOrder, Ends
    <2>5. j < proc[p].k + 1
        BY <2>3, <2>4
    <2> QED
        BY <2>1, <2>2, <2>5, UnexportPlaced
<1>2. Spec => []QuietInv
    BY InitQuiet, StepQuiet, PTL DEF Spec
<1>3. Spec => [][Quiet]_vars
    <2>1. QuietInv /\ [Next]_vars => [Quiet]_vars
        BY <1>1
    <2> HIDE DEF Quiet
    <2> QED
        BY <1>2, <2>1, PTL DEF Spec
<1> QED
    BY <1>3 DEF LeavesQuiet

-----------------------------------------------------------------------------
(***************************************************************************)
(* The steps.  Half steps are counted from where the axis last rested; the *)
(* phases of a move take the rotor along one at a time, and nothing else   *)
(* turns it: while no two runs of gpio-motors overlap, one process at most *)
(* has an axis in its hands, with every pin of it exported or requested.   *)
(***************************************************************************)

\* The phases are eight different non-empty sets of coils.
LEMMA Phases ==
    /\ \A n \in 1..8 : STEP_SEQUENCE[n] \subseteq Coil /\ STEP_SEQUENCE[n] # {}
    /\ \A m, n \in 1..8 : STEP_SEQUENCE[m] = STEP_SEQUENCE[n] => m = n
<1>1. /\ STEP_SEQUENCE[1] = {1} /\ STEP_SEQUENCE[2] = {1, 2}
      /\ STEP_SEQUENCE[3] = {2} /\ STEP_SEQUENCE[4] = {2, 3}
      /\ STEP_SEQUENCE[5] = {3} /\ STEP_SEQUENCE[6] = {3, 4}
      /\ STEP_SEQUENCE[7] = {4} /\ STEP_SEQUENCE[8] = {1, 4}
    BY DEF STEP_SEQUENCE
<1>2. \A n \in 1..8 : n \in {1, 2, 3, 4, 5, 6, 7, 8}
    OBVIOUS
<1>3. \A n \in 1..8 : /\ 1 \in STEP_SEQUENCE[n] <=> n \in {1, 2, 8}
                      /\ 2 \in STEP_SEQUENCE[n] <=> n \in {2, 3, 4}
                      /\ 3 \in STEP_SEQUENCE[n] <=> n \in {4, 5, 6}
                      /\ 4 \in STEP_SEQUENCE[n] <=> n \in {6, 7, 8}
    BY <1>1, <1>2
<1>4. \A n \in 1..8 : STEP_SEQUENCE[n] \subseteq Coil /\ STEP_SEQUENCE[n] # {}
    BY <1>1, <1>2 DEF Coil
<1>5. \A m, n \in 1..8 : STEP_SEQUENCE[m] = STEP_SEQUENCE[n] => m = n
    <2> SUFFICES ASSUME NEW m \in 1..8, NEW n \in 1..8, STEP_SEQUENCE[m] = STEP_SEQUENCE[n]
                 PROVE  m = n
        OBVIOUS
    <2>1. /\ m \in {1, 2, 8} <=> n \in {1, 2, 8}
          /\ m \in {2, 3, 4} <=> n \in {2, 3, 4}
          /\ m \in {4, 5, 6} <=> n \in {4, 5, 6}
          /\ m \in {6, 7, 8} <=> n \in {6, 7, 8}
        BY <1>3
    <2> QED
        BY <2>1
<1> QED
    BY <1>4, <1>5

LEMMA Reversed == \A n \in 1..8 : 9 - n \in 1..8 /\ REVERSE_STEP_SEQUENCE[n] = STEP_SEQUENCE[9 - n]
<1>1. Len(STEP_SEQUENCE) = 8
    BY DEF STEP_SEQUENCE
<1>2. \A n \in 1..8 : 9 - n \in 1..8 /\ 8 - n + 1 = 9 - n
    OBVIOUS
<1>3. \A n \in 1..8 : REVERSE_STEP_SEQUENCE[n] = STEP_SEQUENCE[8 - n + 1]
    BY <1>1 DEF REVERSE_STEP_SEQUENCE, Reverse
<1> QED
    BY <1>2, <1>3

\* A rotor that is not farther than one half step from a phase turns to it.
LEMMA TurnTo ==
    ASSUME NEW r \in Int, NEW A \in Int, NEW n \in 1..8, r - 8 * A \in {n - 2, n - 1, n}
    PROVE  Turn(r, STEP_SEQUENCE[n]) = 8 * A + n - 1
<1> DEFINE field == STEP_SEQUENCE[n]
           m == CHOOSE i \in 1..8 : STEP_SEQUENCE[i] = field
           d == (n - 1 - r) % 8
<1>1. m = n
    <2>1. m \in 1..8 /\ STEP_SEQUENCE[m] = field
        OBVIOUS
    <2> QED
        BY <2>1, Phases
<1>2. Turn(r, field) = IF d < 4 THEN r + d ELSE IF d > 4 THEN r - (8 - d) ELSE r
    BY <1>1 DEF Turn
<1>3. \/ r = 8 * A + n - 2 /\ d = 1
      \/ r = 8 * A + n - 1 /\ d = 0
      \/ r = 8 * A + n /\ d = 7
    OBVIOUS
<1> HIDE DEF d
<1> QED
    BY <1>2, <1>3

LEMMA TurnNot == \A r : Turn(r, {}) = r
BY Phases DEF Turn

\* The pins of an axis are different pins, and none of them selects an axis.
LEMMA PinsDiffer ==
    /\ \A a \in Axes, i, j \in Coil : PinsOf(a)[i] = PinsOf(a)[j] => i = j
    /\ \A a \in Axes, i \in Coil : PinsOf(a)[i] # Select /\ PinsOf(a)[i] \in ToSet(DriverPins)
    /\ ~shared => \A a, b \in Axes, i, j \in Coil : PinsOf(a)[i] = PinsOf(b)[j] => a = b
<1>1. Len(DriverPins) = 8 /\ DOMAIN DriverPins = 1..8
    BY DEF DriverPins
<1>2. \A i, j \in 1..8 : DriverPins[i] = DriverPins[j] => i = j
    BY <1>1, PinsAssumption DEF IsInjective
<1>3. \A i \in 1..8 : DriverPins[i] \in ToSet(DriverPins) /\ DriverPins[i] # Select
    BY <1>1, PinsAssumption DEF ToSet
<1>4. \A i \in 1..4 : i \in 1..8 /\ i + 4 \in 1..8
    OBVIOUS
<1>5. \A i \in 1..4 : Pan[i] = DriverPins[i] /\ Tilt[i] = DriverPins[i + 4]
    BY DriverPinsType
<1>6. \A i, j \in 1..4 : /\ Pan[i] = Pan[j] => i = j
                         /\ Tilt[i] = Tilt[j] => i = j
                         /\ Pan[i] # Tilt[j]
    <2> TAKE i, j \in 1..4
    <2>1. Pan[i] = Pan[j] => i = j
        BY <1>2, <1>4, <1>5
    <2>2. Tilt[i] = Tilt[j] => i + 4 = j + 4
        BY <1>2, <1>4, <1>5
    <2>3. Pan[i] = Tilt[j] => i = j + 4
        BY <1>2, <1>4, <1>5
    <2> QED
        BY <2>1, <2>2, <2>3
<1>7. \A i \in 1..4 : /\ Pan[i] # Select /\ Tilt[i] # Select
                      /\ Pan[i] \in ToSet(DriverPins) /\ Tilt[i] \in ToSet(DriverPins)
    BY <1>3, <1>4, <1>5
<1> QED
    BY <1>6, <1>7 DEF PinsOf, Axes, Coil

\* What Lit makes of an axis's pins, and of the others.
LEMMA LitPins ==
    ASSUME NEW a \in Axes, NEW on \in SUBSET Coil
    PROVE  /\ \A i \in Coil : Lit(PinsOf(a), on)[PinsOf(a)[i]] = IF i \in on THEN 1 ELSE 0
           /\ \A x \in AllPins : (\A i \in Coil : PinsOf(a)[i] # x) => Lit(PinsOf(a), on)[x] = value[x]
<1>1. \A i \in Coil : PinsOf(a)[i] \in AllPins
    BY PinsType
<1>2. \A i, j \in Coil : PinsOf(a)[i] = PinsOf(a)[j] => i = j
    BY PinsDiffer
<1>3. ToSet(PinsOf(a)) = {PinsOf(a)[i] : i \in Coil}
    BY PinsAssumption DEF ToSet, PinsOf
<1> DEFINE mine == PinsOf(a)
<1> HIDE DEF mine
<1>4. \A i \in Coil : Lit(mine, on)[mine[i]] = IF i \in on THEN 1 ELSE 0
    BY <1>1, <1>2, <1>3 DEF Lit, mine
<1>5. \A x \in AllPins : (\A i \in Coil : mine[i] # x) => Lit(mine, on)[x] = value[x]
    BY <1>3 DEF Lit, mine
<1> QED
    BY <1>4, <1>5 DEF mine

\* The axis that is turned has its pattern on its coils, the other has none.
LEMMA Fields ==
    ASSUME NEW a \in Axes, NEW on \in SUBSET Coil, NEW v,
           \A i \in Coil : v[PinsOf(a)[i]] = IF i \in on THEN 1 ELSE 0,
           shared => v[Select] = Level(a),
           \A x \in ToSet(DriverPins) : v[x] # 0 => \E i \in Coil : x = PinsOf(a)[i]
    PROVE  /\ Field(a, v) = on
           /\ \A b \in Axes \ {a} : Field(b, v) = {}
<1>1. Field(a, v) = on
    BY DEF Field
<1>2. ASSUME NEW b \in Axes \ {a} PROVE Field(b, v) = {}
    <2>1. CASE shared
        <3>1. Level(a) # Level(b)
            BY DEF Level, Axes
        <3> QED
            BY <2>1, <3>1 DEF Field
    <2>2. CASE ~shared
        <3>1. ASSUME NEW i \in Coil PROVE v[PinsOf(b)[i]] # 1
            <4>1. /\ PinsOf(b)[i] \in ToSet(DriverPins)
                  /\ \A j \in Coil : PinsOf(a)[j] # PinsOf(b)[i]
                BY <1>2, <2>2, PinsDiffer
            <4> QED
                BY <4>1
        <3> QED
            BY <2>2, <3>1 DEF Field
    <2> QED
        BY <2>1, <2>2
<1> QED
    BY <1>1, <1>2

\* Half steps an axis has made since the call of axis_run, and where its rotor is then:
\* `off` from where the steps asked for before would put it.
Done(r) == 8 * (Abs(r.move[r.axis]) - r.left) + (r.micro - 1)
Stood(off, done, m) ==
    IF done = 0 THEN off \in {-1, 0} ELSE IF m > 0 THEN off = done - 1 ELSE off = -done
Stands(r) == Stood(rotor[r.axis] - 8 * asked[r.axis], Done(r), r.move[r.axis])
Rests(a) == rotor[a] - 8 * asked[a] \in {-1, 0}
Counts(r) ==
    /\ r.move[r.axis] # 0
    /\ r.left <= Abs(r.move[r.axis]) /\ (r.left = 0 => r.micro = 1)

Counted(m, micro) == IF m < 0 THEN REVERSE_STEP_SEQUENCE[micro] ELSE STEP_SEQUENCE[micro]

\* A phase takes the rotor to the next half step.
LEMMA Advance ==
    ASSUME NEW R \in Int, NEW A \in Int, NEW m \in Int, NEW left \in Nat, NEW micro \in 1..8,
           m # 0, left > 0, left <= Abs(m),
           Stood(R - 8 * A, 8 * (Abs(m) - left) + (micro - 1), m)
    PROVE  Stood(Turn(R, Counted(m, micro)) - 8 * A, 8 * (Abs(m) - left) + (micro - 1) + 1, m)
<1> DEFINE s == Abs(m) - left
           done == 8 * s + (micro - 1)
           T == Turn(R, Counted(m, micro))
<1>1. s \in Nat
    BY DEF Abs
<1>2. CASE m > 0
    <2> DEFINE B == A + s
    <2>1. R - 8 * B \in {micro - 2, micro - 1, micro}
        <3>1. 8 * B = 8 * A + 8 * s /\ B \in Int
            BY <1>1
        <3>2. R - 8 * A \in {done - 1, done}
            BY <1>1, <1>2 DEF Stood
        <3> HIDE DEF s
        <3> QED
            BY <1>1, <3>1, <3>2
    <2>2. B \in Int
        BY <1>1
    <2>3. 8 * B = 8 * A + 8 * s
        BY <1>1
    <2> HIDE DEF B
    <2>4. Counted(m, micro) = STEP_SEQUENCE[micro]
        BY <1>2 DEF Counted
    <2>5. T = 8 * B + micro - 1
        <3>1. Turn(R, STEP_SEQUENCE[micro]) = 8 * B + micro - 1
            BY <2>1, <2>2, TurnTo
        <3> QED
            BY <2>4, <3>1
    <2> HIDE DEF s, T
    <2>6. T - 8 * A = done /\ done + 1 > 0 /\ done + 1 # 0 /\ done = (done + 1) - 1
        BY <1>1, <2>2, <2>3, <2>5
    <2> HIDE DEF done
    <2>7. Stood(T - 8 * A, done + 1, m)
        BY <1>2, <2>6 DEF Stood
    <2> QED
        BY <2>7 DEF T, done, s
<1>3. CASE m < 0
    <2> DEFINE B == A - s - 1
               n == 9 - micro
    <2>1. R - 8 * B \in {n - 2, n - 1, n}
        <3>1. 8 * B = 8 * A - 8 * s - 8 /\ B \in Int
            BY <1>1
        <3>2. R - 8 * A = -done \/ (done = 0 /\ R - 8 * A \in {-1, 0})
            BY <1>1, <1>3 DEF Stood
        <3> HIDE DEF s
        <3> QED
            BY <1>1, <3>1, <3>2
    <2>2. B \in Int /\ n \in 1..8
        BY <1>1
    <2>3. 8 * B = 8 * A - 8 * s - 8
        BY <1>1
    <2>4. Counted(m, micro) = STEP_SEQUENCE[n]
        BY <1>3, Reversed DEF Counted
    <2> HIDE DEF B, n
    <2>5. T = 8 * B + n - 1
        <3>1. Turn(R, STEP_SEQUENCE[n]) = 8 * B + n - 1
            BY <2>1, <2>2, TurnTo
        <3> QED
            BY <2>4, <3>1
    <2> USE DEF n
    <2> HIDE DEF s, T
    <2>6. T - 8 * A = -(done + 1) /\ done + 1 # 0
        BY <1>1, <2>2, <2>3, <2>5
    <2> HIDE DEF done
    <2>7. Stood(T - 8 * A, done + 1, m)
        BY <1>3, <2>6 DEF Stood
    <2> QED
        BY <2>7 DEF T, done, s
<1> QED
    BY <1>2, <1>3

\* After the last phase of the last step.
LEMMA Arrives ==
    ASSUME NEW R \in Int, NEW A \in Int, NEW m \in Int, m # 0, Stood(R - 8 * A, 8 * Abs(m), m)
    PROVE  R - 8 * (A + m) \in {-1, 0}
<1>1. CASE m > 0
    BY <1>1 DEF Stood, Abs
<1>2. CASE m < 0
    BY <1>2 DEF Stood, Abs
<1> QED
    BY <1>1, <1>2

\* What axis_run begins with.
LEMMA RunAxesCounts ==
    ASSUME NEW r \in Run, NEW a \in Axes \cup {"none"}, NEW first \in Places, NEW then \in Places,
           first # then, RunAxes(r, a, first, then).at = first
    PROVE  LET s == RunAxes(r, a, first, then)
           IN  s \in Run /\ Counts(s) /\ Done(s) = 0
<1> DEFINE s == RunAxes(r, a, first, then)
           begin(b) == [r EXCEPT !.at = first, !.axis = b, !.left = Abs(r.move[b]), !.micro = 1,
                                   !.k = 1]
           stop == [Ended EXCEPT !.at = then, !.alone = r.alone]
<1>1. s \in Run
    BY RunAxesType
<1>2. stop.at = then
    BY EndedType, Zenon DEF Run
<1>3. \E b \in Axes : r.move[b] # 0 /\ s = begin(b)
    BY <1>2 DEF RunAxes, Axes
<1>4. PICK b \in Axes : r.move[b] # 0 /\ s = begin(b)
    BY <1>3
<1>5. begin(b).move = r.move /\ begin(b).axis = b /\ begin(b).left = Abs(r.move[b]) /\ begin(b).micro = 1
    BY Zenon DEF Run
<1> HIDE DEF begin
<1>6. s.move = r.move /\ s.axis = b /\ s.left = Abs(r.move[b]) /\ s.micro = 1
    BY <1>4, <1>5
<1>7. Abs(r.move[b]) \in Nat
    BY DEF Run, Abs
<1> HIDE DEF s, stop
<1>8. Counts(s) /\ Done(s) = 0
    BY <1>4, <1>6, <1>7 DEF Counts, Done
<1> QED
    BY <1>1, <1>8 DEF s

\* The delay of a phase whose pattern is on the coils of its axis and of no other.
LEMMA DelayCounts ==
    ASSUME TypeOK, NEW p \in Procs, NEW next, NEW v, Delay(p, next, v), UNCHANGED asked, ~disturbed,
           proc[p].left > 0, Counts(proc[p]), Stands(proc[p]),
           Field(proc[p].axis, v) = Pattern(p),
           \A b \in Axes \ {proc[p].axis} : Field(b, v) = {}
    PROVE  /\ Counts(proc'[p]) /\ Stands(proc[p])'
           /\ \A b \in Axes \ {proc[p].axis} : rotor'[b] = rotor[b]
<1> DEFINE r == proc[p]
           m == r.move[r.axis]
           more == proc'[p]
<1>1. /\ r \in Run /\ proc \in [Procs -> Run] /\ rotor \in [Axes -> Int] /\ asked \in [Axes -> Int]
      /\ r.axis \in Axes /\ m \in Int /\ r.left \in Nat /\ r.micro \in 1..8 /\ Abs(m) \in Nat
    BY DEF TypeOK, Run, Abs
<1>2. rotor' = [a \in Axes |-> Turn(rotor[a], Field(a, v))]
    BY DEF Delay
<1>3. /\ more.axis = r.axis /\ more.move = r.move
      /\ IF r.micro < 8 THEN more.micro = r.micro + 1 /\ more.left = r.left
                        ELSE more.micro = 1 /\ more.left = r.left - 1
    BY DelayPlace
<1> HIDE DEF more
<1>4. proc'[p] = more
    BY DEF more
<1>5. Pattern(p) = Counted(m, r.micro)
    BY <1>1 DEF Pattern, Counted
<1>6. rotor'[r.axis] = Turn(rotor[r.axis], Counted(m, r.micro))
    BY <1>1, <1>2, <1>5
<1>7. \A b \in Axes \ {r.axis} : rotor'[b] = rotor[b]
    BY <1>2, TurnNot
<1>8. Done(more) = Done(r) + 1
    <2>1. CASE r.micro < 8
        BY <1>1, <1>3, <2>1 DEF Done
    <2>2. CASE ~(r.micro < 8)
        BY <1>1, <1>3, <2>2 DEF Done
    <2> QED
        BY <2>1, <2>2
<1>9. Counts(more)
    BY <1>1, <1>3 DEF Counts
<1>10. Stood(rotor'[r.axis] - 8 * asked[r.axis], Done(r) + 1, m)
    <2> DEFINE R == rotor[r.axis]
               A == asked[r.axis]
               left == r.left
               micro == r.micro
    <2>1. R \in Int /\ A \in Int /\ m # 0 /\ left <= Abs(m) /\ left > 0 /\ left \in Nat /\ micro \in 1..8
        BY <1>1 DEF Counts
    <2>2. Done(r) = 8 * (Abs(m) - left) + (micro - 1)
        BY DEF Done
    <2>3. Stood(R - 8 * A, 8 * (Abs(m) - left) + (micro - 1), m)
        BY <2>2 DEF Stands
    <2> HIDE DEF R, A, left, micro, m
    <2>4. Stood(Turn(R, Counted(m, micro)) - 8 * A, 8 * (Abs(m) - left) + (micro - 1) + 1, m)
        BY <1>1, <2>1, <2>3, Advance
    <2> QED
        BY <1>6, <2>2, <2>4 DEF R, A, left, micro, m
<1>11. Stands(proc[p])'
    BY <1>2, <1>3, <1>4, <1>8, <1>10 DEF Stands
<1> QED
    BY <1>4, <1>7, <1>9, <1>11

\* The end of an axis: its coils go off, and the steps asked for are made.
LEMMA AxisDoneCounts ==
    ASSUME TypeOK, NEW p \in Procs, NEW first \in Places, NEW then \in Places, first # then,
           AxisDone(p, first, then), UNCHANGED rotor, ~disturbed, proc[p].left = 0,
           Counts(proc[p]), Stands(proc[p]),
           \A b \in Axes \ {proc[p].axis} : Rests(b)
    PROVE  /\ \A a \in Axes : Rests(a)'
           /\ proc'[p].at = first => Counts(proc'[p]) /\ Stands(proc[p])'
<1> DEFINE r == proc[p]
           m == r.move[r.axis]
           s == RunAxes(r, IF r.axis = "pan" THEN "tilt" ELSE "none", first, then)
<1>1. /\ r \in Run /\ proc \in [Procs -> Run] /\ rotor \in [Axes -> Int] /\ asked \in [Axes -> Int]
      /\ r.axis \in Axes /\ m \in Int /\ r.micro \in 1..8 /\ Abs(m) \in Nat
    BY DEF TypeOK, Run, Abs
<1>2. /\ proc' = [proc EXCEPT ![p] = s] /\ UNCHANGED rotor
      /\ asked' = [asked EXCEPT ![r.axis] = asked[r.axis] + m]
    BY DEF AxisDone, Goto
<1>3. s \in Run /\ s.at \in {first, then}
    <2> DEFINE b == IF r.axis = "pan" THEN "tilt" ELSE "none"
    <2>1. b \in Axes \cup {"none"}
        BY DEF Axes
    <2> HIDE DEF b
    <2>2. RunAxes(r, b, first, then) \in Run
        BY <1>1, <2>1, RunAxesType
    <2>3. LET t == RunAxes(r, b, first, then)
          IN  t.alone = r.alone /\ t.at \in {first, then} /\ t.k = 1
        BY <1>1, <2>1, RunAxesPlace
    <2> QED
        BY <2>2, <2>3 DEF b
<1>4. s.at = first => Counts(s) /\ Done(s) = 0
    BY <1>1, RunAxesCounts DEF Axes
<1> HIDE DEF s
<1>5. proc'[p] = s
    BY <1>1, <1>2
<1>6. Done(r) = 8 * Abs(m)
    BY <1>1 DEF Done, Counts
<1>7. rotor[r.axis] - 8 * (asked[r.axis] + m) \in {-1, 0}
    <2> DEFINE R == rotor[r.axis]
               A == asked[r.axis]
    <2>1. R \in Int /\ A \in Int /\ m # 0 /\ Stood(R - 8 * A, 8 * Abs(m), m)
        BY <1>1, <1>6 DEF Counts, Stands
    <2> HIDE DEF R, A, m
    <2>2. R - 8 * (A + m) \in {-1, 0}
        BY <1>1, <2>1, Arrives
    <2> QED
        BY <2>2 DEF R, A
<1>8. ASSUME NEW a \in Axes PROVE Rests(a)'
    <2>1. CASE a = r.axis
        <3>1. asked'[a] = asked[r.axis] + m
            BY <1>1, <1>2, <2>1
        <3> QED
            BY <1>2, <1>7, <2>1, <3>1 DEF Rests
    <2>2. CASE a # r.axis
        BY <1>1, <1>2, <2>2 DEF Rests
    <2> QED
        BY <2>1, <2>2
<1>9. s.at = first => Stands(proc[p])'
    <2>1. \A a \in Axes : rotor'[a] - 8 * asked'[a] \in {-1, 0}
        BY <1>8 DEF Rests
    <2>2. s.at = first => Stood(rotor'[s.axis] - 8 * asked'[s.axis], Done(s), s.move[s.axis])
        BY <1>3, <1>4, <2>1 DEF Run, Stood
    <2> QED
        BY <1>5, <2>2 DEF Stands
<1> QED
    BY <1>2, <1>3, <1>4, <1>5, <1>8, <1>9

(***************************************************************************)
(* Who turns an axis.                                                      *)
(***************************************************************************)
Busy(p) == proc[p].at \in {"select", "set", "sleep", "drive"}
Turning(p) == proc[p].at \in {"set", "sleep", "drive"}

\* The coils below n show the phase.
Shown(p, n) ==
    \A i \in Coil : i < n => value[PinsOf(proc[p].axis)[i]] = IF i \in Pattern(p) THEN 1 ELSE 0

CalmInv == \A p \in ToolRuns : proc[p].alone
OffInv == \A x \in ToSet(DriverPins) : value[x] # 0 => \E p \in Procs : Turning(p) /\ x \in Mine(p)
SelectInv ==
    \A p \in Procs : shared /\ proc[p].at \in {"set", "sleep"} =>
        value[Select] = Level(proc[p].axis)
CoilsInv ==
    \A p \in Procs : /\ proc[p].at = "select" => proc[p].k = 1
                     /\ proc[p].at = "set" => proc[p].k \in Coil /\ Shown(p, proc[p].k)
                     /\ proc[p].at = "sleep" => Shown(p, 5)
CountInv ==
    /\ \A p \in Procs : Busy(p) => /\ Counts(proc[p]) /\ Stands(proc[p])
                                   /\ \A a \in Axes \ {proc[p].axis} : Rests(a)
    /\ (\A p \in Procs : ~Busy(p)) => \A a \in Axes : Rests(a)
EightInv == shared => driver = "out"

Held == CalmInv /\ OffInv /\ SelectInv /\ CoilsInv /\ CountInv
StepsInv == EightInv /\ (~disturbed => Held)

\* Every pin of an axis is among those that gpio-motors exports, the fifth as well.
LEMMA InOrder ==
    /\ \A a \in Axes, i \in Coil : \E j \in 1..Len(Order) : Order[j] = PinsOf(a)[i]
    /\ shared => \E j \in 1..Len(Order) : Order[j] = Select
<1>1. CASE shared
    <2>1. /\ Len(Order) = 9 /\ Order[1] = Pan[1] /\ Order[3] = Pan[2] /\ Order[5] = Pan[3]
          /\ Order[7] = Pan[4] /\ Order[9] = Select
        BY <1>1 DEF Order
    <2>2. 1 \in 1..9 /\ 3 \in 1..9 /\ 5 \in 1..9 /\ 7 \in 1..9 /\ 9 \in 1..9
        OBVIOUS
    <2>3. \A i \in Coil : i \in {1, 2, 3, 4}
        BY DEF Coil
    <2>4. \A i \in Coil : \E j \in 1..Len(Order) : Order[j] = Pan[i]
        BY <2>1, <2>2, <2>3
    <2> QED
        BY <1>1, <2>1, <2>2, <2>4 DEF PinsOf
<1>2. CASE ~shared
    <2>1. /\ Len(Order) = 8 /\ Order[1] = Pan[1] /\ Order[3] = Pan[2] /\ Order[5] = Pan[3]
          /\ Order[7] = Pan[4] /\ Order[2] = Tilt[1] /\ Order[4] = Tilt[2] /\ Order[6] = Tilt[3]
          /\ Order[8] = Tilt[4]
        BY <1>2 DEF Order
    <2>2. \A j \in {1, 2, 3, 4, 5, 6, 7, 8} : j \in 1..8
        OBVIOUS
    <2>3. \A i \in Coil : i \in {1, 2, 3, 4}
        BY DEF Coil
    <2>4. \A i \in Coil : /\ \E j \in 1..Len(Order) : Order[j] = Pan[i]
                          /\ \E j \in 1..Len(Order) : Order[j] = Tilt[i]
        BY <2>1, <2>2, <2>3
    <2> QED
        BY <1>2, <2>4 DEF PinsOf
<1> QED
    BY <1>1, <1>2

\* While gpio-motors has its pins the driver is not in.
LEMMA ExportedKeepsOut ==
    ASSUME QuietInv, \A j \in 1..Len(Order) : Exported(Order[j])
    PROVE  driver # "in" /\ \A p \in Procs : ~Driving(p) /\ ~At(p, "wait")
<1>1. "pan" \in Axes /\ 1 \in Coil /\ PinsOf("pan")[1] = Pan[1] /\ Pan[1] = DriverPins[1] /\ 1 \in 1..8
    BY DEF Axes, Coil, PinsOf, DriverPins
<1>2. owner[Pan[1]] = "sysfs"
    <2>1. \E j \in 1..Len(Order) : Order[j] = Pan[1]
        BY <1>1, InOrder
    <2> QED
        BY <2>1 DEF Exported
<1>3. driver # "in"
    BY <1>1, <1>2 DEF QuietInv, PinsInv
<1> QED
    BY <1>3 DEF QuietInv, LockInv

\* One run of gpio-motors at most, which has all the pins while it turns an axis.
LEMMA OneRun ==
    ASSUME QuietInv, Held
    PROVE  \A p, q \in ToolRuns : q = p
BY DEF QuietInv, AloneInv, Held, CalmInv

LEMMA HasPins ==
    ASSUME QuietInv, Held, NEW p \in Procs, proc[p].at \in {"select", "set", "sleep"}
    PROVE  \A j \in 1..Len(Order) : Exported(Order[j])
<1>1. p \in ToolRuns /\ proc[p].alone /\ proc[p].at \in ToolPlaces
    BY DEF ToolRuns, ToolPlaces, Held, CalmInv
<1> QED
    BY <1>1, WasPlaced DEF Placed, Exported

LEMMA OneBusy ==
    ASSUME QuietInv, Held, NEW p \in Procs, NEW q \in Procs, Busy(p), Busy(q)
    PROVE  q = p
<1>1. ASSUME NEW o \in Procs, Busy(o), ~Driving(o)
      PROVE  o \in ToolRuns /\ \A n \in Procs : ~Driving(n)
    <2>1. proc[o].at \in {"select", "set", "sleep"}
        BY <1>1 DEF Busy, Driving, At
    <2>2. o \in ToolRuns
        BY <2>1 DEF ToolRuns, ToolPlaces
    <2> QED
        BY <2>1, <2>2, HasPins, ExportedKeepsOut
<1>2. CASE Driving(p) /\ Driving(q)
    BY <1>2 DEF QuietInv, LockInv
<1>3. CASE ~Driving(p) \/ ~Driving(q)
    BY <1>1, <1>3, OneRun
<1> QED
    BY <1>2, <1>3

\* A process that turns no axis moves, and no pin goes on.
LEMMA StillCounts ==
    ASSUME QuietInv, Held, UNCHANGED <<shared, rotor, asked>>,
           \A q \in Procs : Busy(q) \/ Busy(q)' => proc'[q] = proc[q],
           \A x \in ToSet(DriverPins) : value'[x] # 0 => value[x] # 0,
           (\E q \in Procs : proc[q].at \in {"set", "sleep"}) =>
               \A x \in AllPins : owner[x] = "sysfs" => value'[x] = value[x]
    PROVE  OffInv' /\ SelectInv' /\ CoilsInv' /\ CountInv'
<1>1. \A q \in Procs : /\ Busy(q)' <=> Busy(q)
                       /\ Turning(q) => Turning(q)' /\ Mine(q)' = Mine(q)
    BY DEF Busy, Turning, Mine, PinsOf
<1>2. OffInv'
    BY <1>1 DEF Held, OffInv
<1>3. ASSUME NEW q \in Procs, proc'[q].at \in {"set", "sleep"}
      PROVE  /\ proc'[q] = proc[q]
             /\ \A i \in Coil : value'[PinsOf(proc[q].axis)[i]] = value[PinsOf(proc[q].axis)[i]]
             /\ shared => value'[Select] = value[Select]
    <2>1. proc'[q] = proc[q]
        BY <1>3 DEF Busy
    <2>2. \A j \in 1..Len(Order) : value'[Order[j]] = value[Order[j]]
        BY <1>3, <2>1, HasPins, OrderType DEF Exported
    <2>3. proc[q].axis \in Axes
        BY DEF QuietInv, TypedInv, TypeOK, Run
    <2> QED
        BY <2>1, <2>2, <2>3, InOrder
<1>4. SelectInv'
    BY <1>3 DEF Held, SelectInv
<1>5. CoilsInv'
    <2> SUFFICES ASSUME NEW q \in Procs
                 PROVE  /\ proc'[q].at = "select" => proc'[q].k = 1
                        /\ proc'[q].at = "set" => proc'[q].k \in Coil /\ Shown(q, proc[q].k)'
                        /\ proc'[q].at = "sleep" => Shown(q, 5)'
        BY DEF CoilsInv
    <2>1. proc'[q].at = "select" => proc'[q].k = 1
        BY DEF Held, CoilsInv, Busy
    <2>2. CASE proc'[q].at \in {"set", "sleep"}
        <3>1. /\ proc[q].at = "set" => proc[q].k \in Coil /\ Shown(q, proc[q].k)
              /\ proc[q].at = "sleep" => Shown(q, 5)
            BY DEF Held, CoilsInv
        <3>2. Pattern(q)' = Pattern(q) /\ PinsOf(proc[q].axis)' = PinsOf(proc[q].axis)
            BY <1>3, <2>2 DEF Pattern, PinsOf
        <3> QED
            BY <1>3, <2>1, <2>2, <3>1, <3>2 DEF Shown
    <2> QED
        BY <2>1, <2>2
<1>6. \A a : Rests(a) => Rests(a)'
    BY DEF Rests
<1>7. ASSUME NEW q \in Procs, Busy(q)'
      PROVE  Counts(proc[q])' /\ Stands(proc[q])' /\ \A a \in Axes \ {proc'[q].axis} : Rests(a)'
    <2>1. proc'[q] = proc[q] /\ Counts(proc[q]) /\ Stands(proc[q])
          /\ \A a \in Axes \ {proc[q].axis} : Rests(a)
        BY <1>1, <1>7 DEF Held, CountInv
    <2> QED
        BY <1>6, <2>1 DEF Stands, Counts
<1>8. (\A q \in Procs : ~Busy(q)') => \A a \in Axes : Rests(a)'
    BY <1>1, <1>6 DEF Held, CountInv
<1> QED
    BY <1>2, <1>4, <1>5, <1>7, <1>8 DEF CountInv

LEMMA CalmKept ==
    ASSUME Held, NEW p \in Procs, \A q \in Procs : q # p => proc'[q] = proc[q],
           proc'[p].at \in ToolPlaces =>
               proc'[p].alone \/ (proc[p].at \in ToolPlaces /\ proc'[p].alone = proc[p].alone)
    PROVE  CalmInv'
BY DEF Held, CalmInv, ToolRuns

LEMMA KernelHeld ==
    ASSUME QuietInv, Held, Insmod \/ Request \/ Register \/ Rmmod
    PROVE  Held'
<1>1. UNCHANGED <<shared, proc, rotor, asked>>
    BY DEF Insmod, Request, Register, Rmmod, world
<1>2. /\ \A x \in ToSet(DriverPins) : value'[x] # 0 => value[x] # 0
      /\ \A x \in AllPins : owner[x] = "sysfs" => value'[x] = value[x]
    <2>1. value \in [AllPins -> {0, 1}] /\ ToSet(DriverPins) \subseteq AllPins
        BY DEF QuietInv, TypedInv, TypeOK, AllPins
    <2>2. CASE Request /\ owner[DriverPins[asking]] = "free"
        <3>1. value' = [value EXCEPT ![DriverPins[asking]] = 0]
            BY <2>2 DEF Request
        <3> QED
            BY <2>1, <2>2, <3>1
    <2>3. CASE UNCHANGED value
        BY <2>3
    <2> QED
        BY <2>2, <2>3 DEF Insmod, Request, Register, Rmmod, pins
<1>3. OffInv' /\ SelectInv' /\ CoilsInv' /\ CountInv'
    BY <1>1, <1>2, StillCounts
<1>4. CalmInv'
    BY <1>1 DEF Held, CalmInv, ToolRuns
<1> QED
    BY <1>3, <1>4 DEF Held

LEMMA StartHeld ==
    ASSUME QuietInv, Held, NEW p \in Procs,
           (StartMotors(p) /\ (UNCHANGED proc \/ ToolRuns = {})) \/ StartCtl(p)
    PROVE  Held'
<1>1. UNCHANGED <<shared, owner, value, rotor, asked>> /\ proc[p].at = "idle"
    BY DEF StartMotors, StartCtl, pins, world, At
<1>2. CASE UNCHANGED proc
    BY <1>1, <1>2, StillCounts DEF Held, CalmInv, ToolRuns
<1>3. CASE ~UNCHANGED proc
    <2>1. /\ \A q \in Procs : q # p => proc'[q] = proc[q]
          /\ proc'[p].at = "wait" \/ (proc'[p].at = "export" /\ proc'[p].alone)
        <3>1. CASE StartMotors(p) /\ ToolRuns = {}
            BY <1>3, <3>1, StartMotorsPlace DEF QuietInv, TypedInv
        <3>2. CASE StartCtl(p)
            <4>1. PICK m \in Moves[shared] :
                      proc' = [proc EXCEPT ![p] = [Ended EXCEPT !.at = "wait", !.move = m]]
                BY <3>2 DEF StartCtl, Goto
            <4>2. [Ended EXCEPT !.at = "wait", !.move = m].at = "wait"
                BY EndedType, Zenon DEF Run
            <4> QED
                BY <4>1, <4>2 DEF QuietInv, TypedInv, TypeOK
        <3> QED
            BY <1>3, <3>1, <3>2
    <2>2. OffInv' /\ SelectInv' /\ CoilsInv' /\ CountInv'
        BY <1>1, <2>1, StillCounts DEF Busy
    <2>3. CalmInv'
        BY <2>1, CalmKept DEF ToolPlaces
    <2> QED
        BY <2>2, <2>3 DEF Held
<1> QED
    BY <1>2, <1>3

\* A run of gpio-motors goes on where it turns no axis.
LEMMA AsideHeld ==
    ASSUME QuietInv, Held, NEW p \in Procs, proc[p].at \in ToolPlaces, ~Busy(p),
           \A q \in Procs : q # p => proc'[q] = proc[q], ~Busy(p)',
           proc'[p].at \in ToolPlaces => proc'[p].alone = proc[p].alone,
           UNCHANGED <<shared, rotor, asked>>,
           \A x \in ToSet(DriverPins) : value'[x] # 0 => value[x] # 0
    PROVE  Held'
<1>1. \A q \in Procs : proc[q].at \notin {"set", "sleep"}
    <2>1. p \in ToolRuns
        BY DEF ToolRuns
    <2>2. \A q \in Procs : proc[q].at \in {"set", "sleep"} => q \in ToolRuns /\ Busy(q)
        BY DEF ToolRuns, ToolPlaces, Busy
    <2> QED
        BY <2>1, <2>2, OneRun
<1>2. OffInv' /\ SelectInv' /\ CoilsInv' /\ CountInv'
    BY <1>1, StillCounts
<1>3. CalmInv'
    BY CalmKept
<1> QED
    BY <1>2, <1>3 DEF Held

LEMMA ExportHeld ==
    ASSUME QuietInv, Held, NEW p \in Procs, Export(p)
    PROVE  Held'
<1>1. proc[p] \in Run /\ proc \in [Procs -> Run] /\ "export" \in ToolPlaces
    BY DEF QuietInv, TypedInv, TypeOK, ToolPlaces
<1> DEFINE r == [proc[p] EXCEPT !.at = "direction"]
<1>2. r.at = "direction" /\ r.alone = proc[p].alone
    BY <1>1, Zenon DEF Run
<1>3. proc' = [proc EXCEPT ![p] = r] /\ proc[p].at = "export"
    BY DEF Export, Goto, At
<1> HIDE DEF r
<1>4. proc'[p] = r /\ \A q \in Procs : q # p => proc'[q] = proc[q]
    BY <1>1, <1>3
<1>5. UNCHANGED <<shared, value, rotor, asked>>
    BY DEF Export, world
<1>6. ~Busy(p) /\ ~Busy(p)'
    BY <1>2, <1>3, <1>4 DEF Busy
<1> QED
    BY <1>1, <1>2, <1>3, <1>4, <1>5, <1>6, AsideHeld

\* A run fails, before it turns an axis.
LEMMA FailsHeld ==
    ASSUME QuietInv, Held, NEW p \in Procs, Fails(p), proc[p].at = "direction",
           UNCHANGED <<shared, owner, value, rotor, asked>>
    PROVE  Held'
<1>1. /\ \A o \in Procs : o # p => proc'[o] = proc[o]
      /\ proc'[p].alone = proc[p].alone /\ proc'[p].at = "clean"
    BY FailsPlace DEF QuietInv, TypedInv
<1>2. ~Busy(p) /\ ~Busy(p)' /\ "direction" \in ToolPlaces
    BY <1>1 DEF Busy, ToolPlaces
<1> QED
    BY <1>1, <1>2, AsideHeld

\* An invocation begins to turn its first axis, when nobody else turns one.
LEMMA BeginCounts ==
    ASSUME QuietInv, Held, NEW p \in Procs, NEW first \in {"select", "drive"}, NEW then \in Places,
           first # then, proc' = [proc EXCEPT ![p] = RunAxes(proc[p], "pan", first, then)],
           UNCHANGED <<shared, rotor, asked>>,
           \A q \in Procs : ~Busy(q),
           then \notin {"select", "set", "sleep", "drive"},
           \A x \in ToSet(DriverPins) : value'[x] # 0 => value[x] # 0
    PROVE  OffInv' /\ SelectInv' /\ CoilsInv' /\ CountInv'
<1> DEFINE s == RunAxes(proc[p], "pan", first, then)
<1>1. /\ proc[p] \in Run /\ proc \in [Procs -> Run]
      /\ first \in Places /\ "pan" \in Axes \cup {"none"}
    BY DEF QuietInv, TypedInv, TypeOK, Places, ToolPlaces, Axes
<1>2. s.at \in {first, then} /\ s.k = 1
    BY <1>1, RunAxesPlace
<1>3. s.at = first => Counts(s) /\ Done(s) = 0 /\ s \in Run
    BY <1>1, RunAxesCounts
<1>4. proc' = [proc EXCEPT ![p] = s]
    OBVIOUS
<1> HIDE DEF s
<1>5. proc'[p] = s /\ \A q \in Procs : q # p => proc'[q] = proc[q]
    BY <1>1, <1>4
<1>6. \A a \in Axes : rotor'[a] - 8 * asked'[a] \in {-1, 0}
    BY DEF Held, CountInv, Rests
<1>7. \A x \in ToSet(DriverPins) : value'[x] = 0
    BY DEF Held, OffInv, Busy, Turning
<1>8. OffInv'
    BY <1>7 DEF OffInv
<1>9. SelectInv'
    BY <1>2, <1>5 DEF SelectInv, Busy
<1>12. CoilsInv'
    BY <1>2, <1>5 DEF CoilsInv, Busy
<1>10. ASSUME NEW q \in Procs, Busy(q)'
      PROVE  Counts(proc[q])' /\ Stands(proc[q])'
    <2>1. q = p /\ s.at = first
        BY <1>2, <1>5, <1>10 DEF Busy
    <2>2. Stood(rotor'[s.axis] - 8 * asked'[s.axis], Done(s), s.move[s.axis])
        BY <1>3, <1>6, <2>1 DEF Run, Stood
    <2> QED
        BY <1>3, <1>5, <2>1, <2>2 DEF Stands
<1>11. \A a \in Axes : Rests(a)'
    BY <1>6 DEF Rests
<1> QED
    BY <1>8, <1>9, <1>10, <1>11, <1>12 DEF CountInv
LEMMA DirectionHeld ==
    ASSUME QuietInv, Held, NEW p \in Procs, Direction(p)
    PROVE  Held'
<1>1. /\ proc[p] \in Run /\ proc \in [Procs -> Run] /\ value \in [AllPins -> {0, 1}]
      /\ p \in ToolRuns /\ proc[p].at = "direction" /\ ~Busy(p) /\ proc[p].at \in ToolPlaces
      /\ proc[p].k \in 1..9 /\ Len(Order) \in 8..9
    BY OrderLength DEF Direction, At, ToolRuns, ToolPlaces, Busy, QuietInv, TypedInv, TypeOK, Run
<1>2. UNCHANGED <<shared, owner, rotor, asked>>
    BY DEF Direction, world
<1> DEFINE x == Order[proc[p].k]
<1>3. CASE owner[x] # "sysfs"
    BY <1>1, <1>2, <1>3, FailsHeld DEF Direction
<1>4. CASE owner[x] = "sysfs"
    <2>1. value' = [value EXCEPT ![x] = 0]
        BY <1>4 DEF Direction
    <2>2. \A y \in ToSet(DriverPins) : value'[y] # 0 => value[y] # 0
        BY <1>1, <2>1 DEF AllPins
    <2>3. CASE proc[p].k < Len(Order)
        <3> DEFINE r == [proc[p] EXCEPT !.at = "export", !.k = proc[p].k + 1]
        <3>1. r.at = "export" /\ r.alone = proc[p].alone
            BY <1>1, Zenon DEF Run
        <3>2. proc' = [proc EXCEPT ![p] = r]
            BY <1>4, <2>3 DEF Direction, Goto
        <3> HIDE DEF r
        <3>3. proc'[p] = r /\ \A q \in Procs : q # p => proc'[q] = proc[q]
            BY <1>1, <3>2
        <3>4. ~Busy(p)'
            BY <3>1, <3>3 DEF Busy
        <3> QED
            BY <1>1, <1>2, <2>2, <3>1, <3>3, <3>4, AsideHeld
    <2>4. CASE ~(proc[p].k < Len(Order))
        <3> DEFINE s == RunAxes(proc[p], "pan", "select", "clean")
        <3>1. proc' = [proc EXCEPT ![p] = s]
            BY <1>4, <2>4 DEF Direction, Goto
        <3>2. \A j \in 1..Len(Order) : owner[Order[j]] = "sysfs"
            <4>1. Placed(proc[p], owner, value, Order)
                BY <1>1, WasPlaced DEF Held, CalmInv
            <4>2. \A j \in 1..Len(Order) : j < proc[p].k \/ j = proc[p].k
                BY <1>1, <2>4
            <4> QED
                BY <1>1, <1>4, <4>1, <4>2 DEF Placed
        <3>3. \A q \in Procs : ~Busy(q)
            <4>1. \A q \in Procs : ~Driving(q)
                BY <3>2, ExportedKeepsOut DEF Exported
            <4>2. \A q \in Procs : q \in ToolRuns => q = p
                BY <1>1, OneRun
            <4> QED
                BY <1>1, <4>1, <4>2 DEF Busy, Driving, At, ToolRuns, ToolPlaces
        <3>4. "clean" \in Places /\ "select" \in Places
            BY DEF Places, ToolPlaces
        <3>5. OffInv' /\ SelectInv' /\ CoilsInv' /\ CountInv'
            BY <1>2, <2>2, <3>1, <3>3, <3>4, BeginCounts
        <3>6. s.alone = proc[p].alone
            BY <1>1, <3>4, RunAxesPlace
        <3> HIDE DEF s
        <3>7. proc'[p] = s /\ \A q \in Procs : q # p => proc'[q] = proc[q]
            BY <1>1, <3>1
        <3>8. CalmInv'
            BY <1>1, <3>6, <3>7, CalmKept
        <3> QED
            BY <3>5, <3>8 DEF Held
    <2> QED
        BY <2>3, <2>4
<1> QED
    BY <1>3, <1>4

\* What stays when the one run that turns an axis goes on with it.
LEMMA SameAxis ==
    ASSUME QuietInv, Held, NEW p \in Procs, Busy(p), UNCHANGED <<shared, rotor, asked>>,
           \A q \in Procs : q # p => proc'[q] = proc[q],
           proc'[p].axis = proc[p].axis, proc'[p].move = proc[p].move,
           proc'[p].left = proc[p].left, proc'[p].micro = proc[p].micro, Busy(p)'
    PROVE  /\ CountInv' /\ Pattern(p)' = Pattern(p) /\ Mine(p)' = Mine(p)
           /\ \A q \in Procs : Busy(q)' => q = p
<1>1. \A q \in Procs : Busy(q)' => q = p
    BY OneBusy DEF Busy
<1>2. Counts(proc[p]) /\ Stands(proc[p]) /\ \A a \in Axes \ {proc[p].axis} : Rests(a)
    BY DEF Held, CountInv
<1>3. Counts(proc[p])' /\ Stands(proc[p])' /\ \A a \in Axes \ {proc'[p].axis} : Rests(a)'
    BY <1>2 DEF Counts, Stands, Done, Rests
<1> QED
    BY <1>1, <1>3 DEF CountInv, Pattern, Mine, PinsOf

\* The fifth pin is set before the coils are.
LEMMA SelectAxisHeld ==
    ASSUME QuietInv, Held, NEW p \in Procs, SelectAxis(p)
    PROVE  Held'
<1>1. /\ proc[p] \in Run /\ proc \in [Procs -> Run] /\ value \in [AllPins -> {0, 1}]
      /\ p \in ToolRuns /\ proc[p].at = "select" /\ Busy(p) /\ Select \in AllPins
      /\ proc[p].at \in ToolPlaces
    BY DEF SelectAxis, At, ToolRuns, ToolPlaces, Busy, QuietInv, TypedInv, TypeOK, AllPins
<1>2. UNCHANGED <<shared, owner, rotor, asked>>
    BY DEF SelectAxis, world
<1>3. shared => Exported(Select)
    BY <1>1, HasPins, InOrder DEF Exported
<1> DEFINE r == [proc[p] EXCEPT !.at = "set"]
<1>4. /\ r.at = "set" /\ r.axis = proc[p].axis /\ r.move = proc[p].move /\ r.k = proc[p].k
      /\ r.left = proc[p].left /\ r.micro = proc[p].micro /\ r.alone = proc[p].alone
    BY <1>1, Zenon DEF Run
<1>5. /\ proc' = [proc EXCEPT ![p] = r]
      /\ value' = IF shared THEN [value EXCEPT ![Select] = Level(r.axis)] ELSE value
    BY <1>3 DEF SelectAxis, Goto
<1> HIDE DEF r
<1>6. proc'[p] = r /\ \A q \in Procs : q # p => proc'[q] = proc[q]
    BY <1>1, <1>5
<1>7. Busy(p)' /\ Turning(p)'
    BY <1>4, <1>6 DEF Busy, Turning
<1>8. /\ CountInv' /\ Pattern(p)' = Pattern(p) /\ Mine(p)' = Mine(p)
      /\ \A q \in Procs : Busy(q)' => q = p
    BY <1>1, <1>2, <1>4, <1>6, <1>7, SameAxis
<1>9. OffInv'
    <2>1. \A x \in ToSet(DriverPins) : value'[x] = value[x]
        BY <1>1, <1>5, PinsAssumption DEF AllPins
    <2>2. \A q \in Procs : Turning(q) => Busy(q) /\ q # p
        BY <1>1 DEF Turning, Busy
    <2>3. \A x \in ToSet(DriverPins) : value[x] = 0
        BY <1>1, <2>2, OneBusy DEF Held, OffInv
    <2> QED
        BY <2>1, <2>3 DEF OffInv
<1>10. SelectInv'
    <2>1. shared => value'[Select] = Level(r.axis)
        BY <1>1, <1>5
    <2> QED
        BY <1>2, <1>6, <1>8, <2>1 DEF SelectInv, Busy
<1>11. CoilsInv'
    <2>1. r.k = 1 /\ 1 \in Coil /\ \A i \in Coil : ~(i < 1)
        BY <1>1, <1>4 DEF Held, CoilsInv, Coil
    <2> QED
        BY <1>4, <1>6, <1>8, <2>1 DEF CoilsInv, Shown, Busy
<1>12. CalmInv'
    BY <1>1, <1>4, <1>6, CalmKept
<1> QED
    BY <1>8, <1>9, <1>10, <1>11, <1>12 DEF Held

LEMMA PatternType ==
    ASSUME QuietInv, NEW p \in Procs, Counts(proc[p])
    PROVE  /\ Pattern(p) \in SUBSET Coil
           /\ proc[p].left = 0 => Pattern(p) = {}
<1>1. proc[p].micro \in 1..8
    BY DEF QuietInv, TypedInv, TypeOK, Run
<1>2. /\ STEP_SEQUENCE[proc[p].micro] \subseteq Coil
      /\ REVERSE_STEP_SEQUENCE[proc[p].micro] \subseteq Coil
    BY <1>1, Phases, Reversed
<1> QED
    BY <1>2 DEF Pattern

\* The coils that are on are of the axis that is turned.
LEMMA OnlyMine ==
    ASSUME QuietInv, Held, NEW p \in Procs, Turning(p)
    PROVE  \A x \in ToSet(DriverPins) : value[x] # 0 => \E i \in Coil : x = PinsOf(proc[p].axis)[i]
<1>1. \A q \in Procs : Turning(q) => q = p
    BY OneBusy DEF Turning, Busy
<1> QED
    BY <1>1 DEF Held, OffInv, Mine

\* A phase has been shown; the rotors turn, and the next one comes.
LEMMA DelayHeld ==
    ASSUME QuietInv, Held, ~disturbed, NEW p \in Procs, Turning(p), proc[p].left > 0,
           NEW next \in {"set", "drive"}, next = "set" => proc[p].at = "sleep",
           Delay(p, next, value'), UNCHANGED <<shared, asked>>,
           shared => proc[p].at # "drive", shared => value'[Select] = value[Select],
           \A i \in Coil : value'[PinsOf(proc[p].axis)[i]] = IF i \in Pattern(p) THEN 1 ELSE 0,
           \A x \in ToSet(DriverPins) : value'[x] # 0 => \E i \in Coil : x = PinsOf(proc[p].axis)[i]
    PROVE  Held'
<1> DEFINE a == proc[p].axis
<1>1. /\ TypeOK /\ proc[p] \in Run /\ a \in Axes /\ Busy(p)
      /\ {"set", "sleep"} \subseteq ToolPlaces /\ "drive" \notin ToolPlaces
    BY DEF QuietInv, TypedInv, TypeOK, Run, Busy, Turning, ToolPlaces
<1>2. Counts(proc[p]) /\ Stands(proc[p]) /\ \A b \in Axes \ {a} : Rests(b)
    BY <1>1 DEF Held, CountInv
<1>3. Pattern(p) \in SUBSET Coil
    BY <1>2, PatternType
<1>4. /\ \A q \in Procs : q # p => proc'[q] = proc[q]
      /\ proc'[p].at = next /\ proc'[p].k = 1 /\ proc'[p].axis = a
      /\ proc'[p].alone = proc[p].alone
    BY <1>1, DelayPlace
<1>5. \A q \in Procs : Busy(q)' => q = p
    BY <1>1, <1>4, OneBusy DEF Busy
<1>6. shared => value'[Select] = Level(a)
    BY DEF Held, SelectInv, Turning
<1>7. Field(a, value') = Pattern(p) /\ \A b \in Axes \ {a} : Field(b, value') = {}
    BY <1>1, <1>3, <1>6, Fields
<1>8. /\ Counts(proc'[p]) /\ Stands(proc[p])'
      /\ \A b \in Axes \ {a} : rotor'[b] = rotor[b]
    BY <1>1, <1>2, <1>7, DelayCounts
<1>9. Busy(p)' /\ Turning(p)' /\ Mine(p)' = Mine(p)
    BY <1>1, <1>4 DEF Busy, Turning, Mine, PinsOf
<1>10. OffInv'
    BY <1>9 DEF OffInv, Mine
<1>11. SelectInv'
    BY <1>4, <1>5, <1>6 DEF SelectInv, Busy
<1>12. CoilsInv'
    <2>1. 1 \in Coil /\ \A i \in Coil : ~(i < 1)
        BY DEF Coil
    <2> QED
        BY <1>4, <1>5, <2>1 DEF CoilsInv, Shown, Busy
<1>13. CountInv'
    <2>1. \A b \in Axes \ {a} : Rests(b)'
        BY <1>2, <1>8 DEF Rests
    <2> QED
        BY <1>4, <1>5, <1>8, <1>9, <2>1 DEF CountInv
<1>14. CalmInv'
    BY <1>1, <1>4, CalmKept
<1> QED
    BY <1>10, <1>11, <1>12, <1>13, <1>14 DEF Held

\* The coils of the axis are off, and it ends.
LEMMA AxisDoneHeld ==
    ASSUME QuietInv, Held, ~disturbed, NEW p \in Procs, Turning(p), proc[p].left = 0,
           NEW first \in {"select", "drive"}, NEW then \in {"clean", "idle"},
           first = "select" <=> proc[p].at # "drive", then = "clean" <=> proc[p].at # "drive",
           AxisDone(p, first, then), UNCHANGED <<shared, rotor>>,
           \A x \in ToSet(DriverPins) : value'[x] = 0
    PROVE  Held'
<1>1. /\ TypeOK /\ Busy(p) /\ first \in Places /\ then \in Places /\ first # then
      /\ proc[p].at # "drive" => proc[p].at \in ToolPlaces
      /\ "drive" \notin ToolPlaces /\ "idle" \notin ToolPlaces
    BY DEF QuietInv, TypedInv, Busy, Turning, Places, ToolPlaces
<1>2. Counts(proc[p]) /\ Stands(proc[p]) /\ \A b \in Axes \ {proc[p].axis} : Rests(b)
    BY <1>1 DEF Held, CountInv
<1>3. /\ \A q \in Procs : q # p => proc'[q] = proc[q]
      /\ proc'[p].alone = proc[p].alone /\ proc'[p].at \in {first, then} /\ proc'[p].k = 1
    BY <1>1, AxisDonePlace
<1>4. \A q \in Procs : Busy(q)' => q = p
    BY <1>1, <1>3, OneBusy DEF Busy
<1>5. /\ \A b \in Axes : Rests(b)'
      /\ proc'[p].at = first => Counts(proc'[p]) /\ Stands(proc[p])'
    BY <1>1, <1>2, AxisDoneCounts
<1>6. OffInv'
    BY DEF OffInv
<1>7. SelectInv' /\ CoilsInv'
    BY <1>3, <1>4 DEF SelectInv, CoilsInv, Busy
<1>8. CountInv'
    BY <1>3, <1>4, <1>5 DEF CountInv, Busy
<1>9. CalmInv'
    BY <1>1, <1>3, CalmKept
<1> QED
    BY <1>6, <1>7, <1>8, <1>9 DEF Held

LEMMA SetCoilsHeld ==
    ASSUME QuietInv, Held, ~disturbed, NEW p \in Procs, SetCoils(p)
    PROVE  Held'
<1> DEFINE r == proc[p]
           mine == PinsOf(r.axis)
           x == mine[r.k]
<1>1. /\ r \in Run /\ proc \in [Procs -> Run] /\ r.axis \in Axes /\ r.at = "set"
      /\ Turning(p) /\ Busy(p) /\ r.at \in ToolPlaces /\ value \in [AllPins -> {0, 1}]
      /\ "sleep" \in ToolPlaces
    BY DEF SetCoils, At, Turning, Busy, ToolPlaces, QuietInv, TypedInv, TypeOK, Run
<1>2. r.k \in Coil /\ Shown(p, r.k)
    BY <1>1 DEF Held, CoilsInv
<1>3. Exported(x)
    BY <1>1, <1>2, HasPins, InOrder
<1>4. /\ value' = [value EXCEPT ![x] = IF r.k \in Pattern(p) THEN 1 ELSE 0]
      /\ UNCHANGED <<shared, owner, rotor, disturbed>>
    BY <1>3 DEF SetCoils
<1>5. /\ \A i \in Coil : mine[i] \in AllPins /\ (mine[i] = x => i = r.k)
      /\ \A i \in Coil : mine[i] # Select
    BY <1>1, <1>2, PinsType, PinsDiffer
<1>6. /\ \A i \in Coil : i < r.k + 1 => value'[mine[i]] = IF i \in Pattern(p) THEN 1 ELSE 0
      /\ value'[Select] = value[Select]
    <2>1. \A i \in Coil : i < r.k + 1 => i < r.k \/ i = r.k
        BY <1>2 DEF Coil
    <2>2. \A i \in Coil : i < r.k => value[mine[i]] = IF i \in Pattern(p) THEN 1 ELSE 0
        BY <1>2 DEF Shown
    <2>3. \A i \in Coil : i # r.k => value'[mine[i]] = value[mine[i]]
        BY <1>1, <1>4, <1>5
    <2>4. value'[x] = IF r.k \in Pattern(p) THEN 1 ELSE 0
        BY <1>1, <1>2, <1>4, <1>5
    <2>5. \A i \in Coil : i < r.k => i # r.k
        BY <1>2 DEF Coil
    <2>6. value'[Select] = value[Select]
        BY <1>1, <1>2, <1>4, <1>5 DEF AllPins
    <2> QED
        BY <2>1, <2>2, <2>3, <2>4, <2>5, <2>6
<1>7. \A y \in ToSet(DriverPins) : value'[y] # 0 => \E i \in Coil : y = mine[i]
    <2>1. \A y \in ToSet(DriverPins) : y # x => value'[y] = value[y]
        BY <1>1, <1>4 DEF AllPins
    <2> QED
        BY <1>1, <1>2, <2>1, OnlyMine
<1>8. CASE r.k < 4 \/ r.left > 0
    <2>1. /\ UNCHANGED asked
          /\ proc' = [proc EXCEPT ![p] = IF r.k < 4 THEN [r EXCEPT !.k = r.k + 1]
                                         ELSE [r EXCEPT !.at = "sleep"]]
        BY <1>3, <1>8 DEF SetCoils, Goto
    <2>2. LET s == [r EXCEPT !.k = r.k + 1]
          IN  /\ s.at = r.at /\ s.k = r.k + 1 /\ s.axis = r.axis /\ s.move = r.move
              /\ s.left = r.left /\ s.micro = r.micro /\ s.alone = r.alone
        BY <1>1, Zenon DEF Run
    <2>3. LET s == [r EXCEPT !.at = "sleep"]
          IN  /\ s.at = "sleep" /\ s.axis = r.axis /\ s.move = r.move
              /\ s.left = r.left /\ s.micro = r.micro /\ s.alone = r.alone
        BY <1>1, Zenon DEF Run
    <2>4. /\ \A q \in Procs : q # p => proc'[q] = proc[q]
          /\ proc'[p].axis = r.axis /\ proc'[p].move = r.move /\ proc'[p].left = r.left
          /\ proc'[p].micro = r.micro /\ proc'[p].alone = r.alone
          /\ IF r.k < 4 THEN proc'[p].at = "set" /\ proc'[p].k = r.k + 1 ELSE proc'[p].at = "sleep"
        BY <1>1, <2>1, <2>2, <2>3
    <2>5. proc'[p].at \in {"set", "sleep"} /\ Busy(p)' /\ Turning(p)'
        BY <2>4 DEF Busy, Turning
    <2>6. /\ CountInv' /\ Pattern(p)' = Pattern(p) /\ Mine(p)' = Mine(p)
          /\ \A q \in Procs : Busy(q)' => q = p
        BY <1>1, <1>4, <2>1, <2>4, <2>5, SameAxis
    <2>7. OffInv'
        BY <1>7, <2>5, <2>6 DEF OffInv, Mine
    <2>8. SelectInv'
        BY <1>1, <1>4, <1>6, <2>4, <2>6 DEF Held, SelectInv, Busy
    <2>9. CoilsInv'
        <3>1. \A i \in Coil : i < r.k + 1 =>
                  value'[PinsOf(proc[p].axis)'[i]] = IF i \in Pattern(p)' THEN 1 ELSE 0
            BY <1>4, <1>6, <2>4, <2>6 DEF PinsOf
        <3>2. CASE r.k < 4
            <4>1. r.k + 1 \in Coil
                BY <1>2, <3>2 DEF Coil
            <4>2. Shown(p, proc[p].k)'
                BY <2>4, <3>1, <3>2 DEF Shown
            <4> QED
                BY <2>4, <2>6, <3>2, <4>1, <4>2 DEF CoilsInv, Busy
        <3>3. CASE ~(r.k < 4)
            <4>1. r.k = 4
                BY <1>2, <3>3 DEF Coil
            <4>2. Shown(p, 5)'
                BY <3>1, <4>1 DEF Shown
            <4> QED
                BY <2>4, <2>6, <3>3, <4>2 DEF CoilsInv, Busy
        <3> QED
            BY <3>2, <3>3
    <2>10. CalmInv'
        BY <1>1, <2>4, CalmKept
    <2> QED
        BY <2>6, <2>7, <2>8, <2>9, <2>10 DEF Held
<1>9. CASE ~(r.k < 4) /\ ~(r.left > 0)
    <2>1. r.k = 4 /\ r.left = 0 /\ \A i \in Coil : i < 5
        BY <1>1, <1>2, <1>9 DEF Coil, Run
    <2>2. AxisDone(p, "select", "clean")
        BY <1>3, <1>9 DEF SetCoils
    <2>3. Pattern(p) = {}
        BY <2>1 DEF Pattern
    <2>4. \A y \in ToSet(DriverPins) : value'[y] = 0
        BY <1>6, <1>7, <2>1, <2>3
    <2> QED
        BY <1>1, <1>4, <2>1, <2>2, <2>4, AxisDoneHeld
<1> QED
    BY <1>8, <1>9

LEMMA SleepHeld ==
    ASSUME QuietInv, Held, ~disturbed, NEW p \in Procs, Sleep(p)
    PROVE  Held'
<1>1. /\ proc[p].at = "sleep" /\ Turning(p) /\ proc[p].left > 0
      /\ UNCHANGED <<shared, value, asked>> /\ Delay(p, "set", value')
    BY DEF Sleep, At, Turning, QuietInv, TypedInv, SleepInv, pins
<1>2. \A i \in Coil : value'[PinsOf(proc[p].axis)[i]] = IF i \in Pattern(p) THEN 1 ELSE 0
    <2>1. \A i \in Coil : i < 5
        BY DEF Coil
    <2> QED
        BY <1>1, <2>1 DEF Held, CoilsInv, Shown
<1>3. \A x \in ToSet(DriverPins) : value'[x] # 0 => \E i \in Coil : x = PinsOf(proc[p].axis)[i]
    BY <1>1, OnlyMine
<1> QED
    BY <1>1, <1>2, <1>3, DelayHeld

LEMMA CleanHeld ==
    ASSUME QuietInv, Held, NEW p \in Procs, Release(p) \/ Unexport(p)
    PROVE  Held'
<1>1. /\ proc[p] \in Run /\ proc \in [Procs -> Run] /\ value \in [AllPins -> {0, 1}]
      /\ proc[p].at \in {"clean", "unexport"} /\ proc[p].at \in ToolPlaces /\ ~Busy(p)
      /\ "idle" \notin ToolPlaces
    BY DEF Release, Unexport, At, ToolPlaces, Busy, QuietInv, TypedInv, TypeOK
<1>2. UNCHANGED <<shared, rotor, asked>>
    BY DEF Release, Unexport, world
<1>3. \A x \in ToSet(DriverPins) : value'[x] # 0 => value[x] # 0
    BY <1>1 DEF Release, Unexport, AllPins
<1>4. PICK r \in {[proc[p] EXCEPT !.at = "unexport"],
                  [proc[p] EXCEPT !.at = "clean", !.k = proc[p].k + 1], Ended} :
          proc' = [proc EXCEPT ![p] = r]
    BY DEF Release, Unexport, Goto
<1>5. r.at = "idle" \/ (r.at \in {"clean", "unexport"} /\ r.alone = proc[p].alone)
    <2>1. /\ [proc[p] EXCEPT !.at = "unexport"].at = "unexport"
          /\ [proc[p] EXCEPT !.at = "unexport"].alone = proc[p].alone
          /\ [proc[p] EXCEPT !.at = "clean", !.k = proc[p].k + 1].at = "clean"
          /\ [proc[p] EXCEPT !.at = "clean", !.k = proc[p].k + 1].alone = proc[p].alone
        BY <1>1, Zenon DEF Run
    <2>2. Ended.at = "idle"
        BY DEF Ended
    <2> QED
        BY <2>1, <2>2
<1>6. proc'[p] = r /\ \A q \in Procs : q # p => proc'[q] = proc[q]
    BY <1>1, <1>4
<1>7. ~Busy(p)'
    BY <1>5, <1>6 DEF Busy
<1> QED
    BY <1>1, <1>2, <1>3, <1>5, <1>6, <1>7, AsideHeld

LEMMA IoctlHeld ==
    ASSUME QuietInv, Held, NEW p \in Procs, Ioctl(p)
    PROVE  Held'
<1>1. /\ proc[p] \in Run /\ proc \in [Procs -> Run]
      /\ At(p, "wait") /\ lock = {} /\ UNCHANGED <<shared, owner, value, rotor, asked>>
    BY DEF Ioctl, LockFree, pins, world, QuietInv, TypedInv, TypeOK
<1>2. \A q \in Procs : ~Busy(q)
    <2>1. \A q \in Procs : ~Driving(q)
        BY <1>1 DEF QuietInv, LockInv
    <2>2. \A q \in Procs : proc[q].at \notin {"select", "set", "sleep"}
        BY <1>1, HasPins, ExportedKeepsOut
    <2> QED
        BY <2>1, <2>2 DEF Busy, Driving, At
<1> DEFINE s == RunAxes(proc[p], "pan", "drive", "idle")
<1>3. proc' = [proc EXCEPT ![p] = s]
    BY DEF Ioctl, Goto
<1>4. "drive" \in Places /\ "idle" \in Places /\ "drive" \notin ToolPlaces /\ "idle" \notin ToolPlaces
    BY DEF Places, ToolPlaces
<1>5. OffInv' /\ SelectInv' /\ CoilsInv' /\ CountInv'
    BY <1>1, <1>2, <1>3, <1>4, BeginCounts
<1>6. s.at \in {"drive", "idle"}
    BY <1>1, <1>4, RunAxesPlace
<1> HIDE DEF s
<1>7. proc'[p] = s /\ \A q \in Procs : q # p => proc'[q] = proc[q]
    BY <1>1, <1>3
<1>8. CalmInv'
    BY <1>4, <1>6, <1>7, CalmKept
<1> QED
    BY <1>5, <1>8 DEF Held

LEMMA DriveHeld ==
    ASSUME QuietInv, EightInv, Held, ~disturbed, NEW p \in Procs, Drive(p)
    PROVE  Held'
<1> DEFINE mine == PinsOf(proc[p].axis)
<1>1. /\ proc[p].at = "drive" /\ Turning(p) /\ Busy(p) /\ ~shared
      /\ UNCHANGED shared /\ proc[p].axis \in Axes /\ proc[p].left \in Nat
    BY DEF Drive, At, Turning, Busy, EightInv, QuietInv, LockInv, Driving, TypedInv, TypeOK, Run
<1>2. value' = Lit(mine, Pattern(p))
    BY DEF Drive, Lit
<1>3. Pattern(p) \in SUBSET Coil
    BY <1>1, PatternType DEF Held, CountInv
<1>4. \A i \in Coil : value'[mine[i]] = IF i \in Pattern(p) THEN 1 ELSE 0
    BY <1>1, <1>2, <1>3, LitPins
<1>5. \A x \in ToSet(DriverPins) : value'[x] # 0 => \E i \in Coil : x = mine[i]
    <2>1. \A x \in ToSet(DriverPins) : x \in AllPins
        BY DEF AllPins
    <2>2. \A x \in AllPins : (\A i \in Coil : mine[i] # x) => value'[x] = value[x]
        BY <1>1, <1>2, <1>3, LitPins
    <2> QED
        BY <1>1, <2>1, <2>2, OnlyMine
<1>6. CASE proc[p].left > 0
    BY <1>1, <1>4, <1>5, <1>6, DelayHeld DEF Drive
<1>7. CASE proc[p].left = 0
    <2>1. Pattern(p) = {}
        BY <1>7 DEF Pattern
    <2>2. \A x \in ToSet(DriverPins) : value'[x] = 0
        BY <1>4, <1>5, <2>1
    <2>3. AxisDone(p, "drive", "idle") /\ UNCHANGED rotor
        BY <1>7 DEF Drive
    <2> QED
        BY <1>1, <1>7, <2>2, <2>3, AxisDoneHeld
<1> QED
    BY <1>1, <1>6, <1>7

LEMMA StepSteps == QuietInv /\ StepsInv /\ [Next]_vars => StepsInv'
<1> SUFFICES ASSUME QuietInv, StepsInv, [Next]_vars
             PROVE  StepsInv'
    OBVIOUS
<1>1. EightInv'
    <2>1. /\ shared' = shared
          /\ driver' = driver \/ driver' = "out" \/ ~shared
        BY DEF Next, Tool, Ctl, vars, kernel, Insmod, Request, Register, Rmmod, StartMotors,
               Export, Direction, SelectAxis, SetCoils, Sleep, Release, Unexport, Kill, StartCtl,
               Ioctl, Drive, StepsInv, EightInv
    <2> QED
        BY <2>1 DEF StepsInv, EightInv
<1>2. ASSUME ~disturbed' PROVE Held'
    <2>1. /\ ~disturbed
          /\ \A p \in Procs : ~Kill(p) /\ (StartMotors(p) => UNCHANGED proc \/ ToolRuns = {})
        <3>1. \A p \in Procs : ~Kill(p) /\ (StartMotors(p) => ~disturbed /\ (UNCHANGED proc \/ ToolRuns = {}))
            <4>1. \A p \in Procs : ~Kill(p)
                BY <1>2 DEF Kill
            <4>2. ASSUME NEW p \in Procs, StartMotors(p)
                  PROVE  (UNCHANGED proc /\ UNCHANGED disturbed) \/ disturbed' = (disturbed \/ ToolRuns # {})
                BY <4>2, Zenon DEF StartMotors
            <4> QED
                BY <1>2, <4>1, <4>2
        <3>2. disturbed' = disturbed \/ \E p \in Procs : StartMotors(p) \/ Kill(p)
            BY DEF Next, Tool, Ctl, vars, world, Insmod, Request, Register, Rmmod, Export, Direction,
                   SelectAxis, SetCoils, Sleep, Release, Unexport, StartCtl, Ioctl, Drive
        <3> QED
            BY <1>2, <3>1, <3>2
    <2>2. Held /\ EightInv
        BY <2>1 DEF StepsInv
    <2>3. CASE Insmod \/ Request \/ Register \/ Rmmod
        BY <2>2, <2>3, KernelHeld
    <2>4. ASSUME NEW p \in Procs, Tool(p) \/ Ctl(p) PROVE Held'
        <3>1. CASE StartMotors(p) \/ StartCtl(p)
            BY <2>1, <2>2, <3>1, StartHeld
        <3>2. CASE Export(p)
            BY <2>2, <3>2, ExportHeld
        <3>3. CASE Direction(p)
            BY <2>2, <3>3, DirectionHeld
        <3>4. CASE SelectAxis(p)
            BY <2>2, <3>4, SelectAxisHeld
        <3>5. CASE SetCoils(p)
            BY <2>1, <2>2, <3>5, SetCoilsHeld
        <3>6. CASE Sleep(p)
            BY <2>1, <2>2, <3>6, SleepHeld
        <3>9. CASE Release(p) \/ Unexport(p)
            BY <2>2, <3>9, CleanHeld
        <3>7. CASE Ioctl(p)
            BY <2>2, <3>7, IoctlHeld
        <3>8. CASE Drive(p)
            BY <2>1, <2>2, <3>8, DriveHeld
        <3> QED
            BY <2>1, <2>4, <3>1, <3>2, <3>3, <3>4, <3>5, <3>6, <3>7, <3>8, <3>9 DEF Tool, Ctl
    <2>5. CASE UNCHANGED vars
        <3>1. UNCHANGED <<shared, owner, value, proc, rotor, asked>>
            BY <2>5 DEF vars, pins, world
        <3> QED
            BY <2>2, <3>1, StillCounts DEF Held, CalmInv, ToolRuns
    <2> QED
        BY <2>3, <2>4, <2>5 DEF Next
<1> QED
    BY <1>1, <1>2 DEF StepsInv

LEMMA InitSteps == Init => StepsInv
<1> SUFFICES ASSUME Init PROVE StepsInv
    OBVIOUS
<1>1. \A p \in Procs : proc[p].at = "idle"
    BY DEF Init, Ended
<1>2. \A x \in ToSet(DriverPins) : value[x] = 0
    BY DEF Init, AllPins
<1>3. \A a \in Axes : Rests(a)
    BY DEF Init, Rests
<1> QED
    BY <1>1, <1>2, <1>3 DEF Init, StepsInv, EightInv, Held, CalmInv, ToolRuns, ToolPlaces,
        OffInv, SelectInv, CoilsInv, CountInv, Busy

\* Steps add up: as long as no two runs of gpio-motors overlap and none is killed,
\* however the callers of the driver do, an axis at rest stands where all the steps
\* asked for put it, or half a step before.
THEOREM StepsAreCounted == Spec => []StepsAddUp
<1>1. StepsInv => StepsAddUp
    <2> SUFFICES ASSUME StepsInv, ~disturbed, NEW a \in Axes, AtRest(a)
                 PROVE  Rests(a)
        BY DEF StepsAddUp, Rests
    <2>1. \A p \in Procs : ~Busy(p)
        BY DEF AtRest, Busy
    <2> QED
        BY <2>1 DEF StepsInv, Held, CountInv
<1>2. Spec => []QuietInv
    BY InitQuiet, StepQuiet, PTL DEF Spec
<1> QED
    BY <1>1, <1>2, InitSteps, StepSteps, PTL DEF Spec
=============================================================================
