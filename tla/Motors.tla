-------------------------------- MODULE Motors --------------------------------
(***************************************************************************)
(* Pan and tilt, two programs over the same eight (or five) GPIO pins:     *)
(* general/package/gpio-motors/src/gpio-motors.c, which drives them through*)
(* /sys/class/gpio, a file opened, written and closed for every pin, and   *)
(* general/package/gpiostep-openipc/src: the driver gpiostep.c, which      *)
(* requests the pins for itself, and gpiostep-ctl.c.                       *)
(*                                                                         *)
(* The rotor of an axis is counted in half steps.  While the pins of a     *)
(* phase stay on it turns to the nearest position of that phase; between   *)
(* the writes that make a phase, or switch it off, it has no time to move. *)
(***************************************************************************)
EXTENDS Integers, Sequences, SequencesExt

CONSTANTS
    Procs,     \* invocations of gpio-motors or gpiostep-ctl that can overlap
    Pan, Tilt, \* the pins of each axis, sequences of four
    Select,    \* the fifth pin, of cameras whose axes share the first four
    Moves,     \* what is asked for, a set of records [pan, tilt]; this and the next
               \* two of a camera with eight pins and of one with five
    Beside,    \* bound: what is asked of a run of gpio-motors that overlaps another
    MaxRuns,   \* bound: invocations
    MaxFaults  \* bound: invocations killed and misc_register failing

Axes == {"pan", "tilt"}
Coil == 1..4
DriverPins == <<Pan[1], Pan[2], Pan[3], Pan[4], Tilt[1], Tilt[2], Tilt[3], Tilt[4]>>

ASSUME PinsAssumption ==
    /\ Pan \in [Coil -> Int] /\ Tilt \in [Coil -> Int]
    /\ IsInjective(DriverPins) /\ Select \notin ToSet(DriverPins)
ASSUME MovesAssumption == {Moves, Beside} \subseteq [BOOLEAN -> SUBSET [Axes -> Int]]
ASSUME BoundsAssumption == MaxRuns \in [BOOLEAN -> Nat] /\ MaxFaults \in Nat

VARIABLES
    shared,  \* gpio_motors in the environment has five pins, not eight
    owner,   \* of each pin: "free", "sysfs" (exported) or "driver"
    value,   \* of each pin
    driver,  \* gpiostep: "out", "request" or "in"
    asking,  \* the pin its init requests next
    lock,    \* the holders of gpiostep_lock
    proc,    \* the invocations
    rotor,   \* of each axis: where it is
    asked,   \* of each axis: the steps of all moves that were made
    disturbed, \* runs of gpio-motors overlapped or were killed
    runs, faults

pins == <<owner, value>>
kernel == <<driver, asking, lock>>
world == <<rotor, asked, disturbed>>
vars == <<shared, pins, kernel, proc, world, runs, faults>>

AllPins == ToSet(DriverPins) \cup {Select}
PinsOf(a) == IF a = "pan" \/ shared THEN Pan ELSE Tilt

\* at: where it is; move: its arguments; axis, left, micro: axis_run's; k: the index
\* of its loop over pins; error: gpio_clean's argument; alone: no other run of
\* gpio-motors since it started.
Ended ==
    [at |-> "idle", move |-> [a \in Axes |-> 0], axis |-> "pan", left |-> 0,
     micro |-> 1, k |-> 1, error |-> FALSE, alone |-> TRUE]

Abs(n) == IF n < 0 THEN -n ELSE n

-----------------------------------------------------------------------------
(* Phases: the coils that are on *)

STEP_SEQUENCE == <<{1}, {1, 2}, {2}, {2, 3}, {3}, {3, 4}, {4}, {1, 4}>>
REVERSE_STEP_SEQUENCE == Reverse(STEP_SEQUENCE)

\* seq[micro]; after the last phase everything is off.
Pattern(p) ==
    LET r == proc[p]
    IN  IF r.left = 0 THEN {}
        ELSE IF r.move[r.axis] < 0 THEN REVERSE_STEP_SEQUENCE[r.micro]
        ELSE STEP_SEQUENCE[r.micro]

\* The coils of an axis that are on; the fifth pin says whose the others are.
Level(a) == IF a = "pan" THEN 0 ELSE 1
Field(a, v) ==
    IF shared /\ v[Select] # Level(a) THEN {} ELSE {k \in Coil : v[PinsOf(a)[k]] = 1}

\* A rotor in a field: to the nearest position of that phase, unless there is none
\* or it is the opposite one.  After a disturbance it is not followed any more.
Turn(r, field) ==
    IF \E n \in 1..8 : STEP_SEQUENCE[n] = field
    THEN LET n == CHOOSE m \in 1..8 : STEP_SEQUENCE[m] = field
             d == (n - 1 - r) % 8
         IN  IF d < 4 THEN r + d ELSE IF d > 4 THEN r - (8 - d) ELSE r
    ELSE r

-----------------------------------------------------------------------------
Init ==
    /\ shared \in BOOLEAN
    /\ owner = [x \in AllPins |-> "free"] /\ value = [x \in AllPins |-> 0]
    /\ driver = "out" /\ asking = 1 /\ lock = {}
    /\ proc = [p \in Procs |-> Ended]
    /\ rotor = [a \in Axes |-> 0] /\ asked = [a \in Axes |-> 0] /\ disturbed = FALSE
    /\ runs = 0 /\ faults = 0

At(p, place) == proc[p].at = place
Goto(p, r) == proc' = [proc EXCEPT ![p] = r]

ToolPlaces == {"export", "direction", "select", "set", "sleep", "clean", "unexport"}
ToolRuns == {p \in Procs : proc[p].at \in ToolPlaces}

\* The calls of axis_run: the first axis from `a` on with steps to make, then `then`.
RunAxes(r, a, first, then) ==
    LET Begin(b) == [r EXCEPT !.at = first, !.axis = b, !.left = Abs(r.move[b]),
                               !.micro = 1, !.k = 1]
    IN  IF a = "pan" /\ r.move["pan"] # 0 THEN Begin("pan")
        ELSE IF a # "none" /\ r.move["tilt"] # 0 THEN Begin("tilt")
        ELSE [Ended EXCEPT !.at = then, !.alone = r.alone]

\* The delay of a phase: the rotors turn to the field of the pins v.
Delay(p, next, v) ==
    LET r == proc[p]
        more == IF r.micro < 8 THEN [r EXCEPT !.micro = @ + 1]
                ELSE [r EXCEPT !.micro = 1, !.left = @ - 1]
    IN  /\ Goto(p, [more EXCEPT !.at = next, !.k = 1])
        /\ rotor' = IF disturbed THEN rotor ELSE [a \in Axes |-> Turn(rotor[a], Field(a, v))]

\* The pins are off: the end of axis_run.
AxisDone(p, first, then) ==
    LET r == proc[p]
    IN  /\ Goto(p, RunAxes(r, IF r.axis = "pan" THEN "tilt" ELSE "none", first, then))
        /\ asked' = IF disturbed THEN asked ELSE [asked EXCEPT ![r.axis] = @ + r.move[r.axis]]

-----------------------------------------------------------------------------
(* gpio-motors *)

\* The order of the loops over PAN_PINS[i] and TILT_PINS[i].
Order ==
    IF shared
    THEN <<Pan[1], Pan[1], Pan[2], Pan[2], Pan[3], Pan[3], Pan[4], Pan[4], Select>>
    ELSE <<Pan[1], Tilt[1], Pan[2], Tilt[2], Pan[3], Tilt[3], Pan[4], Tilt[4]>>
CleanOrder_Pan == Pan  \* mutant: only the first axis is released
CleanOrder == Order

\* gpio_config may end the run: the variable is not set, or lists neither 5 nor 8 pins.
StartMotors(p) ==
    /\ At(p, "idle") /\ runs < MaxRuns[shared]
    /\ runs' = runs + 1
    /\ \/ UNCHANGED <<proc, disturbed>>
       \/ /\ \E m \in IF ToolRuns = {} THEN Moves[shared] ELSE Beside[shared] :
                proc' = [q \in Procs |->
                    IF q = p
                    THEN [Ended EXCEPT !.at = "export", !.move = m, !.alone = ToolRuns = {}]
                    ELSE IF q \in ToolRuns THEN [proc[q] EXCEPT !.alone = FALSE]
                    ELSE proc[q]]
          /\ disturbed' = (disturbed \/ ToolRuns # {})
    /\ UNCHANGED <<shared, pins, kernel, rotor, asked, faults>>

\* gpio_clean(1)
Fails(p) == Goto(p, [proc[p] EXCEPT !.at = "clean", !.k = 1, !.error = TRUE])

\* gpio_export: a pin that is taken already is no error here.
Export(p) ==
    /\ At(p, "export")
    /\ owner' = [owner EXCEPT ![Order[proc[p].k]] = IF @ = "free" THEN "sysfs" ELSE @]
    /\ Goto(p, [proc[p] EXCEPT !.at = "direction"])
    /\ UNCHANGED <<shared, value, kernel, world, runs, faults>>

\* An output starts low.  After the last pin, axis_run.
Direction(p) ==
    /\ At(p, "direction")
    /\ LET x == Order[proc[p].k]
       IN  IF owner[x] # "sysfs" THEN Fails(p) /\ UNCHANGED value
           ELSE /\ value' = [value EXCEPT ![x] = 0]
                /\ IF proc[p].k < Len(Order)
                   THEN Goto(p, [proc[p] EXCEPT !.at = "export", !.k = @ + 1])
                   ELSE Goto(p, RunAxes(proc[p], "pan", "select", "clean"))
    /\ UNCHANGED <<shared, owner, kernel, world, runs, faults>>

\* gpio_set: the pin may have been unexported by another run.
Exported(x) == owner[x] = "sysfs"

SelectAxis(p) ==
    /\ At(p, "select")
    /\ LET r == [proc[p] EXCEPT !.at = "set"]
       IN  IF shared /\ ~Exported(Select) THEN Fails(p) /\ UNCHANGED value
           ELSE /\ Goto(p, r)
                /\ value' = IF shared THEN [value EXCEPT ![Select] = Level(r.axis)] ELSE value
    /\ UNCHANGED <<shared, owner, kernel, world, runs, faults>>

\* One of the four gpio_set of a phase, or of the four at the end of the axis.
SetCoils(p) ==
    /\ At(p, "set")
    /\ LET r == proc[p]
           x == PinsOf(r.axis)[r.k]
       IN  IF ~Exported(x) THEN Fails(p) /\ UNCHANGED <<value, asked>>
           ELSE /\ value' = [value EXCEPT ![x] = IF r.k \in Pattern(p) THEN 1 ELSE 0]
                /\ IF r.k < 4 THEN Goto(p, [r EXCEPT !.k = @ + 1]) /\ UNCHANGED asked
                   ELSE IF r.left > 0 THEN Goto(p, [r EXCEPT !.at = "sleep"]) /\ UNCHANGED asked
                   ELSE AxisDone(p, "select", "clean")
    /\ UNCHANGED <<shared, owner, kernel, rotor, disturbed, runs, faults>>

\* usleep(delay), and the loop's counting.
Sleep(p) ==
    /\ At(p, "sleep")
    /\ Delay(p, "set", value)
    /\ UNCHANGED <<shared, pins, kernel, asked, disturbed, runs, faults>>

\* gpio_release: 0 to the value of a pin that is exported, ...
Release(p) ==
    /\ At(p, "clean")
    /\ LET x == CleanOrder[proc[p].k]
       IN  value' = IF Exported(x) THEN [value EXCEPT ![x] = 0] ELSE value
    /\ Goto(p, [proc[p] EXCEPT !.at = "unexport"])
    /\ UNCHANGED <<shared, owner, kernel, world, runs, faults>>

\* ... and then unexport, which leaves the value as it is by now.
Unexport(p) ==
    /\ At(p, "unexport")
    /\ LET x == CleanOrder[proc[p].k]
       IN  owner' = IF Exported(x) THEN [owner EXCEPT ![x] = "free"] ELSE owner
    /\ Goto(p, IF proc[p].k < Len(CleanOrder) THEN [proc[p] EXCEPT !.at = "clean", !.k = @ + 1]
               ELSE Ended)
    /\ UNCHANGED <<shared, value, kernel, world, runs, faults>>

\* There is no handler for any signal: pins stay exported, coils on.
Kill(p) ==
    /\ p \in ToolRuns /\ faults < MaxFaults
    /\ faults' = faults + 1 /\ disturbed' = TRUE
    /\ Goto(p, Ended)
    /\ UNCHANGED <<shared, pins, kernel, rotor, asked, runs>>

-----------------------------------------------------------------------------
(* gpiostep and gpiostep-ctl, on cameras with eight pins *)

Free(o) == [x \in AllPins |-> IF o[x] = "driver" THEN "free" ELSE o[x]]

\* gpiostep_init with both parameters; without them it refuses, the defaults
\* notwithstanding.
Insmod ==
    /\ driver = "out" /\ ~shared
    /\ driver' = "request" /\ asking' = 1
    /\ UNCHANGED <<shared, pins, lock, proc, world, runs, faults>>

\* request_coil, twice, and misc_register; what was requested is freed if one fails.
Unwind_Last(o) == [Free(o) EXCEPT ![Pan[1]] = o[Pan[1]]]  \* mutant: all but the first
Unwind(o) == Free(o)

Request ==
    /\ driver = "request" /\ asking <= 8
    /\ LET x == DriverPins[asking]
       IN  IF owner[x] = "free"
           THEN /\ owner' = [owner EXCEPT ![x] = "driver"]
                /\ value' = [value EXCEPT ![x] = 0]
                /\ asking' = asking + 1 /\ UNCHANGED driver
           ELSE /\ owner' = Unwind(owner) /\ driver' = "out"
                /\ asking' = 1 /\ UNCHANGED value
    /\ UNCHANGED <<shared, lock, proc, world, runs, faults>>

Register ==
    /\ driver = "request" /\ asking = 9
    /\ asking' = 1
    /\ \/ driver' = "in" /\ UNCHANGED <<owner, faults>>
       \/ /\ faults < MaxFaults /\ faults' = faults + 1
          /\ driver' = "out" /\ owner' = Unwind(owner)
    /\ UNCHANGED <<shared, value, lock, proc, world, runs>>

\* Nobody has the device open.
Rmmod ==
    /\ driver = "in" /\ \A p \in Procs : proc[p].at \notin {"wait", "drive"}
    /\ driver' = "out" /\ owner' = Free(owner)
    /\ UNCHANGED <<shared, value, asking, lock, proc, world, runs, faults>>

\* gpiostep-ctl: open fails without the driver.
StartCtl(p) ==
    /\ At(p, "idle") /\ runs < MaxRuns[shared] /\ driver = "in"
    /\ \E m \in Moves[shared] : Goto(p, [Ended EXCEPT !.at = "wait", !.move = m])
    /\ runs' = runs + 1
    /\ UNCHANGED <<shared, pins, kernel, world, faults>>

LockFree_Any == TRUE  \* mutant: no mutex
LockFree == lock = {}

Ioctl(p) ==
    /\ At(p, "wait") /\ LockFree
    /\ LET r == RunAxes(proc[p], "pan", "drive", "idle")
       IN  /\ Goto(p, r)
           /\ lock' = IF r.at = "idle" THEN lock ELSE lock \cup {p}
    /\ UNCHANGED <<shared, pins, driver, asking, world, runs, faults>>

\* A phase of axis_run and its delay, or the end of the axis: nobody else can set
\* these pins.  At the end of the last axis, mutex_unlock.
Drive(p) ==
    /\ At(p, "drive")
    /\ LET mine == PinsOf(proc[p].axis)
       IN  value' = [x \in AllPins |->
               IF x \in ToSet(mine) THEN (IF \E k \in Pattern(p) : mine[k] = x THEN 1 ELSE 0)
               ELSE value[x]]
    /\ IF proc[p].left > 0 THEN Delay(p, "drive", value') /\ UNCHANGED asked
       ELSE AxisDone(p, "drive", "idle") /\ UNCHANGED rotor
    /\ lock' = IF proc'[p].at = "idle" THEN lock \ {p} ELSE lock
    /\ UNCHANGED <<shared, owner, driver, asking, disturbed, runs, faults>>

-----------------------------------------------------------------------------
Tool(p) ==
    \/ StartMotors(p) \/ Export(p) \/ Direction(p) \/ SelectAxis(p) \/ SetCoils(p)
    \/ Sleep(p) \/ Release(p) \/ Unexport(p) \/ Kill(p)
Ctl(p) == StartCtl(p) \/ Ioctl(p) \/ Drive(p)

Next == Insmod \/ Request \/ Register \/ Rmmod \/ \E p \in Procs : Tool(p) \/ Ctl(p)

Spec == Init /\ [][Next]_vars

-----------------------------------------------------------------------------
(* Properties *)

Places == {"idle", "wait", "drive"} \cup ToolPlaces
Run ==
    [at : Places, move : [Axes -> Int], axis : Axes, left : Nat, micro : 1..8, k : 1..9,
     error : BOOLEAN, alone : BOOLEAN]

TypeOK ==
    /\ shared \in BOOLEAN
    /\ owner \in [AllPins -> {"free", "sysfs", "driver"}]
    /\ value \in [AllPins -> {0, 1}]
    /\ driver \in {"out", "request", "in"} /\ asking \in 1..9
    /\ lock \subseteq Procs
    /\ proc \in [Procs -> Run]
    /\ rotor \in [Axes -> Int] /\ asked \in [Axes -> Int]
    /\ disturbed \in BOOLEAN /\ runs \in 0..MaxRuns[shared] /\ faults \in 0..MaxFaults

\* Steps add up.  As long as no two runs of gpio-motors overlap, and however the
\* callers of the driver do, an axis at rest stands where the sum of all the steps
\* asked for puts it, or half a step before: a change of direction costs half a
\* step and the change back returns it.
AtRest(a) == \A p \in Procs : proc[p].at \in {"idle", "wait"}
StepsAddUp ==
    ~disturbed => \A a \in Axes : AtRest(a) => rotor[a] - 8 * asked[a] \in {-1, 0}

\* A run of gpio-motors that has the pins to itself leaves none of them exported and,
\* unless the driver kept it from some, every coil off: whatever the runs before it
\* that were killed or overlapped have left, pins exported with a coil on, or a coil
\* that another run switched on between the two steps of gpio_release and that is
\* nobody's now.
Ends(p) == At(p, "unexport") /\ proc'[p].at = "idle" /\ faults' = faults
LeavesQuiet ==
    [][\A p \in Procs : Ends(p) /\ proc[p].alone =>
          \A x \in ToSet(Order) :
              /\ owner'[x] # "sysfs"
              /\ ~proc[p].error /\ owner'[x] = "free" => value'[x] = 0]_vars

\* The driver has all of its pins or none, also when another program has exported
\* some of them while it was loading.
AllOrNone ==
    /\ driver = "out" => \A x \in AllPins : owner[x] # "driver"
    /\ driver = "in" => \A x \in ToSet(DriverPins) : owner[x] = "driver"
=============================================================================
