------------------------------ MODULE W1Search ------------------------------
(***************************************************************************)
(* general/package/w1-ds18b20/src/w1-ds18b20.c: how ScanForSensor walks    *)
(* the tree of ROM codes with SearchSensor, one bit at a time, and reads   *)
(* every sensor it comes to, after main() has set the resolution and       *)
(* GlobalStartConversion has told the sensors to measure.                  *)
(*                                                                         *)
(* The bus is a wired AND: a read slot is low when one of the sensors that *)
(* still take part pulls it low.  Noise inverts a slot, for the process    *)
(* that reads it or for some of the sensors that hear it, hides the        *)
(* presence pulse or spoils a command or a scratchpad; it makes no slot    *)
(* more or less.  No sensor acknowledges a command.  A sensor's code ends  *)
(* in its check byte; what matters of it is that a code with one wrong bit *)
(* fails the check, and one parity bit does that for the short codes here. *)
(***************************************************************************)
EXTENDS Integers, Sequences, FiniteSets

CONSTANTS
    Width,     \* bits of a code; 64 in the code
    Buses,     \* what may hang on the bus: a set of sets of codes
    Mute,      \* codes of sensors whose scratchpad is never acceptable
    MaxRetry,  \* 10 in the code
    Asked,     \* values of ArgResolution: 0 for none, or 9 to 12
    Waits,     \* values of ArgWaitTime; 750 when not given
    MaxNoise   \* bound: how often noise strikes

Bits == 0..(Width - 1)
Code == [Bits -> {0, 1}]

\* CalcCRC of the code is its check byte.
ChecksOut(id) == Cardinality({b \in Bits : id[b] = 1}) % 2 = 0

ASSUME SearchAssumption ==
    /\ Width \in Nat \ {0} /\ MaxRetry \in Nat \ {0} /\ MaxNoise \in Nat
    /\ Asked \subseteq {0} \cup 9..12 /\ Waits \subseteq Nat
    /\ \A sensors \in Buses : \A c \in sensors : c \in Code /\ ChecksOut(c)

VARIABLES
    bus,     \* the sensors
    argScan, \* ArgScan: only list the codes
    pullUp,  \* there is a resistor
    asked,   \* ArgResolution
    wait,    \* ArgWaitTime
    bits,    \* of each sensor: its resolution
    writes,  \* calls of ChangeSensorsResolution to come
    fresh,   \* sensors whose measurement of this run has ended
    struck,  \* noise struck what the sensors were told last
    pc,      \* "pullup", "resolution", "convert" (GlobalStartConversion), "scan" (the
             \* loop of ScanForSensor), "search" or "done"
    ID, NextBit,  \* the search so far: committed
    id, last,     \* _ID and *LastBitChange of the search under way
    bit,     \* BitIndex
    on,      \* sensors that still take part in it
    retry,
    found,   \* what was printed
    noise

searchVars == <<id, last, bit, on>>
args == <<bus, argScan, pullUp, asked, wait>>
told == <<bits, writes, fresh, struck>>
vars == <<args, told, pc, ID, NextBit, searchVars, retry, found, noise>>

Ended == -1
Zero == [b \in Bits |-> 0]

Init ==
    /\ bus \in Buses /\ argScan \in BOOLEAN /\ pullUp \in BOOLEAN
    /\ asked \in Asked /\ wait \in Waits
    /\ \E b \in {9, 12} : bits = [s \in bus |-> b]
    /\ writes = 2 /\ fresh = {} /\ struck = FALSE
    /\ pc = "pullup"
    /\ ID = Zero /\ NextBit = Width
    /\ id = Zero /\ last = Ended /\ bit = 0 /\ on = {}
    /\ retry = 0 /\ found = <<>> /\ noise = 0

Again_Uncounted == retry' = retry  \* mutant: a failure does not count
Again == retry' = retry + 1

Strikes == noise < MaxNoise /\ noise' = noise + 1

\* The line is high in one of a hundred looks; without the resistor it never is.
PullUp ==
    /\ pc = "pullup"
    /\ pc' = IF ~pullUp THEN "done" ELSE IF asked > 0 THEN "resolution" ELSE "convert"
    /\ UNCHANGED <<args, told, ID, NextBit, searchVars, retry, found, noise>>

\* The switch of ChangeSensorsResolution.
Config_Fall(n) == 12  \* mutant: no break
Config(n) == IF n \in 9..11 THEN n ELSE 12

\* ChangeSensorsResolution, to every sensor at once and twice: nobody answers.  Those
\* that noise hits do not hear it, or hear something else.
ChangeResolution ==
    /\ pc = "resolution"
    /\ \/ /\ bits' = [s \in bus |-> Config(asked)]
          /\ struck' = FALSE /\ UNCHANGED noise
       \/ /\ Strikes /\ struck' = TRUE
          /\ \E hit \in SUBSET bus, b \in 9..12 :
                bits' \in {[s \in bus |-> IF s \notin hit THEN Config(asked) ELSE b],
                           [s \in bus |-> IF s \notin hit THEN Config(asked) ELSE bits[s]]}
    /\ writes' = writes - 1
    /\ pc' = IF writes = 1 THEN "convert" ELSE pc
    /\ UNCHANGED <<args, fresh, ID, NextBit, searchVars, retry, found>>

\* What a measurement takes, in milliseconds.
Takes(b) == CASE b = 9 -> 94 [] b = 10 -> 188 [] b = 11 -> 375 [] b = 12 -> 750

\* GlobalStartConversion: a reset that somebody answers, or ten that nobody does;
\* then all of them measure, or those that heard it, for ArgWaitTime.
Convert ==
    /\ pc = "convert" /\ retry < MaxRetry /\ bus # {}
    /\ \E heard \in SUBSET bus :
          /\ IF heard = bus THEN UNCHANGED <<struck, noise>> ELSE Strikes /\ struck' = TRUE
          /\ fresh' = {s \in heard : Takes(bits[s]) <= wait}
    /\ pc' = "scan" /\ retry' = 0
    /\ UNCHANGED <<args, bits, writes, ID, NextBit, searchVars, found>>

\* DoReset sees no presence pulse.
Unseen == IF bus = {} THEN UNCHANGED noise ELSE Strikes

ConvertFails ==
    /\ pc = "convert" /\ retry < MaxRetry
    /\ Unseen /\ Again
    /\ UNCHANGED <<args, told, pc, ID, NextBit, searchVars, found>>

GivesUp ==
    /\ pc = "convert" /\ retry >= MaxRetry
    /\ pc' = "done"
    /\ UNCHANGED <<args, told, ID, NextBit, searchVars, retry, found, noise>>

\* The bit of the last choice becomes 1, the bits after it 0.
Advance_Keep(code, n) == IF n < Width THEN [code EXCEPT ![n] = 1] ELSE code  \* mutant: they stay
Advance(code, n) ==
    [b \in Bits |-> IF b < n \/ n = Width THEN code[b] ELSE IF b = n THEN 1 ELSE 0]

\* *LastBitChange as the loop begins.
LastAtStart == Ended

\* SearchSensor up to its loop: DoReset found somebody, and those that understand
\* SEARCH_ROM take part.  The others wait for the next reset.
Start ==
    /\ pc = "scan" /\ retry < MaxRetry /\ NextBit # Ended
    /\ id' = Advance(ID, NextBit) /\ last' = LastAtStart
    /\ bit' = 0 /\ on' \in SUBSET bus
    /\ IF on' = bus THEN UNCHANGED noise ELSE Strikes
    /\ pc' = "search"
    /\ UNCHANGED <<args, told, ID, NextBit, retry, found>>

ResetFails ==
    /\ pc = "scan" /\ retry < MaxRetry /\ NextBit # Ended
    /\ Unseen /\ Again
    /\ UNCHANGED <<args, told, pc, ID, NextBit, searchVars, found>>

\* Ten retries, or SearchSensor returns 0: nothing is left.
ScanEnds ==
    /\ pc = "scan" /\ (retry >= MaxRetry \/ NextBit = Ended)
    /\ pc' = "done"
    /\ UNCHANGED <<args, told, ID, NextBit, searchVars, retry, found, noise>>

\* The two read slots of a bit, the bit and its complement (NoBit and Bit in the
\* code): a slot is low when somebody has a 0 to send.
Low(v) == IF \E s \in on : s[bit] = v THEN 0 ELSE 1
Slots == <<Low(0), Low(1)>>
\* What a turn of the loop may read, and who hears the bit it writes wrong.
ReadSlots(r, hit) ==
    \/ r = Slots /\ hit = {} /\ UNCHANGED noise
    \/ Strikes /\ hit = {} /\ \E k \in 1..2 : r = [Slots EXCEPT ![k] = 1 - @]
    \/ Strikes /\ hit # {} /\ r = Slots

\* WriteBit(v): those with another bit drop out.
WriteBit(v, hit) ==
    /\ on' = {s \in on : s[bit] = v <=> s \notin hit}
    /\ bit' = bit + 1

\* Sensors differ: the way of this search, and a low turn is remembered.
Choose ==
    /\ pc = "search" /\ bit < Width
    /\ \E hit \in SUBSET on : ReadSlots(<<0, 0>>, hit) /\ WriteBit(id[bit], hit)
    /\ last' = IF id[bit] = 0 THEN bit ELSE last
    /\ UNCHANGED <<args, told, pc, ID, NextBit, id, retry, found>>

\* They agree.
Follow ==
    /\ pc = "search" /\ bit < Width
    /\ \E v \in {0, 1}, hit \in SUBSET on :
          /\ ReadSlots(<<v, 1 - v>>, hit)
          /\ WriteBit(v, hit)
          /\ id' = [id EXCEPT ![bit] = v]
    /\ UNCHANGED <<args, told, pc, ID, NextBit, last, retry, found>>

\* Nobody answers: SearchSensor returns -2.
Lost ==
    /\ pc = "search" /\ bit < Width
    /\ ReadSlots(<<1, 1>>, {})
    /\ Again /\ pc' = "scan"
    /\ UNCHANGED <<args, told, ID, NextBit, searchVars, found>>

-----------------------------------------------------------------------------
(* ScanForSensor with a code in hand *)

CheckPasses_Any == TRUE  \* mutant: the check is not made
CheckPasses == ChecksOut(id)

Whole == pc = "search" /\ bit = Width

CheckFails ==
    /\ Whole /\ ~CheckPasses
    /\ Again /\ pc' = "scan"
    /\ UNCHANGED <<args, told, ID, NextBit, searchVars, found, noise>>

Commit == ID' = id /\ NextBit' = last /\ found' = Append(found, id) /\ pc' = "scan"

\* -s: the code is printed.
List ==
    /\ Whole /\ CheckPasses /\ argScan
    /\ Commit
    /\ UNCHANGED <<args, told, searchVars, retry, noise>>

\* ReadSensor prints the code with its temperature.
ReadSensor ==
    /\ Whole /\ CheckPasses /\ ~argScan
    /\ id \in bus \ Mute
    /\ Commit /\ retry' = 0
    /\ UNCHANGED <<args, told, searchVars, noise>>

\* Ten tries in ReadSensor and no good scratchpad: the same search again, for ever
\* if need be.
ReadSensorFails ==
    /\ Whole /\ CheckPasses /\ ~argScan
    /\ IF id \in bus \ Mute THEN Strikes ELSE UNCHANGED noise
    /\ retry' = 0 /\ pc' = "scan"
    /\ UNCHANGED <<args, told, ID, NextBit, searchVars, found>>

Next ==
    \/ PullUp \/ ChangeResolution
    \/ Convert \/ ConvertFails \/ GivesUp \/ Start \/ ResetFails \/ ScanEnds \/ Choose \/ Follow \/ Lost
    \/ CheckFails \/ List \/ ReadSensor \/ ReadSensorFails

\* One process, which runs until it is done.
Spec == Init /\ [][Next]_vars /\ WF_vars(Next)

-----------------------------------------------------------------------------
(* Properties *)

TypeOK ==
    /\ bus \in Buses /\ argScan \in BOOLEAN /\ pullUp \in BOOLEAN
    /\ asked \in Asked /\ wait \in Waits
    /\ bits \in [bus -> 9..12] /\ writes \in 0..2 /\ fresh \subseteq bus /\ struck \in BOOLEAN
    /\ pc \in {"pullup", "resolution", "convert", "scan", "search", "done"}
    /\ ID \in Code /\ id \in Code
    /\ NextBit \in -1..Width /\ last \in -1..(Width - 1)
    /\ bit \in 0..Width /\ on \subseteq bus
    /\ retry \in 0..MaxRetry /\ noise \in 0..MaxNoise
    /\ found \in Seq(Code)

\* Wherever one noise event strikes a search (reset, command, a slot that is read or
\* written), a code that is printed is that of a sensor.
FoundAreReal == \A i \in DOMAIN found : found[i] \in bus

\* Codes in the order of the search: the first bit where they differ decides.
Before(a, b) == \E k \in Bits : a[k] < b[k] /\ \A j \in 0..(k - 1) : a[j] = b[j]

\* Without noise the search finds every sensor, each one once, in their order.
Readable == pullUp /\ (argScan \/ bus \cap Mute = {})
FindsAll ==
    noise = 0 =>
        /\ \A i, j \in DOMAIN found : i < j => Before(found[i], found[j])
        /\ pc = "done" /\ Readable => \A s \in bus : \E i \in DOMAIN found : found[i] = s

\* A reading that is printed was measured in this run, at the resolution asked for
\* (or whatever the sensor had), when -t leaves time for that.  The second write
\* makes up for a first one that sensors missed.
ReadingsAreFresh ==
    (~argScan /\ ~struck /\ wait >= Takes(IF asked = 0 THEN 12 ELSE asked)) =>
        \A i \in DOMAIN found : found[i] \in fresh /\ (asked # 0 => bits[found[i]] = asked)

\* The search ends: it does not go round in the tree, wherever noise meets it.  (A
\* sensor that can be found and never be read keeps it going for ever.)
Ends == Readable \/ ~pullUp ~> pc = "done"
=============================================================================
