--------------------------- MODULE W1SearchProofs ---------------------------
(***************************************************************************)
(* Theorems about W1Search, for codes of any width, any sensors on the bus *)
(* and any number of retries.                                              *)
(***************************************************************************)
EXTENDS W1Search, FiniteSetTheorems, WellFoundedInduction, TLAPS

(***************************************************************************)
(* Types                                                                   *)
(***************************************************************************)
ArgsType ==
    /\ bus \in Buses /\ argScan \in BOOLEAN /\ pullUp \in BOOLEAN
    /\ asked \in Asked /\ wait \in Waits

ToldType ==
    /\ bits \in [bus -> 9..12] /\ writes \in 0..2 /\ fresh \subseteq bus /\ struck \in BOOLEAN
    /\ pc = "pullup" => writes = 2
    /\ pc = "resolution" => writes \in 1..2

SearchType ==
    /\ pc \in {"pullup", "resolution", "convert", "scan", "search", "done"}
    /\ ID \in Code /\ id \in Code
    /\ NextBit \in -1..Width /\ last \in -1..(Width - 1)
    /\ bit \in 0..Width /\ on \subseteq bus
    /\ retry \in 0..MaxRetry /\ noise \in 0..MaxNoise
    /\ pc = "search" => retry < MaxRetry
    /\ found \in Seq(Code)

TypeInv == ArgsType /\ ToldType /\ SearchType

LEMMA InitTypes == Init => TypeInv
<1> SUFFICES ASSUME Init PROVE TypeInv
    OBVIOUS
<1>1. Zero \in Code
    BY DEF Zero, Code
<1>2. bits \in [bus -> 9..12]
    BY DEF Init
<1>3. ArgsType
    BY DEF Init, ArgsType
<1>4. ToldType
    <2>1. writes = 2 /\ fresh = {} /\ struck = FALSE /\ pc = "pullup"
        BY DEF Init
    <2>2. writes \in 0..2 /\ writes \in 1..2
        BY <2>1
    <2>3. fresh \subseteq bus /\ struck \in BOOLEAN
        BY <2>1
    <2> QED
        BY <1>2, <2>1, <2>2, <2>3, Zenon DEF ToldType
<1>5. SearchType
    BY <1>1, SearchAssumption DEF Init, SearchType, Ended
<1> QED
    BY <1>3, <1>4, <1>5 DEF TypeInv

LEMMA AdvanceType ==
    ASSUME NEW c \in Code, NEW n \in -1..Width
    PROVE  Advance(c, n) \in Code
<1>1. \A b \in Bits : (IF b < n \/ n = Width THEN c[b] ELSE IF b = n THEN 1 ELSE 0) \in {0, 1}
    BY DEF Code
<1> QED
    BY <1>1 DEF Advance, Code

LEMMA ReadSlotsNoise ==
    ASSUME SearchType, NEW r, NEW hit, ReadSlots(r, hit)
    PROVE  /\ noise' \in 0..MaxNoise /\ (noise' = 0 => noise = 0)
           /\ \/ r = Slots /\ hit = {} /\ noise' = noise
              \/ noise < MaxNoise /\ noise' = noise + 1
BY SearchAssumption DEF ReadSlots, Strikes, SearchType

\* The steps of main() and of the scan before a search begins or after it ended.
LEMMA StepTypes == TypeInv /\ [Next]_vars => TypeInv'
<1> SUFFICES ASSUME TypeInv, [Next]_vars PROVE TypeInv'
    OBVIOUS
<1> USE SearchAssumption DEF TypeInv
<1>1. ASSUME UNCHANGED <<ID, NextBit, searchVars, found>>, bus' = bus,
             pc' \in {"pullup", "resolution", "convert", "scan", "done"},
             retry' \in 0..MaxRetry, noise' \in 0..MaxNoise
      PROVE  SearchType'
    BY <1>1 DEF SearchType, searchVars
<1>2. ASSUME UNCHANGED told, bus' = bus, pc' \notin {"pullup", "resolution"} PROVE ToldType'
    BY <1>2 DEF ToldType, told
<1>3. ASSUME UNCHANGED args PROVE ArgsType'
    BY <1>3 DEF ArgsType, args
<1>4. \A r : noise < MaxNoise => noise + 1 \in 0..MaxNoise
    BY DEF SearchType
<1>5. retry < MaxRetry => retry + 1 \in 0..MaxRetry
    BY DEF SearchType
<1>6. CASE PullUp
    <2>1. /\ UNCHANGED <<args, told, ID, NextBit, searchVars, retry, found, noise>>
          /\ pc = "pullup" /\ pc' \in {"done", "resolution", "convert"}
        BY <1>6 DEF PullUp
    <2>2. ToldType'
        BY <2>1 DEF ToldType, told, args
    <2>3. retry' \in 0..MaxRetry /\ noise' \in 0..MaxNoise /\ bus' = bus
        BY <2>1 DEF SearchType, args
    <2> QED
        BY <1>1, <1>3, <2>1, <2>2, <2>3
<1>7. CASE ChangeResolution
    <2>1. /\ UNCHANGED <<args, fresh, ID, NextBit, searchVars, retry, found>>
          /\ pc = "resolution" /\ writes' = writes - 1
          /\ pc' = IF writes = 1 THEN "convert" ELSE pc
        BY <1>7 DEF ChangeResolution
    <2>2. bits' \in [bus -> 9..12] /\ struck' \in BOOLEAN /\ noise' \in 0..MaxNoise
        <3>1. Config(asked) \in 9..12
            BY DEF Config
        <3>2. CASE bits' = [s \in bus |-> Config(asked)] /\ struck' = FALSE /\ UNCHANGED noise
            BY <3>1, <3>2 DEF SearchType
        <3>3. CASE /\ Strikes /\ struck' = TRUE
                   /\ \E hit \in SUBSET bus, b \in 9..12 :
                          bits' \in {[s \in bus |-> IF s \notin hit THEN Config(asked) ELSE b],
                                     [s \in bus |-> IF s \notin hit THEN Config(asked) ELSE bits[s]]}
            <4>1. noise' \in 0..MaxNoise
                BY <1>4, <3>3 DEF Strikes
            <4>2. bits \in [bus -> 9..12]
                BY DEF ToldType
            <4> QED
                BY <3>1, <3>3, <4>1, <4>2
        <3> QED
            BY <1>7, <3>2, <3>3 DEF ChangeResolution
    <2>3. ToldType'
        BY <2>1, <2>2 DEF ToldType, args
    <2>4. retry' \in 0..MaxRetry /\ bus' = bus
        BY <2>1 DEF SearchType, args
    <2> QED
        BY <1>1, <1>3, <2>1, <2>2, <2>3, <2>4
<1>8. CASE Convert
    <2>1. /\ UNCHANGED <<args, bits, writes, ID, NextBit, searchVars, found>>
          /\ pc' = "scan" /\ retry' = 0
        BY <1>8 DEF Convert
    <2>2. fresh' \subseteq bus /\ struck' \in BOOLEAN /\ noise' \in 0..MaxNoise
        BY <1>8, <1>4 DEF Convert, Strikes, ToldType, SearchType
    <2>3. ToldType' /\ bus' = bus
        BY <2>1, <2>2 DEF ToldType, args
    <2> QED
        BY <1>1, <1>3, <2>1, <2>2, <2>3
<1>9. CASE ConvertFails \/ GivesUp \/ ResetFails \/ ScanEnds \/ Lost \/ CheckFails
    <2>1. /\ UNCHANGED <<args, told, ID, NextBit, searchVars, found>>
          /\ pc' \in {"convert", "done", "scan"}
        BY <1>9 DEF ConvertFails, GivesUp, ResetFails, ScanEnds, Lost, CheckFails
    <2>2. noise' \in 0..MaxNoise
        BY <1>9, <1>4, ReadSlotsNoise
           DEF ConvertFails, GivesUp, ResetFails, ScanEnds, Lost, CheckFails, Unseen, Strikes, SearchType
    <2>3. retry' \in 0..MaxRetry
        <3>1. CASE (ConvertFails \/ ResetFails) /\ Again
            BY <3>1, <1>5 DEF ConvertFails, ResetFails, Again
        <3>2. CASE (Lost \/ CheckFails) /\ Again
            BY <3>2, <1>5 DEF Lost, CheckFails, Again, SearchType, Whole
        <3>3. CASE (GivesUp \/ ScanEnds) /\ UNCHANGED retry
            BY <3>3 DEF SearchType
        <3> QED
            BY <1>9, <3>1, <3>2, <3>3 DEF ConvertFails, GivesUp, ResetFails, ScanEnds, Lost, CheckFails
    <2> QED
        BY <1>1, <1>2, <1>3, <2>1, <2>2, <2>3 DEF args
<1>10. CASE Start
    <2>1. /\ UNCHANGED <<args, told, ID, NextBit, retry, found>>
          /\ id' = Advance(ID, NextBit) /\ last' = -1 /\ bit' = 0 /\ on' \subseteq bus /\ pc' = "search"
          /\ noise' \in 0..MaxNoise
        BY <1>10, <1>4 DEF Start, LastAtStart, Ended, Strikes, SearchType
    <2>2. id' \in Code
        BY <2>1, AdvanceType DEF SearchType
    <2>3. SearchType'
        <3>1. retry < MaxRetry
            BY <1>10 DEF Start
        <3>2. bus' = bus /\ 0 \in 0..Width /\ -1 \in -1..(Width - 1)
            BY <2>1 DEF args
        <3> QED
            BY <2>1, <2>2, <3>1, <3>2 DEF SearchType
    <2> QED
        BY <1>2, <1>3, <2>1, <2>3 DEF args
<1>11. CASE Choose \/ Follow
    <2>1. /\ UNCHANGED <<args, told, pc, ID, NextBit, retry, found>>
          /\ pc = "search" /\ bit < Width /\ bit' = bit + 1 /\ on' \subseteq on
        BY <1>11 DEF Choose, Follow, WriteBit
    <2>2. id' \in Code /\ last' \in -1..(Width - 1)
        <3>1. CASE Choose
            BY <2>1, <3>1 DEF Choose, SearchType
        <3>2. CASE Follow
            <4>1. PICK v \in {0, 1} : id' = [id EXCEPT ![bit] = v]
                BY <3>2 DEF Follow
            <4> QED
                BY <3>2, <4>1 DEF Follow, SearchType, Code
        <3> QED
            BY <1>11, <3>1, <3>2
    <2>3. noise' \in 0..MaxNoise
        BY <1>11, ReadSlotsNoise DEF Choose, Follow
    <2>4. SearchType'
        BY <2>1, <2>2, <2>3 DEF SearchType, args
    <2> QED
        BY <1>2, <1>3, <2>1, <2>4 DEF args
<1>12. CASE List \/ ReadSensor
    <2>1. /\ UNCHANGED <<args, told, searchVars, noise>> /\ Commit /\ pc' = "scan"
          /\ retry' \in {0, retry}
        BY <1>12 DEF List, ReadSensor, Commit
    <2>2. SearchType'
        BY <2>1 DEF SearchType, Commit, searchVars, args
    <2> QED
        BY <1>2, <1>3, <2>1, <2>2 DEF args
<1>13. CASE ReadSensorFails
    <2>1. /\ UNCHANGED <<args, told, ID, NextBit, searchVars, found>>
          /\ pc' = "scan" /\ retry' = 0
        BY <1>13 DEF ReadSensorFails
    <2>2. noise' \in 0..MaxNoise
        BY <1>13, <1>4 DEF ReadSensorFails, Strikes, SearchType
    <2> QED
        BY <1>1, <1>2, <1>3, <2>1, <2>2 DEF args
<1>14. CASE UNCHANGED vars
    BY <1>14 DEF vars, args, told, searchVars, ArgsType, ToldType, SearchType
<1> QED
    BY <1>6, <1>7, <1>8, <1>9, <1>10, <1>11, <1>12, <1>13, <1>14 DEF Next

\* Every variable keeps its type, and no search leaves the 64 bits of a code.
THEOREM TypeCorrect == Spec => []TypeOK
<1>1. TypeInv => TypeOK
    BY DEF TypeInv, ArgsType, ToldType, SearchType, TypeOK
<1> QED
    BY <1>1, InitTypes, StepTypes, PTL DEF Spec

(***************************************************************************)
(* Readings.  What the sensors were told last decides, when nothing struck *)
(* it, what they measured at the conversion; nobody tells them anything    *)
(* afterwards.                                                             *)
(***************************************************************************)
Told == pc \in {"resolution", "convert", "scan", "search"} \/ found # <<>>
Measured == pc \in {"scan", "search"} \/ found # <<>>

FreshInv ==
    /\ pc \in {"pullup", "resolution", "convert"} => found = <<>>
    /\ ~argScan => \A i \in DOMAIN found : found[i] \in bus
    /\ asked # 0 /\ ~struck /\ Told /\ (pc = "resolution" => writes = 1) =>
           \A s \in bus : bits[s] = asked
    /\ ~struck /\ Measured => fresh = {s \in bus : Takes(bits[s]) <= wait}

\* What is found grows by the code that was read.
LEMMA FoundGrows ==
    ASSUME SearchType, found' = Append(found, id)
    PROVE  /\ found' # <<>> /\ DOMAIN found' = DOMAIN found \cup {Len(found) + 1}
           /\ \A i \in DOMAIN found : found'[i] = found[i]
           /\ found'[Len(found) + 1] = id
           /\ Len(found) + 1 \notin DOMAIN found
<1>1. found \in Seq(Code) /\ id \in Code
    BY DEF SearchType
<1>2. Len(found) \in Nat /\ DOMAIN found = 1..Len(found)
    BY <1>1
<1>3. found' \in Seq(Code) /\ Len(found') = Len(found) + 1
      /\ \A i \in 1..Len(found) : found'[i] = found[i]
      /\ found'[Len(found) + 1] = id
    BY <1>1
<1>4. DOMAIN found' = 1..(Len(found) + 1) /\ found' # <<>>
    BY <1>2, <1>3
<1> QED
    BY <1>2, <1>3, <1>4

LEMMA StepFresh == TypeInv /\ FreshInv /\ [Next]_vars => FreshInv'
<1> SUFFICES ASSUME TypeInv, FreshInv, [Next]_vars PROVE FreshInv'
    OBVIOUS
<1> USE DEF Told, Measured
<1>1. CASE PullUp
    <2>1. asked \in Nat
        BY SearchAssumption DEF TypeInv, ArgsType
    <2>2. pc = "pullup" /\ found = <<>> /\ writes = 2
        BY <1>1 DEF PullUp, FreshInv, TypeInv, ToldType
    <2>3. /\ UNCHANGED <<args, told, found>>
          /\ pc' \in {"done", "resolution", "convert"} /\ (pc' = "convert" => asked = 0)
        BY <1>1, <2>1 DEF PullUp
    <2> QED
        BY <2>2, <2>3 DEF FreshInv, args, told
<1>2. CASE ChangeResolution
    <2>1. /\ UNCHANGED <<args, fresh, found>> /\ pc = "resolution" /\ pc' \in {"resolution", "convert"}
          /\ \/ bits' = [s \in bus |-> Config(asked)] /\ struck' = FALSE
             \/ struck' = TRUE
        BY <1>2 DEF ChangeResolution
    <2>2. found = <<>>
        BY <2>1 DEF FreshInv
    <2>3. asked # 0 => Config(asked) = asked
        BY SearchAssumption DEF Config, TypeInv, ArgsType
    <2> QED
        BY <2>1, <2>2, <2>3 DEF FreshInv, args
<1>3. CASE Convert
    <2>1. /\ UNCHANGED <<args, bits, writes, found>> /\ pc = "convert" /\ pc' = "scan"
          /\ \E heard \in SUBSET bus :
                /\ IF heard = bus THEN struck' = struck ELSE struck' = TRUE
                /\ fresh' = {s \in heard : Takes(bits[s]) <= wait}
        BY <1>3 DEF Convert
    <2> QED
        BY <2>1 DEF FreshInv, args
<1>4. CASE ConvertFails \/ GivesUp \/ ResetFails \/ ScanEnds \/ Lost \/ CheckFails \/ Start
           \/ Choose \/ Follow \/ ReadSensorFails
    <2>1. /\ UNCHANGED <<args, told, found>>
          /\ pc \in {"convert", "scan", "search"} /\ pc' \in {"convert", "scan", "search", "done"}
          /\ pc' # pc => \/ pc = "convert" /\ pc' = "done"
                         \/ pc \in {"scan", "search"} /\ pc' # "convert"
        BY <1>4 DEF ConvertFails, GivesUp, ResetFails, ScanEnds, Lost, CheckFails, Start, Choose, Follow,
           ReadSensorFails, Whole
    <2> QED
        BY <2>1 DEF FreshInv, args, told
<1>5. CASE List \/ ReadSensor
    <2>1. /\ UNCHANGED <<args, told>> /\ found' = Append(found, id) /\ pc = "search" /\ pc' = "scan"
          /\ ~argScan => id \in bus
        BY <1>5 DEF List, ReadSensor, Commit, Whole
    <2>2. /\ DOMAIN found' = DOMAIN found \cup {Len(found) + 1}
          /\ \A i \in DOMAIN found : found'[i] = found[i]
          /\ found'[Len(found) + 1] = id
        BY <2>1, FoundGrows DEF TypeInv
    <2>3. ~argScan => \A i \in DOMAIN found' : found'[i] \in bus
        BY <2>1, <2>2 DEF FreshInv
    <2> QED
        BY <2>1, <2>3 DEF FreshInv, args, told
<1>6. CASE UNCHANGED vars
    BY <1>6 DEF vars, args, told, FreshInv
<1> QED
    BY <1>1, <1>2, <1>3, <1>4, <1>5, <1>6 DEF Next

\* Every reading was measured after this run's conversion and at its resolution, when
\* noise struck neither and the wait is long enough, whatever it does to the search.
THEOREM ReadingsAreThisRuns == Spec => []ReadingsAreFresh
<1>1. Init => FreshInv
    BY DEF Init, FreshInv, Told, Measured
<1>2. TypeInv /\ FreshInv => ReadingsAreFresh
    <2> SUFFICES ASSUME TypeInv, FreshInv, ~argScan, ~struck,
                        wait >= Takes(IF asked = 0 THEN 12 ELSE asked),
                        NEW i \in DOMAIN found
                 PROVE  found[i] \in fresh /\ (asked # 0 => bits[found[i]] = asked)
        BY DEF ReadingsAreFresh
    <2>1. found # <<>> /\ found[i] \in bus /\ fresh = {s \in bus : Takes(bits[s]) <= wait}
        BY DEF FreshInv, Measured
    <2>2. asked # 0 => bits[found[i]] = asked
        <3>1. pc # "resolution"
            BY <2>1 DEF FreshInv
        <3> QED
            BY <2>1, <3>1 DEF FreshInv, Told
    <2>3. wait \in Nat /\ bits[found[i]] \in 9..12 /\ asked \in {0} \cup 9..12
        BY <2>1, SearchAssumption DEF TypeInv, ArgsType, ToldType
    <2>4. \A b \in 9..12 : Takes(b) \in Nat /\ Takes(b) <= Takes(12)
        BY DEF Takes
    <2>5. Takes(bits[found[i]]) <= wait
        <3>1. CASE asked = 0
            BY <2>3, <2>4, <3>1
        <3>2. CASE asked # 0
            BY <2>2, <2>3, <2>4, <3>2
        <3> QED
            BY <3>1, <3>2
    <2> QED
        BY <2>1, <2>2, <2>5
<1> QED
    BY <1>1, <1>2, InitTypes, StepTypes, StepFresh, PTL DEF Spec

(***************************************************************************)
(* Codes that are printed.  Until noise strikes, the code is what all who  *)
(* take part agree on.  Afterwards some of them may differ from it in one  *)
(* bit, the one that was read or heard wrong, which the check byte         *)
(* notices; or everybody has left, and the next slots read as nobody's.    *)
(***************************************************************************)
Shares(c, n) == \A j \in 0..(n - 1) : c[j] = id[j]

TakesPart ==
    /\ on # {}
    /\ \E k \in Bits : \A s \in on : \A j \in 0..(bit - 1) : s[j] # id[j] => j = k
    /\ noise < MaxNoise => \A s \in on : Shares(s, bit)
LeftAll ==
    /\ on = {} /\ noise = MaxNoise
    /\ bit > 0 => \E s \in bus : Shares(s, bit - 1)

RealInv ==
    /\ pc \in {"scan", "search"} => bus # {}
    /\ \A i \in DOMAIN found : found[i] \in bus
    /\ pc = "search" => TakesPart \/ LeftAll

\* A code with one wrong bit fails the check.
LEMMA OneWrongBit ==
    ASSUME NEW a \in Code, NEW c \in Code, NEW k \in Bits, a[k] # c[k],
           \A j \in Bits : j # k => a[j] = c[j], ChecksOut(a)
    PROVE  ~ChecksOut(c)
<1> DEFINE Ones(x) == {b \in Bits : x[b] = 1}
<1>1. IsFiniteSet(Bits)
    BY SearchAssumption, FS_Interval DEF Bits
<1>2. \A x : IsFiniteSet(Ones(x)) /\ Cardinality(Ones(x)) \in Nat
    BY <1>1, FS_Subset, FS_CardinalityType
<1>3. a[k] \in {0, 1} /\ c[k] \in {0, 1}
    BY DEF Code
<1>4. \A x : ChecksOut(x) <=> Cardinality(Ones(x)) % 2 = 0
    BY DEF ChecksOut
<1>5. CASE a[k] = 1
    <2>1. k \notin Ones(c) /\ Ones(a) = Ones(c) \cup {k}
        BY <1>3, <1>5
    <2> HIDE DEF Ones
    <2>2. Cardinality(Ones(a)) = Cardinality(Ones(c)) + 1
        BY <1>2, <2>1, FS_AddElement
    <2> QED
        BY <1>2, <1>4, <2>2
<1>6. CASE a[k] = 0
    <2>1. k \notin Ones(a) /\ Ones(c) = Ones(a) \cup {k}
        BY <1>3, <1>6
    <2> HIDE DEF Ones
    <2>2. Cardinality(Ones(c)) = Cardinality(Ones(a)) + 1
        BY <1>2, <2>1, FS_AddElement
    <2> QED
        BY <1>2, <1>4, <2>2
<1> QED
    BY <1>3, <1>5, <1>6

\* Two codes that agree in all their bits are one.
LEMMA SameCode ==
    ASSUME NEW a \in Code, NEW c \in Code, \A j \in Bits : a[j] = c[j]
    PROVE  a = c
BY DEF Code

\* A turn of the loop that somebody took part in.
LEMMA TurnIsReal ==
    ASSUME MaxNoise <= 1, TypeInv, TakesPart, bit < Width,
           NEW v \in {0, 1}, NEW r, r[v + 1] = 0, NEW hit \in SUBSET on,
           ReadSlots(r, hit), WriteBit(v, hit), id' = [id EXCEPT ![bit] = v], bus' = bus
    PROVE  TakesPart' \/ LeftAll'
<1>1. /\ bit \in 0..(Width - 1) /\ Width \in Nat /\ noise \in 0..MaxNoise /\ MaxNoise \in Nat
      /\ bit \in Bits
    BY SearchAssumption DEF TypeInv, SearchType, Bits
<1>2. id \in Code /\ on \subseteq bus
    BY DEF TypeInv, SearchType
<1>3. bit' = bit + 1 /\ on' = {s \in on : s[bit] = v <=> s \notin hit}
    BY DEF WriteBit
<1>4. id'[bit] = v /\ \A j \in 0..(bit - 1) : id'[j] = id[j]
    BY <1>1, <1>2 DEF Code, Bits
<1>5. \A j \in 0..(bit' - 1) : j = bit \/ j \in 0..(bit - 1)
    BY <1>1, <1>3
<1>6. CASE r = Slots /\ hit = {} /\ noise' = noise
    <2>1. on' = {s \in on : s[bit] = v}
        BY <1>3, <1>6
    <2>2. on' # {}
        <3>1. Slots[v + 1] = Low(v)
            BY DEF Slots
        <3> QED
            BY <1>6, <2>1, <3>1 DEF Low
    <2>3. PICK k \in Bits : \A s \in on : \A j \in 0..(bit - 1) : s[j] # id[j] => j = k
        BY DEF TakesPart
    <2>4. \A s \in on' : \A j \in 0..(bit' - 1) : s[j] # id'[j] => j = k
        BY <1>4, <1>5, <2>1, <2>3
    <2>5. noise' < MaxNoise => \A s \in on' : \A j \in 0..(bit' - 1) : s[j] = id'[j]
        BY <1>4, <1>5, <1>6, <2>1 DEF TakesPart, Shares
    <2> QED
        BY <2>2, <2>3, <2>4, <2>5 DEF TakesPart, Shares
<1>7. CASE noise < MaxNoise /\ noise' = noise + 1
    <2>1. noise' = MaxNoise
        BY <1>1, <1>7
    <2>2. \A s \in on : \A j \in 0..(bit - 1) : s[j] = id'[j]
        BY <1>4, <1>7 DEF TakesPart, Shares
    <2>3. CASE on' # {}
        <3>1. \A s \in on' : \A j \in 0..(bit' - 1) : s[j] # id'[j] => j = bit
            BY <1>3, <1>5, <2>2
        <3>2. ~(noise' < MaxNoise)
            BY <1>1, <2>1
        <3> QED
            BY <1>1, <2>3, <3>1, <3>2 DEF TakesPart
    <2>4. CASE on' = {}
        <3>1. PICK s \in on : \A j \in 0..(bit - 1) : s[j] = id'[j]
            BY <2>2 DEF TakesPart
        <3>2. bit' - 1 = bit /\ s \in bus'
            BY <1>1, <1>2, <1>3
        <3> QED
            BY <2>1, <2>4, <3>1, <3>2 DEF LeftAll, Shares
    <2> QED
        BY <2>3, <2>4
<1> QED
    BY <1>6, <1>7, ReadSlotsNoise DEF TypeInv

\* When nobody takes part, noise would have to speak for them, and did so already.
LEMMA NobodyAnswers ==
    ASSUME TypeInv, LeftAll, NEW r, NEW hit, ReadSlots(r, hit)
    PROVE  r = <<1, 1>>
<1>1. Slots = <<1, 1>>
    BY DEF LeftAll, Slots, Low
<1>2. ~(noise < MaxNoise)
    BY SearchAssumption DEF LeftAll
<1> QED
    BY <1>1, <1>2, ReadSlotsNoise DEF TypeInv

\* What the check byte lets through.
LEMMA WholeIsReal ==
    ASSUME TypeInv, RealInv, Whole, CheckPasses
    PROVE  id \in bus
<1>1. id \in Code /\ bit = Width /\ on \subseteq bus
    BY DEF Whole, TypeInv, SearchType
<1>2. \A s \in bus : s \in Code /\ ChecksOut(s)
    BY SearchAssumption DEF TypeInv, ArgsType
<1>3. \E s \in bus, k \in Bits : \A j \in Bits : s[j] # id[j] => j = k
    <2>1. Width \in Nat \ {0}
        BY SearchAssumption
    <2>2. CASE TakesPart
        <3>1. PICK k \in Bits : \A s \in on : \A j \in 0..(Width - 1) : s[j] # id[j] => j = k
            BY <1>1, <2>2 DEF TakesPart
        <3>2. PICK s \in on : TRUE
            BY <2>2 DEF TakesPart
        <3> QED
            BY <1>1, <3>1, <3>2 DEF Bits
    <2>3. CASE LeftAll
        <3>1. PICK s \in bus : \A j \in 0..((Width - 1) - 1) : s[j] = id[j]
            BY <1>1, <2>1, <2>3 DEF LeftAll, Shares
        <3>2. Width - 1 \in Bits /\ \A j \in Bits : s[j] # id[j] => j = Width - 1
            BY <2>1, <3>1 DEF Bits
        <3> QED
            BY <3>2
    <2> QED
        BY <2>2, <2>3 DEF RealInv, Whole
<1>4. PICK s \in bus, k \in Bits : \A j \in Bits : s[j] # id[j] => j = k
    BY <1>3
<1>5. CASE s[k] = id[k]
    BY <1>1, <1>2, <1>4, <1>5, SameCode
<1>6. CASE s[k] # id[k]
    <2>1. ~ChecksOut(id)
        BY <1>1, <1>2, <1>4, <1>6, OneWrongBit
    <2> QED
        BY <2>1 DEF CheckPasses
<1> QED
    BY <1>5, <1>6

LEMMA StepReal ==
    ASSUME MaxNoise <= 1, TypeInv, RealInv, [Next]_vars
    PROVE  RealInv'
<1>1. CASE PullUp \/ ChangeResolution \/ Convert \/ ConvertFails \/ GivesUp \/ ResetFails \/ ScanEnds
           \/ Lost \/ CheckFails \/ ReadSensorFails
    BY <1>1 DEF PullUp, ChangeResolution, Convert, ConvertFails, GivesUp, ResetFails, ScanEnds, Lost,
       CheckFails, ReadSensorFails, Whole, RealInv, args
<1>2. CASE Start
    <2>1. /\ pc = "scan" /\ bit' = 0 /\ UNCHANGED <<bus, found>> /\ bus # {}
          /\ on' = bus \/ noise' = MaxNoise
        BY <1>2, SearchAssumption DEF Start, args, Strikes, TypeInv, SearchType, RealInv
    <2>2. TakesPart' \/ LeftAll'
        <3>1. 0 \in Bits /\ MaxNoise \in Nat
            BY SearchAssumption DEF Bits
        <3> QED
            BY <2>1, <3>1 DEF TakesPart, LeftAll, Shares
    <2> QED
        BY <2>1, <2>2 DEF RealInv
<1>3. CASE Choose \/ Follow
    <2>1. /\ pc = "search" /\ bit < Width /\ UNCHANGED <<bus, pc, found>>
          /\ \E v \in {0, 1}, hit \in SUBSET on :
                /\ ReadSlots(<<0, 0>>, hit) \/ ReadSlots(<<v, 1 - v>>, hit)
                /\ WriteBit(v, hit) /\ id' = [id EXCEPT ![bit] = v]
        <3>1. CASE Choose
            <4>1. id[bit] \in {0, 1} /\ [id EXCEPT ![bit] = id[bit]] = id
                BY <3>1, SearchAssumption DEF Choose, TypeInv, SearchType, Code, Bits
            <4> QED
                BY <3>1, <4>1 DEF Choose, args
        <3>2. CASE Follow
            BY <3>2 DEF Follow, args
        <3> QED
            BY <1>3, <3>1, <3>2
    <2>2. PICK v \in {0, 1}, hit \in SUBSET on, r \in {<<0, 0>>, <<0, 1>>, <<1, 0>>} :
              r[v + 1] = 0 /\ ReadSlots(r, hit) /\ WriteBit(v, hit) /\ id' = [id EXCEPT ![bit] = v]
        <3>1. PICK v \in {0, 1}, hit \in SUBSET on :
                  /\ ReadSlots(<<0, 0>>, hit) \/ ReadSlots(<<v, 1 - v>>, hit)
                  /\ WriteBit(v, hit) /\ id' = [id EXCEPT ![bit] = v]
            BY <2>1
        <3>2. <<0, 0>>[v + 1] = 0 /\ <<v, 1 - v>>[v + 1] = 0
              /\ <<v, 1 - v>> \in {<<0, 0>>, <<0, 1>>, <<1, 0>>}
            OBVIOUS
        <3> QED
            BY <3>1, <3>2
    <2>3. TakesPart
        BY <2>1, <2>2, NobodyAnswers DEF RealInv
    <2>4. TakesPart' \/ LeftAll'
        BY <2>1, <2>2, <2>3, TurnIsReal
    <2> QED
        BY <2>1, <2>4 DEF RealInv
<1>4. CASE List \/ ReadSensor
    <2>1. Whole /\ CheckPasses /\ UNCHANGED bus /\ found' = Append(found, id) /\ pc' = "scan"
        BY <1>4 DEF List, ReadSensor, Commit, args
    <2>2. id \in bus
        BY <2>1, WholeIsReal
    <2>3. /\ DOMAIN found' = DOMAIN found \cup {Len(found) + 1}
          /\ \A i \in DOMAIN found : found'[i] = found[i]
          /\ found'[Len(found) + 1] = id
        BY <2>1, FoundGrows DEF TypeInv
    <2> QED
        BY <2>1, <2>2, <2>3 DEF RealInv, Whole
<1>5. CASE UNCHANGED vars
    BY <1>5 DEF vars, args, searchVars, RealInv, TakesPart, LeftAll, Shares
<1> QED
    BY <1>1, <1>2, <1>3, <1>4, <1>5 DEF Next

\* Wherever noise strikes a search, once: the search is lost, or its code is that of a
\* sensor, or it fails the check.
THEOREM OneErrorIsCaught == MaxNoise <= 1 => (Spec => []FoundAreReal)
<1> SUFFICES ASSUME MaxNoise <= 1 PROVE Spec => []FoundAreReal
    OBVIOUS
<1>1. Init => RealInv
    BY DEF Init, RealInv
<1>2. TypeInv /\ RealInv /\ [Next]_vars => RealInv'
    BY StepReal
<1>3. RealInv => FoundAreReal
    BY DEF RealInv, FoundAreReal
<1> QED
    BY <1>1, <1>2, <1>3, InitTypes, StepTypes, PTL DEF Spec

(***************************************************************************)
(* The search without noise.  It is at a code and at the last bit where    *)
(* that code turned low while a sensor turned high; what is still to be    *)
(* found comes after the code, so beyond that turn.  A search repeats the  *)
(* code up to the turn, turns high there and low wherever it can later.    *)
(***************************************************************************)
Same(a, c, n) == \A j \in 0..(n - 1) : a[j] = c[j]

\* A sensor turns high at bit n, where the code turns low.
Turn(code, n) == code[n] = 0 /\ \E s \in bus : Same(s, code, n) /\ s[n] = 1

\* n is the last turn of the code before its bit "end"; -1 when there is none.
LastTurn(code, n, end) ==
    /\ n \in -1..(end - 1)
    /\ n # -1 => Turn(code, n)
    /\ \A j \in (n + 1)..(end - 1) : ~Turn(code, j)

\* Where the code of a search goes low if it can.
Low0 == IF NextBit = Width THEN 0 ELSE NextBit + 1

\* A set of naturals has a least one.
LEMMA Least ==
    ASSUME NEW T \in SUBSET Nat, T # {}
    PROVE  \E m \in T : \A j \in T : m <= j
<1> DEFINE Under(j) == {k \in T : k < j}
           Unders == {Under(j) : j \in T}
           R == StrictSubsetOrdering(Nat)
<1>1. ASSUME NEW j \in T PROVE Under(j) \in FiniteSubsetsOf(Nat)
    <2>1. j - 1 \in Int /\ IsFiniteSet(0..(j - 1))
        BY FS_Interval
    <2>2. Under(j) \in SUBSET (0..(j - 1)) /\ Under(j) \in SUBSET Nat
        <3>1. j \in Nat /\ \A k \in T : k \in Nat
            OBVIOUS
        <3>2. \A k \in Under(j) : k \in Nat /\ k < j
            BY <3>1
        <3>3. \A k \in Under(j) : k \in 0..(j - 1)
            BY <3>1, <3>2
        <3> QED
            BY <3>2, <3>3
    <2>3. IsFiniteSet(Under(j))
        BY <2>1, <2>2, FS_Subset
    <2> QED
        BY <2>2, <2>3 DEF FiniteSubsetsOf
<1>2. Unders \subseteq FiniteSubsetsOf(Nat) /\ Unders # {}
    BY <1>1
<1>3. PICK U \in Unders : \A V \in Unders : ~(<<V, U>> \in R)
    <2> HIDE DEF Unders, R
    <2>1. IsWellFoundedOn(R, FiniteSubsetsOf(Nat))
        BY FS_StrictSubsetOrderingWellFounded DEF R
    <2> QED
        BY <1>2, <2>1, WFMin
<1>4. PICK m \in T : U = Under(m)
    BY <1>3
<1>5. ASSUME NEW j \in T, j < m PROVE FALSE
    <2>1. \A k \in T : k \in Nat
        OBVIOUS
    <2>2. \A k \in T : k < j => k < m
        BY <1>4, <1>5, <2>1
    <2>3. Under(j) \subseteq Under(m) /\ j \in Under(m) /\ j \notin Under(j)
        <3>1. ~(j < j)
            BY <2>1
        <3> QED
            BY <1>5, <2>1, <2>2, <3>1
    <2>4. <<Under(j), Under(m)>> \in R
        BY <2>3 DEF StrictSubsetOrdering
    <2> QED
        BY <1>3, <1>4, <2>4
<1>6. \A j \in T : ~(j < m)
    BY <1>5
<1> QED
    BY <1>4, <1>6

\* Two codes are one, or part at a first bit.
LEMMA FirstDifference ==
    ASSUME NEW a \in Code, NEW c \in Code, a # c
    PROVE  \E k \in Bits : a[k] # c[k] /\ Same(a, c, k)
<1> DEFINE T == {j \in Bits : a[j] # c[j]}
<1>1. T # {} /\ T \in SUBSET Nat
    BY SameCode DEF Bits
<1>2. PICK k \in T : \A j \in T : k <= j
    <2> HIDE DEF T
    <2> QED
        BY <1>1, Least
<1>3. k \in Bits /\ a[k] # c[k] /\ k \in 0..(Width - 1) /\ Width \in Nat
    BY <1>2, SearchAssumption DEF Bits
<1>4. \A j \in 0..(k - 1) : a[j] = c[j]
    BY <1>2, <1>3 DEF Bits
<1> QED
    BY <1>3, <1>4 DEF Same

\* The order of the search.
LEMMA Transitive ==
    ASSUME NEW a \in Code, NEW b \in Code, NEW c \in Code, Before(a, b), Before(b, c)
    PROVE  Before(a, c)
<1>1. PICK k \in Bits : a[k] < b[k] /\ \A j \in 0..(k - 1) : a[j] = b[j]
    BY DEF Before
<1>2. PICK m \in Bits : b[m] < c[m] /\ \A j \in 0..(m - 1) : b[j] = c[j]
    BY DEF Before
<1>3. k \in Nat /\ m \in Nat
    BY SearchAssumption DEF Bits
<1>4. \A x \in {a, b, c}, j \in Bits : x[j] \in {0, 1}
    BY DEF Code
<1>5. CASE k < m
    <2>1. a[k] < c[k] /\ \A j \in 0..(k - 1) : a[j] = c[j]
        BY <1>1, <1>2, <1>3, <1>5
    <2> QED
        BY <2>1 DEF Before
<1>6. CASE m < k
    <2>1. a[m] < c[m] /\ \A j \in 0..(m - 1) : a[j] = c[j]
        BY <1>1, <1>2, <1>3, <1>6
    <2> QED
        BY <2>1 DEF Before
<1>7. CASE k = m
    BY <1>1, <1>2, <1>4, <1>7
<1> QED
    BY <1>3, <1>5, <1>6, <1>7

\* Between searches.
Found == found = <<>> /\ NextBit = Width /\ ID = Zero
Resumes ==
    /\ ID \in bus /\ NextBit # Width
    /\ \A i \in DOMAIN found : found[i] = ID \/ Before(found[i], ID)
    /\ \A s \in bus : (\E i \in DOMAIN found : found[i] = s) \/ Before(ID, s)
    /\ LastTurn(ID, NextBit, Width)

BetweenInv ==
    /\ bus # {}
    /\ \A i \in DOMAIN found : found[i] \in bus
    /\ \A i, j \in DOMAIN found : i < j => Before(found[i], found[j])
    /\ Found \/ Resumes

\* In a search.
DuringInv ==
    /\ on # {} /\ on = {s \in bus : Same(s, id, bit)}
    /\ \A j \in bit..(Width - 1) : id[j] = Advance(ID, NextBit)[j]
    /\ NextBit # Width => /\ \A j \in 0..(bit - 1) : j < NextBit => id[j] = ID[j]
                          /\ bit > NextBit => id[NextBit] = 1
    /\ \A j \in Low0..(bit - 1) : id[j] = 1 => \A s \in bus : Same(s, id, j) => s[j] = 1
    /\ LastTurn(id, last, bit)

AllInv ==
    noise = 0 =>
        /\ bus # {} => retry = 0
        /\ pc \in {"pullup", "resolution", "convert"} => found = <<>> /\ NextBit = Width /\ ID = Zero
        /\ pc \in {"scan", "search"} => BetweenInv
        /\ pc = "search" => DuringInv /\ NextBit # Ended
        /\ pc = "done" => \/ found = <<>> /\ (pullUp => bus = {})
                          \/ BetweenInv /\ NextBit = Ended

\* One code turns low where another turns high, and they are the same before.
LEMMA BeforeTurns ==
    ASSUME TypeInv, NEW s \in bus, NEW code \in Code, Before(code, s)
    PROVE  \E m \in Bits : Turn(code, m) /\ s[m] = 1 /\ Same(s, code, m)
<1>1. PICK m \in Bits : code[m] < s[m] /\ \A j \in 0..(m - 1) : code[j] = s[j]
    BY DEF Before
<1>2. code[m] \in {0, 1} /\ s[m] \in {0, 1}
    BY SearchAssumption DEF TypeInv, ArgsType, Code
<1>3. code[m] = 0 /\ s[m] = 1 /\ Same(s, code, m)
    BY <1>1, <1>2 DEF Same
<1> QED
    BY <1>3 DEF Turn

\* A turn of the loop keeps the search on its way.
LEMMA TurnFinds ==
    ASSUME TypeInv, BetweenInv, DuringInv, NextBit # Ended, bit < Width, NEW v \in {0, 1},
           WriteBit(v, {}), id' = [id EXCEPT ![bit] = v], UNCHANGED <<bus, ID, NextBit>>,
           \/ /\ v = id[bit] /\ (\E s \in on : s[bit] = 0) /\ (\E s \in on : s[bit] = 1)
              /\ last' = IF id[bit] = 0 THEN bit ELSE last
           \/ (\A s \in on : s[bit] = v) /\ last' = last
    PROVE  DuringInv'
<1> DEFINE Chosen == /\ v = id[bit] /\ (\E s \in on : s[bit] = 0) /\ (\E s \in on : s[bit] = 1)
                     /\ last' = IF id[bit] = 0 THEN bit ELSE last
           Followed == (\A s \in on : s[bit] = v) /\ last' = last
<1>1. /\ bit \in 0..(Width - 1) /\ bit \in Bits /\ Width \in Nat /\ NextBit \in 0..Width
      /\ id \in Code /\ ID \in Code /\ last \in -1..(bit - 1)
    BY SearchAssumption DEF TypeInv, SearchType, Bits, Ended, DuringInv, LastTurn
<1>2. bit' = bit + 1 /\ on' = {s \in on : s[bit] = v}
    BY DEF WriteBit
<1>3. PICK new \in Code : new = id'
    BY <1>1 DEF Code
<1>4. new[bit] = v /\ \A j \in Bits : j # bit => new[j] = id[j]
    BY <1>1, <1>3 DEF Code
<1>5. \A j \in 0..(Width - 1) : j \in Bits
    BY DEF Bits
<1>6. \A s, j : j \in 0..bit => (Same(s, new, j) <=> Same(s, id, j))
    BY <1>1, <1>4, <1>5 DEF Same
<1>7. on # {} /\ on = {s \in bus : Same(s, id, bit)}
    BY DEF DuringInv
<1>8. on' # {}
    BY <1>2, <1>7
<1>9. on' = {s \in bus : Same(s, new, bit')}
    <2>1. \A s : Same(s, new, bit + 1) <=> Same(s, new, bit) /\ s[bit] = v
        BY <1>1, <1>4 DEF Same
    <2>2. \A s \in bus : s \in on' <=> Same(s, new, bit')
        BY <1>1, <1>2, <1>6, <1>7, <2>1
    <2> QED
        BY <1>2, <1>7, <2>2
<1>10. \A j \in bit'..(Width - 1) : new[j] = Advance(ID, NextBit)[j]
    BY <1>1, <1>2, <1>4, <1>5 DEF DuringInv
<1>11. NextBit # Width => /\ \A j \in 0..(bit' - 1) : j < NextBit => new[j] = ID[j]
                          /\ bit' > NextBit => new[NextBit] = 1
    <2> SUFFICES ASSUME NextBit # Width
                 PROVE  /\ \A j \in 0..(bit' - 1) : j < NextBit => new[j] = ID[j]
                        /\ bit' > NextBit => new[NextBit] = 1
        OBVIOUS
    <2>1. Resumes /\ NextBit \in Bits
        BY <1>1 DEF BetweenInv, Found, Bits
    <2>2. PICK s \in bus : Same(s, ID, NextBit) /\ s[NextBit] = 1
        BY <2>1, <1>1 DEF Resumes, LastTurn, Turn
    <2>3. \A j \in 0..(bit - 1) : j < NextBit => id[j] = ID[j]
        BY DEF DuringInv
    <2>4. bit > NextBit => id[NextBit] = 1
        BY DEF DuringInv
    <2>5. bit <= NextBit => s \in on
        BY <1>1, <1>7, <2>2, <2>3 DEF Same
    <2>6. id[bit] = Advance(ID, NextBit)[bit]
        BY <1>1 DEF DuringInv
    <2>7. CASE bit < NextBit
        <3>1. v = ID[bit]
            <4>1. CASE Chosen
                BY <1>1, <2>6, <2>7, <4>1 DEF Advance
            <4>2. CASE Followed
                <5>1. s[bit] = v /\ s[bit] = ID[bit]
                    BY <1>1, <2>2, <2>5, <2>7, <4>2 DEF Same
                <5> QED
                    BY <5>1
            <4> QED
                BY <4>1, <4>2
        <3> QED
            BY <1>1, <1>2, <1>4, <1>5, <2>3, <2>7, <3>1
    <2>8. CASE bit = NextBit
        <3>1. v = 1
            <4>1. CASE Chosen
                BY <1>1, <2>6, <2>8, <4>1 DEF Advance
            <4>2. CASE Followed
                BY <1>1, <2>2, <2>5, <2>8, <4>2
            <4> QED
                BY <4>1, <4>2
        <3> QED
            BY <1>1, <1>2, <1>4, <1>5, <2>3, <2>8, <3>1
    <2>9. CASE bit > NextBit
        BY <1>1, <1>2, <1>4, <1>5, <2>1, <2>3, <2>4, <2>9
    <2> QED
        BY <1>1, <2>7, <2>8, <2>9
<1>12. \A j \in Low0'..(bit' - 1) : new[j] = 1 => \A s \in bus : Same(s, new, j) => s[j] = 1
    <2> SUFFICES ASSUME NEW j \in Low0..bit, new[j] = 1, NEW s \in bus, Same(s, new, j)
                 PROVE  s[j] = 1
        BY <1>1, <1>2 DEF Low0
    <2>1. Low0 \in Nat /\ j \in 0..bit
        BY <1>1 DEF Low0
    <2>2. Same(s, id, j)
        BY <1>6, <2>1
    <2>3. CASE j # bit
        BY <1>1, <1>4, <1>5, <2>1, <2>2, <2>3 DEF DuringInv
    <2>4. CASE j = bit
        <3>1. s \in on /\ v = 1
            BY <1>4, <1>7, <2>2, <2>4
        <3>2. CASE Chosen
            <4>1. id[bit] = Advance(ID, NextBit)[bit]
                BY <1>1 DEF DuringInv
            <4>2. CASE NextBit = Width
                <5>1. ID = Zero
                    BY <4>2 DEF BetweenInv, Resumes, Found
                <5>2. Advance(ID, NextBit)[bit] = 0
                    BY <1>1, <4>2, <5>1 DEF Advance, Zero
                <5> QED
                    BY <3>1, <3>2, <4>1, <5>2
            <4>3. CASE NextBit # Width
                <5>1. bit > NextBit
                    BY <1>1, <2>4, <4>3 DEF Low0
                <5>2. Advance(ID, NextBit)[bit] = 0
                    BY <1>1, <4>3, <5>1 DEF Advance
                <5> QED
                    BY <3>1, <3>2, <4>1, <5>2
            <4> QED
                BY <4>2, <4>3
        <3>3. CASE Followed
            BY <2>4, <3>1, <3>3
        <3> QED
            BY <3>2, <3>3
    <2> QED
        BY <2>3, <2>4
<1>13. LastTurn(new, last', bit')
    <2>1. \A j \in 0..(bit - 1) : Turn(new, j) <=> Turn(id, j)
        BY <1>1, <1>4, <1>5, <1>6 DEF Turn
    <2>2. Turn(new, bit) <=> v = 0 /\ \E s \in on : s[bit] = 1
        <3>1. \A s \in bus : Same(s, new, bit) <=> s \in on
            BY <1>1, <1>6, <1>7
        <3> QED
            BY <1>4, <1>7, <3>1 DEF Turn
    <2>3. last # -1 => Turn(id, last)
        BY DEF DuringInv, LastTurn
    <2>4. \A j \in (last + 1)..(bit - 1) : ~Turn(id, j)
        BY DEF DuringInv, LastTurn
    <2>5. CASE v = 0 /\ Chosen
        <3>1. last' = bit /\ Turn(new, bit)
            BY <2>2, <2>5
        <3> QED
            BY <1>1, <1>2, <3>1 DEF LastTurn
    <2>6. CASE v = 1 \/ Followed
        <3>1. last' = last /\ ~Turn(new, bit)
            BY <2>2, <2>6
        <3>2. \A j \in (last + 1)..((bit + 1) - 1) : ~Turn(new, j)
            BY <1>1, <2>1, <2>4, <3>1
        <3>3. last # -1 => Turn(new, last)
            BY <1>1, <2>1, <2>3
        <3> QED
            BY <1>1, <1>2, <3>1, <3>2, <3>3 DEF LastTurn
    <2> QED
        BY <2>5, <2>6
<1>14. LastTurn(id, last, bit)'
    BY <1>13, <1>3 DEF LastTurn, Turn
<1> QED
    BY <1>3, <1>8, <1>9, <1>10, <1>11, <1>12, <1>14 DEF DuringInv

\* The code at the end of a search is the next one of the sensors.
LEMMA CodeIsNext ==
    ASSUME TypeInv, BetweenInv, DuringInv, NextBit # Ended, bit = Width
    PROVE  /\ id \in bus
           /\ \A i \in DOMAIN found : Before(found[i], id)
           /\ \A s \in bus : s = id \/ (\E i \in DOMAIN found : found[i] = s) \/ Before(id, s)
<1>1. /\ Width \in Nat \ {0} /\ NextBit \in 0..Width /\ id \in Code /\ ID \in Code
      /\ \A s \in bus : s \in Code
    BY SearchAssumption DEF TypeInv, SearchType, ArgsType, Ended
<1>2. id \in bus
    <2>1. PICK s \in bus : Same(s, id, Width)
        BY DEF DuringInv
    <2> QED
        BY <1>1, <2>1, SameCode DEF Same, Bits
<1>3. \A c \in Code, k \in Bits : c[k] \in {0, 1}
    BY DEF Code
\* Where the search went low if it could, it is before all the others.
<1>4. ASSUME NEW s \in bus, NEW k \in Bits, k >= Low0, id[k] # s[k], Same(id, s, k)
      PROVE  Before(id, s)
    <2>1. Same(s, id, k) /\ k \in Low0..(bit - 1)
        BY <1>1, <1>4 DEF Same, Bits, Low0
    <2>2. id[k] = 1 => s[k] = 1
        BY <2>1 DEF DuringInv
    <2>3. id[k] = 0 /\ s[k] = 1
        BY <1>1, <1>3, <1>4, <2>2
    <2> QED
        BY <1>4, <2>3 DEF Before, Same
<1>5. CASE Found
    <2>1. ASSUME NEW s \in bus, s # id PROVE Before(id, s)
        <3>1. PICK k \in Bits : id[k] # s[k] /\ Same(id, s, k)
            BY <1>1, <2>1, FirstDifference
        <3>2. k >= Low0
            BY <1>1, <1>5 DEF Found, Low0, Bits
        <3> QED
            BY <1>4, <3>1, <3>2
    <2>2. DOMAIN found = {}
        BY <1>5 DEF Found
    <2> QED
        BY <1>2, <2>1, <2>2
<1>6. CASE Resumes
    <2>1. NextBit \in Bits /\ NextBit \in Nat /\ Turn(ID, NextBit)
        BY <1>1, <1>6 DEF Resumes, LastTurn, Bits
    <2>2. id[NextBit] = 1 /\ \A j \in 0..(NextBit - 1) : id[j] = ID[j]
        BY <1>1, <1>6, <2>1 DEF DuringInv, Resumes
    <2>3. Before(ID, id)
        BY <2>1, <2>2 DEF Before, Turn
    <2>4. ASSUME NEW i \in DOMAIN found PROVE Before(found[i], id)
        <3>1. found[i] \in Code /\ (found[i] = ID \/ Before(found[i], ID))
            BY <1>1, <1>6 DEF BetweenInv, Resumes
        <3> QED
            BY <1>1, <2>3, <3>1, Transitive
    <2>5. ASSUME NEW s \in bus, s # id, Before(ID, s) PROVE Before(id, s)
        <3>1. PICK m \in Bits : Turn(ID, m) /\ s[m] = 1 /\ Same(s, ID, m)
            BY <1>1, <2>5, BeforeTurns
        <3>2. m \in 0..(Width - 1) /\ m <= NextBit
            BY <1>1, <1>6, <2>1, <3>1 DEF Resumes, LastTurn, Bits
        <3>3. CASE m < NextBit
            <4>1. id[m] = 0 /\ \A j \in 0..(m - 1) : id[j] = s[j]
                BY <2>1, <2>2, <3>1, <3>2, <3>3 DEF Same, Turn
            <4> QED
                BY <3>1, <4>1 DEF Before
        <3>4. CASE m = NextBit
            <4>1. \A j \in 0..NextBit : id[j] = s[j]
                BY <2>1, <2>2, <3>1, <3>4 DEF Same
            <4>2. PICK k \in Bits : id[k] # s[k] /\ Same(id, s, k)
                BY <1>1, <2>5, FirstDifference
            <4>3. k >= Low0
                BY <1>1, <1>6, <2>1, <4>1, <4>2 DEF Low0, Resumes, Bits
            <4> QED
                BY <1>4, <4>2, <4>3
        <3> QED
            BY <2>1, <3>2, <3>3, <3>4
    <2> QED
        BY <1>2, <1>6, <2>4, <2>5 DEF Resumes
<1> QED
    BY <1>5, <1>6 DEF BetweenInv

\* What the steps between two codes leave alone.
LEMMA BetweenStays ==
    ASSUME BetweenInv, UNCHANGED <<bus, found, ID, NextBit>>
    PROVE  BetweenInv'
BY DEF BetweenInv, Found, Resumes, LastTurn, Turn

\* A code that was found is where the next search starts from.
LEMMA CommitFinds ==
    ASSUME TypeInv, BetweenInv, DuringInv, NextBit # Ended, bit = Width,
           UNCHANGED bus, Commit
    PROVE  BetweenInv'
<1>1. /\ id \in bus
      /\ \A i \in DOMAIN found : Before(found[i], id)
      /\ \A s \in bus : s = id \/ (\E i \in DOMAIN found : found[i] = s) \/ Before(id, s)
    BY CodeIsNext
<1>2. ID' = id /\ NextBit' = last /\ found' = Append(found, id)
    BY DEF Commit
<1>3. /\ DOMAIN found' = DOMAIN found \cup {Len(found) + 1}
      /\ \A i \in DOMAIN found : found'[i] = found[i]
      /\ found'[Len(found) + 1] = id
    BY <1>2, FoundGrows DEF TypeInv
<1>4. \A i \in DOMAIN found : i \in Nat /\ i < Len(found) + 1
    BY DEF TypeInv, SearchType
<1>5. \A i \in DOMAIN found' : found'[i] \in bus
    BY <1>1, <1>3 DEF BetweenInv
<1>6. ASSUME NEW i \in DOMAIN found', NEW j \in DOMAIN found', i < j
      PROVE  Before(found'[i], found'[j])
    <2>1. Len(found) \in Nat
        BY DEF TypeInv, SearchType
    <2>2. i \in DOMAIN found
        BY <1>3, <1>4, <1>6, <2>1
    <2>3. CASE j \in DOMAIN found
        BY <1>3, <1>6, <2>2, <2>3 DEF BetweenInv
    <2>4. CASE j = Len(found) + 1
        BY <1>1, <1>3, <2>2, <2>4
    <2> QED
        BY <1>3, <2>3, <2>4
<1>7. LastTurn(id, last, Width) /\ last # Width
    BY SearchAssumption DEF DuringInv, LastTurn
<1>8. \A i \in DOMAIN found' : found'[i] = id \/ Before(found'[i], id)
    BY <1>1, <1>3
<1>9. \A s \in bus : (\E i \in DOMAIN found' : found'[i] = s) \/ Before(id, s)
    BY <1>1, <1>3
<1>10. Resumes'
    BY <1>1, <1>2, <1>7, <1>8, <1>9 DEF Resumes, LastTurn, Turn
<1> QED
    BY <1>1, <1>5, <1>6, <1>10 DEF BetweenInv

LEMMA StepAll == TypeInv /\ AllInv /\ [Next]_vars => AllInv'
<1> SUFFICES ASSUME TypeInv, AllInv, [Next]_vars, noise' = 0 PROVE AllInv'
    BY DEF AllInv
<1>1. noise \in 0..MaxNoise /\ MaxNoise \in Nat /\ MaxRetry \in Nat \ {0}
    BY SearchAssumption DEF TypeInv, SearchType
<1>2. ~Strikes
    BY <1>1 DEF Strikes
<1>3. ASSUME NEW r, NEW hit, ReadSlots(r, hit) PROVE r = Slots /\ hit = {} /\ noise = 0
    BY <1>2, <1>3 DEF ReadSlots
<1>4. CASE PullUp
    BY <1>4 DEF PullUp, AllInv, args
<1>5. CASE ChangeResolution
    <2>1. noise = 0
        BY <1>5, <1>2 DEF ChangeResolution
    <2> QED
        BY <1>5, <2>1 DEF ChangeResolution, AllInv, args
<1>6. CASE Convert
    <2>1. noise = 0 /\ bus # {} /\ pc = "convert" /\ pc' = "scan" /\ retry' = 0
          /\ UNCHANGED <<bus, found, ID, NextBit>>
        BY <1>6, <1>2 DEF Convert, args
    <2>2. found = <<>> /\ NextBit = Width /\ ID = Zero
        BY <2>1 DEF AllInv
    <2>3. BetweenInv'
        BY <2>1, <2>2 DEF BetweenInv, Found
    <2> QED
        BY <2>1, <2>3 DEF AllInv
<1>7. CASE ConvertFails
    <2>1. noise = 0 /\ bus = {}
        BY <1>7, <1>2 DEF ConvertFails, Unseen
    <2> QED
        BY <1>7, <2>1 DEF ConvertFails, AllInv, args
<1>8. CASE GivesUp
    <2>1. noise = 0 /\ pc = "convert" /\ pc' = "done" /\ retry >= MaxRetry
          /\ UNCHANGED <<bus, pullUp, found, retry>>
        BY <1>8 DEF GivesUp, args
    <2>2. bus = {} /\ found = <<>>
        BY <1>1, <2>1 DEF AllInv
    <2> QED
        BY <2>1, <2>2 DEF AllInv
<1>9. CASE Start
    <2>1. /\ noise = 0 /\ pc = "scan" /\ pc' = "search" /\ NextBit # Ended
          /\ id' = Advance(ID, NextBit) /\ last' = -1 /\ bit' = 0 /\ on' = bus
          /\ UNCHANGED <<bus, found, ID, NextBit, retry>>
        BY <1>9, <1>2 DEF Start, LastAtStart, Ended, args
    <2>2. BetweenInv /\ BetweenInv'
        BY <2>1, BetweenStays DEF AllInv
    <2>3. NextBit \in 0..Width
        BY <2>1 DEF TypeInv, SearchType, Ended
    <2>4. LastTurn(id, last, bit)'
        BY <2>1 DEF LastTurn
    <2>5. Low0' \in Nat
        BY <2>1, <2>3 DEF Low0
    <2>6. on' = {s \in bus' : Same(s, id', bit')}
        BY <2>1 DEF Same
    <2>7. DuringInv'
        BY <2>1, <2>2, <2>3, <2>4, <2>5, <2>6 DEF DuringInv, BetweenInv
    <2> QED
        BY <2>1, <2>2, <2>7 DEF AllInv, Ended
<1>10. CASE ResetFails
    <2>1. noise = 0 /\ bus = {} /\ pc = "scan"
        BY <1>10, <1>2 DEF ResetFails, Unseen
    <2> QED
        BY <2>1 DEF AllInv, BetweenInv
<1>11. CASE ScanEnds
    <2>1. /\ noise = 0 /\ pc = "scan" /\ pc' = "done" /\ (retry >= MaxRetry \/ NextBit = Ended)
          /\ UNCHANGED <<bus, found, ID, NextBit, retry>>
        BY <1>11 DEF ScanEnds, args
    <2>2. BetweenInv /\ bus # {} /\ retry = 0
        BY <2>1 DEF AllInv, BetweenInv
    <2>3. BetweenInv' /\ NextBit' = Ended
        BY <1>1, <2>1, <2>2, BetweenStays
    <2> QED
        BY <2>1, <2>2, <2>3 DEF AllInv, Ended
<1>12. ASSUME NEW r, NEW hit, pc = "search", ReadSlots(r, hit)
      PROVE  /\ noise = 0 /\ r = Slots /\ hit = {} /\ BetweenInv /\ DuringInv /\ NextBit # Ended /\ retry = 0
             /\ \A s \in on : s[bit] \in {0, 1} \/ bit = Width
    <2>1. noise = 0 /\ r = Slots /\ hit = {}
        BY <1>12, <1>3
    <2>2. BetweenInv /\ DuringInv /\ NextBit # Ended /\ retry = 0
        BY <1>12, <2>1 DEF AllInv, BetweenInv
    <2>3. \A s \in on : s \in Code
        BY SearchAssumption DEF TypeInv, SearchType, ArgsType
    <2>4. bit = Width \/ bit \in Bits
        BY SearchAssumption DEF TypeInv, SearchType, Bits
    <2> QED
        BY <2>1, <2>2, <2>3, <2>4 DEF Code
<1>13. CASE Choose
    <2>1. /\ pc = "search" /\ bit < Width
          /\ \E hit \in SUBSET on : ReadSlots(<<0, 0>>, hit) /\ WriteBit(id[bit], hit)
          /\ last' = (IF id[bit] = 0 THEN bit ELSE last)
          /\ UNCHANGED <<bus, pc, found, ID, NextBit, id, retry>>
        BY <1>13 DEF Choose, args
    <2>2. /\ noise = 0 /\ Slots = <<0, 0>> /\ BetweenInv /\ DuringInv /\ NextBit # Ended /\ retry = 0
          /\ WriteBit(id[bit], {})
        BY <1>12, <2>1
    <2>3. Low(0) = 0 /\ Low(1) = 0
        BY <2>2 DEF Slots
    <2>4. (\E s \in on : s[bit] = 0) /\ (\E s \in on : s[bit] = 1)
        BY <2>3 DEF Low
    <2>5. id[bit] \in {0, 1} /\ id' = [id EXCEPT ![bit] = id[bit]]
        BY <2>1, SearchAssumption DEF TypeInv, SearchType, Code, Bits
    <2>6. DuringInv'
        BY <2>1, <2>2, <2>4, <2>5, TurnFinds
    <2> QED
        BY <2>1, <2>2, <2>6, BetweenStays DEF AllInv, Ended
<1>14. CASE Follow
    <2>1. PICK v \in {0, 1}, hit \in SUBSET on :
              ReadSlots(<<v, 1 - v>>, hit) /\ WriteBit(v, hit) /\ id' = [id EXCEPT ![bit] = v]
        BY <1>14 DEF Follow
    <2>2. pc = "search" /\ bit < Width /\ UNCHANGED <<bus, pc, found, ID, NextBit, last, retry>>
        BY <1>14 DEF Follow, args
    <2>3. /\ noise = 0 /\ Slots = <<v, 1 - v>> /\ BetweenInv /\ DuringInv /\ NextBit # Ended
          /\ retry = 0 /\ (\A s \in on : s[bit] \in {0, 1} \/ bit = Width) /\ WriteBit(v, {})
        BY <1>12, <2>1, <2>2
    <2>4. Low(0) = v /\ Low(1) = 1 - v
        BY <2>3 DEF Slots
    <2>5. \A s \in on : s[bit] = v
        <3>1. bit # Width
            BY <2>2, SearchAssumption
        <3> QED
            BY <2>3, <2>4, <3>1 DEF Low
    <2>6. DuringInv'
        BY <2>1, <2>2, <2>3, <2>5, TurnFinds
    <2> QED
        BY <2>2, <2>3, <2>6, BetweenStays DEF AllInv, Ended
<1>15. CASE Lost
    <2>1. pc = "search" /\ bit < Width /\ ReadSlots(<<1, 1>>, {})
        BY <1>15 DEF Lost
    <2>2. Slots = <<1, 1>> /\ on # {} /\ \A s \in on : s[bit] \in {0, 1} \/ bit = Width
        BY <1>12, <2>1 DEF DuringInv
    <2>3. Low(0) = 1 /\ Low(1) = 1
        BY <2>2 DEF Slots
    <2>4. bit # Width
        BY <2>1, SearchAssumption
    <2> QED
        BY <2>2, <2>3, <2>4 DEF Low
<1>16. ASSUME Whole, noise = 0 PROVE BetweenInv /\ DuringInv /\ NextBit # Ended /\ bit = Width /\ id \in bus
    <2>1. BetweenInv /\ DuringInv /\ NextBit # Ended /\ bit = Width
        BY <1>16 DEF AllInv, Whole
    <2> QED
        BY <2>1, CodeIsNext
<1>17. CASE CheckFails
    <2>1. Whole /\ ~ChecksOut(id) /\ noise = 0
        BY <1>17 DEF CheckFails, CheckPasses
    <2>2. id \in bus
        BY <1>16, <2>1
    <2> QED
        BY <2>1, <2>2, SearchAssumption DEF TypeInv, ArgsType
<1>18. CASE List \/ ReadSensor
    <2>1. /\ Whole /\ noise = 0 /\ Commit /\ pc = "search" /\ pc' = "scan" /\ UNCHANGED bus
          /\ retry' \in {0, retry}
        BY <1>18 DEF List, ReadSensor, Commit, Whole, args
    <2>2. BetweenInv'
        BY <1>16, <2>1, CommitFinds
    <2>3. retry = 0
        BY <2>1 DEF AllInv, BetweenInv
    <2> QED
        BY <2>1, <2>2, <2>3 DEF AllInv
<1>19. CASE ReadSensorFails
    <2>1. /\ Whole /\ noise = 0 /\ pc' = "scan" /\ retry' = 0
          /\ UNCHANGED <<bus, found, ID, NextBit>>
        BY <1>19, <1>2 DEF ReadSensorFails, args
    <2>2. BetweenInv'
        BY <1>16, <2>1, BetweenStays
    <2> QED
        BY <2>1, <2>2 DEF AllInv
<1>20. CASE UNCHANGED vars
    BY <1>20 DEF vars, args, searchVars, AllInv, BetweenInv, DuringInv, Found, Resumes, LastTurn, Turn,
       Low0
<1> QED
    BY <1>4, <1>5, <1>6, <1>7, <1>8, <1>9, <1>10, <1>11, <1>13, <1>14, <1>15, <1>17, <1>18, <1>19, <1>20
       DEF Next

\* Without noise the search prints every sensor, each one once and in the order of its
\* turns, however many there are.
THEOREM SearchFindsAll == Spec => []FindsAll
<1>1. Init => AllInv
    BY SearchAssumption DEF Init, AllInv
<1>2. TypeInv /\ AllInv => FindsAll
    <2> SUFFICES ASSUME TypeInv, AllInv, noise = 0
                 PROVE  /\ \A i, j \in DOMAIN found : i < j => Before(found[i], found[j])
                        /\ pc = "done" /\ pullUp => \A s \in bus : \E i \in DOMAIN found : found[i] = s
        BY DEF FindsAll, Readable
    <2>1. found = <<>> \/ BetweenInv
        BY DEF AllInv, TypeInv, SearchType
    <2>2. \A i, j \in DOMAIN found : i < j => Before(found[i], found[j])
        BY <2>1 DEF BetweenInv
    <2>3. ASSUME pc = "done", pullUp, NEW s \in bus PROVE \E i \in DOMAIN found : found[i] = s
        <3>1. BetweenInv /\ NextBit = -1
            BY <2>3 DEF AllInv, Ended
        <3>2. Resumes /\ Width \in Nat
            BY <3>1, SearchAssumption DEF BetweenInv, Found
        <3>3. \A m \in Bits : ~Turn(ID, m)
            BY <3>1, <3>2 DEF Resumes, LastTurn, Bits
        <3>4. ~Before(ID, s)
            BY <3>3, BeforeTurns DEF TypeInv, SearchType
        <3> QED
            BY <3>2, <3>4 DEF Resumes
    <2> QED
        BY <2>2, <2>3
<1> QED
    BY <1>1, <1>2, InitTypes, StepTypes, StepAll, PTL DEF Spec
=============================================================================
