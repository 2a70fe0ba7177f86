---------------------------- MODULE BisectProofs ----------------------------
(***************************************************************************)
(* Theorems about Bisect, for any number of builds, terminals and mishaps. *)
(* A state of the file is written whole, and by a command that made it from*)
(* one state it read whole: so what holds of the file rests on what every  *)
(* command keeps of the one state it has in hand.                          *)
(***************************************************************************)
EXTENDS Bisect, FiniteSetTheorems, TLAPS

(***************************************************************************)
(* Types                                                                   *)
(***************************************************************************)

\* What a command is about to save is a state, and what it flashes a build.
InHand ==
    \A t \in Terms :
        /\ pc[t] \in {"save", "saveNext", "flash"} => mem[t] \in State
        /\ pc[t] \in {"saveNext", "flash"} => mem[t].current \in Builds

TypeInv == TypeOK /\ InHand

\* What cmd_start writes.
NewState(g, b) ==
    [good |-> g, bad |-> b, window |-> Slice(g, b), current |-> 0,
     verdicts |-> [x \in Builds |-> IF x = g THEN "good" ELSE IF x = b THEN "bad" ELSE "null"]]

LEMMA NewStateType ==
    ASSUME NEW g \in Builds, NEW b \in Builds
    PROVE  NewState(g, b) \in State
<1>1. Slice(g, b) \in SUBSET Builds
    BY ConstantsAssumption DEF Slice, Builds
<1>2. [x \in Builds |-> IF x = g THEN "good" ELSE IF x = b THEN "bad" ELSE "null"]
          \in [Builds -> Verdicts \cup {"null"}]
    BY DEF Verdicts
<1> QED
    BY <1>1, <1>2 DEF NewState, State

\* narrow, field by field.
LEMMA NarrowFields ==
    ASSUME NEW s \in State, s.current # 0, NEW v \in Verdicts
    PROVE  /\ Narrow(s, v) \in State
           /\ Narrow(s, v).current = s.current
           /\ Narrow(s, v).verdicts = [s.verdicts EXCEPT ![s.current] = v]
           /\ Narrow(s, v).good = (IF v = "good" THEN s.current ELSE s.good)
           /\ Narrow(s, v).bad = (IF v = "bad" THEN s.current ELSE s.bad)
           /\ Narrow(s, v).window = (IF v = "good" THEN Newer(s)
                                     ELSE IF v = "bad" THEN Older(s)
                                     ELSE s.window \ {s.current})
<1> DEFINE c == s.current
           w == [s.verdicts EXCEPT ![c] = v]
<1>1. c \in Builds /\ s.verdicts \in [Builds -> Verdicts \cup {"null"}] /\ s.window \in SUBSET Builds
    BY DEF State
<1>2. w \in [Builds -> Verdicts \cup {"null"}]
    BY <1>1
<1>3. Newer(s) \in SUBSET Builds /\ Older(s) \in SUBSET Builds /\ s.window \ {c} \in SUBSET Builds
    BY <1>1 DEF Newer, Older
<1>4. s = [good |-> s.good, bad |-> s.bad, window |-> s.window, verdicts |-> s.verdicts,
           current |-> s.current]
    BY DEF State
<1>5. Marked(s, v) = [good |-> s.good, bad |-> s.bad, window |-> s.window, verdicts |-> w,
                      current |-> c]
    BY <1>4 DEF Marked, State
<1> HIDE DEF w
<1>6. CASE v = "good"
    <2>1. Narrow(s, v) = [Marked(s, v) EXCEPT !.good = s.current, !.window = Newer(s)]
        BY <1>6, Zenon DEF Narrow
    <2>2. [Marked(s, v) EXCEPT !.good = c] =
          [good |-> c, bad |-> s.bad, window |-> s.window, verdicts |-> w, current |-> c]
        BY <1>5
    <2>3. ASSUME NEW q, q = [good |-> c, bad |-> s.bad, window |-> s.window, verdicts |-> w, current |-> c]
          PROVE  [q EXCEPT !.window = Newer(s)] =
                 [good |-> c, bad |-> s.bad, window |-> Newer(s), verdicts |-> w, current |-> c]
        BY <2>3
    <2>4. Narrow(s, v) = [[Marked(s, v) EXCEPT !.good = c] EXCEPT !.window = Newer(s)]
        BY <2>1, Zenon
    <2>5. Narrow(s, v) = [good |-> c, bad |-> s.bad, window |-> Newer(s), verdicts |-> w, current |-> c]
        BY <2>2, <2>3, <2>4, Zenon
    <2> QED
        BY <1>1, <1>2, <1>3, <1>6, <2>5 DEF State, w
<1>7. CASE v = "bad"
    <2>1. Narrow(s, v) = [Marked(s, v) EXCEPT !.bad = s.current, !.window = Older(s)]
        BY <1>7, Zenon DEF Narrow
    <2>2. [Marked(s, v) EXCEPT !.bad = c] =
          [good |-> s.good, bad |-> c, window |-> s.window, verdicts |-> w, current |-> c]
        BY <1>5
    <2>3. ASSUME NEW q, q = [good |-> s.good, bad |-> c, window |-> s.window, verdicts |-> w, current |-> c]
          PROVE  [q EXCEPT !.window = Older(s)] =
                 [good |-> s.good, bad |-> c, window |-> Older(s), verdicts |-> w, current |-> c]
        BY <2>3
    <2>4. Narrow(s, v) = [[Marked(s, v) EXCEPT !.bad = c] EXCEPT !.window = Older(s)]
        BY <2>1, Zenon
    <2>5. Narrow(s, v) = [good |-> s.good, bad |-> c, window |-> Older(s), verdicts |-> w, current |-> c]
        BY <2>2, <2>3, <2>4, Zenon
    <2> QED
        BY <1>1, <1>2, <1>3, <1>7, <2>5 DEF State, w
<1>8. CASE v = "skip"
    <2>1. Narrow(s, v) = [Marked(s, v) EXCEPT !.window = @ \ {s.current}]
        BY <1>8, Zenon DEF Narrow
    <2>2. Narrow(s, v) = [good |-> s.good, bad |-> s.bad, window |-> s.window \ {c}, verdicts |-> w,
                          current |-> c]
        BY <1>5, <2>1
    <2> QED
        BY <1>1, <1>2, <1>3, <1>8, <2>2 DEF State, w
<1> QED
    BY <1>6, <1>7, <1>8 DEF Verdicts

\* What iterate holds when it picked b.
LEMMA PickedFields ==
    ASSUME NEW s \in State, NEW b \in Builds, NEW p, p = [s EXCEPT !.current = b]
    PROVE  /\ p \in State /\ p.current = b /\ p.verdicts = s.verdicts
           /\ p.good = s.good /\ p.bad = s.bad /\ p.window = s.window
BY DEF State

LEMMA InitTypes == Init => TypeInv
BY ConstantsAssumption DEF Init, TypeInv, TypeOK, InHand, Builds

LEMMA ChangedType == Changed => stale' \in [Terms -> BOOLEAN]
<1>1. \A t \in Terms : (pc[t] \in {"save", "saveNext"}) \in BOOLEAN
    OBVIOUS
<1> QED
    BY <1>1, Zenon DEF Changed

LEMMA SavedState == TypeInv /\ Saved => file \in State
BY DEF TypeInv, TypeOK, Saved

LEMMA JudgesType == TypeOK => Truth(file.current) \in Verdicts /\ Finding \in Verdicts
BY DEF Truth, Finding, Verdicts

\* The five ways a state is taken in hand or written.
LEMMA StepTypes == TypeInv /\ [Next]_vars => TypeInv'
<1> SUFFICES ASSUME TypeInv, [Next]_vars PROVE TypeInv'
    OBVIOUS
<1> USE DEF TypeInv, TypeOK
<1>1. CASE UNCHANGED vars
    BY <1>1 DEF vars, session, target, InHand
<1>2. ASSUME NEW t \in Terms, NEW s \in State, NEW label \in {"save", "saveNext"}, Hold(t, s, label),
             label = "saveNext" => s.current \in Builds
      PROVE  /\ pc' \in [Terms -> {"idle", "save", "iterate", "saveNext", "flash", "wait", "reset"}]
             /\ mem' \in [Terms -> State \cup {None}] /\ stale' \in [Terms -> BOOLEAN] /\ InHand'
    BY <1>2 DEF Hold, InHand
<1>3. ASSUME NEW t \in Terms, Save(t) \/ SaveNext(t) PROVE TypeInv'
    <2>1. file' = mem[t] /\ mem[t] \in State
        BY <1>3 DEF Save, SaveNext, SaveState, InHand
    <2>2. stale' \in [Terms -> BOOLEAN] /\ hist' \subseteq {"mistaken", "remarked", "raced"}
        BY <1>3, ChangedType DEF Save, SaveNext, SaveState
    <2>3. CASE Save(t)
        BY <2>1, <2>2, <2>3 DEF Save, SaveState, InHand, target
    <2>4. CASE SaveNext(t)
        <3>1. pc' = [pc EXCEPT ![t] = "flash"] /\ mem' = mem
            BY <2>4 DEF SaveNext, SaveState
        <3>2. mem[t].current \in Builds
            BY <2>4 DEF SaveNext, InHand
        <3>3. InHand'
            BY <2>1, <3>1, <3>2 DEF InHand
        <3> QED
            BY <2>1, <2>2, <2>4, <3>1, <3>3 DEF SaveNext, SaveState, target
    <2> QED
        BY <1>3, <2>3, <2>4
<1>4. ASSUME \E t \in Terms : Begins(t) PROVE mishaps' \in 0..MaxMishaps
    BY <1>4, ConstantsAssumption DEF Begins
<1>5. ASSUME NEW t \in Terms, CmdStart(t) PROVE TypeInv'
    <2>1. PICK g \in Builds, b \in Builds : Hold(t, NewState(g, b), "save")
        BY <1>5, ConstantsAssumption DEF CmdStart, NewState, Builds
    <2>2. mishaps' \in 0..MaxMishaps
        BY <1>4, <1>5 DEF CmdStart
    <2>3. hist' \subseteq {"mistaken", "remarked", "raced"}
        BY <1>5 DEF CmdStart
    <2> QED
        BY <1>2, <1>5, <2>1, <2>2, <2>3, NewStateType DEF CmdStart, target
<1>6. ASSUME NEW t \in Terms, CmdVerdict(t) PROVE TypeInv'
    <2>1. PICK v \in Verdicts : Hold(t, Narrow(file, v), "save")
        BY <1>6, JudgesType DEF CmdVerdict, Verdicts
    <2>2. Narrow(file, v) \in State
        BY <1>6, SavedState, NarrowFields DEF CmdVerdict
    <2>3. mishaps' \in 0..MaxMishaps
        BY <1>4, <1>6 DEF CmdVerdict
    <2>4. hist' \subseteq {"mistaken", "remarked", "raced"}
        BY <1>6 DEF CmdVerdict
    <2> QED
        BY <1>2, <1>6, <2>1, <2>2, <2>3, <2>4 DEF CmdVerdict, target
<1>7. ASSUME NEW t \in Terms, CmdResume(t) PROVE TypeInv'
    <2>1. mishaps' \in 0..MaxMishaps
        BY <1>4, <1>7 DEF CmdResume
    <2> QED
        BY <1>7, <2>1 DEF CmdResume, InHand, target
<1>8. ASSUME NEW t \in Terms, Iterate(t) PROVE TypeInv'
    <2>1. CASE \E b \in Builds : Saved /\ Hold(t, [file EXCEPT !.current = b], "saveNext")
        <3>1. PICK b \in Builds : Saved /\ Hold(t, [file EXCEPT !.current = b], "saveNext")
            BY <2>1
        <3>2. [file EXCEPT !.current = b] \in State /\ [file EXCEPT !.current = b].current = b
            BY <3>1, SavedState, PickedFields
        <3> QED
            BY <1>2, <1>8, <3>1, <3>2 DEF Iterate, target
    <2>2. CASE pc' = [pc EXCEPT ![t] = "idle"] /\ UNCHANGED <<mem, stale>>
        BY <1>8, <2>2 DEF Iterate, InHand, target
    <2> QED
        BY <1>8, <2>1, <2>2 DEF Iterate
<1>9. ASSUME NEW t \in Terms, RemoteFlash(t) PROVE TypeInv'
    <2>1. mem[t] \in State
        BY <1>9 DEF RemoteFlash, InHand
    <2>2. mem[t].current \in Builds
        BY <1>9 DEF RemoteFlash, InHand
    <2>3. flashing' \in Builds \cup {None}
        BY <1>9, <2>2 DEF RemoteFlash
    <2>4. InHand'
        BY <1>9 DEF RemoteFlash, InHand
    <2> QED
        BY <1>9, <2>3, <2>4 DEF RemoteFlash
<1>10. ASSUME NEW t \in Terms, WaitEnds(t) \/ ResetEnds(t) PROVE TypeInv'
    <2>1. InHand'
        BY <1>10 DEF WaitEnds, ResetEnds, InHand
    <2> QED
        BY <1>10, <2>1, ChangedType DEF WaitEnds, ResetEnds, target
<1>11. ASSUME NEW t \in Terms, CmdReset(t) PROVE TypeInv'
    <2>1. mishaps' \in 0..MaxMishaps
        BY <1>4, <1>11 DEF CmdReset
    <2>2. N \in Builds
        BY ConstantsAssumption DEF Builds
    <2> QED
        BY <1>11, <2>1, <2>2 DEF CmdReset, InHand, target
<1>12. ASSUME NEW t \in Terms, Crash(t) PROVE TypeInv'
    <2>1. InHand'
        BY <1>12 DEF Crash, InHand
    <2>2. mishaps' \in 0..MaxMishaps
        BY <1>12, ConstantsAssumption DEF Crash
    <2>3. file' \in State \cup {None, Empty} /\ stale' \in [Terms -> BOOLEAN]
        BY <1>12, ChangedType DEF Crash
    <2> QED
        BY <1>12, <2>1, <2>2, <2>3 DEF Crash, target
<1>13. CASE CameraBoots
    BY <1>13 DEF CameraBoots, InHand, session
<1>14. CASE Recovered
    BY <1>14, ConstantsAssumption DEF Recovered, InHand, session, Builds
<1> QED
    BY <1>1, <1>3, <1>5, <1>6, <1>7, <1>8, <1>9, <1>10, <1>11, <1>12, <1>13, <1>14 DEF Next, Step

\* Every variable keeps its type: what is read from the file is a state the script wrote.
THEOREM TypeCorrect == Spec => []TypeOK
<1>1. Init /\ [][Next]_vars => []TypeInv
    BY InitTypes, StepTypes, PTL
<1> QED
    BY <1>1, PTL DEF Spec, TypeInv

(***************************************************************************)
(* What every state keeps.  A command changes a state in one of three ways:*)
(* it makes a new one, it narrows one, or it picks the next candidate.     *)
(***************************************************************************)
InBracket(s) == s.good < firstBad /\ firstBad <= s.bad

BracketInv ==
    Clean({"mistaken"}) =>
        /\ Saved => InBracket(file)
        /\ \A t \in Terms : pc[t] \in {"save", "saveNext"} => InBracket(mem[t])

\* Between good and bad nothing is lost; the window lies in between; and the candidate
\* is in the window until it is judged.
Inside(s, b) == s.good < b /\ b < s.bad
Kept(s) ==
    /\ s.good < s.bad
    /\ \A b \in Builds : Inside(s, b) => b \in Unverified(s) \/ s.verdicts[b] = "skip"
    /\ \A b \in s.window : s.good <= b /\ b <= s.bad
    /\ s.verdicts[s.good] = "good" /\ s.verdicts[s.bad] = "bad"
    /\ s.current # 0 =>
          /\ s.verdicts[s.current] = "null" => s.current \in s.window
          /\ s.verdicts[s.current] = "good" => s.good = s.current
          /\ s.verdicts[s.current] = "bad" => s.bad = s.current

KeptInv ==
    Clean({"remarked"}) =>
        /\ Saved => Kept(file)
        /\ \A t \in Terms : pc[t] \in {"save", "saveNext"} => Kept(mem[t])

LEMMA BracketNarrow ==
    ASSUME TypeOK, NEW s \in State, s.current # 0, InBracket(s),
           NEW v, v \in {Truth(s.current), "skip"}
    PROVE  InBracket(Narrow(s, v))
<1>1. s.current \in Nat /\ firstBad \in Nat /\ s.good \in Nat /\ s.bad \in Nat
    BY ConstantsAssumption DEF State, Builds, TypeOK
<1>2. v \in Verdicts
    BY DEF Truth, Verdicts
<1>3. /\ Narrow(s, v).good = (IF v = "good" THEN s.current ELSE s.good)
      /\ Narrow(s, v).bad = (IF v = "bad" THEN s.current ELSE s.bad)
    BY <1>2, NarrowFields
<1>4. v = "good" => s.current < firstBad
    BY DEF Truth
<1>5. v = "bad" => firstBad <= s.current
    BY <1>1 DEF Truth
<1> QED
    BY <1>1, <1>3, <1>4, <1>5 DEF InBracket

LEMMA KeptNew ==
    ASSUME NEW g \in Builds, NEW b \in Builds, g < b
    PROVE  Kept(NewState(g, b))
<1> DEFINE s == NewState(g, b)
<1>1. /\ s.good = g /\ s.bad = b /\ s.window = Slice(g, b) /\ s.current = 0
      /\ \A x \in Builds : s.verdicts[x] = IF x = g THEN "good" ELSE IF x = b THEN "bad" ELSE "null"
    BY DEF NewState
<1> HIDE DEF s
<1>2. Builds \subseteq Nat /\ \A x \in Builds : x <= N
    BY ConstantsAssumption DEF Builds
<1>3. s.verdicts[g] = "good" /\ s.verdicts[b] = "bad"
    BY <1>1, <1>2
<1>4. ASSUME NEW x \in Builds, Inside(s, x) PROVE x \in Unverified(s)
    <2>1. g < x /\ x < b /\ x \in Nat /\ g \in Nat /\ b \in Nat /\ N \in Nat /\ x <= N
        BY <1>1, <1>2, <1>4, ConstantsAssumption DEF Inside
    <2>2. x \in Slice(g, b)
        BY <2>1 DEF Slice
    <2>3. s.verdicts[x] = "null"
        BY <1>1, <2>1
    <2> QED
        BY <1>1, <2>2, <2>3 DEF Unverified
<1>5. ASSUME NEW x \in s.window PROVE s.good <= x /\ x <= s.bad
    <2>1. x \in Slice(g, b) /\ g \in Nat /\ b \in Nat /\ N \in Nat
        BY <1>1, <1>2, <1>5, ConstantsAssumption
    <2>2. g <= x /\ x <= b
        BY <2>1 DEF Slice
    <2> QED
        BY <1>1, <2>2
<1>6. Kept(s)
    BY <1>1, <1>3, <1>4, <1>5 DEF Kept
<1> QED
    BY <1>6 DEF s

LEMMA KeptPicked ==
    ASSUME NEW s \in State, Kept(s), NEW b \in Unverified(s), NEW p, p = [s EXCEPT !.current = b]
    PROVE  Kept(p)
<1>1. b \in Builds /\ b \in s.window /\ s.verdicts[b] = "null"
    BY DEF Unverified, State
<1>2. /\ p.current = b /\ p.verdicts = s.verdicts
      /\ p.good = s.good /\ p.bad = s.bad /\ p.window = s.window
    BY <1>1, PickedFields
<1> QED
    BY <1>1, <1>2, Zenon DEF Kept, Inside, Unverified

\* A verdict on a candidate that has none yet, or the same one again.
LEMMA KeptNarrow ==
    ASSUME NEW s \in State, Kept(s), s.current # 0, NEW v \in Verdicts,
           s.verdicts[s.current] \in {"null", v}
    PROVE  Kept(Narrow(s, v))
<1> DEFINE c == s.current
           n == Narrow(s, v)
<1>1. /\ n.current = c /\ n.verdicts = [s.verdicts EXCEPT ![c] = v]
      /\ n.good = (IF v = "good" THEN c ELSE s.good)
      /\ n.bad = (IF v = "bad" THEN c ELSE s.bad)
      /\ n.window = (IF v = "good" THEN Newer(s) ELSE IF v = "bad" THEN Older(s)
                      ELSE s.window \ {c})
    BY NarrowFields
<1>2. /\ c \in Builds /\ s.good \in Builds /\ s.bad \in Builds
      /\ c \in Nat /\ s.good \in Nat /\ s.bad \in Nat
      /\ \A b \in Builds : b \in Nat
      /\ \A b \in s.window : b \in Builds /\ b \in Nat
    BY ConstantsAssumption DEF State, Builds
<1>3. s.verdicts \in [Builds -> Verdicts \cup {"null"}]
    BY DEF State
<1>4. n.verdicts[c] = v /\ \A b \in Builds \ {c} : n.verdicts[b] = s.verdicts[b]
    BY <1>1, <1>2, <1>3
<1> HIDE DEF n, c
<1> USE <1>2
<1>5. CASE v = "good"
    <2>1. n.good = c /\ n.bad = s.bad /\ n.window = Newer(s)
        BY <1>1, <1>5
    <2>2. c # s.bad /\ s.good <= c /\ c <= s.bad
        BY <1>5 DEF Kept, c
    <2>3. ASSUME NEW b \in Builds, Inside(n, b) PROVE b \in Unverified(n) \/ n.verdicts[b] = "skip"
        <3>1. b \in Nat /\ c < b /\ b < s.bad
            BY <2>1, <2>3 DEF Inside
        <3>2. Inside(s, b) /\ b # c
            BY <2>2, <3>1 DEF Inside
        <3>3. n.verdicts[b] = s.verdicts[b]
            BY <1>4, <3>2
        <3>4. b \in s.window => b \in n.window
            BY <2>1, <3>1 DEF Newer, c
        <3> QED
            BY <3>2, <3>3, <3>4 DEF Kept, Unverified
    <2>4. ASSUME NEW b \in n.window PROVE n.good <= b /\ b <= n.bad
        <3>1. b \in s.window
            BY <2>1, <2>4 DEF Newer
        <3>2. s.good <= b /\ b <= s.bad
            BY <3>1 DEF Kept
        <3>3. c <= b
            <4>1. CASE c \in s.window
                BY <2>1, <2>4, <4>1 DEF Newer, c
            <4>2. CASE c \notin s.window
                BY <1>5, <3>2, <4>2 DEF Kept, c
            <4> QED
                BY <4>1, <4>2
        <3> QED
            BY <2>1, <2>2, <3>1, <3>2, <3>3
    <2>5. n.verdicts[n.good] = "good" /\ n.verdicts[n.bad] = "bad"
        BY <1>4, <1>5, <2>1, <2>2 DEF Kept
    <2>6. n.current # 0 =>
              /\ n.verdicts[n.current] = "null" => n.current \in n.window
              /\ n.verdicts[n.current] = "good" => n.good = n.current
              /\ n.verdicts[n.current] = "bad" => n.bad = n.current
        BY <1>1, <1>4, <1>5, <2>1
    <2>7. \A b \in Builds : Inside(n, b) => b \in Unverified(n) \/ n.verdicts[b] = "skip"
        BY <2>3
    <2>8. \A b \in n.window : n.good <= b /\ b <= n.bad
        BY <2>4
    <2>10. n.good < n.bad
        BY <2>1, <2>2 DEF Kept
    <2>9. Kept(n)
        BY <2>10, <2>5, <2>6, <2>7, <2>8, Zenon DEF Kept
    <2> QED
        BY <2>9 DEF n
<1>6. CASE v = "bad"
    <2>1. n.good = s.good /\ n.bad = c /\ n.window = Older(s)
        BY <1>1, <1>6
    <2>2. c # s.good /\ (s.verdicts[c] = "null" => s.good < c /\ c <= s.bad)
          /\ (s.verdicts[c] # "null" => c = s.bad)
        BY <1>6 DEF Kept, c
    <2>3. ASSUME NEW b \in Builds, Inside(n, b) PROVE b \in Unverified(n) \/ n.verdicts[b] = "skip"
        <3>1. b \in Nat /\ s.good < b /\ b < c
            BY <2>1, <2>3 DEF Inside
        <3>2. Inside(s, b) /\ b # c
            BY <2>2, <3>1 DEF Inside
        <3>3. n.verdicts[b] = s.verdicts[b]
            BY <1>4, <3>2
        <3>4. b \in s.window => b \in n.window
            <4>1. c \in s.window => b < c
                BY <2>1, <2>2, <2>3 DEF Inside, Kept
            <4> QED
                BY <2>1, <4>1 DEF Older, c
        <3> QED
            BY <3>2, <3>3, <3>4 DEF Kept, Unverified
    <2>4. ASSUME NEW b \in n.window PROVE n.good <= b /\ b <= n.bad
        <3>1. b \in s.window /\ (c \in s.window => b < c)
            BY <2>1, <2>4 DEF Older, c
        <3>2. s.good <= b /\ b <= s.bad
            BY <3>1 DEF Kept
        <3>3. c \in s.window \/ c = s.bad
            BY <1>6 DEF Kept, c
        <3> QED
            BY <2>1, <3>1, <3>2, <3>3
    <2>5. n.verdicts[n.good] = "good" /\ n.verdicts[n.bad] = "bad"
        BY <1>4, <1>6, <2>1, <2>2 DEF Kept
    <2>6. n.current # 0 =>
              /\ n.verdicts[n.current] = "null" => n.current \in n.window
              /\ n.verdicts[n.current] = "good" => n.good = n.current
              /\ n.verdicts[n.current] = "bad" => n.bad = n.current
        BY <1>1, <1>4, <1>6, <2>1
    <2>7. \A b \in Builds : Inside(n, b) => b \in Unverified(n) \/ n.verdicts[b] = "skip"
        BY <2>3
    <2>8. \A b \in n.window : n.good <= b /\ b <= n.bad
        BY <2>4
    <2>10. n.good < n.bad
        BY <2>1, <2>2 DEF Kept
    <2>9. Kept(n)
        BY <2>10, <2>5, <2>6, <2>7, <2>8, Zenon DEF Kept
    <2> QED
        BY <2>9 DEF n
<1>7. CASE v = "skip"
    <2>1. n.good = s.good /\ n.bad = s.bad /\ n.window = s.window \ {c}
        BY <1>1, <1>7
    <2>2. c # s.good /\ c # s.bad
        BY <1>7 DEF Kept, c
    <2>3. ASSUME NEW b \in Builds, Inside(n, b) PROVE b \in Unverified(n) \/ n.verdicts[b] = "skip"
        <3>1. CASE b = c
            BY <1>4, <1>7, <3>1
        <3>2. CASE b # c
            BY <1>4, <2>1, <2>3, <3>2 DEF Kept, Inside, Unverified
        <3> QED
            BY <3>1, <3>2
    <2>4. ASSUME NEW b \in n.window PROVE n.good <= b /\ b <= n.bad
        BY <2>1, <2>4 DEF Kept
    <2>5. n.verdicts[n.good] = "good" /\ n.verdicts[n.bad] = "bad"
        BY <1>4, <1>7, <2>1, <2>2 DEF Kept
    <2>6. n.current # 0 =>
              /\ n.verdicts[n.current] = "null" => n.current \in n.window
              /\ n.verdicts[n.current] = "good" => n.good = n.current
              /\ n.verdicts[n.current] = "bad" => n.bad = n.current
        BY <1>1, <1>4, <1>7, <2>1
    <2>7. \A b \in Builds : Inside(n, b) => b \in Unverified(n) \/ n.verdicts[b] = "skip"
        BY <2>3
    <2>8. \A b \in n.window : n.good <= b /\ b <= n.bad
        BY <2>4
    <2>10. n.good < n.bad
        BY <2>1, <2>2 DEF Kept
    <2>9. Kept(n)
        BY <2>10, <2>5, <2>6, <2>7, <2>8, Zenon DEF Kept
    <2> QED
        BY <2>9 DEF n
<1> QED
    BY <1>5, <1>6, <1>7 DEF Verdicts, n

LEMMA InitKept == Init => BracketInv /\ KeptInv
BY DEF Init, BracketInv, KeptInv, Saved

\* What makes the history longer makes no promise stronger.
LEMMA HistoryGrows == ASSUME [Next]_vars PROVE hist \subseteq hist'
BY DEF Next, Step, vars, session, Save, SaveNext, SaveState, Iterate, RemoteFlash, WaitEnds, ResetEnds,
   CmdStart, CmdVerdict, CmdResume, CmdReset, Crash, CameraBoots, Recovered

\* The steps that neither write a state nor take one in hand.
Bystands ==
    /\ file' \in {file, None, Empty}
    /\ \A t \in Terms : pc'[t] \in {"save", "saveNext"} => pc[t] = pc'[t] /\ mem'[t] = mem[t]
    /\ UNCHANGED firstBad

LEMMA BystandsKeeps ==
    ASSUME BracketInv, KeptInv, hist \subseteq hist', Bystands
    PROVE  BracketInv' /\ KeptInv'
<1>1. /\ Clean({"mistaken"})' => Clean({"mistaken"})
      /\ Clean({"remarked"})' => Clean({"remarked"})
    BY DEF Clean
<1>2. Saved' => Saved /\ file' = file
    BY DEF Bystands, Saved
<1>3. BracketInv'
    BY <1>1, <1>2 DEF Bystands, BracketInv, InBracket
<1>4. ASSUME Clean({"remarked"})' PROVE Saved' => Kept(file)'
    BY <1>1, <1>2, <1>4 DEF KeptInv
<1>5. ASSUME Clean({"remarked"})', NEW t \in Terms, pc'[t] \in {"save", "saveNext"} PROVE Kept(mem[t])'
    BY <1>1, <1>5 DEF KeptInv, Bystands
<1> QED
    BY <1>3, <1>4, <1>5 DEF KeptInv

\* The steps that take one state in hand.
LEMMA HoldKeeps ==
    ASSUME TypeInv, BracketInv, KeptInv, hist \subseteq hist', UNCHANGED <<firstBad, file>>,
           NEW t \in Terms, NEW s \in State, NEW label, Hold(t, s, label),
           Clean({"mistaken"})' => InBracket(s), Clean({"remarked"})' => Kept(s)
    PROVE  BracketInv' /\ KeptInv'
<1>1. /\ Clean({"mistaken"})' => Clean({"mistaken"})
      /\ Clean({"remarked"})' => Clean({"remarked"})
    BY DEF Clean
<1>2. \A u \in Terms : IF u = t THEN mem'[u] = s ELSE mem'[u] = mem[u] /\ pc'[u] = pc[u]
    BY DEF Hold, TypeInv, TypeOK
<1>3. Saved' = Saved /\ file' = file /\ firstBad' = firstBad
    BY DEF Saved
<1>4. BracketInv'
    BY <1>1, <1>2, <1>3 DEF BracketInv, InBracket
<1>5. KeptInv'
    BY <1>1, <1>2, <1>3, Zenon DEF KeptInv
<1> QED
    BY <1>4, <1>5

LEMMA StepKept == TypeInv /\ BracketInv /\ KeptInv /\ [Next]_vars => BracketInv' /\ KeptInv'
<1> SUFFICES ASSUME TypeInv, BracketInv, KeptInv, [Next]_vars PROVE BracketInv' /\ KeptInv'
    OBVIOUS
<1>1. hist \subseteq hist'
    BY HistoryGrows
<1>2. pc \in [Terms -> {"idle", "save", "iterate", "saveNext", "flash", "wait", "reset"}]
    BY DEF TypeInv, TypeOK
<1>3. mem \in [Terms -> State \cup {None}]
    BY DEF TypeInv, TypeOK
<1>4. ASSUME NEW t \in Terms, Save(t) \/ SaveNext(t) PROVE BracketInv' /\ KeptInv'
    <2>1. /\ pc[t] \in {"save", "saveNext"} /\ file' = mem[t] /\ firstBad' = firstBad
          /\ \A u \in Terms : pc'[u] \in {"save", "saveNext"} => pc[u] = pc'[u] /\ mem'[u] = mem[u]
        BY <1>4, <1>2, <1>3 DEF Save, SaveNext, SaveState
    <2>2. /\ Clean({"mistaken"})' => Clean({"mistaken"})
          /\ Clean({"remarked"})' => Clean({"remarked"})
        BY <1>1 DEF Clean
    <2>3. BracketInv'
        BY <2>1, <2>2 DEF BracketInv, InBracket
    <2>4. KeptInv'
        BY <2>1, <2>2, Zenon DEF KeptInv
    <2> QED
        BY <2>3, <2>4
<1>5. ASSUME NEW t \in Terms, CmdStart(t) PROVE BracketInv' /\ KeptInv'
    <2>1. PICK g \in Builds, b \in Builds :
              /\ Cardinality(Slice(g, b)) >= 2
              /\ Hold(t, NewState(g, b), "save")
              /\ hist' = hist \cup (IF g < firstBad /\ firstBad <= b THEN {} ELSE {"mistaken"})
        BY <1>5 DEF CmdStart, NewState
    <2>2. g < b
        <3> SUFFICES ASSUME ~(g < b) PROVE FALSE
            OBVIOUS
        <3>1. g \in Nat /\ b \in Nat
            BY ConstantsAssumption DEF Builds
        <3>2. Slice(g, b) = {} \/ Slice(g, b) = {g}
            BY <3>1 DEF Slice
        <3>3. Cardinality(Slice(g, b)) \in {0, 1}
            BY <3>2, FS_Singleton, FS_EmptySet
        <3> QED
            BY <2>1, <3>3
    <2>3. Clean({"mistaken"})' => InBracket(NewState(g, b))
        BY <2>1 DEF Clean, InBracket, NewState
    <2> QED
        BY <1>1, <1>5, <2>1, <2>2, <2>3, NewStateType, KeptNew, HoldKeeps DEF CmdStart
<1>6. ASSUME NEW t \in Terms, CmdVerdict(t) PROVE BracketInv' /\ KeptInv'
    <2>1. PICK v \in {Finding, "skip"} :
              /\ Hold(t, Narrow(file, v), "save")
              /\ hist' = hist \cup (IF v \notin {Truth(file.current), "skip"} THEN {"mistaken"} ELSE {})
                               \cup (IF file.verdicts[file.current] \notin {"null", v}
                                     THEN {"remarked"} ELSE {})
        BY <1>6 DEF CmdVerdict
    <2>2. v \in Verdicts /\ file \in State /\ file.current # 0 /\ Saved
        BY <1>6, JudgesType, SavedState DEF CmdVerdict, Verdicts, TypeInv
    <2>3. ASSUME Clean({"mistaken"})' PROVE InBracket(Narrow(file, v))
        <3>1. Clean({"mistaken"}) /\ v \in {Truth(file.current), "skip"}
            BY <2>1, <2>3 DEF Clean
        <3> QED
            BY <2>2, <3>1, BracketNarrow DEF BracketInv, TypeInv
    <2>4. ASSUME Clean({"remarked"})' PROVE Kept(Narrow(file, v))
        <3>1. Clean({"remarked"}) /\ file.verdicts[file.current] \in {"null", v}
            BY <2>1, <2>4 DEF Clean
        <3> QED
            BY <2>2, <3>1, KeptNarrow DEF KeptInv
    <2>5. Narrow(file, v) \in State
        BY <2>2, NarrowFields
    <2> QED
        BY <1>1, <1>6, <2>1, <2>3, <2>4, <2>5, HoldKeeps DEF CmdVerdict
<1>7. ASSUME NEW t \in Terms, Iterate(t) PROVE BracketInv' /\ KeptInv'
    <2>1. ASSUME NEW b \in Builds, Saved, IsNext(b, file), Hold(t, [file EXCEPT !.current = b], "saveNext")
          PROVE  BracketInv' /\ KeptInv'
        <3> DEFINE p == [file EXCEPT !.current = b]
        <3>1. file \in State /\ b \in Unverified(file)
            BY <2>1, SavedState DEF IsNext
        <3>2. p \in State /\ p.good = file.good /\ p.bad = file.bad
            BY <3>1, PickedFields
        <3>3. UNCHANGED <<firstBad, file, hist>>
            BY <1>7 DEF Iterate
        <3>4. Clean({"mistaken"})' => InBracket(p)
            BY <2>1, <3>2, <3>3 DEF BracketInv, InBracket, Clean
        <3>5. Clean({"remarked"})' => Kept(p)
            BY <2>1, <3>1, <3>3, KeptPicked DEF KeptInv, Clean
        <3> QED
            BY <1>1, <2>1, <3>2, <3>3, <3>4, <3>5, HoldKeeps
    <2>2. CASE pc' = [pc EXCEPT ![t] = "idle"] /\ UNCHANGED <<mem, stale>>
        <3>1. Bystands
            BY <1>7, <1>2, <2>2 DEF Iterate, Bystands
        <3> QED
            BY <1>1, <3>1, BystandsKeeps
    <2> QED
        BY <1>7, <2>1, <2>2 DEF Iterate
<1>8. ASSUME NEW t \in Terms,
             RemoteFlash(t) \/ WaitEnds(t) \/ ResetEnds(t) \/ CmdResume(t) \/ CmdReset(t) \/ Crash(t)
      PROVE  Bystands
    BY <1>8, <1>2, <1>3
       DEF RemoteFlash, WaitEnds, ResetEnds, CmdResume, CmdReset, Crash, Bystands
<1>9. ASSUME UNCHANGED vars \/ CameraBoots \/ Recovered PROVE Bystands
    BY <1>9 DEF CameraBoots, Recovered, vars, session, Bystands
<1>10. ASSUME Bystands PROVE BracketInv' /\ KeptInv'
    BY <1>1, <1>10, BystandsKeeps
<1> QED
    BY <1>4, <1>5, <1>6, <1>7, <1>8, <1>9, <1>10 DEF Next, Step

LEMMA AllInvariants == Spec => [](TypeInv /\ BracketInv /\ KeptInv)
<1>1. Init /\ [][Next]_vars => [](TypeInv /\ BracketInv /\ KeptInv)
    BY InitTypes, StepTypes, InitKept, StepKept, PTL
<1> QED
    BY <1>1, PTL DEF Spec

\* The first bad build stays between good and bad as long as no verdict was about
\* another build than the script thinks, whatever overlaps or is killed.
THEOREM BracketIsSound == Spec => []BracketSound
<1>1. BracketInv => BracketSound
    BY DEF BracketInv, BracketSound, InBracket
<1> QED
    BY <1>1, AllInvariants, PTL

\* Every build between good and bad is still a candidate or was skipped, as long as none
\* is judged twice and differently.
THEOREM NothingIsLost == Spec => []NothingLost
<1>1. KeptInv => NothingLost
    BY DEF KeptInv, NothingLost, Kept, Inside
<1> QED
    BY <1>1, AllInvariants, PTL

(***************************************************************************)
(* Halving.  The candidate was the median when pick_next chose it, and it  *)
(* is saved together with the window and the verdicts it was chosen from:  *)
(* while it is still a candidate in what the file says, it is the median.  *)
(***************************************************************************)
Middle(s) == s.current \in Unverified(s) => IsNext(s.current, s)

MiddleInv ==
    /\ Saved => Middle(file)
    /\ \A t \in Terms : pc[t] \in {"save", "saveNext"} => Middle(mem[t])

LEMMA CandidatesFinite ==
    ASSUME NEW s \in State
    PROVE  Unverified(s) \subseteq Builds /\ IsFiniteSet(Unverified(s))
<1>1. IsFiniteSet(Builds)
    BY ConstantsAssumption, FS_Interval DEF Builds
<1>2. Unverified(s) \subseteq Builds
    BY DEF Unverified, State
<1> QED
    BY <1>1, <1>2, FS_Subset

\* The candidate and those on either side of it are all of them.
LEMMA Sides ==
    ASSUME NEW U \in SUBSET Builds, IsFiniteSet(U), NEW c \in U
    PROVE  /\ Rank(c, U) \in Nat /\ Cardinality(U) \in Nat
           /\ Cardinality({x \in U : x > c}) \in Nat
           /\ Cardinality(U) = Rank(c, U) + 1 + Cardinality({x \in U : x > c})
<1> DEFINE before == {x \in U : x < c}
           after == {x \in U : x > c}
<1>1. IsFiniteSet(before) /\ IsFiniteSet(after)
    BY FS_Subset
<1>2. before \cap after = {} /\ c \notin before \cup after /\ U = (before \cup after) \cup {c}
    <2>1. \A x \in U : x \in Int
        BY ConstantsAssumption DEF Builds
    <2> QED
        BY <2>1
<1>3. Cardinality(before) \in Nat /\ Cardinality(after) \in Nat /\ Cardinality(U) \in Nat
    BY <1>1, FS_CardinalityType
<1>4. IsFiniteSet(before \cup after)
    BY <1>1, FS_Union
<1>5. Cardinality(before \cup after) = Cardinality(before) + Cardinality(after)
    <2>1. Cardinality(before \cap after) = 0
        BY <1>2, FS_EmptySet
    <2>2. Cardinality(before \cup after)
              = Cardinality(before) + Cardinality(after) - Cardinality(before \cap after)
        BY <1>1, FS_Union
    <2> QED
        BY <1>3, <2>1, <2>2
<1>6. Cardinality(U) = Cardinality(before \cup after) + 1
    BY <1>2, <1>4, FS_AddElement
<1> QED
    BY <1>3, <1>5, <1>6 DEF Rank

LEMMA MiddleNew ==
    ASSUME NEW g \in Builds, NEW b \in Builds
    PROVE  Middle(NewState(g, b))
<1>1. NewState(g, b).current = 0 /\ NewState(g, b).window \subseteq Builds
    BY NewStateType DEF NewState, State
<1> QED
    BY <1>1 DEF Middle, Unverified, Builds

\* A build that was judged is no candidate.
LEMMA MiddleNarrow ==
    ASSUME NEW s \in State, s.current # 0, NEW v \in Verdicts
    PROVE  Middle(Narrow(s, v))
<1>1. Narrow(s, v).current = s.current /\ Narrow(s, v).verdicts = [s.verdicts EXCEPT ![s.current] = v]
    BY NarrowFields
<1>2. s.current \in DOMAIN s.verdicts /\ v # "null"
    BY DEF State, Verdicts
<1> QED
    BY <1>1, <1>2 DEF Middle, Unverified

LEMMA MiddlePicked ==
    ASSUME NEW s \in State, NEW b \in Builds, IsNext(b, s)
    PROVE  Middle([s EXCEPT !.current = b])
<1> DEFINE p == [s EXCEPT !.current = b]
<1>1. p.current = b /\ p.verdicts = s.verdicts /\ p.window = s.window
    BY PickedFields
<1> HIDE DEF p
<1>2. Unverified(p) = Unverified(s)
    BY <1>1 DEF Unverified
<1>3. Middle(p)
    BY <1>1, <1>2 DEF Middle, IsNext
<1> QED
    BY <1>3 DEF p

LEMMA StepMiddle == TypeInv /\ MiddleInv /\ [Next]_vars => MiddleInv'
<1> SUFFICES ASSUME TypeInv, MiddleInv, [Next]_vars PROVE MiddleInv'
    OBVIOUS
<1>1. pc \in [Terms -> {"idle", "save", "iterate", "saveNext", "flash", "wait", "reset"}]
    BY DEF TypeInv, TypeOK
<1>2. mem \in [Terms -> State \cup {None}]
    BY DEF TypeInv, TypeOK
\* A state that is taken in hand.
<1>3. ASSUME NEW t \in Terms, NEW s \in State, NEW label, Hold(t, s, label), Middle(s), file' = file
      PROVE  MiddleInv'
    <2>1. \A u \in Terms : IF u = t THEN mem'[u] = s ELSE mem'[u] = mem[u] /\ pc'[u] = pc[u]
        BY <1>1, <1>2, <1>3 DEF Hold
    <2>2. Saved' = Saved
        BY <1>3 DEF Saved
    <2> QED
        BY <1>3, <2>1, <2>2, Zenon DEF MiddleInv
<1>4. ASSUME NEW t \in Terms, Save(t) \/ SaveNext(t) PROVE MiddleInv'
    <2>1. /\ pc[t] \in {"save", "saveNext"} /\ file' = mem[t]
          /\ \A u \in Terms : pc'[u] \in {"save", "saveNext"} => pc[u] = pc'[u] /\ mem'[u] = mem[u]
        BY <1>4, <1>1, <1>2 DEF Save, SaveNext, SaveState
    <2> QED
        BY <2>1, Zenon DEF MiddleInv
<1>5. ASSUME NEW t \in Terms, CmdStart(t) PROVE MiddleInv'
    <2>1. PICK g \in Builds, b \in Builds : Hold(t, NewState(g, b), "save")
        BY <1>5 DEF CmdStart, NewState
    <2> QED
        BY <1>5, <1>3, <2>1, NewStateType, MiddleNew DEF CmdStart
<1>6. ASSUME NEW t \in Terms, CmdVerdict(t) PROVE MiddleInv'
    <2>1. PICK v \in {Finding, "skip"} : Hold(t, Narrow(file, v), "save")
        BY <1>6 DEF CmdVerdict
    <2>2. v \in Verdicts /\ file \in State /\ file.current # 0
        BY <1>6, JudgesType, SavedState DEF CmdVerdict, Verdicts, TypeInv
    <2> QED
        BY <1>6, <1>3, <2>1, <2>2, NarrowFields, MiddleNarrow DEF CmdVerdict
<1>7. ASSUME NEW t \in Terms, Iterate(t) PROVE MiddleInv'
    <2>1. ASSUME NEW b \in Builds, Saved, IsNext(b, file), Hold(t, [file EXCEPT !.current = b], "saveNext")
          PROVE  MiddleInv'
        <3>1. file \in State
            BY <2>1, SavedState
        <3>2. file' = file
            BY <1>7 DEF Iterate
        <3> QED
            BY <1>3, <2>1, <3>1, <3>2, PickedFields, MiddlePicked
    <2>2. CASE pc' = [pc EXCEPT ![t] = "idle"] /\ UNCHANGED <<mem, stale>>
        <3>1. file' = file
            BY <1>7 DEF Iterate
        <3> QED
            BY <1>1, <2>2, <3>1 DEF MiddleInv, Saved
    <2> QED
        BY <1>7, <2>1, <2>2 DEF Iterate
<1>8. ASSUME NEW t \in Terms,
             RemoteFlash(t) \/ WaitEnds(t) \/ ResetEnds(t) \/ CmdResume(t) \/ CmdReset(t) \/ Crash(t)
      PROVE  Bystands
    BY <1>8, <1>1, <1>2
       DEF RemoteFlash, WaitEnds, ResetEnds, CmdResume, CmdReset, Crash, Bystands
<1>9. ASSUME UNCHANGED vars \/ CameraBoots \/ Recovered PROVE Bystands
    BY <1>9 DEF CameraBoots, Recovered, vars, session, Bystands
<1>10. ASSUME Bystands PROVE MiddleInv'
    <2>1. Saved' => Saved /\ file' = file
        BY <1>10 DEF Bystands, Saved
    <2> QED
        BY <1>10, <2>1, Zenon DEF MiddleInv, Bystands
<1> QED
    BY <1>4, <1>5, <1>6, <1>7, <1>8, <1>9, <1>10 DEF Next, Step

\* What a good or bad verdict on the candidate leaves.
LEMMA HalfGoes ==
    ASSUME NEW s \in State, s.current \in Unverified(s), Middle(s), NEW v \in {"good", "bad"}
    PROVE  2 * Cardinality(Unverified(Narrow(s, v))) <= Cardinality(Unverified(s))
<1> DEFINE U == Unverified(s)
           c == s.current
           n == Narrow(s, v)
           size == Cardinality(U)
           rank == Rank(c, U)
<1>1. c \in Builds /\ c # 0 /\ v \in Verdicts /\ c \in s.window /\ s.window \subseteq Builds
    BY DEF Unverified, State, Builds, Verdicts
<1>2. n.verdicts = [s.verdicts EXCEPT ![c] = v]
      /\ n.window = (IF v = "good" THEN Newer(s) ELSE Older(s))
    BY <1>1, NarrowFields
<1>3. \A b \in Builds : b # c => n.verdicts[b] = s.verdicts[b]
    BY <1>1, <1>2 DEF State
<1>4. n.verdicts[c] = v /\ v # "null"
    BY <1>1, <1>2 DEF State
<1>5. rank = size \div 2
    BY DEF Middle, IsNext
<1>6. /\ rank \in Nat /\ size \in Nat /\ Cardinality({x \in U : x > c}) \in Nat
      /\ size = rank + 1 + Cardinality({x \in U : x > c})
    BY <1>1, CandidatesFinite, Sides
<1> HIDE DEF n
<1>7. CASE v = "good"
    <2>1. n.window = {b \in s.window : b > c}
        BY <1>1, <1>2, <1>7 DEF Newer
    <2>2. ~(c > c)
        BY <1>1, ConstantsAssumption DEF Builds
    <2>3. Unverified(n) = {x \in U : x > c}
        BY <1>1, <1>3, <1>4, <2>1, <2>2 DEF Unverified
    <2> DEFINE rest == Cardinality({x \in U : x > c})
    <2> HIDE DEF size, rank, U, rest
    <2>4. 2 * rest <= size
        BY <1>5, <1>6 DEF rest
    <2>5. 2 * Cardinality(Unverified(n)) <= size
        BY <2>3, <2>4 DEF rest
    <2> QED
        BY <2>5 DEF n, size, U
<1>8. CASE v = "bad"
    <2>1. Unverified(n) = {x \in U : x < c}
        BY <1>1, <1>2, <1>3, <1>4, <1>8 DEF Unverified, Older, Builds
    <2>2. Cardinality(Unverified(n)) = rank
        BY <2>1 DEF Rank
    <2> HIDE DEF size, rank, U
    <2>3. 2 * rank <= size
        BY <1>5, <1>6
    <2>4. 2 * Cardinality(Unverified(n)) <= size
        BY <2>2, <2>3
    <2> QED
        BY <2>4 DEF n, size, U
<1> QED
    BY <1>7, <1>8

\* A verdict on the build that pick_next chose halves the candidates, or better, even
\* when other commands write the file meanwhile.
THEOREM VerdictsHalve == Spec => Halves
<1> DEFINE Halving ==
        \A t \in Terms : \A s \in {mem'[t]} :
            pc[t] = "idle" /\ pc'[t] = "save" /\ Saved
            /\ file.current \in Unverified(file)
            /\ s.verdicts[file.current] \in {"good", "bad"}
            => 2 * Cardinality(Unverified(s)) <= Cardinality(Unverified(file))
<1>1. TypeInv /\ MiddleInv /\ [Next]_vars => [Halving]_vars
    <2> SUFFICES ASSUME TypeInv, MiddleInv, Next,
                        NEW t \in Terms, pc[t] = "idle", pc'[t] = "save", Saved,
                        file.current \in Unverified(file),
                        mem'[t].verdicts[file.current] \in {"good", "bad"}
                 PROVE  2 * Cardinality(Unverified(mem'[t])) <= Cardinality(Unverified(file))
        BY Zenon
    <2>1. pc \in [Terms -> {"idle", "save", "iterate", "saveNext", "flash", "wait", "reset"}]
        BY DEF TypeInv, TypeOK
    <2>2. mem \in [Terms -> State \cup {None}]
        BY DEF TypeInv, TypeOK
    <2>3. CmdVerdict(t)
        BY <2>1 DEF Next, Step, Save, SaveNext, SaveState, Iterate, RemoteFlash, WaitEnds, ResetEnds,
           CmdStart, CmdResume, CmdReset, Crash, CameraBoots, Recovered, session, Hold, Saved,
           CmdVerdict
    <2>4. PICK v \in {Finding, "skip"} : Hold(t, Narrow(file, v), "save")
        BY <2>3 DEF CmdVerdict
    <2>5. v \in Verdicts /\ file \in State /\ file.current # 0
        BY <2>3, JudgesType, SavedState DEF CmdVerdict, Verdicts, TypeInv
    <2>6. mem'[t] = Narrow(file, v)
        BY <2>2, <2>4 DEF Hold
    <2>7. mem'[t].verdicts[file.current] = v
        <3>1. Narrow(file, v).verdicts = [file.verdicts EXCEPT ![file.current] = v]
            BY <2>5, NarrowFields
        <3>2. file.current \in DOMAIN file.verdicts
            BY <2>5 DEF State
        <3> QED
            BY <2>6, <3>1, <3>2
    <2> QED
        BY <2>5, <2>6, <2>7, HalfGoes DEF MiddleInv
<1>2. Init => MiddleInv
    BY DEF Init, MiddleInv, Saved
<1>3. Init /\ [][Next]_vars => [][Halving]_vars
    <2> HIDE DEF Halving
    <2> QED
        BY <1>1, <1>2, InitTypes, StepTypes, StepMiddle, PTL
<1> QED
    BY <1>3, PTL DEF Spec, Halves
=============================================================================
