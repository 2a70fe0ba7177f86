------------------------------- MODULE Bisect -------------------------------
(***************************************************************************)
(* contrib/openipc-bisect: the workstation script that searches the        *)
(* nightly builds for the one that broke a camera.  Its state is one file  *)
(* per camera; every subcommand is a process of its own that reads the     *)
(* file, changes it and writes it back without a lock, then flashes the    *)
(* next candidate over ssh and waits for the camera.                       *)
(*                                                                         *)
(* Builds are numbered from the oldest.  A window is the set of its        *)
(* builds: the script keeps it sorted, so a slice of it is an interval.    *)
(***************************************************************************)
EXTENDS Integers, FiniteSets

CONSTANTS
    N,            \* builds in the manifest for this platform
    FirstBads,    \* which build may be the first broken one
    Brackets,     \* the pairs of --good and --bad that cmd_start may be given
    Terms,        \* terminals of the workstation: commands alive at once
    MaxMishaps,   \* bound: commands killed, or started while another one runs
    None,         \* no state file; no flash under way
    Empty,        \* a state file that was truncated and not written
    Brick         \* a camera that does not boot

ASSUME ConstantsAssumption ==
    /\ N \in Nat \ {0} /\ MaxMishaps \in Nat
    /\ FirstBads \subseteq 1..N /\ Brackets \subseteq (1..N) \X (1..N)
    /\ None # Empty /\ Brick \notin 1..N /\ None \notin 1..N

Builds == 1..N
Verdicts == {"good", "bad", "skip"}

\* The JSON object; current is 0 for null, and so is a verdict not given yet.
State == [good: Builds, bad: Builds, window: SUBSET Builds,
          verdicts: [Builds -> Verdicts \cup {"null"}], current: Builds \cup {0}]

ASSUME StateAssumption == None \notin State /\ Empty \notin State

VARIABLES
    firstBad,  \* the truth: this build and every newer one is broken
    file,      \* the state file
    camera,    \* the build the camera runs
    flashing,  \* the build a sysupgrade on the camera is about to boot
    pc,        \* per terminal: where the command is
    mem,       \* the state it holds, and
    stale,     \* whether the file was written since it read it
    mishaps,   \* counts the mishaps
    hist       \* auxiliary: what the properties excuse a bad state with

session == <<pc, mem, stale>>
target == <<camera, flashing>>
vars == <<firstBad, file, target, session, mishaps, hist>>

TypeOK ==
    /\ firstBad \in FirstBads
    /\ file \in State \cup {None, Empty}
    /\ camera \in Builds \cup {Brick}
    /\ flashing \in Builds \cup {None}
    /\ pc \in [Terms -> {"idle", "save", "iterate", "saveNext", "flash", "wait", "reset"}]
    /\ mem \in [Terms -> State \cup {None}]
    /\ stale \in [Terms -> BOOLEAN]
    /\ mishaps \in 0..MaxMishaps
    /\ hist \subseteq {"mistaken", "remarked", "raced"}

Init ==
    /\ firstBad \in FirstBads
    /\ file = None
    /\ camera = N /\ flashing = None
    /\ pc = [t \in Terms |-> "idle"] /\ mem = [t \in Terms |-> None]
    /\ stale = [t \in Terms |-> FALSE]
    /\ mishaps = 0 /\ hist = {}

Saved == file \notin {None, Empty}
Unverified(s) == {b \in s.window : s.verdicts[b] = "null"}

-----------------------------------------------------------------------------
(* Reading and writing the file *)

\* The command goes on with s, which it made from the file it just read.
Hold(t, s, label) ==
    /\ mem' = [mem EXCEPT ![t] = s]
    /\ stale' = [stale EXCEPT ![t] = FALSE]
    /\ pc' = [pc EXCEPT ![t] = label]

\* The file changes under every command that has read it.
Changed == stale' = [t \in Terms |-> pc[t] \in {"save", "saveNext"}]

\* save_state
SaveState(t, label) ==
    /\ file' = mem[t]
    /\ hist' = hist \cup (IF stale[t] THEN {"raced"} ELSE {})
    /\ Changed
    /\ pc' = [pc EXCEPT ![t] = label]
    /\ UNCHANGED <<firstBad, target, mishaps>>

Save(t) ==
    /\ pc[t] = "save" /\ SaveState(t, "iterate")
    /\ mem' = [mem EXCEPT ![t] = None]
SaveNext(t) == pc[t] = "saveNext" /\ SaveState(t, "flash") /\ UNCHANGED mem

-----------------------------------------------------------------------------
(* Commands *)

\* A command starts; in two terminals they overlap.
Begins(t) ==
    /\ pc[t] = "idle"
    /\ mishaps' = mishaps + (IF \A u \in Terms : pc[u] = "idle" THEN 0 ELSE 1)
    /\ mishaps' <= MaxMishaps

\* The slice awk cuts out, from good to bad.  It is empty when bad is the older one:
\* awk stops there, before it has seen good.
Slice(g, b) == g..b

\* cmd_start: two builds at least, or it dies.
CmdStart(t) ==
    /\ Begins(t) /\ file = None
    /\ \E g, b \in Builds :
          /\ <<g, b>> \in Brackets
          /\ Cardinality(Slice(g, b)) >= 2
          /\ Hold(t, [good |-> g, bad |-> b, window |-> Slice(g, b), current |-> 0,
                      verdicts |-> [x \in Builds |-> IF x = g THEN "good"
                                                     ELSE IF x = b THEN "bad" ELSE "null"]],
                  "save")
          /\ hist' = hist \cup (IF g < firstBad /\ firstBad <= b THEN {} ELSE {"mistaken"})
    /\ UNCHANGED <<firstBad, file, target>>

\* The slices of the window on either side of the candidate; one that is no
\* longer in the window trims nothing.
Older_Newer(s) == {b \in s.window : b > s.current}  \* mutant: the wrong half
Older(s) == IF s.current \in s.window THEN {b \in s.window : b < s.current} ELSE s.window

Newer(s) == IF s.current \in s.window THEN {b \in s.window : b > s.current} ELSE s.window

Marked(s, verdict) == [s EXCEPT !.verdicts[s.current] = verdict]

Narrow_Crossed(s, verdict) ==  \* mutant: good and bad the wrong way round
    CASE verdict = "bad"  -> [Marked(s, verdict) EXCEPT !.good = s.current, !.window = Newer(s)]
      [] verdict = "good" -> [Marked(s, verdict) EXCEPT !.bad = s.current, !.window = Older(s)]
      [] verdict = "skip" -> [Marked(s, verdict) EXCEPT !.window = @ \ {s.current}]

Narrow_Forgets(s, verdict) ==  \* mutant: a skipped build stays a candidate
    CASE verdict = "good" -> [Marked(s, verdict) EXCEPT !.good = s.current, !.window = Newer(s)]
      [] verdict = "bad"  -> [Marked(s, verdict) EXCEPT !.bad = s.current, !.window = Older(s)]
      [] verdict = "skip" -> s

Narrow_Cleared(s, verdict) ==  \* mutant: current is cleared before it is used
    [s EXCEPT !.current = 0, !.bad = IF verdict = "bad" THEN 0 ELSE @]

\* narrow
Narrow(s, verdict) ==
    CASE verdict = "good" -> [Marked(s, verdict) EXCEPT !.good = s.current, !.window = Newer(s)]
      [] verdict = "bad"  -> [Marked(s, verdict) EXCEPT !.bad = s.current, !.window = Older(s)]
      [] verdict = "skip" -> [Marked(s, verdict) EXCEPT !.window = @ \ {s.current}]

Truth(b) == IF b < firstBad THEN "good" ELSE "bad"

\* What the user finds on the camera; a dead one is marked bad or skipped, as
\* wait_for_camera says.
Finding == IF camera = Brick THEN "bad" ELSE Truth(camera)

\* cmd_verdict: the user judges what the camera runs, the script takes it for
\* a verdict on "current".
CmdVerdict(t) ==
    /\ Begins(t) /\ Saved /\ file.current # 0
    /\ \E verdict \in {Finding, "skip"} :
          /\ Hold(t, Narrow(file, verdict), "save")
          /\ hist' = hist \cup (IF verdict \notin {Truth(file.current), "skip"}
                                THEN {"mistaken"} ELSE {})
                          \cup (IF file.verdicts[file.current] \notin {"null", verdict}
                                THEN {"remarked"} ELSE {})
    /\ UNCHANGED <<firstBad, file, target>>

\* cmd_resume goes on only when no candidate was chosen; otherwise it prints.
\* jq reads nothing from a truncated file, which looks like no candidate.
CmdResume(t) ==
    /\ Begins(t)
    /\ file = Empty \/ (Saved /\ file.current = 0)
    /\ pc' = [pc EXCEPT ![t] = "iterate"]
    /\ UNCHANGED <<firstBad, file, target, mem, stale, hist>>

\* pick_next: the candidate with half of the others before it.
Rank(b, set) == Cardinality({x \in set : x < b})
IsNext_Last(b, s) ==  \* mutant: the newest instead of the median
    b \in Unverified(s) /\ Rank(b, Unverified(s)) = Cardinality(Unverified(s)) - 1
IsNext(b, s) ==
    b \in Unverified(s) /\ Rank(b, Unverified(s)) = Cardinality(Unverified(s)) \div 2

\* What iterate prints as the first bad build: the oldest in the window, if any.
Culprit(s) == IF s.window = {} THEN None
              ELSE CHOOSE b \in s.window : \A x \in s.window : b <= x

\* iterate, up to its save_state.  Without a candidate the search is over, and
\* it prints the culprit.
Iterate(t) ==
    /\ pc[t] = "iterate"
    /\ \/ /\ Saved
          /\ \E b \in Builds :
                IsNext(b, file) /\ Hold(t, [file EXCEPT !.current = b], "saveNext")
       \/ /\ Saved => Unverified(file) = {}
          /\ pc' = [pc EXCEPT ![t] = "idle"]
          /\ UNCHANGED <<mem, stale>>
    /\ UNCHANGED <<firstBad, file, target, mishaps, hist>>

\* remote_flash: what sysupgrade's exit status says is not looked at.
RemoteFlash(t) ==
    /\ pc[t] = "flash"
    /\ flashing' \in {flashing} \cup (IF camera = Brick THEN {} ELSE {mem[t].current})
    /\ pc' = [pc EXCEPT ![t] = "wait"] /\ mem' = [mem EXCEPT ![t] = None]
    /\ UNCHANGED <<firstBad, file, camera, stale, mishaps, hist>>

\* wait_for_camera: ssh answers, before or after the reboot, or time runs out.
WaitEnds(t) ==
    /\ pc[t] = "wait"
    /\ pc' = [pc EXCEPT ![t] = "idle"]
    /\ UNCHANGED <<firstBad, file, target, mem, stale, mishaps, hist>>

\* cmd_reset: flash the nightly, wait, and remove the file in any case.
CmdReset(t) ==
    /\ Begins(t) /\ file # None
    /\ flashing' \in {flashing} \cup (IF camera = Brick THEN {} ELSE {N})
    /\ pc' = [pc EXCEPT ![t] = "reset"]
    /\ UNCHANGED <<firstBad, file, camera, mem, stale, hist>>

ResetEnds(t) ==
    /\ pc[t] = "reset"
    /\ file' = None
    /\ Changed
    /\ pc' = [pc EXCEPT ![t] = "idle"]
    /\ UNCHANGED <<firstBad, target, mem, mishaps, hist>>

-----------------------------------------------------------------------------
(* The environment *)

\* A command is interrupted or the workstation restarts; in save_state the file
\* may be truncated by then.
Crash(t) ==
    /\ pc[t] # "idle" /\ mishaps < MaxMishaps
    /\ mishaps' = mishaps + 1
    /\ pc' = [pc EXCEPT ![t] = "idle"] /\ mem' = [mem EXCEPT ![t] = None]
    /\ \/ UNCHANGED <<file, stale>>
       \/ pc[t] \in {"save", "saveNext"} /\ file' = Empty /\ Changed
    /\ UNCHANGED <<firstBad, target, hist>>

\* The camera boots what was flashed, or does not boot any more.
CameraBoots ==
    /\ flashing # None
    /\ camera' \in {flashing, Brick}
    /\ flashing' = None
    /\ UNCHANGED <<firstBad, file, session, mishaps, hist>>

\* A bricked camera is recovered by hand, with the latest build.
Recovered ==
    /\ camera = Brick
    /\ camera' = N
    /\ UNCHANGED <<firstBad, file, flashing, session, mishaps, hist>>

-----------------------------------------------------------------------------
Step(t) ==
    Save(t) \/ Iterate(t) \/ SaveNext(t) \/ RemoteFlash(t) \/ WaitEnds(t) \/ ResetEnds(t)

Next ==
    \/ \E t \in Terms : Step(t) \/ CmdStart(t) \/ CmdVerdict(t) \/ CmdResume(t)
                         \/ CmdReset(t) \/ Crash(t)
    \/ CameraBoots \/ Recovered

\* A command that runs goes on; the user answers, or resumes, as the script asks.
Spec ==
    /\ Init /\ [][Next]_vars
    /\ \A t \in Terms : WF_vars(Step(t))
    /\ WF_vars(\E t \in Terms : CmdVerdict(t)) /\ WF_vars(\E t \in Terms : CmdResume(t))

-----------------------------------------------------------------------------
(* Properties *)

Clean(causes) == hist \cap causes = {}

\* The state file keeps the first bad build between good and bad, with any number
\* of commands at once, killed ones and stale writes included, as long as every
\* verdict was about the build the script thinks the camera runs.
BracketSound ==
    Saved /\ Clean({"mistaken"}) => file.good < firstBad /\ firstBad <= file.bad

\* No candidate is lost: a build between good and bad can still be picked, or
\* the user skipped it; until a build is judged a second time and differently,
\* which the window does not follow.
NothingLost ==
    Saved /\ Clean({"remarked"}) =>
        \A b \in Builds : file.good < b /\ b < file.bad =>
            b \in Unverified(file) \/ file.verdicts[b] = "skip"

\* Half of the candidates, at least, go with every good or bad verdict on the
\* build that pick_next chose.
Halves ==
    [][\A t \in Terms : \A s \in {mem'[t]} :
          pc[t] = "idle" /\ pc'[t] = "save" /\ Saved
          /\ file.current \in Unverified(file)
          /\ s.verdicts[file.current] \in {"good", "bad"}
          => 2 * Cardinality(Unverified(s)) <= Cardinality(Unverified(file))]_vars

\* The search ends, or its state is lost or reset, if the user keeps answering;
\* but two commands that keep overwriting each other's results may go on for ever.
Converges == Saved ~> (~Saved \/ Unverified(file) = {} \/ ~Clean({"raced"}))

-----------------------------------------------------------------------------
\* "Bisect complete. First bad build: $culprit": when all verdicts were right
\* and iterate announces a culprit, it is the first bad build.
CulpritIsFirstBad ==
    [][\A t \in Terms :
          pc[t] = "iterate" /\ pc'[t] = "idle" /\ Saved /\ mishaps' = mishaps
          /\ Clean({"mistaken", "remarked", "raced"}) /\ Culprit(file) # None
          => Culprit(file) = firstBad]_vars
=============================================================================
