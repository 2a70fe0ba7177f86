--------------------------- MODULE SysupgradeProofs ---------------------------
(***************************************************************************)
(* Theorems about Sysupgrade, for any set of invocations, requests,        *)
(* archives and kinds of camera, and any bound on the invocations.         *)
(***************************************************************************)
EXTENDS Sysupgrade, TLAPS

(***************************************************************************)
(* The lock.  While nobody raced for it and nobody removed another's, a    *)
(* process past create_lock implies that the file exists; so the next one  *)
(* cannot pass.                                                            *)
(***************************************************************************)
LockInv ==
    /\ pc \in [Procs -> PCs]
    /\ Clean({"raced", "stolen"}) => \A p \in Procs : Inside(p) => lock = TRUE
    /\ LockExclusion

\* One process moves, not from outside to past the lock; the file stays.
LEMMA MoveKeepsLockInv ==
    ASSUME LockInv, NEW p \in Procs, NEW label \in PCs,
           pc' = [pc EXCEPT ![p] = label],
           label \in PastLock => Inside(p),
           hist \subseteq hist', lock' = lock
    PROVE  LockInv'
<1>1. pc' \in [Procs -> PCs]
    BY DEF LockInv
<1>2. \A q \in Procs : Inside(q)' => Inside(q)
    BY DEF LockInv, Inside
<1>3. Clean({"raced", "stolen"})' => Clean({"raced", "stolen"})
    BY DEF Clean
<1> QED
    BY <1>1, <1>2, <1>3 DEF LockInv, LockExclusion

\* The labels an invocation can go to after a stage.
LEMMA AfterLabels ==
    ASSUME NEW p \in Procs
    PROVE  /\ AfterRootfs(p) \in {"wipe", "reboot"}
           /\ AfterKernel(p) \in {"rootfs", "wipe", "reboot"}
           /\ AfterWrite(p) \in {"rootfs", "wipe", "reboot"}
           /\ AfterCard(p) \in {"protect", "download"}
BY DEF AfterRootfs, AfterKernel, AfterWrite, AfterCard

\* Every process is gone after a boot.
LEMMA BootKeepsLockInv ==
    ASSUME LockInv, NEW event, NEW others, Boot(event, others)
    PROVE  LockInv'
<1>1. pc' \in [Procs -> PCs] /\ \A q \in Procs : ~Inside(q)'
    BY DEF Boot, Inside, PastLock, PCs
<1> QED
    BY <1>1 DEF LockInv, LockExclusion

\* An invocation that exits under -x removes the file.  If it was past the lock
\* no other is; if it was not and the file was there, that is "stolen".
LEMMA RebootKeepsLockInv ==
    ASSUME LockInv, NEW p \in Procs, NEW staged, RebootSystem(p, staged)
    PROVE  LockInv'
<1>1. CASE Boot("rebooted", Procs \ {p})
    BY <1>1, BootKeepsLockInv
<1>2. CASE /\ lock' = FALSE
           /\ hist' = hist \cup (IF lock /\ ~Inside(p) THEN {"stolen"} ELSE {})
           /\ pc' = [pc EXCEPT ![p] = "idle"]
    <2>1. pc' \in [Procs -> PCs]
        BY <1>2 DEF LockInv, PCs
    <2>2. ~Inside(p)' /\ \A q \in Procs \ {p} : Inside(q)' <=> Inside(q)
        BY <1>2 DEF LockInv, Inside, PastLock
    <2>3. ASSUME Clean({"raced", "stolen"})'
          PROVE  \A q \in Procs : ~Inside(q)'
        <3>1. Clean({"raced", "stolen"}) /\ (lock => Inside(p))
            BY <1>2, <2>3 DEF Clean
        <3>2. \A q \in Procs \ {p} : ~Inside(q)
            BY <3>1 DEF LockInv, LockExclusion
        <3> QED
            BY <2>2, <3>2
    <2> QED
        BY <2>1, <2>3 DEF LockInv, LockExclusion
<1> QED
    BY <1>1, <1>2 DEF RebootSystem, Quit

\* create_lock's touch: either the file was there, which is "raced", or it was
\* not and nobody else is past the lock.
LEMMA TouchKeepsLockInv ==
    ASSUME LockInv, NEW p \in Procs, CreateLockTouch(p)
    PROVE  LockInv'
<1>1. /\ pc' = [pc EXCEPT ![p] = "free"] /\ lock' = TRUE
      /\ hist' = hist \cup (IF lock THEN {"raced"} ELSE {})
    BY DEF CreateLockTouch, Goto
<1>2. pc' \in [Procs -> PCs]
    BY <1>1 DEF LockInv, PCs
<1>3. ASSUME Clean({"raced", "stolen"})'
      PROVE  \A q \in Procs \ {p} : ~Inside(q)'
    <2>1. Clean({"raced", "stolen"}) /\ ~lock
        BY <1>1, <1>3 DEF Clean
    <2> QED
        BY <1>1, <2>1 DEF LockInv, Inside
<1> QED
    BY <1>1, <1>2, <1>3 DEF LockInv, LockExclusion

LEMMA StepKeepsLockInv ==
    ASSUME LockInv, NEW p \in Procs,
           Step(p) \/ Start(p) \/ SdCardUnmounted(p) \/ SdCardRecovery(p) \/ Hangup(p)
    PROVE  LockInv'
<1> USE MoveKeepsLockInv, AfterLabels
<1>1. CASE Start(p)
    BY <1>1 DEF Start, Goto, PCs, PastLock
<1>0. CASE PrintSysinfo(p)
    <2>1. CASE Quit(p) /\ UNCHANGED globals
        BY <2>1 DEF Quit, globals, PCs, PastLock
    <2>2. CASE UNCHANGED globals /\ \E label \in {"list", "self", "lock"} : Goto(p, label)
        BY <2>2 DEF Goto, globals, PCs, PastLock
    <2> QED
        BY <1>0, <2>1, <2>2, RebootKeepsLockInv DEF PrintSysinfo, Die
<1>2. CASE ListBuilds(p)
    <2>1. CASE Quit(p) /\ UNCHANGED globals
        BY <2>1 DEF Quit, globals, PCs, PastLock
    <2> QED
        BY <1>2, <2>1, RebootKeepsLockInv DEF ListBuilds, Die
<1>3. CASE SelfUpdate(p)
    BY <1>3 DEF SelfUpdate, Goto, globals, PCs, PastLock
<1>4. CASE CreateLockTest(p)
    BY <1>4 DEF CreateLockTest, Goto, Quit, globals, PCs, PastLock
<1>5. CASE CreateLockTouch(p)
    BY <1>5, TouchKeepsLockInv
<1>6. CASE FreeResources(p)
    <2>1. \E label \in {"sdcard", "protect", "download"} : Goto(p, label)
        BY <1>6 DEF FreeResources
    <2> QED
        BY <1>6, <2>1 DEF FreeResources, Goto, PCs, PastLock, Inside
<1>7. CASE SdCardUnmounted(p)
    BY <1>7 DEF SdCardUnmounted, Goto, globals, PCs, PastLock, Inside
<1>8. CASE SdCardRecovery(p)
    BY <1>8 DEF SdCardRecovery, Quit, globals, PCs, PastLock
<1>9. CASE DownloadFails(p)
    BY <1>9, RebootKeepsLockInv DEF DownloadFails, Die
<1>10. CASE DownloadFirmware(p)
    <2>1. ASSUME NEW a \in Archives, RebootSystem(p, Extracted(a))
          PROVE  LockInv'
        BY <2>1, RebootKeepsLockInv
    <2>2. CASE Goto(p, "protect") /\ hist \subseteq hist' /\ UNCHANGED lock
        BY <1>10, <2>2 DEF DownloadFirmware, Goto, PCs, PastLock, Inside
    <2> QED
        BY <1>10, <2>1, <2>2 DEF DownloadFirmware
<1>11. CASE Protect(p)
    <2>1. \E label \in {"firmware", "kernel", "rootfs", "wipe", "reboot"} : Goto(p, label)
        BY <1>11 DEF Protect
    <2> QED
        BY <1>11, <2>1 DEF Protect, Goto, PCs, PastLock, Inside
<1>12. CASE DoUpdateFirmware(p)
    <2>1. CASE Die(p)
        BY <2>1, RebootKeepsLockInv DEF Die
    <2>2. CASE (Goto(p, "kernel") \/ Goto(p, "wfirmware")) /\ hist \subseteq hist'
               /\ UNCHANGED lock
        BY <1>12, <2>2 DEF DoUpdateFirmware, Goto, PCs, PastLock, Inside
    <2> QED
        BY <1>12, <2>1, <2>2 DEF DoUpdateFirmware, BeginWrite
<1>13. CASE DoUpdateKernel(p)
    <2>1. CASE Die(p)
        BY <2>1, RebootKeepsLockInv DEF Die
    <2>2. CASE (Goto(p, AfterKernel(p)) \/ Goto(p, "wkernel")) /\ hist \subseteq hist'
               /\ UNCHANGED lock
        BY <1>13, <2>2 DEF DoUpdateKernel, Goto, PCs, PastLock, Inside
    <2> QED
        BY <1>13, <2>1, <2>2 DEF DoUpdateKernel, BeginWrite, globals
<1>14. CASE DoUpdateRootfs(p)
    <2>1. CASE Die(p)
        BY <2>1, RebootKeepsLockInv DEF Die
    <2>2. CASE (Goto(p, AfterRootfs(p)) \/ Goto(p, "wrootfs") \/ Goto(p, "reboot"))
               /\ hist \subseteq hist' /\ UNCHANGED lock
        BY <1>14, <2>2 DEF DoUpdateRootfs, Goto, PCs, PastLock, Inside
    <2> QED
        BY <1>14, <2>1, <2>2 DEF DoUpdateRootfs, BeginWrite, globals
<1>15. CASE DoWipeOverlay(p)
    BY <1>15 DEF DoWipeOverlay, BeginWrite, Goto, PCs, PastLock, Inside
<1>16. CASE WriteEnds(p)
    <2>1. \E label \in {"rootfs", "wipe", "reboot"} : Goto(p, label)
        BY <1>16 DEF WriteEnds
    <2> QED
        BY <1>16, <2>1 DEF WriteEnds, EndWrite, Goto, PCs, WritePCs, PastLock, Inside
<1>17. CASE Finish(p)
    BY <1>17, RebootKeepsLockInv DEF Finish
<1>18. CASE Hangup(p)
    BY <1>18 DEF Hangup, Quit, globals, PCs, PastLock
<1> QED
    BY <1>0, <1>1, <1>2, <1>3, <1>4, <1>5, <1>6, <1>7, <1>8, <1>9, <1>10, <1>11, <1>12,
       <1>13, <1>14, <1>15, <1>16, <1>17, <1>18 DEF Step, Network, Local

LEMMA LockInvariant == Spec => []LockInv
<1>1. Init => LockInv
    BY DEF Init, LockInv, LockExclusion, Inside, PastLock, PCs
<1>2. LockInv /\ [Next]_vars => LockInv'
    <2> SUFFICES ASSUME LockInv, [Next]_vars PROVE LockInv'
        OBVIOUS
    <2>1. CASE PowerCut
        BY <2>1, BootKeepsLockInv DEF PowerCut
    <2>2. CASE UNCHANGED vars
        BY <2>2 DEF vars, globals, LockInv, LockExclusion, Inside, Clean
    <2> QED
        BY <2>1, <2>2, StepKeepsLockInv DEF Next
<1> QED
    BY <1>1, <1>2, PTL DEF Spec

\* create_lock: with any number of invocations, two are past it at once only
\* after a race in its window or a lock removed by an outsider.
THEOREM LockIsExclusive == Spec => []LockExclusion
<1>1. LockInv => LockExclusion
    BY DEF LockInv
<1> QED
    BY <1>1, LockInvariant, PTL

-----------------------------------------------------------------------------
(***************************************************************************)
(* Types.  An invocation that runs has options; without that part the type *)
(* of the files it names would not be known.                               *)
(***************************************************************************)
TypeInv ==
    /\ TypeOK
    /\ \A p \in Procs : pc[p] # "idle" => req[p] \in Requests

\* What the helpers return.
LEMMA ExtractedType ==
    ASSUME TypeInv, NEW a \in Archive
    PROVE  Extracted(a) \in [Staged -> Image \cup {None}]
BY DEF TypeInv, TypeOK, Extracted, Archive

LEMMA DamagedType ==
    ASSUME NEW a \in Archive
    PROVE  Damaged(a) \in Archive
BY DEF Damaged, Archive, Image

LEMMA SystemInfoType ==
    ASSUME TypeInv
    PROVE  GetSystemInfo \in [kernel: Vers \cup {NA}, rootfs: Vers \cup {NA}]
BY DEF TypeInv, TypeOK, GetSystemInfo, KernelVersion, Image

LEMMA QuitKeepsTypes ==
    ASSUME TypeInv, NEW p \in Procs, Quit(p), UNCHANGED <<camera, flash, system, runs>>,
           lock' \in BOOLEAN, tmp' \in [Staged -> Image \cup {None}],
           services' \subseteq Services, hist' \subseteq Events
    PROVE  TypeInv'
<1>1. pc' \in [Procs -> PCs] /\ \A q \in Procs : pc'[q] # "idle" => q # p /\ pc'[q] = pc[q]
    BY DEF TypeInv, TypeOK, Quit, PCs
<1>2. /\ req' \in [Procs -> Requests \cup {None}]
      /\ \A q \in Procs \ {p} : req'[q] = req[q]
    BY DEF TypeInv, TypeOK, Quit
<1>3. /\ seen' \in [Procs -> [kernel: Vers \cup {NA}, rootfs: Vers \cup {NA}]]
      /\ combined' \in [Procs -> BOOLEAN] /\ trapped' \in [Procs -> BOOLEAN]
    BY DEF TypeInv, TypeOK, Quit, NoSeen
<1>4. writing' \in [Procs -> [parts: SUBSET Parts, data: Contents, rivals: SUBSET Procs]]
    BY DEF TypeInv, TypeOK, Quit, NoWrite, Contents
<1> QED
    BY <1>1, <1>2, <1>3, <1>4 DEF TypeInv, TypeOK

LEMMA BootKeepsTypes ==
    ASSUME TypeInv, NEW event \in Events, NEW others, Boot(event, others)
    PROVE  TypeInv'
<1>1. system' \in Vers \cup {NA}
    BY DEF Boot, Bootable, TypeInv, TypeOK, Image
<1>2. hist' \subseteq Events
    BY DEF Boot, TypeInv, TypeOK
<1>3. /\ pc' \in [Procs -> PCs] /\ \A q \in Procs : pc'[q] = "idle"
      /\ req' \in [Procs -> Requests \cup {None}]
      /\ seen' \in [Procs -> [kernel: Vers \cup {NA}, rootfs: Vers \cup {NA}]]
      /\ combined' \in [Procs -> BOOLEAN] /\ trapped' \in [Procs -> BOOLEAN]
    BY DEF Boot, PCs, NoSeen
<1>4. writing' \in [Procs -> [parts: SUBSET Parts, data: Contents, rivals: SUBSET Procs]]
    BY DEF Boot, NoWrite, Contents
<1>5. tmp' \in [Staged -> Image \cup {None}] /\ services' \subseteq Services /\ lock' \in BOOLEAN
    BY DEF Boot, NoFiles
<1> QED
    BY <1>1, <1>2, <1>3, <1>4, <1>5 DEF Boot, TypeInv, TypeOK

LEMMA RebootKeepsTypes ==
    ASSUME TypeInv, NEW p \in Procs, NEW staged \in [Staged -> Image \cup {None}],
           RebootSystem(p, staged)
    PROVE  TypeInv'
<1>1. CASE Boot("rebooted", Procs \ {p})
    BY <1>1, BootKeepsTypes DEF Events
<1>2. CASE ~Boot("rebooted", Procs \ {p})
    <2>1. /\ lock' = FALSE /\ tmp' = staged /\ Quit(p) /\ UNCHANGED <<machine, flash, services>>
          /\ hist' = hist \cup (IF lock /\ ~Inside(p) THEN {"stolen"} ELSE {})
        BY <1>2 DEF RebootSystem
    <2>2. hist' \subseteq Events
        BY <2>1 DEF TypeInv, TypeOK, Events
    <2> QED
        BY <2>1, <2>2, QuitKeepsTypes DEF machine, TypeInv, TypeOK
<1> QED
    BY <1>1, <1>2

LEMMA DieKeepsTypes ==
    ASSUME TypeInv, NEW p \in Procs, Die(p)
    PROVE  TypeInv'
<1>1. tmp \in [Staged -> Image \cup {None}]
    BY DEF TypeInv, TypeOK
<1> QED
    BY <1>1, RebootKeepsTypes DEF Die

\* A running process goes on: its options stay, and the rest is typed.
LEMMA MoveKeepsTypes ==
    ASSUME TypeInv, NEW p \in Procs, NEW label \in PCs, pc[p] # "idle",
           Goto(p, label), UNCHANGED <<machine, req>>,
           lock' \in BOOLEAN, tmp' \in [Staged -> Image \cup {None}],
           flash' \in [Parts -> Contents],
           services' \subseteq Services, hist' \subseteq Events,
           seen' \in [Procs -> [kernel: Vers \cup {NA}, rootfs: Vers \cup {NA}]],
           combined' \in [Procs -> BOOLEAN], trapped' \in [Procs -> BOOLEAN],
           writing' \in [Procs -> [parts: SUBSET Parts, data: Contents, rivals: SUBSET Procs]]
    PROVE  TypeInv'
<1>1. /\ pc' \in [Procs -> PCs]
      /\ \A q \in Procs : pc'[q] # "idle" => pc[q] # "idle"
    BY DEF Goto, TypeInv, TypeOK
<1> QED
    BY <1>1 DEF TypeInv, TypeOK, machine

\* flashcp's start keeps the types of the flash and of the writers.
LEMMA BeginWriteTypes ==
    ASSUME TypeInv, NEW p \in Procs, NEW parts \in SUBSET Parts, NEW data \in Contents,
           NEW label, BeginWrite(p, parts, data, label)
    PROVE  /\ flash' \in [Parts -> Contents]
           /\ writing' \in [Procs -> [parts: SUBSET Parts, data: Contents, rivals: SUBSET Procs]]
<1>1. flash' \in [Parts -> Contents]
    BY DEF BeginWrite, TypeInv, TypeOK, Contents
<1>2. ASSUME NEW q \in Procs
      PROVE  writing'[q] \in [parts: SUBSET Parts, data: Contents, rivals: SUBSET Procs]
    BY DEF BeginWrite, TypeInv, TypeOK
<1>3. writing' = [q \in Procs |-> writing'[q]]
    BY DEF BeginWrite
<1> QED
    BY <1>1, <1>2, <1>3

LEMMA DoUpdateKeepsTypes ==
    ASSUME TypeInv, NEW p \in Procs,
           DoUpdateFirmware(p) \/ DoUpdateKernel(p) \/ DoUpdateRootfs(p) \/ DoWipeOverlay(p)
    PROVE  TypeInv'
<1> USE MoveKeepsTypes, AfterLabels, DieKeepsTypes
<1>1. CASE DoUpdateFirmware(p)
    <2> DEFINE x == tmp["firmware"]
    <2>1. pc[p] # "idle" /\ x \in Image \cup {None}
        BY <1>1 DEF DoUpdateFirmware, TypeInv, TypeOK, Staged
    <2>2. CASE x # None /\ Goto(p, "kernel") /\ tmp' = [tmp EXCEPT !["kernel"] = x, !["rootfs"] = x]
               /\ UNCHANGED <<machine, lock, flash, services, hist, writing, invocation>>
        BY <2>1, <2>2 DEF TypeInv, TypeOK, PCs, Staged, invocation
    <2>3. CASE /\ x # None /\ BeginWrite(p, {"kernel", "rootfs"}, x, "wfirmware")
               /\ hist' = hist \cup {"whole"} /\ UNCHANGED <<machine, lock, tmp, services, invocation>>
        <3>1. x \in Contents /\ {"kernel", "rootfs"} \subseteq Parts /\ "wfirmware" \in PCs
            BY <2>1, <2>3 DEF Contents, Parts, PCs
        <3>2. Goto(p, "wfirmware") /\ hist' \subseteq Events
            BY <2>3 DEF BeginWrite, TypeInv, TypeOK, Events
        <3>3. /\ flash' \in [Parts -> Contents]
              /\ writing' \in [Procs -> [parts: SUBSET Parts, data: Contents, rivals: SUBSET Procs]]
            BY <2>3, <3>1, BeginWriteTypes
        <3> QED
            BY <2>1, <2>3, <3>1, <3>2, <3>3 DEF TypeInv, TypeOK, invocation
    <2> QED
        BY <1>1, <2>2, <2>3 DEF DoUpdateFirmware
<1>2. CASE DoUpdateKernel(p)
    <2> DEFINE x == KernelFile(p)
    <2>1. pc[p] # "idle"
        BY <1>2 DEF DoUpdateKernel
    <2>2. CASE Goto(p, AfterKernel(p)) /\ UNCHANGED <<globals, writing, invocation>>
        BY <2>1, <2>2 DEF TypeInv, TypeOK, PCs, globals, invocation
    <2>3. CASE /\ x \in Image /\ BeginWrite(p, {"kernel"}, x, "wkernel")
               /\ hist' \subseteq hist \cup {"stale", "unprobed"}
               /\ UNCHANGED <<machine, lock, tmp, services, invocation>>
        <3>1. x \in Contents /\ {"kernel"} \subseteq Parts /\ "wkernel" \in PCs
            BY <2>1, <2>3 DEF Contents, Parts, PCs
        <3>2. Goto(p, "wkernel") /\ hist' \subseteq Events
            BY <2>3 DEF BeginWrite, TypeInv, TypeOK, Events
        <3>3. /\ flash' \in [Parts -> Contents]
              /\ writing' \in [Procs -> [parts: SUBSET Parts, data: Contents, rivals: SUBSET Procs]]
            BY <2>3, <3>1, BeginWriteTypes
        <3> QED
            BY <2>1, <2>3, <3>1, <3>2, <3>3 DEF TypeInv, TypeOK, invocation
    <2> QED
        BY <1>2, <2>2, <2>3 DEF DoUpdateKernel, LeftBehind
<1>3. CASE DoUpdateRootfs(p)
    <2> DEFINE x == RootfsFile(p)
    <2>1. pc[p] # "idle"
        BY <1>3 DEF DoUpdateRootfs
    <2>2. CASE /\ Goto(p, AfterRootfs(p)) \/ Goto(p, "reboot")
               /\ hist' \in {hist, hist \cup {"flasherr"}, hist \cup {"unmounted"}}
               /\ UNCHANGED <<machine, lock, tmp, services, flash, writing, invocation>>
        <3>1. {AfterRootfs(p), "reboot"} \subseteq PCs /\ hist' \subseteq Events
            BY <2>2 DEF PCs, TypeInv, TypeOK, Events
        <3> QED
            BY <2>1, <2>2, <3>1 DEF TypeInv, TypeOK, invocation
    <2>3. CASE /\ x \in Image /\ BeginWrite(p, {"rootfs"}, x, "wrootfs")
               /\ hist' \subseteq hist \cup {"stale"}
               /\ UNCHANGED <<machine, lock, tmp, services, invocation>>
        <3>1. x \in Contents /\ {"rootfs"} \subseteq Parts /\ "wrootfs" \in PCs
            BY <2>1, <2>3 DEF Contents, Parts, PCs
        <3>2. Goto(p, "wrootfs") /\ hist' \subseteq Events
            BY <2>3 DEF BeginWrite, TypeInv, TypeOK, Events
        <3>3. /\ flash' \in [Parts -> Contents]
              /\ writing' \in [Procs -> [parts: SUBSET Parts, data: Contents, rivals: SUBSET Procs]]
            BY <2>3, <3>1, BeginWriteTypes
        <3> QED
            BY <2>1, <2>3, <3>1, <3>2, <3>3 DEF TypeInv, TypeOK, invocation
    <2> QED
        BY <1>3, <2>2, <2>3 DEF DoUpdateRootfs, globals, LeftBehind
<1>4. CASE DoWipeOverlay(p)
    <2>1. Erased \in Contents /\ {"overlay"} \subseteq Parts /\ "wwipe" \in PCs
        BY DEF Contents, Parts, PCs
    <2>2. /\ flash' \in [Parts -> Contents]
          /\ writing' \in [Procs -> [parts: SUBSET Parts, data: Contents, rivals: SUBSET Procs]]
        BY <1>4, <2>1, BeginWriteTypes DEF DoWipeOverlay
    <2> QED
        BY <1>4, <2>1, <2>2 DEF DoWipeOverlay, BeginWrite, TypeInv, TypeOK, invocation
<1> QED
    BY <1>1, <1>2, <1>3, <1>4

LEMMA StepKeepsTypes ==
    ASSUME TypeInv, NEW p \in Procs,
           Step(p) \/ Start(p) \/ SdCardUnmounted(p) \/ SdCardRecovery(p) \/ Hangup(p)
    PROVE  TypeInv'
<1> USE MoveKeepsTypes, AfterLabels, DieKeepsTypes, QuitKeepsTypes
<1>1. CASE Start(p)
    <2>1. PICK r \in Requests : req' = [req EXCEPT ![p] = r] /\ Goto(p, "info")
        BY <1>1 DEF Start
    <2>2. pc' \in [Procs -> PCs] /\ \A q \in Procs \ {p} : pc'[q] = pc[q]
        BY <2>1 DEF Goto, TypeInv, TypeOK, PCs
    <2>3. req' \in [Procs -> Requests \cup {None}]
          /\ \A q \in Procs : pc'[q] # "idle" => req'[q] \in Requests
        BY <2>1, <2>2 DEF TypeInv, TypeOK
    <2>4. runs' \in Nat
        BY <1>1 DEF Start, TypeInv, TypeOK
    <2> QED
        BY <1>1, <2>2, <2>3, <2>4 DEF Start, TypeInv, TypeOK
<1>0. CASE PrintSysinfo(p)
    <2>1. CASE Quit(p) /\ UNCHANGED globals
        BY <2>1 DEF globals, machine, TypeInv, TypeOK
    <2>2. CASE /\ \E label \in {"list", "self", "lock"} : Goto(p, label)
               /\ seen' = [seen EXCEPT ![p] = GetSystemInfo]
               /\ UNCHANGED <<globals, req, combined, trapped, writing>>
        <3>1. seen' \in [Procs -> [kernel: Vers \cup {NA}, rootfs: Vers \cup {NA}]]
            BY <2>2, SystemInfoType DEF TypeInv, TypeOK
        <3> QED
            BY <1>0, <2>2, <3>1 DEF PrintSysinfo, globals, machine, PCs, TypeInv, TypeOK
    <2> QED
        BY <1>0, <2>1, <2>2 DEF PrintSysinfo
<1>2. CASE ListBuilds(p)
    BY <1>2 DEF ListBuilds, globals, machine, TypeInv, TypeOK
<1>3. CASE SelfUpdate(p)
    <2>1. seen' \in [Procs -> [kernel: Vers \cup {NA}, rootfs: Vers \cup {NA}]]
        <3>1. NoSeen \in [kernel: Vers \cup {NA}, rootfs: Vers \cup {NA}]
            BY DEF NoSeen
        <3>2. seen' = seen \/ seen' = [seen EXCEPT ![p] = NoSeen]
            BY <1>3 DEF SelfUpdate
        <3> QED
            BY <3>1, <3>2 DEF TypeInv, TypeOK
    <2>2. /\ \E label \in {"lock", "info"} : Goto(p, label)
          /\ UNCHANGED <<globals, req, combined, trapped, writing>> /\ pc[p] # "idle"
        BY <1>3 DEF SelfUpdate
    <2>3. PICK label \in {"lock", "info"} : Goto(p, label)
        BY <2>2
    <2>4. pc' \in [Procs -> PCs]
        BY <2>3 DEF Goto, PCs, TypeInv, TypeOK
    <2>5. TypeOK'
        BY <2>1, <2>2, <2>4 DEF globals, machine, TypeInv, TypeOK
    <2> QED
        BY <2>2, <2>3, <2>5 DEF Goto, globals, machine, TypeInv, TypeOK
<1>4. CASE CreateLockTest(p)
    BY <1>4 DEF CreateLockTest, globals, machine, invocation, PCs, TypeInv, TypeOK
<1>5. CASE CreateLockTouch(p)
    <2>1. hist' \subseteq Events
        BY <1>5 DEF CreateLockTouch, TypeInv, TypeOK, Events
    <2> QED
        BY <1>5, <2>1 DEF CreateLockTouch, invocation, PCs, TypeInv, TypeOK
<1>6. CASE FreeResources(p)
    <2>1. \E label \in {"sdcard", "protect", "download"} : Goto(p, label)
        BY <1>6 DEF FreeResources
    <2> QED
        BY <1>6, <2>1 DEF FreeResources, invocation, PCs, TypeInv, TypeOK
<1>7. CASE SdCardUnmounted(p)
    BY <1>7 DEF SdCardUnmounted, globals, invocation, PCs, TypeInv, TypeOK
<1>8. CASE SdCardRecovery(p)
    BY <1>8 DEF SdCardRecovery, globals, machine, TypeInv, TypeOK
<1>9. CASE DownloadFails(p)
    <2>1. ASSUME NEW a \in Archives, RebootSystem(p, Extracted(Damaged(a)))
          PROVE  TypeInv'
        BY <2>1, RebootKeepsTypes, ExtractedType, DamagedType, ConstantsAssumption
    <2> QED
        BY <1>9, <2>1 DEF DownloadFails
<1>10. CASE DownloadFirmware(p)
    <2>1. PICK a \in Archives :
             \/ RebootSystem(p, Extracted(a))
             \/ /\ tmp' = Extracted(a) /\ Goto(p, "protect")
                /\ combined' = [combined EXCEPT ![p] = Extracted(a)["firmware"] # None]
                /\ hist' = hist \cup Oddities(a)
                /\ UNCHANGED <<machine, lock, flash, services, req, seen, trapped, writing>>
        BY <1>10 DEF DownloadFirmware
    <2>2. Extracted(a) \in [Staged -> Image \cup {None}]
        BY ExtractedType, ConstantsAssumption
    <2>3. CASE RebootSystem(p, Extracted(a))
        BY <2>2, <2>3, RebootKeepsTypes
    <2>4. CASE ~RebootSystem(p, Extracted(a))
        <3>1. combined' \in [Procs -> BOOLEAN] /\ hist' \subseteq Events
            BY <2>1, <2>4 DEF TypeInv, TypeOK, Oddities
        <3> QED
            BY <1>10, <2>1, <2>2, <2>4, <3>1 DEF DownloadFirmware, PCs, TypeInv, TypeOK
    <2> QED
        BY <2>3, <2>4
<1>11. CASE Protect(p)
    <2>1. \E label \in {"firmware", "kernel", "rootfs", "wipe", "reboot"} : Goto(p, label)
        BY <1>11 DEF Protect
    <2>2. trapped' \in [Procs -> BOOLEAN] /\ services' \subseteq Services /\ hist' \subseteq Events
        BY <1>11 DEF Protect, SetTrap, StopMajestic, Unusual, Events, TypeInv, TypeOK
    <2> QED
        BY <1>11, <2>1, <2>2 DEF Protect, PCs, TypeInv, TypeOK
<1>12. CASE WriteEnds(p)
    <2>1. \E label \in {"rootfs", "wipe", "reboot"} : Goto(p, label)
        BY <1>12 DEF WriteEnds
    <2>2. PICK ok \in BOOLEAN : EndWrite(p, ok)
        BY <1>12 DEF WriteEnds
    <2>3. flash' \in [Parts -> Contents] /\ hist' \subseteq Events
        BY <2>2 DEF EndWrite, TypeInv, TypeOK, Events
    <2>4. writing' \in [Procs -> [parts: SUBSET Parts, data: Contents, rivals: SUBSET Procs]]
        BY <2>2 DEF EndWrite, TypeInv, TypeOK, NoWrite, Contents
    <2>5. pc[p] # "idle"
        BY <1>12 DEF WriteEnds, WritePCs
    <2> QED
        BY <1>12, <2>1, <2>3, <2>4, <2>5 DEF WriteEnds, PCs, invocation, TypeInv, TypeOK
<1>13. CASE Finish(p)
    BY <1>13 DEF Finish, Die
<1>14. CASE Hangup(p)
    BY <1>14 DEF Hangup, globals, machine, TypeInv, TypeOK
<1> QED
    BY <1>0, <1>1, <1>2, <1>3, <1>4, <1>5, <1>6, <1>7, <1>8, <1>9, <1>10, <1>11, <1>12, <1>13,
       <1>14, DoUpdateKeepsTypes DEF Step, Network, Local

LEMMA TypesInvariant == Spec => []TypeInv
<1>1. Init => TypeInv
    <2> SUFFICES ASSUME Init PROVE TypeInv
        OBVIOUS
    <2>1. flash \in [Parts -> Contents] /\ system \in Vers \cup {NA}
        BY ConstantsAssumption DEF Init, Contents, Image
    <2>2. writing \in [Procs -> [parts: SUBSET Parts, data: Contents, rivals: SUBSET Procs]]
        BY DEF Init, NoWrite, Contents
    <2>3. /\ pc \in [Procs -> PCs] /\ \A p \in Procs : pc[p] = "idle"
          /\ seen \in [Procs -> [kernel: Vers \cup {NA}, rootfs: Vers \cup {NA}]]
        BY DEF Init, PCs, NoSeen
    <2> QED
        BY <2>1, <2>2, <2>3 DEF Init, TypeInv, TypeOK, NoFiles
<1>2. TypeInv /\ [Next]_vars => TypeInv'
    <2> SUFFICES ASSUME TypeInv, [Next]_vars PROVE TypeInv'
        OBVIOUS
    <2>1. CASE PowerCut
        BY <2>1, BootKeepsTypes DEF PowerCut, Events
    <2>2. CASE UNCHANGED vars
        BY <2>2 DEF vars, globals, machine, invocation, TypeInv, TypeOK
    <2> QED
        BY <2>1, <2>2, StepKeepsTypes DEF Next
<1> QED
    BY <1>1, <1>2, PTL DEF Spec

\* Every variable keeps its type.
THEOREM TypeCorrect == Spec => []TypeOK
<1>1. TypeInv => TypeOK
    BY DEF TypeInv
<1> QED
    BY <1>1, TypesInvariant, PTL

-----------------------------------------------------------------------------
(***************************************************************************)
(* A half written partition has a cause.  The invariant ties the places of *)
(* the script to the trap and to the writers: only a process at a flashcp  *)
(* writes, it has set the trap by then, it writes something that is not    *)
(* "torn", and two writers of one partition were both past the lock.       *)
(***************************************************************************)
Flashing == WritePCs \cup {"firmware", "kernel", "rootfs", "wipe", "reboot"}

WriterInv ==
    \A p \in Procs :
        /\ pc[p] \in Flashing => trapped[p]
        /\ writing[p].parts # {} => pc[p] \in WritePCs /\ writing[p].data # Torn
        /\ writing[p].rivals # {} => ~Clean({"raced", "stolen"})

TornInv == TypeInv /\ LockInv /\ WriterInv /\ TornHasCause

Unwritten(part) == \A p \in Procs : part \notin writing[p].parts
Causes == {"flasherr", "power", "rebooted", "raced", "stolen"}

\* Nothing is forgotten.
LEMMA EventsStay ==
    ASSUME hist \subseteq hist', NEW causes, ~Clean(causes)
    PROVE  ~Clean(causes)'
BY DEF Clean

\* A process that is not writing ends or goes on without touching the flash.
LEMMA IdleWriterKeepsTorn ==
    ASSUME TornInv, NEW p \in Procs, writing[p].parts = {},
           hist \subseteq hist', flash' = flash,
           writing' \in {writing, [writing EXCEPT ![p] = NoWrite]},
           NEW label \in PCs, pc' = [pc EXCEPT ![p] = label],
           \A q \in Procs \ {p} : trapped'[q] = trapped[q],
           label \in Flashing => trapped'[p]
    PROVE  WriterInv' /\ TornHasCause'
<1>1. ASSUME NEW q \in Procs
      PROVE  /\ writing'[q].parts = writing[q].parts
             /\ writing[q].parts # {} => q # p /\ writing'[q] = writing[q]
             /\ writing'[q].rivals # {} => writing[q].rivals # {}
    <2>1. CASE q # p
        <3>1. writing'[q] = writing[q]
            BY <2>1 DEF TornInv, TypeInv, TypeOK
        <3> QED
            BY <2>1, <3>1
    <2>2. CASE q = p
        <3>1. writing'[p] = writing[p] \/ writing'[p] = NoWrite
            BY DEF TornInv, TypeInv, TypeOK
        <3>2. NoWrite.parts = {} /\ NoWrite.rivals = {}
            BY DEF NoWrite
        <3>3. /\ writing'[p].parts = {}
              /\ writing'[p].rivals # {} => writing[p].rivals # {}
            BY <3>1, <3>2, Zenon
        <3> QED
            BY <2>2, <3>3, Zenon
    <2> QED
        BY <2>1, <2>2
<1>2. ASSUME NEW q \in Procs
      PROVE  pc'[q] = IF q = p THEN label ELSE pc[q]
    BY DEF TornInv, TypeInv, TypeOK
<1>3. WriterInv'
    BY <1>1, <1>2, EventsStay DEF TornInv, WriterInv
<1>4. TornHasCause'
    BY <1>1, EventsStay DEF TornInv, TornHasCause
<1> QED
    BY <1>3, <1>4

\* A boot cuts the writers off; it is recorded when it does.
LEMMA BootKeepsTorn ==
    ASSUME TornInv, NEW event \in {"power", "rebooted"}, NEW others \in SUBSET Procs,
           Boot(event, others), \A p \in Procs \ others : writing[p].parts = {}
    PROVE  WriterInv' /\ TornHasCause'
<1>1. \A p \in Procs : /\ pc'[p] = "idle" /\ writing'[p] = NoWrite
    BY DEF Boot
<1>2. WriterInv'
    BY <1>1 DEF WriterInv, Flashing, WritePCs, NoWrite
<1>3. hist \subseteq hist' /\ flash' = flash
    BY DEF Boot
<1>4. ASSUME NEW part \in Parts, flash[part] = Torn
      PROVE  ~Clean(Causes)'
    <2>1. CASE Unwritten(part)
        BY <1>3, <1>4, <2>1, EventsStay DEF TornInv, TornHasCause, Unwritten, Causes
    <2>2. CASE ~Unwritten(part)
        <3>1. PICK p \in Procs : writing[p].parts # {}
            BY <2>2 DEF Unwritten
        <3>2. p \in others /\ trapped[p]
            BY <3>1 DEF TornInv, WriterInv, Flashing
        <3>3. event \in hist'
            BY <3>2 DEF Boot
        <3> QED
            BY <3>3 DEF Clean, Causes
    <2> QED
        BY <2>1, <2>2
<1> QED
    BY <1>2, <1>3, <1>4 DEF TornHasCause, Causes

LEMMA RebootKeepsTorn ==
    ASSUME TornInv, NEW p \in Procs, NEW staged, RebootSystem(p, staged),
           pc[p] \notin WritePCs
    PROVE  WriterInv' /\ TornHasCause'
<1>1. writing[p].parts = {}
    BY DEF TornInv, WriterInv
<1>2. CASE Boot("rebooted", Procs \ {p})
    BY <1>1, <1>2, BootKeepsTorn
<1>3. CASE Quit(p) /\ hist \subseteq hist' /\ flash' = flash
    BY <1>1, <1>3, IdleWriterKeepsTorn DEF Quit, PCs, Flashing, WritePCs, TornInv, TypeInv, TypeOK
<1> QED
    BY <1>2, <1>3 DEF RebootSystem

\* The start of a write: the partitions become torn, and have a writer.  A
\* second writer means that the lock was not exclusive.
LEMMA BeginWriteKeepsTorn ==
    ASSUME TornInv, NEW p \in Procs, NEW parts \in SUBSET Parts, NEW data \in Contents,
           NEW label \in WritePCs, data # Torn,
           BeginWrite(p, parts, data, label), pc[p] \in Flashing \ WritePCs,
           hist \subseteq hist', trapped' = trapped
    PROVE  WriterInv' /\ TornHasCause'
<1> DEFINE others == {q \in Procs \ {p} : writing[q].parts \cap parts # {}}
<1>1. /\ writing'[p] = [parts |-> parts, data |-> data, rivals |-> others]
      /\ \A q \in others : writing'[q] = [writing[q] EXCEPT !.rivals = @ \cup {p}]
      /\ \A q \in Procs \ ({p} \cup others) : writing'[q] = writing[q]
    BY DEF BeginWrite
<1>2. \A q \in Procs \ {p} : /\ writing'[q].parts = writing[q].parts
                            /\ writing'[q].data = writing[q].data
                            /\ (writing'[q].rivals # {} => q \in others \/ writing[q].rivals # {})
    BY <1>1 DEF TornInv, TypeInv, TypeOK
<1>3. others # {} => ~Clean({"raced", "stolen"})
    <2> SUFFICES ASSUME NEW q \in others PROVE ~Clean({"raced", "stolen"})
        OBVIOUS
    <2>1. Inside(p) /\ Inside(q) /\ p # q
        BY DEF TornInv, WriterInv, Inside, PastLock, PCs, Flashing, WritePCs
    <2> QED
        BY <2>1 DEF TornInv, LockInv, LockExclusion
<1>4. pc' = [pc EXCEPT ![p] = label] /\ pc \in [Procs -> PCs]
    BY DEF BeginWrite, Goto, TornInv, TypeInv, TypeOK
<1>5. WriterInv'
    <2> SUFFICES ASSUME NEW q \in Procs
                 PROVE  /\ pc'[q] \in Flashing => trapped'[q]
                        /\ writing'[q].parts # {} => pc'[q] \in WritePCs /\ writing'[q].data # Torn
                        /\ writing'[q].rivals # {} => ~Clean({"raced", "stolen"})'
        BY DEF WriterInv
    <2>1. ~Clean({"raced", "stolen"}) => ~Clean({"raced", "stolen"})'
        BY EventsStay
    <2>2. CASE q = p
        <3>1. pc'[q] = label /\ trapped[q]
            BY <1>4, <2>2 DEF TornInv, WriterInv
        <3>2. writing'[q].data = data /\ (writing'[q].rivals # {} => others # {})
            BY <1>1, <2>2
        <3>3. writing'[q].rivals # {} => ~Clean({"raced", "stolen"})'
            BY <1>3, <2>1, <3>2, Zenon
        <3>4. trapped'[q] /\ pc'[q] \in WritePCs /\ writing'[q].data # Torn
            BY <3>1, <3>2, Zenon
        <3> QED
            BY <3>3, <3>4, Zenon
    <2>3. CASE q # p
        <3>1. pc'[q] = pc[q]
            BY <1>4, <2>3
        <3>2. /\ writing'[q].parts = writing[q].parts /\ writing'[q].data = writing[q].data
              /\ writing'[q].rivals # {} => q \in others \/ writing[q].rivals # {}
            BY <1>2, <2>3
        <3> QED
            BY <1>3, <2>1, <3>1, <3>2 DEF TornInv, WriterInv
    <2> QED
        BY <2>2, <2>3
<1>6. ASSUME NEW part \in Parts, flash'[part] = Torn, Unwritten(part)'
      PROVE  flash[part] = Torn /\ Unwritten(part)
    <2>1. part \notin parts
        BY <1>1, <1>6 DEF Unwritten
    <2>2. flash[part] = Torn
        BY <1>6, <2>1 DEF BeginWrite
    <2>3. writing[p].parts = {}
        BY DEF TornInv, WriterInv
    <2> QED
        BY <1>2, <1>6, <2>2, <2>3 DEF Unwritten
<1> QED
    BY <1>5, <1>6, EventsStay DEF TornInv, TornHasCause, Unwritten

\* The end of a write: torn stays only what flashcp failed on or two wrote.
LEMMA WriteEndsKeepsTorn ==
    ASSUME TornInv, NEW p \in Procs, WriteEnds(p)
    PROVE  WriterInv' /\ TornHasCause'
<1>1. PICK ok \in BOOLEAN : EndWrite(p, ok)
    BY DEF WriteEnds
<1>2. /\ writing' = [writing EXCEPT ![p] = NoWrite] /\ trapped' = trapped
      /\ hist \subseteq hist'
    BY <1>1 DEF WriteEnds, EndWrite, invocation
<1>3. \E label \in {"rootfs", "wipe", "reboot"} : pc' = [pc EXCEPT ![p] = label]
    BY AfterLabels DEF WriteEnds, Goto
<1>4. /\ writing'[p] = NoWrite /\ \A q \in Procs \ {p} : writing'[q] = writing[q]
      /\ pc'[p] \notin WritePCs /\ \A q \in Procs \ {p} : pc'[q] = pc[q]
    BY <1>2, <1>3 DEF TornInv, TypeInv, TypeOK, WritePCs
<1>5. trapped[p]
    BY DEF WriteEnds, TornInv, WriterInv, Flashing
<1>6. WriterInv'
    <2> SUFFICES ASSUME NEW q \in Procs
                 PROVE  /\ pc'[q] \in Flashing => trapped'[q]
                        /\ writing'[q].parts # {} => pc'[q] \in WritePCs /\ writing'[q].data # Torn
                        /\ writing'[q].rivals # {} => ~Clean({"raced", "stolen"})'
        BY DEF WriterInv
    <2>1. CASE q = p
        BY <1>2, <1>4, <1>5, <2>1 DEF NoWrite
    <2>2. CASE q # p
        BY <1>2, <1>4, <2>2, EventsStay DEF TornInv, WriterInv
    <2> QED
        BY <2>1, <2>2
<1>7. ASSUME NEW part \in Parts, flash'[part] = Torn, Unwritten(part)'
      PROVE  ~Clean(Causes)'
    <2>1. \A q \in Procs \ {p} : part \notin writing[q].parts
        BY <1>4, <1>7 DEF Unwritten
    <2>2. CASE part \notin writing[p].parts
        <3>1. flash[part] = Torn
            BY <1>1, <1>7, <2>2 DEF EndWrite
        <3>2. ~Clean(Causes)
            BY <2>1, <2>2, <3>1 DEF TornInv, TornHasCause, Causes
        <3> QED
            BY <1>2, <3>2, EventsStay
    <2>3. CASE part \in writing[p].parts
        <3>1. writing[p].data # Torn
            BY <2>3 DEF TornInv, WriterInv
        <3>2. ~ok \/ writing[p].rivals # {}
            BY <1>1, <1>7, <2>3, <3>1 DEF EndWrite
        <3>3. CASE ~ok
            BY <1>1, <3>3 DEF EndWrite, Clean, Causes
        <3>4. CASE writing[p].rivals # {}
            <4>1. ~Clean({"raced", "stolen"})
                BY <3>4 DEF TornInv, WriterInv
            <4> QED
                BY <1>2, <4>1 DEF Clean, Causes
        <3> QED
            BY <3>2, <3>3, <3>4
    <2> QED
        BY <2>2, <2>3
<1> QED
    BY <1>6, <1>7 DEF TornHasCause, Unwritten, Causes

\* The two ways a step leaves the flash alone: the invocation goes on, or ends.
LEMMA GotoKeepsTorn ==
    ASSUME TornInv, NEW p \in Procs, NEW label \in PCs, Goto(p, label),
           pc[p] \notin WritePCs, label \in Flashing => pc[p] \in Flashing,
           hist \subseteq hist', flash' = flash, writing' = writing, trapped' = trapped
    PROVE  WriterInv' /\ TornHasCause'
<1>1. writing[p].parts = {} /\ (label \in Flashing => trapped'[p])
    BY DEF TornInv, WriterInv
<1> QED
    BY <1>1, IdleWriterKeepsTorn DEF Goto

LEMMA QuitKeepsTorn ==
    ASSUME TornInv, NEW p \in Procs, Quit(p), pc[p] \notin WritePCs,
           hist \subseteq hist', flash' = flash
    PROVE  WriterInv' /\ TornHasCause'
<1>1. writing[p].parts = {} /\ "idle" \in PCs /\ "idle" \notin Flashing
    BY DEF TornInv, WriterInv, PCs, Flashing, WritePCs
<1> QED
    BY <1>1, IdleWriterKeepsTorn DEF Quit, TornInv, TypeInv, TypeOK

\* The stages that may start a write.
LEMMA DoUpdateKeepsTorn ==
    ASSUME TornInv, NEW p \in Procs,
           DoUpdateFirmware(p) \/ DoUpdateKernel(p) \/ DoUpdateRootfs(p) \/ DoWipeOverlay(p)
    PROVE  WriterInv' /\ TornHasCause'
<1>1. pc[p] \in Flashing \ WritePCs
    BY DEF DoUpdateFirmware, DoUpdateKernel, DoUpdateRootfs, DoWipeOverlay, Flashing, WritePCs
<1>2. ASSUME Die(p) PROVE WriterInv' /\ TornHasCause'
    BY <1>1, <1>2, RebootKeepsTorn DEF Die
<1>3. ASSUME NEW label \in Flashing \ WritePCs, Goto(p, label), hist \subseteq hist',
             flash' = flash, writing' = writing, trapped' = trapped
      PROVE  WriterInv' /\ TornHasCause'
    <2>1. label \in PCs
        BY DEF Flashing, WritePCs, PCs
    <2> QED
        BY <1>1, <1>3, <2>1, GotoKeepsTorn
<1>4. CASE DoUpdateFirmware(p)
    <2>1. CASE BeginWrite(p, {"kernel", "rootfs"}, tmp["firmware"], "wfirmware")
               /\ tmp["firmware"] # None /\ hist' = hist \cup {"whole"} /\ trapped' = trapped
        <3>1. tmp["firmware"] \in Image
            BY <2>1 DEF TornInv, TypeInv, TypeOK, Staged
        <3>2. tmp["firmware"] \in Contents /\ tmp["firmware"] # Torn
            BY <3>1, ConstantsAssumption DEF Contents
        <3> QED
            BY <1>1, <2>1, <3>2, BeginWriteKeepsTorn DEF WritePCs, Parts
    <2>2. CASE Goto(p, "kernel") /\ UNCHANGED <<flash, hist, writing, trapped>>
        BY <1>3, <2>2 DEF Flashing, WritePCs
    <2> QED
        BY <1>2, <1>4, <2>1, <2>2 DEF DoUpdateFirmware, invocation
<1>5. CASE DoUpdateKernel(p)
    <2>1. CASE BeginWrite(p, {"kernel"}, KernelFile(p), "wkernel")
               /\ KernelFile(p) \in Image /\ hist \subseteq hist' /\ trapped' = trapped
        <3>1. KernelFile(p) \in Contents /\ KernelFile(p) # Torn
            BY <2>1, ConstantsAssumption DEF Contents
        <3> QED
            BY <1>1, <2>1, <3>1, BeginWriteKeepsTorn DEF WritePCs, Parts
    <2>2. CASE Goto(p, AfterKernel(p)) /\ UNCHANGED <<flash, hist, writing, trapped>>
        BY <1>3, <2>2, AfterLabels DEF Flashing, WritePCs
    <2> QED
        BY <1>2, <1>5, <2>1, <2>2 DEF DoUpdateKernel, invocation, globals, machine
<1>6. CASE DoUpdateRootfs(p)
    <2>1. CASE BeginWrite(p, {"rootfs"}, RootfsFile(p), "wrootfs")
               /\ RootfsFile(p) \in Image /\ hist \subseteq hist' /\ trapped' = trapped
        <3>1. RootfsFile(p) \in Contents /\ RootfsFile(p) # Torn
            BY <2>1, ConstantsAssumption DEF Contents
        <3> QED
            BY <1>1, <2>1, <3>1, BeginWriteKeepsTorn DEF WritePCs, Parts
    <2>2. CASE /\ Goto(p, AfterRootfs(p)) \/ Goto(p, "reboot")
               /\ hist \subseteq hist' /\ UNCHANGED <<flash, writing, trapped>>
        BY <1>3, <2>2, AfterLabels DEF Flashing, WritePCs
    <2> QED
        BY <1>2, <1>6, <2>1, <2>2 DEF DoUpdateRootfs, invocation, globals, machine
<1>7. CASE DoWipeOverlay(p)
    <2>1. Erased \in Contents /\ Erased # Torn
        BY ConstantsAssumption DEF Contents
    <2> QED
        BY <1>1, <1>7, <2>1, BeginWriteKeepsTorn DEF DoWipeOverlay, WritePCs, Parts, invocation
<1> QED
    BY <1>4, <1>5, <1>6, <1>7

LEMMA StepKeepsTorn ==
    ASSUME TornInv, NEW p \in Procs,
           Step(p) \/ Start(p) \/ SdCardUnmounted(p) \/ SdCardRecovery(p) \/ Hangup(p)
    PROVE  WriterInv' /\ TornHasCause'
<1>0. ASSUME pc[p] \notin Flashing, NEW label \in PCs \ Flashing, Goto(p, label),
             hist \subseteq hist', flash' = flash, writing' = writing, trapped' = trapped
      PROVE  WriterInv' /\ TornHasCause'
    BY <1>0, GotoKeepsTorn DEF Flashing
<1>a. ASSUME pc[p] \notin Flashing, Quit(p), UNCHANGED globals
      PROVE  WriterInv' /\ TornHasCause'
    BY <1>a, QuitKeepsTorn DEF Flashing, globals
<1>1. CASE Start(p)
    BY <1>0, <1>1 DEF Start, PCs, Flashing, WritePCs
<1>15. CASE PrintSysinfo(p)
    <2>1. CASE UNCHANGED <<globals, trapped, writing>> /\ \E label \in {"list", "self", "lock"} : Goto(p, label)
        BY <1>0, <1>15, <2>1 DEF PrintSysinfo, globals, PCs, Flashing, WritePCs
    <2> QED
        BY <1>a, <1>15, <2>1, RebootKeepsTorn DEF PrintSysinfo, Die, Flashing, WritePCs
<1>2. CASE ListBuilds(p)
    BY <1>a, <1>2, RebootKeepsTorn DEF ListBuilds, Die, Flashing, WritePCs
<1>3. CASE SelfUpdate(p)
    <2>1. PICK label \in {"lock", "info"} : Goto(p, label)
        BY <1>3 DEF SelfUpdate
    <2> QED
        BY <1>0, <1>3, <2>1 DEF SelfUpdate, globals, PCs, Flashing, WritePCs
<1>4. CASE CreateLockTest(p)
    BY <1>0, <1>a, <1>4 DEF CreateLockTest, globals, invocation, PCs, Flashing, WritePCs
<1>5. CASE CreateLockTouch(p)
    BY <1>0, <1>5 DEF CreateLockTouch, invocation, PCs, Flashing, WritePCs
<1>6. CASE FreeResources(p)
    <2>1. PICK label \in {"sdcard", "protect", "download"} : Goto(p, label)
        BY <1>6, AfterLabels DEF FreeResources
    <2> QED
        BY <1>0, <1>6, <2>1 DEF FreeResources, invocation, PCs, Flashing, WritePCs
<1>7. CASE SdCardUnmounted(p)
    BY <1>0, <1>7, AfterLabels DEF SdCardUnmounted, globals, invocation, PCs, Flashing, WritePCs
<1>8. CASE SdCardRecovery(p)
    BY <1>a, <1>8 DEF SdCardRecovery, Flashing, WritePCs
<1>9. CASE DownloadFails(p)
    <2>1. pc[p] \notin WritePCs
        BY <1>9 DEF DownloadFails, WritePCs
    <2> QED
        BY <1>9, <2>1, RebootKeepsTorn DEF DownloadFails, Die
<1>10. CASE DownloadFirmware(p)
    <2>1. pc[p] \notin Flashing /\ pc[p] \notin WritePCs /\ "protect" \in PCs \ Flashing
        BY <1>10 DEF DownloadFirmware, PCs, Flashing, WritePCs
    <2>2. ASSUME NEW a \in Archives, RebootSystem(p, Extracted(a))
          PROVE  WriterInv' /\ TornHasCause'
        BY <2>1, <2>2, RebootKeepsTorn
    <2>3. CASE Goto(p, "protect") /\ hist \subseteq hist' /\ UNCHANGED <<flash, writing, trapped>>
        BY <1>0, <2>1, <2>3
    <2> QED
        BY <1>10, <2>2, <2>3 DEF DownloadFirmware
<1>11. CASE Protect(p)
    <2>0. \E label \in {"firmware", "kernel", "rootfs", "wipe", "reboot"} : Goto(p, label)
        BY <1>11, AfterLabels DEF Protect
    <2>1. PICK label \in {"firmware", "kernel", "rootfs", "wipe", "reboot"} :
             pc' = [pc EXCEPT ![p] = label]
        BY <2>0 DEF Goto
    <2>2. trapped' = [trapped EXCEPT ![p] = TRUE] /\ hist \subseteq hist'
        BY <1>11 DEF Protect, SetTrap
    <2>3. trapped'[p] = TRUE /\ \A q \in Procs \ {p} : trapped'[q] = trapped[q]
        BY <2>2 DEF TornInv, TypeInv, TypeOK
    <2>4. writing[p].parts = {} /\ flash' = flash /\ writing' = writing
        <3>1. pc[p] \notin WritePCs
            BY <1>11 DEF Protect, WritePCs
        <3>2. flash' = flash /\ writing' = writing
            BY <1>11 DEF Protect
        <3> QED
            BY <3>1, <3>2 DEF TornInv, WriterInv
    <2>5. label \in PCs
        BY DEF PCs
    <2> QED
        BY <2>1, <2>2, <2>3, <2>4, <2>5, IdleWriterKeepsTorn
<1>12. CASE WriteEnds(p)
    BY <1>12, WriteEndsKeepsTorn
<1>13. CASE Finish(p)
    BY <1>13, RebootKeepsTorn DEF Finish, WritePCs
<1>14. CASE Hangup(p)
    <2>1. pc[p] \notin Flashing
        BY <1>14 DEF Hangup, TornInv, WriterInv
    <2> QED
        BY <1>a, <1>14, <2>1 DEF Hangup
<1> QED
    BY <1>1, <1>2, <1>3, <1>4, <1>5, <1>6, <1>7, <1>8, <1>9, <1>10, <1>11, <1>12, <1>13,
       <1>14, <1>15, DoUpdateKeepsTorn DEF Step, Network, Local

LEMMA TornInvariant == Spec => [](WriterInv /\ TornHasCause)
<1>1. Init => WriterInv /\ TornHasCause
    <2> SUFFICES ASSUME Init PROVE WriterInv /\ TornHasCause
        OBVIOUS
    <2>1. WriterInv
        BY DEF Init, WriterInv, NoWrite, Flashing, WritePCs
    <2>2. \A part \in Parts : flash[part] # Torn
        BY ConstantsAssumption DEF Init
    <2> QED
        BY <2>1, <2>2 DEF TornHasCause
<1>2. /\ TypeInv /\ LockInv /\ WriterInv /\ TornHasCause
      /\ [Next]_vars
      => (WriterInv /\ TornHasCause)'
    <2> SUFFICES ASSUME TornInv, [Next]_vars PROVE WriterInv' /\ TornHasCause'
        BY DEF TornInv
    <2>1. CASE PowerCut
        BY <2>1, BootKeepsTorn DEF PowerCut
    <2>2. CASE UNCHANGED vars
        BY <2>2 DEF vars, globals, machine, invocation, TornInv, WriterInv, TornHasCause, Clean
    <2> QED
        BY <2>1, <2>2, StepKeepsTorn DEF Next
<1> QED
    BY <1>1, <1>2, TypesInvariant, LockInvariant, PTL DEF Spec

\* A partition that nobody is writing is half written only after a cause other
\* than a lost terminal: the trap of the flashing part and the lock see to it.
THEOREM TornHasItsCause == Spec => []TornHasCause
BY TornInvariant, PTL

-----------------------------------------------------------------------------
(***************************************************************************)
(* The gates: what may reach the flash, and in which circumstances it is   *)
(* written at all.                                                         *)
(***************************************************************************)

(***************************************************************************)
(* Either the machine restarts, or one invocation moves to "label".  It    *)
(* comes into the flashing part through Protect only, to the stages before *)
(* it through FreeResources, and only past the lock does it touch /tmp.    *)
(***************************************************************************)
Waiting == {"sdcard", "download", "protect"}
\* From the download on.
Staging == Flashing \cup {"protect"}
\* The stages that work on the staged kernel and root file system.
FileStages == {"kernel", "wkernel", "rootfs", "wrootfs"}

Updates(p) ==
    DoUpdateFirmware(p) \/ DoUpdateKernel(p) \/ DoUpdateRootfs(p) \/ DoWipeOverlay(p) \/ WriteEnds(p)

Moves(p, label) ==
    /\ label \in PCs /\ pc' = [pc EXCEPT ![p] = label]
    /\ hist \subseteq hist' /\ services' \subseteq services
    /\ \A q \in Procs \ {p} : req'[q] = req[q] /\ combined'[q] = combined[q]
    /\ label \in Flashing => req'[p] = req[p] /\ (pc[p] \in Flashing \/ Protect(p))
    /\ label \in Waiting => req'[p] = req[p] /\ (pc[p] \in Waiting \/ FreeResources(p))
    /\ tmp' # tmp => Inside(p)
    /\ label \in Flashing => combined'[p] = combined[p] /\ (tmp' = tmp \/ DoUpdateFirmware(p))
    /\ label \in FileStages => pc[p] \in FileStages \/ Protect(p) \/ DoUpdateFirmware(p)
    /\ label = "firmware" => Protect(p)
    /\ label = "download" => req[p].remote
    /\ combined'[p] => \/ label = "protect" /\ DownloadFirmware(p)
                       \/ combined[p] /\ (label \in Flashing \/ pc[p] \notin Staging)
    /\ label = "protect" => ~req[p].remote \/ DownloadFirmware(p)
    /\ \/ flash' = flash /\ writing' \in {writing, [writing EXCEPT ![p] = NoWrite]}
       \/ Updates(p)

RebootedBy(p) == Boot("rebooted", Procs \ {p})
Reboots == \E event \in Events, others \in SUBSET Procs : Boot(event, others)

\* An invocation that ends, whatever the reason.
LEMMA QuitMoves ==
    ASSUME TypeInv, NEW p \in Procs, Quit(p), flash' = flash, hist \subseteq hist',
           services' \subseteq services, tmp' # tmp => Inside(p)
    PROVE  Moves(p, "idle")
<1>1. "idle" \in PCs /\ "idle" \notin Flashing /\ "idle" \notin Waiting /\ "idle" \notin FileStages
    BY DEF PCs, Flashing, WritePCs, Waiting, FileStages
<1>2. /\ \A q \in Procs \ {p} : req'[q] = req[q] /\ combined'[q] = combined[q]
      /\ ~combined'[p]
    BY DEF Quit, TypeInv, TypeOK
<1> QED
    BY <1>1, <1>2 DEF Quit, Moves

LEMMA RebootMoves ==
    ASSUME TypeInv, NEW p \in Procs, NEW staged, RebootSystem(p, staged), staged = tmp \/ Inside(p)
    PROVE  Moves(p, "idle") \/ RebootedBy(p)
<1>1. CASE Boot("rebooted", Procs \ {p})
    BY <1>1 DEF RebootedBy
<1>2. CASE ~Boot("rebooted", Procs \ {p})
    BY <1>2, QuitMoves DEF RebootSystem
<1> QED
    BY <1>1, <1>2

\* A step that leaves the options of every invocation alone.
LEMMA GotoMoves ==
    ASSUME TypeInv, NEW p \in Procs, NEW label \in PCs, Goto(p, label), req' = req,
           \A q \in Procs \ {p} : combined'[q] = combined[q],
           hist \subseteq hist', services' \subseteq services,
           label \in Flashing => pc[p] \in Flashing \/ Protect(p),
           label \in Waiting => pc[p] \in Waiting \/ FreeResources(p),
           (flash' = flash /\ writing' = writing) \/ Updates(p),
           tmp' # tmp => Inside(p),
           label \in Flashing => combined'[p] = combined[p] /\ (tmp' = tmp \/ DoUpdateFirmware(p)),
           label \in FileStages => pc[p] \in FileStages \/ Protect(p) \/ DoUpdateFirmware(p),
           label = "firmware" => Protect(p),
           label = "download" => req[p].remote,
           \/ label = "protect" /\ DownloadFirmware(p)
           \/ combined'[p] = combined[p] /\ (label \in Flashing \/ pc[p] \notin Staging),
           label = "protect" => ~req[p].remote \/ DownloadFirmware(p)
    PROVE  Moves(p, label)
BY DEF Goto, Moves

\* The flashing part.
LEMMA UpdateMoves ==
    ASSUME TypeInv, NEW p \in Procs, Updates(p)
    PROVE  (\E label \in PCs : Moves(p, label)) \/ RebootedBy(p)
<1>1. pc[p] \in Flashing /\ Inside(p)
    BY DEF Updates, Inside, PastLock, PCs, DoUpdateFirmware, DoUpdateKernel, DoUpdateRootfs,
       DoWipeOverlay, WriteEnds,
       Flashing, WritePCs
<1>2. ASSUME NEW label \in Flashing \ {"firmware"}, Goto(p, label),
             UNCHANGED <<req, combined, services>>, hist \subseteq hist',
             tmp' = tmp \/ DoUpdateFirmware(p),
             label \in FileStages => pc[p] \in FileStages \/ DoUpdateFirmware(p)
      PROVE  \E l \in PCs : Moves(p, l)
    <2>1. label \in PCs /\ label \notin Waiting /\ label \notin {"protect", "download"}
        BY DEF PCs, Flashing, WritePCs, Waiting
    <2> QED
        BY <1>1, <1>2, <2>1, GotoMoves
<1>d. ASSUME Die(p) PROVE (\E label \in PCs : Moves(p, label)) \/ RebootedBy(p)
    BY <1>d, RebootMoves DEF Die, PCs
<1>w. ASSUME NEW parts, NEW data, NEW label, BeginWrite(p, parts, data, label)
      PROVE  Goto(p, label)
    BY <1>w DEF BeginWrite
<1>3. CASE DoUpdateFirmware(p)
    <2>1. CASE ~Die(p)
        <3>1. Goto(p, "kernel") \/ Goto(p, "wfirmware")
            BY <1>w, <1>3, <2>1 DEF DoUpdateFirmware
        <3>2. UNCHANGED <<req, combined, services>> /\ hist \subseteq hist'
            BY <1>3, <2>1 DEF DoUpdateFirmware, invocation, globals
        <3> QED
            BY <1>2, <1>3, <3>1, <3>2 DEF Flashing, WritePCs
    <2> QED
        BY <1>d, <2>1
<1>4. CASE DoUpdateKernel(p)
    <2>1. CASE ~Die(p)
        <3>1. Goto(p, AfterKernel(p)) \/ Goto(p, "wkernel")
            BY <1>w, <1>4, <2>1 DEF DoUpdateKernel
        <3>2. UNCHANGED <<req, combined, services>> /\ hist \subseteq hist'
            BY <1>4, <2>1 DEF DoUpdateKernel, invocation, globals
        <3>3. pc[p] \in FileStages /\ tmp' = tmp
            BY <1>4, <2>1 DEF DoUpdateKernel, FileStages, globals
        <3> QED
            BY <1>2, <3>1, <3>2, <3>3, AfterLabels DEF Flashing, WritePCs
    <2> QED
        BY <1>d, <2>1
<1>5. CASE DoUpdateRootfs(p)
    <2>1. CASE ~Die(p)
        <3>1. Goto(p, AfterRootfs(p)) \/ Goto(p, "wrootfs") \/ Goto(p, "reboot")
            BY <1>w, <1>5, <2>1 DEF DoUpdateRootfs
        <3>2. UNCHANGED <<req, combined, services>> /\ hist \subseteq hist'
            BY <1>5, <2>1 DEF DoUpdateRootfs, invocation, globals
        <3>3. pc[p] \in FileStages /\ tmp' = tmp
            BY <1>5, <2>1 DEF DoUpdateRootfs, FileStages, globals
        <3> QED
            BY <1>2, <3>1, <3>2, <3>3, AfterLabels DEF Flashing, WritePCs
    <2> QED
        BY <1>d, <2>1
<1>6. CASE DoWipeOverlay(p)
    <2>1. Goto(p, "wwipe") /\ UNCHANGED <<req, combined, services, hist, tmp>>
        BY <1>w, <1>6 DEF DoWipeOverlay, invocation
    <2> QED
        BY <1>2, <2>1 DEF Flashing, WritePCs, FileStages
<1>7. CASE WriteEnds(p)
    <2>1. PICK label \in {"rootfs", "wipe", "reboot"} : Goto(p, label)
        BY <1>7, AfterLabels DEF WriteEnds
    <2>2. UNCHANGED <<req, combined, services, tmp>> /\ hist \subseteq hist'
        BY <1>7 DEF WriteEnds, EndWrite, invocation
    <2>3. label = "rootfs" => pc[p] = "wkernel"
        <3>1. pc \in [Procs -> PCs]
            BY DEF TypeInv, TypeOK
        <3>2. AfterRootfs(p) # "rootfs"
            BY AfterLabels
        <3> QED
            BY <1>7, <2>1, <3>1, <3>2 DEF WriteEnds, AfterWrite, Goto
    <2> QED
        BY <1>2, <2>1, <2>2, <2>3 DEF Flashing, FileStages
<1> QED
    BY <1>3, <1>4, <1>5, <1>6, <1>7 DEF Updates

\* Every step of an invocation, and what the environment does to it.
LEMMA StepMoves ==
    ASSUME TypeInv, NEW p \in Procs,
           Step(p) \/ Start(p) \/ SdCardUnmounted(p) \/ SdCardRecovery(p) \/ Hangup(p)
    PROVE  (\E label \in PCs : Moves(p, label)) \/ RebootedBy(p)
<1> DEFINE Goal == (\E label \in PCs : Moves(p, label)) \/ RebootedBy(p)
<1>a. "idle" \in PCs
    BY DEF PCs
<1>b. ASSUME NEW staged, RebootSystem(p, staged), staged = tmp \/ Inside(p) PROVE Goal
    BY <1>a, <1>b, RebootMoves
<1>c. ASSUME Quit(p), UNCHANGED globals PROVE Goal
    BY <1>a, <1>c, QuitMoves DEF globals
<1>d. ASSUME NEW label \in PCs, Goto(p, label), UNCHANGED <<req, flash, writing>>,
             \A q \in Procs \ {p} : combined'[q] = combined[q],
             hist \subseteq hist', services' \subseteq services,
             label \in Flashing => Protect(p) /\ combined' = combined,
             label \in Waiting => pc[p] \in Waiting \/ FreeResources(p),
             tmp' # tmp => Inside(p) /\ label \notin Flashing,
             label = "protect" => ~req[p].remote \/ DownloadFirmware(p),
             label = "download" => req[p].remote,
             \/ label = "protect" /\ DownloadFirmware(p)
             \/ combined' = combined /\ (label \in Flashing \/ pc[p] \notin Staging)
      PROVE  Goal
    <2>1. (label \in FileStages => label \in Flashing) /\ (label = "firmware" => label \in Flashing)
        BY DEF FileStages, Flashing, WritePCs
    <2>2. label \in Flashing => Protect(p) /\ combined'[p] = combined[p] /\ tmp' = tmp
        BY <1>d
    <2> QED
        BY <1>d, <2>1, <2>2, GotoMoves

<1> USE DEF PCs, Flashing, WritePCs, Waiting, FileStages, Staging
<1>1. CASE Start(p)
    <2>1. \A q \in Procs \ {p} : req'[q] = req[q]
        BY <1>1 DEF Start, TypeInv, TypeOK
    <2>2. Moves(p, "info")
        BY <1>1, <2>1 DEF Start, Moves, Goto
    <2> QED
        BY <2>2 DEF Goal
<1>15. CASE PrintSysinfo(p)
    <2>1. ASSUME NEW label \in {"list", "self", "lock"}, Goto(p, label),
                 UNCHANGED <<globals, req, combined, writing>>
          PROVE  Goal
        BY <1>d, <1>15, <2>1 DEF PrintSysinfo, globals
    <2> QED
        BY <1>b, <1>c, <1>15, <2>1 DEF PrintSysinfo, Die
<1>2. CASE ListBuilds(p)
    BY <1>b, <1>c, <1>2 DEF ListBuilds, Die
<1>3. CASE SelfUpdate(p)
    <2>1. PICK label \in {"lock", "info"} : Goto(p, label)
        BY <1>3 DEF SelfUpdate
    <2> QED
        BY <1>d, <1>3, <2>1 DEF SelfUpdate, globals
<1>4. CASE CreateLockTest(p)
    BY <1>c, <1>d, <1>4 DEF CreateLockTest, globals, invocation
<1>5. CASE CreateLockTouch(p)
    BY <1>d, <1>5 DEF CreateLockTouch, invocation
<1>6. CASE FreeResources(p)
    <2>1. \E label \in {"sdcard", "protect", "download"} : Goto(p, label) /\ (label = "protect" => ~req[p].remote)
                                                          /\ (label = "download" => req[p].remote)
        BY <1>6 DEF FreeResources, AfterCard
    <2> QED
        BY <1>d, <1>6, <2>1 DEF FreeResources, invocation
<1>7. CASE SdCardUnmounted(p)
    <2>1. /\ AfterCard(p) = "protect" => ~req[p].remote
          /\ AfterCard(p) = "download" => req[p].remote
        BY DEF AfterCard
    <2> QED
        BY <1>d, <1>7, <2>1, AfterLabels DEF SdCardUnmounted, globals, invocation
<1>8. CASE SdCardRecovery(p)
    BY <1>c, <1>8 DEF SdCardRecovery
<1>9. CASE DownloadFails(p)
    <2>1. Inside(p)
        BY <1>9 DEF DownloadFails, Inside, PastLock
    <2> QED
        BY <1>b, <1>9, <2>1 DEF DownloadFails, Die
<1>10. CASE DownloadFirmware(p)
    <2>1. ASSUME NEW a \in Archives, RebootSystem(p, Extracted(a)) PROVE Goal
        <3>1. Inside(p)
            BY <1>10 DEF DownloadFirmware, Inside, PastLock
        <3> QED
            BY <1>b, <2>1, <3>1
    <2>2. ASSUME NEW x \in BOOLEAN, Goto(p, "protect"), combined' = [combined EXCEPT ![p] = x],
                 hist \subseteq hist', UNCHANGED <<req, flash, writing, services>>
          PROVE  Goal
        <3>1. \A q \in Procs \ {p} : combined'[q] = combined[q]
            BY <2>2 DEF TypeInv, TypeOK
        <3>2. pc[p] \in Waiting /\ Inside(p) /\ "protect" \in PCs \ Flashing
            BY <1>10 DEF DownloadFirmware, Inside, PastLock
        <3> QED
            BY <1>d, <1>10, <2>2, <3>1, <3>2
    <2> QED
        BY <1>10, <2>1, <2>2 DEF DownloadFirmware
<1>11. CASE Protect(p)
    <2>1. \E label \in {"firmware", "kernel", "rootfs", "wipe", "reboot"} : Goto(p, label)
        BY <1>11, AfterLabels DEF Protect
    <2>2. services' \subseteq services /\ hist \subseteq hist' /\ UNCHANGED <<req, flash, writing, combined, tmp>>
        BY <1>11 DEF Protect, StopMajestic
    <2> QED
        BY <1>d, <1>11, <2>1, <2>2
<1>12. CASE Finish(p)
    BY <1>b, <1>12 DEF Finish
<1>13. CASE Hangup(p)
    BY <1>c, <1>13 DEF Hangup
<1>14. CASE Updates(p)
    BY <1>14, UpdateMoves DEF Goal
<1> QED
    BY <1>1, <1>2, <1>3, <1>4, <1>5, <1>6, <1>7, <1>8, <1>9, <1>10, <1>11, <1>12, <1>13, <1>14, <1>15
       DEF Step, Network, Local, Updates, Goal

LEMMA NextMoves ==
    ASSUME TypeInv, [Next]_vars
    PROVE  (\E p \in Procs, label \in PCs : Moves(p, label)) \/ Reboots \/ UNCHANGED vars
<1>1. CASE PowerCut
    BY <1>1 DEF PowerCut, Reboots, Events
<1>2. ASSUME NEW p \in Procs, RebootedBy(p) PROVE Reboots
    BY <1>2 DEF RebootedBy, Reboots, Events
<1> QED
    BY <1>1, <1>2, StepMoves DEF Next

-----------------------------------------------------------------------------
(***************************************************************************)
(* The flash changes in the flashing part only.  An invocation there has   *)
(* set the trap and is past create_lock, so the lock file exists unless    *)
(* two invocations raced for it or one removed another's.                  *)
(***************************************************************************)
LEMMA FlashingIsLocked ==
    ASSUME TornInv, NEW p \in Procs, pc[p] \in Flashing
    PROVE  trapped[p] /\ Inside(p) /\ (lock \/ ~Clean({"raced", "stolen"}))
<1>1. Inside(p)
    BY DEF Inside, PastLock, PCs, Flashing, WritePCs, TornInv, TypeInv, TypeOK
<1> QED
    BY <1>1 DEF TornInv, WriterInv, LockInv

\* sysupgrade's flash writes all happen between create_lock and the removal of the
\* lock, with the signals ignored, whatever the other invocations do.
THEOREM FlashIsLocked == Spec => WritesUnderLock
<1> DEFINE Locked == flash' # flash => /\ \E p \in Procs : trapped[p] /\ Inside(p)
                                       /\ lock \/ ~Clean({"raced", "stolen"})
<1>1. TypeInv /\ LockInv /\ (WriterInv /\ TornHasCause) /\ [Next]_vars => Locked
    <2> SUFFICES ASSUME TornInv, [Next]_vars, flash' # flash
                 PROVE  \E p \in Procs : pc[p] \in Flashing
        BY FlashingIsLocked DEF TornInv
    <2>1. ~Reboots /\ ~UNCHANGED vars
        BY DEF Reboots, Boot, vars, globals
    <2>2. \E p \in Procs : Updates(p)
        BY <2>1, NextMoves DEF Moves, TornInv
    <2> QED
        BY <2>2 DEF Updates, DoUpdateFirmware, DoUpdateKernel, DoUpdateRootfs, DoWipeOverlay,
           WriteEnds, Flashing, WritePCs
<1>2. Locked => [Locked]_vars
    OBVIOUS
<1> QED
    BY <1>1, TypesInvariant, LockInvariant, TornInvariant, PTL DEF Spec, WritesUnderLock

-----------------------------------------------------------------------------
(***************************************************************************)
(* The services.  free_resources stops majestic unless --web; what keeps   *)
(* it running until the trap is the option, which stays what it was.       *)
(***************************************************************************)
QuietInv ==
    \A p \in Procs :
        /\ pc[p] \in Flashing => "majestic" \notin services
        /\ pc[p] \in Waiting /\ ~req[p].web => "majestic" \notin services

LEMMA StepKeepsQuiet ==
    ASSUME TypeInv, QuietInv, [Next]_vars
    PROVE  QuietInv'
<1>1. CASE Reboots
    BY <1>1 DEF Reboots, Boot, QuietInv, Flashing, WritePCs, Waiting
<1>2. CASE UNCHANGED vars
    BY <1>2 DEF vars, globals, invocation, QuietInv
<1>3. ASSUME NEW p \in Procs, NEW label \in PCs, Moves(p, label)
      PROVE  QuietInv'
    <2>1. pc'[p] = label /\ \A q \in Procs \ {p} : pc'[q] = pc[q]
        BY <1>3 DEF Moves, TypeInv, TypeOK
    <2>2. services' \subseteq services
        BY <1>3 DEF Moves
    <2>3. ASSUME NEW q \in Procs \ {p}
          PROVE  /\ pc'[q] \in Flashing => "majestic" \notin services'
                 /\ pc'[q] \in Waiting /\ ~req'[q].web => "majestic" \notin services'
        <3>1. req'[q] = req[q]
            BY <1>3 DEF Moves
        <3> QED
            BY <2>1, <2>2, <3>1 DEF QuietInv
    <2>4. label \in Flashing => "majestic" \notin services'
        <3>1. CASE pc[p] \in Flashing
            BY <2>2, <3>1 DEF QuietInv
        <3>2. CASE Protect(p)
            BY <3>2 DEF Protect, StopMajestic, QuietInv, Waiting
        <3> QED
            BY <1>3, <3>1, <3>2 DEF Moves
    <2>5. label \in Waiting /\ ~req'[p].web => "majestic" \notin services'
        <3>1. CASE pc[p] \in Waiting /\ req'[p] = req[p]
            BY <2>2, <3>1 DEF QuietInv
        <3>2. CASE FreeResources(p) /\ req'[p] = req[p]
            BY <3>2 DEF FreeResources, Services
        <3> QED
            BY <1>3, <3>1, <3>2 DEF Moves
    <2> QED
        BY <2>1, <2>3, <2>4, <2>5 DEF QuietInv
<1> QED
    BY <1>1, <1>2, <1>3, NextMoves

LEMMA QuietInvariant == Spec => []QuietInv
<1>1. Init => QuietInv
    BY DEF Init, QuietInv, Flashing, WritePCs, Waiting
<1>2. TypeInv /\ QuietInv /\ [Next]_vars => QuietInv'
    BY StepKeepsQuiet
<1> QED
    BY <1>1, <1>2, TypesInvariant, PTL DEF Spec

\* Whatever the options, and however many invocations there are, majestic has been
\* stopped and the signals are ignored while a flash write is on its way.
THEOREM FlashingIsQuiet == Spec => []QuietWhileFlashing
<1>1. QuietInv /\ (WriterInv /\ TornHasCause) => QuietWhileFlashing
    BY DEF QuietInv, WriterInv, QuietWhileFlashing, Flashing
<1> QED
    BY <1>1, QuietInvariant, TornInvariant, PTL

-----------------------------------------------------------------------------
(***************************************************************************)
(* What reaches a partition.  A gate keeps the images of a set "bad" out   *)
(* of it unless one of the "causes" has happened.  It holds of the flash   *)
(* and of what a flashcp is writing; only the start of a write can break   *)
(* it.                                                                     *)
(***************************************************************************)
Gate(part, bad, causes) ==
    /\ flash[part] \in bad => ~Clean(causes)
    /\ \A p \in Procs : part \in writing[p].parts /\ writing[p].data \in bad => ~Clean(causes)

\* A stage that may start a write; it leaves the other writers their image.
LEMMA BeginWriteFlash ==
    ASSUME TypeInv, NEW p \in Procs, NEW parts, NEW data, NEW label,
           BeginWrite(p, parts, data, label)
    PROVE  /\ \A part \in Parts : flash'[part] \in {Torn, flash[part]}
           /\ \A q \in Procs \ {p} : writing'[q].parts = writing[q].parts
                                     /\ writing'[q].data = writing[q].data
           /\ writing'[p].parts = parts /\ writing'[p].data = data
BY DEF BeginWrite, TypeInv, TypeOK

Stages(p) == DoUpdateFirmware(p) \/ DoUpdateKernel(p) \/ DoUpdateRootfs(p) \/ DoWipeOverlay(p)

\* The same of all four stages, and of those that skip the write or die.
LEMMA StageFlash ==
    ASSUME TypeInv, NEW p \in Procs, Stages(p), ~Reboots
    PROVE  /\ \A part \in Parts : flash'[part] \in {Torn, flash[part]}
           /\ \A q \in Procs \ {p} : writing'[q].parts = writing[q].parts
                                     /\ writing'[q].data = writing[q].data
<1> DEFINE Goal ==
           /\ \A part \in Parts : flash'[part] \in {Torn, flash[part]}
           /\ \A q \in Procs \ {p} : writing'[q].parts = writing[q].parts
                                     /\ writing'[q].data = writing[q].data
<1>1. ASSUME NEW parts, NEW data, NEW label, BeginWrite(p, parts, data, label)
      PROVE  Goal
    BY <1>1, BeginWriteFlash
<1>2. ASSUME flash' = flash, writing' = writing PROVE Goal
    BY <1>2
<1>3. ASSUME Die(p) PROVE Goal
    <2>1. Quit(p) /\ flash' = flash
        BY <1>3 DEF Die, RebootSystem, Reboots, Events
    <2> QED
        BY <2>1 DEF Quit, TypeInv, TypeOK
<1>4. CASE DoUpdateFirmware(p)
    BY <1>1, <1>2, <1>3, <1>4 DEF DoUpdateFirmware
<1>5. CASE DoUpdateKernel(p)
    BY <1>1, <1>2, <1>3, <1>5 DEF DoUpdateKernel, globals
<1>6. CASE DoUpdateRootfs(p)
    BY <1>1, <1>2, <1>3, <1>6 DEF DoUpdateRootfs, globals
<1>7. CASE DoWipeOverlay(p)
    BY <1>1, <1>7 DEF DoWipeOverlay
<1>8. Goal
    BY <1>4, <1>5, <1>6, <1>7 DEF Stages
<1> QED
    BY <1>8 DEF Goal

\* A gate holds on if the stage that starts a write of a bad image has a cause.
LEMMA StepKeepsGate ==
    ASSUME TypeInv, [Next]_vars, NEW part \in Parts, NEW bad, NEW causes,
           bad \subseteq Image, Gate(part, bad, causes),
           \A p \in Procs : /\ Stages(p) /\ ~Reboots
                            /\ part \in writing'[p].parts /\ writing'[p].data \in bad
                            => ~Clean(causes)'
    PROVE  Gate(part, bad, causes)'
<1>0. Torn \notin bad
    BY ConstantsAssumption
<1>1. CASE Reboots
    <2>1. flash' = flash /\ hist \subseteq hist' /\ \A p \in Procs : writing'[p].parts = {}
        BY <1>1 DEF Reboots, Boot, NoWrite
    <2> QED
        BY <2>1, EventsStay DEF Gate
<1>2. CASE UNCHANGED vars
    BY <1>2 DEF vars, globals, Gate, Clean
<1>3. ASSUME NEW p \in Procs, NEW label \in PCs, Moves(p, label), ~Reboots
      PROVE  Gate(part, bad, causes)'
    <2>1. ~Clean(causes) => ~Clean(causes)'
        BY <1>3, EventsStay DEF Moves
    <2>2. CASE flash' = flash /\ writing' \in {writing, [writing EXCEPT ![p] = NoWrite]}
        <3>1. ASSUME NEW q \in Procs
              PROVE  writing'[q] = writing[q] \/ writing'[q].parts = {}
            BY <2>2 DEF NoWrite, TypeInv, TypeOK
        <3> QED
            BY <2>1, <2>2, <3>1 DEF Gate
    <2>3. CASE WriteEnds(p)
        <3>1. PICK ok \in BOOLEAN : EndWrite(p, ok)
            BY <2>3 DEF WriteEnds
        <3>2. flash'[part] = flash[part]
              \/ (part \in writing[p].parts /\ flash'[part] = writing[p].data)
            BY <3>1 DEF EndWrite
        <3>3. ASSUME NEW q \in Procs
              PROVE  writing'[q] = writing[q] \/ writing'[q].parts = {}
            BY <3>1 DEF EndWrite, NoWrite, TypeInv, TypeOK
        <3> QED
            BY <2>1, <3>2, <3>3 DEF Gate
    <2>4. CASE Stages(p)
        <3>1. flash'[part] \in {Torn, flash[part]}
              /\ \A q \in Procs \ {p} : writing'[q].parts = writing[q].parts
                                        /\ writing'[q].data = writing[q].data
            BY <1>3, <2>4, StageFlash
        <3>2. part \in writing'[p].parts /\ writing'[p].data \in bad => ~Clean(causes)'
            BY <1>3, <2>4
        <3> QED
            BY <1>0, <2>1, <3>1, <3>2 DEF Gate
    <2> QED
        BY <1>3, <2>2, <2>3, <2>4 DEF Moves, Updates, Stages
<1> QED
    BY <1>1, <1>2, <1>3, NextMoves

\* What a stage writes, and that it checked before.
LEMMA StageData ==
    ASSUME TypeInv, WriterInv, NEW p \in Procs, Stages(p), ~Reboots, writing'[p].parts # {}
    PROVE  /\ pc[p] \in Flashing /\ hist \subseteq hist'
           /\ \/ /\ writing'[p].parts = {"kernel", "rootfs"} /\ "whole" \in hist'
                 /\ writing'[p].data = tmp["firmware"] /\ pc[p] = "firmware"
              \/ /\ writing'[p].parts = {"kernel"} /\ writing'[p].data = KernelFile(p)
                 /\ KernelFile(p) \in Image /\ ~KernelProbeFails(p, KernelFile(p))
                 /\ KernelFile(p).soc # Model /\ (KernelFile(p).fit \/ ~camera.probes)
                    => "unprobed" \in hist'
                 /\ LeftBehind(p, req[p].kfile) \subseteq hist'
                 /\ pc[p] = "kernel"
              \/ /\ writing'[p].parts = {"rootfs"} /\ writing'[p].data = RootfsFile(p)
                 /\ RootfsFile(p) \in Image /\ SocOK(p, RootfsFile(p))
                 /\ LeftBehind(p, req[p].rfile) \subseteq hist'
                 /\ pc[p] = "rootfs"
              \/ writing'[p].parts = {"overlay"} /\ writing'[p].data = Erased
<1>1. pc[p] \in Flashing \ WritePCs
    BY DEF Stages, DoUpdateFirmware, DoUpdateKernel, DoUpdateRootfs, DoWipeOverlay,
       Flashing, WritePCs
<1>2. writing' # writing
    BY <1>1 DEF WriterInv
<1>3. ~Die(p)
    <2> SUFFICES ASSUME Die(p) PROVE FALSE
        OBVIOUS
    <2>1. Quit(p)
        BY DEF Die, RebootSystem, Reboots, Events
    <2> QED
        BY <2>1 DEF Quit, NoWrite, TypeInv, TypeOK
<1>4. CASE DoUpdateFirmware(p)
    <2>1. BeginWrite(p, {"kernel", "rootfs"}, tmp["firmware"], "wfirmware")
          /\ hist' = hist \cup {"whole"} /\ pc[p] = "firmware"
        BY <1>2, <1>3, <1>4 DEF DoUpdateFirmware
    <2>2. writing'[p].parts = {"kernel", "rootfs"} /\ writing'[p].data = tmp["firmware"]
        BY <2>1, BeginWriteFlash
    <2> QED
        BY <1>1, <2>1, <2>2
<1>5. CASE DoUpdateKernel(p)
    <2>1. /\ BeginWrite(p, {"kernel"}, KernelFile(p), "wkernel")
          /\ KernelFile(p) \in Image /\ ~KernelProbeFails(p, KernelFile(p))
          /\ hist' = hist \cup LeftBehind(p, req[p].kfile)
                          \cup (IF KernelFile(p).soc # Model /\ (KernelFile(p).fit \/ ~camera.probes)
                                THEN {"unprobed"} ELSE {})
          /\ pc[p] = "kernel"
        BY <1>2, <1>3, <1>5 DEF DoUpdateKernel
    <2>2. writing'[p].parts = {"kernel"} /\ writing'[p].data = KernelFile(p)
        BY <2>1, BeginWriteFlash
    <2> QED
        BY <1>1, <2>1, <2>2
<1>6. CASE DoUpdateRootfs(p)
    <2>1. /\ BeginWrite(p, {"rootfs"}, RootfsFile(p), "wrootfs")
          /\ RootfsFile(p) \in Image /\ SocOK(p, RootfsFile(p))
          /\ hist' = hist \cup LeftBehind(p, req[p].rfile) /\ pc[p] = "rootfs"
        BY <1>2, <1>3, <1>6 DEF DoUpdateRootfs
    <2>2. writing'[p].parts = {"rootfs"} /\ writing'[p].data = RootfsFile(p)
        BY <2>1, BeginWriteFlash
    <2> QED
        BY <1>1, <2>1, <2>2
<1>7. CASE DoWipeOverlay(p)
    <2>1. BeginWrite(p, {"overlay"}, Erased, "wwipe") /\ hist' = hist
        BY <1>7 DEF DoWipeOverlay
    <2>2. writing'[p].parts = {"overlay"} /\ writing'[p].data = Erased
        BY <2>1, BeginWriteFlash
    <2> QED
        BY <1>1, <2>1, <2>2
<1> QED
    BY <1>4, <1>5, <1>6, <1>7 DEF Stages

-----------------------------------------------------------------------------
(***************************************************************************)
(* The options that excuse an image are on record from the trap on.        *)
(***************************************************************************)
OptionsInv == \A p \in Procs : pc[p] \in Flashing => Unusual(req[p]) \subseteq hist

LEMMA OptionsInvariant == Spec => []OptionsInv
<1>1. Init => OptionsInv
    BY DEF Init, OptionsInv, Flashing, WritePCs
<1>2. TypeInv /\ OptionsInv /\ [Next]_vars => OptionsInv'
    <2> SUFFICES ASSUME TypeInv, OptionsInv, [Next]_vars PROVE OptionsInv'
        OBVIOUS
    <2>1. CASE Reboots
        BY <2>1 DEF Reboots, Boot, OptionsInv, Flashing, WritePCs
    <2>2. CASE UNCHANGED vars
        BY <2>2 DEF vars, globals, invocation, OptionsInv, Unusual
    <2>3. ASSUME NEW p \in Procs, NEW label \in PCs, Moves(p, label)
          PROVE  OptionsInv'
        <3>1. pc'[p] = label /\ \A q \in Procs \ {p} : pc'[q] = pc[q] /\ req'[q] = req[q]
            BY <2>3 DEF Moves, TypeInv, TypeOK
        <3>2. hist \subseteq hist'
            BY <2>3 DEF Moves
        <3>3. ASSUME NEW q \in Procs, req'[q] = req[q] PROVE Unusual(req[q])' = Unusual(req[q])
            BY <3>3 DEF Unusual
        <3>4. label \in Flashing => req'[p] = req[p] /\ Unusual(req[p]) \subseteq hist'
            BY <2>3, <3>2 DEF Moves, OptionsInv, Protect
        <3> QED
            BY <3>1, <3>2, <3>3, <3>4 DEF OptionsInv
    <2> QED
        BY <2>1, <2>2, <2>3, NextMoves
<1> QED
    BY <1>1, <1>2, TypesInvariant, PTL DEF Spec

-----------------------------------------------------------------------------
(***************************************************************************)
(* The SoC.                                                                *)
(***************************************************************************)
Aliens == {image \in Image : image.soc # Model}

SocInv ==
    /\ Gate("rootfs", Aliens, {"forced", "whole"})
    /\ Gate("kernel", Aliens, {"forced", "whole", "unprobed"})

\* A stage that writes an image it does not know to be this camera's has a reason.
LEMMA StageKnowsSoc ==
    ASSUME TypeInv, WriterInv, OptionsInv, NEW p \in Procs, Stages(p), ~Reboots,
           writing'[p].parts # {}, writing'[p].data \in Aliens
    PROVE  /\ "rootfs" \in writing'[p].parts => ~Clean({"forced", "whole"})'
           /\ "kernel" \in writing'[p].parts => ~Clean({"forced", "whole", "unprobed"})'
<1>1. req[p].force => "forced" \in hist'
    <2>1. Unusual(req[p]) \subseteq hist' /\ "forced" \in Events
        BY StageData DEF OptionsInv, Events
    <2> QED
        BY <2>1 DEF Unusual
<1>2. CASE "whole" \in hist'
    BY <1>2 DEF Clean
<1>3. CASE writing'[p].parts = {"kernel"} /\ writing'[p].data = KernelFile(p)
           /\ ~KernelProbeFails(p, KernelFile(p))
           /\ (KernelFile(p).soc # Model /\ (KernelFile(p).fit \/ ~camera.probes)
               => "unprobed" \in hist')
    BY <1>1, <1>3 DEF KernelProbeFails, SocOK, Aliens, Clean
<1>4. CASE writing'[p].parts = {"rootfs"} /\ writing'[p].data = RootfsFile(p)
           /\ SocOK(p, RootfsFile(p))
    BY <1>1, <1>4 DEF SocOK, Aliens, Clean
<1>5. CASE writing'[p].parts = {"overlay"}
    BY <1>5
<1> QED
    BY <1>2, <1>3, <1>4, <1>5, StageData

LEMMA SocInvariant == Spec => []SocInv
<1>1. Init => SocInv
    BY ConstantsAssumption DEF Init, SocInv, Gate, NoWrite, Aliens, Parts
<1>2. TypeInv /\ (WriterInv /\ TornHasCause) /\ OptionsInv /\ SocInv /\ [Next]_vars => SocInv'
    <2> SUFFICES ASSUME TypeInv, WriterInv, OptionsInv, SocInv, [Next]_vars PROVE SocInv'
        OBVIOUS
    <2>1. Aliens \subseteq Image /\ {"rootfs", "kernel"} \subseteq Parts
        BY DEF Aliens, Parts
    <2>2. ASSUME NEW p \in Procs, Stages(p), ~Reboots, writing'[p].data \in Aliens
          PROVE  /\ "rootfs" \in writing'[p].parts => ~Clean({"forced", "whole"})'
                 /\ "kernel" \in writing'[p].parts => ~Clean({"forced", "whole", "unprobed"})'
        BY <2>2, StageKnowsSoc
    <2>3. Gate("rootfs", Aliens, {"forced", "whole"})'
        BY <2>1, <2>2, StepKeepsGate DEF SocInv
    <2>4. Gate("kernel", Aliens, {"forced", "whole", "unprobed"})'
        BY <2>1, <2>2, StepKeepsGate DEF SocInv
    <2> QED
        BY <2>3, <2>4 DEF SocInv
<1> QED
    BY <1>1, <1>2, TypesInvariant, TornInvariant, OptionsInvariant, PTL DEF Spec

\* check_soc and the uImage probes: what the flash holds of another camera's firmware
\* came under -f, as a whole blob, or as a kernel without a readable header.
THEOREM SocIsChecked == Spec => []SocGate
<1>1. TypeInv /\ SocInv => SocGate
    BY DEF SocInv, Gate, SocGate, Foreign, Aliens
<1> QED
    BY <1>1, SocInvariant, TypesInvariant, PTL

-----------------------------------------------------------------------------
(***************************************************************************)
(* The checksums.  What an invocation has staged is undamaged from         *)
(* download_firmware on, if it came from an archive and was checked; while *)
(* the lock is exclusive nobody else unpacks into /tmp.                    *)
(***************************************************************************)
Spoilt == {image \in Image : ~image.intact}
DamageCauses == {"forced", "badfile", "stale", "raced", "stolen"}

\* image_combined is the doing of a download, and leads to do_update_firmware.
SourceInv ==
    \A p \in Procs :
        /\ pc[p] = "download" => req[p].remote
        /\ combined[p] => pc[p] \in Staging /\ req[p].remote
        /\ pc[p] = "firmware" => combined[p]

StagedOK(p) ==
    /\ pc[p] \in Staging /\ req[p].remote /\ ~req[p].force
    => /\ combined[p] => tmp["firmware"] \notin Spoilt
       /\ ~combined[p] \/ pc[p] \in FileStages
          => tmp["kernel"] \notin Spoilt /\ tmp["rootfs"] \notin Spoilt

StagedInv == Clean(DamageCauses) => \A p \in Procs : StagedOK(p)

LEMMA SourceInvariant == Spec => []SourceInv
<1>1. Init => SourceInv
    BY DEF Init, SourceInv
<1>2. TypeInv /\ SourceInv /\ [Next]_vars => SourceInv'
    <2> SUFFICES ASSUME TypeInv, SourceInv, [Next]_vars PROVE SourceInv'
        OBVIOUS
    <2>1. CASE Reboots
        BY <2>1 DEF Reboots, Boot, SourceInv
    <2>2. CASE UNCHANGED vars
        BY <2>2 DEF vars, globals, invocation, SourceInv
    <2>3. ASSUME NEW p \in Procs, NEW label \in PCs, Moves(p, label)
          PROVE  SourceInv'
        <3>1. /\ pc'[p] = label
              /\ \A q \in Procs \ {p} : pc'[q] = pc[q] /\ req'[q] = req[q] /\ combined'[q] = combined[q]
            BY <2>3 DEF Moves, TypeInv, TypeOK
        <3>2. label = "download" => req'[p].remote
            BY <2>3 DEF Moves, Waiting
        <3>3. ASSUME combined'[p] PROVE label \in Staging /\ req'[p].remote
            <4>1. CASE label = "protect" /\ DownloadFirmware(p)
                <5>1. pc[p] = "download" /\ req'[p] = req[p]
                    BY <2>3, <4>1 DEF Moves, Waiting, DownloadFirmware
                <5> QED
                    BY <4>1, <5>1 DEF SourceInv, Staging
            <4>2. CASE combined[p] /\ label \in Flashing
                BY <2>3, <4>2 DEF Moves, SourceInv, Staging
            <4> QED
                BY <2>3, <3>3, <4>1, <4>2 DEF Moves, SourceInv
        <3>4. ASSUME label = "firmware" PROVE combined'[p]
            <4>1. Protect(p) /\ combined'[p] = combined[p]
                BY <2>3, <3>4 DEF Moves, Flashing
            <4>2. ASSUME ~combined[p] PROVE \E l \in {"kernel", "rootfs", "wipe", "reboot"} : Goto(p, l)
                BY <4>1, <4>2, AfterLabels DEF Protect
            <4> QED
                BY <3>1, <3>4, <4>1, <4>2 DEF Goto, TypeInv, TypeOK
        <3> QED
            BY <3>1, <3>2, <3>3, <3>4 DEF SourceInv
    <2> QED
        BY <2>1, <2>2, <2>3, NextMoves
<1> QED
    BY <1>1, <1>2, TypesInvariant, PTL DEF Spec

\* A step that goes on to the trap does not end the script or restart the machine.
LEMMA NoReboot ==
    ASSUME TypeInv, NEW p \in Procs, pc'[p] # "idle", NEW staged
    PROVE  ~RebootSystem(p, staged)
BY DEF RebootSystem, Quit, Boot, TypeInv, TypeOK

\* download_firmware: what the archive carries is undamaged, and what it does not
\* carry and will be flashed nevertheless is on record.
LEMMA DownloadStages ==
    ASSUME TypeInv, NEW p \in Procs, DownloadFirmware(p), Clean(DamageCauses)',
           pc'[p] = "protect", req'[p] = req[p]
    PROVE  StagedOK(p)'
<1> SUFFICES ASSUME ~req[p].force
             PROVE  /\ combined'[p] => tmp'["firmware"] \notin Spoilt
                    /\ ~combined'[p] => tmp'["kernel"] \notin Spoilt /\ tmp'["rootfs"] \notin Spoilt
    BY DEF StagedOK, FileStages
<1>1. \A staged : ~RebootSystem(p, staged)
    BY NoReboot
<1>2. PICK a \in Archives : /\ ChecksumOK(p, a) /\ tmp' = Extracted(a)
                            /\ combined' = [combined EXCEPT ![p] = Extracted(a)["firmware"] # None]
                            /\ hist' = hist \cup Oddities(a)
    BY <1>1 DEF DownloadFirmware
<1>3. a \in [Staged -> Image \cup {None}] /\ None \notin Spoilt
    BY ConstantsAssumption DEF Archive, Spoilt
<1>4. combined'[p] = (Extracted(a)["firmware"] # None)
    BY <1>2 DEF TypeInv, TypeOK
<1>5. \A f \in Counting(a) : ~LeftOver(a, f)
    BY <1>2 DEF Oddities, Events, Clean, DamageCauses
<1>6. ASSUME NEW f \in Staged, f \in Counting(a) PROVE tmp'[f] \notin Spoilt
    <2>1. CASE a[f] = None
        BY <1>2, <1>3, <1>5, <1>6, <2>1 DEF LeftOver, Extracted
    <2>2. CASE a[f] # None
        BY <1>2, <1>6, <2>2 DEF ChecksumOK, Spoilt, Extracted
    <2> QED
        BY <2>1, <2>2
<1> QED
    BY <1>4, <1>6 DEF Counting, Staged

\* In the flashing part only the slicing of the blob changes what is staged.
LEMMA FlashingStages ==
    ASSUME TypeInv, SourceInv, NEW p \in Procs, NEW label \in Flashing, Moves(p, label), StagedOK(p)
    PROVE  StagedOK(p)'
<1>1. /\ pc'[p] = label /\ req'[p] = req[p] /\ combined'[p] = combined[p]
      /\ pc[p] \in Staging
    BY DEF Moves, TypeInv, TypeOK, Protect, Staging
<1>2. tmp'["firmware"] = tmp["firmware"]
    <2>1. CASE tmp' = tmp
        BY <2>1
    <2>2. CASE DoUpdateFirmware(p) /\ tmp' # tmp
        <3>1. ~Die(p)
            BY <1>1 DEF Die, RebootSystem, Quit, Boot, TypeInv, TypeOK, Flashing, WritePCs
        <3> QED
            BY <2>2, <3>1 DEF DoUpdateFirmware, TypeInv, TypeOK, Staged
    <2> QED
        BY <2>1, <2>2 DEF Moves
<1>3. ASSUME req[p].remote, ~req[p].force, ~combined[p] \/ label \in FileStages
      PROVE  tmp'["kernel"] \notin Spoilt /\ tmp'["rootfs"] \notin Spoilt
    <2>1. CASE DoUpdateFirmware(p)
        <3>1. pc[p] = "firmware" /\ combined[p]
            BY <2>1 DEF DoUpdateFirmware, SourceInv
        <3>2. ~Die(p)
            BY <1>1 DEF Die, RebootSystem, Quit, Boot, TypeInv, TypeOK, Flashing, WritePCs
        <3>3. ~BeginWrite(p, {"kernel", "rootfs"}, tmp["firmware"], "wfirmware")
            BY <1>1, <1>3, <3>1 DEF BeginWrite, Goto, FileStages, TypeInv, TypeOK
        <3>4. tmp'["kernel"] = tmp["firmware"] /\ tmp'["rootfs"] = tmp["firmware"]
            BY <2>1, <3>2, <3>3 DEF DoUpdateFirmware, TypeInv, TypeOK, Staged
        <3> QED
            BY <1>1, <1>3, <3>1, <3>4 DEF StagedOK
    <2>2. CASE ~DoUpdateFirmware(p)
        <3>1. tmp' = tmp
            BY <2>2 DEF Moves
        <3>2. label \in FileStages => pc[p] \in FileStages \/ ~combined[p]
            <4>1. CASE Protect(p) /\ combined[p]
                <5>1. label \in {"firmware", "wipe", "reboot"}
                    BY <1>1, <4>1, AfterLabels DEF Protect, Goto, TypeInv, TypeOK
                <5> QED
                    BY <5>1 DEF FileStages
            <4> QED
                BY <2>2, <4>1 DEF Moves
        <3> QED
            BY <1>1, <1>3, <3>1, <3>2 DEF StagedOK
    <2> QED
        BY <2>1, <2>2
<1> QED
    BY <1>1, <1>2, <1>3 DEF StagedOK

LEMMA StepKeepsStaged ==
    ASSUME TypeInv, LockInv, SourceInv, StagedInv, [Next]_vars
    PROVE  StagedInv'
<1>1. CASE Reboots
    BY <1>1 DEF Reboots, Boot, StagedInv, StagedOK, Staging, Flashing, WritePCs
<1>2. CASE UNCHANGED vars
    BY <1>2 DEF vars, globals, invocation, StagedInv, StagedOK, Clean
<1>3. ASSUME NEW p \in Procs, NEW label \in PCs, Moves(p, label), Clean(DamageCauses)',
             NEW q \in Procs
      PROVE  StagedOK(q)'
    <2>1. Clean(DamageCauses) /\ Clean({"raced", "stolen"})
        BY <1>3 DEF Moves, Clean, DamageCauses
    <2>2. /\ pc'[p] = label
          /\ \A r \in Procs \ {p} : pc'[r] = pc[r] /\ req'[r] = req[r] /\ combined'[r] = combined[r]
        BY <1>3 DEF Moves, TypeInv, TypeOK
    <2>3. CASE q # p /\ tmp' = tmp
        BY <2>1, <2>2, <2>3 DEF StagedInv, StagedOK
    <2>4. CASE q # p /\ tmp' # tmp
        <3>1. ~Inside(q)
            BY <1>3, <2>1, <2>4 DEF Moves, LockInv, LockExclusion
        <3>2. pc[q] \notin Staging
            BY <3>1 DEF Inside, PastLock, PCs, Staging, Flashing, WritePCs
        <3> QED
            BY <2>2, <2>4, <3>2 DEF StagedOK
    <2>5. CASE q = p /\ label \in Flashing
        BY <1>3, <2>1, <2>5, FlashingStages DEF StagedInv
    <2>6. CASE q = p /\ label = "protect"
        <3>1. req'[p] = req[p] /\ (~req[p].remote \/ DownloadFirmware(p))
            BY <1>3, <2>6 DEF Moves, Waiting
        <3>2. CASE ~req[p].remote
            BY <2>6, <3>1, <3>2 DEF StagedOK
        <3>3. CASE DownloadFirmware(p)
            BY <1>3, <2>2, <2>6, <3>1, <3>3, DownloadStages
        <3> QED
            BY <3>1, <3>2, <3>3
    <2>7. CASE q = p /\ label \notin Staging
        BY <2>2, <2>7 DEF StagedOK
    <2> QED
        BY <2>3, <2>4, <2>5, <2>6, <2>7 DEF Staging
<1> QED
    BY <1>1, <1>2, <1>3, NextMoves DEF StagedInv

\* A stage that writes damaged bytes has a reason.
LEMMA StageKnowsDamage ==
    ASSUME TypeInv, WriterInv, OptionsInv, SourceInv, StagedInv, NEW p \in Procs, Stages(p), ~Reboots,
           writing'[p].parts # {}, writing'[p].data \in Spoilt
    PROVE  ~Clean(DamageCauses)'
<1> SUFFICES ASSUME Clean(DamageCauses)' PROVE FALSE
    OBVIOUS
<1>1. pc[p] \in Flashing /\ hist \subseteq hist'
    BY StageData
<1>2. Unusual(req[p]) \subseteq hist'
    BY <1>1 DEF OptionsInv
<1>3. ~req[p].force /\ {req[p].kfile, req[p].rfile} \cap Spoilt = {}
    BY <1>2 DEF Unusual, Events, Clean, DamageCauses, Spoilt
<1>4. Clean(DamageCauses)
    BY <1>1 DEF Clean
<1>5. /\ combined[p] => req[p].remote
      /\ pc[p] = "firmware" => combined[p]
      /\ combined[p] => tmp["firmware"] \notin Spoilt
      /\ pc[p] \in FileStages /\ req[p].remote => tmp["kernel"] \notin Spoilt /\ tmp["rootfs"] \notin Spoilt
    BY <1>1, <1>3, <1>4 DEF SourceInv, StagedInv, StagedOK, Staging
<1>6. Erased \notin Spoilt
    BY ConstantsAssumption DEF Spoilt
<1>7. ASSUME NEW file, LeftBehind(p, file) \subseteq hist', Argument(p, file) = None
      PROVE  req[p].remote
    BY <1>7 DEF LeftBehind, Clean, DamageCauses
<1>8. CASE pc[p] = "kernel" /\ LeftBehind(p, req[p].kfile) \subseteq hist'
      /\ writing'[p].data = KernelFile(p)
    BY <1>3, <1>5, <1>7, <1>8 DEF KernelFile, FileStages
<1>9. CASE pc[p] = "rootfs" /\ LeftBehind(p, req[p].rfile) \subseteq hist'
      /\ writing'[p].data = RootfsFile(p)
    BY <1>3, <1>5, <1>7, <1>9 DEF RootfsFile, FileStages
<1> QED
    BY <1>5, <1>6, <1>8, <1>9, StageData

DamageInv == \A part \in Parts : Gate(part, Spoilt, DamageCauses)

LEMMA DamageInvariant == Spec => []DamageInv
<1>1. Init => StagedInv /\ DamageInv
    BY ConstantsAssumption DEF Init, StagedInv, StagedOK, Staging, Flashing, WritePCs,
                               DamageInv, Gate, NoWrite, Spoilt, Parts
<1>2. /\ TypeInv /\ LockInv /\ (WriterInv /\ TornHasCause) /\ OptionsInv
      /\ SourceInv /\ StagedInv /\ DamageInv /\ [Next]_vars
      => (StagedInv /\ DamageInv)'
    <2> SUFFICES ASSUME TypeInv, LockInv, WriterInv, OptionsInv, SourceInv, StagedInv, DamageInv,
                        [Next]_vars
                 PROVE  StagedInv' /\ DamageInv'
        OBVIOUS
    <2>1. Spoilt \subseteq Image
        BY DEF Spoilt
    <2>2. ASSUME NEW part \in Parts PROVE Gate(part, Spoilt, DamageCauses)'
        <3>1. \A p \in Procs : /\ Stages(p) /\ ~Reboots
                               /\ part \in writing'[p].parts /\ writing'[p].data \in Spoilt
                               => ~Clean(DamageCauses)'
            BY StageKnowsDamage
        <3> QED
            BY <2>1, <3>1, StepKeepsGate DEF DamageInv
    <2> QED
        BY <2>2, StepKeepsStaged DEF DamageInv
<1> QED
    BY <1>1, <1>2, TypesInvariant, LockInvariant, TornInvariant, OptionsInvariant, SourceInvariant, PTL
       DEF Spec

\* md5sum -c stands between every archive and the flash: damaged bytes get there only
\* under -f, from a damaged local file, out of an old file in /tmp, or without the lock.
THEOREM DamageIsKeptOut == Spec => []DamageGate
<1>1. TypeInv /\ DamageInv => DamageGate
    BY DEF DamageInv, Gate, DamageGate, Spoilt, DamageCauses
<1> QED
    BY <1>1, DamageInvariant, TypesInvariant, PTL

-----------------------------------------------------------------------------
(***************************************************************************)
(* One build on the camera.  While nothing unusual happened (MixedCauses)  *)
(* and nobody is in the flashing part, both partitions hold the same build,*)
(* the running system was started from it, and every invocation knows its  *)
(* versions.  The one that flashes carries a pair of files of one build    *)
(* through its stages, and what it has written of them and what it skipped *)
(* tells which build each partition holds.                                 *)
(***************************************************************************)
Known(x) ==
    /\ x \in Image
    /\ x.soc = Model => \E b \in Builds : b.soc = Model /\ b.ver = x.ver /\ b.fit = x.fit

KnownInv == \A f \in Staged : tmp[f] # None => Known(tmp[f])

Quiet == \A p \in Procs : pc[p] \notin Flashing
Matching == flash["kernel"] = flash["rootfs"] /\ Known(flash["rootfs"])
Running ==
    /\ Known(flash["rootfs"])
    /\ system # NA => /\ flash["rootfs"].soc = Model /\ flash["rootfs"].intact
                      /\ system = flash["rootfs"].ver
Informed(p) ==
    /\ system # NA /\ seen[p].rootfs = system
    /\ seen[p].kernel = KernelVersion(flash["rootfs"])

Settled ==
    Quiet => /\ Matching /\ Running
             /\ \A p \in Procs : /\ pc[p] # "idle" => system # NA
                                 /\ pc[p] \notin {"idle", "info"} => Informed(p)

\* What was unpacked, when it counts: a whole blob, or two whole files of one build.
PairStaged(p) ==
    pc[p] = "protect" /\ req[p].remote /\ ~req[p].force
    => IF combined[p] THEN tmp["firmware"] \in Image /\ tmp["firmware"].intact
       ELSE tmp["kernel"] = tmp["rootfs"] /\ tmp["rootfs"] \in Image /\ tmp["rootfs"].intact

\* A kernel that is worth writing, and how do_update_kernel may leave the flash.
Newer(p, x) == x.soc = Model /\ (x.fit \/ x.ver # seen[p].kernel)
KernelDone(p, x) ==
    \/ flash["kernel"] = x /\ Newer(p, x)
    \/ flash["kernel"] = flash["rootfs"] /\ ~x.fit /\ x.ver = seen[p].kernel

Writes(p, parts, x) == writing[p].parts = parts /\ writing[p].data = x

Halfway(p) ==
    LET x == RootfsFile(p)
    IN  /\ pc[p] \in {"firmware", "kernel", "wipe", "wwipe", "reboot"} => Matching
        /\ pc[p] \in {"firmware", "kernel", "wkernel", "rootfs"} => Running /\ Informed(p)
        /\ pc[p] = "firmware" => combined[p] /\ tmp["firmware"].intact
        /\ pc[p] \in {"kernel", "wkernel"} => Wants(p, "rootfs")
        /\ pc[p] \in FileStages => KernelFile(p) = x /\ x \in Image /\ x.intact
        /\ pc[p] = "wkernel" => Writes(p, {"kernel"}, x) /\ Newer(p, x)
        /\ pc[p] = "rootfs" => KernelDone(p, x)
        /\ pc[p] = "wrootfs" => Writes(p, {"rootfs"}, x) /\ flash["kernel"] = x
        /\ pc[p] = "wfirmware" => \E y : Writes(p, {"kernel", "rootfs"}, y) /\ Known(y)
        /\ pc[p] = "wwipe" => writing[p].parts = {"overlay"}

WholeInv == Clean(MixedCauses) => Settled /\ \A p \in Procs : PairStaged(p) /\ Halfway(p)

AllInv == TypeInv /\ LockInv /\ WriterInv /\ OptionsInv /\ SourceInv /\ KnownInv

Acts(p) == Step(p) \/ Start(p) \/ SdCardUnmounted(p) \/ SdCardRecovery(p) \/ Hangup(p)

\* Two images of one version for this camera have the same kind of kernel.
LEMMA OneKind ==
    ASSUME NEW x, NEW y, Known(x), Known(y), x.soc = Model, y.soc = Model, x.ver = y.ver
    PROVE  x.fit = y.fit
BY BuildsAssumption DEF Known

\* What is staged comes from the archives.
LEMMA ArchiveKnown ==
    ASSUME NEW a \in Archives, NEW f \in Staged
    PROVE  /\ a[f] # None => Known(a[f])
           /\ Damaged(a)[f] # None => Known(Damaged(a)[f])
<1> SUFFICES ASSUME a[f] # None
             PROVE  Known(a[f]) /\ Known(Damaged(a)[f])
    BY DEF Damaged
<1>1. a[f] \in Image /\ a[f] \in Builds
    <2>1. a[f] \in Image
        BY ConstantsAssumption DEF Archive
    <2>2. a[f] \in UNION {{b[g] : g \in Staged} : b \in Archives}
        OBVIOUS
    <2> QED
        BY <2>1, <2>2 DEF Builds
<1>2. /\ Damaged(a)[f] \in Image /\ Damaged(a)[f].soc = a[f].soc
      /\ Damaged(a)[f].ver = a[f].ver /\ Damaged(a)[f].fit = a[f].fit
    BY <1>1 DEF Damaged, Image
<1> QED
    BY <1>1, <1>2 DEF Known

LEMMA ExtractedKnown ==
    ASSUME KnownInv, NEW a, \A f \in Staged : a[f] # None => Known(a[f])
    PROVE  \A f \in Staged : Extracted(a)[f] # None => Known(Extracted(a)[f])
BY DEF KnownInv, Extracted

\* The files a request names are builds that the camera may come to run.
LEMMA FilesKnown ==
    ASSUME TypeInv, KnownInv, NEW p \in Procs, pc[p] # "idle"
    PROVE  \A x \in {KernelFile(p), RootfsFile(p)} : x \in Image => Known(x)
<1>1. req[p] \in Requests
    BY DEF TypeInv
<1>2. ASSUME NEW x \in {req[p].kfile, req[p].rfile}, x \in Image PROVE Known(x)
    <2>3. x \in Builds
        BY <1>1, <1>2 DEF Builds
    <2> QED
        BY <1>2, <2>3 DEF Known
<1>3. ASSUME NEW f \in Staged, tmp[f] \in Image PROVE Known(tmp[f])
    BY <1>3, ConstantsAssumption DEF KnownInv
<1> QED
    BY <1>2, <1>3 DEF KernelFile, RootfsFile, Staged

LEMMA RebootKeepsKnown ==
    ASSUME KnownInv, NEW p, NEW staged, RebootSystem(p, staged),
           \A f \in Staged : staged[f] # None => Known(staged[f])
    PROVE  KnownInv'
<1>1. tmp' = staged \/ tmp' = NoFiles
    BY DEF RebootSystem, Boot
<1> QED
    BY <1>1 DEF KnownInv, NoFiles, Known

LEMMA StepKeepsKnown ==
    ASSUME TypeInv, KnownInv, [Next]_vars
    PROVE  KnownInv'
<1>1. CASE tmp' = tmp \/ tmp' = NoFiles
    BY <1>1 DEF KnownInv, NoFiles, Known
<1>2. ASSUME NEW p \in Procs, DownloadFails(p) \/ DownloadFirmware(p) PROVE KnownInv'
    <2>1. ASSUME NEW a \in Archives, RebootSystem(p, Extracted(Damaged(a))) \/ RebootSystem(p, Extracted(a))
          PROVE  KnownInv'
        BY <2>1, ArchiveKnown, ExtractedKnown, RebootKeepsKnown
    <2>2. ASSUME NEW a \in Archives, tmp' = Extracted(a) PROVE KnownInv'
        BY <2>2, ArchiveKnown, ExtractedKnown DEF KnownInv, Known
    <2>3. ASSUME Die(p) PROVE KnownInv'
        BY <2>3, RebootKeepsKnown DEF Die, KnownInv
    <2> QED
        BY <1>2, <2>1, <2>2, <2>3 DEF DownloadFails, DownloadFirmware
<1>3. ASSUME NEW p \in Procs, DoUpdateFirmware(p), tmp' # tmp, tmp' # NoFiles PROVE KnownInv'
    <2>1. tmp["firmware"] # None /\ tmp' = [tmp EXCEPT !["kernel"] = tmp["firmware"], !["rootfs"] = tmp["firmware"]]
        BY <1>3 DEF DoUpdateFirmware, Die, RebootSystem, Boot
    <2>2. \A f \in Staged : tmp'[f] \in {tmp[f], tmp["firmware"]}
        BY <2>1 DEF TypeInv, TypeOK
    <2>3. Known(tmp["firmware"])
        BY <2>1 DEF KnownInv, Staged
    <2> QED
        BY <2>2, <2>3 DEF KnownInv, Known
<1>4. ASSUME NEW p \in Procs, Acts(p), ~(DownloadFails(p) \/ DownloadFirmware(p) \/ DoUpdateFirmware(p))
      PROVE  tmp' = tmp \/ tmp' = NoFiles
    BY <1>4 DEF Acts, Step, Network, Local, Start, PrintSysinfo, ListBuilds, SelfUpdate, CreateLockTest, CreateLockTouch, FreeResources,
       SdCardUnmounted, SdCardRecovery, Protect, DoUpdateKernel, DoUpdateRootfs, DoWipeOverlay,
       WriteEnds, Finish, Hangup, Die, RebootSystem, Boot, globals
<1>5. ASSUME PowerCut PROVE tmp' = NoFiles
    BY <1>5 DEF PowerCut, Boot
<1>6. UNCHANGED vars => tmp' = tmp
    BY DEF vars, globals
<1> QED
    BY <1>1, <1>2, <1>3, <1>4, <1>5, <1>6 DEF Next, Acts

-----------------------------------------------------------------------------
\* While nobody raced for the lock, the invocation that flashes is past it alone.
LEMMA Alone ==
    ASSUME AllInv, Clean(MixedCauses), NEW p \in Procs, NEW q \in Procs, p # q, Inside(p), Inside(q)
    PROVE  FALSE
<1>1. Clean({"raced", "stolen"})
    BY DEF Clean, MixedCauses
<1> QED
    BY <1>1 DEF AllInv, LockInv, LockExclusion

LEMMA InsideStages ==
    ASSUME NEW p \in Procs, pc[p] \in Flashing \cup {"protect"}
    PROVE  Inside(p)
BY DEF Inside, PastLock, PCs, Flashing, WritePCs

\* A command line that is not unusual: both parts of one build, or neither.
LEMMA Plain ==
    ASSUME NEW r \in Requests, NEW events, events \cap MixedCauses = {}, Unusual(r) \subseteq events
    PROVE  /\ ~r.force /\ ~r.noreboot /\ r.kernel = r.rootfs
           /\ r.remote => r.kfile = None /\ r.rfile = None
           /\ ~r.remote /\ r.kernel => r.kfile = r.rfile /\ r.kfile \in Image /\ r.kfile.intact
<1>1. /\ "forced" \notin Unusual(r) /\ "noreboot" \notin Unusual(r) /\ "partial" \notin Unusual(r)
      /\ "assorted" \notin Unusual(r)
    BY DEF MixedCauses
<1>2. r \in Request /\ r.force \in BOOLEAN /\ r.noreboot \in BOOLEAN
    BY ConstantsAssumption DEF Request
<1>3. ~r.force /\ ~r.noreboot /\ r.kernel = r.rootfs
    BY <1>1 DEF Unusual, Events
<1>4. r.kernel /\ r.rootfs => /\ r.remote => r.kfile = None /\ r.rfile = None
                              /\ ~r.remote => r.kfile = r.rfile /\ r.kfile \in Image /\ r.kfile.intact
    BY <1>1 DEF Unusual, Events
<1>5. ~r.kernel /\ ~r.rootfs => r.kfile = None /\ r.rfile = None
    BY <1>2 DEF Request
<1> QED
    BY <1>3, <1>4, <1>5

\* The options of the invocation that flashes.
LEMMA FlashOptions ==
    ASSUME AllInv, Clean(MixedCauses), NEW p \in Procs, pc[p] \in Flashing
    PROVE  ~req[p].force /\ ~req[p].noreboot
<1>1. req[p] \in Requests /\ Unusual(req[p]) \subseteq hist
    BY DEF AllInv, OptionsInv, TypeInv, Flashing, WritePCs
<1> QED
    BY <1>1, Plain DEF Clean

\* A restart of the machine, when the partitions match.
LEMMA BootSettles ==
    ASSUME TypeInv, Matching, NEW event, NEW others, Boot(event, others)
    PROVE  Settled' /\ \A p \in Procs : PairStaged(p)' /\ Halfway(p)'
<1>1. flash' = flash /\ \A p \in Procs : pc'[p] = "idle"
    BY DEF Boot
<1>2. Matching'
    BY <1>1 DEF Matching, Known
<1>3. Running'
    <2>1. system' # NA => system' = flash["rootfs"].ver /\ Bootable(flash)
        BY DEF Boot
    <2> QED
        BY <1>1, <2>1, <1>2 DEF Running, Matching, Bootable
<1> QED
    BY <1>1, <1>2, <1>3 DEF Settled, PairStaged, Halfway, FileStages

\* The state a flashing invocation and its step are in, for the lemmas that follow.
FlashStep(p) ==
    /\ AllInv /\ WholeInv /\ Clean(MixedCauses)' /\ Clean(MixedCauses)
    /\ pc[p] \in Flashing /\ pc'[p] \in Flashing
    /\ UNCHANGED <<system, camera, req, seen, combined>>

LEMMA FlashStepFacts ==
    ASSUME NEW p \in Procs, FlashStep(p)
    PROVE  /\ Halfway(p) /\ TypeInv /\ WriterInv /\ KnownInv
           /\ ~req[p].force
           /\ \A x \in {KernelFile(p), RootfsFile(p)} : x \in Image => Known(x)
<1>1. pc[p] # "idle"
    BY DEF FlashStep, Flashing, WritePCs
<1> QED
    BY <1>1, FlashOptions, FilesKnown DEF FlashStep, AllInv, WholeInv

\* The files stay the same while nothing they are chosen by changes.
LEMMA SameFiles ==
    ASSUME NEW p \in Procs, tmp' = tmp, req'[p] = req[p], combined'[p] = combined[p]
    PROVE  KernelFile(p)' = KernelFile(p) /\ RootfsFile(p)' = RootfsFile(p)
BY DEF KernelFile, RootfsFile, Argument

\* The start of a write, as the two processes and partitions see it.
LEMMA WriteStarts ==
    ASSUME TypeInv, NEW p \in Procs, NEW parts, NEW data, NEW label, BeginWrite(p, parts, data, label)
    PROVE  /\ pc'[p] = label /\ writing'[p].parts = parts /\ writing'[p].data = data
           /\ \A part \in Parts \ parts : flash'[part] = flash[part]
BY DEF BeginWrite, Goto, TypeInv, TypeOK

LEMMA FirmwareHalfway ==
    ASSUME NEW p \in Procs, FlashStep(p), DoUpdateFirmware(p)
    PROVE  Halfway(p)'
<1> DEFINE x == tmp["firmware"]
<1>1. Halfway(p) /\ TypeInv /\ KnownInv /\ pc[p] = "firmware" /\ pc'[p] # "idle"
    BY FlashStepFacts DEF FlashStep, DoUpdateFirmware, Flashing, WritePCs
<1>2. Matching /\ Running /\ Informed(p) /\ combined[p] /\ x.intact
    BY <1>1 DEF Halfway
<1>3. ~Die(p)
    BY <1>1 DEF Die, RebootSystem, Quit, Boot, TypeInv, TypeOK
<1>4. x # None => Known(x)
    BY <1>1 DEF KnownInv, Staged
<1>5. CASE /\ x # None /\ x.fit
           /\ tmp' = [tmp EXCEPT !["kernel"] = x, !["rootfs"] = x]
           /\ Goto(p, "kernel") /\ UNCHANGED <<machine, flash, writing, invocation>>
    <2>1. pc'[p] = "kernel" /\ tmp'["kernel"] = x /\ tmp'["rootfs"] = x /\ flash' = flash
        BY <1>1, <1>5 DEF Goto, TypeInv, TypeOK, Staged
    <2>2. Matching' /\ Running' /\ Informed(p)'
        BY <1>2, <2>1 DEF Matching, Running, Informed, FlashStep, Known, KernelVersion
    <2>3. Wants(p, "rootfs")'
        BY <1>2 DEF Wants, FlashStep
    <2>4. KernelFile(p)' = x /\ RootfsFile(p)' = x
        BY <1>2, <2>1 DEF KernelFile, RootfsFile, Argument, FlashStep
    <2> QED
        BY <1>2, <1>4, <1>5, <2>1, <2>2, <2>3, <2>4 DEF Halfway, Known
<1>6. CASE x # None /\ BeginWrite(p, {"kernel", "rootfs"}, x, "wfirmware")
    <2>1. pc'[p] = "wfirmware" /\ writing'[p].parts = {"kernel", "rootfs"} /\ writing'[p].data = x
        BY <1>1, <1>6, WriteStarts
    <2>2. Known(x)
        BY <1>4, <1>6
    <2> QED
        BY <2>1, <2>2 DEF Halfway, FileStages, Writes, Known
<1> QED
    BY <1>3, <1>5, <1>6 DEF DoUpdateFirmware

LEMMA KernelHalfway ==
    ASSUME NEW p \in Procs, FlashStep(p), DoUpdateKernel(p)
    PROVE  Halfway(p)'
<1> DEFINE x == RootfsFile(p)
<1>1. /\ Halfway(p) /\ TypeInv /\ pc[p] = "kernel" /\ pc'[p] # "idle"
      /\ ~req[p].force
    BY FlashStepFacts DEF FlashStep, DoUpdateKernel, Flashing, WritePCs
<1>2. /\ Matching /\ Running /\ Informed(p) /\ Wants(p, "rootfs")
      /\ KernelFile(p) = x /\ x \in Image /\ x.intact
    BY <1>1 DEF Halfway, FileStages
<1>3. ~Die(p)
    BY <1>1 DEF Die, RebootSystem, Quit, Boot, TypeInv, TypeOK
<1>4. Known(x) /\ x.ver \in Vers
    BY <1>2, FlashStepFacts DEF Image
<1>5. ~x.fit => KernelVersion(x) = x.ver /\ KernelVersion(x) # NA
    BY <1>2, <1>4, ConstantsAssumption DEF KernelVersion, Known
<1>6. KernelFile(p)' = x /\ x' = x
    <2>1. tmp' = tmp
        BY <1>3 DEF DoUpdateKernel, globals
    <2> QED
        BY <1>2, <2>1, SameFiles DEF FlashStep
<1>7. CASE KernelIsCurrent(p, x) /\ Goto(p, AfterKernel(p)) /\ UNCHANGED <<globals, writing, invocation>>
    <2>1. pc'[p] = "rootfs"
        BY <1>1, <1>2, <1>7 DEF Goto, AfterKernel, TypeInv, TypeOK
    <2>2. ~x.fit /\ x.ver = seen[p].kernel
        BY <1>1, <1>5, <1>7 DEF KernelIsCurrent, SameVersion
    <2>3. Running' /\ Informed(p)' /\ KernelDone(p, x)'
        BY <1>2, <1>6, <1>7, <2>2 DEF Running, Informed, Matching, KernelDone, Known, KernelVersion,
           globals, machine, invocation
    <2> QED
        BY <1>2, <1>6, <2>1, <2>3 DEF Halfway
<1>8. CASE /\ ~KernelProbeFails(p, x) /\ ~KernelIsCurrent(p, x)
           /\ BeginWrite(p, {"kernel"}, x, "wkernel")
           /\ hist' = hist \cup LeftBehind(p, req[p].kfile)
                           \cup (IF x.soc # Model /\ (x.fit \/ ~camera.probes)
                                 THEN {"unprobed"} ELSE {})
    <2>1. /\ pc'[p] = "wkernel" /\ writing'[p].parts = {"kernel"} /\ writing'[p].data = x
          /\ flash'["rootfs"] = flash["rootfs"]
        BY <1>1, <1>8, WriteStarts DEF Parts
    <2>2. x.soc # Model => ~x.fit /\ camera.probes
        BY <1>8 DEF FlashStep, Clean, MixedCauses
    <2>3. x.soc = Model
        BY <1>1, <1>8, <2>2 DEF KernelProbeFails, SocOK
    <2>4. x.fit \/ x.ver # seen[p].kernel
        BY <1>1, <1>5, <1>8 DEF KernelIsCurrent, SameVersion
    <2>5. Newer(p, x)'
        BY <1>6, <2>3, <2>4 DEF Newer, FlashStep
    <2>6. Running' /\ Informed(p)'
        BY <1>2, <2>1 DEF Running, Informed, Known, KernelVersion, FlashStep
    <2>7. Wants(p, "rootfs")'
        BY <1>2 DEF Wants, FlashStep
    <2> QED
        BY <1>2, <1>6, <2>1, <2>5, <2>6, <2>7 DEF Halfway, Writes
<1> QED
    BY <1>1, <1>2, <1>3, <1>7, <1>8 DEF DoUpdateKernel

LEMMA RootfsHalfway ==
    ASSUME NEW p \in Procs, FlashStep(p), DoUpdateRootfs(p)
    PROVE  Halfway(p)'
<1> DEFINE x == RootfsFile(p)
           f == flash["rootfs"]
<1>1. /\ Halfway(p) /\ TypeInv /\ pc[p] = "rootfs" /\ pc'[p] # "idle"
      /\ ~req[p].force
    BY FlashStepFacts DEF FlashStep, DoUpdateRootfs, Flashing, WritePCs
<1>2. /\ Running /\ Informed(p) /\ KernelDone(p, x)
      /\ KernelFile(p) = x /\ x \in Image /\ x.intact
    BY <1>1 DEF Halfway, FileStages
<1>3. ~Die(p)
    BY <1>1 DEF Die, RebootSystem, Quit, Boot, TypeInv, TypeOK
<1>4. Known(x) /\ x.ver \in Vers
    BY <1>2, FlashStepFacts DEF Image
<1>5. /\ Known(f) /\ f.soc = Model /\ f.intact /\ seen[p].rootfs = f.ver
      /\ seen[p].kernel = IF f.fit THEN NA ELSE f.ver
    BY <1>2 DEF Running, Informed, KernelVersion, Known
<1>6. KernelFile(p)' = x /\ x' = x
    <2>1. tmp' = tmp
        BY <1>3 DEF DoUpdateRootfs, globals
    <2> QED
        BY <1>2, <2>1, SameFiles DEF FlashStep
<1>7. CASE SameVersion(p, x.ver, seen[p].rootfs) /\ Goto(p, AfterRootfs(p)) /\ UNCHANGED globals
    <2>1. pc'[p] \in {"wipe", "reboot"}
        BY <1>1, <1>7 DEF Goto, AfterRootfs, TypeInv, TypeOK
    <2>2. x.ver = f.ver
        BY <1>5, <1>7 DEF SameVersion
    <2>3. Newer(p, x) => x = f
        <3> SUFFICES ASSUME Newer(p, x) PROVE x = f
            OBVIOUS
        <3>1. x.soc = Model /\ x.fit = f.fit
            BY <1>4, <1>5, <2>2, OneKind DEF Newer
        <3>2. x \in Image /\ f \in Image
            BY <1>4, <1>5 DEF Known
        <3> HIDE DEF x, f
        <3> QED
            BY <1>2, <1>5, <2>2, <3>1, <3>2 DEF Image
    <2>4. Matching'
        BY <1>2, <1>5, <1>7, <2>3 DEF KernelDone, Matching, Known, globals
    <2> QED
        BY <2>1, <2>4 DEF Halfway, FileStages
<1>8. CASE ~SameVersion(p, x.ver, seen[p].rootfs) /\ BeginWrite(p, {"rootfs"}, x, "wrootfs")
    <2>1. /\ pc'[p] = "wrootfs" /\ writing'[p].parts = {"rootfs"} /\ writing'[p].data = x
          /\ flash'["kernel"] = flash["kernel"]
        BY <1>1, <1>8, WriteStarts DEF Parts
    <2>2. x.ver # f.ver
        BY <1>1, <1>5, <1>8 DEF SameVersion
    <2>3. x.ver # seen[p].kernel
        BY <1>4, <1>5, <2>2, ConstantsAssumption
    <2>4. flash["kernel"] = x
        BY <1>2, <2>3 DEF KernelDone
    <2> QED
        BY <1>2, <1>6, <2>1, <2>4 DEF Halfway, Writes
<1>9. "flasherr" \notin hist' /\ "unmounted" \notin hist'
    BY DEF FlashStep, Clean, MixedCauses
<1> QED
    BY <1>1, <1>3, <1>7, <1>8, <1>9 DEF DoUpdateRootfs

LEMMA WipeHalfway ==
    ASSUME NEW p \in Procs, FlashStep(p), DoWipeOverlay(p)
    PROVE  Halfway(p)'
<1>1. Matching /\ TypeInv
    BY FlashStepFacts DEF DoWipeOverlay, Halfway
<1>2. /\ pc'[p] = "wwipe" /\ writing'[p].parts = {"overlay"}
      /\ flash'["kernel"] = flash["kernel"] /\ flash'["rootfs"] = flash["rootfs"]
    BY <1>1, WriteStarts DEF DoWipeOverlay, Parts
<1>3. Matching'
    BY <1>1, <1>2 DEF Matching, Known
<1> QED
    BY <1>2, <1>3 DEF Halfway, FileStages

\* The end of a write that nobody else disturbed.
LEMMA WriteEndsHalfway ==
    ASSUME NEW p \in Procs, FlashStep(p), WriteEnds(p)
    PROVE  Halfway(p)'
<1> DEFINE x == RootfsFile(p)
<1>1. Halfway(p) /\ TypeInv /\ WriterInv /\ pc[p] \in WritePCs
      /\ KernelFile(p)' = KernelFile(p) /\ x' = x
    BY FlashStepFacts, SameFiles DEF WriteEnds, FlashStep
<1>2. PICK ok \in BOOLEAN :
          /\ EndWrite(p, ok)
          /\ Goto(p, IF pc[p] = "wfirmware" /\ ~ok /\ ~req[p].silent THEN "reboot" ELSE AfterWrite(p))
    BY DEF WriteEnds
<1>3. ok /\ writing[p].rivals = {}
    BY <1>1, <1>2 DEF EndWrite, FlashStep, Clean, MixedCauses, WriterInv
<1>4. /\ pc'[p] = AfterWrite(p)
      /\ \A part \in Parts : flash'[part] = IF part \in writing[p].parts THEN writing[p].data ELSE flash[part]
    BY <1>1, <1>2, <1>3 DEF Goto, EndWrite, TypeInv, TypeOK
<1>5. CASE pc[p] = "wkernel"
    <2>1. /\ Writes(p, {"kernel"}, x) /\ Newer(p, x) /\ Running /\ Informed(p) /\ Wants(p, "rootfs")
          /\ KernelFile(p) = x /\ x \in Image /\ x.intact
        BY <1>1, <1>5 DEF Halfway, FileStages
    <2>2. pc'[p] = "rootfs" /\ flash'["kernel"] = x /\ flash'["rootfs"] = flash["rootfs"]
        BY <1>4, <1>5, <2>1 DEF AfterWrite, AfterKernel, Writes, Parts
    <2>3. Running' /\ Informed(p)'
        BY <2>1, <2>2 DEF Running, Informed, Known, KernelVersion, FlashStep
    <2>4. KernelDone(p, x)'
        BY <1>1, <2>1, <2>2 DEF KernelDone, Newer, FlashStep
    <2> QED
        BY <1>1, <2>1, <2>2, <2>3, <2>4 DEF Halfway
<1>6. CASE pc[p] = "wrootfs"
    <2>1. Writes(p, {"rootfs"}, x) /\ flash["kernel"] = x /\ x \in Image
        BY <1>1, <1>6 DEF Halfway, FileStages
    <2>2. pc'[p] \in {"wipe", "reboot"} /\ flash'["kernel"] = x /\ flash'["rootfs"] = x
        BY <1>4, <1>6, <2>1, AfterLabels DEF AfterWrite, Writes, Parts
    <2>3. Matching'
        BY <2>1, <2>2, FlashStepFacts DEF Matching, Known
    <2> QED
        BY <2>2, <2>3 DEF Halfway, FileStages
<1>7. CASE pc[p] = "wfirmware"
    <2>1. PICK y : Writes(p, {"kernel", "rootfs"}, y) /\ Known(y)
        BY <1>1, <1>7 DEF Halfway
    <2>2. pc'[p] \in {"wipe", "reboot"} /\ flash'["kernel"] = y /\ flash'["rootfs"] = y
        BY <1>4, <1>7, <2>1, AfterLabels DEF AfterWrite, Writes, Parts
    <2>3. Matching'
        BY <2>1, <2>2 DEF Matching, Known
    <2> QED
        BY <2>2, <2>3 DEF Halfway, FileStages
<1>8. CASE pc[p] = "wwipe"
    <2>1. Matching /\ writing[p].parts = {"overlay"}
        BY <1>1, <1>8 DEF Halfway
    <2>2. pc'[p] = "reboot" /\ flash'["kernel"] = flash["kernel"] /\ flash'["rootfs"] = flash["rootfs"]
        BY <1>4, <1>8, <2>1 DEF AfterWrite, Parts
    <2>3. Matching'
        BY <2>1, <2>2 DEF Matching, Known
    <2> QED
        BY <2>2, <2>3 DEF Halfway, FileStages
<1> QED
    BY <1>1, <1>5, <1>6, <1>7, <1>8 DEF WritePCs

\* do_update_* and the end of the script give up only while the partitions match.
LEMMA EndsWhole ==
    ASSUME AllInv, WholeInv, Clean(MixedCauses), NEW p \in Procs, Acts(p),
           pc[p] \in Flashing, pc'[p] = "idle"
    PROVE  Matching
<1>1. TypeInv /\ Halfway(p) /\ WriterInv
    BY DEF AllInv, WholeInv
<1>2. ASSUME NEW parts, NEW data, NEW label, BeginWrite(p, parts, data, label), label # "idle" PROVE FALSE
    BY <1>1, <1>2, WriteStarts
<1>3. pc[p] \in {"firmware", "kernel", "rootfs", "reboot"}
    <2>1. CASE pc[p] \in WritePCs
        <3>1. WriteEnds(p)
            BY <1>1, <2>1 DEF Acts, Step, Network, Local, PrintSysinfo, ListBuilds, SelfUpdate, CreateLockTest, CreateLockTouch, FreeResources,
               DownloadFails, DownloadFirmware, Protect, DoUpdateFirmware, DoUpdateKernel, DoUpdateRootfs,
               DoWipeOverlay, Finish, Start, SdCardUnmounted, SdCardRecovery, Hangup, WritePCs, WriterInv, Flashing
        <3> QED
            BY <1>1, <3>1, AfterLabels DEF WriteEnds, Goto, TypeInv, TypeOK
    <2>2. CASE pc[p] = "wipe"
        <3>1. DoWipeOverlay(p)
            BY <1>1, <2>2 DEF Acts, Step, Network, Local, PrintSysinfo, ListBuilds, SelfUpdate, CreateLockTest, CreateLockTouch, FreeResources,
               DownloadFails, DownloadFirmware, Protect, DoUpdateFirmware, DoUpdateKernel, DoUpdateRootfs,
               WriteEnds, Finish, Start, SdCardUnmounted, SdCardRecovery, Hangup, WritePCs, WriterInv, Flashing
        <3> QED
            BY <1>2, <3>1 DEF DoWipeOverlay
    <2> QED
        BY <2>1, <2>2 DEF Flashing
<1>4. CASE pc[p] # "rootfs"
    BY <1>1, <1>3, <1>4 DEF Halfway
<1>5. CASE pc[p] = "rootfs"
    <2> DEFINE x == RootfsFile(p)
    <2>1. DoUpdateRootfs(p)
        BY <1>1, <1>5 DEF Acts, Step, Network, Local, PrintSysinfo, ListBuilds, SelfUpdate, CreateLockTest, CreateLockTouch, FreeResources,
           DownloadFails, DownloadFirmware, Protect, DoUpdateFirmware, DoUpdateKernel, DoWipeOverlay,
           WriteEnds, Finish, Start, SdCardUnmounted, SdCardRecovery, Hangup, WritePCs, WriterInv, Flashing
    <2>2. Running /\ KernelDone(p, x) /\ x \in Image
        BY <1>1, <1>5 DEF Halfway, FileStages
    <2>4. ~SocOK(p, x)
        <3>1. CASE ~Goto(p, AfterRootfs(p)) /\ ~Goto(p, "reboot")
            BY <1>2, <2>1, <2>2, <3>1 DEF DoUpdateRootfs
        <3>2. CASE Goto(p, AfterRootfs(p)) \/ Goto(p, "reboot")
            BY <1>1, <3>2, AfterLabels DEF Goto, TypeInv, TypeOK
        <3> QED
            BY <3>1, <3>2
    <2>5. ~(flash["kernel"] = x /\ Newer(p, x))
        BY <2>2, <2>4 DEF Newer, SocOK
    <2> QED
        BY <2>2, <2>5 DEF KernelDone, Matching, Running
<1> QED
    BY <1>4, <1>5

\* What an invocation's stage depends on.
LEMMA HalfwayStays ==
    ASSUME NEW q \in Procs, Halfway(q), UNCHANGED <<tmp, flash, system>>,
           pc'[q] = pc[q], req'[q] = req[q], seen'[q] = seen[q], combined'[q] = combined[q],
           writing'[q] = writing[q]
    PROVE  Halfway(q)'
<1>1. /\ Matching => Matching'
      /\ Running => Running'
      /\ Informed(q) => Informed(q)'
    BY DEF Matching, Running, Informed, Known
<1>2. Wants(q, "rootfs") => Wants(q, "rootfs")'
    BY DEF Wants
<1> DEFINE x == RootfsFile(q)
<1>4. x' = x /\ KernelFile(q)' = KernelFile(q)
    BY SameFiles
<1>3. /\ Newer(q, x) => Newer(q, x)'
      /\ KernelDone(q, x) => KernelDone(q, x)'
    BY <1>4 DEF Newer, KernelDone
<1> QED
    BY <1>1, <1>2, <1>3, <1>4 DEF Halfway, Writes, Known

\* An invocation outside the flashing part and past no download promises nothing.
LEMMA ElsewhereHalfway ==
    ASSUME NEW q \in Procs, pc'[q] \notin Flashing
    PROVE  Halfway(q)'
BY DEF Halfway, FileStages, Flashing, WritePCs

\* What a failure leaves alone when it does not restart the machine.
LEMMA RebootKeeps ==
    ASSUME TypeInv, NEW p \in Procs, NEW staged, RebootSystem(p, staged), ~RebootedBy(p)
    PROVE  /\ req[p].noreboot /\ pc'[p] = "idle" /\ system' = system /\ camera' = camera
           /\ \A q \in Procs \ {p} : seen'[q] = seen[q]
BY DEF RebootSystem, RebootedBy, Quit, machine, TypeInv, TypeOK

\* The stages of the flashing part go from one to the next.
LEMMA UpdatesKeep ==
    ASSUME TypeInv, NEW p \in Procs, Updates(p), ~Die(p)
    PROVE  /\ pc'[p] \in Flashing
           /\ UNCHANGED <<system, camera, req, seen, combined>>
<1>1. ASSUME NEW parts, NEW data, NEW label, BeginWrite(p, parts, data, label)
      PROVE  Goto(p, label)
    BY <1>1 DEF BeginWrite
<1>2. ASSUME NEW label \in Flashing, Goto(p, label) PROVE pc'[p] \in Flashing
    BY <1>2 DEF Goto, TypeInv, TypeOK
<1>3. UNCHANGED <<system, camera, req, seen, combined>>
    BY DEF Updates, DoUpdateFirmware, DoUpdateKernel, DoUpdateRootfs, DoWipeOverlay, WriteEnds,
       globals, machine, invocation
<1>4. CASE DoUpdateFirmware(p)
    <2>1. Goto(p, "kernel") \/ Goto(p, "wfirmware")
        BY <1>1, <1>4 DEF DoUpdateFirmware
    <2> QED
        BY <1>2, <1>3, <2>1 DEF Flashing, WritePCs
<1>5. CASE DoUpdateKernel(p)
    <2>1. Goto(p, AfterKernel(p)) \/ Goto(p, "wkernel")
        BY <1>1, <1>5 DEF DoUpdateKernel
    <2> QED
        BY <1>2, <1>3, <2>1, AfterLabels DEF Flashing, WritePCs
<1>6. CASE DoUpdateRootfs(p)
    <2>1. Goto(p, AfterRootfs(p)) \/ Goto(p, "wrootfs") \/ Goto(p, "reboot")
        BY <1>1, <1>6 DEF DoUpdateRootfs
    <2> QED
        BY <1>2, <1>3, <2>1, AfterLabels DEF Flashing, WritePCs
<1>7. CASE DoWipeOverlay(p)
    <2>1. Goto(p, "wwipe")
        BY <1>1, <1>7 DEF DoWipeOverlay
    <2> QED
        BY <1>2, <1>3, <2>1 DEF Flashing, WritePCs
<1>8. CASE WriteEnds(p)
    <2>1. Goto(p, "reboot") \/ Goto(p, AfterWrite(p))
        BY <1>8 DEF WriteEnds
    <2> QED
        BY <1>2, <1>3, <2>1, AfterLabels DEF Flashing
<1> QED
    BY <1>4, <1>5, <1>6, <1>7, <1>8 DEF Updates

\* What the steps of one invocation leave alone, unless they restart the machine.
LEMMA ActsKeep ==
    ASSUME TypeInv, NEW p \in Procs, Acts(p), ~RebootedBy(p)
    PROVE  /\ system' = system /\ camera' = camera
           /\ \A q \in Procs \ {p} : seen'[q] = seen[q]
           /\ \/ pc'[p] = "idle"
              \/ pc'[p] = "info" /\ (system # NA \/ pc[p] # "idle")
              \/ seen'[p] = seen[p] /\ pc[p] \notin {"idle", "info"}
              \/ seen'[p] = GetSystemInfo /\ pc[p] # "idle"
<1> DEFINE Goal == /\ system' = system /\ camera' = camera
                   /\ \A q \in Procs \ {p} : seen'[q] = seen[q]
                   /\ \/ pc'[p] = "idle"
                      \/ pc'[p] = "info" /\ (system # NA \/ pc[p] # "idle")
                      \/ seen'[p] = seen[p] /\ pc[p] \notin {"idle", "info"}
                      \/ seen'[p] = GetSystemInfo /\ pc[p] # "idle"
<1>1. ASSUME NEW staged, RebootSystem(p, staged) PROVE Goal
    BY <1>1, RebootKeeps
<1>2. ASSUME Quit(p), UNCHANGED <<system, camera>> PROVE Goal
    BY <1>2 DEF Quit, TypeInv, TypeOK
<1>3. ASSUME UNCHANGED <<system, camera, seen>>, pc[p] \notin {"idle", "info"} PROVE Goal
    BY <1>3
<1>4. ASSUME seen' = [seen EXCEPT ![p] = GetSystemInfo], UNCHANGED <<system, camera>>, pc[p] # "idle"
      PROVE  Goal
    BY <1>4 DEF TypeInv, TypeOK
<1>15. ASSUME Goto(p, "info"), seen' = seen \/ seen' = [seen EXCEPT ![p] = NoSeen],
              UNCHANGED <<system, camera>>, system # NA \/ pc[p] # "idle"
       PROVE  Goal
    BY <1>15 DEF Goto, TypeInv, TypeOK
<1> HIDE DEF Goal
<1>5. Start(p) => Goal
    BY <1>15 DEF Start
<1>16. PrintSysinfo(p) => Goal
    BY <1>1, <1>2, <1>4 DEF PrintSysinfo, Die, globals, machine
<1>6. SelfUpdate(p) => Goal
    BY <1>3, <1>15 DEF SelfUpdate, globals, machine
<1>7. ListBuilds(p) => Goal
    BY <1>1, <1>2 DEF ListBuilds, Die, globals, machine
<1>8. CreateLockTest(p) => Goal
    BY <1>2, <1>3 DEF CreateLockTest, globals, machine, invocation
<1>9. CreateLockTouch(p) \/ FreeResources(p) \/ SdCardUnmounted(p) \/ Protect(p) => Goal
    BY <1>3 DEF CreateLockTouch, FreeResources, SdCardUnmounted, Protect, globals, machine, invocation
<1>10. SdCardRecovery(p) \/ Hangup(p) => Goal
    BY <1>2 DEF SdCardRecovery, Hangup, globals, machine
<1>11. DownloadFails(p) \/ Finish(p) => Goal
    BY <1>1 DEF DownloadFails, Die, Finish
<1>12. DownloadFirmware(p) => Goal
    BY <1>1, <1>3 DEF DownloadFirmware, machine
<1>13. Updates(p) => Goal
    <2>1. Die(p) => Goal
        BY <1>1 DEF Die
    <2>2. Updates(p) => pc[p] \notin {"idle", "info"}
        BY DEF Updates, DoUpdateFirmware, DoUpdateKernel, DoUpdateRootfs, DoWipeOverlay, WriteEnds, WritePCs
    <2> QED
        BY <1>3, <2>1, <2>2, UpdatesKeep
<1>14. Goal
    BY <1>5, <1>16, <1>6, <1>7, <1>8, <1>9, <1>10, <1>11, <1>12, <1>13
       DEF Acts, Step, Network, Local, Updates
<1> QED
    BY <1>14 DEF Goal

\* Past the trap only the stages are left; a failure restarts the machine.
LEMMA FlashingActs ==
    ASSUME AllInv, Clean(MixedCauses), NEW p \in Procs, Acts(p), ~RebootedBy(p), pc[p] \in Flashing
    PROVE  /\ Updates(p) /\ pc'[p] \in Flashing
           /\ UNCHANGED <<system, camera, req, seen, combined>>
<1>1. TypeInv /\ trapped[p] /\ ~req[p].noreboot
    BY FlashOptions DEF AllInv, WriterInv
<1>2. ~\E staged : RebootSystem(p, staged)
    BY <1>1, RebootKeeps
<1>3. ~Die(p) /\ ~Finish(p)
    BY <1>2 DEF Die, Finish
<1>4. Updates(p)
    BY <1>1, <1>3 DEF Acts, Step, Network, Local, Updates, PrintSysinfo, ListBuilds, SelfUpdate, CreateLockTest, CreateLockTouch, FreeResources,
       DownloadFails, DownloadFirmware, Protect, Start, SdCardUnmounted, SdCardRecovery, Hangup, WritePCs, Flashing
<1> QED
    BY <1>1, <1>3, <1>4, UpdatesKeep

\* The others stay where they are while one flashes or is about to.
LEMMA OthersElsewhere ==
    ASSUME AllInv, Clean(MixedCauses), NEW p \in Procs, Inside(p), NEW label \in PCs, Moves(p, label),
           NEW q \in Procs \ {p}
    PROVE  pc'[q] = pc[q] /\ pc[q] \notin Flashing \cup {"protect"} /\ PairStaged(q)' /\ Halfway(q)'
<1>1. pc'[q] = pc[q]
    BY DEF Moves, AllInv, TypeInv, TypeOK
<1>2. pc[q] \notin Flashing \cup {"protect"}
    BY Alone, InsideStages
<1> QED
    BY <1>1, <1>2, ElsewhereHalfway DEF PairStaged

\* A stage of the flashing part.
LEMMA StageKeepsWhole ==
    ASSUME AllInv, WholeInv, Clean(MixedCauses), Clean(MixedCauses)',
           NEW p \in Procs, Acts(p), ~RebootedBy(p), NEW label \in PCs, Moves(p, label), pc[p] \in Flashing
    PROVE  Settled' /\ \A q \in Procs : PairStaged(q)' /\ Halfway(q)'
<1>1. /\ Updates(p) /\ pc'[p] \in Flashing
      /\ UNCHANGED <<system, camera, req, seen, combined>>
    BY FlashingActs
<1>2. FlashStep(p)
    BY <1>1 DEF FlashStep
<1>3. Halfway(p)'
    BY <1>1, <1>2, FirmwareHalfway, KernelHalfway, RootfsHalfway, WipeHalfway, WriteEndsHalfway DEF Updates
<1>4. PairStaged(p)' /\ Settled'
    BY <1>1 DEF PairStaged, Settled, Quiet, Flashing, WritePCs
<1>5. Inside(p)
    BY InsideStages
<1> QED
    BY <1>3, <1>4, <1>5, OthersElsewhere

\* The trap is set: from here on the pair of files is what counts.
LEMMA ProtectKeepsWhole ==
    ASSUME AllInv, WholeInv, Clean(MixedCauses), Clean(MixedCauses)',
           NEW p \in Procs, Protect(p), NEW label \in Flashing, Moves(p, label)
    PROVE  Settled' /\ \A q \in Procs : PairStaged(q)' /\ Halfway(q)'
<1>1. /\ TypeInv /\ pc[p] = "protect" /\ pc'[p] = label /\ label \in PCs
      /\ UNCHANGED <<tmp, flash, system, req, seen, combined>>
    BY DEF AllInv, Protect, machine, Moves, TypeInv, TypeOK
<1>2. Inside(p)
    BY <1>1, InsideStages
<1>3. /\ ~req[p].force /\ req[p].kernel = req[p].rootfs
      /\ req[p].remote => req[p].kfile = None /\ req[p].rfile = None
      /\ ~req[p].remote /\ req[p].kernel
         => req[p].kfile = req[p].rfile /\ req[p].kfile \in Image /\ req[p].kfile.intact
    <2>1. req[p] \in Requests /\ Unusual(req[p]) \subseteq hist'
        BY <1>1 DEF Protect, TypeInv
    <2> QED
        BY <2>1, Plain DEF Clean
<1>4. Matching /\ Running /\ Informed(p)
    <2>1. Quiet
        BY <1>1, <1>2, OthersElsewhere DEF Quiet, Flashing, WritePCs
    <2> QED
        BY <1>1, <2>1 DEF WholeInv, Settled
<1>5. Matching' /\ Running' /\ Informed(p)'
    BY <1>1, <1>4 DEF Matching, Running, Informed, Known
<1>10. /\ combined[p] => req[p].remote /\ tmp["firmware"].intact
       /\ ~combined[p] /\ req[p].remote
          => tmp["kernel"] = tmp["rootfs"] /\ tmp["rootfs"] \in Image /\ tmp["rootfs"].intact
    BY <1>1, <1>3 DEF WholeInv, PairStaged, AllInv, SourceInv
<1>11. KernelFile(p)' = KernelFile(p) /\ RootfsFile(p)' = RootfsFile(p)
    BY <1>1, SameFiles
<1>6. ~combined[p] /\ Wants(p, "kernel")
      => KernelFile(p) = RootfsFile(p) /\ RootfsFile(p) \in Image /\ RootfsFile(p).intact
    <2> SUFFICES ASSUME ~combined[p], Wants(p, "kernel")
                 PROVE  KernelFile(p) = RootfsFile(p) /\ RootfsFile(p) \in Image /\ RootfsFile(p).intact
        OBVIOUS
    <2>1. req[p].kernel
        BY DEF Wants
    <2>2. CASE req[p].remote
        BY <1>3, <1>10, <2>2 DEF KernelFile, RootfsFile, Argument
    <2>3. CASE ~req[p].remote
        BY <1>3, <2>1, <2>3, ConstantsAssumption DEF KernelFile, RootfsFile, Argument
    <2> QED
        BY <2>2, <2>3
<1>7. \/ label = "firmware" /\ combined[p]
      \/ label = "kernel" /\ ~combined[p] /\ Wants(p, "kernel")
      \/ label \in {"wipe", "reboot"}
    <2>1. ~combined[p] /\ ~Wants(p, "kernel") => AfterKernel(p) = AfterRootfs(p)
        BY <1>3 DEF Wants, AfterKernel
    <2> QED
        BY <1>1, <2>1, AfterLabels DEF Protect, Goto, TypeInv, TypeOK
<1>8. Halfway(p)'
    <2>1. CASE label = "firmware" /\ combined[p]
        BY <1>1, <1>5, <1>10, <2>1 DEF Halfway, FileStages
    <2>2. CASE label = "kernel" /\ ~combined[p] /\ Wants(p, "kernel")
        <3>1. Wants(p, "rootfs")'
            BY <1>1, <1>3, <2>2 DEF Wants
        <3> QED
            BY <1>1, <1>5, <1>6, <1>11, <2>2, <3>1 DEF Halfway
    <2>3. CASE label \in {"wipe", "reboot"}
        BY <1>1, <1>5, <2>3 DEF Halfway, FileStages
    <2> QED
        BY <1>7, <2>1, <2>2, <2>3
<1>9. PairStaged(p)' /\ Settled'
    BY <1>1 DEF PairStaged, Settled, Quiet, Flashing, WritePCs
<1> QED
    BY <1>1, <1>2, <1>8, <1>9, OthersElsewhere

\* download_firmware: what counts is the archive's own, or a whole blob.
LEMMA DownloadStagesPair ==
    ASSUME TypeInv, Clean(MixedCauses)', NEW p \in Procs, DownloadFirmware(p), req'[p] = req[p],
           pc'[p] = "protect"
    PROVE  PairStaged(p)'
<1> SUFFICES ASSUME ~req[p].force
             PROVE  IF combined'[p] THEN tmp'["firmware"] \in Image /\ tmp'["firmware"].intact
                    ELSE tmp'["kernel"] = tmp'["rootfs"] /\ tmp'["rootfs"] \in Image /\ tmp'["rootfs"].intact
    BY DEF PairStaged
<1>1. PICK a \in Archives :
          \/ /\ ChecksumOK(p, a) /\ tmp' = Extracted(a)
             /\ combined' = [combined EXCEPT ![p] = Extracted(a)["firmware"] # None]
             /\ hist' = hist \cup Oddities(a)
          \/ RebootSystem(p, Extracted(a))
    BY DEF DownloadFirmware
<1>2. ~RebootSystem(p, Extracted(a))
    BY DEF RebootSystem, Quit, Boot, TypeInv, TypeOK
<1>3. combined'[p] = (tmp'["firmware"] # None) /\ tmp' = Extracted(a)
    BY <1>1, <1>2 DEF TypeInv, TypeOK
<1>4. a \in Archive /\ \A f \in Staged : a[f] # None => a[f] \in Image /\ a[f].intact
    BY <1>1, <1>2, ConstantsAssumption DEF Archive, ChecksumOK
<1>5. tmp' \in [Staged -> Image \cup {None}]
    BY <1>3, <1>4, ExtractedType
<1>6. IF tmp'["firmware"] # None THEN tmp'["firmware"].intact
      ELSE a["kernel"] # None /\ a["kernel"] = a["rootfs"]
    <2>1. "assorted" \notin Oddities(a)
        BY <1>1, <1>2 DEF Clean, MixedCauses
    <2> QED
        BY <1>3, <2>1 DEF Oddities, Events
<1>7. CASE tmp'["firmware"] # None
    BY <1>3, <1>5, <1>6, <1>7 DEF Staged
<1>8. CASE tmp'["firmware"] = None
    BY <1>3, <1>4, <1>6, <1>8 DEF Extracted, Staged
<1> QED
    BY <1>7, <1>8

\* A step of an invocation outside the flashing part.
LEMMA PathKeepsWhole ==
    ASSUME AllInv, WholeInv, Clean(MixedCauses), Clean(MixedCauses)',
           NEW p \in Procs, Acts(p), ~RebootedBy(p), NEW label \in PCs, Moves(p, label),
           pc[p] \notin Flashing, label \notin Flashing
    PROVE  Settled' /\ \A q \in Procs : PairStaged(q)' /\ Halfway(q)'
<1>1. /\ TypeInv /\ pc'[p] = label
      /\ \A q \in Procs \ {p} : pc'[q] = pc[q] /\ req'[q] = req[q] /\ combined'[q] = combined[q]
    BY DEF AllInv, Moves, TypeInv, TypeOK
<1>2. flash' = flash /\ \A q \in Procs \ {p} : writing'[q] = writing[q]
    <2>1. ~Updates(p)
        BY DEF Updates, DoUpdateFirmware, DoUpdateKernel, DoUpdateRootfs, DoWipeOverlay, WriteEnds,
           Flashing, WritePCs
    <2> QED
        BY <1>1, <2>1 DEF Moves, TypeInv, TypeOK
<1>3. /\ system' = system /\ \A q \in Procs \ {p} : seen'[q] = seen[q]
      /\ \/ pc'[p] = "idle"
         \/ pc'[p] = "info" /\ (system # NA \/ pc[p] # "idle")
         \/ seen'[p] = seen[p] /\ pc[p] \notin {"idle", "info"}
         \/ seen'[p] = GetSystemInfo /\ pc[p] # "idle"
    BY <1>1, ActsKeep
<1>4. ASSUME Quiet'
      PROVE  /\ Matching' /\ Running'
             /\ \A q \in Procs : /\ pc'[q] # "idle" => system' # NA
                                 /\ pc'[q] \notin {"idle", "info"} => Informed(q)'
    <2>1. Quiet
        BY <1>1, <1>4 DEF Quiet
    <2>2. /\ Matching /\ Running
          /\ \A q \in Procs : /\ pc[q] # "idle" => system # NA
                              /\ pc[q] \notin {"idle", "info"} => Informed(q)
        BY <2>1 DEF WholeInv, Settled
    <2>3. Matching' /\ Running'
        BY <1>2, <1>3, <2>2 DEF Matching, Running, Known
    <2>4. ASSUME NEW q \in Procs, pc'[q] # "idle" PROVE system' # NA
        BY <1>1, <1>3, <2>2, <2>4
    <2>5. ASSUME NEW q \in Procs, pc'[q] \notin {"idle", "info"} PROVE Informed(q)'
        <3>1. CASE q # p \/ (seen'[p] = seen[p] /\ pc[p] \notin {"idle", "info"})
            BY <1>1, <1>2, <1>3, <2>2, <2>5, <3>1 DEF Informed
        <3>2. CASE q = p /\ seen'[p] = GetSystemInfo /\ pc[p] # "idle"
            BY <1>2, <1>3, <2>2, <3>2 DEF Informed, GetSystemInfo, Matching
        <3> QED
            BY <1>3, <2>5, <3>1, <3>2
    <2> QED
        BY <2>3, <2>4, <2>5
<1>5. Settled'
    BY <1>4 DEF Settled
<1>6. PairStaged(p)'
    <2>1. CASE label = "protect"
        <3>1. req'[p] = req[p] /\ (~req[p].remote \/ DownloadFirmware(p))
            BY <2>1 DEF Moves, Waiting
        <3>2. CASE ~req[p].remote
            BY <3>1, <3>2 DEF PairStaged
        <3> QED
            BY <1>1, <2>1, <3>1, <3>2, DownloadStagesPair
    <2> QED
        BY <1>1, <2>1 DEF PairStaged
<1>7. Halfway(p)'
    BY <1>1, ElsewhereHalfway
<1>8. ASSUME NEW q \in Procs \ {p} PROVE PairStaged(q)' /\ Halfway(q)'
    <2>1. CASE Inside(p)
        BY <2>1, OthersElsewhere
    <2>2. CASE ~Inside(p)
        <3>1. tmp' = tmp
            BY <2>2 DEF Moves
        <3>2. PairStaged(q) /\ Halfway(q)
            BY DEF WholeInv
        <3>3. PairStaged(q)'
            BY <1>1, <3>1, <3>2 DEF PairStaged
        <3>4. Halfway(q)'
            BY <1>1, <1>2, <1>3, <3>1, <3>2, HalfwayStays
        <3> QED
            BY <3>3, <3>4
    <2> QED
        BY <2>1, <2>2
<1> QED
    BY <1>5, <1>6, <1>7, <1>8

\* An invocation reboots the machine: while the partitions match, or nobody would
\* call the result clean.
LEMMA RebootKeepsWhole ==
    ASSUME AllInv, WholeInv, Clean(MixedCauses), Clean(MixedCauses)',
           NEW p \in Procs, Acts(p), RebootedBy(p)
    PROVE  Settled' /\ \A q \in Procs : PairStaged(q)' /\ Halfway(q)'
<1>1. pc'[p] = "idle" /\ \A q \in Procs \ {p} : ~trapped[q]
    BY DEF RebootedBy, Boot, Clean, MixedCauses
<1>2. Matching
    <2>1. CASE pc[p] \in Flashing
        BY <1>1, <2>1, EndsWhole
    <2>2. CASE pc[p] \notin Flashing
        <3>1. Quiet
            BY <1>1, <2>2 DEF Quiet, AllInv, WriterInv
        <3> QED
            BY <3>1 DEF WholeInv, Settled
    <2> QED
        BY <2>1, <2>2
<1> QED
    BY <1>2, BootSettles DEF RebootedBy, AllInv

LEMMA PowerKeepsWhole ==
    ASSUME AllInv, WholeInv, Clean(MixedCauses), Clean(MixedCauses)', PowerCut
    PROVE  Settled' /\ \A q \in Procs : PairStaged(q)' /\ Halfway(q)'
<1>1. \A q \in Procs : ~trapped[q]
    BY DEF PowerCut, Boot, Clean, MixedCauses
<1>2. Quiet
    BY <1>1 DEF Quiet, AllInv, WriterInv
<1>3. Matching
    BY <1>2 DEF WholeInv, Settled
<1> QED
    BY <1>3, BootSettles DEF PowerCut, AllInv

LEMMA StepKeepsWhole ==
    ASSUME AllInv, WholeInv, [Next]_vars
    PROVE  WholeInv'
<1> SUFFICES ASSUME Clean(MixedCauses)'
             PROVE  Settled' /\ \A q \in Procs : PairStaged(q)' /\ Halfway(q)'
    BY DEF WholeInv
<1>1. Clean(MixedCauses)
    <2>1. hist \subseteq hist'
        BY NextMoves DEF AllInv, Moves, Reboots, Boot, vars, globals
    <2> QED
        BY <2>1 DEF Clean
<1>2. CASE UNCHANGED vars
    <2>1. /\ UNCHANGED <<tmp, flash, system, pc, req, seen, combined, writing>>
        BY <1>2 DEF vars, globals, machine, invocation
    <2>2. Settled'
        BY <1>1, <2>1 DEF WholeInv, Settled, Quiet, Matching, Running, Informed, Known
    <2>3. ASSUME NEW q \in Procs PROVE PairStaged(q)' /\ Halfway(q)'
        BY <1>1, <2>1, HalfwayStays DEF WholeInv, PairStaged
    <2> QED
        BY <2>2, <2>3
<1>3. CASE PowerCut
    BY <1>1, <1>3, PowerKeepsWhole
<1>4. ASSUME NEW p \in Procs, Acts(p)
      PROVE  Settled' /\ \A q \in Procs : PairStaged(q)' /\ Halfway(q)'
    <2>1. CASE RebootedBy(p)
        BY <1>1, <1>4, <2>1, RebootKeepsWhole
    <2>2. CASE ~RebootedBy(p)
        <3>1. PICK label \in PCs : Moves(p, label)
            BY <1>4, <2>2, StepMoves DEF Acts, AllInv
        <3>2. CASE pc[p] \in Flashing
            BY <1>1, <1>4, <2>2, <3>1, <3>2, StageKeepsWhole
        <3>3. CASE pc[p] \notin Flashing /\ label \in Flashing
            <4>1. Protect(p)
                BY <3>1, <3>3 DEF Moves
            <4> QED
                BY <1>1, <3>1, <3>3, <4>1, ProtectKeepsWhole
        <3>4. CASE pc[p] \notin Flashing /\ label \notin Flashing
            BY <1>1, <1>4, <2>2, <3>1, <3>4, PathKeepsWhole
        <3> QED
            BY <3>2, <3>3, <3>4
    <2> QED
        BY <2>1, <2>2
<1> QED
    BY <1>2, <1>3, <1>4 DEF Next, Acts

LEMMA WholeInvariant == Spec => [](AllInv /\ WholeInv)
<1>1. Init => KnownInv /\ WholeInv
    <2> SUFFICES ASSUME Init PROVE KnownInv /\ WholeInv
        OBVIOUS
    <2>1. KnownInv
        BY DEF Init, KnownInv, NoFiles
    <2>2. /\ flash["kernel"] = Factory /\ flash["rootfs"] = Factory /\ system = Factory.ver
          /\ \A p \in Procs : pc[p] = "idle"
        BY DEF Init, Parts
    <2>3. Known(Factory) /\ Factory.soc = Model /\ Factory.intact
        BY ConstantsAssumption DEF Known, Builds
    <2>4. Settled
        BY <2>2, <2>3 DEF Settled, Matching, Running
    <2>5. \A p \in Procs : PairStaged(p) /\ Halfway(p)
        BY <2>2 DEF PairStaged, Halfway, FileStages
    <2> QED
        BY <2>1, <2>4, <2>5 DEF WholeInv
<1>2. /\ TypeInv /\ LockInv /\ (WriterInv /\ TornHasCause) /\ OptionsInv /\ SourceInv
      /\ KnownInv /\ WholeInv /\ [Next]_vars
      => (KnownInv /\ WholeInv)'
    BY StepKeepsKnown, StepKeepsWhole DEF AllInv
<1>3. TypeInv /\ LockInv /\ (WriterInv /\ TornHasCause) /\ OptionsInv /\ SourceInv /\ KnownInv /\ WholeInv
      => AllInv /\ WholeInv
    BY DEF AllInv
<1> QED
    BY <1>1, <1>2, <1>3, TypesInvariant, LockInvariant, TornInvariant, OptionsInvariant,
       SourceInvariant, PTL DEF Spec

\* A full update, from an archive or from two files of one build, is whole: whatever
\* fails and whoever else runs the script, the kernel and the root file system of an
\* idle camera are of one build, unless one of the named causes came between.
THEOREM UpdateIsWhole == Spec => []AllOrNothing
<1>1. AllInv /\ WholeInv => AllOrNothing
    <2> SUFFICES ASSUME AllInv, WholeInv, Active = {}, Clean(MixedCauses)
                 PROVE  flash["kernel"] = flash["rootfs"]
        BY DEF AllOrNothing
    <2>1. \A p \in Procs : pc[p] = "idle"
        BY DEF Active
    <2>2. Quiet
        BY <2>1 DEF Quiet, Flashing, WritePCs
    <2> QED
        BY <2>2 DEF WholeInv, Settled, Matching
<1> QED
    BY <1>1, WholeInvariant, PTL
=============================================================================
