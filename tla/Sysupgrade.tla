----------------------------- MODULE Sysupgrade -----------------------------
(***************************************************************************)
(* general/overlay/usr/sbin/sysupgrade: the script that replaces a         *)
(* camera's kernel and root file system while the camera runs from them.   *)
(* Several invocations (Procs) may be alive at once: a shell user, the web *)
(* interface (--web) and a remote driver can each start one.  They share   *)
(* the lock file and the staged files in /tmp, the flash, and the one      *)
(* running system, which any of them may reboot.                           *)
(*                                                                         *)
(* A flash write is two steps, so that signals, power cuts and another     *)
(* process's reboot can fall between them.  "hist" is an auxiliary         *)
(* variable: the set of unusual events the properties excuse a bad state   *)
(* with.  No action reads it.                                              *)
(***************************************************************************)
EXTENDS Naturals

CONSTANTS
    Procs,        \* invocations that can be alive at the same time
    Requests,     \* the command lines, a subset of Request
    Archives,     \* what the release server or a local .tgz may hold
    Socs, Vers,   \* SoC models and build versions
    Model,        \* $model of this camera
    Factory,      \* the image the camera starts with
    Cameras,      \* the kinds of camera, a subset of Camera
    MaxRuns,      \* bound: invocations ever started
    None, Absent, \* no file; a file named on the command line that does not exist
    NA,           \* a version that cannot be read
    Torn,         \* content of a partition that is erased or half written
    UserData, Erased \* content of the overlay before and after a wipe

\* A build of the firmware; one stands for its kernel and for its rootfs.  "fit"
\* tells a FIT kernel from a legacy uImage, "intact" is FALSE for damaged bytes.
Image == [soc: Socs, ver: Vers, fit: BOOLEAN, intact: BOOLEAN]

\* The files in /tmp that matter: the two images and the combined blob.
Staged == {"kernel", "rootfs", "firmware"}

\* What an archive carries of them.  Any may be missing or of another build.
Archive == [Staged -> Image \cup {None}]

\* The options, after the parsing loop.  "remote" is remote_update: something is
\* downloaded or unpacked.  kfile and rfile are --kernel= and --rootfs=, None where
\* no file is named; each part may come from its own place.
LocalFile == Image \cup {None, Absent}
Request ==
    {r \in [list: BOOLEAN, kernel: BOOLEAN, rootfs: BOOLEAN, wipe: BOOLEAN,
            noreboot: BOOLEAN, force: BOOLEAN, web: BOOLEAN, silent: BOOLEAN,
            selfupdate: BOOLEAN, remote: BOOLEAN, kfile: LocalFile, rfile: LocalFile] :
        /\ r.kfile # None => r.kernel
        /\ r.rfile # None => r.rootfs}

\* layout "split": kernel and rootfs partitions, "single": only one for both.
\* "probes" is FALSE for ingenic and rockchip, whose kernels name no SoC.
Camera == [layout: {"split", "single"}, probes: BOOLEAN]

ASSUME ConstantsAssumption ==
    /\ Requests \subseteq Request
    /\ Archives \subseteq Archive
    /\ Model \in Socs
    /\ Factory \in Image /\ Factory.soc = Model /\ Factory.intact
    /\ Cameras \subseteq Camera
    /\ MaxRuns \in Nat
    /\ {None, Absent} \cap Image = {} /\ NA \notin Vers
    /\ Torn # UserData /\ Torn # Erased /\ {Torn, UserData, Erased} \cap Image = {}

\* What an intact camera can come to run.  A version is the time of a build, and a
\* build for one SoC has one kind of kernel: FIT and uImage do not share a version.
Builds ==
    LET Files == {r.kfile : r \in Requests} \cup {r.rfile : r \in Requests}
    IN  {Factory} \cup (Image \cap (Files \cup UNION {{a[f] : f \in Staged} : a \in Archives}))
ASSUME BuildsAssumption ==
    \A x, y \in Builds : x.soc = Model /\ y.soc = Model /\ x.ver = y.ver => x.fit = y.fit

VARIABLES
    camera,    \* which one this is; it never changes
    lock,      \* LOCK_FILE exists
    tmp,       \* the staged images in /tmp
    flash,     \* what each partition holds
    system,    \* version of the root file system that is running; NA: it did not boot
    services,  \* what still runs of the services an upgrade stops
    runs,      \* invocations started
    hist,      \* auxiliary
    pc, req,   \* per invocation: where it is, its options
    seen,      \* kernel_version and system_version, read at its start
    combined,  \* image_combined
    trapped,   \* HUP, INT, TERM and PIPE are ignored
    writing    \* the partitions its flashcp is writing, the image, who else writes them

machine == <<camera, system, runs>>
globals == <<machine, lock, tmp, flash, services, hist>>
invocation == <<req, seen, combined, trapped>>
vars == <<globals, pc, invocation, writing>>

Parts == {"kernel", "rootfs", "overlay"}
Contents == Image \cup {Torn, UserData, Erased}
Services == {"majestic", "daemons"}
Events == {"forced", "raced", "stolen", "flasherr", "power", "rebooted",
           "partial", "badfile", "assorted", "unprobed", "unmounted", "noreboot",
           "whole", "stale"}
PCs == {"idle", "info", "list", "self", "lock", "touch", "free", "sdcard", "download",
        "protect", "firmware", "kernel", "rootfs", "wipe", "reboot",
        "wfirmware", "wkernel", "wrootfs", "wwipe"}
WritePCs == {"wfirmware", "wkernel", "wrootfs", "wwipe"}
NoWrite == [parts |-> {}, data |-> Torn, rivals |-> {}]

TypeOK ==
    /\ camera \in Cameras
    /\ lock \in BOOLEAN
    /\ tmp \in [Staged -> Image \cup {None}]
    /\ flash \in [Parts -> Contents]
    /\ system \in Vers \cup {NA}
    /\ services \subseteq Services
    /\ runs \in Nat
    /\ hist \subseteq Events
    /\ pc \in [Procs -> PCs]
    /\ req \in [Procs -> Requests \cup {None}]
    /\ seen \in [Procs -> [kernel: Vers \cup {NA}, rootfs: Vers \cup {NA}]]
    /\ combined \in [Procs -> BOOLEAN]
    /\ trapped \in [Procs -> BOOLEAN]
    /\ writing \in [Procs -> [parts: SUBSET Parts, data: Contents, rivals: SUBSET Procs]]

NoSeen == [kernel |-> NA, rootfs |-> NA]
NoFiles == [f \in Staged |-> None]

Init ==
    /\ camera \in Cameras
    /\ lock = FALSE /\ tmp = NoFiles
    /\ flash = [part \in Parts |-> IF part = "overlay" THEN UserData ELSE Factory]
    /\ system = Factory.ver
    /\ services = Services /\ runs = 0 /\ hist = {}
    /\ pc = [p \in Procs |-> "idle"] /\ req = [p \in Procs |-> None]
    /\ seen = [p \in Procs |-> NoSeen]
    /\ combined = [p \in Procs |-> FALSE] /\ trapped = [p \in Procs |-> FALSE]
    /\ writing = [p \in Procs |-> NoWrite]

-----------------------------------------------------------------------------
(* Helpers *)

KernelVersion_Any(content) ==  \* mutant: whatever stands at the offset
    IF content \in Image /\ ~content.fit /\ content.intact THEN content.ver ELSE Torn
\* get_kernel_version: a FIT, an erased or a damaged partition has no timestamp.
KernelVersion(content) ==
    IF content \in Image /\ ~content.fit /\ content.intact THEN content.ver ELSE NA

\* compare_versions: TRUE means the update of this part is skipped.
SameVersion(p, version, running) == ~req[p].force /\ version = running

\* check_soc: TRUE means the image may be flashed.
SocOK_Any(p, image) == TRUE  \* mutant: no check
SocOK(p, image) == req[p].force \/ image.soc = Model

Active == {p \in Procs : pc[p] # "idle"}

\* What an invocation still does after one of its stages.
Wants(p, stage) ==
    IF stage = "wipe" THEN req[p].wipe
                      ELSE combined[p] \/ (IF stage = "kernel" THEN req[p].kernel
                                                               ELSE req[p].rootfs)
AfterRootfs(p) == IF Wants(p, "wipe") THEN "wipe" ELSE "reboot"
AfterKernel(p) == IF Wants(p, "rootfs") THEN "rootfs" ELSE AfterRootfs(p)

Bootable(f) ==
    \A part \in {"kernel", "rootfs"} :
        f[part] \in Image /\ f[part].soc = Model /\ f[part].intact

\* The process ends; what it shares with others stays as it is.
Quit(p) ==
    /\ pc' = [pc EXCEPT ![p] = "idle"]
    /\ req' = [req EXCEPT ![p] = None]
    /\ seen' = [seen EXCEPT ![p] = NoSeen]
    /\ combined' = [combined EXCEPT ![p] = FALSE]
    /\ trapped' = [trapped EXCEPT ![p] = FALSE]
    /\ writing' = [writing EXCEPT ![p] = NoWrite]

\* Past create_lock: the processes that believe the lock is theirs.
PastLock == PCs \ {"idle", "info", "list", "self", "lock", "touch"}
Inside(p) == pc[p] \in PastLock

\* The machine restarts: /tmp and every process are gone, the services are back.
\* The event counts when it cut one of "others" off in the protected part.
Boot(event, others) ==
    /\ lock' = FALSE /\ tmp' = NoFiles /\ services' = Services
    /\ system' = IF Bootable(flash) THEN flash["rootfs"].ver ELSE NA
    /\ hist' = IF \E p \in others : trapped[p] THEN hist \cup {event} ELSE hist
    /\ pc' = [p \in Procs |-> "idle"] /\ req' = [p \in Procs |-> None]
    /\ seen' = [p \in Procs |-> NoSeen]
    /\ combined' = [p \in Procs |-> FALSE] /\ trapped' = [p \in Procs |-> FALSE]
    /\ writing' = [p \in Procs |-> NoWrite]
    /\ UNCHANGED <<flash, runs, camera>>

\* reboot_system: with -x it removes the lock, whoever created it, and exits;
\* what is staged in /tmp by then stays there.
RebootSystem(p, staged) ==
    \/ /\ req[p].noreboot
       /\ lock' = FALSE
       /\ tmp' = staged
       /\ hist' = hist \cup (IF lock /\ ~Inside(p) THEN {"stolen"} ELSE {})
       /\ Quit(p)
       /\ UNCHANGED <<machine, flash, services>>
    \/ ~req[p].noreboot /\ Boot("rebooted", Procs \ {p})

\* die: a failure reboots the camera like a success does.
Die(p) == RebootSystem(p, tmp)

Goto(p, label) == pc' = [pc EXCEPT ![p] = label]

-----------------------------------------------------------------------------
(* From the command line to the lock *)

\* kernel_version is read from flash, system_version from the running system.
GetSystemInfo == [kernel |-> KernelVersion(flash["kernel"]), rootfs |-> system]

\* The parsing loop.
Start(p) ==
    /\ pc[p] = "idle" /\ runs < MaxRuns /\ system # NA
    /\ \E r \in Requests : req' = [req EXCEPT ![p] = r]
    /\ Goto(p, "info")
    /\ runs' = runs + 1
    /\ UNCHANGED <<lock, tmp, flash, system, services, camera, hist, seen, combined, trapped, writing>>

\* print_sysinfo dies where neither /etc/os-release nor the U-Boot environment
\* names the SoC.  --help, an unknown option and nothing to do end here.
PrintSysinfo(p) ==
    /\ pc[p] = "info"
    /\ \/ Die(p)
       \/ Quit(p) /\ UNCHANGED globals
       \/ /\ req[p].list \/ req[p].kernel \/ req[p].rootfs \/ req[p].wipe
          /\ Goto(p, IF req[p].list THEN "list" ELSE IF req[p].selfupdate THEN "self" ELSE "lock")
          /\ seen' = [seen EXCEPT ![p] = GetSystemInfo]
          /\ UNCHANGED <<globals, req, combined, trapped, writing>>

\* --list-builds: fetch_manifest and print, or die, before any lock is looked at.
ListBuilds(p) ==
    /\ pc[p] = "list"
    /\ \/ Quit(p) /\ UNCHANGED globals
       \/ Die(p)

\* self_update: carry on, or exec the newer script, which starts over.
SelfUpdate(p) ==
    /\ pc[p] = "self"
    /\ \/ Goto(p, "lock") /\ UNCHANGED seen
       \/ ~req[p].web /\ Goto(p, "info") /\ seen' = [seen EXCEPT ![p] = NoSeen]
    /\ UNCHANGED <<globals, req, combined, trapped, writing>>

\* create_lock, the test.
CreateLockTest_Rm(p) ==  \* mutant: the refused process cleans up the file
    /\ pc[p] = "lock"
    /\ \/ lock /\ Quit(p) /\ lock' = FALSE
       \/ ~lock /\ Goto(p, "touch") /\ UNCHANGED <<lock, invocation, writing>>
    /\ UNCHANGED <<machine, tmp, flash, services, hist>>

CreateLockTest(p) ==
    /\ pc[p] = "lock"
    /\ \/ lock /\ Quit(p)
       \/ ~lock /\ Goto(p, "touch") /\ UNCHANGED <<writing, invocation>>
    /\ UNCHANGED globals

\* create_lock, the touch: it succeeds on a file that is already there.
CreateLockTouch_Lost(p) ==  \* mutant: the file is not created
    /\ pc[p] = "touch" /\ Goto(p, "free")
    /\ UNCHANGED <<globals, invocation, writing>>

CreateLockTouch(p) ==
    /\ pc[p] = "touch"
    /\ lock' = TRUE
    /\ hist' = hist \cup (IF lock THEN {"raced"} ELSE {})
    /\ Goto(p, "free")
    /\ UNCHANGED <<machine, tmp, flash, services, writing, invocation>>

AfterCard(p) == IF req[p].remote THEN "download" ELSE "protect"

\* free_resources: --web keeps majestic, which is streaming the log.  A file
\* under /mnt/mmc keeps the card mounted.
FreeResources(p) ==
    /\ pc[p] = "free"
    /\ services' = services \ (IF req[p].web THEN {"daemons"} ELSE Services)
    /\ \/ Goto(p, "sdcard")
       \/ {req[p].kfile, req[p].rfile} # {None} /\ Goto(p, AfterCard(p))
    /\ UNCHANGED <<machine, lock, tmp, flash, hist, writing, invocation>>

\* check_sdcard ends: no card, or every mount is gone.
SdCardUnmounted(p) ==
    /\ pc[p] = "sdcard"
    /\ Goto(p, AfterCard(p))
    /\ UNCHANGED <<globals, writing, invocation>>

\* check_sdcard finds a recovery file and exits.  A mount that stays busy keeps
\* the loop going: no step.
SdCardRecovery(p) ==
    /\ pc[p] = "sdcard"
    /\ Quit(p)
    /\ UNCHANGED globals

-----------------------------------------------------------------------------
(* download_firmware *)

\* tar puts an archive's files over what /tmp held, and leaves the others.
Extracted(a) == [f \in Staged |-> IF a[f] # None THEN a[f] ELSE tmp[f]]

Damaged(a) == [f \in Staged |-> IF a[f] # None THEN [a[f] EXCEPT !.intact = FALSE] ELSE None]

\* No network or no such build; or tar fails on a stream that breaks off, and
\* has written damaged files by then.
DownloadFails(p) ==
    /\ pc[p] = "download"
    /\ \/ Die(p)
       \/ \E a \in Archives : RebootSystem(p, Extracted(Damaged(a)))

\* md5sum -c, unless -f: the archive's checksums cover its own files.
ChecksumOK_Any(p, a) == TRUE  \* mutant: the result is not looked at
ChecksumOK(p, a) == req[p].force \/ \A f \in Staged : a[f] # None => a[f].intact

\* A file of an earlier -x run that the archive does not replace.
LeftOver(a, f) == a[f] = None /\ tmp[f] # None

\* The files that will be flashed once "a" is unpacked.
Counting(a) == IF Extracted(a)["firmware"] # None THEN {"firmware"} ELSE {"kernel", "rootfs"}

\* Auxiliary: what is odd about them.  "assorted" is anything but a whole blob or
\* the archive's own two files of one build.
Oddities(a) ==
    {e \in Events : \/ e = "stale" /\ \E f \in Counting(a) : LeftOver(a, f)
                    \/ /\ e = "assorted"
                       /\ IF Extracted(a)["firmware"] # None
                          THEN ~Extracted(a)["firmware"].intact
                          ELSE a["kernel"] = None \/ a["kernel"] # a["rootfs"]}

\* The archive is unpacked and checked.  image_combined looks at /tmp, where an
\* earlier -x run may have left its blob.  The checksums such a run left there may
\* be checked as well, and fail.
DownloadFirmware(p) ==
    /\ pc[p] = "download"
    /\ \E a \in Archives :
          \/ /\ ChecksumOK(p, a)
             /\ tmp' = Extracted(a)
             /\ combined' = [combined EXCEPT ![p] = Extracted(a)["firmware"] # None]
             /\ hist' = hist \cup Oddities(a)
             /\ Goto(p, "protect")
             /\ UNCHANGED <<machine, lock, flash, services, req, seen, trapped, writing>>
          \/ /\ ~ChecksumOK(p, a) \/ (~req[p].force /\ \E f \in Staged : LeftOver(a, f))
             /\ RebootSystem(p, Extracted(a))

-----------------------------------------------------------------------------
(* The protected part: trap '' HUP INT TERM PIPE, then the flash *)

\* Auxiliary: what is unusual about a command line.  Local files are "assorted"
\* unless both are named, and are whole files of one build.
Unusual(r) ==
    {e \in Events : \/ e = "forced" /\ r.force
                    \/ e = "partial" /\ r.kernel # r.rootfs
                    \/ e = "badfile" /\ \E x \in {r.kfile, r.rfile} \cap Image : ~x.intact
                    \/ /\ e = "assorted" /\ r.kernel /\ r.rootfs
                       /\ IF r.remote THEN {r.kfile, r.rfile} # {None}
                          ELSE r.kfile # r.rfile \/ r.kfile \notin Image \/ ~r.kfile.intact
                    \/ e = "noreboot" /\ r.noreboot}

SetTrap_None(p) == UNCHANGED trapped  \* mutant: no trap
SetTrap(p) == trapped' = [trapped EXCEPT ![p] = TRUE]

StopMajestic_None(p) == UNCHANGED services  \* mutant: --web never stops it
StopMajestic(p) ==
    services' = services \ (IF req[p].web THEN {"majestic"} ELSE {})

Protect(p) ==
    /\ pc[p] = "protect"
    /\ SetTrap(p)
    /\ StopMajestic(p)
    /\ hist' = hist \cup Unusual(req[p])
    /\ Goto(p, IF combined[p] THEN IF req[p].kernel \/ req[p].rootfs
                                   THEN "firmware" ELSE AfterRootfs(p)
               ELSE IF Wants(p, "kernel") THEN "kernel" ELSE AfterKernel(p))
    /\ UNCHANGED <<machine, lock, tmp, flash, req, seen, combined, writing>>

\* flashcp or flash_eraseall starts: the old content goes.  Two writers of one
\* partition leave neither's image.
BeginWrite(p, parts, data, label) ==
    LET others == {q \in Procs \ {p} : writing[q].parts \cap parts # {}}
    IN /\ writing' = [q \in Procs |->
                         IF q = p
                         THEN [parts |-> parts, data |-> data, rivals |-> others]
                         ELSE IF q \in others THEN [writing[q] EXCEPT !.rivals = @ \cup {p}]
                         ELSE writing[q]]
       /\ flash' = [part \in Parts |-> IF part \in parts THEN Torn ELSE flash[part]]
       /\ Goto(p, label)

\* flashcp ends: everything is written, or some of it is not.
EndWrite(p, ok) ==
    /\ flash' = [part \in Parts |-> IF part \in writing[p].parts /\ ok /\ writing[p].rivals = {}
                                    THEN writing[p].data ELSE flash[part]]
    /\ writing' = [writing EXCEPT ![p] = NoWrite]
    /\ hist' = hist \cup (IF ok THEN {} ELSE {"flasherr"})

\* do_update_firmware: slice the blob at the FIT boundary, or write it whole
\* where there are no separate partitions.  The whole write checks no SoC.
DoUpdateFirmware(p) ==
    /\ pc[p] = "firmware"
    /\ LET x == tmp["firmware"]
       IN \/ (x = None \/ (camera.layout = "split" /\ ~x.fit)) /\ Die(p)
          \/ /\ x # None /\ camera.layout = "split" /\ x.fit
             /\ tmp' = [tmp EXCEPT !["kernel"] = x, !["rootfs"] = x]
             /\ Goto(p, "kernel")
             /\ UNCHANGED <<machine, lock, flash, services, hist, writing, invocation>>
          \/ /\ x # None /\ camera.layout = "single"
             /\ BeginWrite(p, {"kernel", "rootfs"}, x, "wfirmware")
             /\ hist' = hist \cup {"whole"}
             /\ UNCHANGED <<machine, lock, tmp, services, invocation>>

\* The $1 of do_update_kernel and do_update_rootfs: the file that was named, which
\* a blob overrides with its slices.  Empty, it means the staged one.
Argument(p, file) == IF combined[p] THEN None ELSE file
KernelFile(p) == IF Argument(p, req[p].kfile) = None THEN tmp["kernel"] ELSE req[p].kfile
RootfsFile(p) == IF Argument(p, req[p].rfile) = None THEN tmp["rootfs"] ELSE req[p].rfile

\* Auxiliary: an empty --kernel= or --rootfs= takes what an earlier run left in /tmp.
LeftBehind(p, file) ==
    IF Argument(p, file) = None /\ ~req[p].remote THEN {"stale"} ELSE {}

\* The uImage probes of do_update_kernel; a FIT kernel has neither field.
KernelProbeFails_Never(p, x) == FALSE  \* mutant: left to the rootfs check
KernelProbeFails(p, x) == ~x.fit /\ camera.probes /\ ~SocOK(p, x)
KernelIsCurrent(p, x) ==
    ~x.fit /\ KernelVersion(x) # NA /\ SameVersion(p, KernelVersion(x), seen[p].kernel)

DoUpdateKernel(p) ==
    /\ pc[p] = "kernel"
    /\ LET x == KernelFile(p)
       IN \/ x \notin Image /\ Die(p)
          \/ x \in Image /\ KernelProbeFails(p, x) /\ Die(p)
          \/ /\ x \in Image /\ ~KernelProbeFails(p, x) /\ KernelIsCurrent(p, x)
             /\ Goto(p, AfterKernel(p))
             /\ UNCHANGED <<globals, writing, invocation>>
          \/ /\ x \in Image /\ ~KernelProbeFails(p, x) /\ ~KernelIsCurrent(p, x)
             /\ BeginWrite(p, {"kernel"}, x, "wkernel")
             /\ hist' = hist \cup LeftBehind(p, req[p].kfile)
                             \cup (IF x.soc # Model /\ (x.fit \/ ~camera.probes)
                                   THEN {"unprobed"} ELSE {})
             /\ UNCHANGED <<machine, lock, tmp, services, invocation>>

\* do_update_rootfs: mkdir, losetup or mount may fail for any image, and then it
\* dies.  The hostname inside names its SoC.  Without a rootfs partition flashcp
\* is given "/dev/" and fails.
DoUpdateRootfs(p) ==
    /\ pc[p] = "rootfs"
    /\ LET x == RootfsFile(p)
       IN \/ x \notin Image /\ Die(p)
          \/ /\ x \in Image
             /\ hist' = hist \cup {"unmounted"}
             /\ Goto(p, "reboot")
             /\ UNCHANGED <<machine, lock, tmp, flash, services, writing, invocation>>
          \/ x \in Image /\ ~SocOK(p, x) /\ Die(p)
          \/ /\ x \in Image /\ SocOK(p, x) /\ SameVersion(p, x.ver, seen[p].rootfs)
             /\ Goto(p, AfterRootfs(p))
             /\ UNCHANGED <<globals, writing, invocation>>
          \/ /\ x \in Image /\ SocOK(p, x) /\ ~SameVersion(p, x.ver, seen[p].rootfs)
             /\ \/ /\ camera.layout = "split"
                   /\ BeginWrite(p, {"rootfs"}, x, "wrootfs")
                   /\ hist' = hist \cup LeftBehind(p, req[p].rfile)
                \/ /\ camera.layout = "single"
                   /\ hist' = hist \cup {"flasherr"}
                   /\ Goto(p, AfterRootfs(p))
                   /\ UNCHANGED <<flash, writing>>
             /\ UNCHANGED <<machine, lock, tmp, services, invocation>>

\* do_wipe_overlay
DoWipeOverlay(p) ==
    /\ pc[p] = "wipe"
    /\ BeginWrite(p, {"overlay"}, Erased, "wwipe")
    /\ UNCHANGED <<machine, lock, tmp, services, hist, invocation>>

AfterWrite_Retry(p) ==  \* mutant: the kernel is written again and again
    IF pc[p] = "wkernel" THEN "kernel"
    ELSE IF pc[p] \in {"wfirmware", "wrootfs"} THEN AfterRootfs(p) ELSE "reboot"
AfterWrite(p) ==
    IF pc[p] = "wkernel" THEN AfterKernel(p)
    ELSE IF pc[p] \in {"wfirmware", "wrootfs"} THEN AfterRootfs(p) ELSE "reboot"

\* set_progress flashcp returned.  Its status counts only for the whole write,
\* and under -s not even there: the pipe returns awk's.
WriteEnds(p) ==
    /\ pc[p] \in WritePCs
    /\ \E ok \in BOOLEAN :
          /\ EndWrite(p, ok)
          /\ Goto(p, IF pc[p] = "wfirmware" /\ ~ok /\ ~req[p].silent
                     THEN "reboot" ELSE AfterWrite(p))
    /\ UNCHANGED <<machine, lock, tmp, services, invocation>>

Finish(p) == pc[p] = "reboot" /\ RebootSystem(p, tmp)

-----------------------------------------------------------------------------
(* The environment *)

\* The terminal goes away: the default action of HUP kills the shell, its lock
\* file stays.
Hangup(p) ==
    /\ pc[p] # "idle" /\ ~trapped[p]
    /\ Quit(p)
    /\ UNCHANGED globals

PowerCut == Active # {} /\ Boot("power", Procs)

-----------------------------------------------------------------------------
\* The steps that wait for the network: curl and ntpd -Nnq have no time limit
\* for all they do.
Network(p) == ListBuilds(p) \/ SelfUpdate(p) \/ DownloadFails(p) \/ DownloadFirmware(p)

Local(p) ==
    \/ PrintSysinfo(p) \/ CreateLockTest(p) \/ CreateLockTouch(p) \/ FreeResources(p)
    \/ Protect(p) \/ DoUpdateFirmware(p) \/ DoUpdateKernel(p) \/ DoUpdateRootfs(p)
    \/ DoWipeOverlay(p) \/ WriteEnds(p) \/ Finish(p)

Step(p) == Network(p) \/ Local(p)

Next ==
    \/ \E p \in Procs : Step(p) \/ Start(p) \/ SdCardUnmounted(p)
                         \/ SdCardRecovery(p) \/ Hangup(p)
    \/ PowerCut

\* A script goes on with what it does on the camera itself.  Nobody has to start
\* one, pull the plug, answer from the network, or release a busy card.
Spec == Init /\ [][Next]_vars /\ \A p \in Procs : WF_vars(Local(p))

-----------------------------------------------------------------------------
(* Properties *)

Clean(causes) == hist \cap causes = {}

\* Two invocations are past create_lock at once only after both fell into the
\* window between its test and its touch, or after an invocation without the
\* lock removed it on its way out (die under -x before create_lock).
LockExclusion ==
    \A p, q \in Procs : p # q /\ Inside(p) /\ Inside(q) => ~Clean({"raced", "stolen"})

\* A partition that nobody is writing is half written only after flashcp failed,
\* the power went, or another invocation rebooted the camera or wrote the same
\* partition: never because the terminal that started the update went away.
TornHasCause ==
    \A part \in Parts :
        /\ flash[part] = Torn
        /\ \A p \in Procs : part \notin writing[p].parts
        => ~Clean({"flasherr", "power", "rebooted", "raced", "stolen"})

Foreign(part) == flash[part] \in Image /\ flash[part].soc # Model

\* An image of another SoC reaches the flash only under -f, as a whole blob, or
\* as a kernel whose header the script cannot read (FIT, ingenic, rockchip).
SocGate ==
    /\ Foreign("rootfs") => ~Clean({"forced", "whole"})
    /\ Foreign("kernel") => ~Clean({"forced", "whole", "unprobed"})

\* Everything that may leave a kernel of one build beside a root file system of
\* another.  Without it a full update writes both or none: a missing file, a wrong
\* SoC or a bad checksum is noticed before the first write, and a part is skipped
\* as current only when its other half is.  The root file system that cannot be
\* mounted ("unmounted") is the one check that comes too late for a good image.
MixedCauses == {"flasherr", "power", "rebooted", "raced", "stolen", "forced",
                "partial", "assorted", "unprobed", "unmounted", "noreboot"}

AllOrNothing ==
    /\ flash["kernel"] \in Image /\ flash["rootfs"] \in Image
    /\ Active = {}
    /\ Clean(MixedCauses)
    => flash["kernel"] = flash["rootfs"]

\* While the flash is written majestic, which holds most of the memory, is not
\* running and the process cannot be hung up.
QuietWhileFlashing ==
    \A p \in Procs : writing[p].parts # {} => trapped[p] /\ "majestic" \notin services

\* Flash changes only while the lock file exists and in the hands of a process
\* that set the trap, except after two processes raced for the lock or one
\* removed another's: no refused, failing or killed invocation takes the lock
\* away from one that is flashing.
WritesUnderLock ==
    [][flash' # flash => /\ \E p \in Procs : trapped[p] /\ Inside(p)
                         /\ lock \/ ~Clean({"raced", "stolen"})]_vars

\* Bytes that do not match the archive's checksums reach the flash only under
\* -f, from a damaged local file, out of a file an earlier -x run left in /tmp,
\* which the new archive's checksums say nothing about, or when two invocations
\* past the lock unpack into the same /tmp.
DamageGate ==
    \A part \in Parts : flash[part] \in Image /\ ~flash[part].intact
                        => ~Clean({"forced", "badfile", "stale", "raced", "stolen"})

\* Where an invocation may wait for ever: for the network, or for a card that is
\* busy.
Waits == {"list", "self", "download", "sdcard"}

\* Between its waits an invocation comes to an end, whatever fails: no write, no
\* refused lock and no failed check leaves it hanging.
EveryRunEnds == \A p \in Procs : pc[p] # "idle" ~> pc[p] \in {"idle"} \cup Waits

-----------------------------------------------------------------------------
(* What the script says and does not keep *)

\* "Another sysupgrade process is already running!": when create_lock finds the
\* lock, some other invocation is past it.
AlreadyRunning ==
    \A p \in Procs : pc[p] = "lock" /\ lock => \E q \in Procs \ {p} : Inside(q)

=============================================================================
