# A TLA+ verification of the OpenIPC / DarkOS camera firmware sources

This directory holds TLA+ models of the firmware's own programs, the TLC runs
that check them on small instances, and TLAPS proofs of what holds for every
instance. Paths below are relative to `src/`, the root of the repository.

The repository is a Buildroot tree. Most of its bytes are recipes, kernel
configurations, vendor kernel modules and libraries, certificates and vendored
headers. The logic that belongs to the project itself is in a few shell scripts
and C daemons; those are the components below.

## 1. Inventory

### sysupgrade (`general/overlay/usr/sbin/sysupgrade`)
Replaces kernel and root file system of a camera that is running from them.
*State*: the lock file and the unpacked images in `/tmp`, the flash partitions,
the running system, the services it stops. *Operations*: option parsing,
`--list-builds`, self-update (an `exec` of a newer copy), `create_lock`,
`free_resources`, `check_sdcard`, `download_firmware`, then, with signals ignored,
`do_update_firmware` / `do_update_kernel` / `do_update_rootfs` / `do_wipe_overlay`,
`reboot_system`; `die` reboots too. *Interaction*: started by a shell user, by
majestic (`--web`) and by `openipc-bisect` over ssh, so several may run at once.
*Hard*: test and touch of the lock are two steps, the lock is removed by whoever
fails under `-x`, hang-ups and power cuts between the steps of a flash write,
ignored exit statuses, versions read from the running system and not from flash.
*Correct when*: flash changes only under the lock and the trap, an image of
another SoC or with damaged bytes does not get there unless forced, a full update
from one build leaves two builds mixed for a few known reasons only, and an invocation
that does not wait for the network or a card ends.

### openipc-bisect (`contrib/openipc-bisect`)
Searches the nightly builds for the one that broke a camera. *State*: one JSON
file per camera (good, bad, window, verdicts, current) and the camera itself.
*Operations*: `start`, `good|bad|skip`, `resume`, `reset`, `status`; each is a
process that reads the file, writes it, flashes over ssh and waits. *Hard*: no
lock on the file, a truncating write, crashes between the two writes of a
command, a camera that never took the flash, dies, or answers before its reboot.
*Correct when*: the first bad build stays between good and bad, no candidate is
lost, every verdict halves what is left, the search ends and names the culprit.

### matter-server (`general/package/matter/src/matter-server.c`)
A TCP daemon that shows the camera to Matter controllers. *State*: `g_camera`
under its mutex, `g_active_clients` under another, one accumulation buffer per
connection, `g_running`, `g_server_fd`. *Operations*: the accept loop, a thread
per connection (recv, framing, dispatch, answer), the cluster handlers, a motion
thread, a statistics thread, an mDNS announcer, a signal handler. *Hard*: streams
cut anywhere, a full buffer, slots given back on four paths, handlers of several
controllers, a signal at any point of the accept loop. *Correct when*: messages
are dispatched whole, once and in order; the slot counter equals the threads;
camera commands are atomic; a written label reads back; a signal ends the server.

### w1-ds18b20 (`general/package/w1-ds18b20/src/w1-ds18b20.c`)
Finds 1-wire thermometers by walking the tree of their ROM codes, and reads them.
*State*: the committed code and branch point, those of the search under way, retry
counters; of each sensor its resolution and whether its measurement has ended.
*Operations*: the look for a pull-up resistor, the resolution sent twice to everybody, one
conversion for all, the search, and a reading of each sensor it comes to. *Hard*: which
branch is left to take changes as the walk goes on, noise on the bus, commands nobody
acknowledges, a wait that may be too short, retries that are reset. *Correct when*: it
lists real sensors, all of them, their readings are of this run, and it ends.

### mqtt-bot (`general/package/mqtt-bot/src/mqtt-bot.c`)
Runs whitelisted commands that arrive over MQTT. *State*: the whitelist, the connection
of `mosquitto_loop_forever`, and no table of what it started. *Operations*: `on_connect`
subscribes, `on_message` forks a watcher, the watcher forks the command, collects its
output through a pipe under a 3 second alarm, waits for it and publishes the output with
an exit-code footer over a connection of its own; `snap` publishes an image instead.
*Hard*: SIGCHLD is ignored in `main()` and inherited, the alarm kills only the watcher,
output at the buffer's limit, a response topic equal to the command topic, lost
connections of a clean session. *Correct when*: an answer tells the truth about its
command, an answer never runs a command, every watcher ends, the bot listens again.

### herald (`general/package/herald/src/`)
An mDNS responder and a browser. *State*: of a server its names and `g_running`, of the
client the list `g_devices`; the packets on the way. *Operations*: the server probes
three times for its name, announces three times, answers after a short delay, says
goodbye twice; the client asks twice, collects and prints. *Hard*: two servers with one
name at different points of their start, unrelated packets in a probe window, lost
packets, signals in the middle of a wait. *Correct when*: the later of two equal names
finds out, a scan lists whoever answers throughout, a signal ends a server.

### gpio-motors and gpiostep (`general/package/gpio-motors`, `general/package/gpiostep-openipc`)
Two programs that turn the same pan and tilt motors: one through /sys/class/gpio, the
other a kernel driver with a mutex and a front end. *State*: who owns each pin and its
value, the driver's lock, the rotors. *Operations*: export, set, release; load, request,
unload, ioctl. *Hard*: nothing keeps two runs of gpio-motors apart, a killed one leaves
its pins, the driver may load meanwhile, callers of the driver overlap. *Correct when*:
steps add up, coils end up off, the driver owns all of its pins or none.

### ntfy (`general/package/ntfy/src/ntfy.c`), not modelled
Publishes to and subscribes from a notification server. *Hard*: lines across
callback pieces and beyond the buffer, standard input at its limit.

### webface (`general/package/webface/files/cgi-bin/`), not modelled
Login sessions and failure counts as files, one CGI process per request. *Hard*:
concurrent read-modify-write of a counter, sliding and absolute expiry.

### Smaller tools, not modelled
`netblink` (traffic or ping on an LED), `autonight` (two thresholds), `xmdp` (discovery), `hisi-gpio`,
`i2c-telemetry`, `lshell`, `rcjoystick` (device I/O), the libc and Opus shims
(forwarding wrappers). Each is one loop with little state of its own.

### Boot, build and data, not modelled
The overlay's init, network and mdev scripts run in sequence; `rockchip-tools`,
`general/scripts` and `.github/scripts` run on a build host; package recipes, board
configurations, kernel modules and vendored code hold no logic of the project.

## 2. Modules

| Module | Models | Notes |
| --- | --- | --- |
| `Sysupgrade` | sysupgrade | one process per invocation, one shared machine |
| `SysupgradeProofs` | | theorems about it: types and lock; what reaches the flash; one build |
| `Bisect` | openipc-bisect | terminals, the state file, the camera, the user |
| `BisectProofs` | | theorems about it |
| `MatterSession` | what a connection promises | the abstract specification |
| `MatterLink` | `client_thread`, the byte stream | implements `MatterSession` |
| `MatterLinkProofs` | | theorems about it |
| `MatterServer` | accept loop, threads, handlers, signal | composes connections |
| `MatterServerProofs` | | theorems about it |
| `W1Search` | w1-ds18b20 | the conversion, the search, the bus, the noise |
| `W1SearchProofs` | | theorems about it |
| `MqttBot` | mqtt-bot | the loop, watchers and commands as processes |
| `Herald` | herald-server, herald-client | several servers, a scan, the network |
| `HeraldProofs` | | theorems about it |
| `Motors` | gpio-motors, gpiostep, gpiostep-ctl | overlapping runs over shared pins |
| `MotorsProofs`, `MqttBotProofs` | | theorems about Motors and MqttBot |
| `MC*` | | the instances TLC checks |

A definition whose name ends in an underscore and a word, such as `Narrow_Crossed`,
is a deliberately wrong variant of the definition after it. No specification uses
these; `PROJECT.json` says which property each one violates when it takes the place
of the right definition.

**Sysupgrade.** `pc` is the place in the main script, `req` the parsed options,
`seen` what `get_system_info` read. An image is a record of its SoC, version, FIT
or uImage, and whether its bytes are intact. A flash write is two steps
(`BeginWrite`, `EndWrite`), everything else between two shared accesses is one. `hist`
is an auxiliary variable: the unusual events so far, which the properties use to
name exactly what can lead to a bad state; no action reads it. The manifest lookup
that picks a URL is abstracted to whether a download succeeds and what it brings. An archive
may hold any of its files, and kernel and root file system may each come from a place of
their own, the archive or a file named on the command line. The check in
`do_update_rootfs`, which mounts the image, may fail for any image: a directory, a loop
device or a mount that cannot be had ends the script just as a damaged image does, after the
kernel was written ("unmounted").

**Bisect.** Builds are numbers from the oldest. `file` is the state file, `mem` what
a command holds between reading and writing, `stale` whether the file changed since.
The truth `firstBad` is only used by the user's verdicts and by the properties. The
user judges what the camera really runs. `Slice` is awk's walk from good to bad, which is
empty when the two come in the other order: the script refuses such a bracket.

**MatterLink.** Bytes have `Base` values, so that prefixes are realistic and short.
`Recv` takes any number of bytes up to the room there is. The answer to a message is a
place of its own ("send"), since send() has no timeout: until the controller takes the
answer the thread stays there, with the next messages in its buffer. **MatterServer** leaves the
bytes out and has requests instead. A handler is two steps, from taking the camera's
mutex to releasing it, so that a missing lock would show. `written` is auxiliary: the
last label that was accepted. `Select` may return in every way select() may,
also for the descriptor -1 that the signal handler can leave behind.

**W1Search.** `pc` goes from the look for a resistor through the resolution and the
conversion to the loop of `ScanForSensor`, with a search inside. `on` is the set of sensors that still take part in a search; a read slot
is a wired AND over it. The check byte is abstracted to a parity bit, which like the
CRC detects every single wrong bit; the noise bound is one event for that reason. Noise may
strike a reset, SEARCH_ROM or another command, which some of the sensors then miss, a slot
that is read, or a bit that is written, which some then take for the other one. It makes no
slot more or less.
`fresh` and `struck` are auxiliary: whose measurement of this run has ended, and whether
noise struck the last thing the sensors were told. A measurement takes what its resolution
says, and the process waits for what the command line says.

**MqttBot.** `run` and `link` are main() and its connection; `watch[w]` is a watcher
together with its command: `wrote` and `status` are the command's side of the pipe and
of waitpid(), `text` and `code` the watcher's. Output is counted in units. A payload is the
name it begins with and what follows that name: nothing ("end"), a NUL, or more. What
`on_message` compares is a C string of at most 255 bytes, so a NUL hides the rest, and so
does a name that has 255 bytes itself (`LongCommand`). What a command prints may begin with
any of them. An `answer` is the length that is published and the code in it; the length is
what snprintf() returned for the footer, cut or not, as in the code. A write to a pipe nobody reads any more ends the command; after
the alarm nothing follows it. An unacknowledged or failed publish ends the watcher too.

**Herald.** Time passes in ticks of the 250 ms of a probe window; a copy of a packet
arrives at once or is lost, and waits in the inbox of a host that would read it. `rival`
and `steady` are auxiliary: who was there before a server began, and who has been
answering since a scan began. The four records of a response are one message, since
they travel in one packet. Packets a host would throw away unread are not queued.

**Motors.** `proc[p]` is a run of either program. gpio-motors takes a step for each file of
/sys/class/gpio it writes: export, direction, the value of every coil of a phase, and in
`gpio_clean` the value and the unexport of each pin, so that another run gets between
any two of them. The end of a run in `gpio_config` is a run that does nothing. A phase
of the driver's axis is one step, since the pins are the driver's and its mutex is held. A
rotor turns to the nearest position of the phase that is on during a delay, which is what
makes half steps and changes of direction visible. After two runs of gpio-motors overlapped or one was
killed the rotor is not followed any more (`disturbed`): nothing is promised then.

## 3. Runs

| Run | Instance | Shows |
| --- | --- | --- |
| `sysupgrade` | 2 invocations, 9 command lines, 6 archives, 2 cameras | lock, gates, trap, all-or-nothing, termination between waits |
| `sysupgrade_same_version` | 1 process, 2 runs with `-x` | finding: the comparison is with the running system |
| `sysupgrade_stale_lock` | 1 process, 2 runs | finding: a lock nobody holds |
| `bisect` | 5 builds, 2 terminals, 1 mishap | bracket, candidates, halving, convergence |
| `bisect_culprit` | 4 builds, 1 terminal, no mishap | finding: a wrong culprit |
| `matter_link` | 2 byte values, messages of 0 to 9 bytes, up to 3 of them | framing, refinement of `MatterSession` |
| `matter_server` | 3 connections, 2 slots, 1 fault, 10 kinds of request | slots, atomic commands, stop |
| `matter_label` | 1 connection, 2 requests | finding: a label with the tail of the old one |
| `w1_search` | 4-bit codes: buses of up to two sensors and of all eight, 2 resolutions, 2 waits, 1 noise event | the search finds all, only real ones, with fresh readings, and ends |
| `mqtt_bot` | 2 watchers, 5 command lines, 1 of 4 orders, a buffer of 3, 2 faults | true answers, which echoes run a command, watchers end, the bot listens |
| `motors` | 8 pins: 2 runs of either program; 5 pins: 3 runs, 2 at a time; 2 moves each, 1 fault | steps add up, pins are left quiet, all pins or none |
| `herald` | 2 servers with equal or different names, 1 scan, 1 loss or signal | conflicts noticed, complete scans, stop |

**Bounds.** In Sysupgrade `MaxRuns` = 2 lets two invocations overlap or follow each other,
which is what every shared piece of state (lock, `/tmp`, flash, system) needs to go wrong.
The nine command lines take each option at least once in a combination that matters, with
both parts from the net, from files, and from one of each; the archives hold a good, a foreign
and a damaged build, one lacks its root file system, two are combined blobs; the two cameras differ in partition layout and in whether kernels can be probed. Five
builds give windows with an odd and an even number of candidates and at least two
rounds; `FirstBads` takes one build near either end; one bracket covers all builds, in
another the good build may be broken already, the third is given the wrong way round. `MaxMishaps` = 1 is one killed command or one
overlap. In `matter_link` the buffer is twice the longest message, as in the code, and a
message longer than that and an empty one are among the messages. Three connections
for two slots reach the limit and the rejection; `MaxFaults` = 1 is one failure of
accept, malloc or pthread_create. Four bits, so three free
ones: two sensors may part at any of them, and the bus of all eight codes has a choice at each,
which is every change of the branch point the search knows; the resolutions asked for are none
and the lowest, while the sensors start at the lowest or the highest, and the waits are enough
for the lowest only and for all; one noise event may hit any single slot, reset or command.
In `mqtt_bot` the output may be shorter
than the buffer, fill it, or leave no place for the footer; two watchers are the
fewest that can get in each other's way; each fault is a failed fork, malloc, image, publish, subscription or connection, or
a message delivered twice, and two of them let a connection be lost and then refused; one
order is enough, since the bot's answers are orders of their own. In `motors` two
processes meet in every place of either program, with a move of one axis and one of both in
different directions; the eight pins are those of the driver's defaults. Five pins have no driver,
so there three runs are possible: two that overlap, at every interleaving of their writes, and
one that comes afterwards and is alone. To keep that small, the run that comes beside another
(`Beside`) only exports and releases. In `herald` two servers
start, probe, announce and answer in any order around a scan; one packet copy may be
lost or one server stopped, which is the case two queries and three announcements are for.
Deadlock is not checked:
every system here may stop (no more invocations, a closed connection, a finished scan).

**Fairness.** A started sysupgrade keeps running where it needs nobody else (`WF` of its
`Local` steps); the steps that call `curl` without a time limit or `ntpd`, and the loop over a
busy card, are not fair, so `EveryRunEnds` says that an invocation ends or is at one of these
waits. Nobody has to start one, remove a card or cut the power. In Bisect the user eventually answers or resumes,
as the script asks; without that the search stands still by design. A connection's
loop runs as long as bytes arrive and answers are taken; nobody has to send or to
take an answer, and `AllDispatched` has it as a premise that the controller does
(`AnswersTaken`). In MatterServer only the main
thread, a thread that holds the camera's mutex and a thread that is leaving are fair:
a thread that waits for its controller in recv() or send() may wait for ever. The scan is one
process that runs. In MqttBot the loop and the alarm clock run, and nothing is assumed of a
command, a camera or a broker a watcher waits for. In Herald time passes and
programs do what is due. Motors states no liveness.

### Properties worth reading first

* `LockExclusion`, `WritesUnderLock` (Sysupgrade): the two, and only two, ways past the lock.
* `TornHasCause`: a half-written partition is never the work of a lost terminal.
* `AllOrNothing`: when nobody is updating, kernel and root file system are of one build, unless
  one of a short list of things happened: what was asked for or unpacked was not one whole
  build, the rootfs could not be mounted, a write or the power failed, the lock was raced for.
* `BracketSound`, `NothingLost`, `Halves`, `Converges` (Bisect).
* `Reassembles` (MatterLink): refinement of `MatterSession`, for every cut of the stream.
* `SlotsCounted`, `CommandsAreAtomic`, `Stops` (MatterServer).
* `FindsAll` (W1Search): every sensor, once, in the order of the search; `ReadingsAreFresh`:
  what is printed was measured now, at the resolution asked for.
* `AnswerIsTrue`, `OnlyOrdered` (MqttBot): what the controller is told, and which answers of
  the bot's own it takes for an order.
* `LaterOneNotices`, `ScanFindsAll` (Herald): what a user sees of two cameras on a network.
* `StepsAddUp`, `LeavesQuiet` (Motors): the motors after any overlap of their drivers.

### Findings

1. sysupgrade says "Same version, nothing to update" by the running system, not the flash.
2. sysupgrade says "Another sysupgrade process is already running!" about a lock that an
   exit in `check_sdcard`, or a hang-up before the trap, left behind.
3. openipc-bisect announces the known-good build as the first bad one when only bad
   verdicts were given: the culprit is looked for in a window it was removed from.
4. matter-server copies a label without terminating it: "Garage" over "IP Camera" reads
   back as "Garageera".

### Noted while modelling, not claimed as findings

* mqtt-bot: a command that takes longer than three seconds is never answered, and goes on;
  nothing limits how many watchers there are; a subscription that fails is only logged
  (`link` = "deaf"); a truncated output is published with the length of the whole footer,
  which is more than the buffer holds; where answers go to the command topic, one that begins
  with a name and a NUL, or with a name of 255 bytes, is run as an order (`Hides`); an answer does not name its command, so two at once cannot be told apart.
* herald: a name conflict is only logged, and the server announces the name anyway; two servers
  that start within one window do not see each other, since a probe is no response; two on
  one host never do; the client looks at no TTL, so goodbyes are listed; its default query is
  answered by no herald-server.
* sysupgrade: mkdir, losetup or mount may fail after the kernel was written, and the camera then
  reboots with two builds; a download that stalls is waited for without a limit, with the
  services stopped and the lock held.
* matter-server: a controller that does not read its answers stops the dispatch of what it sent.
* gpiostep: loading it without both parameters is refused, although it has defaults.
* gpio-motors: no lock and no signal handler; overlapping runs unexport each other's pins, and
  may leave a coil on that is nobody's any more.

## 4. Proofs

TLAPS proves, for all values of the constants that satisfy the named assumptions:

| Theorem | Statement |
| --- | --- |
| `SysupgradeProofs!TypeCorrect` | `Spec => []TypeOK` |
| `SysupgradeProofs!LockIsExclusive` | `Spec => []LockExclusion` |
| `SysupgradeProofs!TornHasItsCause` | `Spec => []TornHasCause` |
| `SysupgradeProofs!FlashIsLocked` | `Spec => WritesUnderLock` |
| `SysupgradeProofs!FlashingIsQuiet` | `Spec => []QuietWhileFlashing` |
| `SysupgradeProofs!SocIsChecked` | `Spec => []SocGate` |
| `SysupgradeProofs!DamageIsKeptOut` | `Spec => []DamageGate` |
| `SysupgradeProofs!UpdateIsWhole` | `Spec => []AllOrNothing` |
| `BisectProofs!TypeCorrect` | `Spec => []TypeOK` |
| `BisectProofs!BracketIsSound` | `Spec => []BracketSound` |
| `BisectProofs!NothingIsLost` | `Spec => []NothingLost` |
| `BisectProofs!VerdictsHalve` | `Spec => Halves` |
| `MatterLinkProofs!TypeCorrect` | `Spec => []TypeOK` |
| `MatterLinkProofs!RecvHasRoom` | `Spec => []RoomInv` |
| `MatterLinkProofs!NoMessageWaits` | `Spec => []NoneWaits` |
| `MatterLinkProofs!MessagesReassembled` | `Spec => Reassembles`, which is `MatterSession` under the refinement mapping |
| `MatterServerProofs!TypeCorrect` | `Spec => []TypeOK` |
| `MatterServerProofs!SlotsAreCounted` | `Spec => []SlotsCounted` |
| `MatterServerProofs!CameraIsAtomic` | `Spec => CommandsAreAtomic` |
| `MatterServerProofs!WrittenLabelBegins` | `Spec => []LabelBegins` |
| `W1SearchProofs!TypeCorrect` | `Spec => []TypeOK` |
| `W1SearchProofs!ReadingsAreThisRuns` | `Spec => []ReadingsAreFresh` |
| `W1SearchProofs!OneErrorIsCaught` | `MaxNoise <= 1 => (Spec => []FoundAreReal)` |
| `W1SearchProofs!SearchFindsAll` | `Spec => []FindsAll` |
| `MqttBotProofs!TypeCorrect` | `Spec => []TypeOK` |
| `MqttBotProofs!ControllersOrder` | `Spec => []OnlyOrdered` |
| `MqttBotProofs!AnswersAreTrue` | `Spec => []AnswerIsTrue` |
| `MotorsProofs!TypeCorrect` | `Spec => []TypeOK` |
| `MotorsProofs!DriverHasAllOrNone` | `Spec => []AllOrNone` |
| `MotorsProofs!LastRunLeavesQuiet` | `Spec => LeavesQuiet` |
| `MotorsProofs!StepsAreCounted` | `Spec => []StepsAddUp` |
| `HeraldProofs!TypeCorrect` | `Spec => []TypeOK` |
| `HeraldProofs!LaterNotices` | `Spec => []LaterOneNotices` |
| `HeraldProofs!ScanMissesNobody` | `Spec => []ScanFindsAll` |

They rest on the named assumptions of the modules, which TLC evaluates in the runs:
`ConstantsAssumption`, `BuildsAssumption` (Sysupgrade); `ConstantsAssumption`,
`StateAssumption` (Bisect); `SizesAssumption`, `ScriptsAssumption`, `LengthsAssumption`
(MatterLink); `ClientsAssumption`, `RequestsAssumption`, `LabelAssumption`,
`BoundsAssumption` (MatterServer); `SearchAssumption` (W1Search); `BufferAssumption`,
`WhitelistAssumption`, `OrdersAssumption`, `BoundsAssumption` (MqttBot); `PinsAssumption`, `MovesAssumption`,
`BoundsAssumption` (Motors); `HostsAssumption`, `ListAssumption`, `BoundsAssumption`
(Herald). Most of them say that the constants have their kinds and that model values are
different ones; the bounds may be any numbers. These say more:

* `BuildsAssumption`: a version is the time of a build, so a FIT and a uImage for this SoC
  do not share one. do_update_kernel skips a kernel by its version alone; if the two kinds
  could share a version, a FIT archive could end up beside a uImage kernel.
* `LengthsAssumption`: the length of a message fits the four bytes of its prefix.
* `SearchAssumption`: the codes on the bus have a correct check byte, and the resolution
  asked for is one the command line accepts.
* `MaxNoise <= 1`, a hypothesis of `OneErrorIsCaught` alone: one wrong bit is what the check
  is sure to detect; with two a code nobody has may pass it, in the model as with the CRC.

*Lock exclusion* is not inductive: it says nothing of a process between the test of
the lock and its touch, nor of the lock file itself. The invariant adds that, while
neither "raced" nor "stolen" happened, the lock exists whenever some process is
past it, and nobody is both past it and accompanied by another one. *TornHasCause* needs
that a process that is writing has set the trap and is in a writing place, that the
partitions nobody writes are whole unless one of the listed causes happened, and that
a second writer of a partition means broken lock exclusion.

*The gates of sysupgrade* share an argument. Every step is a restart or a move of one
invocation, which enters the flashing part through the trap only (`Moves`). So majestic is
down in that part, or before it without `--web` (`QuietInv`), and the options that excuse
an image are on record there (`OptionsInv`). A `Gate` says of the flash and of every write
under way that an image of a bad set gets there with a cause only; one lemma shows that
nothing but the start of a write can break it. For the SoC the checks of the stage that
starts it are enough. For damage `StagedInv` is needed: what an invocation has staged
since its download stays undamaged, because nobody else is past the lock to unpack over it.

*One build.* `AllOrNothing` says nothing of an invocation between its two writes, where the
partitions do differ. `WholeInv` says what is true there while no listed cause occurred:
when nobody flashes, both partitions hold one build, the system runs it and every invocation
knows its version (`Settled`). An invocation that asks for both parts from one place and is
about to flash has a whole blob or two whole files of one build staged (`PairStaged`; where they
come from, `SourceInv`). Parts from different places, an archive that lacks one or holds two
builds ("assorted") and a root file system that could not be mounted ("unmounted") are
among the causes. At each stage of the flashing `Halfway` gives what the kernel
partition holds as a function of what is staged. The case that needs care is the kernel that is skipped as the same version
while the root file system is written: it is sound because what an invocation has `seen` is
what the flash holds, and by `BuildsAssumption`. `KnownInv` keeps what is staged among the
builds that assumption speaks of.

*Bisect.* The bracket and the candidates are claims about the state file, and a command
holds a copy of it for a while. The invariants (`BracketInv`, `KeptInv`) say of the file and of
every state a command is about to save that it is bracketed, or has lost nothing, as long as no
verdict was wrong, or repeated. `Kept` needs in addition that the window lies between good and
bad and that the candidate is in it until it is judged; one lemma goes through the three verdicts. For `Halves`,
`MiddleInv` says of the file and of what is about to be saved that the candidate, while it is
one, is the median of the candidates: it is saved together with the window and the verdicts
it was chosen from, so another command's write replaces all of them. A verdict then takes the
candidate and one side (`Sides`, `HalfGoes`).

*MatterLink.* `RoomInv` alone is not inductive, since it does not say how much the buffer
holds. `Waiting` does: when the inner loop goes back to recv(), less than a prefix and
the longest message is buffered; `NoneWaits` adds that what is buffered begins no complete
message; `Answering` that while the answer is sent the message it answers is still first
in the buffer, from which it is taken afterwards. With `TypeOK` they form `LinkInv`. For the refinement, `InOrder` says that
the bytes in the buffer and on the way, together, are the frames of the messages sent and not
dispatched, with the one that is being answered before them; its witness `at` is where each of them ends. recv() moves bytes from one to the
other and changes nothing of this; sending appends a frame; a turn of the inner loop takes
off the first one, because the four digits of a prefix name one length only. Every step
then is a step of `MatterSession` or leaves its variables alone.

*MatterServer.* `HandInv`: from accept() to the thread's start a connection is in the hands of
main() and is no thread yet, so the counter, which main() raises before it creates the thread,
and the set of threads change together (`SlotsInv`). `HandlerInv`: whoever is inside a handler
owns the camera's mutex, and the camera is still as that thread found it, so what it writes
back rests on nothing stale. `LabelInv` adds to `LabelBegins` that what was written is a
sequence of bytes: a write overlays the buffer from its first byte, no other handler touches
it, and the terminator is put at the last byte only.

*W1Search.* Three invariants, since the three properties have different premises. `FreshInv`
follows what the sensors were told last to what they measured; it does not look at the search.
`RealInv` says of a search that whoever takes part agrees with the code read so far. After the
one noise event struck they may differ from it in one bit, the same for all of them, or
everybody has left: then the next slot reads as nobody's and the search is lost. A code that
is complete is therefore a sensor's or differs from one in one bit, which the check byte
notices (`OneWrongBit`).
For `FindsAll` the invariant is about the place of the search in the tree: between two searches
the branch point is the last turn of the committed code (`LastTurn`), everything found is before
that code in the order of the search and every other sensor after it (`BetweenInv`); during
one, the code agrees with the committed one up to the branch point and goes low where it can
afterwards (`DuringInv`). That the next code is the next sensor needs the first bit where two
codes differ, which exists because a finite set of naturals has a least member; no
induction over the tree is needed.

*MqttBot.* `Honest` says of every watcher what it may know: that its order came from a
controller, that at the end of the pipe its text is what an ended command wrote unless the
buffer is full, and that its code is what waitpid() gave it. `OnlyOrdered` needs that whatever
comes back from the bot itself (`Sent`) goes on after the name it begins with, because a footer
or more output follows; the comparison then fails unless a NUL or the 255 bytes hide that.

*Motors.* `PinsInv` says which pins the driver owns while it is out, asking, or in. `QuietInv`
adds who holds the driver's mutex (`LockInv`), that a pin of the driver is on only while that
caller turns its axis (`DrivenInv`), and, of a run of gpio-motors that has been alone since it
started (`AloneInv`), that the pins behind it in each of its loops are as that loop left them
(`LoneInv`): exported before the first coil, and in `gpio_clean` no longer exported, and off
if nobody has them. Nothing is said of a pin that overlapping runs left free and on: a lone run sets it low as it
releases it, and nobody can set it between that write and the unexport. A run that failed to get
a pin, and so met one of the driver's, is held only to leave nothing exported. `StepsInv` is about undisturbed runs, of which there is one at most
(`CalmInv`): a coil is on only under the process that turns it (`OffInv`), the coils behind the
loop over the pins show the phase and those before it the last one (`CoilsInv`), the selector is
where that axis needs it (`SelectInv`), and the rotor stands where the half steps made since its
call began put it (`CountInv`). `Advance` shows for each of the eight phases,
forwards and backwards, that the rotor goes to the next half step and not the other way.

*Herald.* A packet in an inbox and a program in the middle of a wait are both promises, and the
invariants count them. `RivalInv`: while a server probes, one that was there before it has a
response in its inbox, or will make one in fewer ticks than are left of its three windows.
`ScanInv`: a server that answers throughout and is not yet listed has two chances left
before the scan ends, among the second query, the queries it has not read and the answer it is
about to send; one lost copy takes one of them.

Only model-checked: the liveness properties `EveryRunEnds` (Sysupgrade), `Converges` (Bisect),
`AllDispatched` (MatterLink), `Stops` (MatterServer and Herald), `Ends` (W1Search),
`EveryWatcherEnds` and `Listens` (MqttBot), because fairness and ENABLED are outside what the
prover does. Every invariant, action property and refinement that a passing run checks is
stated by a theorem above.

## 5. Plan

Done in this order: Sysupgrade, Bisect, MatterLink with MatterSession, MatterServer, W1Search,
MqttBot, Motors and Herald, each with its run; then the proofs of section 4. Next:

1. The safety half of the liveness properties: for each of them a measure that a fair step
   decreases and no other one raises without a listed cause, as an action property with its
   theorem, so that only the appeal to fairness stays with TLC.
2. `FoundAreReal` for a check that detects more than one wrong bit, as a constant.

## 6. Not modelled, and why

Timing inside a bit slot, formatting, logging and layout: no property is about them.
TLV encoding and the byte scan of a Matter payload are reduced to the request they find, and
DNS names to model values. The mDNS announcer of matter-server keeps no state. The clock is
left out where timeouts can be nondeterministic (everywhere but in Herald's ticks). `rm`,
`touch`, `flashcp` and `tar` are modelled by what the scripts rely on.

ntfy's subscriber splits a stream into lines the way matter-server's connection splits one into
messages, which MatterLink covers; the rest of it is one call of libcurl. The webface
sessions decide who may log in, which is no question of this project. netblink, autonight and
xmdp are one loop each; `hisi-gpio`, `lshell`, `rcjoystick` and `i2c-telemetry` are device
I/O, and the shims forward calls. Boot scripts, build scripts, recipes, board configurations
and binaries are outside the programs' logic, and vendored sources (comgt, cJSON, the MAVLink
headers), most of the C code in the tree, are not the project's own.
