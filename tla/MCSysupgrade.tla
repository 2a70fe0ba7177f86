---------------------------- MODULE MCSysupgrade ----------------------------
(* Instances of Sysupgrade for TLC. *)
EXTENDS Sysupgrade

Img(soc, ver, fit, intact) == [soc |-> soc, ver |-> ver, fit |-> fit, intact |-> intact]

MCFactory == Img("mine", "v1", FALSE, TRUE)

\* An option record with everything off.
Off == [list |-> FALSE, kernel |-> FALSE, rootfs |-> FALSE, wipe |-> FALSE,
        noreboot |-> FALSE, force |-> FALSE, web |-> FALSE, silent |-> FALSE,
        selfupdate |-> FALSE, remote |-> FALSE, kfile |-> None, rfile |-> None]

Full == [Off EXCEPT !.kernel = TRUE, !.rootfs = TRUE, !.remote = TRUE]
NewFile == Img("mine", "v2", FALSE, TRUE)

MCRequests ==
    { Full,
      [Full EXCEPT !.noreboot = TRUE, !.selfupdate = TRUE],
      [Full EXCEPT !.web = TRUE, !.wipe = TRUE],
      [Full EXCEPT !.rfile = NewFile],
      [Full EXCEPT !.remote = FALSE, !.kfile = NewFile, !.rfile = Absent],
      [Full EXCEPT !.remote = FALSE, !.kfile = NewFile, !.rfile = NewFile],
      [Off EXCEPT !.rootfs = TRUE, !.remote = TRUE, !.force = TRUE, !.silent = TRUE],
      [Off EXCEPT !.list = TRUE, !.noreboot = TRUE],
      [Off EXCEPT !.list = TRUE] }

\* Two updates without a reboot between them, to two builds.
Split(kernel, rootfs) == [kernel |-> kernel, rootfs |-> rootfs, firmware |-> None]
Blob(image) == [kernel |-> None, rootfs |-> None, firmware |-> image]
TwiceRequests == {[Full EXCEPT !.noreboot = TRUE]}
TwiceArchives == {Split(Img("mine", v, FALSE, TRUE), Img("mine", v, FALSE, TRUE)) : v \in {"v1", "v2"}}
SplitCamera == {[layout |-> "split", probes |-> TRUE]}

\* One full update, as a user starts it.
PlainRequests == {Full}

MCCameras == {[layout |-> "split", probes |-> TRUE], [layout |-> "single", probes |-> FALSE]}

\* A new build, another camera's, a damaged one, one without its root file system,
\* and combined blobs of another camera and of this one.
MCArchives ==
    { Split(NewFile, NewFile),
      Split(Img("other", "v2", FALSE, TRUE), Img("other", "v2", FALSE, TRUE)),
      Split(Img("mine", "v2", FALSE, FALSE), Img("mine", "v2", FALSE, FALSE)),
      Split(NewFile, None),
      Blob(Img("other", "v2", TRUE, TRUE)),
      Blob(Img("mine", "v3", TRUE, TRUE)) }
=============================================================================
