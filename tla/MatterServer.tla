---------------------------- MODULE MatterServer ----------------------------
(***************************************************************************)
(* general/package/matter/src/matter-server.c: the accept loop of main(),  *)
(* a thread for each connection (client_thread, dispatch_packet and the    *)
(* command handlers), the motion thread and the signal handler.            *)
(*                                                                         *)
(* How a connection's bytes become messages is MatterLink; here a          *)
(* connection gives its messages one by one.  A request is what            *)
(* dispatch_packet's scan of the payload finds: an operation and a value.  *)
(***************************************************************************)
EXTENDS Naturals, Sequences, FiniteSets

CONSTANTS
    Conns,       \* the connections controllers make
    None,        \* no connection
    MAX_CLIENTS,
    Requests,    \* the requests of the controllers: a set of records [op, arg]
    LabelSize,   \* sizeof(node_label); 64 in the code
    Label0,      \* MATTER_NODE_LABEL of matter.conf
    MaxRequests, \* bound: requests of a connection
    MaxFaults    \* bound: failures of accept, malloc or pthread_create

ASSUME ClientsAssumption ==
    MAX_CLIENTS \in Nat \ {0} /\ IsFiniteSet(Conns) /\ None \notin Conns
ASSUME RequestsAssumption ==
    /\ None \notin Requests
    /\ \A r \in Requests : /\ r.op = "level" => r.arg \in 0..255
                           /\ r.op = "label" => r.arg \in Seq(Nat)
ASSUME LabelAssumption ==
    LabelSize \in Nat \ {0} /\ Label0 \in Seq(Nat) /\ Len(Label0) < LabelSize
ASSUME BoundsAssumption == MaxRequests \in Nat /\ MaxFaults \in Nat

VARIABLES
    pc,        \* main()
    cur,       \* cli_fd's connection
    conn,      \* of each connection: where it and its thread are
    left,      \* of each connection: requests it may still make
    req,       \* of each connection: the request its thread is at
    seen,      \* of each connection: the camera as its handler read it
    active,    \* g_active_clients
    lock,      \* the owner of g_clients_lock
    camera,    \* g_camera
    camLock,   \* the owner of g_camera.lock
    written,   \* the last label a WriteRequest was answered with success for
    running,   \* g_running
    listening, \* g_server_fd >= 0
    faults

mainVars == <<pc, cur, faults>>
cameraVars == <<req, seen, camera, camLock, written, left>>
stopVars == <<running, listening>>
vars == <<mainVars, conn, active, lock, cameraVars, stopVars>>

-----------------------------------------------------------------------------
(* The camera and what a request does to it *)

\* A character buffer with s at its start, the rest as it was.
Overlay(buf, s) == [i \in 1..LabelSize |-> IF i <= Len(s) THEN s[i] ELSE buf[i]]
Nul == 0
Blank == [i \in 1..LabelSize |-> Nul]

CameraInit ==
    [streaming |-> FALSE, brightness |-> 127, motion |-> FALSE,
     label |-> Overlay(Blank, Label0)]

\* copy_len, the memcpy and the last byte.  The payload is a length and the text.
LabelText_Off(payload) == payload  \* mutant: copies from the length byte on
LabelText(payload) == Tail(payload)
Fits(payload) == Len(payload) > 1 /\ Head(payload) <= Len(Tail(payload))
Copied(payload) ==
    SubSeq(LabelText(payload), 1,
           IF Head(payload) < LabelSize - 1 THEN Head(payload) ELSE LabelSize - 1)
WriteLabel(buf, payload) ==
    IF Fits(payload) THEN [Overlay(buf, Copied(payload)) EXCEPT ![LabelSize] = Nul] ELSE buf

\* handle_onoff_command, handle_level_command and the branches of WriteRequest;
\* every other request leaves these alone.
Effect(cam, r) ==
    CASE r.op = "on"     -> [cam EXCEPT !.streaming = TRUE]
      [] r.op = "off"    -> [cam EXCEPT !.streaming = FALSE]
      [] r.op = "toggle" -> [cam EXCEPT !.streaming = ~@]
      [] r.op = "write"  -> [cam EXCEPT !.streaming = r.arg # 0]
      [] r.op = "level"  -> [cam EXCEPT !.brightness = r.arg]
      [] r.op = "label"  -> [cam EXCEPT !.label = WriteLabel(@, r.arg)]
      [] OTHER           -> cam

\* Too short, an unknown protocol or opcode: no answer.
Answered(r) == r.op # "unknown"

\* What a ReadRequest of the label answers: tlv_put_utf8 stops at the first NUL.
Shown(buf) ==
    LET end == CHOOSE i \in 1..LabelSize :
                   buf[i] = Nul /\ \A j \in 1..(i - 1) : buf[j] # Nul
    IN  SubSeq(buf, 1, end - 1)

-----------------------------------------------------------------------------
Init ==
    /\ pc = "while" /\ cur = None /\ faults = 0
    /\ conn = [c \in Conns |-> "none"]
    /\ left = [c \in Conns |-> MaxRequests]
    /\ req = [c \in Conns |-> None] /\ seen = [c \in Conns |-> None]
    /\ active = 0 /\ lock = None
    /\ camera = CameraInit /\ camLock = None /\ written = None
    /\ running = TRUE /\ listening = TRUE

Backlog == {c \in Conns : conn[c] = "backlog"}
Alive == pc # "gone"

\* A controller connects; the kernel queues it.
Connect(c) ==
    /\ Alive /\ listening /\ conn[c] = "none"
    /\ conn' = [conn EXCEPT ![c] = "backlog"]
    /\ UNCHANGED <<mainVars, active, lock, cameraVars, stopVars>>

\* SIGINT or SIGTERM, in any thread: closes the listening socket.
SigHandler ==
    /\ Alive /\ running
    /\ running' = FALSE /\ listening' = FALSE
    /\ conn' = [c \in Conns |-> IF conn[c] = "backlog" THEN "over" ELSE conn[c]]
    /\ UNCHANGED <<mainVars, active, lock, cameraVars>>

-----------------------------------------------------------------------------
(* main(): the accept loop *)

While ==
    /\ pc = "while"
    /\ pc' = IF running THEN "select" ELSE "exit"
    /\ UNCHANGED <<cur, faults, conn, active, lock, cameraVars, stopVars>>

\* Ready: a connection, or a socket that was shut down.  Otherwise the timeout of
\* a second, a signal, or a descriptor of -1 that select never looks at.
Select ==
    /\ pc = "select"
    /\ \/ (Backlog # {} \/ ~listening) /\ pc' = "accept"
       \/ (Backlog = {} \/ ~listening) /\ pc' = "while"
    /\ UNCHANGED <<cur, faults, conn, active, lock, cameraVars, stopVars>>

Accept ==
    /\ pc = "accept" /\ listening
    /\ \E c \in Backlog :
          /\ cur' = c
          /\ conn' = [conn EXCEPT ![c] = "hand"]
    /\ pc' = "limit"
    /\ UNCHANGED <<faults, active, lock, cameraVars, stopVars>>

\* EBADF or EINTR: leave the loop.
AcceptStops ==
    /\ pc = "accept" /\ ~listening
    /\ pc' = "exit"
    /\ UNCHANGED <<cur, faults, conn, active, lock, cameraVars, stopVars>>

\* Any other error: again.
AcceptFails ==
    /\ pc = "accept" /\ faults < MaxFaults
    /\ faults' = faults + 1 /\ pc' = "while"
    /\ UNCHANGED <<cur, conn, active, lock, cameraVars, stopVars>>

LockClients ==
    /\ pc = "limit" /\ lock = None
    /\ lock' = "main" /\ pc' = "locked"
    /\ UNCHANGED <<cur, faults, conn, active, cameraVars, stopVars>>

Full_Late == active > MAX_CLIENTS  \* mutant: one too many
Full == active >= MAX_CLIENTS

Unlock_No == lock' = lock  \* mutant: the lock stays taken
Unlock == lock' = None

Reject ==
    /\ pc = "locked" /\ Full
    /\ Unlock
    /\ pc' = "drop"
    /\ UNCHANGED <<cur, faults, conn, active, cameraVars, stopVars>>

Count ==
    /\ pc = "locked" /\ ~Full
    /\ active' = active + 1 /\ Unlock
    /\ pc' = "spawn"
    /\ UNCHANGED <<cur, faults, conn, cameraVars, stopVars>>

\* pthread_create.
Spawn ==
    /\ pc = "spawn"
    /\ conn' = [conn EXCEPT ![cur] = "recv"]
    /\ cur' = None /\ pc' = "while"
    /\ UNCHANGED <<faults, active, lock, cameraVars, stopVars>>

\* malloc or pthread_create fails: the slot is given back.
Uncount == active - 1

SpawnFails ==
    /\ pc = "spawn" /\ faults < MaxFaults /\ lock = None
    /\ faults' = faults + 1
    /\ active' = Uncount
    /\ pc' = "drop"
    /\ UNCHANGED <<cur, conn, lock, cameraVars, stopVars>>

\* close(cli_fd)
Drop ==
    /\ pc = "drop"
    /\ conn' = [conn EXCEPT ![cur] = "over"]
    /\ cur' = None /\ pc' = "while"
    /\ UNCHANGED <<faults, active, lock, cameraVars, stopVars>>

\* main() returns: the process ends with every thread it has.
Exit ==
    /\ pc = "exit"
    /\ pc' = "gone" /\ cur' = None
    /\ conn' = [c \in Conns |-> "over"]
    /\ UNCHANGED <<faults, active, lock, cameraVars, stopVars>>

-----------------------------------------------------------------------------
(* client_thread(c) *)

\* A message: dispatch_packet looks at it and its handler takes the lock.
CameraFree_Any == TRUE  \* mutant: no lock
CameraFree == camLock = None

Handle(c) ==
    /\ Alive /\ conn[c] = "recv" /\ left[c] > 0
    /\ left' = [left EXCEPT ![c] = @ - 1]
    /\ \E r \in Requests :
          IF Answered(r)
          THEN /\ CameraFree /\ camLock' = c
               /\ req' = [req EXCEPT ![c] = r]
               /\ seen' = [seen EXCEPT ![c] = camera]
               /\ conn' = [conn EXCEPT ![c] = "handle"]
          ELSE UNCHANGED <<camLock, req, seen, conn>>
    /\ UNCHANGED <<mainVars, active, lock, camera, written, stopVars>>

Apply(c) ==
    /\ Alive /\ conn[c] = "handle"
    /\ camera' = Effect(seen[c], req[c])
    /\ written' = IF req[c].op = "label" /\ Fits(req[c].arg)
                  THEN SubSeq(Tail(req[c].arg), 1, Head(req[c].arg)) ELSE written
    /\ camLock' = None
    /\ seen' = [seen EXCEPT ![c] = None]
    /\ conn' = [conn EXCEPT ![c] = "send"]
    /\ UNCHANGED <<mainVars, left, req, active, lock, stopVars>>

\* send_framed, which a controller that does not read holds up; the loop goes on
\* when it fails, too.
Send(c) ==
    /\ Alive /\ conn[c] = "send"
    /\ conn' = [conn EXCEPT ![c] = "recv"]
    /\ req' = [req EXCEPT ![c] = None]
    /\ UNCHANGED <<mainVars, left, seen, camera, camLock, written, active, lock, stopVars>>

\* The loop ends: recv() returns 0, fails or times out, the length is invalid, or
\* g_running is 0.  close(fd).
Close(c) ==
    /\ Alive /\ conn[c] = "recv"
    /\ conn' = [conn EXCEPT ![c] = "closed"]
    /\ UNCHANGED <<mainVars, active, lock, cameraVars, stopVars>>

Leave_Twice == active' = IF active > 1 THEN active - 2 ELSE 0  \* mutant: two slots go
Leave == active' = active - 1

Uncounts(c) ==
    /\ Alive /\ conn[c] = "closed" /\ lock = None
    /\ Leave
    /\ conn' = [conn EXCEPT ![c] = "over"]
    /\ UNCHANGED <<mainVars, lock, cameraVars, stopVars>>

-----------------------------------------------------------------------------
\* motion_sim_thread
Motion ==
    /\ Alive /\ running /\ CameraFree
    /\ \E m \in BOOLEAN : camera' = [camera EXCEPT !.motion = m]
    /\ UNCHANGED <<mainVars, conn, active, lock, req, seen, camLock, written, left, stopVars>>

Main ==
    \/ While \/ Select \/ Accept \/ AcceptStops \/ AcceptFails \/ LockClients
    \/ Reject \/ Count \/ Spawn \/ SpawnFails \/ Drop \/ Exit

Thread(c) == Handle(c) \/ Apply(c) \/ Send(c) \/ Close(c) \/ Uncounts(c)

Next ==
    \/ Main \/ SigHandler \/ Motion
    \/ \E c \in Conns : Connect(c) \/ Thread(c)

\* The main thread runs, and so does a client thread that holds a lock or ends.
\* Nothing is assumed of a thread that waits for its controller.
Spec ==
    /\ Init /\ [][Next]_vars
    /\ WF_vars(Main)
    /\ \A c \in Conns : WF_vars(Apply(c)) /\ WF_vars(Uncounts(c))

-----------------------------------------------------------------------------
(* Properties *)

Buffer == [1..LabelSize -> Nat]
Camera == [streaming : BOOLEAN, brightness : 0..255, motion : BOOLEAN, label : Buffer]

TypeOK ==
    /\ pc \in {"while", "select", "accept", "limit", "locked", "spawn", "drop", "exit", "gone"}
    /\ cur \in Conns \cup {None}
    /\ conn \in [Conns -> {"none", "backlog", "hand", "recv", "handle", "send", "closed", "over"}]
    /\ left \in [Conns -> 0..MaxRequests]
    /\ req \in [Conns -> Requests \cup {None}]
    /\ \A c \in Conns : seen[c] # None => seen[c] \in Camera
    /\ active \in 0..MAX_CLIENTS
    /\ lock \in {None, "main"}
    /\ camera \in Camera
    /\ camLock \in Conns \cup {None}
    /\ running \in BOOLEAN /\ listening \in BOOLEAN
    /\ faults \in 0..MaxFaults

\* g_active_clients counts exactly the threads that have not ended and the
\* connection main() is about to start one for, whatever failed on the way: no slot
\* is lost, none given back twice.
Threads == {c \in Conns : conn[c] \in {"recv", "handle", "send", "closed"}}
SlotsCounted ==
    Alive => active = Cardinality(Threads) + (IF pc = "spawn" THEN 1 ELSE 0)

\* Controllers and the motion thread change the camera one at a time: every change
\* is a whole command applied to the camera as it is, so no toggle is lost.
CommandsAreAtomic ==
    [][\/ \E c \in Conns : req[c] # None /\ camera' = Effect(camera, req[c])
       \/ camera' = [camera EXCEPT !.motion = camera'.motion]]_camera

\* A label that was written is what the label begins with.
Truncated(s) == SubSeq(s, 1, IF Len(s) < LabelSize THEN Len(s) ELSE LabelSize - 1)
LabelBegins ==
    written # None =>
        SubSeq(camera.label, 1, Len(Truncated(written))) = Truncated(written)

\* A label that was written is what a read of the label answers.
LabelReadsBack == written # None => Shown(camera.label) = Truncated(written)

\* After a signal main() returns, whatever the threads wait for.
Stops == ~running ~> pc = "gone"
=============================================================================
