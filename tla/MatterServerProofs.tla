------------------------- MODULE MatterServerProofs -------------------------
(***************************************************************************)
(* Theorems about MatterServer, for any connections, any limit of them and *)
(* any requests.                                                           *)
(***************************************************************************)
EXTENDS MatterServer, FiniteSetTheorems, TLAPS

(***************************************************************************)
(* Types.  The slot counter is bounded by SlotsInv below, not by its type. *)
(***************************************************************************)
Places == {"while", "select", "accept", "limit", "locked", "spawn", "drop", "exit", "gone"}
States == {"none", "backlog", "hand", "recv", "handle", "send", "closed", "over"}

MainType ==
    /\ pc \in Places
    /\ cur \in Conns \cup {None}
    /\ conn \in [Conns -> States]
    /\ active \in Int
    /\ lock \in {None, "main"}
    /\ running \in BOOLEAN /\ listening \in BOOLEAN
    /\ faults \in 0..MaxFaults

CameraType ==
    /\ left \in [Conns -> 0..MaxRequests]
    /\ req \in [Conns -> Requests \cup {None}]
    /\ seen \in [Conns -> Camera \cup {None}]
    /\ camera \in Camera
    /\ camLock \in Conns \cup {None}

\* Who is at work on the camera: its owner, alone, with the camera as it is.
HandlerInv ==
    \A c \in Conns : conn[c] = "handle" =>
        camLock = c /\ seen[c] = camera /\ req[c] \in Requests

LEMMA BufferType ==
    ASSUME NEW buf \in Buffer, NEW s \in Seq(Nat)
    PROVE  Overlay(buf, s) \in Buffer
<1>1. \A i \in 1..LabelSize : i <= Len(s) => s[i] \in Nat
    BY LabelAssumption
<1> QED
    BY <1>1 DEF Overlay, Buffer

LEMMA LabelType ==
    ASSUME NEW buf \in Buffer, NEW payload \in Seq(Nat)
    PROVE  WriteLabel(buf, payload) \in Buffer
<1>1. CASE Fits(payload)
    <2>1. Len(payload) > 1 /\ Tail(payload) \in Seq(Nat) /\ Head(payload) \in Nat
          /\ Head(payload) <= Len(Tail(payload))
        BY <1>1 DEF Fits
    <2> DEFINE n == IF Head(payload) < LabelSize - 1 THEN Head(payload) ELSE LabelSize - 1
    <2>2. n \in Nat /\ n <= Len(Tail(payload))
        BY <2>1, LabelAssumption
    <2> HIDE DEF n
    <2>3. SubSeq(Tail(payload), 1, n) \in Seq(Nat)
        <3> DEFINE t == Tail(payload)
        <3>1. t \in Seq(Nat) /\ n \in Nat /\ n <= Len(t)
            BY <2>1, <2>2
        <3> HIDE DEF t
        <3>2. SubSeq(t, 1, n) \in Seq(Nat)
            BY <3>1
        <3> QED
            BY <3>2 DEF t
    <2>4. Copied(payload) \in Seq(Nat)
        BY <2>3 DEF Copied, LabelText, n
    <2>5. Overlay(buf, Copied(payload)) \in Buffer
        BY <2>4, BufferType
    <2> HIDE DEF n
    <2>6. [Overlay(buf, Copied(payload)) EXCEPT ![LabelSize] = Nul] \in Buffer
        BY <2>5, LabelAssumption DEF Buffer, Nul
    <2> QED
        BY <1>1, <2>6 DEF WriteLabel
<1>2. CASE ~Fits(payload)
    BY <1>2 DEF WriteLabel
<1> QED
    BY <1>1, <1>2

\* A request turns one camera into another.
LEMMA EffectType ==
    ASSUME NEW cam \in Camera, NEW r \in Requests
    PROVE  Effect(cam, r) \in Camera
<1>1. cam.label \in Buffer
    BY DEF Camera
<1>2. \A b \in BOOLEAN : [cam EXCEPT !.streaming = b] \in Camera
    BY Zenon DEF Camera
<1>3. \A n \in 0..255 : [cam EXCEPT !.brightness = n] \in Camera
    BY Zenon DEF Camera
<1>4. r.op = "label" => WriteLabel(cam.label, r.arg) \in Buffer
    BY <1>1, LabelType, RequestsAssumption
<1>5. \A l \in Buffer : [cam EXCEPT !.label = l] \in Camera
    BY Zenon DEF Camera
<1>6. (r.arg # 0) \in BOOLEAN /\ (~cam.streaming) \in BOOLEAN
    OBVIOUS
<1>7. CASE r.op = "on"
    BY <1>2, <1>7 DEF Effect
<1>8. CASE r.op = "off"
    BY <1>2, <1>8 DEF Effect
<1>9. CASE r.op = "toggle"
    <2>1. Effect(cam, r) = [cam EXCEPT !.streaming = ~cam.streaming]
        BY <1>9 DEF Effect
    <2> QED
        BY <1>2, <1>6, <2>1, Zenon
<1>10. CASE r.op = "write"
    <2>1. Effect(cam, r) = [cam EXCEPT !.streaming = r.arg # 0]
        BY <1>10 DEF Effect
    <2> QED
        BY <1>2, <1>6, <2>1, Zenon
<1>11. CASE r.op = "level"
    BY <1>3, <1>11, RequestsAssumption DEF Effect
<1>12. CASE r.op = "label"
    BY <1>4, <1>5, <1>12 DEF Effect
<1>13. CASE r.op \notin {"on", "off", "toggle", "write", "level", "label"}
    BY <1>13 DEF Effect
<1> QED
    BY <1>7, <1>8, <1>9, <1>10, <1>11, <1>12, <1>13

-----------------------------------------------------------------------------
LEMMA InitTypes == Init => MainType /\ CameraType /\ HandlerInv
<1> SUFFICES ASSUME Init PROVE MainType /\ CameraType /\ HandlerInv
    OBVIOUS
<1>1. MainType
    BY BoundsAssumption DEF Init, MainType, Places, States
<1>2. Blank \in Buffer
    BY DEF Blank, Buffer, Nul
<1>3. Overlay(Blank, Label0) \in Buffer
    BY <1>2, BufferType, LabelAssumption
<1>4. CameraInit \in Camera
    BY <1>3 DEF CameraInit, Camera
<1>5. CameraType
    BY <1>4, BoundsAssumption DEF Init, CameraType
<1>6. HandlerInv
    BY DEF Init, HandlerInv
<1> QED
    BY <1>1, <1>5, <1>6

LEMMA StepMainType == MainType /\ [Next]_vars => MainType'
<1> SUFFICES ASSUME MainType, [Next]_vars PROVE MainType'
    OBVIOUS
<1> USE DEF MainType, Places, States
<1>1. CASE While \/ Select \/ AcceptStops \/ LockClients \/ Reject \/ Count
    BY <1>1 DEF While, Select, AcceptStops, LockClients, Reject, Count, Unlock, stopVars, mainVars
<1>2. CASE Accept
    BY <1>2 DEF Accept, Backlog, stopVars
<1>3. CASE AcceptFails \/ SpawnFails
    BY <1>3, BoundsAssumption DEF AcceptFails, SpawnFails, Uncount, stopVars
<1>4. CASE Spawn \/ Drop \/ Exit
    BY <1>4 DEF Spawn, Drop, Exit, stopVars
<1>5. CASE SigHandler \/ Motion
    BY <1>5 DEF SigHandler, Motion, mainVars, stopVars
<1>6. ASSUME NEW c \in Conns, Connect(c) \/ Thread(c) PROVE MainType'
    BY <1>6 DEF Connect, Thread, Handle, Apply, Send, Close, Uncounts, Leave, mainVars, stopVars
<1>7. CASE UNCHANGED vars
    BY <1>7 DEF vars, mainVars, stopVars
<1> QED
    BY <1>1, <1>2, <1>3, <1>4, <1>5, <1>6, <1>7 DEF Next, Main

\* main() and the signal handler leave the camera and its handlers alone.
LEMMA MainKeepsCamera ==
    ASSUME CameraType, HandlerInv, UNCHANGED cameraVars,
           \A c \in Conns : conn'[c] = "handle" => conn[c] = "handle"
    PROVE  CameraType' /\ HandlerInv'
BY DEF CameraType, HandlerInv, cameraVars

LEMMA StepCamera == MainType /\ CameraType /\ HandlerInv /\ [Next]_vars => CameraType' /\ HandlerInv'
<1> SUFFICES ASSUME MainType, CameraType, HandlerInv, [Next]_vars PROVE CameraType' /\ HandlerInv'
    OBVIOUS
<1>1. CASE Main \/ SigHandler \/ \E c \in Conns : Connect(c) \/ Close(c) \/ Uncounts(c)
    <2>1. UNCHANGED cameraVars
        BY <1>1 DEF Main, While, Select, Accept, AcceptStops, AcceptFails, LockClients, Reject,
           Count, Spawn, SpawnFails, Drop, Exit, SigHandler, Connect, Close, Uncounts
    <2>2. \A c \in Conns : conn'[c] = "handle" => conn[c] = "handle"
        BY <1>1 DEF MainType, Main, While, Select, Accept, AcceptStops, AcceptFails, LockClients,
           Reject, Count, Spawn, SpawnFails, Drop, Exit, SigHandler, Connect, Close, Uncounts
    <2> QED
        BY <2>1, <2>2, MainKeepsCamera
<1>2. CASE Motion
    <2>1. camLock = None /\ \A c \in Conns : conn[c] # "handle"
        BY <1>2, ClientsAssumption DEF Motion, CameraFree, HandlerInv
    <2>2. camera' \in Camera
        <3>1. \A m \in BOOLEAN : [camera EXCEPT !.motion = m] \in Camera
            BY Zenon DEF CameraType, Camera
        <3> QED
            BY <1>2, <3>1 DEF Motion
    <2> QED
        BY <1>2, <2>1, <2>2 DEF Motion, CameraType, HandlerInv
<1>3. ASSUME NEW c \in Conns, Handle(c) PROVE CameraType' /\ HandlerInv'
    <2>1. PICK r \in Requests :
              IF Answered(r)
              THEN /\ CameraFree /\ camLock' = c
                   /\ req' = [req EXCEPT ![c] = r]
                   /\ seen' = [seen EXCEPT ![c] = camera]
                   /\ conn' = [conn EXCEPT ![c] = "handle"]
              ELSE UNCHANGED <<camLock, req, seen, conn>>
        BY <1>3 DEF Handle
    <2>2. camera' = camera /\ left[c] > 0 /\ left' = [left EXCEPT ![c] = @ - 1]
        BY <1>3 DEF Handle
    <2>3. left' \in [Conns -> 0..MaxRequests]
        BY <2>2, BoundsAssumption DEF CameraType
    <2>4. CASE Answered(r)
        <3>1. camLock = None /\ \A d \in Conns : conn[d] # "handle"
            BY <2>1, <2>4, ClientsAssumption DEF CameraFree, HandlerInv
        <3>2. CameraType'
            BY <2>1, <2>2, <2>3, <2>4 DEF CameraType
        <3>3. \A d \in Conns : conn'[d] = "handle" => d = c
            BY <2>1, <2>4, <3>1 DEF MainType
        <3>4. camLock' = c /\ seen'[c] = camera /\ req'[c] = r
            BY <2>1, <2>4 DEF CameraType
        <3> QED
            BY <2>2, <3>2, <3>3, <3>4 DEF HandlerInv
    <2>5. CASE ~Answered(r)
        BY <2>1, <2>2, <2>3, <2>5 DEF CameraType, HandlerInv
    <2> QED
        BY <2>4, <2>5
<1>4. ASSUME NEW c \in Conns, Apply(c) PROVE CameraType' /\ HandlerInv'
    <2>1. conn[c] = "handle" /\ camera' = Effect(seen[c], req[c])
        BY <1>4 DEF Apply
    <2>2. camLock = c /\ seen[c] = camera /\ req[c] \in Requests
        BY <2>1 DEF HandlerInv
    <2>3. camera' \in Camera
        BY <2>1, <2>2, EffectType DEF CameraType
    <2>4. \A d \in Conns : conn'[d] # "handle"
        BY <1>4, <2>2 DEF Apply, HandlerInv, MainType
    <2> QED
        BY <1>4, <2>3, <2>4 DEF Apply, CameraType, HandlerInv
<1>5. ASSUME NEW c \in Conns, Send(c) PROVE CameraType' /\ HandlerInv'
    BY <1>5 DEF Send, CameraType, HandlerInv, MainType
<1>6. CASE UNCHANGED vars
    BY <1>6, MainKeepsCamera DEF vars
<1> QED
    BY <1>1, <1>2, <1>3, <1>4, <1>5, <1>6 DEF Next, Thread

\* Every change of the camera is one whole command applied to the camera as it is,
\* whichever connections and the motion thread meet in it.
THEOREM CameraIsAtomic == Spec => CommandsAreAtomic
<1> DEFINE Step ==
        \/ \E c \in Conns : req[c] # None /\ camera' = Effect(camera, req[c])
        \/ camera' = [camera EXCEPT !.motion = camera'.motion]
<1>1. MainType /\ CameraType /\ HandlerInv /\ [Next]_vars => [Step]_camera
    <2> SUFFICES ASSUME MainType, CameraType, HandlerInv, [Next]_vars, camera' # camera
                 PROVE  Step
        OBVIOUS
    <2>1. Motion \/ \E c \in Conns : Apply(c)
        BY DEF Next, Main, While, Select, Accept, AcceptStops, AcceptFails, LockClients, Reject,
           Count, Spawn, SpawnFails, Drop, Exit, SigHandler, Connect, Thread, Handle, Send, Close,
           Uncounts, cameraVars, vars
    <2>2. ASSUME NEW c \in Conns, Apply(c) PROVE Step
        <3>1. seen[c] = camera /\ req[c] # None /\ camera' = Effect(seen[c], req[c])
            BY <2>2, RequestsAssumption DEF Apply, HandlerInv
        <3> QED
            BY <3>1
    <2>3. CASE Motion
        <3>1. PICK m \in BOOLEAN : camera' = [camera EXCEPT !.motion = m]
            BY <2>3 DEF Motion
        <3>2. [camera EXCEPT !.motion = m].motion = m
            BY Zenon DEF CameraType, Camera
        <3> QED
            BY <3>1, <3>2, Zenon
    <2> QED
        BY <2>1, <2>2, <2>3
<1>2. Init /\ [][Next]_vars => [][Step]_camera
    <2> HIDE DEF Step
    <2> QED
        BY <1>1, InitTypes, StepMainType, StepCamera, PTL
<1> QED
    BY <1>2, PTL DEF Spec, CommandsAreAtomic

(***************************************************************************)
(* Slots.  Between accept() and its end a connection is in the hands of    *)
(* main() and is no thread yet.                                            *)
(***************************************************************************)
HandInv ==
    pc \in {"limit", "locked", "spawn", "drop"} => cur \in Conns /\ conn[cur] = "hand"

SlotsInv == MainType /\ HandInv /\ SlotsCounted /\ active \in 0..MAX_CLIENTS

LEMMA ThreadsFinite == IsFiniteSet(Threads) /\ Cardinality(Threads) \in Nat
BY FS_Subset, FS_CardinalityType, ClientsAssumption DEF Threads

\* A step that starts or ends no thread.
LEMMA SameThreads ==
    ASSUME SlotsInv, MainType', Threads' = Threads, active' = active, Alive' => Alive,
           pc = "spawn" <=> pc' = "spawn",
           HandInv'
    PROVE  SlotsInv'
BY DEF SlotsInv, SlotsCounted

LEMMA StepSlots == SlotsInv /\ [Next]_vars => SlotsInv'
<1> SUFFICES ASSUME SlotsInv, [Next]_vars PROVE SlotsInv'
    OBVIOUS
<1>1. MainType /\ MainType'
    BY StepMainType DEF SlotsInv
<1> USE DEF Alive
<1>2. CASE While \/ Select \/ AcceptStops \/ AcceptFails \/ LockClients \/ Reject
    <2>1. conn' = conn /\ active' = active /\ cur' = cur
        BY <1>2 DEF While, Select, AcceptStops, AcceptFails, LockClients, Reject
    <2>2. HandInv'
        BY <1>2, <2>1 DEF SlotsInv, HandInv, While, Select, AcceptStops, AcceptFails, LockClients,
           Reject
    <2>3. pc # "spawn" /\ pc' # "spawn" /\ pc # "gone"
        BY <1>2 DEF While, Select, AcceptStops, AcceptFails, LockClients, Reject
    <2>4. Threads' = Threads
        BY <2>1 DEF Threads
    <2> QED
        BY <1>1, <2>1, <2>2, <2>3, <2>4, SameThreads
<1>3. CASE Accept
    <2>1. PICK c \in Backlog : cur' = c /\ conn' = [conn EXCEPT ![c] = "hand"]
        BY <1>3 DEF Accept
    <2>2. c \in Conns /\ conn[c] = "backlog"
        BY <2>1 DEF Backlog
    <2>3. Threads' = Threads
        BY <1>1, <2>1, <2>2 DEF Threads, MainType
    <2>4. HandInv'
        BY <1>1, <2>1, <2>2 DEF HandInv, MainType
    <2>5. pc = "accept" /\ pc' = "limit" /\ active' = active
        BY <1>3 DEF Accept
    <2> QED
        BY <1>1, <2>3, <2>4, <2>5, SameThreads
<1>4. CASE Count
    <2>1. pc = "locked" /\ pc' = "spawn" /\ active' = active + 1 /\ conn' = conn /\ cur' = cur
        BY <1>4 DEF Count
    <2>2. active < MAX_CLIENTS
        BY <1>1, <1>4, ClientsAssumption DEF Count, Full, MainType
    <2>3. Threads' = Threads
        BY <2>1 DEF Threads
    <2>4. active = Cardinality(Threads)
        BY <2>1, ThreadsFinite DEF SlotsInv, SlotsCounted
    <2>5. active' = Cardinality(Threads') + 1
        BY <2>1, <2>3, <2>4
    <2>6. active' \in 0..MAX_CLIENTS
        BY <2>1, <2>2, ClientsAssumption DEF SlotsInv
    <2>7. HandInv'
        BY <2>1 DEF SlotsInv, HandInv
    <2> QED
        BY <1>1, <2>1, <2>5, <2>6, <2>7 DEF SlotsInv, SlotsCounted
<1>5. CASE Spawn
    <2>1. /\ pc = "spawn" /\ pc' = "while" /\ active' = active
          /\ conn' = [conn EXCEPT ![cur] = "recv"]
          /\ cur \in Conns /\ conn[cur] = "hand"
        BY <1>5 DEF Spawn, SlotsInv, HandInv
    <2>2. Threads' = Threads \cup {cur} /\ cur \notin Threads
        BY <1>1, <2>1 DEF Threads, MainType
    <2>3. Cardinality(Threads') = Cardinality(Threads) + 1
        BY <2>2, ThreadsFinite, FS_AddElement
    <2>4. active = Cardinality(Threads) + 1
        BY <2>1 DEF SlotsInv, SlotsCounted
    <2>5. SlotsCounted'
        BY <2>1, <2>3, <2>4, ThreadsFinite DEF SlotsCounted
    <2> QED
        BY <1>1, <2>1, <2>5 DEF SlotsInv, HandInv
<1>6. CASE SpawnFails
    <2>1. /\ pc = "spawn" /\ pc' = "drop" /\ active' = active - 1
          /\ conn' = conn /\ cur' = cur
        BY <1>6 DEF SpawnFails, Uncount
    <2>2. active = Cardinality(Threads) + 1
        BY <2>1 DEF SlotsInv, SlotsCounted
    <2>3. Threads' = Threads
        BY <2>1 DEF Threads
    <2>4. active' \in 0..MAX_CLIENTS
        BY <2>1, <2>2, ThreadsFinite, ClientsAssumption DEF SlotsInv
    <2>5. SlotsCounted'
        BY <2>1, <2>2, <2>3, ThreadsFinite DEF SlotsCounted
    <2> QED
        BY <1>1, <2>1, <2>4, <2>5 DEF SlotsInv, HandInv
<1>7. CASE Drop
    <2>1. /\ pc = "drop" /\ pc' = "while" /\ active' = active
          /\ conn' = [conn EXCEPT ![cur] = "over"]
          /\ cur \in Conns /\ conn[cur] = "hand"
        BY <1>7 DEF Drop, SlotsInv, HandInv
    <2>2. Threads' = Threads
        BY <1>1, <2>1 DEF Threads, MainType
    <2> QED
        BY <1>1, <2>1, <2>2, SameThreads DEF HandInv
<1>8. CASE Exit
    BY <1>1, <1>8 DEF Exit, SlotsInv, SlotsCounted, HandInv
<1>9. CASE SigHandler
    <2>1. /\ UNCHANGED <<pc, cur, active>>
          /\ conn' = [c \in Conns |-> IF conn[c] = "backlog" THEN "over" ELSE conn[c]]
        BY <1>9 DEF SigHandler, mainVars
    <2>2. Threads' = Threads
        BY <2>1 DEF Threads
    <2>3. HandInv'
        BY <2>1 DEF SlotsInv, HandInv
    <2> QED
        BY <1>1, <2>1, <2>2, <2>3, SameThreads
<1>10. ASSUME NEW c \in Conns, Connect(c) \/ Handle(c) \/ Apply(c) \/ Send(c) \/ Close(c)
      PROVE  SlotsInv'
    <2>1. UNCHANGED <<pc, cur, active>>
        BY <1>10 DEF Connect, Handle, Apply, Send, Close, mainVars
    <2>2. \/ conn' = conn
          \/ /\ conn[c] \in {"recv", "handle", "send"}
             /\ \E there \in {"recv", "handle", "send", "closed"} :
                    conn' = [conn EXCEPT ![c] = there]
          \/ conn[c] = "none" /\ conn' = [conn EXCEPT ![c] = "backlog"]
        BY <1>10 DEF Connect, Handle, Apply, Send, Close
    <2>3. Threads' = Threads
        BY <1>1, <2>2 DEF Threads, MainType
    <2>4. HandInv'
        BY <1>1, <2>1, <2>2 DEF SlotsInv, HandInv, MainType
    <2> QED
        BY <1>1, <2>1, <2>3, <2>4, SameThreads
<1>11. ASSUME NEW c \in Conns, Uncounts(c) PROVE SlotsInv'
    <2>1. /\ UNCHANGED <<pc, cur>> /\ pc # "gone"
          /\ conn[c] = "closed" /\ active' = active - 1
          /\ conn' = [conn EXCEPT ![c] = "over"]
        BY <1>11 DEF Uncounts, Leave, mainVars
    <2>2. Threads' = Threads \ {c} /\ c \in Threads
        BY <1>1, <2>1 DEF Threads, MainType
    <2>3. Cardinality(Threads') = Cardinality(Threads) - 1
        BY <2>2, ThreadsFinite, FS_RemoveElement
    <2>4. Cardinality(Threads') \in Nat
        BY <2>2, ThreadsFinite, FS_RemoveElement, FS_CardinalityType
    <2>5. SlotsCounted'
        BY <2>1, <2>3, ThreadsFinite DEF SlotsInv, SlotsCounted
    <2>6. active' \in 0..MAX_CLIENTS
        BY <2>1, <2>3, <2>4, ThreadsFinite, ClientsAssumption DEF SlotsInv, SlotsCounted
    <2>7. HandInv'
        BY <1>1, <2>1 DEF SlotsInv, HandInv, MainType
    <2> QED
        BY <1>1, <2>5, <2>6, <2>7 DEF SlotsInv
<1>12. CASE Motion \/ UNCHANGED vars
    <2>1. UNCHANGED <<pc, cur, conn, active>>
        BY <1>12 DEF Motion, vars, mainVars
    <2> QED
        BY <1>1, <2>1, SameThreads DEF Threads, HandInv, SlotsInv
<1> QED
    BY <1>2, <1>3, <1>4, <1>5, <1>6, <1>7, <1>8, <1>9, <1>10, <1>11, <1>12 DEF Next, Main, Thread

LEMMA InitSlots == Init => SlotsInv
<1> SUFFICES ASSUME Init PROVE SlotsInv
    OBVIOUS
<1>1. Threads = {} /\ active = 0 /\ pc = "while"
    BY DEF Init, Threads
<1>2. SlotsCounted
    BY <1>1, FS_EmptySet DEF SlotsCounted
<1> QED
    BY <1>1, <1>2, InitTypes, ClientsAssumption DEF SlotsInv, HandInv

\* Every variable keeps its type; no more slots are taken than there are.
THEOREM TypeCorrect == Spec => []TypeOK
<1>1. SlotsInv /\ CameraType => TypeOK
    BY DEF SlotsInv, MainType, CameraType, TypeOK, Places, States
<1>2. SlotsInv => MainType
    BY DEF SlotsInv
<1> QED
    BY <1>1, <1>2, InitTypes, InitSlots, StepSlots, StepCamera, PTL DEF Spec

\* g_active_clients is the number of threads, whatever fails between accept() and the
\* end of a thread, for any number of connections.
THEOREM SlotsAreCounted == Spec => []SlotsCounted
<1>1. SlotsInv => SlotsCounted
    BY DEF SlotsInv
<1> QED
    BY <1>1, InitSlots, StepSlots, PTL DEF Spec

(***************************************************************************)
(* The label.  What was written last is what the buffer begins with: the   *)
(* handler overlays it, ends it at the end of the buffer, and nobody else  *)
(* writes there.                                                           *)
(***************************************************************************)
LabelInv == written # None => written \in Seq(Nat) /\ LabelBegins

LEMMA Prefix ==
    ASSUME NEW s \in Seq(Nat), NEW n \in Nat, n <= Len(s)
    PROVE  /\ SubSeq(s, 1, n) \in Seq(Nat) /\ Len(SubSeq(s, 1, n)) = n
           /\ \A i \in 1..n : SubSeq(s, 1, n)[i] = s[i]
OBVIOUS

LEMMA SameSequence ==
    ASSUME NEW s \in Seq(Nat), NEW t \in Seq(Nat), Len(s) = Len(t),
           \A i \in 1..Len(s) : s[i] = t[i]
    PROVE  s = t
OBVIOUS

Begins(label, text) == SubSeq(label, 1, Len(Truncated(text))) = Truncated(text)
Text(payload) == SubSeq(Tail(payload), 1, Head(payload))

\* A label that fits is what the buffer begins with once it is written.
LEMMA WrittenBegins ==
    ASSUME NEW buf \in Buffer, NEW payload \in Seq(Nat), Fits(payload)
    PROVE  Text(payload) \in Seq(Nat) /\ Begins(WriteLabel(buf, payload), Text(payload))
<1> DEFINE text == Text(payload)
           label == WriteLabel(buf, payload)
           rest == Tail(payload)
           size == Head(payload)
           n == IF size < LabelSize - 1 THEN size ELSE LabelSize - 1
<1>1. rest \in Seq(Nat) /\ size \in Nat /\ size <= Len(rest)
    BY DEF Fits
<1>2. n \in Nat /\ n <= size /\ n <= LabelSize - 1 /\ LabelSize \in Nat \ {0}
    BY <1>1, LabelAssumption
<1>3. n = IF size < LabelSize THEN size ELSE LabelSize - 1
    BY <1>1, LabelAssumption
<1>4. Copied(payload) = SubSeq(rest, 1, n) /\ text = SubSeq(rest, 1, size)
    BY DEF Copied, LabelText, Text
<1> HIDE DEF rest, size, n, text
<1>5. text \in Seq(Nat) /\ Len(text) = size /\ \A i \in 1..size : text[i] = rest[i]
    BY <1>1, <1>4, Prefix
<1> DEFINE copy == SubSeq(rest, 1, n)
<1>6. copy \in Seq(Nat) /\ Len(copy) = n /\ \A i \in 1..n : copy[i] = rest[i]
    <2>1. n <= Len(rest)
        BY <1>1, <1>2
    <2> QED
        BY <1>1, <1>2, <2>1, Prefix
<1>7. Truncated(text) = SubSeq(text, 1, n)
    BY <1>3, <1>5 DEF Truncated
<1>8. SubSeq(text, 1, n) \in Seq(Nat) /\ Len(SubSeq(text, 1, n)) = n
      /\ \A i \in 1..n : SubSeq(text, 1, n)[i] = text[i]
    BY <1>2, <1>5, Prefix
<1> DEFINE over == Overlay(buf, copy)
           done == [over EXCEPT ![LabelSize] = Nul]
<1>9. over \in Buffer
    BY <1>6, BufferType
<1>10. label = done
    BY <1>4 DEF WriteLabel
<1> HIDE DEF label
<1>11. \A i \in 1..n : over[i] = copy[i]
    BY <1>2, <1>6 DEF Overlay
<1> HIDE DEF over, copy
<1>12. label \in Seq(Nat) /\ Len(label) = LabelSize /\ \A i \in 1..n : label[i] = over[i]
    <2>1. label \in [1..LabelSize -> Nat] /\ \A i \in 1..n : label[i] = over[i]
        BY <1>2, <1>9, <1>10 DEF Buffer, Nul
    <2>2. label \in Seq(Nat) /\ Len(label) = LabelSize
        BY <1>2, <2>1
    <2> QED
        BY <2>1, <2>2
<1>13. SubSeq(label, 1, n) \in Seq(Nat) /\ Len(SubSeq(label, 1, n)) = n
       /\ \A i \in 1..n : SubSeq(label, 1, n)[i] = label[i]
    BY <1>2, <1>12, Prefix
<1>14. \A i \in 1..n : SubSeq(label, 1, n)[i] = SubSeq(text, 1, n)[i]
    <2> SUFFICES ASSUME NEW i \in 1..n PROVE SubSeq(label, 1, n)[i] = SubSeq(text, 1, n)[i]
        OBVIOUS
    <2>1. i \in 1..size
        BY <1>1, <1>2
    <2>2. label[i] = rest[i]
        BY <1>6, <1>11, <1>12
    <2>3. text[i] = rest[i]
        BY <1>5, <2>1
    <2> QED
        BY <1>8, <1>13, <2>2, <2>3, Zenon
<1>15. SubSeq(label, 1, n) = SubSeq(text, 1, n)
    BY <1>8, <1>13, <1>14, SameSequence
<1>16. Len(Truncated(text)) = n
    BY <1>7, <1>8
<1> QED
    BY <1>5, <1>7, <1>15, <1>16, Zenon DEF text, label, Begins

\* Only a request to write the label changes it.
LEMMA EffectLabel ==
    ASSUME NEW cam \in Camera, NEW r \in Requests
    PROVE  Effect(cam, r).label =
               IF r.op = "label" THEN WriteLabel(cam.label, r.arg) ELSE cam.label
<1>1. \A b : [cam EXCEPT !.streaming = b].label = cam.label
    BY Zenon DEF Camera
<1>2. \A n : [cam EXCEPT !.brightness = n].label = cam.label
    BY Zenon DEF Camera
<1>3. \A l : [cam EXCEPT !.label = l].label = l
    BY Zenon DEF Camera
<1>4. CASE r.op = "label"
    BY <1>3, <1>4 DEF Effect
<1>5. CASE r.op \in {"on", "off", "toggle", "write"}
    <2>1. PICK b : Effect(cam, r) = [cam EXCEPT !.streaming = b]
        BY <1>5 DEF Effect
    <2> QED
        BY <1>1, <1>5, <2>1, Zenon
<1>6. CASE r.op = "level"
    BY <1>2, <1>6 DEF Effect
<1>7. CASE r.op \notin {"on", "off", "toggle", "write", "level", "label"}
    BY <1>7 DEF Effect
<1> QED
    BY <1>4, <1>5, <1>6, <1>7

LEMMA StepLabel ==
    MainType /\ CameraType /\ HandlerInv /\ LabelInv /\ [Next]_vars => LabelInv'
<1> SUFFICES ASSUME CameraType, HandlerInv, LabelInv, [Next]_vars PROVE LabelInv'
    OBVIOUS
<1>1. ASSUME NEW c \in Conns, Apply(c) PROVE LabelInv'
    <2>1. PICK r \in Requests : r = req[c] /\ camera' = Effect(camera, r) /\ camera \in Camera
        BY <1>1 DEF Apply, HandlerInv, CameraType
    <2>2. camera'.label = IF r.op = "label" THEN WriteLabel(camera.label, r.arg) ELSE camera.label
        BY <2>1, EffectLabel
    <2>3. CASE r.op = "label" /\ Fits(r.arg)
        <3>1. r.arg \in Seq(Nat) /\ camera.label \in Buffer
            BY <2>1, <2>3, RequestsAssumption DEF Camera
        <3>2. written' = Text(r.arg) /\ camera'.label = WriteLabel(camera.label, r.arg)
            BY <1>1, <2>1, <2>2, <2>3 DEF Apply, Text
        <3>3. Text(r.arg) \in Seq(Nat) /\ Begins(WriteLabel(camera.label, r.arg), Text(r.arg))
            BY <2>3, <3>1, WrittenBegins
        <3>4. written' \in Seq(Nat) /\ Begins(camera'.label, written')
            BY <3>2, <3>3, Zenon
        <3> QED
            BY <3>4 DEF LabelInv, LabelBegins, Truncated, Begins
    <2>4. CASE ~(r.op = "label" /\ Fits(r.arg))
        <3>1. written' = written
            BY <1>1, <2>1, <2>4 DEF Apply
        <3>2. camera'.label = camera.label
            BY <2>2, <2>4 DEF WriteLabel
        <3> QED
            BY <3>1, <3>2 DEF LabelInv, LabelBegins
    <2> QED
        BY <2>3, <2>4
<1>2. CASE Motion
    <2>1. PICK m \in BOOLEAN : camera' = [camera EXCEPT !.motion = m]
        BY <1>2 DEF Motion
    <2>2. [camera EXCEPT !.motion = m].label = camera.label
        BY Zenon DEF CameraType, Camera
    <2>3. camera'.label = camera.label /\ written' = written
        BY <1>2, <2>1, <2>2 DEF Motion
    <2> QED
        BY <2>3 DEF LabelInv, LabelBegins
<1>3. CASE camera' = camera /\ written' = written
    BY <1>3 DEF LabelInv, LabelBegins
<1>4. (camera' = camera /\ written' = written) \/ Motion \/ \E c \in Conns : Apply(c)
    BY DEF Next, Main, While, Select, Accept, AcceptStops, AcceptFails, LockClients, Reject,
       Count, Spawn, SpawnFails, Drop, Exit, SigHandler, Connect, Thread, Handle, Send, Close,
       Uncounts, cameraVars, vars
<1> QED
    BY <1>1, <1>2, <1>3, <1>4

\* Whoever writes the label, over whatever it was and however long it is: the buffer
\* begins with it, up to its last byte.
THEOREM WrittenLabelBegins == Spec => []LabelBegins
<1>1. Init => LabelInv
    BY DEF Init, LabelInv
<1>2. LabelInv => LabelBegins
    BY DEF LabelInv, LabelBegins
<1> QED
    BY <1>1, <1>2, InitTypes, StepMainType, StepCamera, StepLabel, PTL DEF Spec
=============================================================================
