---------------------------- MODULE HeraldProofs ----------------------------
(***************************************************************************)
(* Theorems about Herald, for any finite set of servers, any services and  *)
(* host names, any length of the client's list and any number of losses    *)
(* and signals.                                                            *)
(***************************************************************************)
EXTENDS Herald, FiniteSetTheorems, SequenceTheorems, TLAPS

(***************************************************************************)
(* Where the programs can be, what is in the sockets and in the list.      *)
(***************************************************************************)
Places == {"off", "probe", "announce", "ready", "answer", "goodbye", "gap", "scan", "done"}

ServerPlaces == Places \ {"gap", "scan"}
ClientPlaces == {"off", "gap", "scan", "done"}

ProgramInv ==
    /\ at \in [Hosts -> Places] /\ n \in [Hosts -> 0..3] /\ timer \in [Hosts -> 0..1]
    /\ at[Client] \in ClientPlaces
    /\ running \in [Servers -> BOOLEAN]
    /\ \A s \in Servers : /\ at[s] \in ServerPlaces
                          /\ at[s] = "probe" => n[s] \in 1..3
                          /\ at[s] = "announce" => n[s] \in 0..2
                          /\ at[s] = "goodbye" => n[s] \in 1..2 /\ ~running[s]
FoundInv ==
    /\ IsFiniteSet(DOMAIN found) /\ Cardinality(DOMAIN found) <= MAX_RESULTS
    /\ DOMAIN found \subseteq {Instance(s) : s \in Servers}
    /\ \A i \in DOMAIN found : found[i] \in Servers /\ name[found[i]] = i[1]
TrafficInv ==
    inbox \in [Servers -> Seq(Packet)] /\ lost \in 0..MaxFaults /\ signals \in 0..MaxFaults
GhostInv ==
    /\ conflict \in [Servers -> BOOLEAN]
    /\ rival \in [Servers -> SUBSET Servers] /\ \A s \in Servers : s \notin rival[s]
    /\ steady \subseteq Servers
HostsInv == ProgramInv /\ FoundInv /\ TrafficInv /\ GhostInv

LEMMA HostsTyped == HostsInv => TypeOK
BY DEF HostsInv, ProgramInv, FoundInv, TrafficInv, GhostInv, TypeOK, ServerPlaces, ClientPlaces,
       Places, Window

LEMMA HostsFinite == IsFiniteSet(Hosts) /\ \A s \in Servers : s # Client /\ s \in Hosts
BY HostsAssumption, FS_AddElement DEF Hosts

LEMMA PacketType ==
    /\ \A s \in Servers : Probe(s) \in Packet /\ Response(s) \in Packet
    /\ Query \in Packet
BY DEF Packet, Probe, Response, Query

\* The instance of a response is listed, if there is room, with the address it gives.
LEMMA Registered ==
    ASSUME HostsInv, NEW s \in Servers
    PROVE  LET list == Register(s)
           IN  /\ IsFiniteSet(DOMAIN list) /\ Cardinality(DOMAIN list) <= MAX_RESULTS
               /\ DOMAIN list \subseteq {Instance(t) : t \in Servers}
               /\ DOMAIN found \subseteq DOMAIN list
               /\ \A i \in DOMAIN list : list[i] \in Servers /\ name[list[i]] = i[1]
               /\ Cardinality(DOMAIN found) < MAX_RESULTS => Instance(s) \in DOMAIN list
<1> DEFINE room == IF Cardinality(DOMAIN found) < MAX_RESULTS THEN {Instance(s)} ELSE {}
           list == Register(s)
<1>1. DOMAIN list = DOMAIN found \cup room
    BY DEF Register
<1>2. \A i \in DOMAIN list : list[i] = IF i[1] = name[s] THEN s ELSE found[i]
    BY DEF Register
<1>3. /\ IsFiniteSet(DOMAIN found) /\ Cardinality(DOMAIN found) <= MAX_RESULTS
      /\ DOMAIN found \subseteq {Instance(t) : t \in Servers}
      /\ \A i \in DOMAIN found : found[i] \in Servers /\ name[found[i]] = i[1]
    BY DEF HostsInv, FoundInv, TrafficInv
<1>4. Cardinality(DOMAIN found) \in Nat /\ MAX_RESULTS \in Nat
    BY <1>3, FS_CardinalityType, ListAssumption
<1>5. IsFiniteSet(DOMAIN list) /\ Cardinality(DOMAIN list) <= MAX_RESULTS
    <2>1. CASE Cardinality(DOMAIN found) < MAX_RESULTS
        <3>1. DOMAIN list = DOMAIN found \cup {Instance(s)}
            BY <1>1, <2>1
        <3> HIDE DEF list
        <3>2. /\ IsFiniteSet(DOMAIN list)
              /\ Cardinality(DOMAIN list) = IF Instance(s) \in DOMAIN found THEN Cardinality(DOMAIN found)
                                            ELSE Cardinality(DOMAIN found) + 1
            BY <1>3, <3>1, FS_AddElement
        <3> QED
            BY <1>4, <2>1, <3>2
    <2>2. CASE ~(Cardinality(DOMAIN found) < MAX_RESULTS)
        <3>1. DOMAIN list = DOMAIN found
            BY <1>1, <2>2
        <3> QED
            BY <1>3, <3>1
    <2> QED
        BY <2>1, <2>2
<1>6. Instance(s)[1] = name[s]
    BY DEF Instance
<1> HIDE DEF list
<1>7. ASSUME NEW i \in DOMAIN list PROVE list[i] \in Servers /\ name[list[i]] = i[1]
    <2>1. i \in DOMAIN found \/ i = Instance(s)
        BY <1>1
    <2> QED
        BY <1>2, <1>3, <1>6, <2>1
<1> QED
    BY <1>1, <1>3, <1>5, <1>7 DEF list

\* What becomes of a packet: copies are lost, or they arrive where it is heeded.
Delivered(h, packet, g) ==
    IF g = Client THEN found' = Register(h) ELSE inbox'[g] = Append(inbox[g], packet)
Ignored(g) == IF g = Client THEN found' = found ELSE inbox'[g] = inbox[g]

LEMMA CastFacts ==
    ASSUME HostsInv, NEW h \in Hosts, NEW packet \in Packet, Cast(h, packet), signals' = signals
    PROVE  /\ inbox' \in [Servers -> Seq(Packet)]
           /\ lost' \in 0..MaxFaults /\ lost <= lost'
           /\ \A g \in Hosts : Ignored(g) \/ (g # h /\ Heeds(g, packet) /\ Delivered(h, packet, g))
           /\ lost' = lost => \A g \in Hosts \ {h} : Heeds(g, packet) => Delivered(h, packet, g)
<1> DEFINE hearers == {g \in Hosts \ {h} : Heeds(g, packet)}
<1>1. PICK L \in SUBSET hearers :
          /\ lost + signals + Cardinality(L) <= MaxFaults
          /\ lost' = lost + Cardinality(L)
          /\ inbox' = [s \in Servers |->
                 IF s \in hearers \ L THEN Append(inbox[s], packet) ELSE inbox[s]]
          /\ found' = IF Client \in hearers \ L THEN Register(h) ELSE found
    BY Zenon DEF Cast
<1>2. IsFiniteSet(L) /\ Cardinality(L) \in Nat /\ (Cardinality(L) = 0 => L = {})
    <2>1. L \in SUBSET Hosts
        OBVIOUS
    <2>2. IsFiniteSet(L)
        BY <2>1, HostsFinite, FS_Subset
    <2> QED
        BY <2>2, FS_CardinalityType, FS_EmptySet
<1>3. lost \in Nat /\ signals \in Nat /\ MaxFaults \in Nat /\ inbox \in [Servers -> Seq(Packet)]
    BY BoundsAssumption DEF HostsInv, FoundInv, TrafficInv
<1>4. lost' \in 0..MaxFaults /\ lost <= lost'
    BY <1>1, <1>2, <1>3
<1>5. \A s \in Servers : Append(inbox[s], packet) \in Seq(Packet) /\ inbox[s] \in Seq(Packet)
    BY <1>3
<1>6. inbox' \in [Servers -> Seq(Packet)]
    BY <1>1, <1>5, Zenon
<1>7. \A g \in Hosts : g = Client \/ g \in Servers
    BY DEF Hosts
<1>8. \A g \in Hosts : IF g \in hearers \ L THEN Delivered(h, packet, g) ELSE Ignored(g)
    BY <1>1, <1>7 DEF Delivered, Ignored
<1>9. lost' = lost => L = {}
    BY <1>1, <1>2, <1>3
<1> QED
    BY <1>4, <1>6, <1>8, <1>9

\* The program of one host goes on.
LEMMA Goes1 ==
    ASSUME HostsInv, NEW h \in Hosts, NEW place, NEW k, NEW t, Goes(h, place, k, t)
    PROVE  /\ at'[h] = place /\ n'[h] = k /\ timer'[h] = t
           /\ \A g \in Hosts \ {h} : at'[g] = at[g] /\ n'[g] = n[g] /\ timer'[g] = timer[g]
           /\ at \in [Hosts -> Places] /\ n \in [Hosts -> 0..3] /\ timer \in [Hosts -> 0..1]
           /\ at' = [at EXCEPT ![h] = place] /\ n' = [n EXCEPT ![h] = k] /\ timer' = [timer EXCEPT ![h] = t]
BY DEF Goes, HostsInv, ProgramInv

LEMMA ServerGoes ==
    ASSUME HostsInv, NEW s \in Servers, NEW place \in ServerPlaces, NEW k \in 0..3, NEW t \in 0..1,
           Goes(s, place, k, t), running' = running,
           place = "probe" => k \in 1..3,
           place = "announce" => k \in 0..2,
           place = "goodbye" => k \in 1..2 /\ ~running[s]
    PROVE  ProgramInv'
<1>1. s \in Hosts /\ s # Client /\ place \in Places
    BY HostsFinite DEF ServerPlaces
<1>2. at' \in [Hosts -> Places] /\ n' \in [Hosts -> 0..3] /\ timer' \in [Hosts -> 0..1]
    BY <1>1, Goes1
<1>3. /\ at'[s] = place /\ n'[s] = k /\ at'[Client] = at[Client]
      /\ \A r \in Servers \ {s} : at'[r] = at[r] /\ n'[r] = n[r]
    BY <1>1, Goes1 DEF Hosts
<1> QED
    BY <1>2, <1>3 DEF HostsInv, ProgramInv

LEMMA ClientGoes ==
    ASSUME HostsInv, NEW place \in ClientPlaces, NEW k \in 0..3, NEW t \in 0..1,
           Goes(Client, place, k, t), running' = running
    PROVE  ProgramInv'
<1>1. Client \in Hosts /\ place \in Places /\ \A s \in Servers : s # Client /\ s \in Hosts
    BY HostsFinite DEF Hosts, Places, ClientPlaces
<1>2. at' \in [Hosts -> Places] /\ n' \in [Hosts -> 0..3] /\ timer' \in [Hosts -> 0..1]
    BY <1>1, Goes1
<1>3. at'[Client] = place /\ \A r \in Servers : at'[r] = at[r] /\ n'[r] = n[r]
    BY <1>1, Goes1
<1> QED
    BY <1>2, <1>3 DEF HostsInv, ProgramInv

LEMMA SameFound == FoundInv /\ UNCHANGED <<found, name>> => FoundInv'
BY DEF FoundInv, Instance

LEMMA CastTyped ==
    ASSUME HostsInv, NEW h \in Hosts, NEW packet \in Packet, Cast(h, packet),
           UNCHANGED <<signals, name, wanted>>, packet.kind = "response" => h \in Servers
    PROVE  FoundInv' /\ TrafficInv'
<1>1. Packet' = Packet
    BY DEF Packet
<1>2. TrafficInv'
    BY <1>1, CastFacts DEF HostsInv, TrafficInv
<1>3. found' = found \/ (h \in Servers /\ found' = Register(h))
    <2>1. Client \in Hosts
        BY DEF Hosts
    <2>2. Ignored(Client) \/ (Heeds(Client, packet) /\ Delivered(h, packet, Client))
        BY <2>1, CastFacts
    <2> QED
        BY <2>2 DEF Ignored, Delivered, Heeds
<1>4. CASE h \in Servers /\ found' = Register(h)
    <2> DEFINE list == Register(h)
    <2>1. /\ IsFiniteSet(DOMAIN list) /\ Cardinality(DOMAIN list) <= MAX_RESULTS
          /\ DOMAIN list \subseteq {Instance(t) : t \in Servers}
          /\ \A i \in DOMAIN list : list[i] \in Servers /\ name[list[i]] = i[1]
        BY <1>4, Registered
    <2> HIDE DEF list
    <2>2. found' = list
        BY <1>4 DEF list
    <2>3. name' = name
        OBVIOUS
    <2>4. \A t : Instance(t)' = Instance(t)
        BY <2>3 DEF Instance
    <2>5. DOMAIN found' \subseteq {Instance(t)' : t \in Servers}
        BY <2>1, <2>2, <2>4
    <2> QED
        BY <1>2, <2>1, <2>2, <2>3, <2>5 DEF FoundInv
<1> QED
    BY <1>2, <1>3, <1>4, SameFound DEF HostsInv

LEMMA PopType ==
    ASSUME HostsInv, NEW s \in Servers, inbox[s] # <<>>, inbox' = Popped(s),
           UNCHANGED <<lost, signals, found, name, wanted>>
    PROVE  FoundInv' /\ TrafficInv'
<1>1. Packet' = Packet
    BY DEF Packet
<1>2. inbox[s] \in Seq(Packet) /\ inbox \in [Servers -> Seq(Packet)]
    BY DEF HostsInv, TrafficInv
<1>3. Tail(inbox[s]) \in Seq(Packet)
    BY <1>2, HeadTailProperties
<1>4. inbox' \in [Servers -> Seq(Packet)]
    BY <1>2, <1>3 DEF Popped
<1> QED
    BY <1>1, <1>4, SameFound DEF HostsInv, TrafficInv

LEMMA SameTraffic ==
    ASSUME HostsInv, UNCHANGED <<lost, signals, found, name, wanted, inbox>>
    PROVE  FoundInv' /\ TrafficInv'
BY SameFound DEF HostsInv, TrafficInv, Packet

LEMMA StartHosts == ASSUME HostsInv, NEW s \in Servers, Start(s) PROVE HostsInv'
<1>1. s \in Hosts /\ Probe(s) \in Packet /\ Probe(s).kind = "probe"
    BY HostsFinite, PacketType DEF Probe
<1>2. ProgramInv'
    <2>1. "probe" \in ServerPlaces /\ 1 \in 0..3 /\ 1 \in 1..3 /\ Window \in 0..1
        BY DEF ServerPlaces, Places, Window
    <2> QED
        BY <2>1, ServerGoes DEF Start
<1>3. FoundInv' /\ TrafficInv'
    BY <1>1, CastTyped DEF Start
<1>4. GhostInv'
    BY DEF Start, HostsInv, GhostInv
<1> QED
    BY <1>2, <1>3, <1>4 DEF HostsInv

LEMMA SameGhosts ==
    ASSUME HostsInv, UNCHANGED <<conflict, rival, steady>> PROVE GhostInv'
BY DEF HostsInv, GhostInv

LEMMA ProbeReceivesHosts == ASSUME HostsInv, NEW s \in Servers, ProbeReceives(s) PROVE HostsInv'
<1>1. inbox[s] # <<>> /\ inbox' = Popped(s)
      /\ UNCHANGED <<name, running, wanted, found, lost, signals, rival, steady>>
    BY DEF ProbeReceives, ghosts
<1>2. FoundInv' /\ TrafficInv'
    BY <1>1, PopType
<1>3. CASE Goes(s, "announce", 0, 0) /\ conflict' = [conflict EXCEPT ![s] = TRUE]
    <2>1. "announce" \in ServerPlaces /\ 0 \in 0..3 /\ 0 \in 0..2 /\ 0 \in 0..1
        BY DEF ServerPlaces, Places
    <2>2. ProgramInv'
        BY <1>1, <1>3, <2>1, ServerGoes
    <2>3. GhostInv'
        BY <1>1, <1>3 DEF HostsInv, GhostInv
    <2> QED
        BY <1>2, <2>2, <2>3 DEF HostsInv
<1>4. CASE UNCHANGED <<program, conflict>>
    <2>1. ProgramInv'
        BY <1>1, <1>4 DEF HostsInv, ProgramInv, program
    <2>2. GhostInv'
        BY <1>1, <1>4, SameGhosts
    <2> QED
        BY <1>2, <2>1, <2>2 DEF HostsInv
<1> QED
    BY <1>3, <1>4 DEF ProbeReceives

LEMMA WindowEndsHosts == ASSUME HostsInv, NEW s \in Servers, WindowEnds(s) PROVE HostsInv'
<1>1. s \in Hosts /\ Probe(s) \in Packet /\ Probe(s).kind = "probe" /\ n[s] \in 1..3
    BY HostsFinite, PacketType DEF Probe, WindowEnds, HostsInv, ProgramInv
<1>2. UNCHANGED <<running, name, wanted, signals, conflict, rival, steady>>
    BY DEF WindowEnds, ghosts
<1>3. GhostInv'
    BY <1>2, SameGhosts
<1>4. CASE n[s] < 3
    <2>1. Goes(s, "probe", n[s] + 1, 1) /\ Cast(s, Probe(s))
        BY <1>4 DEF WindowEnds, MoreProbes, Window
    <2>2. "probe" \in ServerPlaces /\ n[s] + 1 \in 0..3 /\ n[s] + 1 \in 1..3 /\ 1 \in 0..1
        BY <1>1, <1>4 DEF ServerPlaces, Places
    <2>3. ProgramInv'
        BY <1>2, <2>1, <2>2, ServerGoes
    <2> QED
        BY <1>1, <1>2, <1>3, <2>1, <2>3, CastTyped DEF HostsInv
<1>5. CASE ~(n[s] < 3)
    <2>1. Goes(s, "announce", 0, 0) /\ UNCHANGED <<inbox, lost, found>>
        BY <1>5 DEF WindowEnds, MoreProbes
    <2>2. "announce" \in ServerPlaces /\ 0 \in 0..3 /\ 0 \in 0..2 /\ 0 \in 0..1
        BY DEF ServerPlaces, Places
    <2>3. ProgramInv'
        BY <1>2, <2>1, <2>2, ServerGoes
    <2> QED
        BY <1>2, <1>3, <2>1, <2>3, SameTraffic DEF HostsInv
<1> QED
    BY <1>4, <1>5

\* A response is sent, after which the server is somewhere else.
LEMMA ResponseHosts ==
    ASSUME HostsInv, NEW s \in Servers, Cast(s, Response(s)),
           UNCHANGED <<name, running, conflict, wanted, signals, ghosts>>, ProgramInv'
    PROVE  HostsInv'
<1>1. s \in Hosts /\ Response(s) \in Packet
    BY HostsFinite, PacketType
<1>2. FoundInv' /\ TrafficInv'
    BY <1>1, CastTyped
<1>3. GhostInv'
    BY SameGhosts DEF ghosts
<1> QED
    BY <1>2, <1>3 DEF HostsInv

LEMMA AnnounceHosts == ASSUME HostsInv, NEW s \in Servers, Announce(s) PROVE HostsInv'
<1>1. n[s] \in 0..2
    BY DEF Announce, HostsInv, ProgramInv
<1>2. ProgramInv'
    <2>1. CASE n[s] < 2
        <3>1. Goes(s, "announce", n[s] + 1, 1)
            BY <2>1 DEF Announce, Window
        <3>2. "announce" \in ServerPlaces /\ n[s] + 1 \in 0..3 /\ n[s] + 1 \in 0..2 /\ 1 \in 0..1
            BY <1>1, <2>1 DEF ServerPlaces, Places
        <3> QED
            BY <3>1, <3>2, ServerGoes DEF Announce
    <2>2. CASE ~(n[s] < 2)
        <3>1. Goes(s, "ready", 0, 0)
            BY <2>2 DEF Announce
        <3>2. "ready" \in ServerPlaces /\ 0 \in 0..3 /\ 0 \in 0..1
            BY DEF ServerPlaces, Places
        <3> QED
            BY <3>1, <3>2, ServerGoes DEF Announce
    <2> QED
        BY <2>1, <2>2
<1> QED
    BY <1>2, ResponseHosts DEF Announce

LEMMA ListenHosts == ASSUME HostsInv, NEW s \in Servers, Listen(s) PROVE HostsInv'
<1>1. inbox[s] # <<>> /\ inbox' = Popped(s)
      /\ UNCHANGED <<name, running, conflict, wanted, found, lost, signals, rival, steady>>
    BY DEF Listen, ghosts
<1>2. FoundInv' /\ TrafficInv'
    BY <1>1, PopType
<1>3. ProgramInv'
    <2>1. CASE \E t \in {0, 1} : Goes(s, "answer", 0, t)
        <3>1. PICK t \in 0..1 : Goes(s, "answer", 0, t)
            BY <2>1
        <3>2. "answer" \in ServerPlaces /\ 0 \in 0..3
            BY DEF ServerPlaces, Places
        <3> QED
            BY <1>1, <3>1, <3>2, ServerGoes
    <2>2. CASE UNCHANGED program
        BY <1>1, <2>2 DEF HostsInv, ProgramInv, program
    <2> QED
        BY <2>1, <2>2 DEF Listen
<1>4. GhostInv'
    BY <1>1, SameGhosts
<1> QED
    BY <1>2, <1>3, <1>4 DEF HostsInv

LEMMA AnswerHosts == ASSUME HostsInv, NEW s \in Servers, Answer(s) PROVE HostsInv'
<1>1. "ready" \in ServerPlaces /\ 0 \in 0..3 /\ 0 \in 0..1
    BY DEF ServerPlaces, Places
<1>2. ProgramInv'
    BY <1>1, ServerGoes DEF Answer
<1> QED
    BY <1>2, ResponseHosts DEF Answer

LEMMA GoodbyeHosts == ASSUME HostsInv, NEW s \in Servers, Goodbye(s) PROVE HostsInv'
<1> DEFINE k == IF at[s] = "ready" THEN 0 ELSE n[s]
<1>1. k \in 0..1 /\ ~running[s]
    BY DEF Goodbye, LoopEnds, HostsInv, ProgramInv
<1>2. PICK t \in 0..1 : Goes(s, "goodbye", k + 1, t)
    BY DEF Goodbye
<1> HIDE DEF k
<1>3. "goodbye" \in ServerPlaces /\ k + 1 \in 0..3 /\ k + 1 \in 1..2
    BY <1>1 DEF ServerPlaces, Places
<1>4. running' = running
    BY DEF Goodbye
<1>5. ProgramInv'
    BY <1>1, <1>2, <1>3, <1>4, ServerGoes
<1> QED
    BY <1>5, ResponseHosts DEF Goodbye

LEMMA ExitHosts == ASSUME HostsInv, NEW s \in Servers, Exit(s) PROVE HostsInv'
<1>1. "done" \in ServerPlaces /\ 0 \in 0..3 /\ 0 \in 0..1
    BY DEF ServerPlaces, Places
<1>2. ProgramInv'
    BY <1>1, ServerGoes DEF Exit
<1>3. TrafficInv'
    <2>1. <<>> \in Seq(Packet) /\ Packet' = Packet
        BY DEF Exit, Packet
    <2> QED
        BY <2>1 DEF Exit, HostsInv, TrafficInv
<1>4. FoundInv' /\ GhostInv'
    BY SameFound, SameGhosts DEF Exit, ghosts, HostsInv
<1> QED
    BY <1>2, <1>3, <1>4 DEF HostsInv

LEMMA SignalHosts == ASSUME HostsInv, NEW s \in Servers, Signal(s) PROVE HostsInv'
<1>1. s \in Hosts /\ 0 \in 0..1 /\ FALSE \in BOOLEAN
    BY HostsFinite
<1>2. /\ timer' = [timer EXCEPT ![s] = 0] /\ running' = [running EXCEPT ![s] = FALSE]
      /\ UNCHANGED <<at, n, inbox, name, wanted, found, lost, conflict, rival>>
      /\ UNCHANGED wanted /\ steady' = steady \ {s}
    BY DEF Signal
<1>3. ProgramInv'
    BY <1>1, <1>2 DEF HostsInv, ProgramInv
<1>4. signals' \in 0..MaxFaults
    <2>1. lost \in Nat /\ signals \in Nat /\ MaxFaults \in Nat
        BY BoundsAssumption DEF HostsInv, TrafficInv
    <2> QED
        BY <2>1 DEF Signal
<1>5. TrafficInv'
    BY <1>2, <1>4 DEF HostsInv, TrafficInv, Packet
<1>6. FoundInv'
    BY <1>2, SameFound DEF HostsInv
<1>7. GhostInv'
    BY <1>2 DEF HostsInv, GhostInv
<1> QED
    BY <1>3, <1>5, <1>6, <1>7 DEF HostsInv

LEMMA QueryHosts == ASSUME HostsInv, Ask \/ Scan PROVE HostsInv'
<1>1. Client \in Hosts /\ Query \in Packet /\ Query.kind = "query"
    BY PacketType DEF Hosts, Query
<1>2. Cast(Client, Query) /\ UNCHANGED <<name, running, conflict, wanted, signals, rival>>
      /\ steady' \in {steady, Ready}
    BY DEF Ask, Scan, AskAgain, ghosts
<1>3. FoundInv' /\ TrafficInv'
    BY <1>1, <1>2, CastTyped
<1>4. ProgramInv'
    <2>1. "gap" \in ClientPlaces /\ "scan" \in ClientPlaces /\ 1 \in 0..3 /\ 2 \in 0..3 /\ 0 \in 0..1
        BY DEF ClientPlaces
    <2> QED
        BY <1>2, <2>1, ClientGoes DEF Ask, Scan
<1>5. GhostInv'
    BY <1>2 DEF HostsInv, GhostInv, Ready
<1> QED
    BY <1>3, <1>4, <1>5 DEF HostsInv

LEMMA PrintResultsHosts == ASSUME HostsInv, PrintResults PROVE HostsInv'
<1>1. "done" \in ClientPlaces /\ 0 \in 0..3 /\ 0 \in 0..1
    BY DEF ClientPlaces
<1>2. ProgramInv'
    BY <1>1, ClientGoes DEF PrintResults
<1>3. FoundInv' /\ TrafficInv' /\ GhostInv'
    BY SameTraffic, SameGhosts DEF PrintResults, ghosts
<1> QED
    BY <1>2, <1>3 DEF HostsInv

LEMMA TickHosts == ASSUME HostsInv, Tick PROVE HostsInv'
<1>1. \A h \in Hosts : timer[h] \in 0..1
    BY DEF HostsInv, ProgramInv
<1>2. timer' = [h \in Hosts |-> IF timer[h] > 0 THEN timer[h] - 1 ELSE 0]
    BY DEF Tick
<1>3. \A h \in Hosts : (IF timer[h] > 0 THEN timer[h] - 1 ELSE 0) \in 0..1
    BY <1>1
<1>4. timer' \in [Hosts -> 0..1]
    BY <1>2, <1>3
<1>5. ProgramInv'
    BY <1>4 DEF Tick, HostsInv, ProgramInv
<1>6. FoundInv' /\ TrafficInv' /\ GhostInv'
    BY SameTraffic, SameGhosts DEF Tick, ghosts
<1> QED
    BY <1>5, <1>6 DEF HostsInv

LEMMA StepHosts == HostsInv /\ [Next]_vars => HostsInv'
<1> SUFFICES ASSUME HostsInv, [Next]_vars PROVE HostsInv'
    OBVIOUS
<1>1. CASE Tick \/ Ask \/ Scanner
    BY <1>1, TickHosts, QueryHosts, PrintResultsHosts DEF Scanner
<1>2. ASSUME NEW s \in Servers, Start(s) \/ Signal(s) \/ Server(s) PROVE HostsInv'
    BY <1>2, StartHosts, SignalHosts, ProbeReceivesHosts, WindowEndsHosts, AnnounceHosts, ListenHosts,
       AnswerHosts, GoodbyeHosts, ExitHosts DEF Server
<1>3. CASE UNCHANGED vars
    <2>1. UNCHANGED <<at, n, timer, inbox, name, running, conflict, wanted, found, lost, signals, rival,
                      steady>>
        BY <1>3 DEF vars, program, ghosts
    <2>2. FoundInv' /\ TrafficInv' /\ GhostInv'
        BY <2>1, SameTraffic, SameGhosts
    <2>3. ProgramInv'
        BY <2>1 DEF HostsInv, ProgramInv
    <2> QED
        BY <2>2, <2>3 DEF HostsInv
<1> QED
    BY <1>1, <1>2, <1>3 DEF Next

LEMMA InitHosts == Init => HostsInv
<1> SUFFICES ASSUME Init PROVE HostsInv
    OBVIOUS
<1>1. ProgramInv
    <2>1. "off" \in Places /\ 0 \in 0..3 /\ 0 \in 0..1 /\ Client \in Hosts /\ TRUE \in BOOLEAN
        BY DEF Places, Hosts
    <2>2. at \in [Hosts -> Places] /\ n \in [Hosts -> 0..3] /\ timer \in [Hosts -> 0..1]
          /\ running \in [Servers -> BOOLEAN]
        BY <2>1 DEF Init
    <2>3. \A h \in Hosts : at[h] = "off"
        BY DEF Init
    <2> QED
        BY <2>1, <2>2, <2>3, HostsFinite DEF ProgramInv, ServerPlaces, ClientPlaces, Places
<1>2. FoundInv
    <2>1. DOMAIN found = {}
        BY DEF Init
    <2>2. IsFiniteSet({}) /\ Cardinality({}) = 0
        BY FS_EmptySet
    <2> QED
        BY <2>1, <2>2, ListAssumption DEF FoundInv
<1>3. TrafficInv
    <2>1. <<>> \in Seq(Packet) /\ 0 \in 0..MaxFaults
        BY BoundsAssumption
    <2> QED
        BY <2>1 DEF Init, TrafficInv
<1>4. GhostInv
    BY DEF Init, GhostInv
<1> QED
    BY <1>1, <1>2, <1>3, <1>4 DEF HostsInv

LEMMA HostsAlways == Spec => []HostsInv
BY InitHosts, StepHosts, PTL DEF Spec

\* Every packet in a socket is one a server or the client makes, no wait is longer
\* than a window, and the client's list holds no more than MAX_RESULTS devices, each
\* the instance of a server, with the address of a server.
THEOREM TypeCorrect == Spec => []TypeOK
BY HostsAlways, HostsTyped, PTL

(***************************************************************************)
(* What is in a socket, and what a host does to the others.                *)
(***************************************************************************)
Has(q, x) == \E i \in 1..Len(q) : q[i] = x
HasTwo(q, x) == \E i, j \in 1..Len(q) : i < j /\ q[i] = x /\ q[j] = x

LEMMA Appended ==
    ASSUME NEW q \in Seq(Packet), NEW x, NEW y \in Packet
    PROVE  /\ Has(q, x) => Has(Append(q, y), x)
           /\ HasTwo(q, x) => HasTwo(Append(q, y), x)
           /\ Has(Append(q, y), y)
           /\ Has(q, y) => HasTwo(Append(q, y), y)
<1> DEFINE longer == Append(q, y)
<1>1. /\ Len(q) \in Nat /\ Len(longer) = Len(q) + 1 /\ longer[Len(q) + 1] = y
      /\ \A i \in 1..Len(q) : longer[i] = q[i]
    BY AppendProperties, LenProperties
<1> HIDE DEF longer
<1>2. /\ Len(q) + 1 \in 1..Len(longer)
      /\ \A i \in 1..Len(q) : i \in 1..Len(longer) /\ i < Len(q) + 1
    BY <1>1
<1>3. Has(q, x) => Has(longer, x)
    BY <1>1, <1>2 DEF Has
<1>4. HasTwo(q, x) => HasTwo(longer, x)
    BY <1>1, <1>2 DEF HasTwo
<1>5. Has(longer, y)
    BY <1>1, <1>2 DEF Has
<1>6. Has(q, y) => HasTwo(longer, y)
    BY <1>1, <1>2 DEF Has, HasTwo
<1> QED
    BY <1>3, <1>4, <1>5, <1>6 DEF longer

LEMMA Removed ==
    ASSUME NEW q \in Seq(Packet), q # <<>>, NEW x
    PROVE  /\ Has(q, x) => Head(q) = x \/ Has(Tail(q), x)
           /\ HasTwo(q, x) => Has(Tail(q), x)
           /\ HasTwo(q, x) /\ Head(q) # x => HasTwo(Tail(q), x)
<1> DEFINE rest == Tail(q)
<1>1. /\ Len(q) \in Nat /\ Len(rest) = Len(q) - 1 /\ Head(q) = q[1]
      /\ \A i \in 1..Len(rest) : rest[i] = q[i + 1]
    BY HeadTailProperties, LenProperties
<1> HIDE DEF rest
<1>2. \A i \in 1..Len(q) : i # 1 => i - 1 \in 1..Len(rest) /\ rest[i - 1] = q[i]
    <2> TAKE i \in 1..Len(q)
    <2>1. i # 1 => i - 1 \in 1..Len(rest) /\ (i - 1) + 1 = i
        BY <1>1
    <2> QED
        BY <1>1, <2>1
<1>3. Has(q, x) => Head(q) = x \/ Has(rest, x)
    BY <1>1, <1>2 DEF Has
<1>4. HasTwo(q, x) => Has(rest, x)
    <2> SUFFICES ASSUME NEW i \in 1..Len(q), NEW j \in 1..Len(q), i < j, q[j] = x
                 PROVE  Has(rest, x)
        BY DEF HasTwo
    <2>1. j # 1
        BY <1>1
    <2> QED
        BY <1>2, <2>1 DEF Has
<1>5. HasTwo(q, x) /\ Head(q) # x => HasTwo(rest, x)
    <2> SUFFICES ASSUME NEW i \in 1..Len(q), NEW j \in 1..Len(q), i < j, q[i] = x, q[j] = x, Head(q) # x
                 PROVE  HasTwo(rest, x)
        BY DEF HasTwo
    <2>1. i # 1 /\ j # 1 /\ i - 1 < j - 1
        BY <1>1
    <2> QED
        BY <1>2, <2>1 DEF HasTwo
<1> QED
    BY <1>3, <1>4, <1>5 DEF rest

\* A server that does nothing in a step may have packets put into its socket.
Still(s) ==
    /\ at'[s] = at[s] /\ n'[s] = n[s] /\ timer'[s] = timer[s]
    /\ running'[s] = running[s] /\ conflict'[s] = conflict[s] /\ rival'[s] = rival[s]
Fed(s) == inbox'[s] = inbox[s] \/ \E packet \in Packet : inbox'[s] = Append(inbox[s], packet)
Grows == UNCHANGED <<name, wanted>> /\ DOMAIN found \subseteq DOMAIN found' /\ lost <= lost'

LEMMA SameGrows == HostsInv /\ UNCHANGED <<name, wanted, found, lost>> => Grows
BY DEF Grows, HostsInv, TrafficInv

LEMMA CastFeeds ==
    ASSUME HostsInv, NEW h \in Hosts, NEW packet \in Packet, Cast(h, packet),
           UNCHANGED <<name, wanted, signals>>, packet.kind = "response" => h \in Servers
    PROVE  Grows /\ \A s \in Servers : Fed(s)
<1>1. \A s \in Servers : Fed(s)
    <2> TAKE s \in Servers
    <2>1. s \in Hosts /\ s # Client
        BY HostsFinite
    <2>2. Ignored(s) \/ Delivered(h, packet, s)
        BY <2>1, CastFacts
    <2> QED
        BY <2>1, <2>2 DEF Ignored, Delivered, Fed
<1>2. DOMAIN found \subseteq DOMAIN found'
    <2>1. Client \in Hosts
        BY DEF Hosts
    <2>2. Ignored(Client) \/ (Heeds(Client, packet) /\ Delivered(h, packet, Client))
        BY <2>1, CastFacts
    <2>3. found' = found \/ (h \in Servers /\ found' = Register(h))
        BY <2>2 DEF Ignored, Delivered, Heeds
    <2> QED
        BY <2>3, Registered
<1>3. lost <= lost'
    BY CastFacts
<1> QED
    BY <1>1, <1>2, <1>3 DEF Grows

LEMMA Apart ==
    ASSUME HostsInv, NEW s \in Servers, NEW t \in Servers \ {s}, Start(t) \/ Signal(t) \/ Server(t)
    PROVE  Still(s) /\ at'[Client] = at[Client] /\ Fed(s) /\ Grows /\ steady' \subseteq steady
<1>1. t \in Hosts /\ s \in Hosts /\ Client \in Hosts /\ s # t /\ t # Client
    BY HostsFinite DEF Hosts
<1>2. Still(s) /\ at'[Client] = at[Client] /\ steady' \subseteq steady
    <2>1. /\ at \in [Hosts -> Places] /\ n \in [Hosts -> 0..3] /\ timer \in [Hosts -> 0..1]
          /\ running \in [Servers -> BOOLEAN] /\ conflict \in [Servers -> BOOLEAN]
          /\ rival \in [Servers -> SUBSET Servers]
        BY DEF HostsInv, ProgramInv, GhostInv
    <2>2. \/ UNCHANGED <<at, n, timer>>
          \/ UNCHANGED <<at, n>> /\ timer' = [timer EXCEPT ![t] = 0]
          \/ \E place, k, d : Goes(t, place, k, d)
        BY DEF Start, Signal, Server, ProbeReceives, WindowEnds, Announce, Listen, Answer, Goodbye,
           Exit, program
    <2>3. /\ at'[s] = at[s] /\ n'[s] = n[s] /\ timer'[s] = timer[s] /\ at'[Client] = at[Client]
        BY <1>1, <2>1, <2>2 DEF Goes
    <2>4. /\ running' = running \/ running' = [running EXCEPT ![t] = FALSE]
          /\ conflict' = conflict \/ conflict' = [conflict EXCEPT ![t] = TRUE]
          /\ rival'[s] = rival[s] /\ steady' \subseteq steady
        BY <1>1, <2>1 DEF Start, Signal, Server, ProbeReceives, WindowEnds, Announce, Listen, Answer,
           Goodbye, Exit, ghosts
    <2> QED
        BY <1>1, <2>1, <2>3, <2>4 DEF Still
<1>3. Fed(s) /\ Grows
    <2>1. Probe(t) \in Packet /\ Response(t) \in Packet
        BY PacketType
    <2>2. CASE ~Signal(t) /\ (Cast(t, Probe(t)) \/ Cast(t, Response(t)))
        <3>1. UNCHANGED <<name, wanted, signals>>
            BY <2>2 DEF Start, Server, ProbeReceives, WindowEnds, Announce, Listen, Answer,
               Goodbye, Exit
        <3> QED
            BY <1>1, <2>1, <2>2, <3>1, CastFeeds
    <2>3. CASE /\ UNCHANGED <<name, wanted, found, lost>>
               /\ inbox' \in {inbox, Popped(t), [inbox EXCEPT ![t] = <<>>]}
        <3>1. inbox'[s] = inbox[s]
            BY <1>1, <2>3 DEF Popped, HostsInv, TrafficInv
        <3> QED
            BY <2>3, <3>1, SameGrows DEF Fed
    <2> QED
        BY <2>2, <2>3 DEF Start, Signal, Server, ProbeReceives, WindowEnds, Announce, Listen, Answer,
           Goodbye, Exit
<1> QED
    BY <1>2, <1>3

-----------------------------------------------------------------------------
(***************************************************************************)
(* The scan.  A server that answers throughout has two chances to be heard:*)
(* the two queries, or what it made of them.  One lost copy takes one.     *)
(***************************************************************************)
OneChance(s) == at[Client] = "gap" \/ at[s] = "answer" \/ Has(inbox[s], Query)
TwoChances(s) ==
    \/ at[Client] = "gap" /\ (at[s] = "answer" \/ Has(inbox[s], Query))
    \/ at[s] = "answer" /\ Has(inbox[s], Query)
    \/ HasTwo(inbox[s], Query)

Hopeful(s) ==
    Service[s] = wanted /\ Instance(s) \notin DOMAIN found =>
        /\ at[Client] \in {"gap", "scan"} => /\ lost = 0 => TwoChances(s)
                                             /\ lost = 1 => OneChance(s)
        /\ at[Client] = "done" => lost > 1
Serves(s) == at[s] \in {"ready", "answer"} /\ running[s]

ScanInv ==
    at[Client] # "off" =>
        \A s \in steady : Serves(s) /\ (Cardinality(Servers) <= MAX_RESULTS => Hopeful(s))

LEMMA TwoIsOne ==
    ASSUME HostsInv, NEW s \in Servers
    PROVE  HasTwo(inbox[s], Query) => Has(inbox[s], Query)
BY DEF Has, HasTwo

LEMMA LostType == HostsInv => lost \in Nat
BY DEF HostsInv, TrafficInv

\* While a server does nothing, chances are lost with a copy at most.
LEMMA HopeKept ==
    ASSUME HostsInv, HostsInv', NEW s \in Servers, Hopeful(s), at'[s] = at[s], at'[Client] = at[Client],
           Fed(s), Grows
    PROVE  Hopeful(s)'
<1>1. Query \in Packet /\ Query' = Query /\ Instance(s)' = Instance(s) /\ inbox[s] \in Seq(Packet)
    BY PacketType DEF Query, Instance, Grows, HostsInv, TrafficInv
<1>2. lost \in Nat /\ lost' \in Nat /\ lost <= lost'
    BY LostType DEF Grows, HostsInv, TrafficInv
<1>3. /\ Has(inbox[s], Query) => Has(inbox'[s], Query)
      /\ HasTwo(inbox[s], Query) => HasTwo(inbox'[s], Query)
    BY <1>1, Appended DEF Fed
<1>4. OneChance(s) => OneChance(s)'
    BY <1>1, <1>3 DEF OneChance
<1>5. TwoChances(s) => TwoChances(s)' /\ OneChance(s)
    BY <1>1, <1>3, TwoIsOne DEF TwoChances, OneChance
<1>6. Instance(s) \in DOMAIN found => Instance(s)' \in DOMAIN found'
    BY <1>1 DEF Grows
<1>7. Service[s] = wanted' => Service[s] = wanted
    BY DEF Grows
<1>8. lost' = 0 => lost = 0
    BY <1>2
<1>9. lost' = 1 => lost \in {0, 1}
    BY <1>2
<1>10. lost > 1 => lost' > 1
    BY <1>2
<1> QED
    BY <1>4, <1>5, <1>6, <1>7, <1>8, <1>9, <1>10 DEF Hopeful

\* A server of this service that is heard of while there is room is listed.
LEMMA HeardIsListed ==
    ASSUME HostsInv, NEW s \in Servers, Cardinality(Servers) <= MAX_RESULTS
    PROVE  Instance(s) \in DOMAIN Register(s)
<1> DEFINE all == {Instance(t) : t \in Servers}
           f == [t \in Servers |-> Instance(t)]
<1>1. f \in Surjection(Servers, all)
    BY DEF Surjection
<1>2. IsFiniteSet(all) /\ Cardinality(all) <= Cardinality(Servers)
    <2> HIDE DEF f, all
    <2> QED
        BY <1>1, HostsAssumption, FS_Surjection
<1>3. /\ IsFiniteSet(DOMAIN found) /\ DOMAIN found \in SUBSET all /\ Instance(s) \in all
      /\ Cardinality(DOMAIN found) \in Nat
    BY FS_CardinalityType DEF HostsInv, FoundInv
<1> HIDE DEF all
<1>4. CASE Instance(s) \in DOMAIN found
    BY <1>4, Registered
<1>5. CASE Instance(s) \notin DOMAIN found
    <2>1. Cardinality(DOMAIN found) <= Cardinality(all) /\ Cardinality(DOMAIN found) # Cardinality(all)
        BY <1>2, <1>3, <1>5, FS_Subset
    <2>2. Cardinality(all) \in Nat /\ Cardinality(Servers) \in Nat /\ MAX_RESULTS \in Nat
        BY <1>2, HostsAssumption, FS_CardinalityType, ListAssumption
    <2>3. Cardinality(DOMAIN found) < MAX_RESULTS
        BY <1>2, <1>3, <2>1, <2>2
    <2> QED
        BY <2>3, Registered
<1> QED
    BY <1>4, <1>5

\* A steady server's own steps.
LEMMA ListenHopeful ==
    ASSUME HostsInv, NEW s \in Servers, Serves(s), Listen(s)
    PROVE  Serves(s)' /\ (Hopeful(s) => Hopeful(s)')
<1>1. /\ inbox[s] # <<>> /\ inbox[s] \in Seq(Packet) /\ at[s] = "ready" /\ s \in Hosts /\ s # Client
      /\ inbox'[s] = Tail(inbox[s]) /\ Query \in Packet /\ Query' = Query /\ Instance(s)' = Instance(s)
      /\ UNCHANGED <<found, lost, running, wanted>>
    BY HostsFinite, PacketType DEF Listen, Popped, HostsInv, TrafficInv, Query, Instance
<1>2. at'[Client] = at[Client] /\ at'[s] \in {"ready", "answer"}
    <2>1. Client \in Hosts
        BY DEF Hosts
    <2> QED
        BY <1>1, <2>1, Goes1 DEF Listen, program
<1>3. Serves(s)'
    BY <1>1, <1>2 DEF Serves
<1>4. ASSUME Service[s] = wanted
      PROVE  Head(inbox[s]) = Query => at'[s] = "answer"
    <2>1. Query.kind = "query" /\ Query.about = wanted
        BY DEF Query
    <2>2. Head(inbox[s]) = Query => Matches(s, Head(inbox[s]))
        BY <1>4, <2>1 DEF Matches
    <2> QED
        BY <1>1, <2>2, Goes1 DEF Listen
<1>5. /\ Has(inbox[s], Query) => Head(inbox[s]) = Query \/ Has(inbox'[s], Query)
      /\ HasTwo(inbox[s], Query) => Has(inbox'[s], Query)
      /\ HasTwo(inbox[s], Query) /\ Head(inbox[s]) # Query => HasTwo(inbox'[s], Query)
    BY <1>1, Removed
<1>6. Service[s] = wanted => (OneChance(s) => OneChance(s)') /\ (TwoChances(s) => TwoChances(s)')
    BY <1>1, <1>2, <1>4, <1>5 DEF OneChance, TwoChances
<1> QED
    BY <1>1, <1>2, <1>3, <1>6 DEF Hopeful

LEMMA AnswerHopeful ==
    ASSUME HostsInv, HostsInv', NEW s \in Servers, Cardinality(Servers) <= MAX_RESULTS,
           Hopeful(s), Answer(s)
    PROVE  Hopeful(s)'
<1>1. /\ s \in Hosts /\ s # Client /\ Client \in Hosts /\ Response(s) \in Packet
      /\ Response(s).kind = "response" /\ Cast(s, Response(s)) /\ signals' = signals
      /\ Query' = Query /\ Instance(s)' = Instance(s) /\ UNCHANGED <<name, wanted>>
    BY HostsFinite, PacketType DEF Hosts, Answer, Response, Query, Instance
<1>2. at'[s] = "ready" /\ at'[Client] = at[Client]
    BY <1>1, Goes1 DEF Answer
<1>3. inbox'[s] = inbox[s]
    BY <1>1, CastFacts DEF Ignored
<1>4. Grows /\ lost \in Nat /\ lost' \in Nat
    BY <1>1, CastFeeds, LostType DEF HostsInv, TrafficInv
<1>5. ASSUME at[Client] \in {"gap", "scan"}, lost' = lost
      PROVE  Instance(s) \in DOMAIN found'
    <2>1. Heeds(Client, Response(s))
        BY <1>1, <1>5 DEF Heeds
    <2>2. found' = Register(s)
        BY <1>1, <1>5, <2>1, CastFacts DEF Delivered
    <2> QED
        BY <2>2, HeardIsListed
<1>6. TwoChances(s) => OneChance(s)'
    BY <1>1, <1>2, <1>3, TwoIsOne DEF TwoChances, OneChance
<1>7. Instance(s) \in DOMAIN found => Instance(s) \in DOMAIN found'
    BY <1>4 DEF Grows
<1>8. lost <= lost' /\ (lost' # lost /\ lost' = 1 => lost = 0) /\ (lost' # lost => lost' # 0)
    BY <1>4 DEF Grows
<1>9. lost > 1 => lost' > 1
    BY <1>4, <1>8
<1> QED
    BY <1>1, <1>2, <1>4, <1>5, <1>6, <1>7, <1>8, <1>9 DEF Hopeful

LEMMA AskScan ==
    ASSUME HostsInv, HostsInv', Ask PROVE ScanInv'
<1>1. /\ Client \in Hosts /\ Query \in Packet /\ Query.kind = "query" /\ Cast(Client, Query)
      /\ UNCHANGED <<signals, name, wanted, running>> /\ steady' = Ready /\ Query' = Query
    BY PacketType DEF Hosts, Query, Ask
<1>2. at'[Client] = "gap" /\ \A s \in Servers : at'[s] = at[s] /\ s \in Hosts /\ s # Client
    BY <1>1, HostsFinite, Goes1 DEF Ask
<1>3. lost \in Nat /\ lost' \in Nat /\ lost <= lost'
    BY <1>1, CastFacts, LostType DEF HostsInv, TrafficInv
<1>4. ASSUME NEW s \in Ready PROVE Serves(s)' /\ Hopeful(s)'
    <2>1. s \in Servers /\ at[s] \in {"ready", "answer"} /\ running[s]
        BY DEF Ready
    <2>2. Serves(s)'
        BY <1>1, <1>2, <2>1 DEF Serves
    <2>3. lost' = 0 => Has(inbox'[s], Query)
        <3>1. Heeds(s, Query) /\ s \in Hosts \ {Client} /\ inbox[s] \in Seq(Packet)
            BY <1>1, <1>2, <2>1 DEF Heeds, HostsInv, TrafficInv
        <3>2. lost' = 0 => inbox'[s] = Append(inbox[s], Query)
            BY <1>1, <1>3, <3>1, CastFacts DEF Delivered
        <3> QED
            BY <1>1, <3>1, <3>2, Appended
    <2>4. (lost' = 0 => TwoChances(s)') /\ OneChance(s)'
        BY <1>1, <1>2, <2>3 DEF TwoChances, OneChance
    <2> QED
        BY <1>2, <2>2, <2>4 DEF Hopeful
<1> QED
    BY <1>1, <1>4 DEF ScanInv

LEMMA ScanScan ==
    ASSUME HostsInv, HostsInv', ScanInv, Scan PROVE ScanInv'
<1>1. /\ Client \in Hosts /\ Query \in Packet /\ Query.kind = "query" /\ Cast(Client, Query)
      /\ UNCHANGED <<signals, name, wanted, running, steady>> /\ Query' = Query /\ at[Client] = "gap"
    BY PacketType DEF Hosts, Query, Scan, AskAgain, ghosts
<1>2. at'[Client] = "scan" /\ \A s \in Servers : at'[s] = at[s] /\ s \in Hosts /\ s # Client
    BY <1>1, HostsFinite, Goes1 DEF Scan
<1>3. lost \in Nat /\ lost' \in Nat /\ lost <= lost' /\ Grows
    BY <1>1, CastFacts, CastFeeds, LostType DEF HostsInv, TrafficInv
<1>4. ASSUME NEW s \in steady PROVE Serves(s)' /\ (Hopeful(s) => Hopeful(s)')
    <2>1. s \in Servers /\ Serves(s) /\ inbox[s] \in Seq(Packet) /\ Instance(s)' = Instance(s)
        BY <1>1 DEF ScanInv, HostsInv, GhostInv, TrafficInv, Instance
    <2>2. Serves(s)'
        BY <1>1, <1>2, <2>1 DEF Serves
    <2>3. lost' = lost => inbox'[s] = Append(inbox[s], Query)
        <3>1. Heeds(s, Query) /\ s \in Hosts \ {Client}
            BY <1>1, <1>2, <2>1 DEF Heeds, Serves
        <3> QED
            BY <1>1, <1>2, <3>1, CastFacts DEF Delivered
    <2>4. /\ Has(inbox[s], Query) => Has(inbox'[s], Query)
          /\ HasTwo(inbox[s], Query) => HasTwo(inbox'[s], Query)
        <3>1. Fed(s)
            BY <1>1, <2>1, CastFeeds
        <3> QED
            BY <2>1, <3>1, Appended DEF Fed
    <2>5. lost' = lost => /\ Has(inbox'[s], Query)
                          /\ Has(inbox[s], Query) => HasTwo(inbox'[s], Query)
        BY <1>1, <2>1, <2>3, Appended
    <2>6. lost' = lost /\ TwoChances(s) => TwoChances(s)'
        BY <1>1, <1>2, <2>1, <2>4, <2>5 DEF TwoChances
    <2>7. lost' = lost => OneChance(s)'
        BY <1>1, <2>5 DEF OneChance
    <2>8. TwoChances(s) => OneChance(s)'
        BY <1>1, <1>2, <2>1, <2>4, TwoIsOne DEF TwoChances, OneChance
    <2>9. /\ Instance(s) \in DOMAIN found => Instance(s) \in DOMAIN found'
          /\ lost' = 0 => lost = 0 /\ lost' = lost
          /\ lost' = 1 => lost' = lost \/ lost = 0
        BY <1>3 DEF Grows
    <2>10. Hopeful(s) => Hopeful(s)'
        BY <1>1, <1>2, <2>1, <2>6, <2>7, <2>8, <2>9 DEF Hopeful
    <2> QED
        BY <2>2, <2>10
<1> QED
    BY <1>1, <1>4 DEF ScanInv

LEMMA PrintResultsScan ==
    ASSUME HostsInv, ScanInv, PrintResults PROVE ScanInv'
<1>1. /\ Client \in Hosts /\ at[Client] = "scan" /\ lost \in Nat
      /\ UNCHANGED <<name, wanted, running, steady, found, lost>>
    BY LostType DEF Hosts, PrintResults, ghosts
<1>2. at'[Client] = "done" /\ \A s \in Servers : at'[s] = at[s]
    BY <1>1, HostsFinite, Goes1 DEF PrintResults
<1>3. ASSUME NEW s \in steady PROVE Serves(s)' /\ (Hopeful(s) => Hopeful(s)')
    <2>1. s \in Servers /\ Serves(s) /\ inbox[s] \in Seq(Packet) /\ Instance(s)' = Instance(s)
        BY <1>1 DEF ScanInv, HostsInv, GhostInv, TrafficInv, Instance
    <2>2. Serves(s)'
        BY <1>1, <1>2, <2>1 DEF Serves
    <2>3. ~OneChance(s) /\ ~TwoChances(s)
        <3>1. DOMAIN inbox[s] = 1..Len(inbox[s])
            BY <2>1, LenProperties
        <3>2. at[s] # "answer" /\ ~Has(inbox[s], Query)
            BY <2>1, <3>1 DEF PrintResults, Owes, Has
        <3> QED
            BY <1>1, <2>1, <3>2, TwoIsOne DEF OneChance, TwoChances
    <2>4. Hopeful(s) => Hopeful(s)'
        <3>1. lost # 0 /\ lost # 1 => lost > 1
            BY <1>1
        <3> QED
            BY <1>1, <1>2, <2>1, <2>3, <3>1 DEF Hopeful
    <2> QED
        BY <2>2, <2>4
<1> QED
    BY <1>1, <1>3 DEF ScanInv

LEMMA StepScan == HostsInv /\ HostsInv' /\ ScanInv /\ [Next]_vars => ScanInv'
<1> SUFFICES ASSUME HostsInv, HostsInv', ScanInv, [Next]_vars PROVE ScanInv'
    OBVIOUS
<1>1. CASE Ask \/ Scan \/ PrintResults
    BY <1>1, AskScan, ScanScan, PrintResultsScan
<1>2. ASSUME NEW t \in Servers, Start(t) \/ Signal(t) \/ Server(t) PROVE ScanInv'
    <2>1. at'[Client] = at[Client] /\ steady' \subseteq steady /\ (Signal(t) => t \notin steady')
        <3>1. t \in Hosts /\ t # Client /\ Client \in Hosts
            BY HostsFinite DEF Hosts
        <3>2. \/ UNCHANGED at
              \/ \E place, k, d : Goes(t, place, k, d)
            BY <1>2 DEF Start, Signal, Server, ProbeReceives, WindowEnds, Announce, Listen, Answer,
               Goodbye, Exit, program
        <3>3. at'[Client] = at[Client]
            BY <3>1, <3>2, Goes1
        <3> QED
            BY <1>2, <3>3 DEF Start, Signal, Server, ProbeReceives, WindowEnds, Announce, Listen, Answer,
               Goodbye, Exit, ghosts
    <2>2. ASSUME NEW s \in steady', at[Client] # "off"
          PROVE  Serves(s)' /\ (Cardinality(Servers) <= MAX_RESULTS => Hopeful(s)')
        <3>1. s \in Servers /\ Serves(s) /\ (Cardinality(Servers) <= MAX_RESULTS => Hopeful(s))
            BY <2>1, <2>2 DEF ScanInv, HostsInv, GhostInv
        <3>2. CASE s # t
            <4>1. Still(s) /\ Fed(s) /\ Grows
                BY <1>2, <3>1, <3>2, Apart
            <4> QED
                BY <2>1, <3>1, <4>1, HopeKept DEF Still, Serves
        <3>3. CASE s = t
            <4>1. CASE Listen(s)
                BY <3>1, <4>1, ListenHopeful
            <4>2. CASE Answer(s)
                <5>1. Serves(s)'
                    <6>1. s \in Hosts /\ "ready" \in Places
                        BY <3>1, HostsFinite DEF Places
                    <6> QED
                        BY <3>1, <4>2, <6>1, Goes1 DEF Answer, Serves
                <5> QED
                    BY <3>1, <4>2, <5>1, AnswerHopeful
            <4>3. Listen(s) \/ Answer(s)
                BY <1>2, <2>1, <2>2, <3>1, <3>3 DEF Serves, Start, Server, ProbeReceives, WindowEnds,
                   Announce, Goodbye, LoopEnds, Exit
            <4> QED
                BY <4>1, <4>2, <4>3
        <3> QED
            BY <3>2, <3>3
    <2> QED
        BY <2>1, <2>2 DEF ScanInv
<1>3. CASE Tick \/ UNCHANGED vars
    <2>1. UNCHANGED <<at, inbox, name, wanted, found, lost, running, steady>>
        BY <1>3 DEF Tick, vars, program, ghosts
    <2>2. \A s \in Servers : Fed(s) /\ Grows
        BY <2>1, SameGrows DEF Fed
    <2>3. steady \subseteq Servers
        BY DEF HostsInv, GhostInv
    <2> QED
        BY <2>1, <2>2, <2>3, HopeKept DEF ScanInv, Serves
<1> QED
    BY <1>1, <1>2, <1>3 DEF Next, Scanner

\* A scan finds every server that offers the service and answers throughout, with
\* the address of a server of its host name, though one copy of a packet, a query's
\* or an answer's, is lost: whatever else the servers and their namesakes do.
THEOREM ScanMissesNobody == Spec => []ScanFindsAll
<1>1. Init => ScanInv
    <2>1. Client \in Hosts
        BY DEF Hosts
    <2> QED
        BY <2>1 DEF Init, ScanInv
<1>2. HostsInv /\ ScanInv => ScanFindsAll
    <2> SUFFICES ASSUME HostsInv, ScanInv, at[Client] = "done", lost <= 1,
                        Cardinality(Servers) <= MAX_RESULTS, NEW s \in steady, Service[s] = wanted
                 PROVE  /\ Instance(s) \in DOMAIN found
                        /\ name[found[Instance(s)]] = name[s]
        BY DEF ScanFindsAll
    <2>1. Instance(s) \in DOMAIN found
        <3>1. ~(lost > 1)
            BY LostType
        <3> QED
            BY <3>1 DEF ScanInv, Hopeful
    <2>2. Instance(s)[1] = name[s]
        BY DEF Instance
    <2> QED
        BY <2>1, <2>2 DEF HostsInv, FoundInv
<1> QED
    BY <1>1, <1>2, StepScan, HostsAlways, PTL DEF Spec

-----------------------------------------------------------------------------
(***************************************************************************)
(* The probe.  While a server probes, one that was there before it has a   *)
(* response on the way or still to make, in fewer ticks than the windows   *)
(* last that are left.                                                     *)
(***************************************************************************)
Left(s) == (3 - n[s]) + timer[s]
Warned(s, t) == Has(inbox[s], Response(t)) /\ Left(s) > 0

\* The ticks after which it has made one, at most.
Tells(t) == IF at[t] = "probe" THEN Left(t) ELSE IF at[t] = "ready" THEN 1 ELSE timer[t]
WillTell(s, t) ==
    /\ at[t] \in {"probe", "announce", "answer"} \/ (at[t] = "ready" /\ Has(inbox[t], Probe(t)))
    /\ Tells(t) < Left(s)

Audible(s, t) == lost = 0 /\ running[s] /\ running[t] /\ name[t] = name[s]
Rivals(s, t) ==
    Audible(s, t) =>
        /\ at[s] = "probe" => Warned(s, t) \/ WillTell(s, t)
        /\ Probed(s) => conflict[s]
RivalInv == \A s \in Servers : \A t \in rival[s] : Rivals(s, t)

LEMMA Times ==
    HostsInv => \A s \in Servers : timer[s] \in 0..1 /\ n[s] \in 0..3 /\ Left(s) \in 0..4
BY HostsFinite DEF HostsInv, ProgramInv, Left

LEMMA StillAudible ==
    ASSUME HostsInv, NEW s \in Servers, NEW t \in Servers, Grows, Audible(s, t)',
           running'[s] => running[s], running'[t] => running[t]
    PROVE  Audible(s, t) /\ lost' = lost
BY LostType DEF Grows, Audible

LEMMA SamePackets == \A t \in Servers : Grows => Probe(t)' = Probe(t) /\ Response(t)' = Response(t)
BY DEF Grows, Probe, Response

LEMMA FedHas ==
    ASSUME HostsInv, NEW s \in Servers, Fed(s), NEW x
    PROVE  Has(inbox[s], x) => Has(inbox'[s], x)
<1>1. inbox[s] \in Seq(Packet)
    BY DEF HostsInv, TrafficInv
<1> QED
    BY <1>1, Appended DEF Fed

\* Two servers that do nothing.
LEMMA RivalsKept ==
    ASSUME HostsInv, NEW s \in Servers, NEW t \in Servers, Rivals(s, t),
           Still(s), Still(t), Fed(s), Fed(t), Grows
    PROVE  Rivals(s, t)'
<1> SUFFICES ASSUME Audible(s, t)'
             PROVE  /\ at'[s] = "probe" => Warned(s, t)' \/ WillTell(s, t)'
                    /\ Probed(s)' => conflict'[s]
    BY DEF Rivals
<1>1. Audible(s, t)
    BY StillAudible DEF Still
<1>2. /\ Has(inbox[s], Response(t)) => Has(inbox'[s], Response(t)')
      /\ Has(inbox[t], Probe(t)) => Has(inbox'[t], Probe(t)')
    BY SamePackets, FedHas
<1>3. Left(s)' = Left(s) /\ Left(t)' = Left(t) /\ Tells(t)' = Tells(t)
    BY DEF Still, Left, Tells
<1>4. (Warned(s, t) => Warned(s, t)') /\ (WillTell(s, t) => WillTell(s, t)')
    BY <1>2, <1>3 DEF Warned, WillTell, Still
<1> QED
    BY <1>1, <1>4 DEF Rivals, Still, Probed

\* The one that was there first does something.
LEMMA FirstActs ==
    ASSUME HostsInv, NEW s \in Servers, NEW t \in Servers \ {s}, Rivals(s, t),
           Start(t) \/ Signal(t) \/ Server(t)
    PROVE  Rivals(s, t)'
<1>1. Still(s) /\ Fed(s) /\ Grows
    BY Apart
<1>2. running'[t] => running[t]
    BY DEF Start, Signal, Server, ProbeReceives, WindowEnds, Announce, Listen, Answer, Goodbye, Exit,
       HostsInv, ProgramInv
<1> SUFFICES ASSUME Audible(s, t)'
             PROVE  /\ at'[s] = "probe" => Warned(s, t)' \/ WillTell(s, t)'
                    /\ Probed(s)' => conflict'[s]
    BY DEF Rivals
<1>3. Audible(s, t) /\ lost' = lost
    BY <1>1, <1>2, StillAudible DEF Still
<1>4. Probed(s)' => conflict'[s]
    BY <1>1, <1>3 DEF Rivals, Still, Probed
<1>5. t \in Hosts /\ s \in Hosts /\ s # Client /\ Response(t) \in Packet
    BY HostsFinite, PacketType
<1>6. /\ timer[t] \in 0..1 /\ n[t] \in 0..3 /\ Left(t) \in 0..4 /\ Left(s) \in 0..4
      /\ Left(s)' = Left(s) /\ Tells(t) \in 0..4
    BY <1>1, Times DEF Left, Still, Tells
<1>7. Warned(s, t) => Warned(s, t)'
    BY <1>1, <1>6, SamePackets, FedHas DEF Warned
<1>8. ASSUME at[s] = "probe", WillTell(s, t) PROVE Warned(s, t)' \/ WillTell(s, t)'
    <2>1. Left(s) > 0
        BY <1>6, <1>8 DEF WillTell
    <2>2. CASE ProbeReceives(t) /\ SameHost(t, Head(inbox[t]))
        <3>1. at'[t] = "announce" /\ timer'[t] = 0
            BY <1>5, <2>2, Goes1 DEF ProbeReceives
        <3> QED
            BY <1>6, <2>1, <3>1 DEF WillTell, Tells
    <2>3. CASE ProbeReceives(t) /\ ~SameHost(t, Head(inbox[t]))
        <3>1. at[t] = "probe" /\ UNCHANGED <<at, n, timer>>
            BY <2>3 DEF ProbeReceives, program
        <3> QED
            BY <1>6, <1>8, <3>1 DEF WillTell, Tells, Left
    <2>4. CASE WindowEnds(t)
        <3>1. at[t] = "probe" /\ timer[t] = 0
            BY <2>4 DEF WindowEnds
        <3>2. CASE n[t] < 3
            <4>1. at'[t] = "probe" /\ n'[t] = n[t] + 1 /\ timer'[t] = 1
                BY <1>5, <2>4, <3>2, Goes1 DEF WindowEnds, MoreProbes, Window
            <4>2. Left(t)' = Left(t)
                BY <1>6, <3>1, <4>1 DEF Left
            <4> QED
                BY <1>6, <1>8, <3>1, <4>1, <4>2 DEF WillTell, Tells
        <3>3. CASE ~(n[t] < 3)
            <4>1. at'[t] = "announce" /\ timer'[t] = 0
                BY <1>5, <2>4, <3>3, Goes1 DEF WindowEnds, MoreProbes
            <4> QED
                BY <1>6, <2>1, <4>1 DEF WillTell, Tells
        <3> QED
            BY <3>2, <3>3
    <2>5. CASE Announce(t) \/ Answer(t)
        <3>1. Cast(t, Response(t)) /\ signals' = signals
            BY <2>5 DEF Announce, Answer
        <3>2. Heeds(s, Response(t))
            BY <1>5, <1>8 DEF Heeds
        <3>3. inbox'[s] = Append(inbox[s], Response(t))
            BY <1>3, <1>5, <3>1, <3>2, CastFacts DEF Delivered
        <3>4. Has(inbox'[s], Response(t))
            BY <1>5, <3>3, Appended DEF HostsInv, TrafficInv
        <3> QED
            BY <1>1, <1>6, <2>1, <3>4, SamePackets DEF Warned
    <2>6. CASE Listen(t)
        <3>1. /\ at[t] = "ready" /\ inbox[t] # <<>> /\ inbox[t] \in Seq(Packet) /\ Has(inbox[t], Probe(t))
              /\ inbox'[t] = Tail(inbox[t])
            BY <1>8, <2>6 DEF Listen, Popped, WillTell, HostsInv, TrafficInv
        <3>2. CASE Matches(t, Head(inbox[t]))
            <4>1. PICK d \in 0..1 : Goes(t, "answer", 0, d)
                BY <2>6, <3>2 DEF Listen
            <4>2. at'[t] = "answer" /\ timer'[t] = d
                BY <1>5, <4>1, Goes1
            <4>3. 1 < Left(s)
                BY <1>8, <3>1 DEF WillTell, Tells
            <4> QED
                BY <1>6, <4>2, <4>3 DEF WillTell, Tells
        <3>3. CASE ~Matches(t, Head(inbox[t]))
            <4>1. Head(inbox[t]) # Probe(t)
                BY <3>3 DEF Matches, Probe
            <4>2. Has(inbox'[t], Probe(t)) /\ UNCHANGED <<at, n, timer>>
                BY <2>6, <3>1, <3>3, <4>1, Removed DEF Listen, program
            <4> QED
                BY <1>1, <1>6, <1>8, <3>1, <4>2, SamePackets DEF WillTell, Tells
        <3> QED
            BY <3>2, <3>3
    <2>7. ~Start(t) /\ ~Signal(t) /\ ~Goodbye(t) /\ ~Exit(t)
        <3>1. running[t] /\ running'[t] /\ at[t] \in {"probe", "announce", "answer", "ready"}
            BY <1>3, <1>8 DEF Audible, WillTell
        <3> QED
            BY <3>1 DEF Start, Signal, Goodbye, LoopEnds, Exit, HostsInv, ProgramInv
    <2> QED
        BY <2>2, <2>3, <2>4, <2>5, <2>6, <2>7 DEF Server
<1> QED
    BY <1>1, <1>3, <1>4, <1>7, <1>8 DEF Rivals, Still

\* The one that probes does something; it began when the other was there.
LEMMA StartRivals ==
    ASSUME HostsInv, HostsInv', NEW s \in Servers, Start(s), NEW t \in rival'[s]
    PROVE  Rivals(s, t)'
<1>1. t \in Servers \ {s} /\ t \in On /\ (at[t] = "probe" /\ n[t] = 1 => timer[t] < 1)
    <2>1. rival \in [Servers -> SUBSET Servers]
        BY DEF HostsInv, GhostInv
    <2> QED
        BY <2>1 DEF Start, Window
<1>2. Still(t) /\ Fed(t) /\ Grows
    BY <1>1, Apart
<1>3. /\ s \in Hosts /\ t \in Hosts /\ t # Client /\ Probe(s) \in Packet /\ Probe(s).kind = "probe"
      /\ Cast(s, Probe(s)) /\ signals' = signals /\ running' = running
    BY <1>1, HostsFinite, PacketType DEF Start, Probe
<1>4. at'[s] = "probe" /\ n'[s] = 1 /\ timer'[s] = 1
    BY <1>3, Goes1 DEF Start, Window
<1>5. Left(s)' = 3 /\ ~Probed(s)'
    BY <1>4 DEF Left, Probed
<1> SUFFICES ASSUME Audible(s, t)' PROVE WillTell(s, t)'
    BY <1>5 DEF Rivals
<1>6. Audible(s, t) /\ lost' = lost
    BY <1>1, <1>2, <1>3, StillAudible
<1>7. at[t] \in {"probe", "announce", "ready", "answer"}
    BY <1>1, <1>6 DEF On, Audible, HostsInv, ProgramInv, ServerPlaces, Places
<1>8. /\ timer[t] \in 0..1 /\ (at[t] = "probe" => n[t] \in 1..3)
      /\ at'[t] = at[t] /\ n'[t] = n[t] /\ timer'[t] = timer[t]
    BY <1>1, <1>2, Times DEF Still, HostsInv, ProgramInv
<1>9. Tells(t)' < 3
    <2>1. CASE at[t] = "probe"
        <3>1. (3 - n[t]) + timer[t] < 3
            BY <1>1, <1>8, <2>1
        <3> QED
            BY <1>8, <2>1, <3>1 DEF Tells, Left
    <2>2. CASE at[t] # "probe"
        BY <1>8, <2>2 DEF Tells
    <2> QED
        BY <2>1, <2>2
<1>10. at[t] = "ready" => Has(inbox'[t], Probe(t)')
    <2>1. CASE at[t] = "ready"
        <3>1. Heeds(t, Probe(s))
            BY <1>3, <2>1 DEF Heeds
        <3>2. inbox'[t] = Append(inbox[t], Probe(s))
            BY <1>1, <1>3, <1>6, <3>1, CastFacts DEF Delivered
        <3>3. Probe(t)' = Probe(s)
            BY <1>2, <1>6 DEF Probe, Audible, Grows
        <3> QED
            BY <1>1, <1>3, <3>2, <3>3, Appended DEF HostsInv, TrafficInv
    <2> QED
        BY <2>1
<1> QED
    BY <1>5, <1>7, <1>8, <1>9, <1>10 DEF WillTell

LEMMA SecondActs ==
    ASSUME HostsInv, HostsInv', NEW s \in Servers, Start(s) \/ Signal(s) \/ Server(s), NEW t \in rival'[s],
           t \in rival[s] => Rivals(s, t)
    PROVE  Rivals(s, t)'
<1>1. CASE Start(s)
    BY <1>1, StartRivals
<1>2. CASE ~Start(s)
    <2>1. rival' = rival /\ t \in Servers \ {s} /\ Rivals(s, t)
        BY <1>2 DEF Signal, Server, ProbeReceives, WindowEnds, Announce, Listen, Answer, Goodbye, Exit,
           ghosts, HostsInv, GhostInv
    <2>2. Still(t) /\ Fed(t) /\ Grows
        BY <2>1, Apart
    <2>3. running \in [Servers -> BOOLEAN] /\ (running'[s] => running[s])
        BY <1>2 DEF Signal, Server, ProbeReceives, WindowEnds, Announce, Listen, Answer, Goodbye, Exit,
           HostsInv, ProgramInv
    <2> SUFFICES ASSUME Audible(s, t)'
                 PROVE  /\ at'[s] = "probe" => Warned(s, t)' \/ WillTell(s, t)'
                        /\ Probed(s)' => conflict'[s]
        BY DEF Rivals
    <2>4. Audible(s, t)
        BY <2>1, <2>2, <2>3, StillAudible DEF Still
    <2>5. /\ s \in Hosts /\ s # Client /\ inbox[s] \in Seq(Packet) /\ conflict \in [Servers -> BOOLEAN]
        BY HostsFinite DEF HostsInv, TrafficInv, GhostInv
    <2>6. /\ timer[s] \in 0..1 /\ n[s] \in 0..3 /\ Left(s) \in 0..4 /\ Left(t) \in 0..4
          /\ timer[t] \in 0..1 /\ Tells(t) \in 0..4 /\ Tells(t)' = Tells(t)
        BY <2>1, <2>2, Times DEF Tells, Still, Left
    <2>7. ~Signal(s)
        BY <2>3 DEF Signal, Audible
    <2>8. ASSUME Left(s)' = Left(s), Has(inbox[s], Response(t)) => Has(inbox'[s], Response(t))
          PROVE  Warned(s, t) \/ WillTell(s, t) => Warned(s, t)' \/ WillTell(s, t)'
        BY <2>1, <2>2, <2>6, <2>8, SamePackets, FedHas DEF Warned, WillTell, Still
    <2>9. CASE ProbeReceives(s)
        <3>1. CASE SameHost(s, Head(inbox[s]))
            <4>1. at'[s] = "announce" /\ conflict'[s] = TRUE
                BY <2>5, <2>9, <3>1, Goes1 DEF ProbeReceives
            <4> QED
                BY <4>1
        <3>2. CASE ~SameHost(s, Head(inbox[s]))
            <4>1. /\ at[s] = "probe" /\ UNCHANGED <<at, n, timer>> /\ inbox[s] # <<>>
                  /\ inbox'[s] = Tail(inbox[s])
                BY <2>9, <3>2 DEF ProbeReceives, program, Popped, HostsInv, TrafficInv
            <4>2. Head(inbox[s]) # Response(t)
                BY <2>4, <3>2 DEF SameHost, Response, Audible
            <4>3. Has(inbox[s], Response(t)) => Has(inbox'[s], Response(t))
                BY <2>5, <4>1, <4>2, Removed
            <4>4. Left(s)' = Left(s)
                BY <4>1 DEF Left
            <4> QED
                BY <2>1, <2>4, <2>8, <4>1, <4>3, <4>4 DEF Rivals, Probed
        <3> QED
            BY <3>1, <3>2
    <2>10. CASE WindowEnds(s)
        <3>1. at[s] = "probe" /\ timer[s] = 0 /\ (Warned(s, t) \/ WillTell(s, t))
            BY <2>1, <2>4, <2>10 DEF WindowEnds, Rivals
        <3>2. n[s] < 3
            BY <2>6, <3>1 DEF Warned, WillTell, Left
        <3>3. at'[s] = "probe" /\ n'[s] = n[s] + 1 /\ timer'[s] = 1 /\ Cast(s, Probe(s))
            BY <2>5, <2>10, <3>2, Goes1 DEF WindowEnds, MoreProbes, Window
        <3>4. Left(s)' = Left(s)
            BY <2>6, <3>1, <3>3 DEF Left
        <3>5. Probe(s) \in Packet /\ signals' = signals
            BY <2>10, PacketType DEF WindowEnds
        <3>6. inbox'[s] = inbox[s]
            BY <2>5, <3>3, <3>5, CastFacts DEF Ignored
        <3> QED
            BY <2>8, <3>1, <3>3, <3>4, <3>6 DEF Probed
    <2>11. CASE Announce(s) \/ Listen(s) \/ Answer(s)
        <3>1. Probed(s) /\ conflict' = conflict
            BY <2>4, <2>11 DEF Announce, Listen, Answer, Probed, Audible
        <3>2. at'[s] \in {"announce", "ready", "answer"}
            BY <2>5, <2>11, Goes1 DEF Announce, Listen, Answer, program
        <3> QED
            BY <2>1, <2>4, <3>1, <3>2 DEF Rivals
    <2>12. CASE Goodbye(s) \/ Exit(s)
        <3>1. at'[s] \in {"goodbye", "done"}
            BY <2>5, <2>12, Goes1 DEF Goodbye, Exit
        <3> QED
            BY <3>1 DEF Probed
    <2> QED
        BY <1>2, <2>7, <2>9, <2>10, <2>11, <2>12 DEF Server
<1> QED
    BY <1>1, <1>2

\* Time passes.
LEMMA TickRivals ==
    ASSUME HostsInv, NEW s \in Servers, NEW t \in Servers, Rivals(s, t), Tick
    PROVE  Rivals(s, t)'
<1>1. /\ UNCHANGED <<at, n, inbox, name, running, conflict, wanted, found, lost>>
      /\ \A h \in Servers : timer'[h] = IF timer[h] > 0 THEN timer[h] - 1 ELSE 0
    BY HostsFinite DEF Tick
<1>2. Audible(s, t)' = Audible(s, t) /\ Probed(s)' = Probed(s) /\ Probe(t)' = Probe(t)
    BY <1>1 DEF Audible, Probed, Probe
<1>3. ASSUME at[s] = "probe", Warned(s, t) \/ WillTell(s, t)
      PROVE  WillTell(s, t)'
    <2>1. ~Due(s) /\ ~Due(t)
        BY DEF Tick
    <2>2. /\ timer[s] \in 0..1 /\ n[s] \in 0..3 /\ timer[t] \in 0..1 /\ n[t] \in 0..3
        BY Times
    <2>3. timer[s] = 1 /\ inbox[s] = <<>>
        BY <1>3, <2>1, <2>2 DEF Due
    <2>4. ~Warned(s, t) /\ ~Has(<<>>, Probe(t))
        BY <2>3 DEF Warned, Has
    <2>5. timer[t] = 1 /\ at[t] \in {"probe", "announce", "answer"}
        BY <1>3, <2>1, <2>2, <2>4 DEF WillTell, Due
    <2>6. Left(s)' = Left(s) - 1 /\ Left(t)' = Left(t) - 1 /\ timer'[t] = timer[t] - 1
        BY <1>1, <2>2, <2>3, <2>5 DEF Left
    <2>7. /\ Tells(t) \in 0..4 /\ Left(s) \in 0..4 /\ Left(t) \in 0..4 /\ Tells(t) < Left(s)
          /\ Tells(t)' = Tells(t) - 1
        BY <1>1, <1>3, <2>2, <2>4, <2>5, <2>6, Times DEF Tells, WillTell
    <2> QED
        BY <1>1, <2>5, <2>6, <2>7 DEF WillTell
<1> QED
    BY <1>1, <1>2, <1>3 DEF Rivals

LEMMA StepRivals == HostsInv /\ HostsInv' /\ RivalInv /\ [Next]_vars => RivalInv'
<1> SUFFICES ASSUME HostsInv, HostsInv', RivalInv, [Next]_vars,
                    NEW s \in Servers, NEW t \in rival'[s]
             PROVE  Rivals(s, t)'
    BY DEF RivalInv
<1>1. t \in Servers \ {s} /\ (t \in rival[s] => Rivals(s, t))
    BY DEF HostsInv, GhostInv, RivalInv
<1>2. CASE Ask \/ Scanner
    <2>1. Client \in Hosts /\ Query \in Packet /\ Query.kind = "query" /\ s # Client /\ t # Client
          /\ s \in Hosts /\ t \in Hosts
        BY <1>1, HostsFinite, PacketType DEF Hosts, Query
    <2>2. /\ UNCHANGED <<name, wanted, signals, running, conflict, rival>>
          /\ Cast(Client, Query) \/ UNCHANGED <<inbox, found, lost>>
          /\ \E place, k : Goes(Client, place, k, 0)
        BY <1>2 DEF Ask, Scanner, Scan, PrintResults, AskAgain, ghosts
    <2>3. Still(s) /\ Still(t)
        BY <2>1, <2>2, Goes1 DEF Still
    <2>4. Fed(s) /\ Fed(t) /\ Grows
        BY <1>1, <2>1, <2>2, CastFeeds, SameGrows DEF Fed
    <2> QED
        BY <1>1, <2>2, <2>3, <2>4, RivalsKept
<1>3. CASE Tick
    BY <1>1, <1>3, TickRivals DEF Tick, ghosts
<1>4. ASSUME NEW r \in Servers, Start(r) \/ Signal(r) \/ Server(r) PROVE Rivals(s, t)'
    <2>1. CASE r = s
        BY <1>1, <1>4, <2>1, SecondActs
    <2>2. CASE r # s
        <3>1. Still(s) /\ Fed(s) /\ Grows
            BY <1>4, <2>2, Apart
        <3>2. Rivals(s, t)
            BY <1>1, <3>1 DEF Still
        <3>3. CASE r = t
            BY <1>1, <1>4, <3>2, <3>3, FirstActs
        <3>4. CASE r # t
            <4>1. Still(t) /\ Fed(t)
                BY <1>1, <1>4, <3>4, Apart
            <4> QED
                BY <1>1, <3>1, <3>2, <4>1, RivalsKept
        <3> QED
            BY <3>3, <3>4
    <2> QED
        BY <2>1, <2>2
<1>5. CASE UNCHANGED vars
    <2>1. /\ UNCHANGED <<at, n, timer, inbox, name, running, conflict, wanted, found, lost, rival>>
        BY <1>5 DEF vars, program, ghosts
    <2>2. Still(s) /\ Still(t) /\ Fed(s) /\ Fed(t) /\ Grows
        BY <2>1, SameGrows DEF Still, Fed
    <2> QED
        BY <1>1, <2>1, <2>2, RivalsKept
<1> QED
    BY <1>2, <1>3, <1>4, <1>5 DEF Next

\* Of two servers with one host name the later one notices, be the other probing,
\* announcing or answering when it starts: as long as no copy is lost, no signal
\* reaches either, and it does not start in the tick the other does.
THEOREM LaterNotices == Spec => []LaterOneNotices
<1>1. Init => RivalInv
    BY DEF Init, RivalInv
<1>2. HostsInv /\ RivalInv => LaterOneNotices
    BY DEF LaterOneNotices, RivalInv, Rivals, Audible, Probed
<1> QED
    BY <1>1, <1>2, StepRivals, HostsAlways, PTL DEF Spec
=============================================================================
