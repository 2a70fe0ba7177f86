-------------------------------- MODULE Herald --------------------------------
(***************************************************************************)
(* general/package/herald/src: herald-server.c, which probes for its host  *)
(* name, announces its service and answers queries, and herald-client.c,   *)
(* which asks for a service and lists what it hears, on one network.       *)
(*                                                                         *)
(* Time passes in ticks of 250 ms; a shorter wait ends in this tick or the *)
(* next.  A copy of a packet arrives in the tick it is sent in, or is lost;*)
(* hosts do not hear themselves (IP_MULTICAST_LOOP is off, and there is one*)
(* program a host).  The client's time-out, four seconds and more unless   *)
(* it is asked for less, is longer than any server takes to answer.        *)
(***************************************************************************)
EXTENDS Naturals, Sequences, FiniteSets

CONSTANTS
    Servers, Client, \* the hosts
    Service,         \* what each server offers; the client asks for one of them
    Namings,         \* the host names the servers are given: a set of functions
    MAX_RESULTS,     \* the client's list
    MaxFaults        \* bound: copies of packets lost and servers stopped

ASSUME HostsAssumption == Client \notin Servers /\ IsFiniteSet(Servers)
ASSUME ListAssumption == MAX_RESULTS \in Nat \ {0}
ASSUME BoundsAssumption == MaxFaults \in Nat

VARIABLES
    at,       \* of each host: where its program is
    n,        \* of each host: probes, announcements or queries sent in this part
    timer,    \* of each host: ticks to the end of the wait it is in
    inbox,    \* of each server: the packets its socket holds
    name,     \* the host name of each server
    running,  \* g_running of each server
    conflict, \* of each server: probe_hostname found a conflict
    wanted,   \* the service the client asks for
    found,    \* g_devices: the address listed for each instance
    lost,     \* copies lost
    signals,
    rival,    \* of each server: the servers that were running a tick before it began
    steady    \* the servers that have been answering since the scan began

Window == 1  \* ticks

program == <<at, n, timer>>
ghosts == <<rival, steady>>
vars == <<program, inbox, name, running, conflict, wanted, found, lost, signals, ghosts>>

Hosts == Servers \cup {Client}
Instance(s) == <<name[s], Service[s]>>
On == {h \in Hosts : at[h] \notin {"off", "done"}}

-----------------------------------------------------------------------------
(* Packets *)

Probe(s) == [kind |-> "probe", about |-> name[s]]
Query == [kind |-> "query", about |-> wanted]
Response(s) == [kind |-> "response", from |-> s]  \* PTR, SRV, TXT and A

\* A host that would read the packet and not just throw it away: the client wants
\* responses, a server past its probe questions.
Heeds(h, packet) ==
    IF h = Client THEN at[h] \in {"gap", "scan"} /\ packet.kind = "response"
    ELSE at[h] = "probe" \/ (at[h] \in {"announce", "ready", "answer"} /\ packet.kind # "response")

\* parse_response, parse_rr and get_device for the four records: PTR and SRV find or
\* create the instance, A gives its address to every device on that host.
Register(s) ==
    LET known == DOMAIN found \cup
                 (IF Cardinality(DOMAIN found) < MAX_RESULTS THEN {Instance(s)} ELSE {})
    IN  [i \in known |-> IF i[1] = name[s] THEN s ELSE found[i]]

\* herald_send, send_query, and what the network makes of it.  The client does
\* nothing but collect: a response counts for it as it arrives.
Cast(h, packet) ==
    LET hearers == {g \in Hosts \ {h} : Heeds(g, packet)}
    IN  \E L \in SUBSET hearers :
            /\ lost + signals + Cardinality(L) <= MaxFaults
            /\ lost' = lost + Cardinality(L)
            /\ inbox' = [s \in Servers |->
                   IF s \in hearers \ L THEN Append(inbox[s], packet) ELSE inbox[s]]
            /\ found' = IF Client \in hearers \ L THEN Register(h) ELSE found

Popped(h) == [inbox EXCEPT ![h] = Tail(@)]

\* Host h goes to `place`, having sent k of what it sends there, for t ticks.
Goes(h, place, k, t) ==
    /\ at' = [at EXCEPT ![h] = place]
    /\ n' = [n EXCEPT ![h] = k]
    /\ timer' = [timer EXCEPT ![h] = t]

-----------------------------------------------------------------------------
Init ==
    /\ at = [h \in Hosts |-> "off"] /\ n = [h \in Hosts |-> 0] /\ timer = [h \in Hosts |-> 0]
    /\ inbox = [s \in Servers |-> <<>>]
    /\ name \in Namings
    /\ running = [s \in Servers |-> TRUE] /\ conflict = [s \in Servers |-> FALSE]
    /\ wanted \in {Service[s] : s \in Servers} /\ found = [i \in {} |-> Client]
    /\ lost = 0 /\ signals = 0
    /\ rival = [s \in Servers |-> {}] /\ steady = {}

\* main() up to the first probe of probe_hostname.
Start(s) ==
    /\ at[s] = "off"
    /\ Goes(s, "probe", 1, Window)
    /\ Cast(s, Probe(s))
    /\ rival' = [rival EXCEPT ![s] =
           {t \in Servers \ {s} : t \in On /\ (at[t] = "probe" /\ n[t] = 1 => timer[t] < Window)}]
    /\ UNCHANGED <<name, running, conflict, wanted, signals, steady>>

\* response_contains_name
SameHost(s, m) == m.kind = "response" /\ name[m.from] = name[s]

ProbeReceives_Once(s) ==  \* mutant: one packet for each window
    /\ at[s] = "probe" /\ inbox[s] # <<>> /\ timer[s] > 0
    /\ inbox' = [inbox EXCEPT ![s] = <<>>]
    /\ IF SameHost(s, Head(inbox[s]))
       THEN Goes(s, "announce", 0, 0) /\ conflict' = [conflict EXCEPT ![s] = TRUE]
       ELSE Goes(s, "probe", n[s], 0) /\ UNCHANGED conflict
    /\ UNCHANGED <<name, running, wanted, found, lost, signals, ghosts>>

\* A conflict is logged, and the announcements go on as they would without it.
ProbeReceives(s) ==
    /\ at[s] = "probe" /\ inbox[s] # <<>> /\ timer[s] > 0
    /\ inbox' = Popped(s)
    /\ IF SameHost(s, Head(inbox[s]))
       THEN Goes(s, "announce", 0, 0) /\ conflict' = [conflict EXCEPT ![s] = TRUE]
       ELSE UNCHANGED <<program, conflict>>
    /\ UNCHANGED <<name, running, wanted, found, lost, signals, ghosts>>

\* A window closes: the next of three probes, or no conflict.
MoreProbes_Fourth(s) == n[s] <= 3  \* mutant: one probe too many
MoreProbes(s) == n[s] < 3

WindowEnds(s) ==
    /\ at[s] = "probe" /\ timer[s] = 0
    /\ IF MoreProbes(s)
       THEN Goes(s, "probe", n[s] + 1, Window) /\ Cast(s, Probe(s))
       ELSE Goes(s, "announce", 0, 0) /\ UNCHANGED <<inbox, lost, found>>
    /\ UNCHANGED <<name, running, conflict, wanted, signals, ghosts>>

\* Three announcements; the socket is not read between them.
Announce(s) ==
    /\ at[s] = "announce" /\ timer[s] = 0
    /\ Cast(s, Response(s))
    /\ IF n[s] < 2 THEN Goes(s, "announce", n[s] + 1, Window) ELSE Goes(s, "ready", 0, 0)
    /\ UNCHANGED <<name, running, conflict, wanted, signals, ghosts>>

\* classify_query
Matches(s, m) ==
    \/ m.kind = "query" /\ m.about = Service[s]
    \/ m.kind = "probe" /\ m.about = name[s]

\* The main loop: a packet, and 20 to 120 ms of waiting if it is answered.
Listen(s) ==
    /\ at[s] = "ready" /\ running[s] /\ inbox[s] # <<>>
    /\ inbox' = Popped(s)
    /\ IF Matches(s, Head(inbox[s]))
       THEN \E t \in {0, 1} : Goes(s, "answer", 0, t)
       ELSE UNCHANGED program
    /\ UNCHANGED <<name, running, conflict, wanted, found, lost, signals, ghosts>>

Answer(s) ==
    /\ at[s] = "answer" /\ timer[s] = 0
    /\ Cast(s, Response(s))
    /\ Goes(s, "ready", 0, 0)
    /\ UNCHANGED <<name, running, conflict, wanted, signals, ghosts>>

LoopEnds_Blind(s) == FALSE  \* mutant: the loop is endless
LoopEnds(s) == ~running[s]

\* Two responses with a TTL of 0, 100 ms after each.  The client looks at no TTL.
Goodbye(s) ==
    /\ \/ at[s] = "ready" /\ LoopEnds(s)
       \/ at[s] = "goodbye" /\ timer[s] = 0 /\ n[s] < 2
    /\ Cast(s, Response(s))
    /\ \E t \in {0, 1} : Goes(s, "goodbye", (IF at[s] = "ready" THEN 0 ELSE n[s]) + 1, t)
    /\ UNCHANGED <<name, running, conflict, wanted, signals, ghosts>>

Exit(s) ==
    /\ at[s] = "goodbye" /\ timer[s] = 0 /\ n[s] = 2
    /\ Goes(s, "done", 0, 0)
    /\ inbox' = [inbox EXCEPT ![s] = <<>>]
    /\ UNCHANGED <<name, running, conflict, wanted, found, lost, signals, ghosts>>

\* SIGINT or SIGTERM: looked at in the main loop only, but it cuts the wait short,
\* poll and usleep alike.
Signal(s) ==
    /\ s \in On /\ running[s] /\ lost + signals < MaxFaults
    /\ signals' = signals + 1
    /\ running' = [running EXCEPT ![s] = FALSE]
    /\ timer' = [timer EXCEPT ![s] = 0]
    /\ steady' = steady \ {s}
    /\ UNCHANGED <<at, n, inbox, name, conflict, wanted, found, lost, rival>>

-----------------------------------------------------------------------------
(* herald-client *)

Ready == {s \in Servers : at[s] \in {"ready", "answer"} /\ running[s]}

\* The first query; the second comes 200 ms later.
Ask ==
    /\ at[Client] = "off"
    /\ Goes(Client, "gap", 1, 0)
    /\ Cast(Client, Query)
    /\ steady' = Ready
    /\ UNCHANGED <<name, running, conflict, wanted, signals, rival>>

AskAgain_Not == UNCHANGED <<inbox, lost, found>>  \* mutant: one query
AskAgain == Cast(Client, Query)

Scan ==
    /\ at[Client] = "gap"
    /\ AskAgain
    /\ Goes(Client, "scan", 2, 0)
    /\ UNCHANGED <<name, running, conflict, wanted, signals, ghosts>>

\* The deadline: print_results.
Owes(s) == at[s] = "answer" \/ \E i \in DOMAIN inbox[s] : inbox[s][i] = Query

PrintResults ==
    /\ at[Client] = "scan"
    /\ \A s \in Servers : ~Owes(s)
    /\ Goes(Client, "done", 0, 0)
    /\ UNCHANGED <<inbox, name, running, conflict, wanted, found, lost, signals, ghosts>>

-----------------------------------------------------------------------------
\* A server does what is due before time passes: a wait that is over, a packet where
\* it waits for packets.
Due(s) ==
    \/ at[s] \in {"probe", "announce", "answer", "goodbye"} /\ timer[s] = 0
    \/ at[s] \in {"probe", "ready"} /\ inbox[s] # <<>>
    \/ at[s] = "ready" /\ ~running[s]

Tick ==
    /\ \A s \in Servers : ~Due(s)
    /\ \E h \in Servers : timer[h] > 0
    /\ timer' = [h \in Hosts |-> IF timer[h] > 0 THEN timer[h] - 1 ELSE 0]
    /\ UNCHANGED <<at, n, inbox, name, running, conflict, wanted, found, lost, signals, ghosts>>

Server(s) ==
    \/ ProbeReceives(s) \/ WindowEnds(s) \/ Announce(s) \/ Listen(s) \/ Answer(s)
    \/ Goodbye(s) \/ Exit(s)
Scanner == Scan \/ PrintResults

Next ==
    \/ Tick \/ Ask \/ Scanner
    \/ \E s \in Servers : Start(s) \/ Signal(s) \/ Server(s)

\* The programs run and time passes.
Spec ==
    /\ Init /\ [][Next]_vars
    /\ WF_vars(Tick) /\ WF_vars(Scanner)
    /\ \A s \in Servers : WF_vars(Server(s))

-----------------------------------------------------------------------------
(* Properties *)

Packet == [kind : {"probe", "query"}, about : {name[s] : s \in Servers} \cup {wanted}]
              \cup [kind : {"response"}, from : Servers]

TypeOK ==
    /\ \A s \in Servers : at[s] \in {"off", "probe", "announce", "ready", "answer",
                                     "goodbye", "done"}
    /\ at[Client] \in {"off", "gap", "scan", "done"}
    /\ n \in [Hosts -> 0..3]
    /\ \A h \in Hosts : timer[h] \in 0..Window
    /\ inbox \in [Servers -> Seq(Packet)]
    /\ running \in [Servers -> BOOLEAN] /\ conflict \in [Servers -> BOOLEAN]
    /\ DOMAIN found \subseteq {Instance(s) : s \in Servers}
    /\ \A i \in DOMAIN found : found[i] \in Servers
    /\ Cardinality(DOMAIN found) <= MAX_RESULTS
    /\ lost \in 0..MaxFaults /\ signals \in 0..MaxFaults

\* Of two servers with the same host name the one that starts later, be it while the
\* other probes, announces or answers somebody else, notices; unless packets are
\* lost, a signal cuts its windows short, or both start in the same tick.
Probed(s) == at[s] \in {"announce", "ready", "answer"} /\ running[s]
LaterOneNotices ==
    \A s \in Servers :
        Probed(s) /\ lost = 0 /\ (\E t \in rival[s] : name[t] = name[s] /\ running[t]) =>
            conflict[s]

\* A scan lists every server that offers the service and answers throughout, with
\* the address of a server of that host name, though one copy of a packet is lost.
ScanFindsAll ==
    at[Client] = "done" /\ lost <= 1 /\ Cardinality(Servers) <= MAX_RESULTS =>
        \A s \in steady : Service[s] = wanted =>
            /\ Instance(s) \in DOMAIN found
            /\ name[found[Instance(s)]] = name[s]

\* A server that gets a signal, be it in the middle of its probe, says goodbye and
\* ends.
Stops == \A s \in Servers : ~running[s] ~> at[s] = "done"
=============================================================================
