----------------------------- MODULE Connections -----------------------------
(***************************************************************************)
(* How the processes find each other.                                      *)
(*                                                                         *)
(* A server connects to the coordinator, listens and registers; the        *)
(* coordinator gives it an instance ID and tells the servers that are      *)
(* registered already, which connect to the new one.  The two ends of such *)
(* a connection register with each other, and each keeps the instance ID   *)
(* of the other.  A client connects to the coordinator and all servers,    *)
(* and registers with the servers when it has its instance ID.             *)
(*                                                                         *)
(* A process keeps its peers in an ArrayMap from file descriptors to       *)
(* sockets.  The key is what events of epoll are looked up by; the         *)
(* descriptor in the socket is what is read and written.  A descriptor is  *)
(* the connection, or a number that stands for none.                       *)
(***************************************************************************)
EXTENDS Naturals, Sequences, FiniteSets, TLC

CONSTANTS
    Servers,
    Clients,
    Crashing,       \* servers that crash and start again
    Calm,           \* processes start one after the other, those that crash first, and
                    \* servers listen, and have the coordinator's answer, before others
                    \* register with them
    SeveralWorkers,
    MaxStarts,      \* bound on the starts of a process
    IdMod           \* instance IDs are below, and 0 is reserved

Nodes == Servers \cup Clients
Coordinator == "coordinator"

VARIABLES
    phase,          \* of each process
    starts,         \* how often it was started
    registered,     \* with the coordinator
    instanceId,
    busy,           \* its worker is between the two assignments of a registration
    queue,          \* its events
    links,          \* open connections
    accepting,      \* connections whose first message was not read
    hung,           \* connections whose other end has gone, per process
    inbox,          \* messages under way, per receiver and connection
    peer,           \* a server's sockets of the other servers
    idMap,          \* serversIdToSocketMap and clientsIdToSocketMap of a server
    sock,           \* the coordinator's sockets
    events,         \* of the coordinator
    current         \* the last instance ID

nodeVars == <<phase, starts, registered, instanceId, busy>>
netVars == <<links, accepting, hung, inbox>>
peerVars == <<peer, idMap>>
coordVars == <<sock, events, current>>
connectionsVars == <<nodeVars, queue, netVars, peerVars, coordVars>>

\* Descriptors that stand for no connection: those of the start, and what stop makes
\* of the key and of the descriptor in the socket, which differ.
Initially(t) == [none |-> "init", of |-> t]
StoppedKey(t) == [none |-> "key", of |-> t]
StoppedFd(t) == [none |-> "fd", of |-> t]
Unconnected(t) == [none |-> "unconnected", of |-> t]

Link(a, b, n) == [from |-> a, to |-> b, n |-> n]
Ends(l) == {l.from, l.to}
Other(n, l) == IF l.from = n THEN l.to ELSE l.from
ToCoordinator(n) == Link(n, Coordinator, starts[n])

NewPeer(t) == [fd |-> Initially(t), key |-> Initially(t), mode |-> "UNDEFINED",
               connected |-> FALSE, registered |-> FALSE]
NewPeers(s) == [t \in Servers \ {s} |-> NewPeer(t)]

ConnectionsInit ==
    /\ phase = [n \in Nodes |-> "down"] /\ starts = [n \in Nodes |-> 0]
    /\ registered = [n \in Nodes |-> FALSE] /\ instanceId = [n \in Nodes |-> 0]
    /\ busy = [n \in Nodes |-> 0]
    /\ queue = [n \in Nodes |-> <<>>]
    /\ links = {} /\ accepting = {} /\ hung = [n \in Nodes \cup {Coordinator} |-> {}]
    /\ inbox = [n \in Nodes \cup {Coordinator} |-> <<>>]
    /\ peer = [s \in Servers |-> NewPeers(s)]
    /\ idMap = [s \in Servers |-> {}]
    /\ sock = [n \in Nodes |-> [fd |-> Initially(n), connected |-> FALSE]]
    /\ events = <<>> /\ current = 0

-----------------------------------------------------------------------------
(***************************************************************************)
(* Messages                                                                *)
(***************************************************************************)

\* What is sent over a connection that is not open is lost.
Delivered(box, to, l, m) ==
    IF l \in links THEN [box EXCEPT ![to] = Append(@, [link |-> l] @@ m)] ELSE box

\* Messages of one connection arrive in order.
Arrived(n) == {i \in DOMAIN inbox[n] : \A j \in 1 .. i - 1 : inbox[n][j].link # inbox[n][i].link}
Taken(n, i) == [inbox EXCEPT ![n] = SubSeq(@, 1, i - 1) \o SubSeq(@, i + 1, Len(@))]

\* One worker takes events in order, several in any order.
Extractable(q) == IF SeveralWorkers THEN DOMAIN q ELSE {i \in DOMAIN q : i = 1}
Without(q, i) == SubSeq(q, 1, i - 1) \o SubSeq(q, i + 1, Len(q))
Idle(n) == busy[n] = 0 \/ SeveralWorkers

Quiet ==
    /\ events = <<>> /\ accepting = {}
    /\ \A n \in Nodes \cup {Coordinator} : inbox[n] = <<>> /\ hung[n] = {}
    /\ \A n \in Nodes : queue[n] = <<>> /\ busy[n] = 0 /\ phase[n] \in {"down", "up"}

-----------------------------------------------------------------------------
(***************************************************************************)
(* Starting and crashing                                                   *)
(***************************************************************************)

\* Server::start: the coordinator is connected to before the server listens.
ServerStart(s) ==
    /\ phase[s] = "down" /\ starts[s] < MaxStarts
    /\ Calm => Quiet /\ (s \in Crashing \/ \A t \in Crashing : starts[t] > 0)
    /\ starts' = [starts EXCEPT ![s] = @ + 1]
    /\ LET l == Link(s, Coordinator, starts[s] + 1)
       IN  links' = links \cup {l} /\ accepting' = accepting \cup {l}
    /\ queue' = [queue EXCEPT ![s] = <<[type |-> "reqRegister", to |-> Coordinator]>>]
    /\ phase' = [phase EXCEPT ![s] = "started"]
    /\ UNCHANGED <<registered, instanceId, busy, hung, inbox, peerVars, coordVars>>

ServerListen(s) ==
    /\ phase[s] = "started"
    /\ phase' = [phase EXCEPT ![s] = "up"]
    /\ UNCHANGED <<starts, registered, instanceId, busy, queue, netVars, peerVars, coordVars>>

\* Client::start fails unless all servers listen.
ClientStart(c) ==
    /\ phase[c] = "down" /\ starts[c] = 0 /\ \A s \in Servers : phase[s] = "up"
    /\ Calm => Quiet
    /\ starts' = [starts EXCEPT ![c] = @ + 1]
    /\ LET new == {Link(c, n, 1) : n \in Servers \cup {Coordinator}}
       IN  links' = links \cup new /\ accepting' = accepting \cup new
    /\ queue' = [queue EXCEPT ![c] = <<[type |-> "reqRegister", to |-> Coordinator]>>]
    /\ phase' = [phase EXCEPT ![c] = "started"]
    /\ UNCHANGED <<registered, instanceId, busy, hung, inbox, peerVars, coordVars>>

\* A sequence of the elements of a set, in some order.
Orders(S) == {f \in [1 .. Cardinality(S) -> S] : \A i, j \in DOMAIN f : f[i] = f[j] => i = j}

\* It waits for the coordinator's answer, then registers with the servers.
ClientRegister(c) ==
    /\ phase[c] = "started" /\ registered[c]
    /\ \E order \in Orders(Servers) :
          queue' = [queue EXCEPT ![c] = @ \o
                       [i \in DOMAIN order |-> [type |-> "reqRegister", to |-> order[i]]]]
    /\ phase' = [phase EXCEPT ![c] = "up"]
    /\ UNCHANGED <<starts, registered, instanceId, busy, netVars, peerVars, coordVars>>

Crash(s) ==
    /\ s \in Crashing /\ phase[s] = "up" /\ starts[s] < MaxStarts
    /\ LET gone == {l \in links : s \in Ends(l)}
       IN  /\ links' = links \ gone /\ accepting' = accepting \ gone
           /\ hung' = [n \in Nodes \cup {Coordinator} |->
                          IF n = s THEN {} ELSE hung[n] \cup {l \in gone : n \in Ends(l)}]
           /\ inbox' = [n \in Nodes \cup {Coordinator} |->
                          IF n = s THEN <<>> ELSE SelectSeq(inbox[n], LAMBDA m : m.link \notin gone)]
    /\ phase' = [phase EXCEPT ![s] = "down"]
    /\ registered' = [registered EXCEPT ![s] = FALSE]
    /\ instanceId' = [instanceId EXCEPT ![s] = 0]
    /\ busy' = [busy EXCEPT ![s] = 0]
    /\ queue' = [queue EXCEPT ![s] = <<>>]
    /\ peer' = [peer EXCEPT ![s] = NewPeers(s)]
    /\ idMap' = [idMap EXCEPT ![s] = {}]
    /\ UNCHANGED <<starts, coordVars>>

-----------------------------------------------------------------------------
(***************************************************************************)
(* Coordinator                                                             *)
(***************************************************************************)

\* InstanceIdGenerator::generate.  IDs are never released.
generate(last) == IF (last + 1) % IdMod = 0 THEN 1 ELSE (last + 1) % IdMod

\* CoordinatorSocket::handler reads the first message of a connection.
CoordinatorRegister(i) ==
    /\ i \in Arrived(Coordinator) /\ current < IdMod - 1
    /\ LET m == inbox[Coordinator][i]
           n == m.from
           id == generate(current)
           response == [type |-> "resRegister", of |-> n, id |-> id]
       IN  /\ m.link \in accepting
           /\ accepting' = accepting \ {m.link}
           /\ inbox' = Taken(Coordinator, i)
           /\ sock' = [sock EXCEPT ![n] = [fd |-> m.link, connected |-> TRUE]]
           /\ current' = id
           /\ events' = events \o IF n \in Servers
                                  THEN <<response, [type |-> "announce", of |-> n]>>
                                  ELSE <<response>>
    /\ UNCHANGED <<nodeVars, queue, links, hung, peerVars>>

\* CoordinatorWorker::dispatch of a response.
CoordinatorRespond(i) ==
    /\ i \in Extractable(events) /\ events[i].type = "resRegister"
    /\ events' = Without(events, i)
    /\ inbox' = Delivered(inbox, events[i].of, sock[events[i].of].fd,
                          [type |-> "RESPONSE", from |-> Coordinator, id |-> events[i].id])
    /\ UNCHANGED <<nodeVars, queue, links, accepting, hung, peerVars, sock, current>>

\* Everyone who is connected is told of the new server.
CoordinatorAnnounce(i) ==
    /\ i \in Extractable(events) /\ events[i].type = "announce"
    /\ events' = Without(events, i)
    /\ inbox' = [n \in Nodes \cup {Coordinator} |->
                    IF n \in Servers \ {events[i].of} /\ sock[n].connected
                    THEN Delivered(inbox, n, sock[n].fd,
                                   [type |-> "SERVER_CONNECTED", from |-> Coordinator,
                                    server |-> events[i].of])[n]
                    ELSE inbox[n]]
    /\ UNCHANGED <<nodeVars, queue, links, accepting, hung, peerVars, sock, current>>

\* ServerSocket::stop and ClientSocket::stop of the coordinator.
CoordinatorHangup(l) ==
    /\ l \in hung[Coordinator]
    /\ hung' = [hung EXCEPT ![Coordinator] = @ \ {l}]
    /\ sock' = [n \in Nodes |-> IF sock[n].fd = l
                                THEN [fd |-> StoppedFd(n), connected |-> FALSE] ELSE sock[n]]
    /\ UNCHANGED <<nodeVars, queue, links, accepting, inbox, peerVars, events, current>>

-----------------------------------------------------------------------------
(***************************************************************************)
(* Servers and clients                                                     *)
(***************************************************************************)

LinkTo(n, t) ==
    IF t = Coordinator THEN ToCoordinator(n)
    ELSE IF n \in Clients THEN Link(n, t, 1)
    ELSE IF t \in Clients THEN Link(t, n, 1)
    ELSE peer[n][t].fd

\* Socket::send notes that the connection is alive.
Sent(n, t) ==
    IF n \in Servers /\ t \in Servers /\ peer[n][t].fd \in links
    THEN [peer EXCEPT ![n][t].connected = TRUE] ELSE peer

\* ServerWorker::dispatch and ClientWorker::dispatch of a registration or a response.
Dispatch(n, i) ==
    /\ Idle(n) /\ i \in Extractable(queue[n])
    /\ Calm /\ n \in Servers => phase[n] = "up"
    /\ LET e == queue[n][i]
           type == IF e.type = "reqRegister" THEN "REGISTER" ELSE "RESPONSE"
       IN  /\ inbox' = Delivered(inbox, e.to, LinkTo(n, e.to),
                                 [type |-> type, from |-> n, id |-> instanceId[n]])
           /\ peer' = Sent(n, e.to)
    /\ queue' = [queue EXCEPT ![n] = Without(@, i)]
    /\ UNCHANGED <<nodeVars, links, accepting, hung, idMap, coordVars>>

\* The coordinator's answer: `registered' is set first.
Registered(n, i) ==
    /\ Idle(n) /\ i \in Arrived(n)
    /\ inbox[n][i].from = Coordinator /\ inbox[n][i].type = "RESPONSE"
    /\ registered' = [registered EXCEPT ![n] = TRUE]
    /\ busy' = [busy EXCEPT ![n] = inbox[n][i].id]
    /\ inbox' = Taken(n, i)
    /\ UNCHANGED <<phase, starts, instanceId, queue, links, accepting, hung, peerVars, coordVars>>

SetInstanceId(n) ==
    /\ busy[n] # 0
    /\ instanceId' = [instanceId EXCEPT ![n] = busy[n]]
    /\ busy' = [busy EXCEPT ![n] = 0]
    /\ UNCHANGED <<phase, starts, registered, queue, netVars, peerVars, coordVars>>

\* handleServerConnectedMsg: a socket that has connected before does not connect again.
ServerConnected(s, i) ==
    /\ Idle(s) /\ i \in Arrived(s) /\ inbox[s][i].type = "SERVER_CONNECTED"
    /\ LET t == inbox[s][i].server
           p == peer[s][t]
           l == Link(s, t, Cardinality({k \in links \cup hung[s] : k.from = s /\ k.to = t}) + starts[t])
           connects == p.mode = "UNDEFINED" /\ phase[t] = "up"
       IN  /\ inbox' = Taken(s, i)
           /\ peer' = [peer EXCEPT ![s][t] =
                 IF connects
                 THEN [fd |-> l, key |-> l, mode |-> "CONNECT", connected |-> TRUE, registered |-> FALSE]
                 ELSE [p EXCEPT !.fd = Unconnected(t), !.key = Unconnected(t), !.registered = FALSE,
                                !.connected = IF p.mode = "UNDEFINED" THEN FALSE ELSE @]]
           /\ links' = IF connects THEN links \cup {l} ELSE links
           /\ accepting' = IF connects THEN accepting \cup {l} ELSE accepting
           /\ queue' = IF connects
                       THEN [queue EXCEPT ![s] = Append(@, [type |-> "reqRegister", to |-> t])]
                       ELSE queue
    /\ UNCHANGED <<nodeVars, hung, idMap, coordVars>>

\* A mutant: the key is not replaced.
replaceKeyNever(p, old, new) == p

\* ArrayMap::replaceKey: the entry is looked for by its key.
replaceKey(p, old, new) == [t \in DOMAIN p |-> IF p[t].key = old THEN [p[t] EXCEPT !.key = new] ELSE p[t]]

\* A mutant: the accepting side only responds.
RegistersBackNever(p, t) == <<>>

\* ServerPeerSocket::setRecvFd: who is not registered yet registers back.
RegistersBack(p, t) == IF p[t].registered THEN <<>> ELSE <<[type |-> "reqRegister", to |-> t]>>

\* ServerSocket::handler reads the first message of a connection.
PeerRegister(s, i) ==
    /\ phase[s] = "up" /\ i \in Arrived(s)
    /\ Calm => instanceId[s] # 0
    /\ LET m == inbox[s][i]
           t == m.from
           response == <<[type |-> "resRegister", to |-> t]>>
       IN  /\ m.link \in accepting
           /\ accepting' = accepting \ {m.link}
           /\ inbox' = Taken(s, i)
           /\ IF t \in Clients
              THEN /\ idMap' = [idMap EXCEPT ![s] = {e \in @ : e[1] # m.id} \cup {<<m.id, t>>}]
                   /\ queue' = [queue EXCEPT ![s] = @ \o response]
                   /\ UNCHANGED peer
              ELSE /\ peer' = [peer EXCEPT ![s] = replaceKey(@, peer[s][t].fd, m.link),
                                           ![s][t].fd = m.link]
                   /\ queue' = [queue EXCEPT ![s] = @ \o RegistersBack(peer[s], t) \o response]
                   /\ UNCHANGED idMap
    /\ UNCHANGED <<nodeVars, links, hung, coordVars>>

\* A worker reads the socket that epoll's descriptor is the key of: a registration is
\* answered, an answer makes the peer ready, and both give its instance ID.
PeerReceive(s, t, i) ==
    /\ Idle(s) /\ i \in Arrived(s) /\ inbox[s][i].from = t
    /\ LET m == inbox[s][i]
       IN  /\ m.link \notin accepting /\ peer[s][t].key = m.link /\ peer[s][t].fd = m.link
           /\ inbox' = Taken(s, i)
           /\ idMap' = [idMap EXCEPT ![s] = {e \in @ : e[1] # m.id} \cup {<<m.id, t>>}]
           /\ peer' = [peer EXCEPT ![s][t].connected = TRUE,
                                   ![s][t].registered = (m.type = "RESPONSE") \/ @]
           /\ queue' = IF m.type = "REGISTER"
                       THEN [queue EXCEPT ![s] = Append(@, [type |-> "resRegister", to |-> t])]
                       ELSE queue
    /\ UNCHANGED <<nodeVars, links, accepting, hung, coordVars>>

\* A client's registration is answered.
ClientReceive(c, i) ==
    /\ Idle(c) /\ i \in Arrived(c) /\ inbox[c][i].from \in Servers
    /\ inbox' = Taken(c, i)
    /\ UNCHANGED <<nodeVars, queue, links, accepting, hung, peerVars, coordVars>>

\* ServerPeerSocket::stop: key and descriptor become different numbers.
stop(p, t) ==
    [p EXCEPT ![t].key = IF p[t].key = p[t].fd THEN StoppedKey(t) ELSE @,
              ![t].fd = StoppedFd(t), ![t].connected = FALSE]

PeerHangup(s, l) ==
    /\ l \in hung[s]
    /\ hung' = [hung EXCEPT ![s] = @ \ {l}]
    /\ peer' = IF s \in Servers /\ \E t \in Servers \ {s} : peer[s][t].key = l
               THEN [peer EXCEPT ![s] = stop(@, Other(s, l))] ELSE peer
    /\ UNCHANGED <<nodeVars, queue, links, accepting, inbox, idMap, coordVars>>

ConnectionsNext ==
    \/ \E s \in Servers : ServerStart(s) \/ ServerListen(s) \/ Crash(s)
    \/ \E c \in Clients : ClientStart(c) \/ ClientRegister(c)
    \/ \E i \in DOMAIN inbox[Coordinator] : CoordinatorRegister(i)
    \/ \E i \in DOMAIN events : CoordinatorRespond(i) \/ CoordinatorAnnounce(i)
    \/ \E l \in hung[Coordinator] : CoordinatorHangup(l)
    \/ \E n \in Nodes : \/ SetInstanceId(n)
                        \/ \E i \in DOMAIN queue[n] : Dispatch(n, i)
                        \/ \E i \in DOMAIN inbox[n] : Registered(n, i)
                        \/ \E l \in hung[n] : PeerHangup(n, l)
    \/ \E s \in Servers : \E i \in DOMAIN inbox[s] :
          \/ ServerConnected(s, i) \/ PeerRegister(s, i)
          \/ \E t \in Servers \ {s} : PeerReceive(s, t, i)
    \/ \E c \in Clients : \E i \in DOMAIN inbox[c] : ClientReceive(c, i)

-----------------------------------------------------------------------------
(***************************************************************************)
(* What is promised                                                        *)
(***************************************************************************)

Up == {s \in Servers : phase[s] = "up"}

\* ServerPeerSocket::ready
ready(s, t) == peer[s][t].connected /\ peer[s][t].registered

\* Epoll's descriptor leads to the socket that a message is to be read from.
Readable(s, m) ==
    m.from \in Servers /\ m.link \notin accepting =>
        peer[s][m.from].key = m.link /\ peer[s][m.from].fd = m.link

\* Every message of a peer can be read.  When all is quiet, any two servers that run
\* are ready for each other, over one connection that both read and write and that
\* both look up by its descriptor.
PeersReady ==
    /\ \A s \in Servers : \A i \in Arrived(s) : Readable(s, inbox[s][i])
    /\ Quiet => \A s \in Up, t \in Up : s # t =>
          /\ ready(s, t)
          /\ peer[s][t].fd \in links /\ peer[s][t].key = peer[s][t].fd
          /\ peer[t][s].fd = peer[s][t].fd

\* When all is quiet, whoever runs has an instance ID of its own, and a server finds
\* the sockets of its peers and clients by it.
IdsLead ==
    Quiet =>
        /\ \A m, n \in Nodes : phase[m] = "up" /\ phase[n] = "up" =>
              instanceId[n] # 0 /\ (m # n => instanceId[m] # instanceId[n])
        /\ \A s \in Up : \A t \in Nodes \ {s} :
              phase[t] = "up" /\ (t \in Clients => starts[s] = 1) => <<instanceId[t], t>> \in idMap[s]
=============================================================================
