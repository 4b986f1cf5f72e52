---------------------------- MODULE VoiceRouting ----------------------------
(***************************************************************************)
(* Who hears whom on the server.                                           *)
(*                                                                         *)
(* The TCP thread owns clientMap: it runs the LOGIN, STATE and LOGOUT      *)
(* handlers of Application::serverControlLoop and announces every change   *)
(* of a user's voice channel on m_routingQueue, a bounded queue that drops *)
(* its oldest entry when full.  The UDP thread owns m_activeRouters: each  *)
(* datagram makes it first drain that queue, entry by entry, while the TCP *)
(* thread goes on pushing, and then forward the datagram to the other      *)
(* members of the sender's channel (Application::onServerUdpPacket).       *)
(*                                                                         *)
(* A handler touches the shared queue once and clientMap is private to its *)
(* thread, so a handler is one step.  The queue is drop-oldest and atomic  *)
(* here: what LockFreeQueue says of its steps, the moment of an overflowing*)
(* push at which a pop finds the ring empty included, is left out.         *)
(***************************************************************************)
EXTENDS Integers, Sequences

CONSTANTS
    Users,          \* account uuids
    Channels,       \* voice channel ids
    NoChannel,      \* activeChannelId == -1
    Absent,         \* not a key of the map
    NoSender,       \* a datagram too short to carry a sender uuid
    NoEndpoint,     \* hasValidEndpoint == false
    QueueCapacity,  \* entries m_routingQueue can hold
    MaxPort,        \* bound: UDP sockets a client opens after its first one
    Restarting      \* bound: users whose client may restart

ASSUME RoutingAssumption ==
    /\ NoChannel \notin Channels
    /\ Absent \notin Channels \cup {NoChannel}
    /\ NoSender \notin Users
    /\ QueueCapacity \in Nat \ {0}
    /\ MaxPort \in Nat
    /\ NoEndpoint \notin 0 .. MaxPort
    /\ Restarting \subseteq Users

Ports == 0 .. MaxPort
VoiceState == Channels \cup {NoChannel}
Announcement == [uuid : Users, channel : VoiceState]
Copy == [from : Users, to : Users, endpoint : Ports]

VARIABLES
    clientMap,      \* TCP thread: the voice channel of every signed-in user
    routingQueue,   \* m_routingQueue, oldest announcement first
    routerChannel,  \* UDP thread: m_activeRouters[u].activeChannelId
    routerEndpoint, \* UDP thread: m_activeRouters[u].endpoint
    udp,            \* UDP thread: the callback that is running
    sent,           \* copies handed to the socket by the last callback
    port,           \* the client's present UDP port
    stragglers,     \* former ports of a client with a datagram still under way
    lost,           \* history: users whose newest announcement was dropped
    snapshot        \* history: clientMap when the callback found the queue empty

tcpVars == <<clientMap, routingQueue, lost>>
routerVars == <<routerChannel, routerEndpoint>>
clientVars == <<port, stragglers>>
vars == <<tcpVars, routerVars, udp, sent, clientVars, snapshot>>

NoSnapshot == [u \in Users |-> Absent]
Idle == [pc |-> "idle", sender |-> NoSender, port |-> 0]

TypeOK ==
    /\ clientMap \in [Users -> VoiceState \cup {Absent}]
    /\ routingQueue \in Seq(Announcement)
    /\ Len(routingQueue) <= QueueCapacity
    /\ routerChannel \in [Users -> VoiceState \cup {Absent}]
    /\ routerEndpoint \in [Users -> Ports \cup {NoEndpoint}]
    /\ udp \in [pc : {"idle", "drain", "route"},
                sender : Users \cup {NoSender}, port : Ports]
    /\ sent \subseteq Copy
    /\ port \in [Users -> Ports]
    /\ stragglers \in [Users -> SUBSET Ports]
    /\ lost \subseteq Users
    /\ snapshot \in [Users -> VoiceState \cup {Absent}]

Init ==
    /\ clientMap = [u \in Users |-> Absent]
    /\ routingQueue = <<>>
    /\ routerChannel = [u \in Users |-> Absent]
    /\ routerEndpoint = [u \in Users |-> NoEndpoint]
    /\ udp = Idle
    /\ sent = {}
    /\ port = [u \in Users |-> 0]
    /\ stragglers = [u \in Users |-> {}]
    /\ lost = {}
    /\ snapshot = NoSnapshot

-----------------------------------------------------------------------------
(* TCP thread: the request handlers.                                       *)

\* Mutant: full one entry too late.
FullTooLate == Len(routingQueue) > QueueCapacity

Full == Len(routingQueue) >= QueueCapacity

\* Mutant: a full queue keeps its oldest entries.
PushedUnlessFull(entry) ==
    IF Full THEN routingQueue ELSE Append(routingQueue, entry)

\* LockFreeQueue::forcePush: a push into a full queue overwrites the oldest.
Pushed(entry) ==
    Append(IF Full THEN Tail(routingQueue) ELSE routingQueue, entry)

\* The user, if any, whose newest announcement a push drops.
Dropped ==
    {u \in Users : /\ Full
                   /\ Head(routingQueue).uuid = u
                   /\ \A i \in 2 .. Len(routingQueue) : routingQueue[i].uuid # u}

Announce(u, c) ==
    /\ routingQueue' = Pushed([uuid |-> u, channel |-> c])
    /\ lost' = (lost \cup Dropped) \ {u}

\* LOGIN, REGISTER, RESET_PASSWORD and AUTH_SESSION end here; an account that
\* is already signed in (another device, a restarted client) starts over.
CompleteAuthentication(u) ==
    /\ clientMap' = [clientMap EXCEPT ![u] = NoChannel]
    /\ Announce(u, NoChannel)
    /\ UNCHANGED <<routerVars, udp, sent, clientVars, snapshot>>

\* STATE: ignored for a uuid that is not signed in.
HandleState(u, c) ==
    /\ clientMap[u] # Absent
    /\ clientMap' = [clientMap EXCEPT ![u] = c]
    /\ Announce(u, c)
    /\ UNCHANGED <<routerVars, udp, sent, clientVars, snapshot>>

\* LOGOUT: forgets the profile and tells the UDP thread nothing.
HandleLogout(u) ==
    /\ clientMap[u] # Absent
    /\ clientMap' = [clientMap EXCEPT ![u] = Absent]
    /\ UNCHANGED <<routingQueue, lost, routerVars, udp, sent, clientVars, snapshot>>

-----------------------------------------------------------------------------
(* UDP thread: one callback per datagram.                                  *)

\* A datagram arrives: from the client's present port, or late from the one
\* it had before it restarted.
UdpReceive(u, p) ==
    /\ udp.pc = "idle"
    /\ p \in {port[u]} \cup stragglers[u]
    /\ udp' = [pc |-> "drain", sender |-> u, port |-> p]
    /\ sent' = {}
    /\ stragglers' = [stragglers EXCEPT ![u] = @ \ {p}]
    /\ UNCHANGED <<tcpVars, routerVars, port, snapshot>>

UdpReceiveShort ==
    /\ udp.pc = "idle"
    /\ udp' = [pc |-> "drain", sender |-> NoSender, port |-> 0]
    /\ sent' = {}
    /\ UNCHANGED <<tcpVars, routerVars, clientVars, snapshot>>

\* while (m_routingQueue.pop(...)): a first announcement creates an entry
\* without an endpoint, a later one changes the channel only.
DrainUpdate ==
    /\ udp.pc = "drain"
    /\ routingQueue # <<>>
    /\ routingQueue' = Tail(routingQueue)
    /\ routerChannel' = [routerChannel EXCEPT ![Head(routingQueue).uuid] =
                                                Head(routingQueue).channel]
    /\ UNCHANGED <<clientMap, lost, routerEndpoint, udp, sent, clientVars, snapshot>>

DrainDone ==
    /\ udp.pc = "drain"
    /\ routingQueue = <<>>
    /\ udp' = [udp EXCEPT !.pc = "route"]
    /\ snapshot' = [u \in Users |-> IF u \in lost THEN Absent ELSE clientMap[u]]
    /\ UNCHANGED <<tcpVars, routerVars, sent, clientVars>>

\* The sender is known and in a voice channel.
Routable == udp.sender \in Users /\ routerChannel[udp.sender] \in Channels

\* Short datagram, unknown sender or a sender outside any channel: dropped.
Discard ==
    /\ udp.pc = "route"
    /\ ~Routable
    /\ udp' = Idle
    /\ snapshot' = NoSnapshot
    /\ UNCHANGED <<tcpVars, routerVars, sent, clientVars>>

\* Mutant: an endpoint is learned once.
LearnedOnce ==
    [routerEndpoint EXCEPT ![udp.sender] = IF @ = NoEndpoint THEN udp.port ELSE @]

\* The endpoint each member is known by, once the sender's is learned.
LearnedEndpoint == [routerEndpoint EXCEPT ![udp.sender] = udp.port]

\* Mutant: members of every channel.
RecipientsEverywhere(s) == {v \in Users \ {s} : routerEndpoint[v] # NoEndpoint}

Recipients(s) ==
    {v \in Users \ {s} : /\ routerChannel[v] = routerChannel[s]
                         /\ routerEndpoint[v] # NoEndpoint}

Route ==
    /\ udp.pc = "route"
    /\ Routable
    /\ routerEndpoint' = LearnedEndpoint
    /\ sent' = {[from |-> udp.sender, to |-> v, endpoint |-> routerEndpoint[v]] :
                    v \in Recipients(udp.sender)}
    /\ udp' = Idle
    /\ snapshot' = NoSnapshot
    /\ UNCHANGED <<tcpVars, routerChannel, clientVars>>

-----------------------------------------------------------------------------
(* The client restarts and opens a new UDP socket; the server is not told. *)

ClientRestart(u) ==
    /\ u \in Restarting /\ port[u] < MaxPort
    /\ stragglers' = [stragglers EXCEPT ![u] = {port[u]}]
    /\ port' = [port EXCEPT ![u] = @ + 1]
    /\ UNCHANGED <<tcpVars, routerVars, udp, sent, snapshot>>

TcpNext ==
    \E u \in Users :
        \/ CompleteAuthentication(u)
        \/ \E c \in VoiceState : HandleState(u, c)
        \/ HandleLogout(u)

UdpNext ==
    \/ \E u \in Users, p \in Ports : UdpReceive(u, p)
    \/ UdpReceiveShort
    \/ DrainUpdate
    \/ DrainDone
    \/ Discard
    \/ Route

Next == TcpNext \/ UdpNext \/ \E u \in Users : ClientRestart(u)

Spec == Init /\ [][Next]_vars

\* The UDP thread runs its callback to the end, and a client in a channel
\* keeps talking, over a network that does not lose everything it sends.
Fairness ==
    /\ WF_vars(DrainUpdate) /\ WF_vars(DrainDone)
    /\ WF_vars(Discard) /\ WF_vars(Route)
    /\ \A u \in Users : SF_vars(UdpReceive(u, port[u]))

FairSpec == Spec /\ Fairness

-----------------------------------------------------------------------------
(* Properties.                                                             *)

IsNewest(i) ==
    \A j \in i + 1 .. Len(routingQueue) :
        routingQueue[j].uuid # routingQueue[i].uuid

Queued(u) == \E i \in 1 .. Len(routingQueue) : routingQueue[i].uuid = u

\* Whatever is queued, dropped and drained, the UDP thread is going to hold
\* for a signed-in user the channel the TCP thread holds: the newest
\* announcement in the queue says so, or the table already does, unless an
\* overflow dropped that user's newest announcement.
RoutingAgreement ==
    \A u \in Users : clientMap[u] # Absent /\ u \notin lost =>
        /\ \A i \in 1 .. Len(routingQueue) :
              routingQueue[i].uuid = u /\ IsNewest(i)
                  => routingQueue[i].channel = clientMap[u]
        /\ ~Queued(u) => routerChannel[u] = clientMap[u]

Settled == {u \in Users : snapshot[u] # Absent}

\* The channels a datagram is forwarded by are those of ONE instant of the
\* TCP thread, the one at which the callback found the queue empty, however
\* many users join and leave while it drains: of the users signed in then, the
\* copies go to those who shared the sender's channel and have been heard from.
\* One who signed out keeps getting them, as a LOGOUT announces nothing.
ForwardBySnapshot ==
    [][\A s, v \in Settled :
          Route /\ s = udp.sender /\ v # s =>
              ((\E d \in sent' : d.to = v) <=>
                   (snapshot[s] = snapshot[v] /\ routerEndpoint[v] # NoEndpoint))]_vars

\* Once the TCP thread is quiet, two members of one channel who both keep
\* talking hear each other for ever after, whatever joins, restarts and late
\* datagrams came before.
AudioFlows ==
    \A u, v \in Users :
        u # v /\ <>[][UdpNext]_vars
            /\ <>[](/\ {u, v} \cap lost = {}
                    /\ clientMap[u] \in Channels
                    /\ clientMap[u] = clientMap[v])
        => []<>(\E d \in sent : d.from = u /\ d.to = v /\ d.endpoint = port[v])
=============================================================================
