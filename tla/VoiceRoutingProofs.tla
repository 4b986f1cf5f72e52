------------------------- MODULE VoiceRoutingProofs -------------------------
(***************************************************************************)
(* Proofs about VoiceRouting, for every set of users and channels and      *)
(* every queue capacity: the routing queue and the tables stay well typed, *)
(* both threads agree on every user whose newest announcement was not      *)
(* dropped, and a datagram is forwarded by the channels of one instant of  *)
(* the TCP thread.                                                         *)
(***************************************************************************)
EXTENDS VoiceRouting, TLAPS

\* While a datagram is being routed, the table holds the snapshot.
SnapshotInTable ==
    udp.pc = "route" =>
        \A u \in Users : snapshot[u] # Absent => routerChannel[u] = snapshot[u]

\* The inductive invariant.
Inv == TypeOK /\ RoutingAgreement /\ SnapshotInTable

-----------------------------------------------------------------------------
\* What a push returns: a full queue shifts by one, another one keeps its
\* entries, and the new entry comes last (LockFreeQueue::forcePush).
LEMMA PushedFacts ==
    ASSUME TypeOK, NEW entry \in Announcement
    PROVE  LET q == routingQueue
               p == Pushed(entry)
           IN /\ p \in Seq(Announcement)
              /\ Len(p) \in 1 .. QueueCapacity
              /\ p[Len(p)] = entry
              /\ Full  => /\ Len(p) = Len(q) /\ Len(q) > 0
                          /\ \A i \in 1 .. Len(p) - 1 : p[i] = q[i + 1]
              /\ ~Full => /\ Len(p) = Len(q) + 1
                          /\ \A i \in 1 .. Len(p) - 1 : p[i] = q[i]
<1>1. /\ routingQueue \in Seq(Announcement) /\ Len(routingQueue) \in Nat
      /\ Len(routingQueue) <= QueueCapacity /\ QueueCapacity \in Nat \ {0}
  BY RoutingAssumption DEF TypeOK
<1>2. CASE Full
  <2> DEFINE t == Tail(routingQueue)
  <2>1. routingQueue # <<>> /\ Len(routingQueue) > 0
    BY <1>1, <1>2 DEF Full
  <2>2. /\ t \in Seq(Announcement) /\ Len(t) = Len(routingQueue) - 1
        /\ \A i \in 1 .. Len(t) : t[i] = routingQueue[i + 1]
    BY <1>1, <2>1
  <2>3. Pushed(entry) = Append(t, entry)
    BY <1>2 DEF Pushed
  <2> HIDE DEF t
  <2>4. QED
    BY <1>1, <1>2, <2>1, <2>2, <2>3 DEF Full
<1>3. CASE ~Full
  <2>1. Pushed(entry) = Append(routingQueue, entry)
    BY <1>3 DEF Pushed
  <2>2. QED
    BY <1>1, <1>3, <2>1 DEF Full
<1>4. QED
  BY <1>2, <1>3

\* What a pop leaves (LockFreeQueue::pop).
LEMMA PopFacts ==
    ASSUME TypeOK, routingQueue # <<>>
    PROVE  LET q == routingQueue
               t == Tail(routingQueue)
           IN /\ t \in Seq(Announcement)
              /\ Len(q) \in Nat /\ Len(q) > 0 /\ Len(t) = Len(q) - 1
              /\ \A i \in 1 .. Len(t) : t[i] = q[i + 1]
              /\ Head(q) = q[1] /\ Head(q) \in Announcement
  BY DEF TypeOK

-----------------------------------------------------------------------------
THEOREM InitInv == Init => Inv
<1> SUFFICES ASSUME Init PROVE Inv
  OBVIOUS
<1>1. TypeOK
  BY RoutingAssumption
  DEF Init, TypeOK, Idle, NoSnapshot, VoiceState, Ports, Announcement, Copy
<1>2. RoutingAgreement
  BY DEF Init, RoutingAgreement, Queued, IsNewest
<1>3. SnapshotInTable
  BY DEF Init, SnapshotInTable, Idle
<1>4. QED
  BY <1>1, <1>2, <1>3 DEF Inv

\* An announcement keeps the queue well typed.
LEMMA AnnounceType ==
    ASSUME TypeOK, NEW u \in Users, NEW c \in VoiceState, Announce(u, c)
    PROVE  /\ routingQueue' \in Seq(Announcement)
           /\ Len(routingQueue') <= QueueCapacity
           /\ lost' \subseteq Users
<1>1. [uuid |-> u, channel |-> c] \in Announcement
  BY DEF Announcement
<1>2. QED
  BY <1>1, PushedFacts, RoutingAssumption DEF TypeOK, Announce, Dropped

\* After clientMap[u] := c and its announcement the threads agree again.
LEMMA AnnounceAgreement ==
    ASSUME TypeOK, RoutingAgreement, NEW u \in Users, NEW c \in VoiceState,
           Announce(u, c), clientMap' = [clientMap EXCEPT ![u] = c],
           UNCHANGED routerChannel
    PROVE  RoutingAgreement'
<1> DEFINE e == [uuid |-> u, channel |-> c]
           q == routingQueue
           p == Pushed(e)
<1>1. e \in Announcement /\ e.uuid = u /\ e.channel = c
  BY DEF Announcement
<1>2. routingQueue' = p /\ lost' = (lost \cup Dropped) \ {u}
  BY DEF Announce
<1>3. /\ Len(q) \in Nat
      /\ \A i \in 1 .. Len(q) : q[i] \in Announcement
      /\ clientMap' \in [Users -> VoiceState \cup {Absent}]
  BY DEF TypeOK
<1> HIDE DEF e
<1>4. /\ Len(p) \in Nat \ {0}
      /\ p[Len(p)] = e
      /\ Full  => /\ Len(p) = Len(q) /\ Len(q) > 0
                  /\ \A i \in 1 .. Len(p) - 1 : p[i] = q[i + 1]
      /\ ~Full => /\ Len(p) = Len(q) + 1
                  /\ \A i \in 1 .. Len(p) - 1 : p[i] = q[i]
  <2>1. Len(p) \in 1 .. QueueCapacity /\ QueueCapacity \in Nat
    BY <1>1, PushedFacts, RoutingAssumption
  <2>2. Len(p) \in Nat \ {0}
    BY <2>1
  <2>3. QED
    BY <1>1, <2>2, PushedFacts
<1> HIDE DEF p
<1>5. SUFFICES ASSUME NEW w \in Users, clientMap'[w] # Absent, w \notin lost'
               PROVE  /\ \A i \in 1 .. Len(p) :
                            p[i].uuid = w
                              /\ (\A j \in i + 1 .. Len(p) : p[j].uuid # p[i].uuid)
                            => p[i].channel = clientMap'[w]
                      /\ (~\E i \in 1 .. Len(p) : p[i].uuid = w)
                            => routerChannel[w] = clientMap'[w]
  BY <1>2 DEF RoutingAgreement, IsNewest, Queued
<1>6. CASE w = u
  <2>1. clientMap'[w] = c
    BY <1>6 DEF TypeOK
  <2>2. QED
    BY <1>1, <1>4, <1>6, <2>1
<1>7. CASE w # u
  <2>1. clientMap'[w] = clientMap[w] /\ w \notin lost /\ w \notin Dropped
    BY <1>2, <1>5, <1>7 DEF TypeOK
  <2>2. /\ \A i \in 1 .. Len(q) :
              q[i].uuid = w /\ (\A j \in i + 1 .. Len(q) : q[j].uuid # q[i].uuid)
              => q[i].channel = clientMap[w]
        /\ (~\E i \in 1 .. Len(q) : q[i].uuid = w) => routerChannel[w] = clientMap[w]
    BY <1>5, <2>1 DEF RoutingAgreement, IsNewest, Queued
  <2>3. CASE Full
    <3>1. q[1].uuid = w => \E i \in 2 .. Len(q) : q[i].uuid = w
      BY <2>1, <2>3 DEF Dropped, TypeOK
    <3>2. ASSUME NEW i \in 1 .. Len(p), p[i].uuid = w,
                 \A j \in i + 1 .. Len(p) : p[j].uuid # w
          PROVE  p[i].channel = clientMap[w]
      <4>1. i # Len(p) /\ i + 1 \in 1 .. Len(q) /\ p[i] = q[i + 1]
        BY <1>1, <1>3, <1>4, <1>7, <2>3, <3>2
      <4>2. \A j \in (i + 1) + 1 .. Len(q) : q[j].uuid # w
        <5> TAKE j \in (i + 1) + 1 .. Len(q)
        <5>1. j - 1 \in i + 1 .. Len(p) /\ j - 1 \in 1 .. Len(p) - 1
          BY <1>3, <1>4, <2>3, <3>2
        <5>2. p[j - 1] = q[(j - 1) + 1]
          BY <1>4, <2>3, <5>1
        <5>3. QED
          BY <3>2, <5>1, <5>2
      <4>3. QED
        BY <2>2, <3>2, <4>1, <4>2
    <3>3. ASSUME ~\E i \in 1 .. Len(p) : p[i].uuid = w
          PROVE  ~\E i \in 1 .. Len(q) : q[i].uuid = w
      <4>1. \A i \in 2 .. Len(q) : q[i].uuid # w
        <5> TAKE i \in 2 .. Len(q)
        <5>1. i - 1 \in 1 .. Len(p) - 1
          BY <1>3, <1>4, <2>3
        <5>2. p[i - 1] = q[(i - 1) + 1]
          BY <1>4, <2>3, <5>1
        <5>3. QED
          BY <1>4, <3>3, <5>1, <5>2
      <4>2. QED
        BY <1>3, <3>1, <4>1
    <3>4. QED
      BY <2>1, <2>2, <3>2, <3>3
  <2>4. CASE ~Full
    <3>1. ASSUME NEW i \in 1 .. Len(p), p[i].uuid = w,
                 \A j \in i + 1 .. Len(p) : p[j].uuid # w
          PROVE  p[i].channel = clientMap[w]
      <4>1. i # Len(p) /\ i \in 1 .. Len(q) /\ p[i] = q[i]
        BY <1>1, <1>3, <1>4, <1>7, <2>4, <3>1
      <4>2. \A j \in i + 1 .. Len(q) : q[j].uuid # w
        BY <1>3, <1>4, <2>4, <3>1
      <4>3. QED
        BY <2>2, <3>1, <4>1, <4>2
    <3>2. ASSUME ~\E i \in 1 .. Len(p) : p[i].uuid = w
          PROVE  ~\E i \in 1 .. Len(q) : q[i].uuid = w
      BY <1>3, <1>4, <2>4, <3>2
    <3>3. QED
      BY <2>1, <2>2, <3>1, <3>2
  <2>5. QED
    BY <2>3, <2>4
<1>8. QED
  BY <1>6, <1>7

\* Popping an announcement moves what it says from the queue to the table.
LEMMA DrainAgreement ==
    ASSUME TypeOK, RoutingAgreement, DrainUpdate
    PROVE  RoutingAgreement'
<1> DEFINE q == routingQueue
           t == Tail(routingQueue)
<1>1. /\ Len(q) \in Nat /\ Len(q) > 0 /\ Len(t) = Len(q) - 1
      /\ \A i \in 1 .. Len(t) : t[i] = q[i + 1]
      /\ Head(q) = q[1] /\ q[1].uuid \in Users
  BY PopFacts DEF DrainUpdate, Announcement
<1>2. routingQueue' = t /\ UNCHANGED <<clientMap, lost>>
  BY DEF DrainUpdate
<1>3. routerChannel' = [routerChannel EXCEPT ![q[1].uuid] = q[1].channel]
  BY <1>1 DEF DrainUpdate
<1> HIDE DEF t
<1>4. SUFFICES ASSUME NEW w \in Users, clientMap[w] # Absent, w \notin lost
               PROVE  /\ \A i \in 1 .. Len(t) :
                            t[i].uuid = w
                              /\ (\A j \in i + 1 .. Len(t) : t[j].uuid # t[i].uuid)
                            => t[i].channel = clientMap[w]
                      /\ (~\E i \in 1 .. Len(t) : t[i].uuid = w)
                            => routerChannel'[w] = clientMap[w]
  BY <1>2 DEF RoutingAgreement, IsNewest, Queued
<1>5. /\ \A i \in 1 .. Len(q) :
            q[i].uuid = w /\ (\A j \in i + 1 .. Len(q) : q[j].uuid # q[i].uuid)
            => q[i].channel = clientMap[w]
      /\ (~\E i \in 1 .. Len(q) : q[i].uuid = w) => routerChannel[w] = clientMap[w]
  BY <1>4 DEF RoutingAgreement, IsNewest, Queued
<1>6. ASSUME NEW i \in 1 .. Len(t), t[i].uuid = w,
             \A j \in i + 1 .. Len(t) : t[j].uuid # w
      PROVE  t[i].channel = clientMap[w]
  <2>1. i + 1 \in 1 .. Len(q) /\ q[i + 1].uuid = w
    BY <1>1, <1>6
  <2>2. \A j \in (i + 1) + 1 .. Len(q) : q[j].uuid # w
    <3> TAKE j \in (i + 1) + 1 .. Len(q)
    <3>1. j - 1 \in i + 1 .. Len(t) /\ j - 1 \in 1 .. Len(t)
      BY <1>1, <1>6
    <3>2. t[j - 1] = q[(j - 1) + 1]
      BY <1>1, <3>1
    <3>3. QED
      BY <1>6, <3>1, <3>2
  <2>3. QED
    BY <1>1, <1>5, <1>6, <2>1, <2>2
<1>7. ASSUME ~\E i \in 1 .. Len(t) : t[i].uuid = w
      PROVE  routerChannel'[w] = clientMap[w]
  <2>1. \A i \in 2 .. Len(q) : q[i].uuid # w
    <3> TAKE i \in 2 .. Len(q)
    <3>1. i - 1 \in 1 .. Len(t)
      BY <1>1
    <3>2. t[i - 1] = q[(i - 1) + 1]
      BY <1>1, <3>1
    <3>3. QED
      BY <1>7, <3>1, <3>2
  <2>2. CASE q[1].uuid = w
    <3>1. q[1].channel = clientMap[w]
      BY <1>1, <1>5, <2>1, <2>2
    <3>2. QED
      BY <1>3, <2>2, <3>1 DEF TypeOK
  <2>3. CASE q[1].uuid # w
    <3>1. ~\E i \in 1 .. Len(q) : q[i].uuid = w
      BY <1>1, <2>1, <2>3
    <3>2. QED
      BY <1>1, <1>3, <1>5, <2>3, <3>1 DEF TypeOK
  <2>4. QED
    BY <2>2, <2>3
<1>8. QED
  BY <1>6, <1>7

-----------------------------------------------------------------------------
\* Type correctness is preserved by every step.
LEMMA TypeStep == TypeOK /\ [Next]_vars => TypeOK'
<1> SUFFICES ASSUME TypeOK, [Next]_vars PROVE TypeOK'
  OBVIOUS
<1>1. ASSUME NEW u \in Users, CompleteAuthentication(u) PROVE TypeOK'
  <2>1. /\ routingQueue' \in Seq(Announcement)
        /\ Len(routingQueue') <= QueueCapacity
        /\ lost' \subseteq Users
    BY <1>1, AnnounceType DEF CompleteAuthentication, VoiceState
  <2>2. QED
    BY <1>1, <2>1
    DEF TypeOK, CompleteAuthentication, VoiceState, routerVars, clientVars
<1>2. ASSUME NEW u \in Users, NEW c \in VoiceState, HandleState(u, c) PROVE TypeOK'
  <2>1. /\ routingQueue' \in Seq(Announcement)
        /\ Len(routingQueue') <= QueueCapacity
        /\ lost' \subseteq Users
    BY <1>2, AnnounceType DEF HandleState
  <2>2. QED
    BY <1>2, <2>1 DEF TypeOK, HandleState, VoiceState, routerVars, clientVars
<1>3. ASSUME NEW u \in Users, HandleLogout(u) PROVE TypeOK'
  BY <1>3 DEF TypeOK, HandleLogout, VoiceState, routerVars, clientVars
<1>4. ASSUME NEW u \in Users, NEW p \in Ports, UdpReceive(u, p) PROVE TypeOK'
  BY <1>4 DEF TypeOK, UdpReceive, tcpVars, routerVars
<1>5. CASE UdpReceiveShort
  BY <1>5, RoutingAssumption
  DEF TypeOK, UdpReceiveShort, Ports, tcpVars, routerVars, clientVars
<1>6. CASE DrainUpdate
  <2>1. /\ Tail(routingQueue) \in Seq(Announcement)
        /\ Len(Tail(routingQueue)) <= QueueCapacity
        /\ Head(routingQueue).channel \in VoiceState
    BY <1>6, PopFacts, RoutingAssumption DEF DrainUpdate, TypeOK, Announcement
  <2>2. QED
    BY <1>6, <2>1 DEF TypeOK, DrainUpdate, clientVars
<1>7. CASE DrainDone
  BY <1>7 DEF TypeOK, DrainDone, tcpVars, routerVars, clientVars
<1>8. CASE Discard
  BY <1>8, RoutingAssumption
  DEF TypeOK, Discard, Idle, NoSnapshot, Ports, tcpVars, routerVars, clientVars
<1>9. CASE Route
  <2>1. sent' \subseteq Copy
    BY <1>9 DEF Route, Routable, Recipients, Copy, TypeOK
  <2>2. routerEndpoint' \in [Users -> Ports \cup {NoEndpoint}]
    BY <1>9 DEF Route, Routable, LearnedEndpoint, TypeOK
  <2>3. udp' = [pc |-> "idle", sender |-> NoSender, port |-> 0] /\ 0 \in Ports
    BY <1>9, RoutingAssumption DEF Route, Idle, Ports
  <2>4. QED
    BY <1>9, <2>1, <2>2, <2>3 DEF TypeOK, Route, NoSnapshot, tcpVars, clientVars
<1>10. ASSUME NEW u \in Users, ClientRestart(u) PROVE TypeOK'
  BY <1>10, RoutingAssumption DEF TypeOK, ClientRestart, Ports, tcpVars, routerVars
<1>11. CASE UNCHANGED vars
  BY <1>11 DEF TypeOK, vars, tcpVars, routerVars, clientVars
<1>12. QED
  BY <1>1, <1>2, <1>3, <1>4, <1>5, <1>6, <1>7, <1>8, <1>9, <1>10, <1>11
  DEF Next, TcpNext, UdpNext

\* The agreement is preserved by every step.
LEMMA AgreementStep == TypeOK /\ RoutingAgreement /\ [Next]_vars => RoutingAgreement'
<1> SUFFICES ASSUME TypeOK, RoutingAgreement, [Next]_vars PROVE RoutingAgreement'
  OBVIOUS
<1>1. ASSUME NEW u \in Users, CompleteAuthentication(u) PROVE RoutingAgreement'
  <2>1. NoChannel \in VoiceState /\ UNCHANGED routerChannel
    BY <1>1 DEF VoiceState, CompleteAuthentication, routerVars
  <2>2. QED
    BY <1>1, <2>1, AnnounceAgreement DEF CompleteAuthentication
<1>2. ASSUME NEW u \in Users, NEW c \in VoiceState, HandleState(u, c)
      PROVE  RoutingAgreement'
  <2>1. UNCHANGED routerChannel
    BY <1>2 DEF HandleState, routerVars
  <2>2. QED
    BY <1>2, <2>1, AnnounceAgreement DEF HandleState
<1>3. ASSUME NEW u \in Users, HandleLogout(u) PROVE RoutingAgreement'
  BY <1>3 DEF HandleLogout, RoutingAgreement, Queued, IsNewest, TypeOK, routerVars
<1>4. CASE DrainUpdate
  BY <1>4, DrainAgreement
<1>5. CASE UNCHANGED <<tcpVars, routerChannel>>
  BY <1>5 DEF tcpVars, RoutingAgreement, Queued, IsNewest
<1>6. QED
  BY <1>1, <1>2, <1>3, <1>4, <1>5
  DEF Next, TcpNext, UdpNext, UdpReceive, UdpReceiveShort, DrainDone, Discard,
      Route, ClientRestart, vars, routerVars

\* The table and the snapshot part only in steps that leave "route".
LEMMA SnapshotStep ==
    TypeOK /\ RoutingAgreement /\ SnapshotInTable /\ [Next]_vars => SnapshotInTable'
<1> SUFFICES ASSUME TypeOK, RoutingAgreement, SnapshotInTable, [Next]_vars
             PROVE  SnapshotInTable'
  OBVIOUS
<1>1. CASE DrainDone
  <2>1. \A u \in Users : ~Queued(u)
    BY <1>1 DEF DrainDone, Queued
  <2>2. QED
    BY <1>1, <2>1 DEF DrainDone, SnapshotInTable, RoutingAgreement, routerVars
<1>2. CASE udp'.pc # "route"
  BY <1>2 DEF SnapshotInTable
<1>3. CASE UNCHANGED <<udp, snapshot, routerChannel>>
  BY <1>3 DEF SnapshotInTable
<1>4. QED
  BY <1>1, <1>2, <1>3
  DEF Next, TcpNext, UdpNext, CompleteAuthentication, HandleState, HandleLogout,
      UdpReceive, UdpReceiveShort, DrainUpdate, Discard, Route, ClientRestart,
      Idle, vars, routerVars

LEMMA InvStep == Inv /\ [Next]_vars => Inv'
BY TypeStep, AgreementStep, SnapshotStep DEF Inv

\* Inv is an invariant of every behaviour.
THEOREM Invariance == Spec => []Inv
BY InitInv, InvStep, PTL DEF Spec

\* The routing queue never holds more than its capacity, and every table
\* stays within its type.
THEOREM TypeCorrect == Spec => []TypeOK
<1>1. Inv => TypeOK
  BY DEF Inv
<1>2. QED
  BY <1>1, Invariance, PTL

\* clientMap and the UDP thread's table, read through the queue, agree on
\* every signed-in user whose newest announcement was not dropped: for any
\* number of users, channels and queue entries (the handlers of
\* Application::serverControlLoop against Application::onServerUdpPacket).
THEOREM RoutingAgrees == Spec => []RoutingAgreement
<1>1. Inv => RoutingAgreement
  BY DEF Inv
<1>2. QED
  BY <1>1, Invariance, PTL

\* A datagram is forwarded by the channels of one instant of the TCP thread.
THEOREM ForwardsBySnapshot == Spec => ForwardBySnapshot
<1> DEFINE ForwardStep ==
      \A s, v \in Settled :
          Route /\ s = udp.sender /\ v # s =>
              ((\E d \in sent' : d.to = v) <=>
                   (snapshot[s] = snapshot[v] /\ routerEndpoint[v] # NoEndpoint))
<1>1. Inv /\ [Next]_vars => [ForwardStep]_vars
  <2> SUFFICES ASSUME Inv, NEW s \in Settled, NEW v \in Settled,
                      Route, s = udp.sender, v # s
               PROVE  (\E d \in sent' : d.to = v) <=>
                         (snapshot[s] = snapshot[v] /\ routerEndpoint[v] # NoEndpoint)
    OBVIOUS
  <2>1. s \in Users /\ v \in Users /\ snapshot[s] # Absent /\ snapshot[v] # Absent
    BY DEF Settled
  <2>2. routerChannel[s] = snapshot[s] /\ routerChannel[v] = snapshot[v]
    BY <2>1 DEF Inv, SnapshotInTable, Route
  <2>3. (\E d \in sent' : d.to = v) <=> v \in Recipients(s)
    <3>1. sent' = {[from |-> s, to |-> w, endpoint |-> routerEndpoint[w]] :
                      w \in Recipients(s)}
      BY DEF Route
    <3> DEFINE copy(w) == [from |-> s, to |-> w, endpoint |-> routerEndpoint[w]]
    <3>2. \A w : copy(w).to = w
      OBVIOUS
    <3>3. sent' = {copy(w) : w \in Recipients(s)}
      BY <3>1
    <3> HIDE DEF copy
    <3>4. QED
      BY <3>2, <3>3
  <2>4. QED
    BY <2>1, <2>2, <2>3 DEF Recipients
<1>2. QED
  BY <1>1, Invariance, PTL DEF Spec, ForwardBySnapshot
=============================================================================
