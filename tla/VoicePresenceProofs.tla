------------------------ MODULE VoicePresenceProofs ------------------------
(***************************************************************************)
(* For any users, channels, sign-ins and lost connections: the server's    *)
(* profile of a user is what the user's client sent last, and a client     *)
(* that has read its pushes shows the server's list.                       *)
(*                                                                         *)
(* Requests and pushes are ordered on one connection only.  The arguments  *)
(* are about the NEWEST message of a wire: the newest request of the       *)
(* client's newest connection says what the server will know once it is    *)
(* handled, and the newest push on the mapped connection is the list as it *)
(* is.  Both need that an authentication is alone on a new connection.     *)
(***************************************************************************)
EXTENDS VoicePresence, TLAPS

-----------------------------------------------------------------------------
(* The inductive invariant.                                                *)

\* Is there an authentication on the wire?
AuthWaits(u, n) == \E i \in 1 .. Len(up[u][n]) : up[u][n][i].type = "AUTH"

Newest(queue) == queue[Len(queue)]

\* A connection that is not dialled yet has no trace, and one that is closed no wire.
DialledAt(u, n) ==
    /\ n > conn[u] => n \notin open[u] /\ shownFrom[u] # n
    /\ n \notin open[u] => up[u][n] = <<>> /\ down[u][n] = <<>>

\* A client that signs in waits: its request is alone on its newest connection until
\* it is handled, and its answer is the first push.
SigningIn(u, n) ==
    /\ AuthWaits(u, n) =>
         /\ n = conn[u] /\ session[u] = "dialling"
         /\ Len(up[u][n]) = 1 /\ down[u][n] = <<>>
         /\ mapped[u] # n /\ shownFrom[u] # n
    /\ \A i \in 1 .. Len(down[u][n]) : down[u][n][i].type = "AUTH_SUCCESS" =>
         i = 1 /\ n = conn[u] /\ session[u] = "dialling"

\* The newest connection is the mapped one once its authentication is handled.
NewestMapped(u) == conn[u] \in open[u] => AuthWaits(u, conn[u]) \/ mapped[u] = conn[u]

\* The newest push on the mapped connection is the list as it is; when all are read,
\* what they left on the screen is.
CurrentFor(u) ==
    mapped[u] # 0 =>
      LET pushes == down[u][mapped[u]]
      IN  /\ pushes = <<>> /\ shownFrom[u] = mapped[u] => shown[u] = Listed(clientMap)
          /\ pushes # <<>> =>
               IF Newest(pushes).type = "AUTH_SUCCESS" THEN shownFrom[u] # mapped[u]
               ELSE Newest(pushes).peers = Listed(clientMap)

\* Nothing follows a logout.
LogoutLast(u) ==
    conn[u] # 0 =>
      \A i \in 1 .. Len(up[u][conn[u]]) : up[u][conn[u]][i].type = "LOGOUT" =>
         i = Len(up[u][conn[u]]) /\ session[u] = "out"

\* The newest request on the newest connection, or the profile when there is none, is
\* the client's state.
SignedOutKnown(u) ==
    IF up[u][conn[u]] = <<>> THEN u \notin DOMAIN clientMap
    ELSE Newest(up[u][conn[u]]).type = "LOGOUT"

SignedInKnown(u) ==
    /\ u \in DOMAIN clientMap
    /\ IF up[u][conn[u]] = <<>>
         THEN clientMap[u] = IF u \in told THEN local[u] ELSE Fresh
         ELSE u \in told /\ Newest(up[u][conn[u]]).voice = local[u]

KnownOf(u) ==
    conn[u] \in open[u] /\ u \notin overtaken /\ ~AuthWaits(u, conn[u]) =>
      IF session[u] = "out" THEN SignedOutKnown(u) ELSE SignedInKnown(u)

WiresInv == \A u \in Users, n \in Connections : DialledAt(u, n) /\ SigningIn(u, n)
UserInv(u) == NewestMapped(u) /\ LogoutLast(u) /\ KnownOf(u)
UsersInv == \A u \in Users : UserInv(u)
ShownInv == \A u \in Watchers : CurrentFor(u)

PresenceInv == TypeOK /\ WiresInv /\ UsersInv /\ ShownInv

-----------------------------------------------------------------------------
(* Sequences, connections and lists.                                       *)

\* Taking the oldest message moves the others forward; the newest stays.
LEMMA Taken ==
  ASSUME NEW S, NEW q \in Seq(S), q # <<>>
  PROVE  /\ Head(q) = q[1] /\ q[1] \in S /\ Newest(q) \in S
         /\ Tail(q) \in Seq(S)
         /\ Len(q) \in Nat /\ Len(q) >= 1
         /\ Len(Tail(q)) = Len(q) - 1
         /\ \A i \in 1 .. Len(Tail(q)) : Tail(q)[i] = q[i + 1]
         /\ Tail(q) # <<>> => Len(q) >= 2 /\ Newest(Tail(q)) = Newest(q)
         /\ Tail(q) = <<>> => Len(q) = 1 /\ Newest(q) = Head(q)
<1>0. Len(q) \in Nat /\ Len(q) >= 1 /\ Head(q) = q[1] /\ q[1] \in S
  OBVIOUS
<1>1. Len(q) \in Nat /\ Len(q) >= 1 /\ Head(q) = q[1] /\ q[1] \in S /\ Newest(q) \in S
  <2>1. Len(q) \in 1 .. Len(q)
    BY <1>0
  <2>2. \A i \in 1 .. Len(q) : q[i] \in S
    OBVIOUS
  <2>3. QED
    BY <1>0, <2>1, <2>2 DEF Newest
<1>2. /\ Tail(q) \in Seq(S) /\ Len(Tail(q)) = Len(q) - 1
      /\ \A i \in 1 .. Len(Tail(q)) : Tail(q)[i] = q[i + 1]
  OBVIOUS
<1>3. Tail(q) # <<>> => Len(Tail(q)) >= 1
  BY <1>2
<1>4. Tail(q) = <<>> => Len(Tail(q)) = 0
  <2>1. Len(<<>>) = 0
    OBVIOUS
  <2>2. QED
    BY <2>1, Zenon
<1>5. Tail(q) # <<>> => Len(q) >= 2 /\ Newest(Tail(q)) = Newest(q)
  BY <1>1, <1>2, <1>3 DEF Newest
<1>6. Tail(q) = <<>> => Len(q) = 1 /\ Newest(q) = Head(q)
  BY <1>1, <1>2, <1>4 DEF Newest
<1>7. QED
  BY <1>1, <1>2, <1>5, <1>6

\* What is sent is the newest message.
LEMMA Added ==
  ASSUME NEW S, NEW q \in Seq(S), NEW x \in S
  PROVE  /\ Append(q, x) \in Seq(S)
         /\ Len(q) \in Nat
         /\ Len(Append(q, x)) = Len(q) + 1
         /\ \A i \in 1 .. Len(q) : Append(q, x)[i] = q[i]
         /\ \A i \in 1 .. Len(Append(q, x)) : i \in 1 .. Len(q) \/ i = Len(q) + 1
         /\ Append(q, x)[Len(q) + 1] = x
         /\ Append(q, x) # <<>> /\ Newest(Append(q, x)) = x
         /\ q # <<>> => Len(q) >= 1
<1>1. /\ Append(q, x) \in Seq(S) /\ Len(q) \in Nat
      /\ Len(Append(q, x)) = Len(q) + 1
      /\ \A i \in 1 .. Len(q) : Append(q, x)[i] = q[i]
      /\ Append(q, x)[Len(q) + 1] = x
  OBVIOUS
<1>2. Append(q, x) # <<>>
  <2>1. Len(Append(q, x)) # 0
    BY <1>1
  <2>2. Len(<<>>) = 0
    OBVIOUS
  <2>3. QED
    BY <2>1, <2>2, Zenon
<1>3. q # <<>> => Len(q) >= 1
  OBVIOUS
<1>4. \A i \in 1 .. Len(Append(q, x)) : i \in 1 .. Len(q) \/ i = Len(q) + 1
  BY <1>1
<1>5. Newest(Append(q, x)) = x
  BY <1>1 DEF Newest
<1>6. QED
  BY <1>1, <1>2, <1>3, <1>4, <1>5

\* Connections are numbered from 1, and a user's next one is one of them.
LEMMA Numbers ==
  /\ \A n \in Connections : n \in Nat /\ n >= 1
  /\ \A u \in Users, n \in Nat : n < MaxSignIns[u] => n + 1 \in Connections
BY PresenceAssumption DEF Connections

\* A list is a function on some of the users.
LEMMA ListShape ==
  ASSUME NEW p \in Lists
  PROVE  DOMAIN p \subseteq Users /\ \A v \in DOMAIN p : p[v] \in Voice
BY DEF Lists

LEMMA ListMade ==
  ASSUME NEW S \in SUBSET Users, NEW f \in [S -> Voice]
  PROVE  f \in Lists
BY DEF Lists

LEMMA WithList ==
  ASSUME NEW p \in Lists, NEW u \in Users, NEW voice \in Voice
  PROVE  /\ With(p, u, voice) \in Lists
         /\ DOMAIN With(p, u, voice) = DOMAIN p \cup {u}
         /\ With(p, u, voice)[u] = voice
         /\ \A v \in DOMAIN p : v # u => With(p, u, voice)[v] = p[v]
<1>1. With(p, u, voice) \in [DOMAIN p \cup {u} -> Voice]
  BY ListShape DEF With
<1>2. DOMAIN p \cup {u} \in SUBSET Users
  BY ListShape
<1>3. With(p, u, voice) \in Lists
  BY <1>1, <1>2, ListMade
<1>4. QED
  BY <1>3 DEF With

LEMMA RestrictList ==
  ASSUME NEW p \in Lists, NEW S \in SUBSET DOMAIN p
  PROVE  /\ Restrict(p, S) \in Lists
         /\ DOMAIN Restrict(p, S) = S
         /\ \A v \in S : Restrict(p, S)[v] = p[v]
<1>1. Restrict(p, S) \in [S -> Voice] /\ S \in SUBSET Users
  BY ListShape DEF Restrict
<1>2. Restrict(p, S) \in Lists
  BY <1>1, ListMade
<1>3. QED
  BY <1>2 DEF Restrict

LEMMA ListedList ==
  ASSUME NEW p \in Lists
  PROVE  Listed(p) \in Lists
BY RestrictList DEF Listed

\* A broadcast appends the list to the wire of every watcher that is mapped.
PeersPush(p) == [type |-> "PUSH_PEERS", peers |-> Listed(p)]

LEMMA Broadcasts ==
  ASSUME TypeOK, NEW p \in Lists
  PROVE  /\ PeersPush(p) \in Push
         /\ Broadcast(p) \in [Users -> [Connections -> Seq(Push)]]
         /\ \A u \in Users, n \in Connections :
              Broadcast(p)[u][n] = IF mapped[u] = n /\ u \in Watchers
                                   THEN Append(down[u][n], PeersPush(p))
                                   ELSE down[u][n]
<1>1. PeersPush(p) \in Push
  BY ListedList DEF PeersPush, Push
<1>2. \A u \in Users, n \in Connections :
        down[u][n] \in Seq(Push) /\ Append(down[u][n], PeersPush(p)) \in Seq(Push)
  BY <1>1, Added DEF TypeOK
<1>3. ASSUME NEW u \in Users, NEW n \in Connections
      PROVE  Broadcast(p)[u][n] = IF mapped[u] = n /\ u \in Watchers
                                  THEN Append(down[u][n], PeersPush(p))
                                  ELSE down[u][n]
  <2>1. n # 0
    BY Numbers
  <2>2. DOMAIN down[u] = Connections
    BY DEF TypeOK
  <2>3. QED
    BY <2>1, <2>2 DEF Broadcast, PeersPush
<1>4. ASSUME NEW u \in Users
      PROVE  Broadcast(p)[u] \in [Connections -> Seq(Push)]
  <2>1. CASE mapped[u] = 0 \/ u \notin Watchers
    BY <2>1 DEF Broadcast, TypeOK
  <2>2. CASE ~(mapped[u] = 0 \/ u \notin Watchers)
    BY <1>2, <2>2 DEF Broadcast, TypeOK, PeersPush
  <2>3. QED
    BY <2>1, <2>2
<1>5. Broadcast(p) \in [Users -> [Connections -> Seq(Push)]]
  <2>1. Broadcast(p) = [u \in Users |-> Broadcast(p)[u]]
    BY DEF Broadcast
  <2>2. QED
    BY <1>4, <2>1
<1>6. QED
  BY <1>1, <1>3, <1>5

-----------------------------------------------------------------------------
(* Types.                                                                  *)

\* What a request is.
LEMMA RequestMade ==
  ASSUME NEW type \in {"AUTH", "LOGOUT", "STATE"}, NEW voice \in Voice
  PROVE  [type |-> type, voice |-> voice] \in Request
BY DEF Request

LEMMA FreshTyped == Fresh \in Voice
BY DEF Fresh, Voice

\* What is sent goes on one wire, if it is open.
LEMMA SentTyped ==
  ASSUME TypeOK, NEW u \in Users, NEW n, NEW request \in Request
  PROVE  /\ Sent(u, n, request) \in [Users -> [Connections -> Seq(Request)]]
         /\ \A v \in Users, m \in Connections :
              /\ v # u \/ m # n \/ n \notin open[u] => Sent(u, n, request)[v][m] = up[v][m]
              /\ v = u /\ m = n /\ n \in open[u] =>
                   Sent(u, n, request)[v][m] = Append(up[v][m], request)
<1>1. CASE n \in open[u]
  <2>1. n \in Connections
    BY <1>1 DEF TypeOK
  <2>2. Append(up[u][n], request) \in Seq(Request)
    BY <2>1, Added DEF TypeOK
  <2>3. Sent(u, n, request) = [up EXCEPT ![u][n] = Append(@, request)]
    BY <1>1 DEF Sent
  <2>4. Sent(u, n, request) \in [Users -> [Connections -> Seq(Request)]]
    BY <2>1, <2>2, <2>3 DEF TypeOK
  <2>5. QED
    BY <1>1, <2>1, <2>3, <2>4 DEF TypeOK
<1>2. CASE n \notin open[u]
  BY <1>2 DEF Sent, TypeOK
<1>3. QED
  BY <1>1, <1>2

\* A wire of which the oldest message is taken, and the others as they are.
LEMMA TakenUp ==
  ASSUME TypeOK, NEW u \in Users, NEW n \in Connections, NEW type, Take(u, n, type)
  PROVE  /\ up' \in [Users -> [Connections -> Seq(Request)]]
         /\ up[u][n] # <<>> /\ up[u][n] \in Seq(Request) /\ up'[u][n] = Tail(up[u][n])
         /\ Head(up[u][n]) \in Request /\ Head(up[u][n]).type = type
         /\ \A v \in Users, m \in Connections : v # u \/ m # n => up'[v][m] = up[v][m]
         /\ n \in open[u] \/ ~DialledAt(u, n)
         /\ UNCHANGED <<ui, local, session, pendingLogout, clicks, shown, shownFrom, conn>>
<1>1. up[u][n] # <<>> /\ up[u][n] \in Seq(Request) /\ Head(up[u][n]).type = type
  BY DEF Take, TypeOK
<1>2. Tail(up[u][n]) \in Seq(Request) /\ Head(up[u][n]) \in Request
  BY <1>1, Taken
<1>3. up' = [up EXCEPT ![u][n] = Tail(@)]
  BY DEF Take
<1>4. up' \in [Users -> [Connections -> Seq(Request)]]
  BY <1>2, <1>3 DEF TypeOK
<1>5. /\ up'[u][n] = Tail(up[u][n])
      /\ \A v \in Users, m \in Connections : v # u \/ m # n => up'[v][m] = up[v][m]
  BY <1>3 DEF TypeOK
<1>6. UNCHANGED <<ui, local, session, pendingLogout, clicks, shown, shownFrom, conn>>
  BY DEF Take, clients, display
<1>7. QED
  BY <1>1, <1>2, <1>4, <1>5, <1>6 DEF DialledAt

\* The three requests change the profiles to a list.
LEMMA HandledList ==
  ASSUME TypeOK, NEW u \in Users, NEW n \in Connections
  PROVE  /\ HandleAuth(u, n) => clientMap' = With(clientMap, u, Fresh) /\ clientMap' \in Lists
         /\ HandleLogout(u, n) => /\ clientMap' = Restrict(clientMap, DOMAIN clientMap \ {u})
                                  /\ clientMap' \in Lists
         /\ HandleState(u, n) => clientMap' \in Lists
<1>1. clientMap \in Lists
  BY DEF TypeOK
<1>2. HandleAuth(u, n) => clientMap' = With(clientMap, u, Fresh) /\ clientMap' \in Lists
  <2>1. HandleAuth(u, n) => clientMap' = With(clientMap, u, Fresh)
    BY DEF HandleAuth
  <2>2. With(clientMap, u, Fresh) \in Lists
    BY <1>1, FreshTyped, WithList
  <2>3. QED
    BY <2>1, <2>2
<1>3. HandleLogout(u, n) => /\ clientMap' = Restrict(clientMap, DOMAIN clientMap \ {u})
                            /\ clientMap' \in Lists
  BY <1>1, RestrictList DEF HandleLogout
<1>4. ASSUME HandleState(u, n) PROVE clientMap' \in Lists
  <2>1. Head(up[u][n]).voice \in Voice
    <3>1. Take(u, n, "STATE")
      BY <1>4 DEF HandleState
    <3>2. Head(up[u][n]) \in Request
      BY <3>1, TakenUp
    <3>3. QED
      BY <3>2 DEF Request
  <2>2. CASE u \in DOMAIN clientMap
    <3>1. clientMap' = With(clientMap, u, Head(up[u][n]).voice)
      BY <1>4, <2>2 DEF HandleState
    <3>2. With(clientMap, u, Head(up[u][n]).voice) \in Lists
      BY <1>1, <2>1, WithList
    <3>3. QED
      BY <3>1, <3>2
  <2>3. CASE u \notin DOMAIN clientMap
    BY <1>1, <1>4, <2>3 DEF HandleState
  <2>4. QED
    BY <2>2, <2>3
<1>5. QED
  BY <1>2, <1>3, <1>4

\* What a sign-in puts on the wires: the list for those who were mapped, the answer.
Welcome == [type |-> "AUTH_SUCCESS", peers |-> Nobody]

LEMMA WelcomeTyped == Welcome \in Push
<1>1. Nobody \in [{} -> Voice] /\ {} \in SUBSET Users
  BY DEF Nobody
<1>2. Nobody \in Lists
  BY <1>1, ListMade
<1>3. QED
  BY <1>2 DEF Welcome, Push

LEMMA AuthDown ==
  ASSUME TypeOK, NEW u \in Users, NEW n \in Connections, HandleAuth(u, n)
  PROVE  /\ down' \in [Users -> [Connections -> Seq(Push)]]
         /\ down'[u][n] = Append(Broadcast(clientMap')[u][n], Welcome)
         /\ \A v \in Users, m \in Connections :
              v # u \/ m # n => down'[v][m] = Broadcast(clientMap')[v][m]
<1> DEFINE informed == Broadcast(clientMap')
<1>1. informed \in [Users -> [Connections -> Seq(Push)]]
  BY HandledList, Broadcasts
<1>2. down' = [informed EXCEPT ![u][n] = Append(@, Welcome)]
  BY DEF HandleAuth, Welcome
<1> HIDE DEF informed
<1>3. informed[u][n] \in Seq(Push)
  BY <1>1
<1>4. Append(informed[u][n], Welcome) \in Seq(Push)
  BY <1>3, WelcomeTyped, Added
<1>5. down' \in [Users -> [Connections -> Seq(Push)]]
  BY <1>1, <1>2, <1>4
<1>6. /\ down'[u][n] = Append(informed[u][n], Welcome)
      /\ \A v \in Users, m \in Connections : v # u \/ m # n => down'[v][m] = informed[v][m]
  BY <1>1, <1>2
<1>7. QED
  BY <1>5, <1>6 DEF informed

\* What the broadcast handlers do to the pushes.
LEMMA HandledDown ==
  ASSUME TypeOK, NEW u \in Users, NEW n \in Connections, Handle(u, n)
  PROVE  down' \in [Users -> [Connections -> Seq(Push)]]
<1>1. CASE HandleAuth(u, n)
  BY <1>1, AuthDown
<1>2. CASE HandleLogout(u, n)
  <2>1. down' = Broadcast(clientMap') /\ clientMap' \in Lists
    BY <1>2, HandledList DEF HandleLogout
  <2>2. QED
    BY <2>1, Broadcasts
<1>3. CASE HandleState(u, n)
  <2>1. clientMap' \in Lists /\ (down' = Broadcast(clientMap') \/ down' = down)
    BY <1>3, HandledList DEF HandleState
  <2>2. QED
    BY <2>1, Broadcasts DEF TypeOK
<1>4. QED
  BY <1>1, <1>2, <1>3 DEF Handle

\* A click chooses a voice state.
LEMMA Clicked ==
  ASSUME TypeOK, NEW u \in Users, UserActs(u)
  PROVE  /\ ui' \in [Users -> Voice] /\ pendingLogout' \subseteq Users
         /\ clicks' \in 0 .. MaxClicks
         /\ UNCHANGED <<local, session, display, wires, server, told, overtaken>>
<1>0. ui[u] \in Voice /\ clicks \in 0 .. MaxClicks /\ MaxClicks \in Nat
  BY PresenceAssumption DEF TypeOK
<1>1. ASSUME NEW voice \in Voice, Click(u, voice)
      PROVE  /\ ui' \in [Users -> Voice] /\ pendingLogout' \subseteq Users
             /\ clicks' \in 0 .. MaxClicks
             /\ UNCHANGED <<local, session, display, wires, server, told, overtaken>>
  BY <1>0, <1>1 DEF Click, TypeOK
<1>2. CASE ToggleMute(u)
  <2>1. [ui[u] EXCEPT !.muted = ~@] \in Voice
    BY <1>0 DEF Voice
  <2>2. QED
    BY <1>1, <1>2, <2>1 DEF ToggleMute
<1>3. CASE ToggleDeafen(u)
  <2>1. [ui[u] EXCEPT !.deafened = ~@, !.muted = ~ui[u].deafened] \in Voice
    BY <1>0 DEF Voice
  <2>2. QED
    BY <1>1, <1>3, <2>1 DEF ToggleDeafen
<1>4. CASE LeaveVoiceChannel(u)
  <2>1. [ui[u] EXCEPT !.channel = None] \in Voice
    BY <1>0 DEF Voice
  <2>2. QED
    BY <1>1, <1>4, <2>1 DEF LeaveVoiceChannel
<1>5. ASSUME NEW c \in Channels, JoinVoiceChannel(u, c)
      PROVE  /\ ui' \in [Users -> Voice] /\ pendingLogout' \subseteq Users
             /\ clicks' \in 0 .. MaxClicks
             /\ UNCHANGED <<local, session, display, wires, server, told, overtaken>>
  <2>1. [ui[u] EXCEPT !.channel = c] \in Voice
    BY <1>0 DEF Voice
  <2>2. QED
    BY <1>1, <1>5, <2>1 DEF JoinVoiceChannel
<1>6. CASE Logout(u)
  <2>1. [ui[u] EXCEPT !.channel = None] \in Voice
    BY <1>0 DEF Voice
  <2>2. ui' \in [Users -> Voice]
    BY <1>6, <2>1 DEF Logout, TypeOK
  <2>3. QED
    BY <1>0, <1>6, <2>2 DEF Logout, TypeOK
<1>7. QED
  BY <1>2, <1>3, <1>4, <1>5, <1>6 DEF UserActs

\* A dial opens the next connection.
LEMMA Dialled ==
  ASSUME TypeOK, NEW u \in Users, Dial(u)
  PROVE  /\ conn[u] \in Nat /\ conn[u] + 1 \in Connections
         /\ conn' \in [Users -> {0} \cup Connections] /\ conn'[u] = conn[u] + 1
         /\ \A v \in Users : v # u => conn'[v] = conn[v]
         /\ open' \in [Users -> SUBSET Connections] /\ open'[u] = open[u] \cup {conn[u] + 1}
         /\ \A v \in Users : v # u => open'[v] = open[v]
         /\ up' \in [Users -> [Connections -> Seq(Request)]]
         /\ up'[u][conn[u] + 1] = <<[type |-> "AUTH", voice |-> Fresh]>>
         /\ \A v \in Users, m \in Connections : v # u \/ m # conn[u] + 1 => up'[v][m] = up[v][m]
         /\ session' \in [Users -> {"out", "dialling", "in"}] /\ session'[u] = "dialling"
         /\ \A v \in Users : v # u => session'[v] = session[v]
         /\ session[u] = "out"
         /\ UNCHANGED <<ui, local, pendingLogout, clicks, shown, shownFrom, down, clientMap,
                        mapped, told, overtaken>>
<1>1. conn[u] \in Nat /\ conn[u] + 1 \in Connections
  <2>1. conn[u] \in {0} \cup Connections /\ conn[u] < MaxSignIns[u]
    BY DEF Dial, TypeOK
  <2>2. QED
    BY <2>1, Numbers
<1>2. <<[type |-> "AUTH", voice |-> Fresh]>> \in Seq(Request)
  BY RequestMade, FreshTyped
<1>3. /\ conn' \in [Users -> {0} \cup Connections] /\ conn'[u] = conn[u] + 1
      /\ \A v \in Users : v # u => conn'[v] = conn[v]
  BY <1>1 DEF Dial, TypeOK
<1>4. /\ open' \in [Users -> SUBSET Connections] /\ open'[u] = open[u] \cup {conn[u] + 1}
      /\ \A v \in Users : v # u => open'[v] = open[v]
  BY <1>1 DEF Dial, TypeOK
<1>5. /\ up' \in [Users -> [Connections -> Seq(Request)]]
      /\ up'[u][conn[u] + 1] = <<[type |-> "AUTH", voice |-> Fresh]>>
      /\ \A v \in Users, m \in Connections : v # u \/ m # conn[u] + 1 => up'[v][m] = up[v][m]
  <2>1. up' = [up EXCEPT ![u][conn[u] + 1] = <<[type |-> "AUTH", voice |-> Fresh]>>]
    BY DEF Dial
  <2>2. QED
    BY <1>1, <1>2, <2>1 DEF TypeOK
<1>6. /\ session' \in [Users -> {"out", "dialling", "in"}] /\ session'[u] = "dialling"
      /\ \A v \in Users : v # u => session'[v] = session[v]
      /\ session[u] = "out"
  BY DEF Dial, TypeOK
<1>7. UNCHANGED <<ui, local, pendingLogout, clicks, shown, shownFrom, down, clientMap,
                  mapped, told, overtaken>>
  BY DEF Dial, display, server
<1>8. QED
  BY <1>1, <1>3, <1>4, <1>5, <1>6, <1>7

\* A push is read from its wire.
LEMMA Read ==
  ASSUME TypeOK, NEW u \in Users, NEW n \in Connections, ReceivePush(u, n)
  PROVE  /\ down[u][n] # <<>> /\ down[u][n] \in Seq(Push) /\ Head(down[u][n]) \in Push
         /\ down' \in [Users -> [Connections -> Seq(Push)]]
         /\ down'[u][n] = Tail(down[u][n])
         /\ \A v \in Users, m \in Connections : v # u \/ m # n => down'[v][m] = down[v][m]
         /\ Head(down[u][n]).type = "AUTH_SUCCESS" =>
              session' = [session EXCEPT ![u] = "in"] /\ UNCHANGED <<shown, shownFrom>>
         /\ Head(down[u][n]).type # "AUTH_SUCCESS" =>
              /\ shown' = [shown EXCEPT ![u] = Head(down[u][n]).peers]
              /\ shownFrom' = [shownFrom EXCEPT ![u] = n]
              /\ UNCHANGED session
         /\ UNCHANGED <<ui, local, pendingLogout, clicks, conn, open, up, clientMap, mapped,
                        told, overtaken>>
<1>1. down[u][n] # <<>> /\ down[u][n] \in Seq(Push)
  BY DEF ReceivePush, TypeOK
<1>2. Tail(down[u][n]) \in Seq(Push) /\ Head(down[u][n]) \in Push
  BY <1>1, Taken
<1>3. down' = [down EXCEPT ![u][n] = Tail(@)]
  BY DEF ReceivePush
<1>4. /\ down' \in [Users -> [Connections -> Seq(Push)]]
      /\ down'[u][n] = Tail(down[u][n])
      /\ \A v \in Users, m \in Connections : v # u \/ m # n => down'[v][m] = down[v][m]
  BY <1>2, <1>3 DEF TypeOK
<1>5. /\ Head(down[u][n]).type = "AUTH_SUCCESS" =>
           session' = [session EXCEPT ![u] = "in"] /\ UNCHANGED <<shown, shownFrom>>
      /\ Head(down[u][n]).type # "AUTH_SUCCESS" =>
           /\ shown' = [shown EXCEPT ![u] = Head(down[u][n]).peers]
           /\ shownFrom' = [shownFrom EXCEPT ![u] = n]
           /\ UNCHANGED session
  BY DEF ReceivePush, display
<1>6. UNCHANGED <<ui, local, pendingLogout, clicks, conn, open, up, clientMap, mapped,
                  told, overtaken>>
  BY DEF ReceivePush, server
<1>7. QED
  BY <1>1, <1>2, <1>4, <1>5, <1>6

\* A connection closes.
LEMMA Closed ==
  ASSUME TypeOK, NEW u \in Users, NEW n \in Connections, Close(u, n)
  PROVE  /\ open' \in [Users -> SUBSET Connections] /\ open'[u] = open[u] \ {n}
         /\ \A v \in Users : v # u => open'[v] = open[v]
         /\ up' \in [Users -> [Connections -> Seq(Request)]]
         /\ down' \in [Users -> [Connections -> Seq(Push)]]
         /\ up'[u][n] = <<>> /\ down'[u][n] = <<>>
         /\ \A v \in Users, m \in Connections :
              v # u \/ m # n => up'[v][m] = up[v][m] /\ down'[v][m] = down[v][m]
         /\ mapped' \in [Users -> {0} \cup Connections]
         /\ mapped'[u] = (IF mapped[u] = n THEN 0 ELSE mapped[u])
         /\ \A v \in Users : v # u => mapped'[v] = mapped[v]
         /\ UNCHANGED <<ui, local, session, pendingLogout, clicks, shown, shownFrom, conn,
                        clientMap, told, overtaken>>
<1>1. /\ open' \in [Users -> SUBSET Connections] /\ open'[u] = open[u] \ {n}
      /\ \A v \in Users : v # u => open'[v] = open[v]
  BY DEF Close, TypeOK
<1>2. <<>> \in Seq(Request) /\ <<>> \in Seq(Push)
  OBVIOUS
<1>3. /\ up' \in [Users -> [Connections -> Seq(Request)]] /\ up'[u][n] = <<>>
      /\ \A v \in Users, m \in Connections : v # u \/ m # n => up'[v][m] = up[v][m]
  <2>1. up' = [up EXCEPT ![u][n] = <<>>]
    BY DEF Close
  <2>2. QED
    BY <1>2, <2>1 DEF TypeOK
<1>4. /\ down' \in [Users -> [Connections -> Seq(Push)]] /\ down'[u][n] = <<>>
      /\ \A v \in Users, m \in Connections : v # u \/ m # n => down'[v][m] = down[v][m]
  <2>1. down' = [down EXCEPT ![u][n] = <<>>]
    BY DEF Close
  <2>2. QED
    BY <1>2, <2>1 DEF TypeOK
<1>5. /\ mapped' \in [Users -> {0} \cup Connections]
      /\ mapped'[u] = (IF mapped[u] = n THEN 0 ELSE mapped[u])
      /\ \A v \in Users : v # u => mapped'[v] = mapped[v]
  BY DEF Close, TypeOK
<1>6. UNCHANGED <<ui, local, session, pendingLogout, clicks, shown, shownFrom, conn,
                  clientMap, told, overtaken>>
  BY DEF Close, clients, display
<1>7. QED
  BY <1>1, <1>3, <1>4, <1>5, <1>6

\* The variables keep their types.
LEMMA TypeKept == TypeOK /\ WiresInv /\ [Next]_vars => TypeOK'
<1> SUFFICES ASSUME TypeOK, WiresInv, [Next]_vars PROVE TypeOK'
  OBVIOUS
<1>1. ASSUME NEW u \in Users, UserActs(u) PROVE TypeOK'
  BY <1>1, Clicked DEF TypeOK, display, wires, server
<1>2. ASSUME NEW u \in Users, Dial(u) PROVE TypeOK'
  <2>1. \A v \in Users : mapped[v] = 0 \/ mapped[v] \in open'[v]
    BY <1>2, Dialled DEF TypeOK
  <2>2. QED
    BY <1>2, <2>1, Dialled DEF TypeOK
<1>3. ASSUME NEW u \in Users, WakeLogout(u) PROVE TypeOK'
  <2>1. up' \in [Users -> [Connections -> Seq(Request)]]
    BY <1>3, RequestMade, FreshTyped, SentTyped DEF WakeLogout
  <2>2. pendingLogout' \subseteq Users /\ session' \in [Users -> {"out", "dialling", "in"}]
    BY <1>3 DEF WakeLogout, TypeOK
  <2>3. QED
    BY <1>3, <2>1, <2>2 DEF WakeLogout, TypeOK, display, server
<1>4. ASSUME NEW u \in Users, WakeVoice(u) PROVE TypeOK'
  <2>1. ui[u] \in Voice
    BY DEF TypeOK
  <2>2. up' \in [Users -> [Connections -> Seq(Request)]]
    BY <1>4, <2>1, RequestMade, SentTyped DEF WakeVoice
  <2>3. local' \in [Users -> Voice] /\ told' \subseteq Users
    BY <1>4, <2>1 DEF WakeVoice, TypeOK
  <2>4. QED
    BY <1>4, <2>2, <2>3 DEF WakeVoice, TypeOK, display, server
<1>5. ASSUME NEW u \in Users, NEW n \in Connections, ReceivePush(u, n) PROVE TypeOK'
  <2>1. Head(down[u][n]).peers \in Lists
    BY <1>5, Read DEF Push
  <2>2. session' \in [Users -> {"out", "dialling", "in"}]
    BY <1>5, Read DEF TypeOK
  <2>3. shown' \in [Users -> Lists] /\ shownFrom' \in [Users -> {0} \cup Connections]
    <3>1. \/ UNCHANGED <<shown, shownFrom>>
          \/ /\ shown' = [shown EXCEPT ![u] = Head(down[u][n]).peers]
             /\ shownFrom' = [shownFrom EXCEPT ![u] = n]
      BY <1>5, Read
    <3>2. shown \in [Users -> Lists] /\ shownFrom \in [Users -> {0} \cup Connections]
      BY DEF TypeOK
    <3>3. QED
      BY <2>1, <3>1, <3>2
  <2>4. QED
    BY <1>5, <2>2, <2>3, Read DEF TypeOK
<1>6. ASSUME NEW u \in Users, NEW n \in Connections, Handle(u, n) PROVE TypeOK'
  <2>1. down' \in [Users -> [Connections -> Seq(Push)]]
    BY <1>6, HandledDown
  <2>2. /\ up' \in [Users -> [Connections -> Seq(Request)]] /\ up[u][n] # <<>>
        /\ UNCHANGED <<ui, local, session, pendingLogout, clicks, shown, shownFrom, conn>>
    BY <1>6, TakenUp DEF Handle, HandleAuth, HandleLogout, HandleState
  <2>3. clientMap' \in Lists
    BY <1>6, HandledList DEF Handle
  <2>4. n \in open[u]
    BY <2>2 DEF WiresInv, DialledAt
  <2>5. /\ mapped' \in [Users -> {0} \cup Connections]
        /\ \A v \in Users : mapped'[v] = 0 \/ mapped'[v] \in open[v]
        /\ UNCHANGED open /\ told' \subseteq Users /\ overtaken' \subseteq Users
    <3>1. CASE HandleAuth(u, n)
      <4>1. /\ mapped' = [mapped EXCEPT ![u] = n] /\ UNCHANGED open
            /\ told' = told \ {u} /\ overtaken' = overtaken \ {u}
        BY <3>1 DEF HandleAuth
      <4>2. QED
        BY <2>4, <4>1 DEF TypeOK
    <3>2. CASE HandleLogout(u, n) \/ HandleState(u, n)
      <4>1. UNCHANGED <<mapped, open, told>> /\ overtaken' \in {overtaken, overtaken \cup {u}}
        BY <3>2 DEF HandleLogout, HandleState, NoteOvertaken
      <4>2. QED
        BY <4>1 DEF TypeOK
    <3>3. QED
      BY <1>6, <3>1, <3>2 DEF Handle
  <2>6. QED
    BY <2>1, <2>2, <2>3, <2>5 DEF TypeOK
<1>7. ASSUME NEW u \in Users, NEW n \in Connections, Close(u, n) PROVE TypeOK'
  <2>1. \A v \in Users : mapped'[v] = 0 \/ mapped'[v] \in open'[v]
    <3>1. \A v \in Users : mapped[v] = 0 \/ mapped[v] \in open[v]
      BY DEF TypeOK
    <3>2. /\ open'[u] = open[u] \ {n} /\ \A v \in Users : v # u => open'[v] = open[v]
          /\ mapped'[u] = (IF mapped[u] = n THEN 0 ELSE mapped[u])
          /\ \A v \in Users : v # u => mapped'[v] = mapped[v]
      BY <1>7, Closed
    <3>3. QED
      BY <3>1, <3>2
  <2>2. QED
    BY <1>7, <2>1, Closed DEF TypeOK
<1>8. CASE UNCHANGED vars
  BY <1>8 DEF vars, clients, display, wires, server, TypeOK
<1>9. QED
  BY <1>1, <1>2, <1>3, <1>4, <1>5, <1>6, <1>7, <1>8 DEF Next, Wake

-----------------------------------------------------------------------------
(* The wires.                                                              *)

\* A wire nothing happens on, of a user nothing happens to.
LEMMA WireSame ==
  ASSUME NEW w \in Users, NEW m \in Connections, DialledAt(w, m), SigningIn(w, m),
         up'[w][m] = up[w][m], down'[w][m] = down[w][m], conn'[w] = conn[w],
         open'[w] = open[w], session'[w] = session[w], mapped'[w] = mapped[w],
         shownFrom'[w] = shownFrom[w]
  PROVE  DialledAt(w, m)' /\ SigningIn(w, m)'
BY DEF DialledAt, SigningIn, AuthWaits

\* A dial puts an authentication on a wire that was not used before.
LEMMA WiresDial ==
  ASSUME TypeOK, WiresInv, NEW u \in Users, Dial(u)
  PROVE  WiresInv'
<1> SUFFICES ASSUME NEW w \in Users, NEW m \in Connections
             PROVE  DialledAt(w, m)' /\ SigningIn(w, m)'
  BY DEF WiresInv
<1> DEFINE c == conn[u] + 1
<1>0. DialledAt(w, m) /\ SigningIn(w, m)
  BY DEF WiresInv
<1>1. CASE w # u
  BY <1>0, <1>1, WireSame, Dialled
<1>2. CASE w = u /\ m # c
  <2>1. session[u] = "out"
    BY Dialled
  <2>2. ~AuthWaits(u, m) /\ \A i \in 1 .. Len(down[u][m]) : down[u][m][i].type # "AUTH_SUCCESS"
    BY <1>0, <1>2, <2>1 DEF SigningIn
  <2>3. up'[u][m] = up[u][m] /\ down' = down /\ conn'[u] = c /\ open'[u] = open[u] \cup {c}
        /\ shownFrom' = shownFrom /\ conn[u] \in Nat /\ m \in Nat
    BY <1>2, Dialled, Numbers
  <2>4. DialledAt(u, m)'
    BY <1>0, <1>2, <2>3 DEF DialledAt
  <2>5. SigningIn(u, m)'
    BY <2>2, <2>3 DEF SigningIn, AuthWaits
  <2>6. QED
    BY <1>2, <2>4, <2>5
<1>3. CASE w = u /\ m = c
  <2>1. /\ conn[u] \in Nat /\ conn'[u] = c /\ open'[u] = open[u] \cup {c}
        /\ up'[u][c] = <<[type |-> "AUTH", voice |-> Fresh]>>
        /\ session'[u] = "dialling"
        /\ UNCHANGED <<shownFrom, down, mapped>>
    BY Dialled
  <2>2. c \notin open[u] /\ shownFrom[u] # c
    BY <1>0, <1>3, <2>1 DEF DialledAt
  <2>3. down[u][c] = <<>>
    BY <1>0, <1>3, <2>2 DEF DialledAt
  <2>4. mapped[u] # c
    BY <2>1, <2>2 DEF TypeOK
  <2>5. Len(<<>>) = 0 /\ Len(<<[type |-> "AUTH", voice |-> Fresh]>>) = 1
    OBVIOUS
  <2>6. DialledAt(u, m)'
    BY <1>3, <2>1 DEF DialledAt
  <2>7. SigningIn(u, m)'
    BY <1>3, <2>1, <2>2, <2>3, <2>4, <2>5 DEF SigningIn
  <2>8. QED
    BY <1>3, <2>6, <2>7
<1>4. QED
  BY <1>1, <1>2, <1>3

\* A signed-in client sends a request on a wire where no authentication waits.
LEMMA WiresSent ==
  ASSUME TypeOK, WiresInv, NEW u \in Users, NEW request \in Request,
         request.type # "AUTH", session[u] = "in", up' = Sent(u, conn[u], request),
         UNCHANGED <<conn, open, down, mapped, shownFrom>>,
         \A v \in Users : v # u => session'[v] = session[v]
  PROVE  WiresInv' /\ \A m \in Connections : ~AuthWaits(u, m)'
<1>1. ASSUME NEW m \in Connections
      PROVE  /\ ~AuthWaits(u, m)'
             /\ \A i \in 1 .. Len(down[u][m]) : down[u][m][i].type # "AUTH_SUCCESS"
  <2>0. DialledAt(u, m) /\ SigningIn(u, m)
    BY DEF WiresInv
  <2>1. /\ ~AuthWaits(u, m)
        /\ \A i \in 1 .. Len(down[u][m]) : down[u][m][i].type # "AUTH_SUCCESS"
    BY <2>0 DEF SigningIn
  <2>2. CASE up'[u][m] = up[u][m]
    BY <2>1, <2>2 DEF AuthWaits
  <2>3. CASE up'[u][m] = Append(up[u][m], request)
    <3>1. up[u][m] \in Seq(Request)
      BY DEF TypeOK
    <3>2. /\ \A i \in 1 .. Len(up'[u][m]) : i \in 1 .. Len(up[u][m]) \/ i = Len(up[u][m]) + 1
          /\ \A i \in 1 .. Len(up[u][m]) : up'[u][m][i] = up[u][m][i]
          /\ up'[u][m][Len(up[u][m]) + 1] = request
      BY <2>3, <3>1, Added
    <3>3. \A i \in 1 .. Len(up[u][m]) : up[u][m][i].type # "AUTH"
      BY <2>1 DEF AuthWaits
    <3>4. \A i \in 1 .. Len(up'[u][m]) : up'[u][m][i].type # "AUTH"
      BY <3>2, <3>3
    <3>5. ~AuthWaits(u, m)'
      BY <3>4, Zenon DEF AuthWaits
    <3>6. QED
      BY <2>1, <3>5, Zenon
  <2>4. up'[u][m] = up[u][m] \/ up'[u][m] = Append(up[u][m], request)
    BY SentTyped
  <2>5. QED
    BY <2>1, <2>2, <2>3, <2>4
<1>2. ASSUME NEW w \in Users, NEW m \in Connections
      PROVE  DialledAt(w, m)' /\ SigningIn(w, m)'
  <2>0. DialledAt(w, m) /\ SigningIn(w, m)
    BY DEF WiresInv
  <2>1. CASE w # u
    <3>1. up'[w][m] = up[w][m]
      BY <2>1, SentTyped
    <3>2. QED
      BY <2>0, <2>1, <3>1, WireSame
  <2>2. CASE w = u
    <3>1. m \notin open[u] => up'[u][m] = up[u][m]
      BY SentTyped
    <3>2. QED
      BY <1>1, <2>0, <2>2, <3>1 DEF DialledAt, SigningIn
  <2>3. QED
    BY <2>1, <2>2
<1>3. QED
  BY <1>1, <1>2 DEF WiresInv

\* A push that is read: a welcome lets its user in and was the only one.
LEMMA WiresRead ==
  ASSUME TypeOK, WiresInv, NEW u \in Users, NEW n \in Connections, ReceivePush(u, n)
  PROVE  /\ WiresInv'
         /\ Head(down[u][n]).type = "AUTH_SUCCESS" => session[u] = "dialling" /\ n = conn[u]
<1> DEFINE d == down[u][n]
<1>0. /\ down'[u][n] = Tail(d)
      /\ \A v \in Users, m \in Connections : v # u \/ m # n => down'[v][m] = down[v][m]
      /\ UNCHANGED <<conn, open, up, mapped>>
      /\ \A v \in Users : v # u => session'[v] = session[v] /\ shownFrom'[v] = shownFrom[v]
      /\ shownFrom'[u] \in {shownFrom[u], n}
      /\ Head(d).type # "AUTH_SUCCESS" => session' = session
  <2>1. session \in [Users -> {"out", "dialling", "in"}]
        /\ shownFrom \in [Users -> {0} \cup Connections]
    BY DEF TypeOK
  <2>2. CASE Head(d).type = "AUTH_SUCCESS"
    BY <2>1, <2>2, Read
  <2>3. CASE Head(d).type # "AUTH_SUCCESS"
    BY <2>1, <2>3, Read
  <2>4. QED
    BY <2>2, <2>3
<1>1. /\ Head(d) = d[1] /\ Len(d) \in Nat /\ Len(d) >= 1 /\ Len(Tail(d)) = Len(d) - 1
      /\ \A i \in 1 .. Len(Tail(d)) : Tail(d)[i] = d[i + 1]
      /\ d # <<>>
  <2>1. d # <<>> /\ d \in Seq(Push)
    BY Read
  <2>2. QED
    BY <2>1, Taken
<1>2. DialledAt(u, n) /\ SigningIn(u, n)
  BY DEF WiresInv
<1> HIDE DEF d
<1>3. Head(d).type = "AUTH_SUCCESS" => session[u] = "dialling" /\ n = conn[u]
  BY <1>1, <1>2 DEF SigningIn, d
<1>4. \A i \in 1 .. Len(Tail(d)) : Tail(d)[i].type # "AUTH_SUCCESS"
  <2> SUFFICES ASSUME NEW i \in 1 .. Len(Tail(d)), d[i + 1].type = "AUTH_SUCCESS" PROVE FALSE
    BY <1>1
  <2>1. i + 1 \in 1 .. Len(d) /\ i + 1 # 1
    BY <1>1
  <2>2. QED
    BY <1>2, <2>1 DEF SigningIn, d
<1>5. \A m \in Connections : ~AuthWaits(u, m) \/ m # n
  BY <1>1, <1>2 DEF SigningIn, d
<1>6. ASSUME NEW w \in Users, NEW m \in Connections
      PROVE  DialledAt(w, m)' /\ SigningIn(w, m)'
  <2>0. DialledAt(w, m) /\ SigningIn(w, m)
    BY DEF WiresInv
  <2>1. CASE w # u
    BY <1>0, <2>0, <2>1, WireSame
  <2>2. CASE w = u /\ m = n
    <3>1. n \in open[u] /\ ~(n > conn[u])
      BY <1>1, <1>2 DEF DialledAt, d
    <3>2. ~AuthWaits(u, n)
      BY <1>5
    <3>3. QED
      BY <1>0, <1>4, <2>2, <3>1, <3>2 DEF DialledAt, SigningIn, AuthWaits
  <2>3. CASE w = u /\ m # n /\ Head(d).type # "AUTH_SUCCESS"
    BY <1>0, <2>0, <2>3 DEF DialledAt, SigningIn, AuthWaits
  <2>4. CASE w = u /\ m # n /\ Head(d).type = "AUTH_SUCCESS"
    <3>1. n = conn[u]
      BY <1>3, <2>4
    <3>2. ~AuthWaits(u, m) /\ \A i \in 1 .. Len(down[u][m]) : down[u][m][i].type # "AUTH_SUCCESS"
      BY <2>0, <2>4, <3>1 DEF SigningIn
    <3>3. QED
      BY <1>0, <2>0, <2>4, <3>2 DEF DialledAt, SigningIn, AuthWaits
  <2>5. QED
    BY <2>1, <2>2, <2>3, <2>4
<1>7. QED
  BY <1>3, <1>6 DEF WiresInv, d

\* What happens to a user's pushes in a broadcast: nothing, or a list at the end of
\* the mapped connection's wire.
Informs(u, n) ==
    \/ down'[u][n] = down[u][n]
    \/ /\ mapped[u] = n /\ u \in Watchers
       /\ PeersPush(clientMap') \in Push
       /\ down'[u][n] = Append(down[u][n], PeersPush(clientMap'))

LEMMA HandledInforms ==
  ASSUME TypeOK, NEW u \in Users, NEW n \in Connections, Handle(u, n),
         NEW w \in Users, NEW m \in Connections,
         HandleAuth(u, n) => w # u \/ m # n
  PROVE  Informs(w, m)
<1>1. CASE HandleAuth(u, n)
  <2>1. down'[w][m] = Broadcast(clientMap')[w][m] /\ clientMap' \in Lists
    BY <1>1, AuthDown, HandledList
  <2>2. QED
    BY <2>1, Broadcasts DEF Informs
<1>2. CASE HandleLogout(u, n)
  <2>1. down' = Broadcast(clientMap') /\ clientMap' \in Lists
    BY <1>2, HandledList DEF HandleLogout
  <2>2. QED
    BY <2>1, Broadcasts DEF Informs
<1>3. CASE HandleState(u, n)
  <2>1. clientMap' \in Lists /\ (down' = Broadcast(clientMap') \/ down' = down)
    BY <1>3, HandledList DEF HandleState
  <2>2. /\ PeersPush(clientMap') \in Push
        /\ Broadcast(clientMap')[w][m] = IF mapped[w] = m /\ w \in Watchers
                                         THEN Append(down[w][m], PeersPush(clientMap'))
                                         ELSE down[w][m]
    BY <2>1, Broadcasts
  <2>3. CASE down' = Broadcast(clientMap')
    BY <2>2, <2>3 DEF Informs
  <2>4. CASE down' = down
    BY <2>4 DEF Informs
  <2>5. QED
    BY <2>1, <2>3, <2>4
<1>4. QED
  BY <1>1, <1>2, <1>3 DEF Handle

\* A list that is added is no answer, and goes to an open connection.
LEMMA InformedWire ==
  ASSUME TypeOK, NEW w \in Users, NEW m \in Connections, Informs(w, m)
  PROVE  /\ \A i \in 1 .. Len(down'[w][m]) : down'[w][m][i].type = "AUTH_SUCCESS" =>
              i \in 1 .. Len(down[w][m]) /\ down[w][m][i].type = "AUTH_SUCCESS"
         /\ down'[w][m] # down[w][m] => mapped[w] = m /\ m \in open[w]
<1>1. CASE down'[w][m] = down[w][m]
  BY <1>1
<1>2. CASE /\ mapped[w] = m /\ w \in Watchers
           /\ PeersPush(clientMap') \in Push
           /\ down'[w][m] = Append(down[w][m], PeersPush(clientMap'))
  <2> DEFINE push == PeersPush(clientMap')
             q == down[w][m]
  <2>1. q \in Seq(Push) /\ push \in Push /\ push.type = "PUSH_PEERS"
    BY <1>2 DEF TypeOK, PeersPush
  <2>2. mapped[w] = m /\ down'[w][m] = Append(q, push)
    BY <1>2
  <2> HIDE DEF push
  <2>3. /\ \A i \in 1 .. Len(Append(q, push)) : i \in 1 .. Len(q) \/ i = Len(q) + 1
        /\ \A i \in 1 .. Len(q) : Append(q, push)[i] = q[i]
        /\ Append(q, push)[Len(q) + 1] = push
    BY <2>1, Added
  <2>4. \A i \in 1 .. Len(Append(q, push)) : Append(q, push)[i].type = "AUTH_SUCCESS" =>
          i \in 1 .. Len(q) /\ q[i].type = "AUTH_SUCCESS"
    BY <2>1, <2>3
  <2>5. m # 0 /\ m \in open[w]
    BY <2>2, Numbers DEF TypeOK
  <2>6. QED
    BY <2>2, <2>4, <2>5
<1>3. QED
  BY <1>1, <1>2 DEF Informs

\* A request that is handled waits no longer, and no other wire has an authentication
\* when one is handled.
LEMMA HandledUp ==
  ASSUME TypeOK, WiresInv, NEW u \in Users, NEW n \in Connections, Handle(u, n)
  PROVE  /\ up[u][n] # <<>> /\ up[u][n] \in Seq(Request) /\ up'[u][n] = Tail(up[u][n])
         /\ Head(up[u][n]) \in Request
         /\ \A v \in Users, m \in Connections : v # u \/ m # n => up'[v][m] = up[v][m]
         /\ UNCHANGED <<ui, local, session, pendingLogout, clicks, shown, shownFrom, conn, open>>
         /\ n \in open[u] /\ n <= conn[u]
         /\ ~AuthWaits(u, n)'
         /\ HandleAuth(u, n) =>
              /\ n = conn[u] /\ session[u] = "dialling" /\ up'[u][n] = <<>>
              /\ mapped[u] # n /\ shownFrom[u] # n /\ down[u][n] = <<>>
<1>0. DialledAt(u, n) /\ SigningIn(u, n)
  BY DEF WiresInv
<1> DEFINE q == up[u][n]
<1>1. PICK type : Take(u, n, type) /\ (HandleAuth(u, n) => type = "AUTH")
  <2>1. CASE HandleAuth(u, n)
    BY <2>1 DEF HandleAuth
  <2>2. CASE ~HandleAuth(u, n)
    BY <2>2 DEF Handle, HandleLogout, HandleState
  <2>3. QED
    BY <2>1, <2>2
<1>2. /\ q # <<>> /\ q \in Seq(Request) /\ up'[u][n] = Tail(q)
      /\ Head(q) \in Request /\ Head(q).type = type
      /\ \A v \in Users, m \in Connections : v # u \/ m # n => up'[v][m] = up[v][m]
      /\ UNCHANGED <<ui, local, session, pendingLogout, clicks, shown, shownFrom, conn>>
  BY <1>1, TakenUp
<1>3. UNCHANGED open
  BY DEF Handle, HandleAuth, HandleLogout, HandleState
<1>4. n \in open[u] /\ n <= conn[u]
  <2>1. n \in open[u] /\ ~(n > conn[u])
    BY <1>0, <1>2 DEF DialledAt
  <2>2. n \in Nat /\ conn[u] \in Nat
    BY Numbers DEF TypeOK
  <2>3. QED
    BY <2>1, <2>2
<1>5. /\ Head(q) = q[1] /\ Len(q) \in Nat /\ Len(q) >= 1 /\ Len(Tail(q)) = Len(q) - 1
      /\ \A i \in 1 .. Len(Tail(q)) : Tail(q)[i] = q[i + 1]
      /\ Tail(q) # <<>> => Len(q) >= 2
  BY <1>2, Taken
<1> HIDE DEF q
<1>6. ~AuthWaits(u, n)'
  <2> SUFFICES ASSUME NEW i \in 1 .. Len(Tail(q)), q[i + 1].type = "AUTH" PROVE FALSE
    BY <1>2, <1>5 DEF AuthWaits
  <2>1. i + 1 \in 1 .. Len(q) /\ Len(q) # 1
    BY <1>5
  <2>2. AuthWaits(u, n)
    BY <2>1 DEF AuthWaits, q
  <2>3. QED
    BY <1>0, <2>1, <2>2 DEF SigningIn, q
<1>7. ASSUME HandleAuth(u, n)
      PROVE  /\ n = conn[u] /\ session[u] = "dialling" /\ up'[u][n] = <<>>
             /\ mapped[u] # n /\ shownFrom[u] # n /\ down[u][n] = <<>>
  <2>1. q[1].type = "AUTH" /\ 1 \in 1 .. Len(q)
    BY <1>1, <1>2, <1>5, <1>7
  <2>2. AuthWaits(u, n)
    BY <2>1 DEF AuthWaits, q
  <2>3. Len(q) = 1
    BY <1>0, <2>2 DEF SigningIn, q
  <2>4. up'[u][n] = <<>>
    BY <1>2, <1>5, <2>3
  <2>5. QED
    BY <1>0, <2>2, <2>4 DEF SigningIn
<1>8. QED
  BY <1>2, <1>3, <1>4, <1>6, <1>7 DEF q

\* A request that is handled leaves the wires in order.
LEMMA WiresHandled ==
  ASSUME TypeOK, WiresInv, NEW u \in Users, NEW n \in Connections, Handle(u, n)
  PROVE  WiresInv'
<1> SUFFICES ASSUME NEW w \in Users, NEW m \in Connections
             PROVE  DialledAt(w, m)' /\ SigningIn(w, m)'
  BY DEF WiresInv
<1>0. DialledAt(w, m) /\ SigningIn(w, m) /\ SigningIn(u, n)
  BY DEF WiresInv
<1>1. /\ UNCHANGED <<session, shownFrom, conn, open>> /\ n \in open[u] /\ n <= conn[u]
      /\ ~AuthWaits(u, n)'
      /\ w # u \/ m # n => up'[w][m] = up[w][m]
      /\ HandleAuth(u, n) => n = conn[u] /\ session[u] = "dialling" /\ down[u][n] = <<>>
                             /\ mapped[u] # n
  BY HandledUp
<1>2. CASE HandleAuth(u, n) /\ w = u /\ m = n
  <2>1. down'[u][n] = Append(Broadcast(clientMap')[u][n], Welcome) /\ clientMap' \in Lists
    BY <1>2, AuthDown, HandledList
  <2>2. Broadcast(clientMap')[u][n] = <<>>
    BY <1>1, <1>2, <2>1, Broadcasts
  <2>3. Len(down'[u][n]) = 1
    BY <2>1, <2>2
  <2>4. conn[u] \in Nat /\ n \in Nat
    BY <1>0, Numbers DEF TypeOK
  <2>5. DialledAt(u, n)'
    BY <1>1, <1>2, <2>4 DEF DialledAt
  <2>6. SigningIn(u, n)'
    BY <1>1, <1>2, <2>3 DEF SigningIn
  <2>7. QED
    BY <1>2, <2>5, <2>6
<1>3. CASE ~(HandleAuth(u, n) /\ w = u /\ m = n)
  <2>1. Informs(w, m)
    BY <1>3, HandledInforms
  <2>2. /\ \A i \in 1 .. Len(down'[w][m]) : down'[w][m][i].type = "AUTH_SUCCESS" =>
             i \in 1 .. Len(down[w][m]) /\ down[w][m][i].type = "AUTH_SUCCESS"
        /\ down'[w][m] # down[w][m] => mapped[w] = m /\ m \in open[w]
    BY <2>1, InformedWire
  <2>3. AuthWaits(w, m)' => AuthWaits(w, m) /\ up'[w][m] = up[w][m] /\ (w # u \/ m # n)
    BY <1>1 DEF AuthWaits
  <2>4. AuthWaits(w, m)' => mapped'[w] # m
    <3> SUFFICES ASSUME AuthWaits(w, m)' PROVE mapped'[w] # m
      OBVIOUS
    <3>1. mapped[w] # m /\ m = conn[w]
      BY <1>0, <2>3 DEF SigningIn
    <3>2. CASE HandleAuth(u, n)
      <4>1. mapped' = [mapped EXCEPT ![u] = n]
        BY <3>2 DEF HandleAuth
      <4>2. w # u
        BY <1>1, <2>3, <3>1, <3>2
      <4>3. QED
        BY <3>1, <4>1, <4>2 DEF TypeOK
    <3>3. CASE ~HandleAuth(u, n)
      BY <3>1, <3>3 DEF Handle, HandleLogout, HandleState
    <3>4. QED
      BY <3>2, <3>3
  <2>5. DialledAt(w, m)'
    <3>1. n \in open[u]
      BY <1>1
    <3>2. CASE w = u /\ m = n
      BY <1>0, <1>1, <2>2, <3>2 DEF DialledAt
    <3>3. CASE w # u \/ m # n
      BY <1>0, <1>1, <2>2, <3>3 DEF DialledAt
    <3>4. QED
      BY <3>2, <3>3
  <2>6. SigningIn(w, m)'
    <3>1. AuthWaits(w, m)' => down'[w][m] = down[w][m]
      BY <1>0, <2>2, <2>3 DEF SigningIn
    <3>2. QED
      BY <1>0, <1>1, <2>2, <2>3, <2>4, <3>1 DEF SigningIn
  <2>7. QED
    BY <2>5, <2>6
<1>4. QED
  BY <1>2, <1>3

\* A connection that closes takes its wire along.
LEMMA WiresClosed ==
  ASSUME TypeOK, WiresInv, NEW u \in Users, NEW n \in Connections, Close(u, n)
  PROVE  WiresInv'
<1> SUFFICES ASSUME NEW w \in Users, NEW m \in Connections
             PROVE  DialledAt(w, m)' /\ SigningIn(w, m)'
  BY DEF WiresInv
<1>0. DialledAt(w, m) /\ SigningIn(w, m)
  BY DEF WiresInv
<1>1. /\ open'[u] = open[u] \ {n} /\ (\A v \in Users : v # u => open'[v] = open[v])
      /\ up'[u][n] = <<>> /\ down'[u][n] = <<>>
      /\ w # u \/ m # n => up'[w][m] = up[w][m] /\ down'[w][m] = down[w][m]
      /\ mapped'[u] = (IF mapped[u] = n THEN 0 ELSE mapped[u])
      /\ \A v \in Users : v # u => mapped'[v] = mapped[v]
      /\ UNCHANGED <<session, shownFrom, conn>>
  BY Closed
<1>2. Len(<<>>) = 0 /\ m # 0
  BY Numbers
<1>3. CASE w # u
  BY <1>0, <1>1, <1>3, WireSame
<1>4. CASE w = u /\ m = n
  BY <1>0, <1>1, <1>2, <1>4 DEF DialledAt, SigningIn, AuthWaits
<1>5. CASE w = u /\ m # n
  BY <1>0, <1>1, <1>2, <1>5 DEF DialledAt, SigningIn, AuthWaits
<1>6. QED
  BY <1>3, <1>4, <1>5

\* A wake sends a request that is no authentication.
LEMMA WakeSends ==
  ASSUME TypeOK, NEW u \in Users, Wake(u)
  PROVE  \E request \in Request : request.type # "AUTH" /\ up' = Sent(u, conn[u], request)
<1>1. CASE WakeLogout(u)
  BY <1>1, RequestMade, FreshTyped DEF WakeLogout
<1>2. CASE WakeVoice(u)
  <2>1. [type |-> "STATE", voice |-> ui[u]] \in Request
    BY RequestMade DEF TypeOK
  <2>2. QED
    BY <1>2, <2>1 DEF WakeVoice
<1>3. QED
  BY <1>1, <1>2 DEF Wake

\* Every step leaves the wires in order.
LEMMA WiresKept == TypeOK /\ WiresInv /\ [Next]_vars => WiresInv'
<1> SUFFICES ASSUME TypeOK, WiresInv, [Next]_vars PROVE WiresInv'
  OBVIOUS
<1>1. ASSUME UNCHANGED <<conn, open, up, down, session, mapped, shownFrom>> PROVE WiresInv'
  BY <1>1 DEF WiresInv, DialledAt, SigningIn, AuthWaits
<1>2. ASSUME NEW u \in Users, UserActs(u) PROVE WiresInv'
  <2>1. UNCHANGED <<conn, open, up, down, session, mapped, shownFrom>>
    BY <1>2, Clicked DEF display, wires, server
  <2>2. QED
    BY <1>1, <2>1
<1>3. ASSUME NEW u \in Users, Wake(u) PROVE WiresInv'
  <2>1. PICK request \in Request :
          request.type # "AUTH" /\ up' = Sent(u, conn[u], request)
    BY <1>3, WakeSends
  <2>2. session[u] = "in" /\ UNCHANGED <<conn, open, down, mapped, shownFrom>>
    BY <1>3 DEF Wake, WakeLogout, WakeVoice, display, server
  <2>3. \A v \in Users : v # u => session'[v] = session[v]
    BY <1>3 DEF Wake, WakeLogout, WakeVoice, TypeOK
  <2>4. QED
    BY <2>1, <2>2, <2>3, WiresSent
<1>4. CASE UNCHANGED vars
  BY <1>1, <1>4 DEF vars, clients, display, wires, server
<1>5. QED
  BY <1>2, <1>3, <1>4, WiresDial, WiresRead, WiresHandled, WiresClosed DEF Next

-----------------------------------------------------------------------------
(* What is shown.                                                          *)

\* A watcher nothing happens to.
LEMMA ShownSame ==
  ASSUME NEW w \in Watchers, CurrentFor(w),
         mapped'[w] = mapped[w], mapped[w] # 0 => down'[w][mapped[w]] = down[w][mapped[w]],
         shown'[w] = shown[w], shownFrom'[w] = shownFrom[w], clientMap' = clientMap
  PROVE  CurrentFor(w)'
BY DEF CurrentFor

\* A watcher that was mapped and is sent the list as it has become.
LEMMA ShownInformed ==
  ASSUME TypeOK, NEW w \in Watchers, clientMap' \in Lists, mapped'[w] = mapped[w],
         \A m \in Connections : down'[w][m] = Broadcast(clientMap')[w][m]
  PROVE  CurrentFor(w)'
<1> SUFFICES ASSUME mapped[w] # 0 PROVE CurrentFor(w)'
  BY DEF CurrentFor
<1> DEFINE m == mapped[w]
           q == down[w][m]
<1>1. w \in Users /\ m \in Connections
  BY PresenceAssumption DEF TypeOK
<1>2. /\ PeersPush(clientMap') \in Push
      /\ Broadcast(clientMap')[w][m] = IF mapped[w] = m /\ w \in Watchers
                                       THEN Append(q, PeersPush(clientMap'))
                                       ELSE q
  BY <1>1, Broadcasts
<1>3. q \in Seq(Push)
  BY <1>1 DEF TypeOK
<1>4. /\ Append(q, PeersPush(clientMap')) # <<>>
      /\ Newest(Append(q, PeersPush(clientMap'))) = PeersPush(clientMap')
  BY <1>2, <1>3, Added
<1>5. down'[w][m] = Append(q, PeersPush(clientMap'))
  BY <1>1, <1>2
<1>6. down'[w][m] # <<>> /\ Newest(down'[w][m]) = PeersPush(clientMap')
  BY <1>4, <1>5
<1>7. /\ PeersPush(clientMap').type # "AUTH_SUCCESS"
      /\ PeersPush(clientMap').peers = Listed(clientMap')
  BY DEF PeersPush
<1>8. QED
  BY <1>6, <1>7 DEF CurrentFor, Newest

\* The one that signs in is not told, and what it shows it got elsewhere.
LEMMA ShownSignedIn ==
  ASSUME TypeOK, WiresInv, NEW u \in Users, NEW n \in Connections, HandleAuth(u, n)
  PROVE  CurrentFor(u)'
<1>1. Handle(u, n)
  BY DEF Handle
<1>2. mapped[u] # n /\ shownFrom'[u] # n /\ down[u][n] = <<>>
  BY <1>1, HandledUp
<1>3. /\ down'[u][n] = Append(Broadcast(clientMap')[u][n], Welcome)
      /\ clientMap' \in Lists
  BY AuthDown, HandledList
<1>4. Broadcast(clientMap')[u][n] \in Seq(Push)
  BY <1>3, Broadcasts
<1>5. mapped'[u] = n
  BY DEF HandleAuth, TypeOK
<1>6. down'[u][n] # <<>> /\ Newest(down'[u][n]) = Welcome
  BY <1>3, <1>4, WelcomeTyped, Added
<1>7. Welcome.type = "AUTH_SUCCESS"
  BY DEF Welcome
<1>8. QED
  BY <1>2, <1>5, <1>6, <1>7 DEF CurrentFor, Newest

\* A push that is read leaves the newest one on the wire, or on the screen.
LEMMA ShownRead ==
  ASSUME TypeOK, WiresInv, NEW u \in Watchers, CurrentFor(u),
         NEW n \in Connections, ReceivePush(u, n)
  PROVE  CurrentFor(u)'
<1> DEFINE d == down[u][n]
<1>0. u \in Users
  BY PresenceAssumption
<1>1. /\ d # <<>> /\ d \in Seq(Push) /\ down'[u][n] = Tail(d)
      /\ \A m \in Connections : m # n => down'[u][m] = down[u][m]
      /\ Head(d).type = "AUTH_SUCCESS" => shown' = shown /\ shownFrom' = shownFrom
      /\ Head(d).type # "AUTH_SUCCESS" => shown'[u] = Head(d).peers /\ shownFrom'[u] = n
      /\ UNCHANGED <<mapped, clientMap>>
  <2>1. shown \in [Users -> Lists] /\ shownFrom \in [Users -> {0} \cup Connections]
    BY DEF TypeOK
  <2>2. QED
    BY <1>0, <2>1, Read
<1>2. /\ Len(d) \in Nat /\ Len(d) >= 1
      /\ Tail(d) # <<>> => Len(d) >= 2 /\ Newest(Tail(d)) = Newest(d)
      /\ Tail(d) = <<>> => Newest(d) = Head(d)
  BY <1>1, Taken
<1> HIDE DEF d
<1>3. Tail(d) # <<>> => Newest(d).type # "AUTH_SUCCESS"
  <2>1. SigningIn(u, n)
    BY <1>0 DEF WiresInv
  <2>2. \A k \in Nat : k >= 2 => k \in 1 .. k /\ k # 1
    OBVIOUS
  <2>3. Tail(d) # <<>> => Len(d) \in 1 .. Len(d) /\ Len(d) # 1
    BY <1>2, <2>2, Zenon
  <2>4. QED
    BY <2>1, <2>3 DEF SigningIn, Newest, d
<1>4. mapped[u] # 0 => mapped[u] \in Connections
  BY <1>0 DEF TypeOK
<1>5. CASE n # mapped[u] /\ Head(d).type = "AUTH_SUCCESS"
  BY <1>1, <1>4, <1>5, ShownSame
<1>6. CASE n # mapped[u] /\ Head(d).type # "AUTH_SUCCESS"
  BY <1>1, <1>4, <1>6 DEF CurrentFor
<1>7. CASE n = mapped[u] /\ Tail(d) # <<>>
  BY <1>1, <1>2, <1>3, <1>4, <1>7 DEF CurrentFor, d
<1>8. CASE n = mapped[u] /\ Tail(d) = <<>>
  <2>1. n # 0
    BY Numbers
  <2>2. IF Head(d).type = "AUTH_SUCCESS" THEN shownFrom[u] # n
        ELSE Head(d).peers = Listed(clientMap)
    BY <1>1, <1>2, <1>8, <2>1 DEF CurrentFor, d
  <2>3. QED
    BY <1>1, <1>8, <2>2 DEF CurrentFor
<1>9. QED
  BY <1>5, <1>6, <1>7, <1>8

\* Every step leaves the newest list on the wire or on the screen.
LEMMA ShownKept == TypeOK /\ WiresInv /\ ShownInv /\ [Next]_vars => ShownInv'
<1> SUFFICES ASSUME TypeOK, WiresInv, ShownInv, [Next]_vars, NEW w \in Watchers
             PROVE  CurrentFor(w)'
  BY DEF ShownInv
<1>0. CurrentFor(w) /\ w \in Users
  BY PresenceAssumption DEF ShownInv
<1>1. ASSUME UNCHANGED <<mapped, down, shown, shownFrom, clientMap>> PROVE CurrentFor(w)'
  BY <1>0, <1>1, ShownSame
<1>2. ASSUME NEW u \in Users, UserActs(u) \/ Dial(u) \/ Wake(u) PROVE CurrentFor(w)'
  <2>1. CASE UserActs(u)
    BY <1>1, <2>1, Clicked DEF display, wires, server
  <2>2. CASE Dial(u)
    BY <1>1, <2>2, Dialled
  <2>3. CASE Wake(u)
    BY <1>1, <2>3 DEF Wake, WakeLogout, WakeVoice, display, server
  <2>4. QED
    BY <1>2, <2>1, <2>2, <2>3
<1>3. ASSUME NEW u \in Users, NEW n \in Connections, ReceivePush(u, n) PROVE CurrentFor(w)'
  <2>1. CASE w = u
    BY <1>0, <1>3, <2>1, ShownRead
  <2>2. CASE w # u
    <3>1. /\ mapped' = mapped /\ clientMap' = clientMap
          /\ \A m \in Connections : down'[w][m] = down[w][m]
      BY <1>0, <1>3, <2>2, Read
    <3>2. shown'[w] = shown[w] /\ shownFrom'[w] = shownFrom[w]
      <4>1. shown \in [Users -> Lists] /\ shownFrom \in [Users -> {0} \cup Connections]
        BY DEF TypeOK
      <4>2. CASE Head(down[u][n]).type = "AUTH_SUCCESS"
        BY <1>3, <4>2, Read
      <4>3. CASE Head(down[u][n]).type # "AUTH_SUCCESS"
        BY <1>0, <1>3, <2>2, <4>1, <4>3, Read
      <4>4. QED
        BY <4>2, <4>3
    <3>3. mapped[w] # 0 => mapped[w] \in Connections
      BY <1>0 DEF TypeOK
    <3>4. QED
      BY <1>0, <3>1, <3>2, <3>3, ShownSame
  <2>3. QED
    BY <2>1, <2>2
<1>4. ASSUME NEW u \in Users, NEW n \in Connections, Handle(u, n) PROVE CurrentFor(w)'
  <2>1. CASE HandleAuth(u, n) /\ w = u
    BY <2>1, ShownSignedIn
  <2>2. CASE HandleAuth(u, n) /\ w # u
    <3>1. mapped'[w] = mapped[w]
      BY <1>0, <2>2 DEF HandleAuth, TypeOK
    <3>2. clientMap' \in Lists /\ \A m \in Connections : down'[w][m] = Broadcast(clientMap')[w][m]
      BY <1>0, <2>2, AuthDown, HandledList
    <3>3. QED
      BY <3>1, <3>2, ShownInformed
  <2>3. CASE HandleLogout(u, n)
    <3>1. clientMap' \in Lists /\ down' = Broadcast(clientMap') /\ mapped' = mapped
      BY <2>3, HandledList DEF HandleLogout
    <3>2. QED
      BY <3>1, ShownInformed
  <2>4. CASE HandleState(u, n) /\ u \in DOMAIN clientMap
    <3>1. clientMap' \in Lists /\ down' = Broadcast(clientMap') /\ mapped' = mapped
      BY <2>4, HandledList DEF HandleState
    <3>2. QED
      BY <3>1, ShownInformed
  <2>5. CASE HandleState(u, n) /\ u \notin DOMAIN clientMap
    BY <1>1, <2>5 DEF HandleState, Take, display
  <2>6. QED
    BY <1>4, <2>1, <2>2, <2>3, <2>4, <2>5 DEF Handle
<1>5. ASSUME NEW u \in Users, NEW n \in Connections, Close(u, n) PROVE CurrentFor(w)'
  <2>1. /\ mapped'[u] = (IF mapped[u] = n THEN 0 ELSE mapped[u])
        /\ \A v \in Users : v # u => mapped'[v] = mapped[v]
        /\ \A v \in Users, m \in Connections : v # u \/ m # n => down'[v][m] = down[v][m]
        /\ UNCHANGED <<shown, shownFrom, clientMap>>
    BY <1>5, Closed
  <2>2. mapped[w] # 0 => mapped[w] \in Connections
    BY <1>0 DEF TypeOK
  <2>3. CASE w = u /\ mapped[u] = n
    BY <2>1, <2>3 DEF CurrentFor
  <2>4. CASE ~(w = u /\ mapped[u] = n)
    BY <1>0, <2>1, <2>2, <2>4, ShownSame
  <2>5. QED
    BY <2>3, <2>4
<1>6. CASE UNCHANGED vars
  BY <1>1, <1>6 DEF vars, clients, display, wires, server
<1>7. QED
  BY <1>2, <1>3, <1>4, <1>5, <1>6 DEF Next

-----------------------------------------------------------------------------
(* What the server knows of each user.                                     *)

\* A user of whose newest connection and profile nothing changes.
LEMMA UserSame ==
  ASSUME TypeOK, NEW w \in Users, UserInv(w),
         conn'[w] = conn[w], session'[w] = session[w], local'[w] = local[w],
         conn[w] \in open'[w] => conn[w] \in open[w],
         conn[w] \in Connections => up'[w][conn[w]] = up[w][conn[w]],
         mapped[w] = conn[w] => mapped'[w] = conn[w],
         w \in told' <=> w \in told, w \in overtaken => w \in overtaken',
         w \in DOMAIN clientMap' <=> w \in DOMAIN clientMap,
         w \in DOMAIN clientMap => clientMap'[w] = clientMap[w]
  PROVE  UserInv(w)'
<1>0. conn[w] # 0 => conn[w] \in Connections
  BY DEF TypeOK
<1>1. conn[w] \in open'[w] => conn[w] \in Connections
  BY DEF TypeOK
<1>2. NewestMapped(w)'
  BY <1>1 DEF UserInv, NewestMapped, AuthWaits
<1>3. LogoutLast(w)'
  BY <1>0 DEF UserInv, LogoutLast
<1>4. KnownOf(w)'
  <2> SUFFICES ASSUME conn[w] \in open'[w], w \notin overtaken', ~AuthWaits(w, conn[w])'
               PROVE  KnownOf(w)'
    BY DEF KnownOf, AuthWaits
  <2>1. up'[w][conn[w]] = up[w][conn[w]]
    BY <1>1
  <2>2. IF session[w] = "out" THEN SignedOutKnown(w) ELSE SignedInKnown(w)
    BY <2>1 DEF UserInv, KnownOf, AuthWaits
  <2>3. CASE session[w] = "out"
    BY <2>1, <2>2, <2>3 DEF KnownOf, SignedOutKnown, Newest
  <2>4. CASE session[w] # "out"
    BY <2>1, <2>2, <2>4 DEF KnownOf, SignedInKnown, Newest
  <2>5. QED
    BY <2>3, <2>4
<1>5. QED
  BY <1>2, <1>3, <1>4 DEF UserInv

\* The user who dials has an authentication that waits.
LEMMA UserDials ==
  ASSUME TypeOK, NEW u \in Users, Dial(u)
  PROVE  UserInv(u)'
<1> DEFINE c == conn[u] + 1
           auth == [type |-> "AUTH", voice |-> Fresh]
<1>1. conn'[u] = c /\ up'[u][c] = << auth >>
  BY Dialled
<1>2. /\ Len(<< auth >>) = 1 /\ 1 \in 1 .. Len(<< auth >>) /\ << auth >>[1].type = "AUTH"
      /\ \A i \in 1 .. Len(<< auth >>) : << auth >>[i].type # "LOGOUT"
  OBVIOUS
<1> HIDE DEF c, auth
<1>3. AuthWaits(u, conn[u])'
  BY <1>1, <1>2 DEF AuthWaits
<1>4. LogoutLast(u)'
  BY <1>1, <1>2 DEF LogoutLast
<1>5. QED
  BY <1>3, <1>4 DEF UserInv, NewestMapped, KnownOf

\* A signed-in client's request becomes the newest one.
LEMMA UserWakes ==
  ASSUME TypeOK, WiresInv, NEW u \in Users, UserInv(u), Wake(u),
         \A m \in Connections : ~AuthWaits(u, m)'
  PROVE  UserInv(u)'
<1> DEFINE c == conn[u]
           q == up[u][c]
<1>0. session[u] = "in" /\ UNCHANGED <<conn, open, down, mapped, clientMap, overtaken>>
  BY DEF Wake, WakeLogout, WakeVoice, server
<1>1. PICK request \in Request :
        /\ up' = Sent(u, c, request)
        /\ \/ request.type = "LOGOUT" /\ session'[u] = "out"
           \/ /\ request.type = "STATE" /\ session'[u] = "in"
              /\ u \in told' /\ request.voice = local'[u]
  <2>1. CASE WakeLogout(u)
    BY <2>1, RequestMade, FreshTyped DEF WakeLogout, TypeOK
  <2>2. CASE WakeVoice(u)
    <3>1. [type |-> "STATE", voice |-> ui[u]] \in Request
      BY RequestMade DEF TypeOK
    <3>2. local'[u] = ui[u] /\ u \in told' /\ session' = session
      BY <2>2 DEF WakeVoice, TypeOK
    <3>3. QED
      BY <1>0, <2>2, <3>1, <3>2 DEF WakeVoice
  <2>3. QED
    BY <2>1, <2>2 DEF Wake
<1>2. CASE c \notin open[u]
  <2>1. c # 0 => c \in Connections
    BY DEF TypeOK
  <2>2. c # 0 => up'[u][c] = <<>>
    BY <1>1, <1>2, <2>1, SentTyped DEF WiresInv, DialledAt
  <2>3. Len(<<>>) = 0
    OBVIOUS
  <2>4. LogoutLast(u)'
    BY <1>0, <2>2, <2>3 DEF LogoutLast
  <2>5. QED
    BY <1>0, <1>2, <2>4 DEF UserInv, NewestMapped, KnownOf
<1>3. CASE c \in open[u]
  <2>1. c \in Connections
    BY <1>3 DEF TypeOK
  <2>2. q \in Seq(Request) /\ up'[u][c] = Append(q, request)
    BY <1>1, <1>3, <2>1, SentTyped DEF TypeOK
  <2>3. ~AuthWaits(u, c) /\ ~AuthWaits(u, c)'
    BY <1>0, <2>1 DEF WiresInv, SigningIn
  <2>4. NewestMapped(u)'
    BY <1>0, <1>3, <2>3 DEF UserInv, NewestMapped
  <2>5. /\ Len(q) \in Nat /\ Len(Append(q, request)) = Len(q) + 1
        /\ \A i \in 1 .. Len(q) : Append(q, request)[i] = q[i]
        /\ \A i \in 1 .. Len(Append(q, request)) : i \in 1 .. Len(q) \/ i = Len(q) + 1
        /\ Append(q, request)[Len(q) + 1] = request
        /\ Append(q, request) # <<>> /\ Newest(Append(q, request)) = request
    BY <2>2, Added
  <2>6. \A i \in 1 .. Len(q) : q[i].type # "LOGOUT"
    BY <1>0, <2>1, Numbers DEF UserInv, LogoutLast
  <2>7. LogoutLast(u)'
    <3> HIDE DEF q
    <3>1. \A i \in 1 .. Len(up'[u][c]) : up'[u][c][i].type = "LOGOUT" =>
            i = Len(up'[u][c]) /\ session'[u] = "out"
      BY <1>1, <2>2, <2>5, <2>6
    <3>2. QED
      BY <1>0, <3>1 DEF LogoutLast
  <2>8. KnownOf(u)'
    <3> SUFFICES ASSUME u \notin overtaken' PROVE KnownOf(u)'
      BY DEF KnownOf
    <3>1. u \in DOMAIN clientMap'
      BY <1>0, <1>3, <2>3 DEF UserInv, KnownOf, SignedInKnown
    <3>2. up'[u][conn'[u]] # <<>> /\ Newest(up'[u][conn'[u]]) = request
      BY <1>0, <2>2, <2>5
    <3>3. CASE request.type = "LOGOUT" /\ session'[u] = "out"
      BY <3>2, <3>3 DEF KnownOf, SignedOutKnown, Newest
    <3>4. CASE session'[u] = "in" /\ u \in told' /\ request.voice = local'[u]
      BY <3>1, <3>2, <3>4 DEF KnownOf, SignedInKnown, Newest
    <3>5. QED
      BY <1>1, <3>3, <3>4
  <2>9. QED
    BY <2>4, <2>7, <2>8 DEF UserInv
<1>4. QED
  BY <1>2, <1>3

\* A push that is read lets its user in, or changes nothing the server is to know.
LEMMA UserReads ==
  ASSUME TypeOK, WiresInv, NEW u \in Users, UserInv(u), NEW n \in Connections,
         ReceivePush(u, n)
  PROVE  UserInv(u)'
<1>1. UNCHANGED <<local, conn, open, up, mapped, clientMap, told, overtaken>>
  BY Read
<1>2. CASE Head(down[u][n]).type # "AUTH_SUCCESS"
  <2>1. session' = session
    BY <1>2, Read
  <2>2. QED
    BY <1>1, <2>1, UserSame
<1>3. CASE Head(down[u][n]).type = "AUTH_SUCCESS"
  <2>1. session[u] = "dialling" /\ session'[u] = "in"
    <3>1. session' = [session EXCEPT ![u] = "in"]
      BY <1>3, Read
    <3>2. QED
      BY <1>3, <3>1, WiresRead DEF TypeOK
  <2>2. NewestMapped(u)'
    BY <1>1 DEF UserInv, NewestMapped, AuthWaits
  <2>3. LogoutLast(u)'
    BY <1>1, <2>1 DEF UserInv, LogoutLast
  <2>4. KnownOf(u)'
    BY <1>1, <2>1 DEF UserInv, KnownOf, AuthWaits, SignedInKnown, Newest
  <2>5. QED
    BY <2>2, <2>3, <2>4 DEF UserInv
<1>4. QED
  BY <1>2, <1>3

\* What a handler leaves of a user's profile and history: of others all of it.
LEMMA HandledUser ==
  ASSUME TypeOK, NEW u \in Users, NEW n \in Connections, Handle(u, n),
         NEW w \in Users, w # u
  PROVE  /\ mapped'[w] = mapped[w]
         /\ w \in told' <=> w \in told
         /\ w \in overtaken' <=> w \in overtaken
         /\ w \in DOMAIN clientMap' <=> w \in DOMAIN clientMap
         /\ w \in DOMAIN clientMap => clientMap'[w] = clientMap[w]
<1>0. clientMap \in Lists /\ DOMAIN clientMap \ {u} \in SUBSET DOMAIN clientMap
  BY DEF TypeOK
<1> DEFINE Others(p) == /\ w \in DOMAIN p <=> w \in DOMAIN clientMap
                        /\ w \in DOMAIN clientMap => p[w] = clientMap[w]
<1>a. ASSUME NEW voice \in Voice PROVE Others(With(clientMap, u, voice))
  BY DEF With
<1>1. CASE HandleAuth(u, n)
  <2>1. /\ mapped' = [mapped EXCEPT ![u] = n] /\ told' = told \ {u}
        /\ overtaken' = overtaken \ {u} /\ clientMap' = With(clientMap, u, Fresh)
    BY <1>1 DEF HandleAuth
  <2>2. mapped'[w] = mapped[w] /\ (w \in told' <=> w \in told)
        /\ (w \in overtaken' <=> w \in overtaken)
    BY <2>1 DEF TypeOK
  <2>3. Others(With(clientMap, u, Fresh))
    BY <1>a, FreshTyped
  <2>4. QED
    BY <2>1, <2>2, <2>3
<1>2. ASSUME HandleLogout(u, n) \/ HandleState(u, n)
      PROVE  mapped' = mapped /\ told' = told /\ overtaken' \in {overtaken, overtaken \cup {u}}
  BY <1>2 DEF HandleLogout, HandleState, NoteOvertaken
<1>3. CASE HandleLogout(u, n)
  <2>1. clientMap' = Restrict(clientMap, DOMAIN clientMap \ {u})
    BY <1>3, HandledList
  <2>2. QED
    BY <1>0, <1>2, <1>3, <2>1, RestrictList
<1>4. CASE HandleState(u, n)
  <2>1. Take(u, n, "STATE")
    BY <1>4 DEF HandleState
  <2>2. Head(up[u][n]).voice \in Voice
    BY <2>1, TakenUp DEF Request
  <2>3. clientMap' = With(clientMap, u, Head(up[u][n]).voice) \/ clientMap' = clientMap
    BY <1>4 DEF HandleState
  <2>4. Others(With(clientMap, u, Head(up[u][n]).voice)) /\ Others(clientMap)
    BY <1>a, <2>2
  <2>5. QED
    BY <1>2, <1>4, <2>3, <2>4
<1>5. QED
  BY <1>1, <1>3, <1>4 DEF Handle

\* A sign-in that is handled makes a fresh profile.
LEMMA UserSignsIn ==
  ASSUME TypeOK, WiresInv, NEW u \in Users, NEW n \in Connections, HandleAuth(u, n)
  PROVE  UserInv(u)'
<1>1. /\ conn'[u] = n /\ session'[u] = "dialling" /\ up'[u][n] = <<>>
  BY HandledUp DEF Handle
<1>2. mapped'[u] = n /\ u \notin told'
  BY DEF HandleAuth, TypeOK
<1>3. u \in DOMAIN clientMap' /\ clientMap'[u] = Fresh
  <2>1. clientMap \in Lists /\ clientMap' = With(clientMap, u, Fresh)
    BY HandledList DEF TypeOK
  <2>2. u \in DOMAIN With(clientMap, u, Fresh) /\ With(clientMap, u, Fresh)[u] = Fresh
    BY DEF With
  <2>3. QED
    BY <2>1, <2>2
<1>4. Len(<<>>) = 0
  OBVIOUS
<1>5. NewestMapped(u)'
  BY <1>1, <1>2 DEF NewestMapped
<1>6. LogoutLast(u)'
  BY <1>1, <1>4 DEF LogoutLast
<1>7. KnownOf(u)'
  BY <1>1, <1>2, <1>3 DEF KnownOf, SignedInKnown
<1>8. QED
  BY <1>5, <1>6, <1>7 DEF UserInv

\* On an older connection than the newest: the newest is mapped, so the user is overtaken.
LEMMA UserOvertaken ==
  ASSUME TypeOK, WiresInv, NEW u \in Users, UserInv(u), NEW n \in Connections,
         HandleLogout(u, n) \/ HandleState(u, n), n # conn[u]
  PROVE  UserInv(u)'
<1> DEFINE c == conn[u]
<1>1. /\ UNCHANGED <<local, session, conn, open>> /\ n <= c
      /\ c \in Connections => up'[u][c] = up[u][c]
  BY HandledUp DEF Handle
<1>2. mapped' = mapped /\ (Old(u, n) => u \in overtaken')
  BY DEF HandleLogout, HandleState, NoteOvertaken
<1>3. n \in Nat /\ c \in Nat /\ n < c
  <2>1. n \in Nat /\ c \in Nat
    BY Numbers DEF TypeOK
  <2>2. QED
    BY <1>1, <2>1
<1>4. c \in Connections
  BY <1>3, Numbers DEF TypeOK
<1>5. NewestMapped(u)' /\ LogoutLast(u)'
  BY <1>1, <1>2, <1>4 DEF UserInv, NewestMapped, LogoutLast, AuthWaits
<1>6. KnownOf(u)'
  <2> SUFFICES ASSUME c \in open[u], ~AuthWaits(u, c)' PROVE u \in overtaken'
    BY <1>1 DEF KnownOf, AuthWaits
  <2>1. mapped[u] = c
    BY <1>1, <1>4 DEF UserInv, NewestMapped, AuthWaits
  <2>2. Old(u, n)
    BY <1>3, <2>1 DEF Old
  <2>3. QED
    BY <1>2, <2>2
<1>7. QED
  BY <1>5, <1>6 DEF UserInv

\* A logout on the newest connection is the last request, and ends the profile.
LEMMA UserSignsOut ==
  ASSUME TypeOK, WiresInv, NEW u \in Users, UserInv(u), NEW n \in Connections,
         HandleLogout(u, n), n = conn[u]
  PROVE  UserInv(u)'
<1> DEFINE q == up[u][n]
<1>1. /\ q # <<>> /\ q \in Seq(Request) /\ up'[u][n] = Tail(q) /\ n \in open[u]
      /\ UNCHANGED <<session, conn, open>>
  BY HandledUp DEF Handle
<1>2. Head(q).type = "LOGOUT"
  BY DEF HandleLogout, Take
<1>3. /\ Head(q) = q[1] /\ Len(q) \in Nat /\ Len(q) >= 1
      /\ Tail(q) # <<>> => Len(q) >= 2
  BY <1>1, Taken
<1>4. 1 \in 1 .. Len(q) /\ q[1].type = "LOGOUT" /\ n # 0
  BY <1>2, <1>3, Numbers
<1>5. Len(q) = 1 /\ session[u] = "out"
  BY <1>4 DEF UserInv, LogoutLast
<1>6. up'[u][n] = <<>>
  BY <1>1, <1>3, <1>5
<1>7. ~AuthWaits(u, n)
  <2>1. \A i \in 1 .. Len(q) : i = 1
    BY <1>5
  <2>2. QED
    BY <1>4, <2>1 DEF AuthWaits
<1>8. u \notin DOMAIN clientMap'
  <2>1. /\ clientMap' = Restrict(clientMap, DOMAIN clientMap \ {u}) /\ clientMap \in Lists
        /\ DOMAIN clientMap \ {u} \in SUBSET DOMAIN clientMap
    BY HandledList DEF TypeOK
  <2>2. QED
    BY <2>1, RestrictList
<1>9. mapped' = mapped /\ Len(<<>>) = 0
  BY DEF HandleLogout
<1>10. NewestMapped(u)'
  BY <1>1, <1>7, <1>9 DEF UserInv, NewestMapped
<1>11. LogoutLast(u)'
  BY <1>1, <1>6, <1>9 DEF LogoutLast
<1>12. KnownOf(u)'
  BY <1>1, <1>5, <1>6, <1>8 DEF KnownOf, SignedOutKnown
<1>13. QED
  BY <1>10, <1>11, <1>12 DEF UserInv

\* A voice state on the newest connection is written into the profile that is there.
LEMMA UserStates ==
  ASSUME TypeOK, WiresInv, NEW u \in Users, UserInv(u), NEW n \in Connections,
         HandleState(u, n), n = conn[u]
  PROVE  UserInv(u)'
<1> DEFINE q == up[u][n]
<1>1. /\ q # <<>> /\ q \in Seq(Request) /\ up'[u][n] = Tail(q) /\ n \in open[u]
      /\ Head(q) \in Request
      /\ UNCHANGED <<local, session, conn, open>>
  BY HandledUp DEF Handle
<1>2. Head(q).type = "STATE" /\ mapped' = mapped /\ told' = told /\ overtaken \subseteq overtaken'
  BY DEF HandleState, Take, NoteOvertaken
<1>3. /\ Head(q) = q[1] /\ Len(q) \in Nat /\ Len(q) >= 1 /\ Len(Tail(q)) = Len(q) - 1
      /\ \A i \in 1 .. Len(Tail(q)) : Tail(q)[i] = q[i + 1]
      /\ Tail(q) # <<>> => Len(q) >= 2 /\ Newest(Tail(q)) = Newest(q)
      /\ Tail(q) = <<>> => Newest(q) = Head(q)
  BY <1>1, Taken
<1>4. n # 0 /\ q[1].type = "STATE"
  BY <1>2, <1>3, Numbers
<1>5. ~AuthWaits(u, n)
  <2> SUFFICES ASSUME AuthWaits(u, n) PROVE FALSE
    OBVIOUS
  <2>1. Len(q) = 1
    BY DEF WiresInv, SigningIn
  <2>2. \A i \in 1 .. Len(q) : i = 1
    BY <2>1
  <2>3. QED
    BY <1>4, <2>2 DEF AuthWaits
<1>6. NewestMapped(u)'
  BY <1>1, <1>2, <1>5 DEF UserInv, NewestMapped
<1>7. LogoutLast(u)'
  <2> HIDE DEF q
  <2>1. \A i \in 1 .. Len(q) : q[i].type = "LOGOUT" => i = Len(q) /\ session[u] = "out"
    BY <1>4 DEF UserInv, LogoutLast, q
  <2>2. \A i \in 1 .. Len(Tail(q)) : i + 1 \in 1 .. Len(q) /\ (i + 1 = Len(q) => i = Len(Tail(q)))
    BY <1>3
  <2>3. \A i \in 1 .. Len(Tail(q)) : Tail(q)[i].type = "LOGOUT" =>
          i = Len(Tail(q)) /\ session[u] = "out"
    BY <1>3, <2>1, <2>2
  <2>4. QED
    BY <1>1, <2>3 DEF LogoutLast
<1>8. ASSUME u \notin overtaken'
      PROVE  IF session[u] = "out" THEN SignedOutKnown(u) ELSE SignedInKnown(u)
  BY <1>1, <1>2, <1>5, <1>8 DEF UserInv, KnownOf
<1>9. u \in DOMAIN clientMap => u \in DOMAIN clientMap' /\ clientMap'[u] = Head(q).voice
  <2>1. u \in DOMAIN clientMap => clientMap' = With(clientMap, u, Head(q).voice)
    BY DEF HandleState
  <2> HIDE DEF q
  <2>2. QED
    BY <2>1 DEF With
<1>10. KnownOf(u)'
  <2> SUFFICES ASSUME u \notin overtaken' PROVE KnownOf(u)'
    BY DEF KnownOf
  <2> HIDE DEF q
  <2>1. CASE session[u] = "out"
    <3>1. Newest(q).type = "LOGOUT"
      BY <1>1, <1>8, <2>1 DEF SignedOutKnown, q
    <3>2. Tail(q) # <<>> /\ Newest(Tail(q)).type = "LOGOUT"
      BY <1>2, <1>3, <3>1
    <3>3. QED
      BY <1>1, <2>1, <3>2 DEF KnownOf, SignedOutKnown, Newest
  <2>2. CASE session[u] # "out"
    <3>1. u \in DOMAIN clientMap /\ u \in told /\ Newest(q).voice = local[u]
      BY <1>1, <1>8, <2>2 DEF SignedInKnown, q
    <3>2. u \in DOMAIN clientMap' /\ u \in told' /\ clientMap'[u] = Head(q).voice
      BY <1>2, <1>9, <3>1
    <3>3. CASE Tail(q) = <<>>
      BY <1>1, <1>3, <2>2, <3>1, <3>2, <3>3 DEF KnownOf, SignedInKnown
    <3>4. CASE Tail(q) # <<>>
      <4>1. Newest(Tail(q)).voice = local[u]
        BY <1>3, <3>1, <3>4
      <4>2. QED
        BY <1>1, <2>2, <3>2, <3>4, <4>1 DEF KnownOf, SignedInKnown, Newest
    <3>5. QED
      BY <3>3, <3>4
  <2>3. QED
    BY <2>1, <2>2
<1>11. QED
  BY <1>6, <1>7, <1>10 DEF UserInv

\* A connection that closes: the newest one is gone, or an older one.
LEMMA UserCloses ==
  ASSUME TypeOK, NEW u \in Users, UserInv(u), NEW n \in Connections, Close(u, n)
  PROVE  UserInv(u)'
<1>1. /\ open'[u] = open[u] \ {n} /\ up'[u][n] = <<>>
      /\ \A m \in Connections : m # n => up'[u][m] = up[u][m]
      /\ mapped'[u] = (IF mapped[u] = n THEN 0 ELSE mapped[u])
      /\ UNCHANGED <<local, session, conn, clientMap, told, overtaken>>
  BY Closed
<1>2. CASE n = conn[u]
  <2>1. Len(<<>>) = 0
    OBVIOUS
  <2>2. LogoutLast(u)'
    BY <1>1, <1>2, <2>1 DEF LogoutLast
  <2>3. QED
    BY <1>1, <1>2, <2>2 DEF UserInv, NewestMapped, KnownOf
<1>3. CASE n # conn[u]
  BY <1>1, <1>3, UserSame
<1>4. QED
  BY <1>2, <1>3

\* Every step leaves the newest request, or the profile, as the client's state.
LEMMA UsersKept == TypeOK /\ WiresInv /\ UsersInv /\ [Next]_vars => UsersInv'
<1> SUFFICES ASSUME TypeOK, WiresInv, UsersInv, [Next]_vars, NEW w \in Users
             PROVE  UserInv(w)'
  BY DEF UsersInv
<1>0. UserInv(w) /\ (conn[w] # 0 => conn[w] \in Connections)
  BY DEF UsersInv, TypeOK
<1>1. ASSUME UNCHANGED <<local, session, wires, server, told, overtaken>> PROVE UserInv(w)'
  <2>1. UNCHANGED <<local, session, conn, open, up, mapped, clientMap, told, overtaken>>
    BY <1>1 DEF wires, server
  <2>2. QED
    BY <1>0, <2>1, UserSame
<1>2. ASSUME NEW u \in Users, UserActs(u) PROVE UserInv(w)'
  BY <1>1, <1>2, Clicked
<1>3. ASSUME NEW u \in Users, Dial(u) PROVE UserInv(w)'
  <2>1. CASE w = u
    BY <1>3, <2>1, UserDials
  <2>2. CASE w # u
    <3>1. /\ conn'[w] = conn[w] /\ open'[w] = open[w] /\ session'[w] = session[w]
          /\ \A m \in Connections : up'[w][m] = up[w][m]
          /\ UNCHANGED <<local, clientMap, mapped, told, overtaken>>
      BY <1>3, <2>2, Dialled
    <3>2. QED
      BY <1>0, <3>1, UserSame
  <2>3. QED
    BY <2>1, <2>2
<1>4. ASSUME NEW u \in Users, Wake(u) PROVE UserInv(w)'
  <2>1. PICK request \in Request :
          request.type # "AUTH" /\ up' = Sent(u, conn[u], request)
    BY <1>4, WakeSends
  <2>2. /\ session[u] = "in"
        /\ UNCHANGED <<conn, open, down, mapped, shownFrom, clientMap, overtaken>>
        /\ \A v \in Users : v # u => /\ session'[v] = session[v] /\ local'[v] = local[v]
                                     /\ v \in told' <=> v \in told
    BY <1>4 DEF Wake, WakeLogout, WakeVoice, display, server, TypeOK
  <2>3. CASE w = u
    <3>1. \A m \in Connections : ~AuthWaits(u, m)'
      BY <2>1, <2>2, WiresSent
    <3>2. QED
      BY <1>0, <1>4, <2>3, <3>1, UserWakes
  <2>4. CASE w # u
    <3>1. \A m \in Connections : up'[w][m] = up[w][m]
      BY <2>1, <2>4, SentTyped
    <3>2. QED
      BY <1>0, <2>2, <2>4, <3>1, UserSame
  <2>5. QED
    BY <2>3, <2>4
<1>5. ASSUME NEW u \in Users, NEW n \in Connections, ReceivePush(u, n) PROVE UserInv(w)'
  <2>1. CASE w = u
    BY <1>0, <1>5, <2>1, UserReads
  <2>2. CASE w # u
    <3>1. UNCHANGED <<local, conn, open, up, clientMap, mapped, told, overtaken>>
      BY <1>5, Read
    <3>2. session'[w] = session[w]
      <4>1. CASE Head(down[u][n]).type = "AUTH_SUCCESS"
        BY <1>5, <2>2, <4>1, Read DEF TypeOK
      <4>2. CASE Head(down[u][n]).type # "AUTH_SUCCESS"
        BY <1>5, <4>2, Read
      <4>3. QED
        BY <4>1, <4>2
    <3>3. QED
      BY <1>0, <3>1, <3>2, UserSame
  <2>3. QED
    BY <2>1, <2>2
<1>6. ASSUME NEW u \in Users, NEW n \in Connections, Handle(u, n) PROVE UserInv(w)'
  <2>1. CASE w = u /\ HandleAuth(u, n)
    BY <2>1, UserSignsIn
  <2>2. CASE w = u /\ (HandleLogout(u, n) \/ HandleState(u, n)) /\ n # conn[u]
    BY <1>0, <2>2, UserOvertaken
  <2>3. CASE w = u /\ HandleLogout(u, n) /\ n = conn[u]
    BY <1>0, <2>3, UserSignsOut
  <2>4. CASE w = u /\ HandleState(u, n) /\ n = conn[u]
    BY <1>0, <2>4, UserStates
  <2>5. CASE w # u
    <3>1. /\ UNCHANGED <<local, session, conn, open>>
          /\ \A m \in Connections : up'[w][m] = up[w][m]
      BY <1>6, <2>5, HandledUp
    <3>2. QED
      BY <1>0, <1>6, <2>5, <3>1, HandledUser, UserSame
  <2>6. QED
    BY <1>6, <2>1, <2>2, <2>3, <2>4, <2>5 DEF Handle
<1>7. ASSUME NEW u \in Users, NEW n \in Connections, Close(u, n) PROVE UserInv(w)'
  <2>1. CASE w = u
    BY <1>0, <1>7, <2>1, UserCloses
  <2>2. CASE w # u
    <3>1. /\ open'[w] = open[w] /\ mapped'[w] = mapped[w]
          /\ \A m \in Connections : up'[w][m] = up[w][m]
          /\ UNCHANGED <<local, session, conn, clientMap, told, overtaken>>
      BY <1>7, <2>2, Closed
    <3>2. QED
      BY <1>0, <3>1, UserSame
  <2>3. QED
    BY <2>1, <2>2
<1>8. CASE UNCHANGED vars
  BY <1>1, <1>8 DEF vars, clients
<1>9. QED
  BY <1>2, <1>3, <1>4, <1>5, <1>6, <1>7, <1>8 DEF Next

-----------------------------------------------------------------------------
(* The theorems.                                                           *)

\* At the start nobody has dialled, and no list is known.
LEMMA Start == Init => PresenceInv
<1> SUFFICES ASSUME Init PROVE PresenceInv
  OBVIOUS
<1>0. Len(<<>>) = 0 /\ <<>> \in Seq(Request) /\ <<>> \in Seq(Push)
  OBVIOUS
<1>1. Nobody \in Lists
  <2>1. Nobody \in [{} -> Voice] /\ {} \in SUBSET Users
    BY DEF Nobody
  <2>2. QED
    BY <2>1, ListMade
<1>2. TypeOK
  BY <1>0, <1>1, FreshTyped, PresenceAssumption DEF Init, TypeOK
<1>3. /\ conn = [u \in Users |-> 0] /\ mapped = conn /\ shownFrom = [u \in Users |-> 0]
      /\ open = [u \in Users |-> {}]
      /\ up = [u \in Users |-> [n \in Connections |-> <<>>]] /\ down = up
  BY DEF Init
<1>4. WiresInv
  BY <1>0, <1>3, Numbers DEF WiresInv, DialledAt, SigningIn, AuthWaits
<1>5. UsersInv
  BY <1>3 DEF UsersInv, UserInv, NewestMapped, LogoutLast, KnownOf
<1>6. ShownInv
  BY <1>3, PresenceAssumption DEF ShownInv, CurrentFor
<1>7. QED
  BY <1>2, <1>4, <1>5, <1>6 DEF PresenceInv

\* In every reachable state a client's newest request, or the server's profile when none
\* waits, is what the client sent last, and the newest push of a mapped session is the
\* server's list: tcpHandler handles one connection's requests in order, and
\* broadcastGlobalVoiceState follows every change of clientMap.
THEOREM PresenceInvariance == Spec => []PresenceInv
<1>1. PresenceInv /\ [Next]_vars => PresenceInv'
  BY TypeKept, WiresKept, UsersKept, ShownKept DEF PresenceInv
<1>2. QED
  BY Start, <1>1, PTL DEF Spec

\* The variables keep their types, and a session is mapped only while it is open: the
\* disconnect handler unmaps it.
THEOREM TypeCorrect == Spec => []TypeOK
<1>1. PresenceInv => TypeOK
  BY DEF PresenceInv
<1>2. QED
  BY PresenceInvariance, <1>1, PTL

\* A user whose requests are all handled has the profile the client sent last in this
\* sign-in, and none after a logout, unless a request of an older connection was handled
\* after the sign-in: tcpHandler's STATE and LOGOUT work on the account, whichever
\* connection they come over.
THEOREM ServerKnowsEach == Spec => []ServerKnows
<1>1. PresenceInv => ServerKnows
  <2> SUFFICES ASSUME PresenceInv, NEW u \in Users, Settled(u), u \notin overtaken
               PROVE  CASE session[u] = "in" ->
                             /\ u \in DOMAIN clientMap
                             /\ clientMap[u] = IF u \in told THEN local[u] ELSE Fresh
                        [] session[u] = "out" -> u \notin DOMAIN clientMap
                        [] OTHER -> TRUE
    BY DEF ServerKnows
  <2>1. conn[u] \in open[u] /\ up[u][conn[u]] = <<>> /\ Len(<<>>) = 0
    BY DEF Settled, PresenceInv, TypeOK
  <2>2. ~AuthWaits(u, conn[u])
    BY <2>1 DEF AuthWaits
  <2>3. IF session[u] = "out" THEN SignedOutKnown(u) ELSE SignedInKnown(u)
    BY <2>1, <2>2 DEF PresenceInv, UsersInv, UserInv, KnownOf
  <2>4. CASE session[u] = "out"
    BY <2>1, <2>3, <2>4 DEF SignedOutKnown
  <2>5. CASE session[u] = "in"
    BY <2>1, <2>3, <2>5 DEF SignedInKnown
  <2>6. QED
    BY <2>4, <2>5
<1>2. QED
  BY PresenceInvariance, <1>1, PTL

\* A client that has read all pushes, the last of them over the connection it is mapped
\* to, shows the server's list: no change of clientMap goes without a
\* broadcastGlobalVoiceState, and processClientTcpPush applies them in order.
THEOREM ShownCurrent == Spec => []ShownIsCurrent
<1>1. PresenceInv => ShownIsCurrent
  <2> SUFFICES ASSUME PresenceInv, NEW u \in Watchers, mapped[u] # 0,
                      shownFrom[u] = mapped[u], \A n \in Connections : down[u][n] = <<>>
               PROVE  shown[u] = Listed(clientMap)
    BY DEF ShownIsCurrent
  <2>1. mapped[u] \in Connections
    BY PresenceAssumption DEF PresenceInv, TypeOK
  <2>2. CurrentFor(u)
    BY DEF PresenceInv, ShownInv
  <2>3. QED
    BY <2>1, <2>2 DEF CurrentFor
<1>2. QED
  BY PresenceInvariance, <1>1, PTL
=============================================================================
