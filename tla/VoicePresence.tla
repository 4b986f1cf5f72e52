--------------------------- MODULE VoicePresence ---------------------------
(***************************************************************************)
(* Who is shown in which voice channel.                                    *)
(*                                                                         *)
(* Each client keeps its voice state twice: what the user chose            *)
(* (DiscordBackend, Qt thread) and what the control loop last applied and  *)
(* sent (Application).  The server keeps a profile per account in          *)
(* clientMap and broadcasts the list of those in a channel whenever one    *)
(* changes; a client shows the list it got last.                           *)
(*                                                                         *)
(* Every sign-in dials a connection of its own.  Requests and pushes keep  *)
(* their order on one connection only, and an old connection is read until *)
(* it closes.  The server's handlers run on one thread, each a single step *)
(* here.  How a sign-in is refused, and how the window learns of it, is    *)
(* ClientLogin's; which session an account is mapped to, SessionRegistry's.*)
(***************************************************************************)
EXTENDS Naturals, Sequences, Functions

CONSTANTS
    Users,      \* accounts, each used on one device
    Channels,   \* voice channels
    None,       \* channel -1
    MaxSignIns, \* bound: sign-ins of each user
    Watchers,   \* bound: users whose pushes and shown list are followed
    MaxClicks,  \* bound: clicks on mute, deafen and channels, of all users
    MayDrop     \* may connections be lost?

ASSUME PresenceAssumption ==
    /\ None \notin Channels
    /\ Watchers \subseteq Users
    /\ MaxSignIns \in [Users -> Nat] /\ MaxClicks \in Nat /\ MayDrop \in BOOLEAN

Voice == [channel : Channels \cup {None}, muted : BOOLEAN, deafened : BOOLEAN]
Fresh == [channel |-> None, muted |-> FALSE, deafened |-> FALSE]
Lists == UNION {[S -> Voice] : S \in SUBSET Users}
Nobody == [u \in {} |-> Fresh]
Connections == UNION {1 .. MaxSignIns[u] : u \in Users}

Request == [type : {"AUTH", "LOGOUT", "STATE"}, voice : Voice]
Push == [type : {"AUTH_SUCCESS", "PUSH_PEERS"}, peers : Lists]

VARIABLES
    \* clients
    ui,            \* DiscordBackend's channel, m_isMuted, m_isDeafened
    local,         \* Application's
    session,       \* "out", "dialling" or "in": m_activeServerUuid is set
    pendingLogout, \* m_pendingLogout
    shown,         \* m_voicePeers
    clicks,        \* clicks made
    \* connections
    conn,          \* the last one each user dialled, 0 before the first
    open,          \* those that are not closed
    up, down,      \* requests and pushes on the wire
    \* server
    clientMap,     \* profiles
    mapped,        \* m_activeSessions: each account's connection, or 0
    \* history
    shownFrom,     \* the connection the shown list came over
    told,          \* users who sent a STATE since they signed in
    overtaken      \* users of whom the server handled a request of an older
                   \* connection after the sign-in on a newer one

clients == <<ui, local, session, pendingLogout, clicks>>
display == <<shown, shownFrom>>
wires == <<conn, open, up, down>>
server == <<clientMap, mapped>>
vars == <<clients, display, wires, server, told, overtaken>>

TypeOK ==
    /\ ui \in [Users -> Voice] /\ local \in [Users -> Voice]
    /\ session \in [Users -> {"out", "dialling", "in"}]
    /\ pendingLogout \subseteq Users
    /\ shown \in [Users -> Lists]
    /\ clicks \in 0 .. MaxClicks
    /\ conn \in [Users -> {0} \cup Connections]
    /\ open \in [Users -> SUBSET Connections]
    /\ up \in [Users -> [Connections -> Seq(Request)]]
    /\ down \in [Users -> [Connections -> Seq(Push)]]
    /\ clientMap \in Lists
    /\ mapped \in [Users -> {0} \cup Connections]
    /\ \A u \in Users : mapped[u] = 0 \/ mapped[u] \in open[u]
    /\ shownFrom \in [Users -> {0} \cup Connections]
    /\ told \subseteq Users /\ overtaken \subseteq Users

Init ==
    /\ ui = [u \in Users |-> Fresh] /\ local = ui
    /\ session = [u \in Users |-> "out"]
    /\ pendingLogout = {}
    /\ clicks = 0
    /\ shown = [u \in Users |-> Nobody] /\ shownFrom = [u \in Users |-> 0]
    /\ conn = [u \in Users |-> 0]
    /\ open = [u \in Users |-> {}]
    /\ up = [u \in Users |-> [n \in Connections |-> <<>>]] /\ down = up
    /\ clientMap = Nobody
    /\ mapped = conn
    /\ told = {} /\ overtaken = {}

-----------------------------------------------------------------------------
(* The user.                                                               *)

Click(u, voice) ==
    /\ session[u] = "in"
    /\ clicks < MaxClicks
    /\ clicks' = clicks + 1
    /\ ui' = [ui EXCEPT ![u] = voice]
    /\ UNCHANGED <<local, session, pendingLogout, display, wires, server, told, overtaken>>

ToggleMute(u) == Click(u, [ui[u] EXCEPT !.muted = ~@])

\* Deafening mutes, and undeafening unmutes.
ToggleDeafen(u) ==
    Click(u, [ui[u] EXCEPT !.deafened = ~@, !.muted = ~ui[u].deafened])

JoinVoiceChannel(u, c) == Click(u, [ui[u] EXCEPT !.channel = c])

LeaveVoiceChannel(u) == Click(u, [ui[u] EXCEPT !.channel = None])

\* The button leaves the channel, then asks for the logout.
Logout(u) ==
    /\ session[u] = "in"
    /\ u \notin pendingLogout
    /\ ui' = [ui EXCEPT ![u].channel = None]
    /\ pendingLogout' = pendingLogout \cup {u}
    /\ UNCHANGED <<local, session, clicks, display, wires, server, told, overtaken>>

-----------------------------------------------------------------------------
(* The client's control loop and its pushes.                               *)

\* sendPersistentTcp: on a connection that is closed the request is dropped.
Sent(u, n, request) ==
    IF n \in open[u] THEN [up EXCEPT ![u][n] = Append(@, request)] ELSE up

\* The loop dials and sends its credentials.
Dial(u) ==
    /\ session[u] = "out"
    /\ conn[u] < MaxSignIns[u]
    /\ LET n == conn[u] + 1 IN
         /\ conn' = [conn EXCEPT ![u] = n]
         /\ open' = [open EXCEPT ![u] = @ \cup {n}]
         /\ up' = [up EXCEPT ![u][n] = <<[type |-> "AUTH", voice |-> Fresh]>>]
    /\ session' = [session EXCEPT ![u] = "dialling"]
    /\ UNCHANGED <<ui, local, pendingLogout, clicks, display, down, server, told, overtaken>>

\* A wake that finds the logout: LOGOUT is sent, the voice state stays as it is.
WakeLogout(u) ==
    /\ session[u] = "in"
    /\ u \in pendingLogout
    /\ pendingLogout' = pendingLogout \ {u}
    /\ session' = [session EXCEPT ![u] = "out"]
    /\ up' = Sent(u, conn[u], [type |-> "LOGOUT", voice |-> Fresh])
    /\ UNCHANGED <<ui, local, clicks, display, conn, open, down, server, told, overtaken>>

Changed(u) == ui[u] # local[u]

\* A wake that finds the voice state changed since it was last applied.
WakeVoice(u) ==
    /\ session[u] = "in"
    /\ u \notin pendingLogout
    /\ Changed(u)
    /\ local' = [local EXCEPT ![u] = ui[u]]
    /\ up' = Sent(u, conn[u], [type |-> "STATE", voice |-> ui[u]])
    /\ told' = told \cup {u}
    /\ UNCHANGED <<ui, session, pendingLogout, clicks, display, conn, open, down, server,
                   overtaken>>

\* processClientTcpPush, whichever connection the push comes over.
ReceivePush(u, n) ==
    /\ down[u][n] # <<>>
    /\ down' = [down EXCEPT ![u][n] = Tail(@)]
    /\ LET push == Head(down[u][n]) IN
         IF push.type = "AUTH_SUCCESS"
           THEN /\ session' = [session EXCEPT ![u] = "in"]
                /\ UNCHANGED display
           ELSE /\ shown' = [shown EXCEPT ![u] = push.peers]
                /\ shownFrom' = [shownFrom EXCEPT ![u] = n]
                /\ UNCHANGED session
    /\ UNCHANGED <<ui, local, pendingLogout, clicks, conn, open, up, server, told, overtaken>>

-----------------------------------------------------------------------------
(* The server.                                                             *)

\* The list of a broadcast: the profiles in a channel.
Listed(profiles) ==
    Restrict(profiles, {u \in DOMAIN profiles : profiles[u].channel # None})

\* broadcastGlobalVoiceState: to every mapped session, in the order of the broadcasts.
Broadcast(profiles) ==
    [u \in Users |->
        IF mapped[u] = 0 \/ u \notin Watchers THEN down[u]
        ELSE [down[u] EXCEPT ![mapped[u]] =
                Append(@, [type |-> "PUSH_PEERS", peers |-> Listed(profiles)])]]

\* Mutant: a profile that exists is kept.
WithInserted(profiles, u, voice) ==
    IF u \in DOMAIN profiles THEN profiles
    ELSE [v \in DOMAIN profiles \cup {u} |-> IF v = u THEN voice ELSE profiles[v]]

With(profiles, u, voice) ==
    [v \in DOMAIN profiles \cup {u} |-> IF v = u THEN voice ELSE profiles[v]]

\* Takes the first request off connection n of u.
Take(u, n, type) ==
    /\ up[u][n] # <<>>
    /\ Head(up[u][n]).type = type
    /\ up' = [up EXCEPT ![u][n] = Tail(@)]
    /\ UNCHANGED <<clients, display, conn>>

\* Has the account signed in on a connection newer than n?
Old(u, n) == mapped[u] > n

NoteOvertaken(u, n) == overtaken' = IF Old(u, n) THEN overtaken \cup {u} ELSE overtaken

\* completeAuthentication broadcasts before the session is mapped: the one that signs
\* in is not told.  The session it had before is closed.
HandleAuth(u, n) ==
    /\ Take(u, n, "AUTH")
    /\ clientMap' = With(clientMap, u, Fresh)
    /\ mapped' = [mapped EXCEPT ![u] = n]
    /\ LET informed == Broadcast(clientMap')
       IN  down' = [informed EXCEPT ![u][n] = Append(@, [type |-> "AUTH_SUCCESS", peers |-> Nobody])]
    /\ told' = told \ {u}
    /\ overtaken' = overtaken \ {u}
    /\ UNCHANGED open

\* Mutant: nobody is told of a logout.
HandleLogoutSilently(u, n) ==
    /\ Take(u, n, "LOGOUT")
    /\ clientMap' = Restrict(clientMap, DOMAIN clientMap \ {u})
    /\ NoteOvertaken(u, n)
    /\ UNCHANGED <<open, down, mapped, told>>

HandleLogout(u, n) ==
    /\ Take(u, n, "LOGOUT")
    /\ clientMap' = Restrict(clientMap, DOMAIN clientMap \ {u})
    /\ down' = Broadcast(clientMap')
    /\ NoteOvertaken(u, n)
    /\ UNCHANGED <<open, mapped, told>>

\* A STATE of an account without a profile is ignored.
HandleState(u, n) ==
    /\ Take(u, n, "STATE")
    /\ IF u \in DOMAIN clientMap
         THEN /\ clientMap' = With(clientMap, u, Head(up[u][n]).voice)
              /\ down' = Broadcast(clientMap')
         ELSE UNCHANGED <<clientMap, down>>
    /\ NoteOvertaken(u, n)
    /\ UNCHANGED <<open, mapped, told>>

\* Mutant: a disconnect leaves the session mapped.
CloseMapped(u, n) ==
    /\ n \in open[u]
    /\ (MayDrop /\ session[u] # "dialling") \/ Old(u, n)
    /\ open' = [open EXCEPT ![u] = @ \ {n}]
    /\ up' = [up EXCEPT ![u][n] = <<>>]
    /\ down' = [down EXCEPT ![u][n] = <<>>]
    /\ UNCHANGED <<clients, display, conn, mapped, clientMap, told, overtaken>>

\* A connection closes: what is on it is lost, the server unmaps it if it still is
\* the account's, and keeps the profile.  An older connection than the one the
\* account is mapped to closes because it was overridden.  Both ends see it at once,
\* and none is lost while its client dials.
Close(u, n) ==
    /\ n \in open[u]
    /\ (MayDrop /\ session[u] # "dialling") \/ Old(u, n)
    /\ open' = [open EXCEPT ![u] = @ \ {n}]
    /\ up' = [up EXCEPT ![u][n] = <<>>]
    /\ down' = [down EXCEPT ![u][n] = <<>>]
    /\ mapped' = [mapped EXCEPT ![u] = IF @ = n THEN 0 ELSE @]
    /\ UNCHANGED <<clients, display, conn, clientMap, told, overtaken>>

-----------------------------------------------------------------------------

UserActs(u) ==
    \/ ToggleMute(u) \/ ToggleDeafen(u) \/ LeaveVoiceChannel(u) \/ Logout(u)
    \/ \E c \in Channels : JoinVoiceChannel(u, c)

Wake(u) == WakeLogout(u) \/ WakeVoice(u)

Handle(u, n) == HandleAuth(u, n) \/ HandleLogout(u, n) \/ HandleState(u, n)

Next ==
    \E u \in Users :
        \/ UserActs(u)
        \/ Dial(u)
        \/ Wake(u)
        \/ \E n \in Connections : ReceivePush(u, n) \/ Handle(u, n) \/ Close(u, n)

Spec == Init /\ [][Next]_vars

-----------------------------------------------------------------------------
(* Properties                                                              *)

\* Nothing of the user's is on its way to the server, on a connection that stands.
Settled(u) == conn[u] \in open[u] /\ \A n \in Connections : up[u][n] = <<>>

\* Once all requests of a user are handled, the server's profile is what the client
\* last sent in this sign-in, a fresh one if it sent nothing, none if it signed out;
\* unless a request of an older connection was handled after the sign-in.
ServerKnows ==
    \A u \in Users : Settled(u) /\ u \notin overtaken =>
        CASE session[u] = "in" -> /\ u \in DOMAIN clientMap
                                  /\ clientMap[u] = IF u \in told THEN local[u] ELSE Fresh
          [] session[u] = "out" -> u \notin DOMAIN clientMap
          [] OTHER -> TRUE

\* A client that has read all pushes, the last of them over the connection it is
\* mapped to, shows the server's list: no change of a profile goes without a
\* broadcast, and none is applied in the wrong order.
ShownIsCurrent ==
    \A u \in Watchers :
        mapped[u] # 0 /\ shownFrom[u] = mapped[u] /\ (\A n \in Connections : down[u][n] = <<>>)
            => shown[u] = Listed(clientMap)
=============================================================================
