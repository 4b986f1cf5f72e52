--------------------------- MODULE SessionRegistry ---------------------------
(***************************************************************************)
(* The server's TCP sessions and the map from account to session.          *)
(*                                                                         *)
(* A TcpSession reads framed requests one at a time, arms a 45 s heartbeat *)
(* timer and closes itself by POSTING a close on its strand, so requests   *)
(* already read may still be handled between the decision to close and the *)
(* close.  TailscaleNetwork keeps m_activeSessions: a successful login     *)
(* maps the session, overriding (and closing) the one the account had; a   *)
(* disconnect removes the session it still tracks.  Every handler runs on  *)
(* the one thread of m_tcpContext.                                         *)
(***************************************************************************)
EXTENDS Naturals

CONSTANTS
    Sessions,   \* TcpSession objects the acceptor creates
    Users,      \* account uuids
    None        \* no uuid, no session

ASSUME RegistryAssumption ==
    /\ None \notin Sessions
    /\ None \notin Users

VARIABLES
    accepted,       \* sessions that exist
    isDead,         \* m_isDead
    closePosted,    \* sessions with a close waiting on their strand
    hasHeartbeat,   \* m_hasReceivedHeartbeat
    timerArmed,     \* the heartbeat timer will fire again
    clientUuid,     \* m_clientUuid
    activeSessions, \* m_activeSessions: the session of each account
    gone,           \* environment: peers that vanished or closed
    newest,         \* history: the session that last logged in to each account
    displaced       \* history: accounts whose entry a session that authenticated
                    \* as another account erased although it was not its own

sessionVars == <<accepted, isDead, closePosted, hasHeartbeat, timerArmed>>
history == <<newest, displaced>>
vars == <<sessionVars, clientUuid, activeSessions, gone, history>>

TypeOK ==
    /\ accepted \subseteq Sessions
    /\ isDead \subseteq accepted
    /\ closePosted \subseteq accepted
    /\ hasHeartbeat \subseteq accepted
    /\ timerArmed \subseteq accepted
    /\ clientUuid \in [Sessions -> Users \cup {None}]
    /\ activeSessions \in [Users -> Sessions \cup {None}]
    /\ gone \subseteq accepted
    /\ newest \in [Users -> Sessions \cup {None}]
    /\ displaced \subseteq Users

Init ==
    /\ accepted = {} /\ isDead = {} /\ closePosted = {}
    /\ hasHeartbeat = {} /\ timerArmed = {}
    /\ clientUuid = [s \in Sessions |-> None]
    /\ activeSessions = [u \in Users |-> None]
    /\ gone = {}
    /\ newest = [u \in Users |-> None]
    /\ displaced = {}

-----------------------------------------------------------------------------
(* The session.                                                            *)

\* startTcpAcceptor / TcpSession::start: the timer starts with the flag set.
Accept(s) ==
    /\ s \notin accepted
    /\ accepted' = accepted \cup {s}
    /\ hasHeartbeat' = hasHeartbeat \cup {s}
    /\ timerArmed' = timerArmed \cup {s}
    /\ UNCHANGED <<isDead, closePosted, clientUuid, activeSessions, gone, history>>

\* Mutant: a read that completes after the close is still handled.
CanReadDead(s) == s \in accepted

\* A read completes with a request: the flag is set before the handler runs.
CanRead(s) == s \in accepted \ isDead

\* onMessage with an answer other than AUTH_SUCCESS (HEARTBEAT, STATE, CHAT,
\* a rejected login, ...): the registry is not touched.
ReadRequest(s) ==
    /\ CanRead(s)
    /\ s \notin gone
    /\ hasHeartbeat' = hasHeartbeat \cup {s}
    /\ UNCHANGED <<accepted, isDead, closePosted, timerArmed, clientUuid,
                   activeSessions, gone, history>>

\* m_activeSessions once session s answered AUTH_SUCCESS for account u: the
\* entry under the uuid the session had before is erased, u's is replaced.
Remapped(s, u) ==
    [v \in Users |-> IF v = u THEN s
                     ELSE IF v = clientUuid[s] THEN None
                     ELSE activeSessions[v]]

\* Mutant: an account without a session has one to close.
OverriddenUnchecked(s, u) ==
    LET old == IF clientUuid[s] = u THEN None ELSE activeSessions[u]
    IN  {old} \ {s}

\* The account, if any, whose entry s erases although another session holds it.
Erased(s, u) ==
    {v \in Users : v # u /\ v = clientUuid[s] /\ activeSessions[v] \notin {s, None}}

\* The ghost connection that the login overrides, if any.
Overridden(s, u) ==
    LET old == IF clientUuid[s] = u THEN None ELSE activeSessions[u]
    IN  {old} \ {None, s}

ReadAuthentication(s, u) ==
    /\ CanRead(s)
    /\ s \notin gone
    /\ hasHeartbeat' = hasHeartbeat \cup {s}
    /\ activeSessions' = Remapped(s, u)
    /\ closePosted' = closePosted \cup Overridden(s, u)
    /\ clientUuid' = [clientUuid EXCEPT ![s] = u]
    /\ newest' = [v \in Users |-> IF v = u THEN s
                                  ELSE IF newest[v] = s THEN None ELSE newest[v]]
    /\ displaced' = (displaced \cup Erased(s, u)) \ {u}
    /\ UNCHANGED <<accepted, isDead, timerArmed, gone>>

\* closeSession: only posts.
PostClose(s) == closePosted' = closePosted \cup {s}

\* A read or a write fails because the peer is gone.
IoError(s) ==
    /\ s \in gone \ isDead
    /\ PostClose(s)
    /\ UNCHANGED <<accepted, isDead, hasHeartbeat, timerArmed, clientUuid,
                   activeSessions, gone, history>>

\* The 45 s timer: a silent session is closed and its timer not re-armed.
HeartbeatTick(s) ==
    /\ s \in timerArmed \ isDead
    /\ IF s \in hasHeartbeat
         THEN /\ hasHeartbeat' = hasHeartbeat \ {s}
              /\ UNCHANGED <<closePosted, timerArmed>>
         ELSE /\ PostClose(s)
              /\ timerArmed' = timerArmed \ {s}
              /\ UNCHANGED hasHeartbeat
    /\ UNCHANGED <<accepted, isDead, clientUuid, activeSessions, gone, history>>

\* Mutant: erases whatever session the account has now.
UntrackedByUuid(s) ==
    [u \in Users |-> IF clientUuid[s] = u THEN None ELSE activeSessions[u]]

\* Mutant: a disconnect leaves the map alone.
UntrackedNever(s) == activeSessions

\* m_activeSessions after onDisconnect(s): erased only if s is still the
\* session tracked under its uuid.
Untracked(s) ==
    [u \in Users |-> IF clientUuid[s] = u /\ activeSessions[u] = s
                       THEN None ELSE activeSessions[u]]

\* The posted close runs: once, with its disconnect callback.
RunClose(s) ==
    /\ s \in closePosted
    /\ closePosted' = closePosted \ {s}
    /\ IF s \in isDead
         THEN UNCHANGED <<isDead, timerArmed, activeSessions>>
         ELSE /\ isDead' = isDead \cup {s}
              /\ timerArmed' = timerArmed \ {s}
              /\ activeSessions' = Untracked(s)
    /\ UNCHANGED <<accepted, hasHeartbeat, clientUuid, gone, history>>

\* The peer of a live session closes its end or disappears, its last request
\* having been read; IoError may or may not notice.
PeerGone(s) ==
    /\ s \in accepted \ (gone \cup isDead)
    /\ gone' = gone \cup {s}
    /\ UNCHANGED <<sessionVars, clientUuid, activeSessions, history>>

Next ==
    \E s \in Sessions :
        \/ Accept(s)
        \/ ReadRequest(s)
        \/ \E u \in Users : ReadAuthentication(s, u)
        \/ IoError(s)
        \/ HeartbeatTick(s)
        \/ RunClose(s)
        \/ PeerGone(s)

Spec == Init /\ [][Next]_vars

\* Timers fire and posted handlers run.  An I/O error is not promised: a peer
\* that disappears without a FIN produces none.
Fairness ==
    \A s \in Sessions : WF_vars(HeartbeatTick(s)) /\ WF_vars(RunClose(s))

FairSpec == Spec /\ Fairness

-----------------------------------------------------------------------------
(* Properties.                                                             *)

\* An account is mapped to a live session that authenticated as that account,
\* so a broadcast or a targeted answer never goes to a dead session or to one
\* that has moved on to another account.
TrackedIsLive ==
    \A u \in Users : activeSessions[u] # None =>
        /\ activeSessions[u] \in accepted \ isDead
        /\ clientUuid[activeSessions[u]] = u

\* The device that logged in last is the one the account is mapped to for as
\* long as its session lives, whatever order the older devices' closes,
\* disconnects and leftover requests run in; an overridden session that signs in
\* to another account before its close runs is the one exception.
NewestIsTracked ==
    \A u \in Users :
        newest[u] # None /\ newest[u] \notin isDead /\ u \notin displaced
            => activeSessions[u] = newest[u]

\* A peer that vanishes without a word is purged from the map.
VanishedIsPurged ==
    \A s \in Sessions :
        s \in gone ~> (s \in isDead /\ \A u \in Users : activeSessions[u] # s)
=============================================================================
