---------------------------- MODULE SessionProofs ----------------------------
(***************************************************************************)
(* What the server knows of its TCP sessions, and what keeps one open.     *)
(*                                                                         *)
(* SessionRegistry, for any sets of sessions and accounts: the map only    *)
(* ever holds live sessions under their own uuid, and the newest login of  *)
(* an account stays mapped while its session lives unless a session that   *)
(* moved on to another account erased the entry.                           *)
(*                                                                         *)
(* Heartbeats, for every timer, interval, nap and bound within the margin  *)
(* of HeartbeatAssumption: a live client keeps its connection, and a       *)
(* silent one loses it within two timers.                                  *)
(***************************************************************************)
EXTENDS SessionRegistry, Heartbeats, TLAPS

-----------------------------------------------------------------------------
(* The map of sessions.                                                    *)

LiveInv == TypeOK /\ TrackedIsLive

THEOREM InitLive == Init => LiveInv
BY RegistryAssumption DEF Init, LiveInv, TypeOK, TrackedIsLive

\* One step of any session keeps the map live and tagged.
LEMMA LiveStep == LiveInv /\ [Next]_vars => LiveInv'
<1> SUFFICES ASSUME LiveInv, [Next]_vars PROVE LiveInv'
  OBVIOUS
<1> USE RegistryAssumption DEF LiveInv
<1>1. ASSUME NEW s \in Sessions, Accept(s) PROVE LiveInv'
  BY <1>1 DEF Accept, history, TypeOK, TrackedIsLive
<1>2. ASSUME NEW s \in Sessions, ReadRequest(s) PROVE LiveInv'
  BY <1>2 DEF ReadRequest, history, CanRead, TypeOK, TrackedIsLive
<1>3. ASSUME NEW s \in Sessions, NEW u \in Users, ReadAuthentication(s, u)
      PROVE  LiveInv'
  <2>1. s \in accepted \ isDead
    BY <1>3 DEF ReadAuthentication, CanRead
  <2>2. Overridden(s, u) \subseteq accepted
    BY DEF Overridden, TypeOK, TrackedIsLive
  <2>3. TypeOK'
    BY <1>3, <2>1, <2>2 DEF ReadAuthentication, Remapped, Erased, TypeOK
  <2>4. TrackedIsLive'
    <3> SUFFICES ASSUME NEW v \in Users, activeSessions'[v] # None
                 PROVE  /\ activeSessions'[v] \in accepted \ isDead
                        /\ clientUuid'[activeSessions'[v]] = v
      BY <1>3 DEF TrackedIsLive, ReadAuthentication
    <3>1. CASE v = u
      BY <1>3, <2>1, <3>1 DEF ReadAuthentication, Remapped, Erased, TypeOK
    <3>2. CASE v # u
      <4>1. v # clientUuid[s] /\ activeSessions'[v] = activeSessions[v]
        BY <1>3, <3>2 DEF ReadAuthentication, Remapped
      <4>2. activeSessions[v] # s
        BY <4>1 DEF TrackedIsLive
      <4>3. QED
        BY <1>3, <4>1, <4>2 DEF ReadAuthentication, history, TrackedIsLive, TypeOK
    <3>3. QED
      BY <3>1, <3>2
  <2>5. QED
    BY <2>3, <2>4
<1>4. ASSUME NEW s \in Sessions, IoError(s) PROVE LiveInv'
  BY <1>4 DEF IoError, history, PostClose, TypeOK, TrackedIsLive
<1>5. ASSUME NEW s \in Sessions, HeartbeatTick(s) PROVE LiveInv'
  BY <1>5 DEF HeartbeatTick, history, PostClose, TypeOK, TrackedIsLive
<1>6. ASSUME NEW s \in Sessions, RunClose(s) PROVE LiveInv'
  BY <1>6 DEF RunClose, history, Untracked, TypeOK, TrackedIsLive
<1>7. ASSUME NEW s \in Sessions, PeerGone(s) PROVE LiveInv'
  BY <1>7 DEF PeerGone, history, sessionVars, TypeOK, TrackedIsLive
<1>8. CASE UNCHANGED vars
  BY <1>8 DEF vars, sessionVars, history, TypeOK, TrackedIsLive
<1>9. QED
  BY <1>1, <1>2, <1>3, <1>4, <1>5, <1>6, <1>7, <1>8 DEF Next

THEOREM LiveInvariance == Spec => []LiveInv
BY InitLive, LiveStep, PTL DEF Spec

\* The sets of sessions (accepted, dead, closing, beating, armed, abandoned)
\* stay within the accepted ones and the maps stay total (TcpSession's flags and
\* timer, TailscaleNetwork's m_activeSessions), whatever the strand runs late.
THEOREM TypeCorrect == Spec => []TypeOK
<1>1. LiveInv => TypeOK
  BY DEF LiveInv
<1>2. QED
  BY <1>1, LiveInvariance, PTL

\* Only a live session, tagged with the account's uuid, is ever mapped
\* (TailscaleNetwork's onMessage and onDisconnect against TcpSession's posted
\* closes), even if one connection authenticates several times.
THEOREM MapsLiveSessions == Spec => []TrackedIsLive
<1>1. LiveInv => TrackedIsLive
  BY DEF LiveInv
<1>2. QED
  BY <1>1, LiveInvariance, PTL

-----------------------------------------------------------------------------
\* The newest login of an account is tagged with it.
NewestIsTagged ==
    \A u \in Users : newest[u] # None => clientUuid[newest[u]] = u

NewestInv == LiveInv /\ NewestIsTagged /\ NewestIsTracked

THEOREM InitNewest == Init => NewestInv
BY InitLive DEF NewestInv, Init, NewestIsTagged, NewestIsTracked

\* An erased entry was the session's own or is remembered as displaced.
LEMMA NewestStep == NewestInv /\ [Next]_vars => NewestInv'
<1> SUFFICES ASSUME NewestInv, [Next]_vars
             PROVE  NewestIsTagged' /\ NewestIsTracked'
  BY LiveStep DEF NewestInv
<1> USE RegistryAssumption DEF NewestInv, LiveInv
<1>1. ASSUME NEW s \in Sessions, NEW u \in Users, ReadAuthentication(s, u)
      PROVE  NewestIsTagged' /\ NewestIsTracked'
  <2>1. /\ activeSessions'[u] = s /\ newest'[u] = s
        /\ clientUuid' = [clientUuid EXCEPT ![s] = u] /\ isDead' = isDead
    BY <1>1 DEF ReadAuthentication, Remapped
  <2>2. ASSUME NEW v \in Users, v # u
        PROVE  newest'[v] = IF newest[v] = s THEN None ELSE newest[v]
    BY <1>1, <2>2 DEF ReadAuthentication
  <2>3. NewestIsTagged'
    BY <2>1, <2>2 DEF NewestIsTagged, TypeOK
  <2>4. ASSUME NEW v \in Users, v # u,
               newest'[v] # None, newest'[v] \notin isDead', v \notin displaced'
        PROVE  activeSessions'[v] = newest'[v]
    <3>1. newest'[v] = newest[v] /\ newest[v] # s
      BY <2>2, <2>4
    <3>2. v \notin displaced /\ v \notin Erased(s, u)
      BY <1>1, <2>4 DEF ReadAuthentication
    <3>3. activeSessions[v] = newest[v]
      BY <2>1, <2>4, <3>1, <3>2 DEF NewestIsTracked
    <3>4. v # clientUuid[s]
      BY <2>4, <3>1, <3>2, <3>3 DEF Erased
    <3>5. QED
      BY <1>1, <2>4, <3>1, <3>3, <3>4 DEF ReadAuthentication, Remapped
  <2>5. QED
    BY <2>1, <2>3, <2>4 DEF NewestIsTracked
<1>2. ASSUME NEW s \in Sessions, RunClose(s)
      PROVE  NewestIsTagged' /\ NewestIsTracked'
  BY <1>2 DEF RunClose, Untracked, history, NewestIsTagged, NewestIsTracked
<1>3. CASE UNCHANGED <<isDead, clientUuid, activeSessions, newest, displaced>>
  BY <1>3 DEF NewestIsTagged, NewestIsTracked
<1>4. QED
  BY <1>1, <1>2, <1>3
  DEF Next, Accept, ReadRequest, IoError, HeartbeatTick, PeerGone, vars, sessionVars, history

\* The device that logged in last keeps the account while its session lives,
\* whatever the closes and leftover requests of older sessions do
\* (TailscaleNetwork's onMessage and onDisconnect), as long as none of them has
\* erased the entry by signing in to another account.
THEOREM NewestStaysTracked == Spec => []NewestIsTracked
<1>1. NewestInv => NewestIsTracked
  BY DEF NewestInv
<1>2. QED
  BY <1>1, InitNewest, NewestStep, PTL DEF Spec

-----------------------------------------------------------------------------
(* The clocks of one connection.                                           *)
(*                                                                         *)
(* LiveIsKept is not inductive: it needs how long an end that has heard    *)
(* nothing since its timer was armed still has to wait for the next        *)
(* message at most (Wait), which in turn needs that the control loop's nap *)
(* never oversleeps the next heartbeat by more than MinNap (NapInv), and   *)
(* that a heartbeat never meets an earlier one on the wire (WireInv).      *)

Live == phase \in {"authenticating", "signedIn"}

\* At most so long until the loop sends the next heartbeat of a signed-in client.
MaxDue == Interval + MinNap + Lag
Due == IF elapsed < Interval THEN MaxDue - elapsed ELSE nap + Lag

NapInv ==
    /\ elapsed < Interval => elapsed + nap <= Interval + MinNap
    /\ elapsed = Interval => nap <= MinNap

WireInv ==
    /\ phase = "authenticating" => (up = Empty <=> down # Empty)
    /\ phase = "signedIn" /\ up # Empty => down = Empty /\ elapsed <= up
    /\ phase = "signedIn" /\ down # Empty => elapsed <= Delay + down

\* At most so long until the server, the client, reads something.
ServerWait ==
    IF up # Empty THEN Delay - up
    ELSE IF phase = "authenticating" THEN (Delay - down) + MaxDue + Delay
    ELSE Due + Delay

ClientWait ==
    IF down # Empty THEN Delay - down
    ELSE IF up # Empty THEN (Delay - up) + Delay
    ELSE Due + 2 * Delay

WaitInv ==
    Live => /\ ~heard["server"] => timer["server"] + ServerWait < Period
            /\ ~heard["client"] => timer["client"] + ClientWait < Period

SilenceInv ==
    ~closed["server"] =>
        silence <= timer["server"] + (IF heard["server"] THEN 0 ELSE Period + Lag)

HeartbeatInv == HeartbeatTypeOK /\ LiveIsKept /\ NapInv /\ (Live => WireInv) /\ WaitInv /\ SilenceInv

-----------------------------------------------------------------------------

\* A nap ends MinNap after the next heartbeat is due at the latest.
LEMMA NapForBounds ==
    ASSUME NEW since \in 0 .. Interval
    PROVE  /\ NapFor(since) \in MinNap .. MaxNap
           /\ since < Interval => since + NapFor(since) <= Interval + MinNap
           /\ since = Interval => NapFor(since) <= MinNap
BY HeartbeatAssumption DEF NapFor

\* A flag of one end is set or cleared.
LEMMA FlagTyped ==
    ASSUME NEW flags \in [Ends -> BOOLEAN], NEW e \in Ends, NEW b \in BOOLEAN
    PROVE  [flags EXCEPT ![e] = b] \in [Ends -> BOOLEAN]
OBVIOUS

\* The initial states satisfy the invariant.
LEMMA InitHeartbeat == HeartbeatInit => HeartbeatInv
<1> SUFFICES ASSUME HeartbeatInit PROVE HeartbeatInv
  OBVIOUS
<1>1. /\ nap \in MinNap .. MaxNap
      /\ elapsed < Interval => elapsed + nap <= Interval + MinNap
      /\ elapsed = Interval => nap <= MinNap
  BY NapForBounds DEF HeartbeatInit
<1>2. HeartbeatTypeOK
  BY <1>1, HeartbeatAssumption DEF HeartbeatInit, HeartbeatTypeOK, Ends, Empty
<1>3. QED
  BY <1>1, <1>2, HeartbeatAssumption
  DEF HeartbeatInit, HeartbeatInv, LiveIsKept, NapInv, WireInv, WaitInv, SilenceInv, Ends, Empty, Live

\* Time passes: every wait shortens by what every timer ages.
LEMMA TickStep == HeartbeatInv /\ Tick => HeartbeatInv'
<1> SUFFICES ASSUME HeartbeatInv, Tick PROVE HeartbeatInv'
  OBVIOUS
<1> USE HeartbeatAssumption DEF Ends, Empty
<1>1. HeartbeatTypeOK' /\ LiveIsKept'
  BY DEF HeartbeatInv, HeartbeatTypeOK, Tick, Older, LiveIsKept
<1>2. NapInv'
  BY DEF HeartbeatInv, HeartbeatTypeOK, Tick, NapInv
<1>3. (Live => WireInv)'
  BY DEF HeartbeatInv, HeartbeatTypeOK, Tick, Older, WireInv, Live
<1>4. WaitInv'
  <2> SUFFICES ASSUME Live PROVE WaitInv'
    BY DEF Tick, WaitInv, Live
  <2>1. ServerWait' <= ServerWait - 1 /\ ClientWait' <= ClientWait - 1
    BY DEF HeartbeatInv, HeartbeatTypeOK, Tick, Older, Live, NapInv, WireInv, ServerWait, ClientWait, Due, MaxDue
  <2>2. /\ ServerWait \in Int /\ ClientWait \in Int
        /\ ServerWait' \in Int /\ ClientWait' \in Int
    BY <1>1 DEF HeartbeatInv, HeartbeatTypeOK, ServerWait, ClientWait, Due, MaxDue
  <2>3. \A e \in Ends : timer'[e] = timer[e] + 1 /\ timer[e] \in Nat /\ heard'[e] = heard[e]
    BY DEF HeartbeatInv, HeartbeatTypeOK, Tick, LiveIsKept, Live
  <2>4. QED
    BY <2>1, <2>2, <2>3 DEF HeartbeatInv, WaitInv
<1>5. SilenceInv'
  BY DEF HeartbeatInv, HeartbeatTypeOK, Tick, SilenceInv
<1>6. QED
  BY <1>1, <1>2, <1>3, <1>4, <1>5 DEF HeartbeatInv

\* The loop wakes: what it sends was never late, and its next nap is short enough.
LEMMA WakeStep == HeartbeatInv /\ Wake => HeartbeatInv'
<1> SUFFICES ASSUME HeartbeatInv, Wake PROVE HeartbeatInv'
  OBVIOUS
<1> USE HeartbeatAssumption DEF Ends, Empty
<1>1. elapsed' \in 0 .. Interval /\ nap' = NapFor(elapsed')
  BY DEF HeartbeatInv, HeartbeatTypeOK, Wake
<1>2. /\ nap' \in MinNap .. MaxNap
      /\ elapsed' < Interval => elapsed' + nap' <= Interval + MinNap
      /\ elapsed' = Interval => nap' <= MinNap
  BY <1>1, NapForBounds
<1>3. HeartbeatTypeOK' /\ LiveIsKept'
  BY <1>1, <1>2 DEF HeartbeatInv, HeartbeatTypeOK, Wake, LiveIsKept
<1>4. NapInv'
  BY <1>2 DEF NapInv
<1>5. (Live => WireInv)'
  BY DEF HeartbeatInv, HeartbeatTypeOK, Wake, WireInv, Live
<1>6. WaitInv'
  <2> SUFFICES ASSUME Live PROVE WaitInv'
    BY DEF Wake, WaitInv, Live
  <2>1. ServerWait' <= ServerWait /\ ClientWait' <= ClientWait
    <3>1. CASE phase = "signedIn" /\ elapsed >= Interval
      <4>1. up = Empty /\ down = Empty /\ up' = 0 /\ down' = Empty /\ elapsed = Interval
        BY <3>1 DEF HeartbeatInv, HeartbeatTypeOK, Wake, WireInv, Live, LiveIsKept
      <4>2. nap + Lag >= 0
        BY DEF HeartbeatInv, HeartbeatTypeOK
      <4>3. QED
        BY <3>1, <4>1, <4>2 DEF HeartbeatInv, HeartbeatTypeOK, Wake, ServerWait, ClientWait, Due, MaxDue
    <3>2. CASE ~(phase = "signedIn" /\ elapsed >= Interval)
      <4>1. UNCHANGED <<phase, elapsed, up, down>>
        BY <3>2 DEF Wake
      <4>2. phase = "signedIn" => elapsed < Interval
        BY <3>2 DEF HeartbeatInv, HeartbeatTypeOK
      <4>3. QED
        BY <4>1, <4>2 DEF HeartbeatInv, HeartbeatTypeOK, WireInv, Live, ServerWait, ClientWait, Due, MaxDue
    <3>3. QED
      BY <3>1, <3>2
  <2>2. /\ ServerWait \in Int /\ ClientWait \in Int
        /\ ServerWait' \in Int /\ ClientWait' \in Int
    BY <1>3 DEF HeartbeatInv, HeartbeatTypeOK, ServerWait, ClientWait, Due, MaxDue
  <2>3. \A e \in Ends : timer'[e] = timer[e] /\ timer[e] \in Nat /\ heard'[e] = heard[e]
    BY DEF HeartbeatInv, HeartbeatTypeOK, Wake
  <2>4. QED
    BY <2>1, <2>2, <2>3 DEF HeartbeatInv, WaitInv
<1>7. SilenceInv'
  BY DEF HeartbeatInv, Wake, SilenceInv
<1>8. QED
  BY <1>3, <1>4, <1>5, <1>6, <1>7 DEF HeartbeatInv

\* The server reads: it has heard something, and its answer is on the way.
LEMMA ReachServerStep == HeartbeatInv /\ ReachServer => HeartbeatInv'
<1> SUFFICES ASSUME HeartbeatInv, ReachServer PROVE HeartbeatInv'
  OBVIOUS
<1> USE HeartbeatAssumption DEF Ends, Empty
<1>1. heard' \in [Ends -> BOOLEAN] /\ silence' \in Nat /\ down' \in {Empty} \cup 0 .. Delay
  <2>1. heard \in [Ends -> BOOLEAN] /\ [heard EXCEPT !["server"] = TRUE] \in [Ends -> BOOLEAN]
    BY FlagTyped DEF HeartbeatInv, HeartbeatTypeOK
  <2>2. heard' \in {heard, [heard EXCEPT !["server"] = TRUE]}
    BY DEF ReachServer
  <2>3. silence' \in Nat /\ down' \in {Empty} \cup 0 .. Delay
    BY DEF HeartbeatInv, HeartbeatTypeOK, ReachServer
  <2>4. QED
    BY <2>1, <2>2, <2>3
<1>2. HeartbeatTypeOK' /\ LiveIsKept' /\ NapInv'
  BY <1>1 DEF HeartbeatInv, HeartbeatTypeOK, ReachServer, LiveIsKept, NapInv
<1>3. (Live => WireInv)'
  BY DEF HeartbeatInv, HeartbeatTypeOK, ReachServer, WireInv, Live, LiveIsKept
<1>4. WaitInv'
  <2> SUFFICES ASSUME Live PROVE WaitInv'
    BY DEF ReachServer, WaitInv, Live
  <2>1. heard'["server"] /\ heard'["client"] = heard["client"] /\ timer' = timer
    BY DEF HeartbeatInv, HeartbeatTypeOK, ReachServer, LiveIsKept, Live
  <2>2. ClientWait' <= ClientWait /\ ClientWait' \in Int /\ ClientWait \in Int
    BY DEF HeartbeatInv, HeartbeatTypeOK, ReachServer, LiveIsKept, Live, WireInv, ClientWait
  <2>3. timer["client"] \in Nat
    BY DEF HeartbeatInv, HeartbeatTypeOK
  <2>4. QED
    BY <2>1, <2>2, <2>3 DEF HeartbeatInv, WaitInv
<1>5. SilenceInv'
  BY DEF HeartbeatInv, HeartbeatTypeOK, ReachServer, SilenceInv
<1>6. QED
  BY <1>2, <1>3, <1>4, <1>5 DEF HeartbeatInv

\* The client reads: it has heard something; an answer may let it sign in, and its
\* first heartbeat is then due as soon as any.
LEMMA ReachClientStep == HeartbeatInv /\ ReachClient => HeartbeatInv'
<1> SUFFICES ASSUME HeartbeatInv, ReachClient PROVE HeartbeatInv'
  OBVIOUS
<1> USE HeartbeatAssumption DEF Ends, Empty
<1>1. heard' \in [Ends -> BOOLEAN] /\ (phase # "authenticating" => phase' = phase)
      /\ (phase = "authenticating" =>
           phase' \in {"authenticating", "signedIn", "signedOut"})
  <2>1. heard \in [Ends -> BOOLEAN] /\ [heard EXCEPT !["client"] = TRUE] \in [Ends -> BOOLEAN]
    BY FlagTyped DEF HeartbeatInv, HeartbeatTypeOK
  <2>2. heard' \in {heard, [heard EXCEPT !["client"] = TRUE]}
    BY DEF ReachClient
  <2>3. /\ phase # "authenticating" => phase' = phase
        /\ phase = "authenticating" =>
             phase' \in {"authenticating", "signedIn", "signedOut"}
    BY DEF ReachClient
  <2>4. QED
    BY <2>1, <2>2, <2>3
<1>2. HeartbeatTypeOK' /\ LiveIsKept' /\ NapInv'
  BY <1>1 DEF HeartbeatInv, HeartbeatTypeOK, ReachClient, LiveIsKept, NapInv
<1>3. (Live => WireInv)'
  BY DEF HeartbeatInv, HeartbeatTypeOK, ReachClient, WireInv, Live, LiveIsKept
<1>4. WaitInv'
  <2> SUFFICES ASSUME Live' PROVE WaitInv'
    BY DEF WaitInv, Live
  <2>1. Live
    BY DEF ReachClient, Live
  <2>2. heard'["client"] /\ heard'["server"] = heard["server"] /\ timer' = timer
    BY <2>1 DEF HeartbeatInv, HeartbeatTypeOK, ReachClient, LiveIsKept, Live
  <2>3. Due \in Int /\ Due <= MaxDue /\ Due' = Due /\ MaxDue \in Int
    BY DEF HeartbeatInv, HeartbeatTypeOK, ReachClient, NapInv, Due, MaxDue
  <2>4. ServerWait' <= ServerWait /\ ServerWait' \in Int /\ ServerWait \in Int
    BY <2>1, <2>3 DEF HeartbeatInv, HeartbeatTypeOK, ReachClient, LiveIsKept, Live, WireInv, ServerWait
  <2>5. timer["server"] \in Nat
    BY DEF HeartbeatInv, HeartbeatTypeOK
  <2>6. ~heard["server"] => timer["server"] + ServerWait < Period
    BY <2>1 DEF HeartbeatInv, WaitInv
  <2>7. ~heard["server"] => timer["server"] + ServerWait' < Period
    BY <2>4, <2>5, <2>6
  <2>8. QED
    BY <2>2, <2>7 DEF WaitInv
<1>5. SilenceInv'
  BY DEF HeartbeatInv, HeartbeatTypeOK, ReachClient, SilenceInv
<1>6. QED
  BY <1>2, <1>3, <1>4, <1>5 DEF HeartbeatInv

\* The timer runs out: an end that heard nothing would have waited too long already,
\* and one that did has a whole period for a wait that is shorter.
LEMMA ExpireStep == ASSUME NEW e \in Ends PROVE HeartbeatInv /\ Expire(e) => HeartbeatInv'
<1> SUFFICES ASSUME HeartbeatInv, Expire(e) PROVE HeartbeatInv'
  OBVIOUS
<1> USE HeartbeatAssumption DEF Ends, Empty
<1>1. /\ Due \in Int /\ 0 <= Due /\ Due <= MaxDue
      /\ MaxDue \in Int /\ MaxDue + 2 * Delay < Period
  BY DEF HeartbeatInv, HeartbeatTypeOK, NapInv, Due, MaxDue
<1>2. Live => /\ ServerWait \in 0 .. MaxDue + 2 * Delay
              /\ ClientWait \in 0 .. MaxDue + 2 * Delay
  BY <1>1 DEF HeartbeatInv, HeartbeatTypeOK, WireInv, Live, ServerWait, ClientWait
<1>3. ServerWait' = ServerWait /\ ClientWait' = ClientWait /\ Live' = Live
  BY DEF Expire, ServerWait, ClientWait, Due, MaxDue, Live
<1>4. Live => heard[e]
  BY <1>2 DEF HeartbeatInv, HeartbeatTypeOK, WaitInv, Expire
<1>5. HeartbeatTypeOK' /\ NapInv' /\ (Live => WireInv)'
  <2>1. /\ heard' \in [Ends -> BOOLEAN] /\ closed' \in [Ends -> BOOLEAN]
        /\ timer' \in [Ends -> 0 .. Period + Lag]
    <3>1. /\ heard \in [Ends -> BOOLEAN] /\ [heard EXCEPT ![e] = FALSE] \in [Ends -> BOOLEAN]
          /\ closed \in [Ends -> BOOLEAN] /\ [closed EXCEPT ![e] = TRUE] \in [Ends -> BOOLEAN]
      BY FlagTyped DEF HeartbeatInv, HeartbeatTypeOK
    <3>2. timer \in [Ends -> 0 .. Period + Lag] /\ [timer EXCEPT ![e] = 0] \in [Ends -> 0 .. Period + Lag]
      BY DEF HeartbeatInv, HeartbeatTypeOK
    <3>3. /\ heard' \in {heard, [heard EXCEPT ![e] = FALSE]}
          /\ closed' \in {closed, [closed EXCEPT ![e] = TRUE]}
          /\ timer' \in {timer, [timer EXCEPT ![e] = 0]}
      BY DEF Expire
    <3>4. QED
      BY <3>1, <3>2, <3>3
  <2>2. HeartbeatTypeOK'
    BY <2>1 DEF HeartbeatInv, HeartbeatTypeOK, Expire
  <2>3. NapInv' /\ (Live => WireInv)'
    BY DEF HeartbeatInv, Expire, NapInv, WireInv, Live
  <2>4. QED
    BY <2>2, <2>3
<1>6. LiveIsKept'
  BY <1>4 DEF HeartbeatInv, Expire, LiveIsKept, Live
<1>7. WaitInv'
  <2> SUFFICES ASSUME Live PROVE WaitInv'
    BY <1>3 DEF WaitInv
  <2>1. timer' = [timer EXCEPT ![e] = 0] /\ heard' = [heard EXCEPT ![e] = FALSE]
    BY <1>4 DEF Expire
  <2>2. QED
    BY <1>1, <1>2, <1>3, <2>1 DEF HeartbeatInv, HeartbeatTypeOK, WaitInv
<1>8. SilenceInv'
  <2>1. CASE heard[e]
    <3>1. /\ timer' = [timer EXCEPT ![e] = 0] /\ heard' = [heard EXCEPT ![e] = FALSE]
          /\ closed' = closed /\ silence' = silence
      BY <2>1 DEF Expire
    <3>2. /\ silence \in Nat
          /\ timer["server"] \in 0 .. Period + Lag
          /\ e = "server" => timer'["server"] = 0 /\ ~heard'["server"]
          /\ e # "server" => timer'["server"] = timer["server"]
                             /\ heard'["server"] = heard["server"]
      BY <3>1 DEF HeartbeatInv, HeartbeatTypeOK
    <3>3. QED
      BY <2>1, <3>1, <3>2 DEF HeartbeatInv, SilenceInv
  <2>2. CASE ~heard[e]
    BY <2>2 DEF HeartbeatInv, HeartbeatTypeOK, Expire, SilenceInv
  <2>3. QED
    BY <2>1, <2>2
<1>9. QED
  BY <1>5, <1>6, <1>7, <1>8 DEF HeartbeatInv

\* The other actions disturb little: a read ends a wait, a client that is gone has none.
LEMMA OtherSteps ==
    ASSUME NEW e \in Ends
    PROVE  HeartbeatInv /\ (SignOut \/ Vanish \/ Chatter(e) \/ HangUp(e)) => HeartbeatInv'
<1> USE HeartbeatAssumption DEF Ends, Empty
<1>1. HeartbeatInv /\ SignOut => HeartbeatInv'
  <2> SUFFICES ASSUME HeartbeatInv, SignOut PROVE HeartbeatInv'
    OBVIOUS
  <2>1. heard' \in [Ends -> BOOLEAN] /\ silence' \in Nat
    <3>1. heard \in [Ends -> BOOLEAN] /\ [heard EXCEPT !["server"] = TRUE] \in [Ends -> BOOLEAN]
      BY FlagTyped DEF HeartbeatInv, HeartbeatTypeOK
    <3>2. heard' \in {heard, [heard EXCEPT !["server"] = TRUE]}
      BY DEF SignOut
    <3>3. silence' \in Nat
      BY DEF HeartbeatInv, HeartbeatTypeOK, SignOut
    <3>4. QED
      BY <3>1, <3>2, <3>3
  <2>2. HeartbeatTypeOK' /\ LiveIsKept' /\ NapInv' /\ ~Live'
    BY <2>1 DEF HeartbeatInv, HeartbeatTypeOK, SignOut, LiveIsKept, NapInv, Live
  <2>3. SilenceInv'
    BY DEF HeartbeatInv, HeartbeatTypeOK, SignOut, SilenceInv
  <2>4. QED
    BY <2>2, <2>3 DEF HeartbeatInv, WaitInv
<1>2. HeartbeatInv /\ Vanish => HeartbeatInv'
  BY DEF HeartbeatInv, HeartbeatTypeOK, Vanish, LiveIsKept, NapInv, WaitInv, SilenceInv, Live
<1>3. HeartbeatInv /\ Chatter(e) => HeartbeatInv'
  <2> SUFFICES ASSUME HeartbeatInv, Chatter(e) PROVE HeartbeatInv'
    OBVIOUS
  <2>1. HeartbeatTypeOK' /\ LiveIsKept' /\ NapInv' /\ (Live => WireInv)'
    BY DEF HeartbeatInv, HeartbeatTypeOK, Chatter, LiveIsKept, NapInv, WireInv, Live
  <2>2. ServerWait' = ServerWait /\ ClientWait' = ClientWait /\ Live' = Live
    BY DEF Chatter, ServerWait, ClientWait, Due, MaxDue, Live
  <2>3. WaitInv'
    BY <2>2 DEF HeartbeatInv, HeartbeatTypeOK, Chatter, WaitInv
  <2>4. SilenceInv'
    BY DEF HeartbeatInv, HeartbeatTypeOK, Chatter, SilenceInv
  <2>5. QED
    BY <2>1, <2>3, <2>4 DEF HeartbeatInv
<1>4. HeartbeatInv /\ HangUp(e) => HeartbeatInv'
  BY DEF HeartbeatInv, HeartbeatTypeOK, HangUp, LiveIsKept, NapInv, WaitInv, SilenceInv, Live
<1>5. QED
  BY <1>1, <1>2, <1>3, <1>4

\* HeartbeatInv is an invariant of the specification.
THEOREM HeartbeatInvariance == HeartbeatSpec => []HeartbeatInv
<1>1. HeartbeatInv /\ [HeartbeatNext]_heartbeatVars => HeartbeatInv'
  <2> SUFFICES ASSUME HeartbeatInv, [HeartbeatNext]_heartbeatVars PROVE HeartbeatInv'
    OBVIOUS
  <2>1. CASE HeartbeatNext
    BY <2>1, TickStep, WakeStep, ReachServerStep, ReachClientStep, ExpireStep, OtherSteps
    DEF HeartbeatNext, Ends
  <2>2. CASE UNCHANGED heartbeatVars
    BY <2>2 DEF heartbeatVars, HeartbeatInv, HeartbeatTypeOK, LiveIsKept, NapInv, Live, WireInv, WaitInv, SilenceInv,
                ServerWait, ClientWait, Due, MaxDue
  <2>3. QED
    BY <2>1, <2>2
<1>2. QED
  BY <1>1, InitHeartbeat, PTL DEF HeartbeatSpec

\* Every variable keeps its type; in particular no nap, message or timer outlives
\* its bound.
THEOREM HeartbeatsTyped == HeartbeatSpec => []HeartbeatTypeOK
<1>1. HeartbeatInv => HeartbeatTypeOK
  BY DEF HeartbeatInv
<1>2. QED
  BY <1>1, HeartbeatInvariance, PTL

\* No end closes the connection of a client that is signing in or signed in.
THEOREM LiveConnectionKept == HeartbeatSpec => []LiveIsKept
<1>1. HeartbeatInv => LiveIsKept
  BY DEF HeartbeatInv
<1>2. QED
  BY <1>1, HeartbeatInvariance, PTL

\* No session outlives two timers of silence.
THEOREM SilentConnectionPurged == HeartbeatSpec => []SilentIsPurged
<1>1. HeartbeatInv => SilentIsPurged
  BY HeartbeatAssumption DEF HeartbeatInv, HeartbeatTypeOK, SilenceInv, SilentIsPurged, Ends
<1>2. QED
  BY <1>1, HeartbeatInvariance, PTL
==============================================================================
