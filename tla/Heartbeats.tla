----------------------------- MODULE Heartbeats -----------------------------
(***************************************************************************)
(* The clocks that keep one connection open.                               *)
(*                                                                         *)
(* Both ends of a connection are TcpSessions: each arms a timer, notes     *)
(* every message it reads and closes when the timer finds that nothing was *)
(* read since it last ran.  The only regular traffic is the client's       *)
(* HEARTBEAT and the server's answer to it.  The control loop naps between *)
(* its wakes and sends a heartbeat when its own interval has passed; the   *)
(* margin between the interval and the timer has to cover the nap, both    *)
(* threads' lateness and the way there and back.                           *)
(*                                                                         *)
(* Time is counted in ticks.  At most one HEARTBEAT and one answer are on  *)
(* the wire; every other request and broadcast arrives as it is sent.      *)
(*                                                                         *)
(* The definitions every module has bear this one's name, so that a module *)
(* can extend it together with SessionRegistry.                            *)
(***************************************************************************)
EXTENDS Integers

CONSTANTS
    Period,   \* the session's timer: 45000 ms
    Interval, \* heartbeatIntervalMs: 41250
    MinNap,   \* the loop's shortest sleep: 10
    MaxNap,   \* its longest: 2000
    Lag,      \* bound: how late a thread runs what is due
    Delay     \* bound: time on the wire and waiting for the reader, one way

ASSUME HeartbeatAssumption ==
    /\ Period \in Nat /\ Interval \in Nat /\ MinNap \in Nat
    /\ MaxNap \in Nat /\ Lag \in Nat /\ Delay \in Nat
    /\ 0 < MinNap /\ MinNap <= MaxNap
    /\ 2 * Delay < Interval                            \* one round trip at a time
    /\ Interval + MinNap + Lag + 2 * Delay < Period    \* what the 3750 ms are for

Ends == {"server", "client"}
Empty == -1 \* nothing on the wire

VARIABLES
    phase,   \* the client: authenticating, signed in, signed out, vanished
    elapsed, \* since lastHeartbeatTime; what exceeds Interval is not counted
    nap,     \* what is left of the control loop's sleep; below 0 it is late
    up,      \* age of the request on the wire
    down,    \* age of the answer on the wire
    timer,   \* since each end's timer was armed
    heard,   \* m_hasReceivedHeartbeat of each end
    closed,  \* m_isDead of each end
    silence  \* history: since the server last read a message, while open

heartbeatVars == <<phase, elapsed, nap, up, down, timer, heard, closed, silence>>

HeartbeatTypeOK ==
    /\ phase \in {"authenticating", "signedIn", "signedOut", "vanished"}
    /\ elapsed \in 0 .. Interval
    /\ nap \in -Lag .. MaxNap
    /\ up \in {Empty} \cup 0 .. Delay
    /\ down \in {Empty} \cup 0 .. Delay
    /\ timer \in [Ends -> 0 .. Period + Lag]
    /\ heard \in [Ends -> BOOLEAN]
    /\ closed \in [Ends -> BOOLEAN]
    /\ silence \in Nat

-----------------------------------------------------------------------------

\* Mutant: the loop sleeps its longest nap whatever is due.
NapMaximal(since) == MaxNap

\* The next sleep, a time after the last heartbeat.
NapFor(since) ==
    LET untilDue == IF Interval - since < MinNap THEN MinNap ELSE Interval - since
    IN  IF untilDue < MaxNap THEN untilDue ELSE MaxNap

\* The client has dialled and sent its authentication; lastHeartbeatTime is that
\* of an earlier session, or the loop's start.
HeartbeatInit ==
    /\ phase = "authenticating"
    /\ elapsed \in 0 .. Interval
    /\ nap = NapFor(elapsed)
    /\ up = 0
    /\ down = Empty
    /\ timer = [e \in Ends |-> 0]
    /\ heard = [e \in Ends |-> TRUE]
    /\ closed = [e \in Ends |-> FALSE]
    /\ silence = 0

Older(age) == IF age = Empty THEN Empty ELSE age + 1

\* Time passes unless something would run later than its bound.
Tick ==
    /\ phase = "vanished" \/ nap > -Lag
    /\ up < Delay /\ down < Delay
    /\ \A e \in Ends : closed[e] \/ timer[e] < Period + Lag
    /\ IF phase = "vanished"
         THEN UNCHANGED <<elapsed, nap>>
         ELSE /\ elapsed' = IF elapsed < Interval THEN elapsed + 1 ELSE Interval
              /\ nap' = nap - 1
    /\ up' = Older(up)
    /\ down' = Older(down)
    /\ timer' = [e \in Ends |-> IF closed[e] THEN timer[e] ELSE timer[e] + 1]
    /\ silence' = IF closed["server"] THEN silence ELSE silence + 1
    /\ UNCHANGED <<phase, heard, closed>>

-----------------------------------------------------------------------------
(* The client's control loop.                                              *)

\* It wakes when its sleep is over, or earlier when it is notified.
Wake ==
    /\ phase # "vanished"
    /\ IF phase = "signedIn" /\ elapsed >= Interval
         THEN /\ elapsed' = 0
              /\ up' = IF closed["client"] THEN up ELSE 0
         ELSE UNCHANGED <<elapsed, up>>
    /\ nap' = NapFor(elapsed')
    /\ UNCHANGED <<phase, down, timer, heard, closed, silence>>

\* LOGOUT: the connection stays, its heartbeats stop.
SignOut ==
    /\ phase = "signedIn"
    /\ phase' = "signedOut"
    /\ IF closed["client"] \/ closed["server"]
         THEN UNCHANGED <<heard, silence>>
         ELSE heard' = [heard EXCEPT !["server"] = TRUE] /\ silence' = 0
    /\ UNCHANGED <<elapsed, nap, up, down, timer, closed>>

\* The process is killed or the host leaves the network.
Vanish ==
    /\ phase # "vanished"
    /\ phase' = "vanished"
    /\ closed' = [closed EXCEPT !["client"] = TRUE]
    /\ UNCHANGED <<elapsed, nap, up, down, timer, heard, silence>>

-----------------------------------------------------------------------------
(* The two sessions.                                                       *)

\* The server reads the request on the wire and answers it.
ReachServer ==
    /\ up # Empty
    /\ up' = Empty
    /\ IF closed["server"]
         THEN UNCHANGED <<down, heard, silence>>
         ELSE /\ down' = 0
              /\ heard' = [heard EXCEPT !["server"] = TRUE]
              /\ silence' = 0
    /\ UNCHANGED <<phase, elapsed, nap, timer, closed>>

\* The client reads the answer: to its authentication, or HEARTBEAT_ACK.
ReachClient ==
    /\ down # Empty
    /\ down' = Empty
    /\ IF closed["client"]
         THEN UNCHANGED <<phase, heard>>
         ELSE /\ heard' = [heard EXCEPT !["client"] = TRUE]
              /\ IF phase = "authenticating"
                   THEN phase' \in {"signedIn", "signedOut"}
                   ELSE UNCHANGED phase
    /\ UNCHANGED <<elapsed, nap, up, timer, closed, silence>>

\* Any other message: a request of the signed-in client, a broadcast of the server.
Chatter(e) ==
    /\ \A d \in Ends : ~closed[d]
    /\ phase = "signedIn"
    /\ heard' = [heard EXCEPT ![e] = TRUE]
    /\ silence' = IF e = "server" THEN 0 ELSE silence
    /\ UNCHANGED <<phase, elapsed, nap, up, down, timer, closed>>

\* Mutant: the timer leaves the flag as it found it.
ExpireKeepsFlag(e) ==
    /\ ~closed[e]
    /\ timer[e] >= Period
    /\ IF heard[e] THEN timer' = [timer EXCEPT ![e] = 0] /\ UNCHANGED closed
                   ELSE closed' = [closed EXCEPT ![e] = TRUE] /\ UNCHANGED timer
    /\ UNCHANGED <<phase, elapsed, nap, up, down, heard, silence>>

Expire(e) ==
    /\ ~closed[e]
    /\ timer[e] >= Period
    /\ IF heard[e]
         THEN /\ heard' = [heard EXCEPT ![e] = FALSE]
              /\ timer' = [timer EXCEPT ![e] = 0]
              /\ UNCHANGED closed
         ELSE /\ closed' = [closed EXCEPT ![e] = TRUE]
              /\ UNCHANGED <<heard, timer>>
    /\ UNCHANGED <<phase, elapsed, nap, up, down, silence>>

\* An end may read the end of the stream once the other has closed; a peer that
\* vanished may never send one.
HangUp(e) ==
    /\ ~closed[e]
    /\ \E d \in Ends : closed[d]
    /\ closed' = [closed EXCEPT ![e] = TRUE]
    /\ UNCHANGED <<phase, elapsed, nap, up, down, timer, heard, silence>>

HeartbeatNext ==
    \/ Tick \/ Wake \/ SignOut \/ Vanish \/ ReachServer \/ ReachClient
    \/ \E e \in Ends : Chatter(e) \/ Expire(e) \/ HangUp(e)

HeartbeatSpec == HeartbeatInit /\ [][HeartbeatNext]_heartbeatVars

-----------------------------------------------------------------------------
(* Properties                                                              *)

\* The margin is enough: whatever the relation of the two timers to the client's
\* interval, to its last session's heartbeat and to its naps, neither end closes the
\* connection of a client that is signing in or signed in
\* (TcpSession::startHeartbeatTimer, clientControlLoop).
LiveIsKept == phase \in {"authenticating", "signedIn"} => \A e \in Ends : ~closed[e]

\* And it is not slack: a session from which nothing comes any more, whether its
\* client signed out, was refused or vanished, is closed by the second timer.
SilentIsPurged == ~closed["server"] => silence <= 2 * (Period + Lag)
=============================================================================
