---------------------------- MODULE ClientLogin ----------------------------
(***************************************************************************)
(* Signing in and out on the client: three threads and the server.         *)
(*                                                                         *)
(*   Qt main thread   the login form, the displayed LoginState             *)
(*   control thread   Application::processActiveClientState, one wake at a *)
(*                    time: dials, sends the credentials, signs out        *)
(*   TCP thread       Application::processClientTcpPush: the server's      *)
(*                    answers                                              *)
(*                                                                         *)
(* They share m_activeServerUuid, m_authRequestInFlight and the token file,*)
(* each of its own synchronisation, and Qt's queue of signals.  Every      *)
(* attempt dials a connection of its own, and the connections before it    *)
(* are left to the server to close: messages keep their order on one       *)
(* connection only.  Whether a uuid and a token are there is all that      *)
(* matters of them.                                                        *)
(***************************************************************************)
EXTENDS Naturals, Sequences

CONSTANTS
    MaxSubmits,   \* bound: forms the user submits
    MaxChanges,   \* bound: password changes the user asks for
    MaxLogouts,   \* bound: clicks on Log Out
    MaxSignals,   \* bound: undelivered Qt signals while the control loop wakes
    MayDrop       \* can the connection in use drop?

ASSUME LoginAssumption ==
    /\ MaxSubmits \in Nat /\ MaxChanges \in Nat /\ MaxLogouts \in Nat /\ MaxSignals \in Nat \ {0}
    /\ MayDrop \in BOOLEAN

Forms == {"LOGIN", "REGISTER", "RESET_PASSWORD"}
AuthRequests == Forms \cup {"AUTH_SESSION"}
LoginStates == {"Disconnected", "Connecting", "Authenticating", "LoggedIn"}
Signals == LoginStates \cup {"confirmLogin", "confirmLogout"}
Requests == AuthRequests \cup {"LOGOUT", "CHANGE_PASSWORD"}
AuthAnswers == {"AUTH_SUCCESS", "AUTH_FAILED"}
Answers == AuthAnswers \cup {"PASSWORD_CHANGED"}

VARIABLES
    \* Qt main thread
    loginState,     \* m_loginState
    isLoggedIn,     \* m_isLoggedIn
    signals,        \* queued signals, oldest first
    pending,        \* how many forms of each kind wait for the control thread
    pendingLogout,  \* m_pendingLogout
    pendingChange,  \* m_pendingPasswordChanges: how many wait
    submits,        \* forms submitted, password changes and logouts asked for
    changes,
    logouts,
    \* shared
    uuid,           \* m_activeServerUuid is not empty
    inFlight,       \* m_authRequestInFlight
    token,          \* a session token is saved
    \* threads
    control,        \* control thread: where its wake is, and what it sends
    tcp,            \* TCP thread: the push it is still processing, or "none"
    \* connections, numbered in the order they were dialled
    conn,           \* m_clientSession, 0 before the first
    dead,           \* connections that are closed
    requests,       \* on each, client to server, oldest first
    answers,        \* on each, server to client
    \* history
    leaving         \* the user signed out and submitted nothing since

qt == <<loginState, isLoggedIn>>
ui == <<pending, pendingLogout, pendingChange, submits, changes, logouts>>
wire == <<conn, dead, requests, answers>>
vars == <<qt, signals, ui, uuid, inFlight, token, control, tcp, wire, leaving>>

Idle == [pc |-> "idle", request |-> "none"]

TypeOK ==
    /\ loginState \in LoginStates /\ isLoggedIn \in BOOLEAN
    /\ signals \in Seq(Signals)
    /\ pending \in [Forms -> 0 .. MaxSubmits]
    /\ pendingLogout \in BOOLEAN /\ pendingChange \in 0 .. MaxChanges
    /\ submits \in 0 .. MaxSubmits /\ changes \in 0 .. MaxChanges
    /\ logouts \in 0 .. MaxLogouts
    /\ uuid \in BOOLEAN /\ inFlight \in BOOLEAN /\ token \in BOOLEAN
    /\ control \in [pc : {"idle", "signedIn", "signedOut", "dial", "sent"},
                    request : AuthRequests \cup {"none"}]
    /\ control.request # "none" <=> control.pc \in {"dial", "sent"}
    /\ tcp \in AuthAnswers \cup {"none"}
    /\ conn \in Nat /\ dead \subseteq 1 .. conn
    /\ requests \in [1 .. conn -> Seq(Requests)] /\ answers \in [1 .. conn -> Seq(Answers)]
    /\ \A c \in dead : requests[c] = <<>> /\ answers[c] = <<>>
    /\ leaving \in BOOLEAN

\* The program starts, with or without a token saved by an earlier run.
Init ==
    /\ loginState = "Disconnected" /\ isLoggedIn = FALSE /\ signals = <<>>
    /\ pending = [f \in Forms |-> 0] /\ pendingLogout = FALSE /\ pendingChange = 0
    /\ submits = 0 /\ changes = 0 /\ logouts = 0
    /\ uuid = FALSE /\ inFlight = FALSE /\ token \in BOOLEAN
    /\ control = Idle /\ tcp = "none"
    /\ conn = 0 /\ dead = {}
    /\ requests = [c \in 1 .. conn |-> <<>>] /\ answers = [c \in 1 .. conn |-> <<>>]
    /\ leaving = FALSE

\* sendPersistentTcp: what is sent on a dead session is dropped.
Sent(type) ==
    IF conn \in dead THEN requests ELSE [requests EXCEPT ![conn] = Append(@, type)]

-----------------------------------------------------------------------------
(* Qt main thread.                                                         *)

\* The overlay shows its form to a signed-out user until the spinner replaces
\* it; nothing stops a second click or Return before that.
Submit(form) ==
    /\ ~isLoggedIn /\ loginState \notin {"Connecting", "Authenticating"}
    /\ submits < MaxSubmits
    /\ submits' = submits + 1
    /\ pending' = [pending EXCEPT ![form] = @ + 1]
    /\ leaving' = FALSE
    /\ UNCHANGED <<qt, signals, pendingLogout, pendingChange, changes, logouts, uuid, inFlight,
                   token, control, tcp, wire>>

Logout ==
    /\ isLoggedIn /\ logouts < MaxLogouts
    /\ logouts' = logouts + 1
    /\ pendingLogout' = TRUE
    /\ UNCHANGED <<qt, signals, pending, pendingChange, submits, changes, uuid, inFlight,
                   token, control, tcp, wire, leaving>>

ChangePassword ==
    /\ isLoggedIn /\ changes < MaxChanges
    /\ changes' = changes + 1
    /\ pendingChange' = pendingChange + 1
    /\ UNCHANGED <<qt, signals, pending, pendingLogout, submits, logouts, uuid, inFlight, token,
                   control, tcp, wire, leaving>>

\* onSetLoginState, onConfirmLogin, onConfirmLogout
DeliverSignal ==
    /\ signals # <<>>
    /\ signals' = Tail(signals)
    /\ loginState' = CASE Head(signals) = "confirmLogin" -> "LoggedIn"
                       [] Head(signals) = "confirmLogout" -> "Disconnected"
                       [] OTHER -> Head(signals)
    /\ isLoggedIn' = CASE Head(signals) = "confirmLogin" -> TRUE
                       [] Head(signals) = "confirmLogout" -> FALSE
                       [] OTHER -> isLoggedIn
    /\ UNCHANGED <<ui, uuid, inFlight, token, control, tcp, wire, leaving>>

-----------------------------------------------------------------------------
(* Control thread.                                                         *)

\* DiscordBackend::setLoginState drops a state that is displayed already.
WithState(s) == IF loginState = s THEN signals ELSE Append(signals, s)

\* A wake samples the uuid once.
Wake ==
    /\ control.pc = "idle" /\ Len(signals) < MaxSignals
    /\ control' = [Idle EXCEPT !.pc = IF uuid THEN "signedIn" ELSE "signedOut"]
    /\ UNCHANGED <<qt, signals, ui, uuid, inFlight, token, tcp, wire, leaving>>

NothingPending == \A form \in Forms : pending[form] = 0

\* Mutant: reports the dial before it knows whether there is anything to send.
StayIdleConnecting ==
    /\ control.pc = "signedOut"
    /\ inFlight \/ (~token /\ NothingPending)
    /\ signals' = WithState(IF inFlight THEN "Authenticating" ELSE "Connecting")
    /\ control' = Idle
    /\ UNCHANGED <<qt, ui, uuid, inFlight, token, tcp, wire, leaving>>

\* An auth request is in flight, or there is nothing to send.
StayIdle ==
    /\ control.pc = "signedOut"
    /\ inFlight \/ (~token /\ NothingPending)
    /\ signals' = WithState(IF inFlight THEN "Authenticating" ELSE "Disconnected")
    /\ control' = Idle
    /\ UNCHANGED <<qt, ui, uuid, inFlight, token, tcp, wire, leaving>>

\* One form of every kind is taken off its queue; one of them will be sent.
Chosen ==
    CASE pending["RESET_PASSWORD"] > 0 -> "RESET_PASSWORD"
      [] pending["RESET_PASSWORD"] = 0 /\ pending["REGISTER"] > 0 -> "REGISTER"
      [] pending["RESET_PASSWORD"] + pending["REGISTER"] = 0 /\ pending["LOGIN"] > 0 -> "LOGIN"
      [] NothingPending -> "AUTH_SESSION"

\* Mutant: dials although an auth request is in flight.
DialAgain ==
    /\ control.pc = "signedOut"
    /\ token \/ ~NothingPending
    /\ pending' = [form \in Forms |-> IF pending[form] > 0 THEN pending[form] - 1 ELSE 0]
    /\ signals' = WithState("Connecting")
    /\ control' = [pc |-> "dial", request |-> Chosen]
    /\ UNCHANGED <<qt, pendingLogout, pendingChange, submits, changes, logouts, uuid,
                   inFlight, token, tcp, wire, leaving>>

Dial ==
    /\ control.pc = "signedOut"
    /\ ~inFlight /\ (token \/ ~NothingPending)
    /\ pending' = [form \in Forms |-> IF pending[form] > 0 THEN pending[form] - 1 ELSE 0]
    /\ signals' = WithState("Connecting")
    /\ control' = [pc |-> "dial", request |-> Chosen]
    /\ UNCHANGED <<qt, pendingLogout, pendingChange, submits, changes, logouts, uuid,
                   inFlight, token, tcp, wire, leaving>>

DialFails ==
    /\ control.pc = "dial"
    /\ control' = Idle
    /\ UNCHANGED <<qt, signals, ui, uuid, inFlight, token, tcp, wire, leaving>>

\* connectPersistentTcp replaces m_clientSession and leaves the one before open.
DialSucceeds ==
    /\ control.pc = "dial"
    /\ conn' = conn + 1
    /\ requests' = [c \in 1 .. conn + 1 |-> IF c = conn + 1 THEN <<control.request>> ELSE requests[c]]
    /\ answers' = [c \in 1 .. conn + 1 |-> IF c = conn + 1 THEN <<>> ELSE answers[c]]
    /\ control' = [control EXCEPT !.pc = "sent"]
    /\ UNCHANGED <<qt, signals, ui, uuid, inFlight, token, tcp, dead, leaving>>

\* Mutant: the flag is not set.
MarkNothing ==
    /\ control.pc = "sent"
    /\ control' = Idle
    /\ UNCHANGED <<qt, signals, ui, uuid, inFlight, token, tcp, wire, leaving>>

\* m_authRequestInFlight.store(true), after the request was sent.
MarkInFlight ==
    /\ control.pc = "sent"
    /\ inFlight' = TRUE
    /\ control' = Idle
    /\ UNCHANGED <<qt, signals, ui, uuid, token, tcp, wire, leaving>>

\* Mutant: the token outlives the logout.
SignOutKeepsToken ==
    /\ control.pc = "signedIn" /\ pendingLogout
    /\ pendingLogout' = FALSE
    /\ inFlight' = FALSE
    /\ requests' = Sent("LOGOUT")
    /\ uuid' = FALSE
    /\ signals' = Append(WithState("LoggedIn"), "confirmLogout")
    /\ control' = Idle
    /\ leaving' = TRUE
    /\ UNCHANGED <<qt, pending, pendingChange, submits, changes, logouts, token, tcp, conn, dead,
                   answers>>

\* The signed-in phase up to its early return on a logout; the uuid is cleared and the
\* confirmation posted in one step.
SignOut ==
    /\ control.pc = "signedIn" /\ pendingLogout
    /\ pendingLogout' = FALSE
    /\ inFlight' = FALSE
    /\ requests' = Sent("LOGOUT")
    /\ token' = FALSE
    /\ uuid' = FALSE
    /\ signals' = Append(WithState("LoggedIn"), "confirmLogout")
    /\ control' = Idle
    /\ leaving' = TRUE
    /\ UNCHANGED <<qt, pending, pendingChange, submits, changes, logouts, tcp, conn, dead, answers>>

StaySignedIn ==
    /\ control.pc = "signedIn" /\ ~pendingLogout
    /\ inFlight' = FALSE
    /\ signals' = WithState("LoggedIn")
    /\ IF pendingChange > 0
         THEN pendingChange' = pendingChange - 1 /\ requests' = Sent("CHANGE_PASSWORD")
         ELSE UNCHANGED <<pendingChange, requests>>
    /\ control' = Idle
    /\ UNCHANGED <<qt, pending, pendingLogout, submits, changes, logouts, uuid, token, tcp,
                   conn, dead, answers, leaving>>

-----------------------------------------------------------------------------
(* TCP thread.                                                             *)

Receive(type) ==
    /\ tcp = "none"
    /\ \E c \in 1 .. conn :
          /\ answers[c] # <<>> /\ Head(answers[c]) = type
          /\ answers' = [answers EXCEPT ![c] = Tail(@)]
    /\ UNCHANGED <<conn, dead, requests>>

\* AUTH_SUCCESS: the token is saved and the uuid set before the UI is told.
ReceiveSuccess ==
    /\ Receive("AUTH_SUCCESS")
    /\ token' = TRUE /\ uuid' = TRUE
    /\ tcp' = "AUTH_SUCCESS"
    /\ UNCHANGED <<qt, signals, ui, inFlight, control, leaving>>

\* Mutant: the window is not told.
ConfirmNothing ==
    /\ tcp = "AUTH_SUCCESS"
    /\ tcp' = "none"
    /\ UNCHANGED <<qt, signals, ui, uuid, inFlight, token, control, wire, leaving>>

ConfirmLogin ==
    /\ tcp = "AUTH_SUCCESS"
    /\ signals' = Append(signals, "confirmLogin")
    /\ tcp' = "none"
    /\ UNCHANGED <<qt, ui, uuid, inFlight, token, control, wire, leaving>>

\* AUTH_FAILED: the flag is cleared last.
ReceiveFailure ==
    /\ Receive("AUTH_FAILED")
    /\ token' = FALSE
    /\ signals' = Append(signals, "confirmLogout")
    /\ tcp' = "AUTH_FAILED"
    /\ UNCHANGED <<qt, ui, uuid, inFlight, control, leaving>>

ClearInFlight ==
    /\ tcp = "AUTH_FAILED"
    /\ inFlight' = FALSE
    /\ tcp' = "none"
    /\ UNCHANGED <<qt, signals, ui, uuid, token, control, wire, leaving>>

ReceivePasswordChanged ==
    /\ Receive("PASSWORD_CHANGED")
    /\ token' = TRUE
    /\ UNCHANGED <<qt, signals, ui, uuid, inFlight, control, tcp, leaving>>

-----------------------------------------------------------------------------
(* The server, and the network.                                            *)

\* What each request can be answered with; a rejected password change and an
\* acknowledged logout change nothing here.
Replies(request) ==
    CASE request \in AuthRequests -> AuthAnswers
      [] request = "CHANGE_PASSWORD" -> {"PASSWORD_CHANGED", "none"}
      [] OTHER -> {"none"}

ServerAnswers ==
    /\ \E c \in 1 .. conn :
          /\ requests[c] # <<>>
          /\ \E reply \in Replies(Head(requests[c])) :
                answers' = IF reply = "none" THEN answers
                           ELSE [answers EXCEPT ![c] = Append(@, reply)]
          /\ requests' = [requests EXCEPT ![c] = Tail(@)]
    /\ UNCHANGED <<qt, signals, ui, uuid, inFlight, token, control, tcp, conn, dead, leaving>>

\* A connection closes: what is on it is lost, and nobody is told
\* (connectPersistentTcp's onDisconnect only logs).  The server closes the
\* ones the client has given up, for their silence or for a newer login.
ConnectionCloses(c) ==
    /\ c \notin dead
    /\ c = conn => MayDrop
    /\ dead' = dead \cup {c}
    /\ requests' = [requests EXCEPT ![c] = <<>>]
    /\ answers' = [answers EXCEPT ![c] = <<>>]
    /\ UNCHANGED <<qt, signals, ui, uuid, inFlight, token, control, tcp, conn, leaving>>

QtNext == DeliverSignal
ControlNext == \/ Wake \/ StayIdle \/ Dial \/ DialFails \/ DialSucceeds
               \/ MarkInFlight \/ SignOut \/ StaySignedIn
TcpNext == \/ ReceiveSuccess \/ ConfirmLogin \/ ReceiveFailure \/ ClearInFlight
           \/ ReceivePasswordChanged
UserNext == (\E form \in Forms : Submit(form)) \/ Logout \/ ChangePassword

Next == UserNext \/ QtNext \/ ControlNext \/ TcpNext \/ ServerAnswers
        \/ \E c \in 1 .. conn : ConnectionCloses(c)

Spec == Init /\ [][Next]_vars

\* Threads are scheduled and the server answers; the user and the network owe
\* nothing.
Fairness ==
    /\ WF_vars(QtNext) /\ WF_vars(ControlNext) /\ WF_vars(TcpNext)
    /\ WF_vars(ServerAnswers)

FairSpec == Spec /\ Fairness

-----------------------------------------------------------------------------
(* Properties.                                                             *)

\* The authentications under way: those sent, those answered, and the rejection
\* that is being processed.
Places(line, types) == {i \in DOMAIN line : line[i] \in types}
UnderWay ==
    (UNION {{<<"sent", c, i>> : i \in Places(requests[c], AuthRequests)} : c \in 1 .. conn})
    \cup (UNION {{<<"answered", c, i>> : i \in Places(answers[c], AuthAnswers)} : c \in 1 .. conn})
    \cup (IF tcp = "AUTH_FAILED" THEN {<<"rejected", 0, 0>>} ELSE {})

\* At most one authentication is between being sent and the end of its
\* rejection's processing, on whatever connections, although the flag that
\* guards it is set only after the send and cleared by two threads.
OneAuthAtATime == \A a, b \in UnderWay : a = b

\* A signed-in client holds the token that signs it in again after a restart:
\* no late rejection of an earlier attempt wipes it.
SignedInHasToken == uuid => token

\* The threads post what the window is to show each on its own, in whatever order:
\* once all of it is delivered the window and the client agree on being signed in,
\* unless Log Out was clicked again.
WindowAgrees ==
    signals = <<>> /\ tcp # "AUTH_SUCCESS" /\ logouts <= 1 => isLoggedIn = uuid

\* Signed in for good, the window ends up saying so: no late signal of the
\* other thread sticks.
SignedInIsShown == <>[]uuid => <>[](loginState = "LoggedIn" /\ isLoggedIn)

\* Signed out for good with nothing to send, the window ends up at the form
\* (Application.cpp:822-824), unless Log Out was clicked again: a click that
\* comes after the logout was taken is kept for the next session.
IdleShowsForm ==
    <>[](~uuid /\ ~inFlight /\ ~token /\ NothingPending /\ logouts <= 1)
        => <>[](loginState = "Disconnected" /\ ~isLoggedIn)

\* A user who has signed out is not signed in again before submitting a form,
\* whatever answers and signals were under way: only a second copy of a form
\* still queued or a password change whose answer comes late can do that.
LogoutSticks == [][leaving /\ changes = 0 /\ NothingPending => ~Dial]_vars
=============================================================================
