------------------------- MODULE ClientLoginProofs -------------------------
(***************************************************************************)
(* For any number of forms, password changes, logouts and connections: at  *)
(* most one authentication is under way, a signed-in client holds a token, *)
(* a logout is not undone by what was under way, and a window that has     *)
(* shown every signal says signed in if and only if the client is.         *)
(*                                                                         *)
(* Nothing locks the three threads out of one another.  What keeps them    *)
(* apart is that an authentication under way finds m_authRequestInFlight   *)
(* set, or the control thread about to set it, and the client signed out;  *)
(* and that on every connection it comes first.                            *)
(***************************************************************************)
EXTENDS ClientLogin, TLAPS

-----------------------------------------------------------------------------
(* The inductive invariant.                                                *)

\* Every form and password change that waits was asked for.
Counted ==
    /\ \A f \in Forms : pending[f] <= submits
    /\ pendingChange <= changes

Asking(c) == requests[c] # <<>> /\ requests[c][1] \in AuthRequests
Answered(c) == answers[c] # <<>> /\ answers[c][1] \in AuthAnswers
Pending(c) == Asking(c) \/ Answered(c)

\* A connection is dialled to authenticate: that is its first request, and its
\* first answer.
AuthComesFirst ==
    \A c \in 1 .. conn :
        /\ \A i \in 1 .. Len(requests[c]) : requests[c][i] \in AuthRequests => i = 1
        /\ \A i \in 1 .. Len(answers[c]) : answers[c][i] \in AuthAnswers => i = 1
        /\ Asking(c) => answers[c] = <<>>

\* No two connections have one under way, none has while a rejection is processed.
AtMostOne ==
    /\ \A c, d \in 1 .. conn : Pending(c) /\ Pending(d) => c = d
    /\ tcp = "AUTH_FAILED" => \A c \in 1 .. conn : ~Pending(c)

\* While one is under way the client is signed out and the flag is set, or about to be.
Guard == (inFlight \/ control.pc = "sent") /\ ~uuid
Guarded ==
    /\ tcp = "AUTH_FAILED" => Guard
    /\ \A c \in 1 .. conn : Pending(c) => Guard

\* What the wake sampled and tested still holds.
Sampled ==
    /\ control.pc = "signedIn" => uuid
    /\ control.pc = "signedOut" => ~uuid \/ inFlight
    /\ control.pc = "dial" =>
         /\ ~uuid /\ tcp # "AUTH_FAILED"
         /\ \A c \in 1 .. conn : ~Pending(c)

\* No password change is under way before the user asks for one.
NoChangeOnWire ==
    \A c \in 1 .. conn :
        /\ \A i \in 1 .. Len(requests[c]) : requests[c][i] # "CHANGE_PASSWORD"
        /\ \A i \in 1 .. Len(answers[c]) : answers[c][i] # "PASSWORD_CHANGED"

NothingChanges == changes = 0 => pendingChange = 0 /\ NoChangeOnWire

\* A user who signed out has no token to be signed in with.
LeftForGood == leaving /\ changes = 0 /\ token => uuid

LoginInv ==
    /\ TypeOK /\ Counted
    /\ AuthComesFirst /\ AtMostOne /\ Guarded /\ Sampled
    /\ SignedInHasToken /\ NothingChanges /\ LeftForGood

-----------------------------------------------------------------------------
(* Sequences and wires.                                                    *)

\* Taking the oldest message moves the others forward.
LEMMA Taken ==
  ASSUME NEW S, NEW q \in Seq(S), q # <<>>
  PROVE  /\ Head(q) = q[1] /\ q[1] \in S
         /\ Tail(q) \in Seq(S)
         /\ Len(q) \in Nat /\ Len(q) >= 1
         /\ Len(Tail(q)) = Len(q) - 1
         /\ \A i \in 1 .. Len(Tail(q)) : Tail(q)[i] = q[i + 1]
         /\ Tail(q) # <<>> => Len(Tail(q)) >= 1
<1>1. Len(q) \in Nat /\ Len(q) >= 1 /\ Head(q) = q[1] /\ q[1] \in S
  OBVIOUS
<1>2. /\ Tail(q) \in Seq(S) /\ Len(Tail(q)) = Len(q) - 1
      /\ \A i \in 1 .. Len(Tail(q)) : Tail(q)[i] = q[i + 1]
  OBVIOUS
<1>3. ASSUME NEW p \in Seq(S), p # <<>> PROVE Len(p) >= 1
  BY <1>3
<1>4. QED
  BY <1>1, <1>2, <1>3

\* A message that is sent is the newest.
LEMMA Added ==
  ASSUME NEW S, NEW q \in Seq(S), NEW x \in S
  PROVE  /\ Append(q, x) \in Seq(S)
         /\ Len(q) \in Nat
         /\ Len(Append(q, x)) = Len(q) + 1
         /\ \A i \in 1 .. Len(q) : Append(q, x)[i] = q[i]
         /\ Append(q, x)[Len(q) + 1] = x
         /\ Append(q, x) # <<>>
         /\ q # <<>> => Len(q) >= 1
<1>1. /\ Append(q, x) \in Seq(S) /\ Len(q) \in Nat
      /\ Len(Append(q, x)) = Len(q) + 1
      /\ \A i \in 1 .. Len(q) : Append(q, x)[i] = q[i]
      /\ Append(q, x)[Len(q) + 1] = x
  OBVIOUS
<1>2. Append(q, x) # <<>>
  <2>1. Len(Append(q, x)) # 0
    BY <1>1
  <2>2. Len(<<>>) = 0
    OBVIOUS
  <2>3. QED
    BY <2>1, <2>2, Zenon
<1>3. q # <<>> => Len(q) >= 1
  OBVIOUS
<1>4. QED
  BY <1>1, <1>2, <1>3

\* The request that is chosen is one.
LEMMA ChosenTyped ==
  ASSUME TypeOK
  PROVE  Chosen \in AuthRequests
<1>1. \A f \in Forms : pending[f] \in Nat
  BY LoginAssumption DEF TypeOK
<1>2. pending["RESET_PASSWORD"] \in Nat /\ pending["REGISTER"] \in Nat /\ pending["LOGIN"] \in Nat
  BY <1>1 DEF Forms
<1>3. CASE pending["RESET_PASSWORD"] > 0
  BY <1>2, <1>3 DEF Chosen, AuthRequests, Forms, NothingPending
<1>4. CASE pending["RESET_PASSWORD"] = 0 /\ pending["REGISTER"] > 0
  BY <1>2, <1>4 DEF Chosen, AuthRequests, Forms, NothingPending
<1>5. CASE pending["RESET_PASSWORD"] = 0 /\ pending["REGISTER"] = 0 /\ pending["LOGIN"] > 0
  BY <1>2, <1>5 DEF Chosen, AuthRequests, Forms, NothingPending
<1>6. CASE pending["RESET_PASSWORD"] = 0 /\ pending["REGISTER"] = 0 /\ pending["LOGIN"] = 0
  <2>1. NothingPending
    BY <1>6 DEF NothingPending, Forms
  <2>2. QED
    BY <1>6, <2>1 DEF Chosen, AuthRequests
<1>7. QED
  BY <1>2, <1>3, <1>4, <1>5, <1>6

-----------------------------------------------------------------------------
(* Types.                                                                  *)

\* What a thread sends is on the wire of the connection in use.
LEMMA SentTyped ==
  ASSUME TypeOK, NEW type \in Requests
  PROVE  /\ Sent(type) \in [1 .. conn -> Seq(Requests)]
         /\ \A c \in dead : Sent(type)[c] = requests[c]
         /\ \A c \in 1 .. conn : Sent(type)[c] \in {requests[c], Append(requests[c], type)}
<1>1. \A c \in 1 .. conn : Append(requests[c], type) \in Seq(Requests)
  BY DEF TypeOK
<1>2. dead \subseteq 1 .. conn
  BY DEF TypeOK
<1>3. CASE conn \in dead
  BY <1>3, <1>2 DEF Sent, TypeOK
<1>4. CASE conn \notin dead
  BY <1>4, <1>1, <1>2 DEF Sent, TypeOK
<1>5. QED
  BY <1>3, <1>4

\* A signal that is queued once is queued.
LEMMA StateTyped ==
  ASSUME TypeOK, NEW s \in LoginStates
  PROVE  WithState(s) \in Seq(Signals)
BY DEF TypeOK, WithState, Signals

\* The variables keep their types.
LEMMA TypeKept == TypeOK /\ Counted /\ [Next]_vars => TypeOK' /\ Counted'
<1> SUFFICES ASSUME TypeOK, Counted, [Next]_vars PROVE TypeOK' /\ Counted'
  OBVIOUS
<1>0. \A f \in Forms : pending[f] \in 0 .. MaxSubmits /\ pending[f] <= submits
  BY DEF TypeOK, Counted
<1> USE LoginAssumption
<1>1. ASSUME NEW form \in Forms, Submit(form) PROVE TypeOK' /\ Counted'
  <2>1. \A f \in Forms : pending'[f] \in 0 .. MaxSubmits /\ pending'[f] <= submits'
    BY <1>0, <1>1 DEF Submit, TypeOK
  <2>2. pending' \in [Forms -> 0 .. MaxSubmits] /\ submits' \in 0 .. MaxSubmits
    BY <1>1, <2>1 DEF Submit, TypeOK
  <2>3. QED
    BY <1>1, <2>1, <2>2 DEF Submit, qt, wire, TypeOK, Counted
<1>2. CASE Logout
  BY <1>2 DEF Logout, qt, wire, TypeOK, Counted
<1>3. CASE ChangePassword
  BY <1>3 DEF ChangePassword, qt, wire, TypeOK, Counted
<1>4. CASE DeliverSignal
  <2>1. Head(signals) \in Signals /\ Tail(signals) \in Seq(Signals)
    BY <1>4 DEF DeliverSignal, TypeOK
  <2>2. loginState' \in LoginStates /\ isLoggedIn' \in BOOLEAN
    BY <1>4, <2>1 DEF DeliverSignal, TypeOK, Signals, LoginStates
  <2>3. QED
    BY <1>4, <2>1, <2>2 DEF DeliverSignal, ui, wire, TypeOK, Counted
<1>5. CASE Wake
  <2>1. control' \in {[pc |-> "signedIn", request |-> "none"], [pc |-> "signedOut", request |-> "none"]}
    BY <1>5 DEF Wake, Idle
  <2>2. /\ control' \in [pc : {"idle", "signedIn", "signedOut", "dial", "sent"},
                         request : AuthRequests \cup {"none"}]
        /\ control'.request = "none" /\ control'.pc \notin {"dial", "sent"}
    BY <2>1
  <2>3. QED
    BY <1>5, <2>2 DEF Wake, qt, ui, wire, TypeOK, Counted
<1>6. CASE StayIdle
  <2>1. signals' \in Seq(Signals)
    BY <1>6, StateTyped DEF StayIdle, LoginStates
  <2>2. QED
    BY <1>6, <2>1 DEF StayIdle, Idle, qt, ui, wire, TypeOK, Counted
<1>7. CASE Dial
  <2>1. signals' \in Seq(Signals)
    BY <1>7, StateTyped DEF Dial, LoginStates
  <2>2. Chosen \in AuthRequests /\ Chosen # "none"
    BY ChosenTyped DEF AuthRequests, Forms
  <2>3. \A f \in Forms : pending'[f] \in 0 .. MaxSubmits /\ pending'[f] <= submits
    BY <1>0, <1>7 DEF Dial, TypeOK
  <2>4. pending' \in [Forms -> 0 .. MaxSubmits]
    BY <1>7, <2>3 DEF Dial
  <2>5. QED
    BY <1>7, <2>1, <2>2, <2>3, <2>4 DEF Dial, qt, wire, TypeOK, Counted
<1>8. CASE DialFails
  BY <1>8 DEF DialFails, Idle, qt, ui, wire, TypeOK, Counted
<1>9. CASE DialSucceeds
  <2>1. control.request \in AuthRequests /\ conn \in Nat /\ dead \subseteq 1 .. conn
    BY <1>9 DEF DialSucceeds, TypeOK
  <2>2. <<control.request>> \in Seq(Requests) /\ <<>> \in Seq(Answers)
    BY <2>1 DEF Requests
  <2>3. /\ requests' \in [1 .. conn' -> Seq(Requests)]
        /\ answers' \in [1 .. conn' -> Seq(Answers)]
    BY <1>9, <2>1, <2>2 DEF DialSucceeds, TypeOK
  <2>4. \A c \in dead' : requests'[c] = <<>> /\ answers'[c] = <<>>
    <3>1. \A c \in dead : c \in 1 .. conn + 1 /\ c # conn + 1
      BY <2>1
    <3>2. \A c \in dead : requests'[c] = requests[c] /\ answers'[c] = answers[c]
      BY <1>9, <3>1 DEF DialSucceeds
    <3>3. QED
      BY <1>9, <3>2 DEF DialSucceeds, TypeOK
  <2>5. control' \in [pc : {"idle", "signedIn", "signedOut", "dial", "sent"},
                      request : AuthRequests \cup {"none"}]
        /\ (control'.request # "none" <=> control'.pc \in {"dial", "sent"})
    BY <1>9 DEF DialSucceeds, TypeOK
  <2>6. conn' \in Nat /\ dead' \subseteq 1 .. conn'
    BY <1>9, <2>1 DEF DialSucceeds
  <2>7. UNCHANGED <<qt, signals, ui, uuid, inFlight, token, tcp, leaving>>
    BY <1>9 DEF DialSucceeds
  <2>8. QED
    BY <2>3, <2>4, <2>5, <2>6, <2>7 DEF qt, ui, TypeOK, Counted
<1>10. CASE MarkInFlight
  BY <1>10 DEF MarkInFlight, Idle, qt, ui, wire, TypeOK, Counted
<1>11. CASE SignOut
  <2>1. signals' \in Seq(Signals)
    BY <1>11, StateTyped DEF SignOut, LoginStates, Signals
  <2>2. "LOGOUT" \in Requests
    BY DEF Requests
  <2>3. requests' \in [1 .. conn -> Seq(Requests)] /\ \A c \in dead : requests'[c] = requests[c]
    BY <1>11, <2>2, SentTyped DEF SignOut
  <2>4. QED
    BY <1>11, <2>1, <2>3 DEF SignOut, Idle, qt, TypeOK, Counted
<1>12. CASE StaySignedIn
  <2>1. signals' \in Seq(Signals)
    BY <1>12, StateTyped DEF StaySignedIn, LoginStates
  <2>2. "CHANGE_PASSWORD" \in Requests
    BY DEF Requests
  <2>3. requests' \in [1 .. conn -> Seq(Requests)] /\ \A c \in dead : requests'[c] = requests[c]
    <3>1. requests' = requests \/ requests' = Sent("CHANGE_PASSWORD")
      BY <1>12 DEF StaySignedIn
    <3>2. requests \in [1 .. conn -> Seq(Requests)]
      BY DEF TypeOK
    <3>3. QED
      BY <2>2, <3>1, <3>2, SentTyped
  <2>4. pendingChange' \in 0 .. MaxChanges /\ pendingChange' <= changes
    BY <1>12 DEF StaySignedIn, TypeOK, Counted
  <2>5. QED
    BY <1>12, <2>1, <2>3, <2>4 DEF StaySignedIn, Idle, qt, TypeOK, Counted
<1>13. ASSUME NEW type, Receive(type)
       PROVE  /\ answers' \in [1 .. conn -> Seq(Answers)]
              /\ \A c \in dead : answers'[c] = <<>>
              /\ UNCHANGED <<conn, dead, requests>>
  <2>1. PICK c \in 1 .. conn : answers[c] # <<>> /\ answers' = [answers EXCEPT ![c] = Tail(@)]
    BY <1>13 DEF Receive
  <2>2. Tail(answers[c]) \in Seq(Answers) /\ c \notin dead
    BY <2>1 DEF TypeOK
  <2>3. QED
    BY <1>13, <2>1, <2>2 DEF Receive, TypeOK
<1>14. CASE ReceiveSuccess
  BY <1>13, <1>14 DEF ReceiveSuccess, AuthAnswers, qt, ui, TypeOK, Counted
<1>15. CASE ConfirmLogin
  BY <1>15 DEF ConfirmLogin, Signals, qt, ui, wire, TypeOK, Counted
<1>16. CASE ReceiveFailure
  <2>1. signals' \in Seq(Signals)
    BY <1>16 DEF ReceiveFailure, Signals, TypeOK
  <2>2. Receive("AUTH_FAILED")
    BY <1>16 DEF ReceiveFailure
  <2>3. QED
    BY <1>13, <1>16, <2>1, <2>2 DEF ReceiveFailure, AuthAnswers, qt, ui, TypeOK, Counted
<1>17. CASE ClearInFlight
  BY <1>17 DEF ClearInFlight, qt, ui, wire, TypeOK, Counted
<1>18. CASE ReceivePasswordChanged
  BY <1>13, <1>18 DEF ReceivePasswordChanged, qt, ui, TypeOK, Counted
<1>19. CASE ServerAnswers
  <2>0. PICK c \in 1 .. conn :
          /\ requests[c] # <<>>
          /\ \E reply \in Replies(Head(requests[c])) :
                answers' = IF reply = "none" THEN answers
                           ELSE [answers EXCEPT ![c] = Append(@, reply)]
          /\ requests' = [requests EXCEPT ![c] = Tail(@)]
    BY <1>19 DEF ServerAnswers
  <2>1. PICK reply \in Replies(Head(requests[c])) :
          /\ requests[c] # <<>>
          /\ answers' = IF reply = "none" THEN answers
                        ELSE [answers EXCEPT ![c] = Append(@, reply)]
          /\ requests' = [requests EXCEPT ![c] = Tail(@)]
    BY <2>0
  <2>2. c \notin dead /\ Tail(requests[c]) \in Seq(Requests)
    BY <2>1 DEF TypeOK
  <2>3. reply # "none" => reply \in Answers
    BY <2>1 DEF Replies, Answers, AuthAnswers
  <2>4. answers' \in [1 .. conn -> Seq(Answers)] /\ \A d \in dead : answers'[d] = answers[d]
    BY <2>1, <2>2, <2>3 DEF TypeOK
  <2>5. requests' \in [1 .. conn -> Seq(Requests)] /\ \A d \in dead : requests'[d] = requests[d]
    BY <2>1, <2>2 DEF TypeOK
  <2>6. QED
    BY <1>19, <2>4, <2>5 DEF ServerAnswers, qt, ui, TypeOK, Counted
<1>20. ASSUME NEW c \in 1 .. conn, ConnectionCloses(c) PROVE TypeOK' /\ Counted'
  <2>1. requests' \in [1 .. conn -> Seq(Requests)] /\ answers' \in [1 .. conn -> Seq(Answers)]
    BY <1>20 DEF ConnectionCloses, TypeOK
  <2>2. dead' \subseteq 1 .. conn /\ \A d \in dead' : requests'[d] = <<>> /\ answers'[d] = <<>>
    BY <1>20 DEF ConnectionCloses, TypeOK
  <2>3. QED
    BY <1>20, <2>1, <2>2 DEF ConnectionCloses, qt, ui, TypeOK, Counted
<1>21. CASE UNCHANGED vars
  BY <1>21 DEF vars, qt, ui, wire, TypeOK, Counted
<1>22. QED
  BY <1>1, <1>2, <1>3, <1>4, <1>5, <1>6, <1>7, <1>8, <1>9, <1>10, <1>11, <1>12, <1>14, <1>15,
     <1>16, <1>17, <1>18, <1>19, <1>20, <1>21
  DEF Next, UserNext, QtNext, ControlNext, TcpNext

-----------------------------------------------------------------------------
(* What each step does to the authentications on the wires.                *)

\* What is sent behind the authentication changes nothing about it.
LEMMA SentBehind ==
  ASSUME TypeOK, AuthComesFirst, NEW type \in Requests \ AuthRequests,
         conn' = conn, answers' = answers, requests' = Sent(type)
  PROVE  /\ AuthComesFirst'
         /\ \A c \in 1 .. conn : Pending(c)' => Pending(c)
         /\ type # "CHANGE_PASSWORD" /\ NoChangeOnWire => NoChangeOnWire'
<1> SUFFICES ASSUME NEW c \in 1 .. conn
             PROVE  /\ \A i \in 1 .. Len(requests'[c]) : requests'[c][i] \in AuthRequests => i = 1
                    /\ Asking(c)' => Asking(c)
                    /\ type # "CHANGE_PASSWORD" /\ NoChangeOnWire =>
                         \A i \in 1 .. Len(requests'[c]) : requests'[c][i] # "CHANGE_PASSWORD"
  BY DEF AuthComesFirst, Pending, Answered, NoChangeOnWire
<1>1. requests[c] \in Seq(Requests)
  BY DEF TypeOK
<1>2. requests'[c] \in {requests[c], Append(requests[c], type)}
  BY SentTyped
<1>3. CASE requests'[c] = requests[c]
  BY <1>3 DEF AuthComesFirst, Asking, NoChangeOnWire
<1>4. CASE requests'[c] = Append(requests[c], type)
  <2> DEFINE q == requests[c]
  <2>1. /\ Len(q) \in Nat /\ Len(requests'[c]) = Len(q) + 1
        /\ \A i \in 1 .. Len(q) : requests'[c][i] = q[i]
        /\ requests'[c][Len(q) + 1] = type
        /\ q # <<>> => Len(q) >= 1
    BY <1>1, <1>4, Added
  <2>2. \A i \in 1 .. Len(requests'[c]) : i \in 1 .. Len(q) \/ requests'[c][i] = type
    BY <2>1
  <2>3. \A i \in 1 .. Len(requests'[c]) : requests'[c][i] \in AuthRequests => i = 1
    BY <2>1, <2>2 DEF AuthComesFirst
  <2>4. Asking(c)' => Asking(c)
    <3>1. CASE q = <<>>
      BY <2>1, <3>1 DEF Asking
    <3>2. CASE q # <<>>
      BY <2>1, <3>2 DEF Asking
    <3>3. QED
      BY <3>1, <3>2
  <2>5. ASSUME type # "CHANGE_PASSWORD", NoChangeOnWire
        PROVE  \A i \in 1 .. Len(requests'[c]) : requests'[c][i] # "CHANGE_PASSWORD"
    BY <2>1, <2>2, <2>5 DEF NoChangeOnWire
  <2>6. QED
    BY <2>3, <2>4, <2>5
<1>5. QED
  BY <1>2, <1>3, <1>4

\* A reply that is received was the one under way.
LEMMA ReceivedAnswer ==
  ASSUME TypeOK, AuthComesFirst, NEW type, Receive(type)
  PROVE  /\ AuthComesFirst'
         /\ \A c \in 1 .. conn : Pending(c)' => Pending(c)
         /\ NoChangeOnWire => NoChangeOnWire' /\ type # "PASSWORD_CHANGED"
         /\ type \in AuthAnswers =>
              \E c \in 1 .. conn : Pending(c) /\ ~Pending(c)'
<1>1. PICK c \in 1 .. conn : /\ answers[c] # <<>> /\ Head(answers[c]) = type
                             /\ answers' = [answers EXCEPT ![c] = Tail(@)]
  BY DEF Receive
<1>2. UNCHANGED <<conn, requests>>
  BY DEF Receive
<1> DEFINE q == answers[c]
<1>3. q \in Seq(Answers) /\ q # <<>>
  BY <1>1 DEF TypeOK
<1>4. answers'[c] = Tail(q) /\ \A d \in 1 .. conn : d # c => answers'[d] = answers[d]
  BY <1>1 DEF TypeOK
<1>5. /\ Head(q) = q[1] /\ Len(q) \in Nat /\ Len(q) >= 1
      /\ Len(Tail(q)) = Len(q) - 1
      /\ \A i \in 1 .. Len(Tail(q)) : Tail(q)[i] = q[i + 1]
      /\ Tail(q) # <<>> => Len(Tail(q)) >= 1
  BY <1>3, Taken
<1> HIDE DEF q
<1>6. \A i \in 1 .. Len(Tail(q)) : Tail(q)[i] \notin AuthAnswers
  <2> SUFFICES ASSUME NEW i \in 1 .. Len(Tail(q)), q[i + 1] \in AuthAnswers PROVE FALSE
    BY <1>5
  <2>1. i + 1 \in 1 .. Len(q) /\ i + 1 # 1
    BY <1>5
  <2>2. \A j \in 1 .. Len(q) : q[j] \in AuthAnswers => j = 1
    BY DEF q, AuthComesFirst
  <2>3. QED
    BY <2>1, <2>2
<1>7. ~Answered(c)'
  BY <1>4, <1>5, <1>6 DEF Answered
<1>8. Asking(c)' <=> Asking(c)
  BY <1>2 DEF Asking
<1>9. ~Asking(c)
  BY <1>1 DEF AuthComesFirst
<1>10. \A d \in 1 .. conn : d # c => (Pending(d)' <=> Pending(d))
  BY <1>2, <1>4 DEF Pending, Asking, Answered
<1>11. ~Pending(c)'
  BY <1>7, <1>8, <1>9 DEF Pending
<1>12. AuthComesFirst'
  <2> SUFFICES ASSUME NEW d \in 1 .. conn
               PROVE  /\ \A i \in 1 .. Len(requests[d]) : requests[d][i] \in AuthRequests => i = 1
                      /\ \A i \in 1 .. Len(answers'[d]) : answers'[d][i] \in AuthAnswers => i = 1
                      /\ Asking(d) => answers'[d] = <<>>
    BY <1>2 DEF AuthComesFirst, Asking
  <2>1. CASE d = c
    BY <1>4, <1>6, <1>9, <2>1 DEF AuthComesFirst
  <2>2. CASE d # c
    BY <1>4, <2>2 DEF AuthComesFirst
  <2>3. QED
    BY <2>1, <2>2
<1>13. type \in AuthAnswers => Pending(c)
  BY <1>1, <1>3, <1>5 DEF Pending, Answered, q
<1>14. ASSUME NoChangeOnWire PROVE NoChangeOnWire' /\ type # "PASSWORD_CHANGED"
  <2>1. \A i \in 1 .. Len(q) : q[i] # "PASSWORD_CHANGED"
    BY <1>14 DEF NoChangeOnWire, q
  <2>2. type # "PASSWORD_CHANGED"
    BY <1>1, <1>5, <2>1 DEF q
  <2>3. \A i \in 1 .. Len(Tail(q)) : Tail(q)[i] # "PASSWORD_CHANGED"
    BY <1>5, <2>1
  <2>4. \A d \in 1 .. conn, i \in Nat : i \in 1 .. Len(answers'[d]) => answers'[d][i] # "PASSWORD_CHANGED"
    BY <1>4, <1>14, <2>3 DEF NoChangeOnWire
  <2>5. QED
    BY <1>2, <1>14, <2>2, <2>4 DEF NoChangeOnWire
<1>15. QED
  BY <1>10, <1>11, <1>12, <1>13, <1>14

\* The server answers an authentication on the connection it came on.
LEMMA ServerAnswersInPlace ==
  ASSUME TypeOK, AuthComesFirst, ServerAnswers
  PROVE  /\ AuthComesFirst'
         /\ \A c \in 1 .. conn : Pending(c)' => Pending(c)
         /\ NoChangeOnWire => NoChangeOnWire'
<1>1. PICK c \in 1 .. conn :
        /\ requests[c] # <<>>
        /\ \E reply \in Replies(Head(requests[c])) :
             answers' = IF reply = "none" THEN answers
                        ELSE [answers EXCEPT ![c] = Append(@, reply)]
        /\ requests' = [requests EXCEPT ![c] = Tail(@)]
  BY DEF ServerAnswers
<1>2. PICK reply \in Replies(Head(requests[c])) :
        answers' = IF reply = "none" THEN answers
                   ELSE [answers EXCEPT ![c] = Append(@, reply)]
  BY <1>1
<1> DEFINE q == requests[c]
           a == answers[c]
           b == answers'[c]
<1>3. q \in Seq(Requests) /\ q # <<>> /\ a \in Seq(Answers) /\ conn' = conn
  BY <1>1 DEF TypeOK, ServerAnswers
<1>4. /\ requests'[c] = Tail(q)
      /\ \A d \in 1 .. conn : d # c => requests'[d] = requests[d] /\ answers'[d] = answers[d]
  BY <1>1, <1>2 DEF TypeOK
<1>5. /\ Head(q) = q[1] /\ Len(q) \in Nat /\ Len(q) >= 1
      /\ Len(Tail(q)) = Len(q) - 1
      /\ \A i \in 1 .. Len(Tail(q)) : Tail(q)[i] = q[i + 1]
      /\ Tail(q) # <<>> => Len(Tail(q)) >= 1
  BY <1>3, Taken
<1>6. b = IF reply = "none" THEN a ELSE Append(a, reply)
  BY <1>2 DEF TypeOK
<1>7. reply # "none" => reply \in Answers
  BY <1>2 DEF Replies, Answers, AuthAnswers
<1>8. Asking(c) => a = <<>>
  BY DEF AuthComesFirst
<1>9. /\ \A i \in 1 .. Len(q) : q[i] \in AuthRequests => i = 1
      /\ \A i \in 1 .. Len(a) : a[i] \in AuthAnswers => i = 1
  BY DEF AuthComesFirst
<1>10. /\ Asking(c) <=> q[1] \in AuthRequests
       /\ Answered(c) <=> a # <<>> /\ a[1] \in AuthAnswers
       /\ Asking(c)' <=> Tail(q) # <<>> /\ Tail(q)[1] \in AuthRequests
       /\ Answered(c)' <=> b # <<>> /\ b[1] \in AuthAnswers
  BY <1>3, <1>4 DEF Asking, Answered
<1> HIDE DEF q, a, b
<1>11. \A i \in 1 .. Len(Tail(q)) : Tail(q)[i] \notin AuthRequests
  <2> SUFFICES ASSUME NEW i \in 1 .. Len(Tail(q)), q[i + 1] \in AuthRequests PROVE FALSE
    BY <1>5
  <2>1. i + 1 \in 1 .. Len(q) /\ i + 1 # 1
    BY <1>5
  <2>2. QED
    BY <1>9, <2>1
<1>12. ~Asking(c)'
  BY <1>5, <1>10, <1>11
<1>13. /\ \A i \in 1 .. Len(b) : b[i] \in AuthAnswers => i = 1
       /\ Answered(c)' => Pending(c)
  <2>1. CASE reply = "none"
    BY <1>6, <1>9, <1>10, <2>1 DEF Pending
  <2>2. CASE reply # "none" /\ Asking(c)
    <3>1. b = << reply >> /\ Len(b) = 1
      BY <1>6, <1>8, <2>2
    <3>2. QED
      BY <2>2, <3>1 DEF Pending
  <2>3. CASE reply # "none" /\ ~Asking(c)
    <3>1. reply = "PASSWORD_CHANGED"
      BY <1>2, <1>5, <1>10, <2>3 DEF Replies, q
    <3>2. reply \notin AuthAnswers
      BY <3>1 DEF AuthAnswers
    <3>3. /\ Len(a) \in Nat /\ Len(b) = Len(a) + 1
          /\ \A i \in 1 .. Len(a) : b[i] = a[i]
          /\ b[Len(a) + 1] = reply
          /\ a # <<>> => Len(a) >= 1
      BY <1>3, <1>6, <1>7, <2>3, Added
    <3>4. \A i \in 1 .. Len(b) : i \in 1 .. Len(a) \/ b[i] = reply
      BY <3>3
    <3>5. a = <<>> => Len(a) = 0
      OBVIOUS
    <3>6. b[1] \in AuthAnswers => a # <<>> /\ a[1] = b[1]
      BY <3>2, <3>3, <3>5
    <3>7. QED
      BY <1>9, <1>10, <3>2, <3>3, <3>4, <3>6 DEF Pending
  <2>4. QED
    BY <2>1, <2>2, <2>3
<1>14. \A d \in 1 .. conn : d # c => (Asking(d)' <=> Asking(d)) /\ (Answered(d)' <=> Answered(d))
  BY <1>4 DEF Asking, Answered
<1>15. AuthComesFirst'
  <2> SUFFICES ASSUME NEW d \in 1 .. conn
               PROVE  /\ \A i \in 1 .. Len(requests'[d]) : requests'[d][i] \in AuthRequests => i = 1
                      /\ \A i \in 1 .. Len(answers'[d]) : answers'[d][i] \in AuthAnswers => i = 1
                      /\ Asking(d)' => answers'[d] = <<>>
    BY <1>3 DEF AuthComesFirst
  <2>1. CASE d = c
    BY <1>4, <1>11, <1>12, <1>13, <2>1 DEF b
  <2>2. CASE d # c
    BY <1>4, <1>14, <2>2 DEF AuthComesFirst
  <2>3. QED
    BY <2>1, <2>2
<1>16. ASSUME NoChangeOnWire PROVE NoChangeOnWire'
  <2>1. /\ \A i \in 1 .. Len(q) : q[i] # "CHANGE_PASSWORD"
        /\ \A i \in 1 .. Len(a) : a[i] # "PASSWORD_CHANGED"
    BY <1>16 DEF NoChangeOnWire, q, a
  <2>2. \A i \in 1 .. Len(Tail(q)) : Tail(q)[i] # "CHANGE_PASSWORD"
    BY <1>5, <2>1
  <2>3. reply # "PASSWORD_CHANGED"
    BY <1>2, <1>5, <2>1 DEF Replies, AuthRequests, AuthAnswers, Forms, q
  <2>4. \A i \in 1 .. Len(b) : b[i] # "PASSWORD_CHANGED"
    <3>1. CASE reply = "none"
      BY <1>6, <2>1, <3>1
    <3>2. CASE reply # "none"
      <4>1. /\ Len(a) \in Nat /\ Len(b) = Len(a) + 1
            /\ \A i \in 1 .. Len(a) : b[i] = a[i]
            /\ b[Len(a) + 1] = reply
        BY <1>3, <1>6, <1>7, <3>2, Added
      <4>2. \A i \in 1 .. Len(b) : i \in 1 .. Len(a) \/ b[i] = reply
        BY <4>1
      <4>3. QED
        BY <2>1, <2>3, <4>1, <4>2
    <3>3. QED
      BY <3>1, <3>2
  <2>5. \A d \in 1 .. conn :
          /\ \A i \in 1 .. Len(requests'[d]) : requests'[d][i] # "CHANGE_PASSWORD"
          /\ \A i \in 1 .. Len(answers'[d]) : answers'[d][i] # "PASSWORD_CHANGED"
    <3> TAKE d \in 1 .. conn
    <3>1. CASE d = c
      BY <1>4, <2>2, <2>4, <3>1 DEF b
    <3>2. CASE d # c
      BY <1>4, <1>16, <3>2 DEF NoChangeOnWire
    <3>3. QED
      BY <3>1, <3>2
  <2>6. QED
    BY <1>3, <2>5 DEF NoChangeOnWire
<1>17. QED
  BY <1>12, <1>13, <1>14, <1>15, <1>16 DEF Pending

\* A connection that closes takes what is on it along.
LEMMA ClosedIsEmpty ==
  ASSUME TypeOK, AuthComesFirst, NEW c \in 1 .. conn, ConnectionCloses(c)
  PROVE  /\ AuthComesFirst'
         /\ \A d \in 1 .. conn : Pending(d)' => Pending(d)
         /\ NoChangeOnWire => NoChangeOnWire'
<1>1. /\ conn' = conn /\ requests'[c] = <<>> /\ answers'[c] = <<>>
      /\ \A d \in 1 .. conn : d # c => requests'[d] = requests[d] /\ answers'[d] = answers[d]
  BY DEF ConnectionCloses, TypeOK
<1>2. Len(<<>>) = 0
  OBVIOUS
<1>3. ~Pending(c)' /\ ~Asking(c)'
  BY <1>1 DEF Pending, Asking, Answered
<1>4. \A d \in 1 .. conn : d # c => (Pending(d)' <=> Pending(d)) /\ (Asking(d)' <=> Asking(d))
  BY <1>1 DEF Pending, Asking, Answered
<1>5. AuthComesFirst'
  BY <1>1, <1>2, <1>3, <1>4 DEF AuthComesFirst
<1>6. NoChangeOnWire => NoChangeOnWire'
  BY <1>1, <1>2 DEF NoChangeOnWire
<1>7. QED
  BY <1>3, <1>4, <1>5, <1>6

\* A dial opens a connection with one authentication on it.
LEMMA DialledAsks ==
  ASSUME TypeOK, AuthComesFirst, DialSucceeds
  PROVE  /\ AuthComesFirst'
         /\ conn' = conn + 1
         /\ \A c \in 1 .. conn : Pending(c)' => Pending(c)
         /\ NoChangeOnWire => NoChangeOnWire'
<1>1. /\ conn \in Nat /\ conn' = conn + 1
      /\ requests'[conn + 1] = <<control.request>> /\ answers'[conn + 1] = <<>>
      /\ control.request \in AuthRequests
  BY DEF DialSucceeds, TypeOK
<1>2. \A c \in 1 .. conn : requests'[c] = requests[c] /\ answers'[c] = answers[c]
  BY <1>1 DEF DialSucceeds
<1>3. \A c \in 1 .. conn' : c \in 1 .. conn \/ c = conn + 1
  BY <1>1
<1>4. Len(<<>>) = 0 /\ Len(<<control.request>>) = 1 /\ <<control.request>>[1] = control.request
  OBVIOUS
<1>5. control.request # "CHANGE_PASSWORD"
  BY <1>1 DEF AuthRequests, Forms
<1>6. \A c \in 1 .. conn : (Pending(c)' <=> Pending(c)) /\ (Asking(c)' <=> Asking(c))
  BY <1>2 DEF Pending, Asking, Answered
<1>7. AuthComesFirst'
  <2> SUFFICES ASSUME NEW c \in 1 .. conn'
               PROVE  /\ \A i \in 1 .. Len(requests'[c]) : requests'[c][i] \in AuthRequests => i = 1
                      /\ \A i \in 1 .. Len(answers'[c]) : answers'[c][i] \in AuthAnswers => i = 1
                      /\ Asking(c)' => answers'[c] = <<>>
    BY DEF AuthComesFirst
  <2>1. CASE c \in 1 .. conn
    BY <1>2, <1>6, <2>1 DEF AuthComesFirst
  <2>2. CASE c = conn + 1
    BY <1>1, <1>4, <2>2
  <2>3. QED
    BY <1>3, <2>1, <2>2
<1>8. ASSUME NoChangeOnWire PROVE NoChangeOnWire'
  <2> SUFFICES ASSUME NEW c \in 1 .. conn'
               PROVE  /\ \A i \in 1 .. Len(requests'[c]) : requests'[c][i] # "CHANGE_PASSWORD"
                      /\ \A i \in 1 .. Len(answers'[c]) : answers'[c][i] # "PASSWORD_CHANGED"
    BY DEF NoChangeOnWire
  <2>1. CASE c \in 1 .. conn
    BY <1>2, <1>8, <2>1 DEF NoChangeOnWire
  <2>2. CASE c = conn + 1
    BY <1>1, <1>4, <1>5, <2>2
  <2>3. QED
    BY <1>3, <2>1, <2>2
<1>9. QED
  BY <1>1, <1>6, <1>7, <1>8

\* Nothing happens on the wires.
LEMMA WiresKept ==
  ASSUME AuthComesFirst, UNCHANGED <<conn, requests, answers>>
  PROVE  /\ AuthComesFirst'
         /\ \A c \in 1 .. conn : Pending(c)' <=> Pending(c)
         /\ NoChangeOnWire => NoChangeOnWire'
BY DEF AuthComesFirst, Pending, Asking, Answered, NoChangeOnWire

-----------------------------------------------------------------------------
(* The threads keep out of one another's way.                              *)

\* No authentication is under way that was not.
Fewer ==
    /\ conn' = conn
    /\ \A c \in 1 .. conn : Pending(c)' => Pending(c)
    /\ tcp' = "AUTH_FAILED" => tcp = "AUTH_FAILED"

\* A step that starts none has only to keep the flag and the client signed out.
LEMMA FewerKeeps ==
  ASSUME AtMostOne, Guarded, Fewer, Guard => Guard'
  PROVE  AtMostOne' /\ Guarded'
BY DEF AtMostOne, Guarded, Fewer

\* Signed in, the client has none under way.
LEMMA SignedInIsFree ==
  ASSUME Guarded, uuid
  PROVE  tcp # "AUTH_FAILED" /\ \A c \in 1 .. conn : ~Pending(c)
BY DEF Guarded, Guard

\* Every step keeps the invariant.
LEMMA LoginStep == LoginInv /\ [Next]_vars => LoginInv'
<1> SUFFICES ASSUME LoginInv, [Next]_vars
             PROVE  /\ AuthComesFirst' /\ AtMostOne' /\ Guarded' /\ Sampled'
                    /\ SignedInHasToken' /\ NothingChanges' /\ LeftForGood'
  BY TypeKept DEF LoginInv
<1> DEFINE Others == /\ AuthComesFirst' /\ AtMostOne' /\ Guarded' /\ Sampled'
                     /\ SignedInHasToken' /\ NothingChanges' /\ LeftForGood'
<1>0. /\ TypeOK /\ Counted /\ AuthComesFirst /\ AtMostOne /\ Guarded /\ Sampled
      /\ SignedInHasToken /\ NothingChanges /\ LeftForGood
  BY DEF LoginInv
<1>1. ASSUME NEW form \in Forms, Submit(form) PROVE Others
  <2>1. UNCHANGED <<conn, requests, answers, tcp, uuid, inFlight, control, token, changes,
                    pendingChange>> /\ leaving' = FALSE
    BY <1>1 DEF Submit, wire
  <2>2. AuthComesFirst' /\ (\A c \in 1 .. conn : Pending(c)' <=> Pending(c))
        /\ (NoChangeOnWire => NoChangeOnWire')
    BY <1>0, <2>1, WiresKept
  <2>3. AtMostOne' /\ Guarded'
    BY <1>0, <2>1, <2>2, FewerKeeps DEF Fewer, Guard
  <2>4. QED
    BY <1>0, <2>1, <2>2, <2>3 DEF Sampled, SignedInHasToken, NothingChanges, LeftForGood
<1>2. CASE Logout
  <2>1. UNCHANGED <<conn, requests, answers, tcp, uuid, inFlight, control, token, changes,
                    pendingChange, leaving>>
    BY <1>2 DEF Logout, wire
  <2>2. AuthComesFirst' /\ (\A c \in 1 .. conn : Pending(c)' <=> Pending(c))
        /\ (NoChangeOnWire => NoChangeOnWire')
    BY <1>0, <2>1, WiresKept
  <2>3. AtMostOne' /\ Guarded'
    BY <1>0, <2>1, <2>2, FewerKeeps DEF Fewer, Guard
  <2>4. QED
    BY <1>0, <2>1, <2>2, <2>3 DEF Sampled, SignedInHasToken, NothingChanges, LeftForGood
<1>3. CASE ChangePassword
  <2>1. UNCHANGED <<conn, requests, answers, tcp, uuid, inFlight, control, token, leaving>>
        /\ changes' # 0
    BY <1>0, <1>3 DEF ChangePassword, wire, TypeOK
  <2>2. AuthComesFirst' /\ (\A c \in 1 .. conn : Pending(c)' <=> Pending(c))
    BY <1>0, <2>1, WiresKept
  <2>3. AtMostOne' /\ Guarded'
    BY <1>0, <2>1, <2>2, FewerKeeps DEF Fewer, Guard
  <2>4. QED
    BY <1>0, <2>1, <2>2, <2>3 DEF Sampled, SignedInHasToken, NothingChanges, LeftForGood
<1>4. CASE DeliverSignal \/ UNCHANGED vars
  <2>1. UNCHANGED <<conn, requests, answers, tcp, uuid, inFlight, control, token, changes,
                    pendingChange, leaving>>
    BY <1>4 DEF DeliverSignal, wire, ui, vars
  <2>2. AuthComesFirst' /\ (\A c \in 1 .. conn : Pending(c)' <=> Pending(c))
        /\ (NoChangeOnWire => NoChangeOnWire')
    BY <1>0, <2>1, WiresKept
  <2>3. AtMostOne' /\ Guarded'
    BY <1>0, <2>1, <2>2, FewerKeeps DEF Fewer, Guard
  <2>4. QED
    BY <1>0, <2>1, <2>2, <2>3 DEF Sampled, SignedInHasToken, NothingChanges, LeftForGood
<1>5. CASE Wake
  <2>1. UNCHANGED <<conn, requests, answers, tcp, uuid, inFlight, token, changes,
                    pendingChange, leaving>>
        /\ control.pc = "idle" /\ control'.pc = (IF uuid THEN "signedIn" ELSE "signedOut")
    BY <1>0, <1>5 DEF Wake, Idle, wire, ui, TypeOK
  <2>2. AuthComesFirst' /\ (\A c \in 1 .. conn : Pending(c)' <=> Pending(c))
        /\ (NoChangeOnWire => NoChangeOnWire')
    BY <1>0, <2>1, WiresKept
  <2>3. AtMostOne' /\ Guarded'
    BY <1>0, <2>1, <2>2, FewerKeeps DEF Fewer, Guard
  <2>4. QED
    BY <1>0, <2>1, <2>2, <2>3 DEF Sampled, SignedInHasToken, NothingChanges, LeftForGood
<1>6. CASE StayIdle
  <2>1. UNCHANGED <<conn, requests, answers, tcp, uuid, inFlight, token, changes,
                    pendingChange, leaving>>
        /\ control.pc = "signedOut" /\ control'.pc = "idle"
    BY <1>0, <1>6 DEF StayIdle, Idle, wire, ui
  <2>2. AuthComesFirst' /\ (\A c \in 1 .. conn : Pending(c)' <=> Pending(c))
        /\ (NoChangeOnWire => NoChangeOnWire')
    BY <1>0, <2>1, WiresKept
  <2>3. AtMostOne' /\ Guarded'
    BY <1>0, <2>1, <2>2, FewerKeeps DEF Fewer, Guard
  <2>4. QED
    BY <1>0, <2>1, <2>2, <2>3 DEF Sampled, SignedInHasToken, NothingChanges, LeftForGood
<1>7. CASE Dial
  <2>1. UNCHANGED <<conn, requests, answers, tcp, uuid, inFlight, token, changes,
                    pendingChange, leaving>>
        /\ control.pc = "signedOut" /\ ~inFlight /\ control'.pc = "dial"
    BY <1>0, <1>7 DEF Dial, wire
  <2>2. AuthComesFirst' /\ (\A c \in 1 .. conn : Pending(c)' <=> Pending(c))
        /\ (NoChangeOnWire => NoChangeOnWire')
    BY <1>0, <2>1, WiresKept
  <2>3. AtMostOne' /\ Guarded'
    BY <1>0, <2>1, <2>2, FewerKeeps DEF Fewer, Guard
  <2>4. ~uuid /\ ~Guard
    BY <1>0, <2>1 DEF Sampled, Guard
  <2>5. tcp # "AUTH_FAILED" /\ \A c \in 1 .. conn : ~Pending(c)
    BY <1>0, <2>4 DEF Guarded
  <2>6. QED
    BY <1>0, <2>1, <2>2, <2>3, <2>4, <2>5
    DEF Sampled, SignedInHasToken, NothingChanges, LeftForGood
<1>8. CASE DialFails
  <2>1. UNCHANGED <<conn, requests, answers, tcp, uuid, inFlight, token, changes,
                    pendingChange, leaving>>
        /\ control.pc = "dial" /\ control'.pc = "idle"
    BY <1>0, <1>8 DEF DialFails, Idle, wire, ui
  <2>2. AuthComesFirst' /\ (\A c \in 1 .. conn : Pending(c)' <=> Pending(c))
        /\ (NoChangeOnWire => NoChangeOnWire')
    BY <1>0, <2>1, WiresKept
  <2>3. AtMostOne' /\ Guarded'
    BY <1>0, <2>1, <2>2, FewerKeeps DEF Fewer, Guard
  <2>4. QED
    BY <1>0, <2>1, <2>2, <2>3 DEF Sampled, SignedInHasToken, NothingChanges, LeftForGood
<1>9. CASE DialSucceeds
  <2>1. UNCHANGED <<tcp, uuid, inFlight, token, changes, pendingChange, leaving>>
        /\ control.pc = "dial" /\ control'.pc = "sent"
    BY <1>0, <1>9 DEF DialSucceeds, ui, TypeOK
  <2>2. AuthComesFirst' /\ conn' = conn + 1 /\ (\A c \in 1 .. conn : Pending(c)' => Pending(c))
        /\ (NoChangeOnWire => NoChangeOnWire')
    BY <1>0, <1>9, DialledAsks
  <2>3. ~uuid /\ tcp # "AUTH_FAILED" /\ \A c \in 1 .. conn : ~Pending(c)
    BY <1>0, <2>1 DEF Sampled
  <2>4. \A c \in 1 .. conn' : Pending(c)' => c = conn + 1
    <3>1. \A c \in 1 .. conn' : c \in 1 .. conn \/ c = conn + 1
      BY <1>0, <2>2 DEF TypeOK
    <3>2. QED
      BY <2>2, <2>3, <3>1
  <2>5. AtMostOne' /\ Guarded'
    BY <2>1, <2>3, <2>4 DEF AtMostOne, Guarded, Guard
  <2>6. QED
    BY <1>0, <2>1, <2>2, <2>5 DEF Sampled, SignedInHasToken, NothingChanges, LeftForGood
<1>10. CASE MarkInFlight
  <2>1. UNCHANGED <<conn, requests, answers, tcp, uuid, token, changes, pendingChange, leaving>>
        /\ inFlight' /\ control'.pc = "idle"
    BY <1>0, <1>10 DEF MarkInFlight, Idle, wire, ui
  <2>2. AuthComesFirst' /\ (\A c \in 1 .. conn : Pending(c)' <=> Pending(c))
        /\ (NoChangeOnWire => NoChangeOnWire')
    BY <1>0, <2>1, WiresKept
  <2>3. AtMostOne' /\ Guarded'
    BY <1>0, <2>1, <2>2, FewerKeeps DEF Fewer, Guard
  <2>4. QED
    BY <1>0, <2>1, <2>2, <2>3 DEF Sampled, SignedInHasToken, NothingChanges, LeftForGood
<1>11. CASE SignOut
  <2>1. UNCHANGED <<conn, answers, tcp, changes, pendingChange>>
        /\ ~uuid' /\ ~token' /\ control.pc = "signedIn" /\ control'.pc = "idle"
    BY <1>0, <1>11 DEF SignOut, Idle
  <2>2. uuid /\ ~Guard
    BY <1>0, <2>1 DEF Sampled, Guard
  <2>3. AuthComesFirst' /\ (\A c \in 1 .. conn : Pending(c)' => Pending(c))
        /\ (NoChangeOnWire => NoChangeOnWire')
    <3>1. "LOGOUT" \in Requests \ AuthRequests /\ "LOGOUT" # "CHANGE_PASSWORD"
      BY DEF Requests, AuthRequests, Forms
    <3>2. requests' = Sent("LOGOUT")
      BY <1>11 DEF SignOut
    <3>3. QED
      BY <1>0, <2>1, <3>1, <3>2, SentBehind
  <2>4. AtMostOne' /\ Guarded'
    BY <1>0, <2>1, <2>2, <2>3, FewerKeeps DEF Fewer
  <2>5. QED
    BY <1>0, <2>1, <2>3, <2>4 DEF Sampled, SignedInHasToken, NothingChanges, LeftForGood
<1>12. CASE StaySignedIn
  <2>1. UNCHANGED <<conn, answers, tcp, changes, uuid, token, leaving>>
        /\ control.pc = "signedIn" /\ control'.pc = "idle"
    BY <1>0, <1>12 DEF StaySignedIn, Idle
  <2>2. uuid /\ ~Guard
    BY <1>0, <2>1 DEF Sampled, Guard
  <2>3. AuthComesFirst' /\ (\A c \in 1 .. conn : Pending(c)' => Pending(c))
    <3>1. "CHANGE_PASSWORD" \in Requests \ AuthRequests
      BY DEF Requests, AuthRequests, Forms
    <3>2. CASE requests' = Sent("CHANGE_PASSWORD")
      BY <1>0, <2>1, <3>1, <3>2, SentBehind
    <3>3. CASE requests' = requests
      BY <1>0, <2>1, <3>3, WiresKept
    <3>4. QED
      BY <1>12, <3>2, <3>3 DEF StaySignedIn
  <2>4. AtMostOne' /\ Guarded'
    BY <1>0, <2>1, <2>2, <2>3, FewerKeeps DEF Fewer
  <2>5. NothingChanges'
    <3> SUFFICES ASSUME changes = 0 PROVE pendingChange' = 0 /\ NoChangeOnWire'
      BY <2>1 DEF NothingChanges
    <3>1. pendingChange = 0 /\ NoChangeOnWire
      BY <1>0 DEF NothingChanges
    <3>2. UNCHANGED <<pendingChange, requests>>
      BY <1>12, <3>1 DEF StaySignedIn
    <3>3. QED
      BY <1>0, <2>1, <3>1, <3>2, WiresKept
  <2>6. QED
    BY <1>0, <2>1, <2>3, <2>4, <2>5 DEF Sampled, SignedInHasToken, LeftForGood
<1>13. CASE ReceiveSuccess
  <2>1. UNCHANGED <<inFlight, control, changes, pendingChange, leaving, conn>>
        /\ Receive("AUTH_SUCCESS") /\ token' /\ uuid' /\ tcp' = "AUTH_SUCCESS"
    BY <1>13 DEF ReceiveSuccess, Receive, ui
  <2>2. /\ AuthComesFirst' /\ (\A c \in 1 .. conn : Pending(c)' => Pending(c))
        /\ (NoChangeOnWire => NoChangeOnWire')
        /\ \E c \in 1 .. conn : Pending(c) /\ ~Pending(c)'
    BY <1>0, <2>1, ReceivedAnswer DEF AuthAnswers
  <2>3. Guard
    BY <1>0, <2>2 DEF Guarded
  <2>4. \A c \in 1 .. conn : ~Pending(c)'
    BY <1>0, <2>2 DEF AtMostOne
  <2>5. AtMostOne' /\ Guarded'
    BY <2>1, <2>4 DEF AtMostOne, Guarded
  <2>6. Sampled'
    BY <1>0, <2>1, <2>2, <2>3, <2>4 DEF Sampled, Guard
  <2>7. QED
    BY <1>0, <2>1, <2>2, <2>5, <2>6 DEF SignedInHasToken, NothingChanges, LeftForGood
<1>14. CASE ConfirmLogin
  <2>1. UNCHANGED <<conn, requests, answers, uuid, inFlight, control, token, changes,
                    pendingChange, leaving>> /\ tcp' = "none"
    BY <1>14 DEF ConfirmLogin, wire, ui
  <2>2. AuthComesFirst' /\ (\A c \in 1 .. conn : Pending(c)' <=> Pending(c))
        /\ (NoChangeOnWire => NoChangeOnWire')
    BY <1>0, <2>1, WiresKept
  <2>3. AtMostOne' /\ Guarded'
    BY <1>0, <2>1, <2>2, FewerKeeps DEF Fewer, Guard
  <2>4. QED
    BY <1>0, <2>1, <2>2, <2>3 DEF Sampled, SignedInHasToken, NothingChanges, LeftForGood
<1>15. CASE ReceiveFailure
  <2>1. UNCHANGED <<inFlight, control, changes, pendingChange, leaving, conn, uuid>>
        /\ Receive("AUTH_FAILED") /\ ~token' /\ tcp' = "AUTH_FAILED"
    BY <1>15 DEF ReceiveFailure, Receive, ui
  <2>2. /\ AuthComesFirst' /\ (\A c \in 1 .. conn : Pending(c)' => Pending(c))
        /\ (NoChangeOnWire => NoChangeOnWire')
        /\ \E c \in 1 .. conn : Pending(c) /\ ~Pending(c)'
    BY <1>0, <2>1, ReceivedAnswer DEF AuthAnswers
  <2>3. Guard /\ Guard'
    BY <1>0, <2>1, <2>2 DEF Guarded, Guard
  <2>4. \A c \in 1 .. conn : ~Pending(c)'
    BY <1>0, <2>2 DEF AtMostOne
  <2>5. AtMostOne' /\ Guarded'
    BY <2>1, <2>3, <2>4 DEF AtMostOne, Guarded
  <2>6. control.pc # "dial" /\ ~uuid
    BY <1>0, <2>2, <2>3 DEF Sampled, Guard
  <2>7. QED
    BY <1>0, <2>1, <2>2, <2>5, <2>6
    DEF Sampled, SignedInHasToken, NothingChanges, LeftForGood
<1>16. CASE ClearInFlight
  <2>1. UNCHANGED <<conn, requests, answers, uuid, control, token, changes, pendingChange,
                    leaving>> /\ tcp = "AUTH_FAILED" /\ tcp' = "none"
    BY <1>16 DEF ClearInFlight, wire, ui
  <2>2. AuthComesFirst' /\ (\A c \in 1 .. conn : Pending(c)' <=> Pending(c))
        /\ (NoChangeOnWire => NoChangeOnWire')
    BY <1>0, <2>1, WiresKept
  <2>3. ~uuid /\ \A c \in 1 .. conn : ~Pending(c)'
    BY <1>0, <2>1, <2>2 DEF AtMostOne, Guarded, Guard
  <2>4. AtMostOne' /\ Guarded'
    BY <2>1, <2>3 DEF AtMostOne, Guarded
  <2>5. QED
    BY <1>0, <2>1, <2>2, <2>3, <2>4
    DEF Sampled, SignedInHasToken, NothingChanges, LeftForGood
<1>17. CASE ReceivePasswordChanged
  <2>1. UNCHANGED <<inFlight, control, changes, pendingChange, leaving, conn, uuid, tcp>>
        /\ Receive("PASSWORD_CHANGED") /\ token'
    BY <1>17 DEF ReceivePasswordChanged, Receive, ui
  <2>2. /\ AuthComesFirst' /\ (\A c \in 1 .. conn : Pending(c)' => Pending(c))
        /\ ~NoChangeOnWire
    BY <1>0, <2>1, ReceivedAnswer
  <2>3. AtMostOne' /\ Guarded'
    BY <1>0, <2>1, <2>2, FewerKeeps DEF Fewer, Guard
  <2>4. changes # 0
    BY <1>0, <2>2 DEF NothingChanges
  <2>5. QED
    BY <1>0, <2>1, <2>2, <2>3, <2>4
    DEF Sampled, SignedInHasToken, NothingChanges, LeftForGood
<1>18. ASSUME ServerAnswers \/ \E c \in 1 .. conn : ConnectionCloses(c) PROVE Others
  <2>1. UNCHANGED <<conn, tcp, uuid, inFlight, control, token, changes, pendingChange, leaving>>
    BY <1>18 DEF ServerAnswers, ConnectionCloses, ui
  <2>2. AuthComesFirst' /\ (\A c \in 1 .. conn : Pending(c)' => Pending(c))
        /\ (NoChangeOnWire => NoChangeOnWire')
    BY <1>0, <1>18, ServerAnswersInPlace, ClosedIsEmpty
  <2>3. AtMostOne' /\ Guarded'
    BY <1>0, <2>1, <2>2, FewerKeeps DEF Fewer, Guard
  <2>4. QED
    BY <1>0, <2>1, <2>2, <2>3 DEF Sampled, SignedInHasToken, NothingChanges, LeftForGood
<1>19. QED
  BY <1>1, <1>2, <1>3, <1>4, <1>5, <1>6, <1>7, <1>8, <1>9, <1>10, <1>11, <1>12, <1>13, <1>14,
     <1>15, <1>16, <1>17, <1>18
  DEF Next, UserNext, QtNext, ControlNext, TcpNext

-----------------------------------------------------------------------------
(* The theorems.                                                           *)

\* The program starts with nothing under way, whether or not a token is saved.
LEMMA LoginInit == Init => LoginInv
<1> SUFFICES ASSUME Init PROVE LoginInv
  OBVIOUS
<1>1. \A c \in 1 .. conn : FALSE
  BY DEF Init
<1>2. requests \in [1 .. conn -> Seq(Requests)] /\ answers \in [1 .. conn -> Seq(Answers)]
  BY <1>1 DEF Init
<1>3. TypeOK
  <2>1. /\ control \in [pc : {"idle", "signedIn", "signedOut", "dial", "sent"},
                        request : AuthRequests \cup {"none"}]
        /\ control.request = "none" /\ control.pc = "idle"
    BY DEF Init, Idle
  <2>2. pending \in [Forms -> 0 .. MaxSubmits] /\ signals \in Seq(Signals)
    BY LoginAssumption DEF Init
  <2>3. /\ isLoggedIn \in BOOLEAN /\ pendingLogout \in BOOLEAN /\ uuid \in BOOLEAN
        /\ inFlight \in BOOLEAN /\ token \in BOOLEAN /\ leaving \in BOOLEAN
    BY Zenon DEF Init
  <2>4. /\ loginState \in LoginStates /\ tcp \in AuthAnswers \cup {"none"}
        /\ pendingChange \in 0 .. MaxChanges
        /\ submits \in 0 .. MaxSubmits /\ changes \in 0 .. MaxChanges
        /\ logouts \in 0 .. MaxLogouts
        /\ conn \in Nat /\ dead = {}
    BY LoginAssumption DEF Init, LoginStates
  <2>5. control.request # "none" <=> control.pc \in {"dial", "sent"}
    BY <2>1
  <2>6. /\ dead \subseteq 1 .. conn
        /\ \A c \in dead : requests[c] = <<>> /\ answers[c] = <<>>
    BY <2>4
  <2>7. QED
    BY <1>2, <2>1, <2>2, <2>3, <2>4, <2>5, <2>6, Zenon DEF TypeOK
<1>4. Counted /\ SignedInHasToken /\ NothingChanges /\ LeftForGood
  BY <1>1 DEF Init, Counted, SignedInHasToken, NothingChanges, NoChangeOnWire, LeftForGood
<1>5. AuthComesFirst /\ AtMostOne /\ Guarded /\ Sampled
  BY <1>1 DEF Init, AuthComesFirst, AtMostOne, Guarded, Sampled, Idle
<1>6. QED
  BY <1>3, <1>4, <1>5 DEF LoginInv

\* The inductive invariant holds at every step of the three threads, the server and
\* the network (Application::processActiveClientState, processClientTcpPush).
THEOREM LoginInvariance == Spec => []LoginInv
BY LoginInit, LoginStep, PTL DEF Spec

\* The variables stay in their sets; in particular a connection that is closed carries
\* nothing (TailscaleNetwork::sendPersistentTcp drops what is sent on it).
THEOREM TypeCorrect == Spec => []TypeOK
<1>1. LoginInv => TypeOK
  BY DEF LoginInv
<1>2. QED
  BY <1>1, LoginInvariance, PTL

\* What is under way is pending on its connection, in its first place.
LEMMA UnderWayIsPending ==
  ASSUME TypeOK, AuthComesFirst, NEW a \in UnderWay
  PROVE  \/ a = <<"rejected", 0, 0>> /\ tcp = "AUTH_FAILED"
         \/ \E c \in 1 .. conn : a = <<"sent", c, 1>> /\ Asking(c)
         \/ \E c \in 1 .. conn : a = <<"answered", c, 1>> /\ Answered(c)
<1>1. CASE \E c \in 1 .. conn : \E i \in Places(requests[c], AuthRequests) : a = <<"sent", c, i>>
  <2>0. PICK c \in 1 .. conn : \E i \in Places(requests[c], AuthRequests) : a = <<"sent", c, i>>
    BY <1>1
  <2>1. PICK i \in DOMAIN requests[c] : a = <<"sent", c, i>> /\ requests[c][i] \in AuthRequests
    BY <2>0 DEF Places
  <2>2. requests[c] \in Seq(Requests)
    BY DEF TypeOK
  <2>3. i \in 1 .. Len(requests[c]) /\ requests[c] # <<>>
    BY <2>1, <2>2
  <2>4. i = 1
    BY <2>1, <2>3 DEF AuthComesFirst
  <2>5. QED
    BY <2>1, <2>3, <2>4 DEF Asking
<1>2. CASE \E c \in 1 .. conn : \E i \in Places(answers[c], AuthAnswers) : a = <<"answered", c, i>>
  <2>0. PICK c \in 1 .. conn : \E i \in Places(answers[c], AuthAnswers) : a = <<"answered", c, i>>
    BY <1>2
  <2>1. PICK i \in DOMAIN answers[c] : a = <<"answered", c, i>> /\ answers[c][i] \in AuthAnswers
    BY <2>0 DEF Places
  <2>2. answers[c] \in Seq(Answers)
    BY DEF TypeOK
  <2>3. i \in 1 .. Len(answers[c]) /\ answers[c] # <<>>
    BY <2>1, <2>2
  <2>4. i = 1
    BY <2>1, <2>3 DEF AuthComesFirst
  <2>5. QED
    BY <2>1, <2>3, <2>4 DEF Answered
<1>3. CASE tcp = "AUTH_FAILED" /\ a = <<"rejected", 0, 0>>
  BY <1>3
<1>4. QED
  <2>1. \/ a \in UNION {{<<"sent", c, i>> : i \in Places(requests[c], AuthRequests)} : c \in 1 .. conn}
        \/ a \in UNION {{<<"answered", c, i>> : i \in Places(answers[c], AuthAnswers)} : c \in 1 .. conn}
        \/ a \in (IF tcp = "AUTH_FAILED" THEN {<<"rejected", 0, 0>>} ELSE {})
    BY Zenon DEF UnderWay
  <2>2. ASSUME a \in UNION {{<<"sent", c, i>> : i \in Places(requests[c], AuthRequests)} : c \in 1 .. conn}
        PROVE  \E c \in 1 .. conn : \E i \in Places(requests[c], AuthRequests) : a = <<"sent", c, i>>
    BY <2>2, Zenon
  <2>3. ASSUME a \in UNION {{<<"answered", c, i>> : i \in Places(answers[c], AuthAnswers)} : c \in 1 .. conn}
        PROVE  \E c \in 1 .. conn : \E i \in Places(answers[c], AuthAnswers) : a = <<"answered", c, i>>
    BY <2>3, Zenon
  <2>4. ASSUME a \in (IF tcp = "AUTH_FAILED" THEN {<<"rejected", 0, 0>>} ELSE {})
        PROVE  tcp = "AUTH_FAILED" /\ a = <<"rejected", 0, 0>>
    BY <2>4
  <2>5. QED
    BY <1>1, <1>2, <1>3, <2>1, <2>2, <2>3, <2>4

\* However many forms are submitted, connections dialled and dropped, and wherever
\* the three threads are, at most one authentication is between its send and the end
\* of its rejection (m_authRequestInFlight, set after the send in
\* processActiveClientState, cleared there and in processClientTcpPush).
THEOREM OnlyOneAuth == Spec => []OneAuthAtATime
<1>1. LoginInv => OneAuthAtATime
  <2> SUFFICES ASSUME LoginInv, NEW a \in UnderWay, NEW b \in UnderWay PROVE a = b
    BY DEF OneAuthAtATime
  <2> USE DEF LoginInv
  <2>1. /\ \A c, d \in 1 .. conn : Pending(c) /\ Pending(d) => c = d
        /\ tcp = "AUTH_FAILED" => \A c \in 1 .. conn : ~Pending(c)
        /\ \A c \in 1 .. conn : ~(Asking(c) /\ Answered(c))
    BY DEF AtMostOne, AuthComesFirst, Answered
  <2>2. CASE a = <<"rejected", 0, 0>> /\ tcp = "AUTH_FAILED"
    BY <2>1, <2>2, UnderWayIsPending DEF Pending
  <2>3. ASSUME NEW c \in 1 .. conn, a = <<"sent", c, 1>>, Asking(c) PROVE a = b
    BY <2>1, <2>3, UnderWayIsPending DEF Pending
  <2>4. ASSUME NEW c \in 1 .. conn, a = <<"answered", c, 1>>, Answered(c) PROVE a = b
    BY <2>1, <2>4, UnderWayIsPending DEF Pending
  <2>5. QED
    BY <2>2, <2>3, <2>4, UnderWayIsPending
<1>2. QED
  BY <1>1, LoginInvariance, PTL

\* A client that is signed in holds a token, so no rejection of another attempt that
\* was under way removes the one a login saved (processClientTcpPush: AUTH_SUCCESS
\* saves the token, AUTH_FAILED deletes it whatever it is).
THEOREM TokenIsKept == Spec => []SignedInHasToken
<1>1. LoginInv => SignedInHasToken
  BY DEF LoginInv
<1>2. QED
  BY <1>1, LoginInvariance, PTL

\* After a logout the client does not dial on its own: with no form waiting and no
\* password ever changed it has no token to dial with, whatever arrives late
\* (processActiveClientState's logout against processClientTcpPush).
THEOREM LogoutStays == Spec => LogoutSticks
<1>1. LoginInv /\ [Next]_vars => [leaving /\ changes = 0 /\ NothingPending => ~Dial]_vars
  <2> SUFFICES ASSUME LoginInv, leaving, changes = 0, NothingPending, Dial PROVE FALSE
    OBVIOUS
  <2>1. token /\ control.pc = "signedOut" /\ ~inFlight
    BY DEF Dial
  <2>2. uuid
    BY <2>1 DEF LoginInv, LeftForGood
  <2>3. ~uuid
    BY <2>1 DEF LoginInv, Sampled
  <2>4. QED
    BY <2>2, <2>3
<1>2. QED
  BY <1>1, LoginInvariance, PTL DEF Spec, LogoutSticks

-----------------------------------------------------------------------------
(* What the window will show.                                              *)

Confirmations == {"confirmLogin", "confirmLogout"}
Confirming(b) == IF b THEN "confirmLogin" ELSE "confirmLogout"

\* Once the signals of q are delivered to a window that shows `shown', it shows b.
WillShow(q, shown, b) ==
    \/ shown = b /\ \A i \in 1 .. Len(q) : q[i] \notin Confirmations
    \/ \E i \in 1 .. Len(q) :
          /\ q[i] = Confirming(b)
          /\ \A j \in i + 1 .. Len(q) : q[j] \notin Confirmations

LEMMA SignalAdded ==
  ASSUME NEW q \in Seq(Signals), NEW s \in Signals, NEW shown \in BOOLEAN, NEW b \in BOOLEAN
  PROVE  /\ s \notin Confirmations /\ WillShow(q, shown, b) => WillShow(Append(q, s), shown, b)
         /\ s = Confirming(b) => WillShow(Append(q, s), shown, b)
<1> DEFINE longer == Append(q, s)
<1>1. /\ Len(q) \in Nat /\ Len(longer) = Len(q) + 1
      /\ \A i \in 1 .. Len(q) : longer[i] = q[i]
      /\ longer[Len(q) + 1] = s
  BY Added
<1> HIDE DEF longer
<1>2. \A i \in 1 .. Len(longer) : i \in 1 .. Len(q) \/ i = Len(q) + 1
  BY <1>1
<1>3. ASSUME s \notin Confirmations, shown = b, \A i \in 1 .. Len(q) : q[i] \notin Confirmations
      PROVE  \A i \in 1 .. Len(longer) : longer[i] \notin Confirmations
  BY <1>1, <1>2, <1>3
<1>4. ASSUME s \notin Confirmations, NEW i \in 1 .. Len(q), q[i] = Confirming(b),
             \A j \in i + 1 .. Len(q) : q[j] \notin Confirmations
      PROVE  WillShow(longer, shown, b)
  <2>1. i \in 1 .. Len(longer) /\ longer[i] = Confirming(b)
    BY <1>1, <1>4
  <2>2. \A j \in i + 1 .. Len(longer) : j \in i + 1 .. Len(q) \/ j = Len(q) + 1
    BY <1>1
  <2>3. \A j \in i + 1 .. Len(q) : longer[j] = q[j]
    BY <1>1
  <2>4. \A j \in i + 1 .. Len(longer) : longer[j] \notin Confirmations
    BY <1>1, <1>4, <2>2, <2>3
  <2>5. QED
    BY <2>1, <2>4 DEF WillShow
<1>5. ASSUME s = Confirming(b)
      PROVE  WillShow(longer, shown, b)
  <2>1. Len(q) + 1 \in 1 .. Len(longer) /\ (Len(q) + 1) + 1 .. Len(longer) = {}
    BY <1>1
  <2>2. QED
    BY <1>1, <1>5, <2>1 DEF WillShow
<1>6. s \notin Confirmations /\ WillShow(q, shown, b) => WillShow(longer, shown, b)
  BY <1>3, <1>4 DEF WillShow
<1>7. QED
  BY <1>5, <1>6 DEF longer

LEMMA SignalDelivered ==
  ASSUME NEW q \in Seq(Signals), q # <<>>, NEW shown \in BOOLEAN, NEW b \in BOOLEAN,
         WillShow(q, shown, b), NEW now \in BOOLEAN,
         Head(q) = "confirmLogin" => now = TRUE, Head(q) = "confirmLogout" => now = FALSE,
         Head(q) \notin Confirmations => now = shown
  PROVE  WillShow(Tail(q), now, b)
<1> DEFINE rest == Tail(q)
<1>1. /\ Head(q) = q[1] /\ Len(q) \in Nat /\ Len(q) >= 1
      /\ Len(rest) = Len(q) - 1
      /\ \A i \in 1 .. Len(rest) : rest[i] = q[i + 1]
  BY Taken
<1> HIDE DEF rest
<1>2. \A i \in 1 .. Len(rest) : i + 1 \in 1 .. Len(q)
  BY <1>1
<1>3. CASE shown = b /\ \A i \in 1 .. Len(q) : q[i] \notin Confirmations
  <2>1. 1 \in 1 .. Len(q)
    BY <1>1
  <2>2. now = b
    BY <1>1, <1>3, <2>1
  <2>3. \A i \in 1 .. Len(rest) : rest[i] \notin Confirmations
    BY <1>1, <1>2, <1>3
  <2>4. QED
    BY <2>2, <2>3 DEF WillShow, rest
<1>4. ASSUME NEW i \in 1 .. Len(q), q[i] = Confirming(b),
             \A j \in i + 1 .. Len(q) : q[j] \notin Confirmations
      PROVE  WillShow(rest, now, b)
  <2>1. CASE i = 1
    <3>1. now = b
      BY <1>1, <1>4, <2>1 DEF Confirming
    <3>2. \A j \in 1 .. Len(rest) : j + 1 \in i + 1 .. Len(q)
      BY <1>1, <2>1
    <3>3. \A j \in 1 .. Len(rest) : rest[j] \notin Confirmations
      BY <1>1, <1>4, <3>2
    <3>4. QED
      BY <3>1, <3>3 DEF WillShow
  <2>2. CASE i # 1
    <3>1. i - 1 \in 1 .. Len(rest) /\ (i - 1) + 1 = i
      BY <1>1, <2>2
    <3>2. rest[i - 1] = Confirming(b)
      BY <1>1, <1>4, <3>1
    <3>3. \A j \in (i - 1) + 1 .. Len(rest) : j + 1 \in i + 1 .. Len(q) /\ j \in 1 .. Len(rest)
      BY <1>1, <3>1
    <3>4. \A j \in (i - 1) + 1 .. Len(rest) : rest[j] \notin Confirmations
      BY <1>1, <1>4, <3>3
    <3>5. QED
      BY <3>1, <3>2, <3>4 DEF WillShow
  <2>3. QED
    BY <2>1, <2>2
<1>5. QED
  BY <1>3, <1>4 DEF WillShow, rest

\* What is confirmed last is what the client is; a success that is being processed is
\* still to be confirmed.  A click on Log Out waits only while the client is signed in.
WindowInv ==
    /\ tcp # "AUTH_SUCCESS" => WillShow(signals, isLoggedIn, uuid)
    /\ tcp = "AUTH_SUCCESS" => uuid /\ WillShow(signals, isLoggedIn, FALSE)
    /\ pendingLogout => uuid /\ tcp # "AUTH_SUCCESS"

\* Log Out is clicked while the client is signed in and has said so.
LogoutInTime == Logout => uuid /\ tcp # "AUTH_SUCCESS"

\* An answer to an authentication comes to a signed-out client.
LEMMA SignedOutWhenAnswered ==
  ASSUME LoginInv, NEW type \in AuthAnswers, Receive(type)
  PROVE  ~uuid /\ tcp = "none"
<1>1. TypeOK /\ Guarded /\ AuthComesFirst
  BY DEF LoginInv
<1>2. tcp = "none" /\ \E c \in 1 .. conn : Pending(c)
  BY <1>1, ReceivedAnswer DEF Receive
<1>3. QED
  BY <1>1, <1>2 DEF Guarded, Guard

LEMMA WindowStep ==
  ASSUME LoginInv, WindowInv, Next, LogoutInTime
  PROVE  WindowInv'
<1>0. /\ signals \in Seq(Signals) /\ isLoggedIn \in BOOLEAN /\ uuid \in BOOLEAN
      /\ TypeOK /\ AuthComesFirst /\ Guarded /\ Sampled
  BY DEF LoginInv, TypeOK
<1>1. LoginStates \cap Confirmations = {} /\ LoginStates \subseteq Signals
      /\ Confirmations \subseteq Signals
  BY DEF LoginStates, Confirmations, Signals
<1>2. ASSUME NEW s \in LoginStates, NEW b \in BOOLEAN, WillShow(signals, isLoggedIn, b)
      PROVE  WillShow(WithState(s), isLoggedIn, b)
  <2>1. s \in Signals /\ s \notin Confirmations
    BY <1>1
  <2>2. WillShow(Append(signals, s), isLoggedIn, b)
    BY <1>0, <1>2, <2>1, SignalAdded
  <2>3. QED
    BY <1>2, <2>2 DEF WithState
<1>3. ASSUME UNCHANGED <<signals, isLoggedIn, uuid, pendingLogout>>, tcp' = tcp
      PROVE  WindowInv'
  BY <1>3 DEF WindowInv
<1>4. ASSUME NEW s \in LoginStates, signals' = WithState(s),
             UNCHANGED <<isLoggedIn, uuid, pendingLogout, tcp>>
      PROVE  WindowInv'
  BY <1>0, <1>2, <1>4 DEF WindowInv
<1>5. ASSUME NEW type \in AuthAnswers, Receive(type)
      PROVE  ~uuid /\ tcp # "AUTH_SUCCESS" /\ ~pendingLogout
  BY <1>0, <1>5, SignedOutWhenAnswered DEF WindowInv
<1>6. ASSUME NEW form \in Forms, Submit(form) PROVE WindowInv'
  BY <1>3, <1>6 DEF Submit, qt
<1>7. CASE Logout
  BY <1>7 DEF Logout, LogoutInTime, WindowInv, qt
<1>8. CASE DeliverSignal
  <2>1. /\ signals # <<>> /\ signals' = Tail(signals) /\ UNCHANGED <<uuid, pendingLogout, tcp>>
        /\ isLoggedIn' = CASE Head(signals) = "confirmLogin" -> TRUE
                           [] Head(signals) = "confirmLogout" -> FALSE
                           [] OTHER -> isLoggedIn
    BY <1>8 DEF DeliverSignal, ui
  <2>2. /\ isLoggedIn' \in BOOLEAN
        /\ Head(signals) = "confirmLogin" => isLoggedIn' = TRUE
        /\ Head(signals) = "confirmLogout" => isLoggedIn' = FALSE
        /\ Head(signals) \notin Confirmations => isLoggedIn' = isLoggedIn
    BY <1>0, <2>1 DEF Confirmations
  <2>3. ASSUME NEW b \in BOOLEAN, WillShow(signals, isLoggedIn, b)
        PROVE  WillShow(signals', isLoggedIn', b)
    BY <1>0, <2>1, <2>2, <2>3, SignalDelivered
  <2>4. QED
    BY <1>0, <2>1, <2>3 DEF WindowInv
<1>9. CASE StayIdle
  <2>1. PICK s \in {"Authenticating", "Disconnected"} : signals' = WithState(s)
    BY <1>9 DEF StayIdle
  <2>2. QED
    BY <1>4, <1>9, <2>1 DEF StayIdle, LoginStates, qt, ui
<1>10. CASE Dial
  BY <1>4, <1>10 DEF Dial, LoginStates, qt
<1>11. CASE StaySignedIn
  BY <1>4, <1>11 DEF StaySignedIn, LoginStates, qt
<1>12. CASE Wake \/ DialFails \/ DialSucceeds \/ MarkInFlight
  BY <1>3, <1>12 DEF Wake, DialFails, DialSucceeds, MarkInFlight, qt, ui
<1>13. CASE SignOut
  <2>1. /\ pendingLogout /\ ~uuid' /\ ~pendingLogout' /\ UNCHANGED <<isLoggedIn, tcp>>
        /\ signals' = Append(WithState("LoggedIn"), "confirmLogout")
    BY <1>13 DEF SignOut, qt
  <2>2. tcp # "AUTH_SUCCESS" /\ uuid' = FALSE
    BY <1>13, <2>1 DEF WindowInv, SignOut
  <2>3. WithState("LoggedIn") \in Seq(Signals)
    BY <1>0, StateTyped DEF LoginStates
  <2>4. WillShow(signals', isLoggedIn, FALSE)
    BY <1>0, <2>1, <2>3, SignalAdded DEF Signals, Confirming
  <2>5. QED
    BY <2>1, <2>2, <2>4 DEF WindowInv
<1>14. CASE ReceiveSuccess
  <2>1. Receive("AUTH_SUCCESS") /\ uuid' = TRUE /\ tcp' = "AUTH_SUCCESS"
        /\ UNCHANGED <<signals, isLoggedIn, pendingLogout>>
    BY <1>14 DEF ReceiveSuccess, qt, ui
  <2>2. ~uuid /\ tcp # "AUTH_SUCCESS" /\ ~pendingLogout
    BY <1>5, <2>1 DEF AuthAnswers
  <2>3. uuid = FALSE
    BY <1>0, <2>2
  <2>4. WillShow(signals, isLoggedIn, FALSE)
    BY <2>2, <2>3 DEF WindowInv
  <2>5. WillShow(signals', isLoggedIn', FALSE)
    BY <2>1, <2>4
  <2>6. QED
    BY <2>1, <2>2, <2>5 DEF WindowInv
<1>15. CASE ConfirmLogin
  <2>1. tcp = "AUTH_SUCCESS" /\ signals' = Append(signals, "confirmLogin") /\ tcp' = "none"
        /\ UNCHANGED <<isLoggedIn, uuid, pendingLogout>>
    BY <1>15 DEF ConfirmLogin, qt, ui
  <2>2. uuid = TRUE /\ ~pendingLogout
    BY <1>0, <2>1 DEF WindowInv
  <2>3. WillShow(signals', isLoggedIn, TRUE)
    BY <1>0, <2>1, SignalAdded DEF Signals, Confirming
  <2>4. QED
    BY <2>1, <2>2, <2>3 DEF WindowInv
<1>16. CASE ReceiveFailure
  <2>1. Receive("AUTH_FAILED") /\ tcp' = "AUTH_FAILED"
        /\ signals' = Append(signals, "confirmLogout")
        /\ UNCHANGED <<isLoggedIn, uuid, pendingLogout>>
    BY <1>16 DEF ReceiveFailure, qt, ui
  <2>2. uuid = FALSE /\ ~pendingLogout
    BY <1>0, <1>5, <2>1 DEF AuthAnswers
  <2>3. WillShow(signals', isLoggedIn, FALSE)
    BY <1>0, <2>1, SignalAdded DEF Signals, Confirming
  <2>4. QED
    BY <2>1, <2>2, <2>3 DEF WindowInv
<1>17. CASE ClearInFlight
  BY <1>17 DEF ClearInFlight, WindowInv, qt, ui
<1>18. CASE ReceivePasswordChanged \/ ServerAnswers \/ ChangePassword
            \/ \E c \in 1 .. conn : ConnectionCloses(c)
  BY <1>3, <1>18 DEF ReceivePasswordChanged, ServerAnswers, ChangePassword, ConnectionCloses, qt, ui
<1>19. QED
  BY <1>6, <1>7, <1>8, <1>9, <1>10, <1>11, <1>12, <1>13, <1>14, <1>15, <1>16, <1>17, <1>18
     DEF Next, UserNext, QtNext, ControlNext, TcpNext

LEMMA WindowInit == Init => WindowInv
<1> SUFFICES ASSUME Init PROVE WindowInv
  OBVIOUS
<1>1. /\ signals = <<>> /\ isLoggedIn = FALSE /\ uuid = FALSE
      /\ pendingLogout = FALSE /\ tcp = "none"
  BY DEF Init
<1>2. \A i \in 1 .. Len(signals) : FALSE
  BY <1>1
<1>3. WillShow(signals, isLoggedIn, uuid)
  BY <1>1, <1>2 DEF WillShow
<1>4. QED
  BY <1>1, <1>3 DEF WindowInv

\* With every signal delivered the window shows what the client is.
LEMMA NothingToCome ==
  ASSUME WindowInv, signals = <<>>, tcp # "AUTH_SUCCESS"
  PROVE  isLoggedIn = uuid
<1>1. \A i \in 1 .. Len(signals) : FALSE
  OBVIOUS
<1>2. WillShow(signals, isLoggedIn, uuid)
  BY DEF WindowInv
<1>3. QED
  BY <1>1, <1>2 DEF WillShow

\* However often the user signs in and out, and whatever the threads, the server and
\* the network do, a window that has shown every signal says signed in if and only if
\* the client is: provided Log Out is clicked while the client is signed in.
THEOREM WindowFollows ==
  Spec /\ [][LogoutInTime]_vars
     => [](signals = <<>> /\ tcp # "AUTH_SUCCESS" => isLoggedIn = uuid)
<1>1. WindowInv /\ LoginInv /\ [Next]_vars /\ [LogoutInTime]_vars => WindowInv'
  <2> SUFFICES ASSUME WindowInv, LoginInv, [Next]_vars, [LogoutInTime]_vars
               PROVE  WindowInv'
    OBVIOUS
  <2>1. CASE UNCHANGED vars
    BY <2>1 DEF WindowInv, vars, qt, ui
  <2>2. CASE Next /\ LogoutInTime
    BY <2>2, WindowStep
  <2>3. QED
    BY <2>1, <2>2
<1>2. WindowInv => (signals = <<>> /\ tcp # "AUTH_SUCCESS" => isLoggedIn = uuid)
  BY NothingToCome
<1>3. QED
  BY <1>1, <1>2, WindowInit, LoginInvariance, PTL DEF Spec

\* Before the first click on Log Out nothing signs the client out, and the window
\* says signed in only when the client is.
FirstSession ==
    logouts = 0 =>
       /\ ~pendingLogout
       /\ isLoggedIn => uuid /\ tcp # "AUTH_SUCCESS"
       /\ \A i \in 1 .. Len(signals) : signals[i] = "confirmLogin" => uuid /\ tcp # "AUTH_SUCCESS"

EarlyInv == FirstSession /\ (logouts <= 1 => WindowInv)

LEMMA LogoutsCounted == Next /\ ~Logout => logouts' = logouts
<1> SUFFICES ASSUME Next, ~Logout PROVE logouts' = logouts
  OBVIOUS
<1>1. UserNext \/ QtNext => logouts' = logouts
  BY DEF UserNext, QtNext, Submit, ChangePassword, DeliverSignal, ui
<1>2. ControlNext => logouts' = logouts
  BY DEF ControlNext, Wake, StayIdle, Dial, DialFails, DialSucceeds, MarkInFlight, SignOut,
         StaySignedIn, ui
<1>3. TcpNext => logouts' = logouts
  BY DEF TcpNext, ReceiveSuccess, ConfirmLogin, ReceiveFailure, ClearInFlight,
         ReceivePasswordChanged, ui
<1>4. ServerAnswers \/ (\E c \in 1 .. conn : ConnectionCloses(c)) => logouts' = logouts
  BY DEF ServerAnswers, ConnectionCloses, ui
<1>5. QED
  BY <1>1, <1>2, <1>3, <1>4 DEF Next

LEMMA FirstSessionStep ==
  ASSUME LoginInv, EarlyInv, Next
  PROVE  FirstSession'
<1>0. /\ signals \in Seq(Signals) /\ isLoggedIn \in BOOLEAN /\ uuid \in BOOLEAN
      /\ logouts \in Nat /\ TypeOK /\ Guarded
  BY DEF LoginInv, TypeOK
<1>1. CASE Logout
  <2>1. logouts' # 0
    BY <1>0, <1>1 DEF Logout
  <2>2. QED
    BY <2>1 DEF FirstSession
<1>2. SUFFICES ASSUME ~Logout, logouts' = 0 PROVE FirstSession'
  BY <1>1 DEF FirstSession
<1>3. logouts = 0
  BY <1>2, LogoutsCounted
<1>4. /\ ~pendingLogout
      /\ isLoggedIn => uuid /\ tcp # "AUTH_SUCCESS"
      /\ \A i \in 1 .. Len(signals) : signals[i] = "confirmLogin" => uuid /\ tcp # "AUTH_SUCCESS"
      /\ WindowInv
  BY <1>3 DEF EarlyInv, FirstSession
<1>5. ASSUME UNCHANGED <<isLoggedIn, pendingLogout, uuid>>, tcp' = tcp \/ tcp' # "AUTH_SUCCESS",
             NEW s \in Signals \ {"confirmLogin"},
             signals' = signals \/ signals' = Append(signals, s)
      PROVE  FirstSession'
  <2>1. CASE signals' = signals
    BY <1>4, <1>5, <2>1 DEF FirstSession
  <2>2. CASE signals' = Append(signals, s)
    <3>1. /\ Len(signals) \in Nat /\ Len(signals') = Len(signals) + 1
          /\ \A i \in 1 .. Len(signals) : signals'[i] = signals[i]
          /\ signals'[Len(signals) + 1] = s
      BY <1>0, <2>2, Added
    <3>2. \A i \in 1 .. Len(signals') : i \in 1 .. Len(signals) \/ i = Len(signals) + 1
      BY <3>1
    <3>3. \A i \in 1 .. Len(signals') :
             signals'[i] = "confirmLogin" => uuid' /\ tcp' # "AUTH_SUCCESS"
      BY <1>4, <1>5, <3>1, <3>2
    <3>4. QED
      BY <1>4, <1>5, <3>3 DEF FirstSession
  <2>3. QED
    BY <1>5, <2>1, <2>2
<1>6. LoginStates \subseteq Signals \ {"confirmLogin"} /\ "confirmLogout" \in Signals \ {"confirmLogin"}
  BY DEF LoginStates, Signals
<1>7. ASSUME NEW form \in Forms, Submit(form) PROVE FirstSession'
  BY <1>5, <1>6, <1>7 DEF Submit, qt
<1>8. CASE DeliverSignal
  <2>1. /\ signals # <<>> /\ signals' = Tail(signals) /\ UNCHANGED <<uuid, pendingLogout, tcp>>
        /\ isLoggedIn' = CASE Head(signals) = "confirmLogin" -> TRUE
                           [] Head(signals) = "confirmLogout" -> FALSE
                           [] OTHER -> isLoggedIn
    BY <1>8 DEF DeliverSignal, ui
  <2>2. /\ Head(signals) = signals[1] /\ Len(signals) \in Nat /\ Len(signals) >= 1
        /\ Len(signals') = Len(signals) - 1
        /\ \A i \in 1 .. Len(signals') : signals'[i] = signals[i + 1]
    BY <1>0, <2>1, Taken
  <2>3. 1 \in 1 .. Len(signals) /\ \A i \in 1 .. Len(signals') : i + 1 \in 1 .. Len(signals)
    BY <2>2
  <2>4. isLoggedIn' => uuid /\ tcp # "AUTH_SUCCESS"
    BY <1>4, <2>1, <2>2, <2>3
  <2>5. \A i \in 1 .. Len(signals') : signals'[i] = "confirmLogin" => uuid /\ tcp # "AUTH_SUCCESS"
    BY <1>4, <2>2, <2>3
  <2>6. QED
    BY <1>4, <2>1, <2>4, <2>5 DEF FirstSession
<1>9. CASE StayIdle
  <2>1. PICK s \in LoginStates : signals' = WithState(s)
    BY <1>9 DEF StayIdle, LoginStates
  <2>2. QED
    BY <1>5, <1>6, <1>9, <2>1 DEF StayIdle, WithState, qt, ui
<1>10. CASE Dial
  <2>1. "Connecting" \in LoginStates
    BY DEF LoginStates
  <2>2. QED
    BY <1>5, <1>6, <1>10, <2>1 DEF Dial, WithState, qt
<1>11. CASE StaySignedIn
  <2>1. "LoggedIn" \in LoginStates
    BY DEF LoginStates
  <2>2. QED
    BY <1>5, <1>6, <1>11, <2>1 DEF StaySignedIn, WithState, qt
<1>12. CASE Wake \/ DialFails \/ DialSucceeds \/ MarkInFlight
  BY <1>5, <1>6, <1>12 DEF Wake, DialFails, DialSucceeds, MarkInFlight, qt, ui
<1>13. CASE SignOut
  BY <1>4, <1>13 DEF SignOut
<1>14. CASE ReceiveSuccess
  <2>1. Receive("AUTH_SUCCESS") /\ UNCHANGED <<signals, isLoggedIn, pendingLogout>>
    BY <1>14 DEF ReceiveSuccess, qt, ui
  <2>2. ~uuid
    BY <1>0, <2>1, SignedOutWhenAnswered DEF AuthAnswers
  <2>3. ~isLoggedIn /\ \A i \in 1 .. Len(signals) : signals[i] # "confirmLogin"
    BY <1>4, <2>2
  <2>4. QED
    BY <1>4, <2>1, <2>3 DEF FirstSession
<1>15. CASE ConfirmLogin
  <2>1. tcp = "AUTH_SUCCESS" /\ tcp' = "none" /\ UNCHANGED <<isLoggedIn, uuid, pendingLogout>>
    BY <1>15 DEF ConfirmLogin, qt, ui
  <2>2. uuid'
    BY <1>4, <2>1 DEF WindowInv
  <2>3. QED
    BY <1>4, <2>1, <2>2 DEF FirstSession
<1>16. CASE ReceiveFailure
  BY <1>5, <1>6, <1>16 DEF ReceiveFailure, qt, ui
<1>17. CASE ClearInFlight
  BY <1>5, <1>6, <1>17 DEF ClearInFlight, qt, ui
<1>18. CASE ReceivePasswordChanged \/ ServerAnswers \/ ChangePassword
            \/ \E c \in 1 .. conn : ConnectionCloses(c)
  BY <1>5, <1>6, <1>18
     DEF ReceivePasswordChanged, ServerAnswers, ChangePassword, ConnectionCloses, qt, ui
<1>19. QED
  BY <1>2, <1>7, <1>8, <1>9, <1>10, <1>11, <1>12, <1>13, <1>14, <1>15, <1>16, <1>17, <1>18
     DEF Next, UserNext, QtNext, ControlNext, TcpNext

LEMMA EarlyStep == LoginInv /\ EarlyInv /\ [Next]_vars => EarlyInv'
<1> SUFFICES ASSUME LoginInv, EarlyInv, [Next]_vars PROVE EarlyInv'
  OBVIOUS
<1>1. CASE UNCHANGED vars
  BY <1>1 DEF EarlyInv, FirstSession, WindowInv, vars, qt, ui
<1>2. CASE Next
  <2>1. FirstSession'
    BY <1>2, FirstSessionStep
  <2>2. /\ logouts \in Nat
        /\ Logout => logouts' = logouts + 1
        /\ ~Logout => logouts' = logouts
    BY <1>2, LogoutsCounted DEF LoginInv, TypeOK, Logout
  <2>3. ASSUME logouts' <= 1 PROVE WindowInv'
    <3>1. WindowInv
      BY <2>2, <2>3 DEF EarlyInv
    <3>2. Logout => logouts = 0 /\ isLoggedIn
      BY <2>2, <2>3 DEF Logout
    <3>3. LogoutInTime
      BY <3>2 DEF LogoutInTime, EarlyInv, FirstSession
    <3>4. QED
      BY <1>2, <3>1, <3>3, WindowStep
  <2>4. QED
    BY <2>1, <2>3 DEF EarlyInv
<1>3. QED
  BY <1>1, <1>2

\* Up to the second click on Log Out, a window that has shown every signal says signed
\* in if and only if the client is, whatever the order in which the threads posted.
THEOREM WindowIsRight == Spec => []WindowAgrees
<1>1. Init => EarlyInv
  <2> SUFFICES ASSUME Init PROVE EarlyInv
    OBVIOUS
  <2>1. signals = <<>> /\ isLoggedIn = FALSE /\ pendingLogout = FALSE
    BY DEF Init
  <2>2. \A i \in 1 .. Len(signals) : FALSE
    BY <2>1
  <2>3. FirstSession
    BY <2>1, <2>2 DEF FirstSession
  <2>4. QED
    BY <2>3, WindowInit DEF EarlyInv
<1>2. EarlyInv => WindowAgrees
  BY NothingToCome DEF EarlyInv, WindowAgrees
<1>3. QED
  BY <1>1, <1>2, EarlyStep, LoginInvariance, PTL DEF Spec
=============================================================================
