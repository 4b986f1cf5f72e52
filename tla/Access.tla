------------------------------- MODULE Access -------------------------------
(***************************************************************************)
(* What the server promises about who gets in: requests are handled one at *)
(* a time, and each of them takes effect in whole steps that look at       *)
(* nothing but the present password of the account and the present         *)
(* standing of the token shown.  No database, no queue, no second thread.  *)
(*                                                                         *)
(* A mishap may spare a token that is being used up, and may restart the   *)
(* server; it never lets anybody in.                                       *)
(***************************************************************************)
EXTENDS Integers

CONSTANTS
    Users,
    Passwords,
    NoAccount,  \* the password of no account, and of a request without one
    NoUser,
    Secrets     \* what session tokens and reset tokens are drawn from

VARIABLES
    password,   \* of each account
    inside,     \* accounts signed in
    owner,      \* whom each session token was given to
    printed,    \* whom each reset token was printed for
    used,       \* tokens logged out, replaced or consumed
    lost,       \* tokens a mishap spared, or will
    request,    \* the request being handled
    phase,      \* how far: asked, the reset token redeemed, the password written
    mishaps

vars == <<password, inside, owner, printed, used, lost, request, phase, mishaps>>

NoRequest == [kind |-> "none", user |-> NoUser, password |-> NoAccount,
              new |-> NoAccount, token |-> 0, reset |-> 0]

Good(s) == s \notin used \ lost

Fresh(s) == owner[s] = NoUser /\ printed[s] = NoUser /\ s \notin used

Init ==
    /\ password = [u \in Users |-> NoAccount]
    /\ inside = {} /\ used = {} /\ lost = {}
    /\ owner = [s \in Secrets |-> NoUser]
    /\ printed = [s \in Secrets |-> NoUser]
    /\ request = NoRequest /\ phase = "asked"
    /\ mishaps = 0

Handling(kind) == request.kind = kind /\ phase = "asked"

\* A client can show only what it was given.
Ask ==
    /\ request = NoRequest /\ request' # NoRequest
    /\ request'.kind = "AUTH_SESSION" => owner[request'.token] # NoUser
    /\ request'.kind = "RESET_PASSWORD" => printed[request'.reset] # NoUser
    /\ UNCHANGED <<password, inside, owner, printed, used, lost, phase, mishaps>>

\* The request's new password becomes its account's.
Write ==
    /\ password' = [password EXCEPT ![request.user] = request.new]
    /\ phase' = "written"
    /\ UNCHANGED <<inside, owner, printed, used, lost, request, mishaps>>

Register == Handling("REGISTER") /\ password[request.user] = NoAccount /\ Write

Change ==
    /\ Handling("CHANGE_PASSWORD") /\ request.user \in inside
    /\ password[request.user] = request.password
    /\ Write

\* A reset token is taken for the account it was printed for, and used up.
Redeem ==
    /\ Handling("RESET_PASSWORD")
    /\ printed[request.reset] = request.user /\ Good(request.reset)
    /\ used' = used \cup {request.reset}
    /\ phase' = "redeemed"
    /\ UNCHANGED <<password, inside, owner, printed, lost, request, mishaps>>

Reset == phase = "redeemed" /\ Write

Done == request' = NoRequest /\ phase' = "asked"

\* The right password gets a new session token, and a new one ends all others.
Admit(s) ==
    /\ \/ Handling("LOGIN") /\ password[request.user] = request.password
       \/ phase = "written" /\ password[request.user] = request.new
    /\ password[request.user] # NoAccount
    /\ Fresh(s)
    /\ owner' = [owner EXCEPT ![s] = request.user]
    /\ inside' = IF request.kind = "CHANGE_PASSWORD" THEN inside
                 ELSE inside \cup {request.user}
    /\ used' = IF request.kind \in {"CHANGE_PASSWORD", "RESET_PASSWORD"}
                 THEN used \cup {t \in Secrets : owner[t] = request.user} ELSE used
    /\ Done
    /\ UNCHANGED <<password, printed, lost, mishaps>>

\* A session token lets in the account it was given to.
Resume ==
    /\ Handling("AUTH_SESSION") /\ Good(request.token)
    /\ inside' = inside \cup {owner[request.token]}
    /\ Done
    /\ UNCHANGED <<password, owner, printed, used, lost, mishaps>>

\* A refusal changes nothing, except that it uses up the reset token shown.
Refuse ==
    /\ request # NoRequest /\ phase # "written"
    /\ used' = IF Handling("RESET_PASSWORD") THEN used \cup {request.reset} ELSE used
    /\ Done
    /\ UNCHANGED <<password, inside, owner, printed, lost, mishaps>>

LogOut(s) ==
    /\ request = NoRequest /\ owner[s] # NoUser
    /\ inside' = inside \ {owner[s]}
    /\ used' = used \cup {s}
    /\ UNCHANGED <<password, owner, printed, lost, request, phase, mishaps>>

\* The operator resets an account that exists.
Announce(s, u) ==
    /\ password[u] # NoAccount /\ Fresh(s)
    /\ printed' = [printed EXCEPT ![s] = u]
    /\ UNCHANGED <<password, inside, owner, used, lost, request, phase, mishaps>>

Mishap ==
    /\ mishaps' = mishaps + 1
    /\ lost \subseteq lost'
    /\ \/ UNCHANGED <<inside, request, phase>>
       \/ inside' = {} /\ Done
    /\ UNCHANGED <<password, owner, printed, used>>

Next ==
    \/ Ask \/ Register \/ Change \/ Redeem \/ Reset
    \/ \E s \in Secrets : Admit(s) \/ LogOut(s) \/ \E u \in Users : Announce(s, u)
    \/ Resume \/ Refuse
    \/ Mishap

Spec == Init /\ [][Next]_vars
=============================================================================
