------------------------------ MODULE AuthStore ------------------------------
(***************************************************************************)
(* Accounts, session tokens and reset tokens on the server.                *)
(*                                                                         *)
(* Every call of DatabaseManager becomes a task on m_taskQueue, which one  *)
(* worker thread runs in order.  Most calls then wait for the task's       *)
(* promise; revokeSession and revokeAllSessions do not.  Two threads call: *)
(* the TCP thread, whose account handlers are sequences of such calls, and *)
(* the console thread, which issues reset tokens.  The process can be      *)
(* killed at any time (the server has no other way to stop), which loses   *)
(* the queue and keeps the database.  A statement can fail: the handlers   *)
(* look at some results and ignore others.                                 *)
(*                                                                         *)
(* Requests that a handler turns down before its first call (throttling,   *)
(* malformed fields) change nothing here and are left out, as are message  *)
(* INSERTs.  revokeAllSessions and the createSession that follows it are   *)
(* queued in one step: what the worker does in between, it may do after.   *)
(***************************************************************************)
EXTENDS Integers, Sequences

CONSTANTS
    Users,          \* account names, standing for their uuids too
    Passwords,      \* passwords accounts are given
    WrongPassword,  \* one no account has
    NoAccount,      \* no row of accounts
    NoUser,
    NoAnswer,       \* the promise is not set
    Forgetful,      \* bound: accounts the operator resets
    MaxSecrets,     \* bound: random tokens the server draws
    MaxQueue,       \* bound: tasks queued when a LOGOUT is read
    MaxMishaps      \* bound: crashes and failing statements together

ASSUME StoreAssumption ==
    /\ WrongPassword \notin Passwords
    /\ NoAccount \notin Passwords \cup {WrongPassword}
    /\ NoUser \notin Users /\ Forgetful \subseteq Users
    /\ NoAnswer \notin Users \cup Passwords \cup BOOLEAN \cup {NoAccount, NoUser}
    /\ MaxSecrets \in Nat /\ MaxQueue \in Nat /\ MaxMishaps \in Nat

Typed == Passwords \cup {WrongPassword}
Secrets == 1 .. MaxSecrets
Threads == {"tcp", "console"}
Answers == Users \cup Passwords \cup BOOLEAN \cup {NoAccount, NoUser, NoAnswer}

Tasks ==
    [op : {"getAccountByUsername"}, by : Threads, user : Users] \cup
    [op : {"createAccount", "updateAccountPassword"}, by : {"tcp"},
     user : Users, password : Passwords] \cup
    [op : {"createSession"}, by : {"tcp"}, user : Users, token : Secrets] \cup
    [op : {"getSessionAndAccount"}, by : {"tcp"}, token : Secrets] \cup
    [op : {"revokeSession"}, token : Secrets] \cup
    [op : {"revokeAllSessions"}, user : Users] \cup
    [op : {"createPasswordReset"}, by : {"console"}, user : Users, reset : Secrets] \cup
    [op : {"consumePasswordReset"}, by : {"tcp"}, reset : Secrets]

VARIABLES
    accounts,   \* table accounts: the password of each
    sessions,   \* table sessions: the owner of each token
    resets,     \* table password_resets: the owner of each reset token
    expired,    \* secrets whose expires_at has passed
    working,    \* the worker was started (initialize succeeded)
    queue,      \* m_taskQueue
    answers,    \* what each thread's future holds
    tcp,        \* the handler the TCP thread is in
    console,    \* the command the console thread is in
    clientMap,  \* accounts signed in
    drawn,      \* secrets drawn so far
    handed,     \* session tokens sent to a client, with their owner
    told,       \* reset tokens printed on the console, with their account
    dead,       \* history: secrets the server has answered to be used up
    spared,     \* history: secrets whose DELETE failed or was lost in a crash
    void,       \* history: tokens older than a password update, or not stored
    mishaps     \* bound: crashes and failed statements so far

tables == <<accounts, sessions, resets>>
server == <<tcp, console, clientMap>>
clients == <<handed, told, expired>>
history == <<dead, spared, void>>
vars == <<tables, working, queue, answers, server, drawn, clients, history, mishaps>>

Idle == [kind |-> "none", stage |-> "idle", user |-> NoUser, password |-> NoAccount,
         new |-> NoAccount, token |-> 0, reset |-> 0]
ConsoleIdle == [stage |-> "idle", user |-> NoUser, reset |-> 0]

TypeOK ==
    /\ accounts \in [Users -> Passwords \cup {NoAccount}]
    /\ sessions \in [Secrets -> Users \cup {NoUser}]
    /\ resets \in [Secrets -> Users \cup {NoUser}]
    /\ expired \subseteq Secrets /\ working \in BOOLEAN
    /\ queue \in Seq(Tasks)
    /\ answers \in [Threads -> Answers]
    /\ tcp \in [kind : {"none", "LOGIN", "REGISTER", "RESET_PASSWORD",
                        "CHANGE_PASSWORD", "AUTH_SESSION"},
                stage : {"idle", "account", "create", "consume", "update",
                         "session", "lookup"},
                user : Users \cup {NoUser}, password : Typed \cup {NoAccount},
                new : Passwords \cup {NoAccount}, token : 0 .. MaxSecrets,
                reset : 0 .. MaxSecrets]
    /\ console \in [stage : {"idle", "account", "reset"}, user : Users \cup {NoUser},
                    reset : 0 .. MaxSecrets]
    /\ clientMap \subseteq Users
    /\ drawn \in 0 .. MaxSecrets
    /\ handed \in [Secrets -> Users \cup {NoUser}]
    /\ told \in [Secrets -> Users \cup {NoUser}]
    /\ dead \subseteq Secrets /\ spared \subseteq Secrets /\ void \subseteq Secrets
    /\ mishaps \in 0 .. MaxMishaps

\* A process starts on a fresh database; Crash starts it again on a used one.
Init ==
    /\ accounts = [u \in Users |-> NoAccount]
    /\ sessions = [s \in Secrets |-> NoUser]
    /\ resets = [s \in Secrets |-> NoUser]
    /\ expired = {} /\ working \in BOOLEAN
    /\ queue = <<>> /\ answers = [h \in Threads |-> NoAnswer]
    /\ tcp = Idle /\ console = ConsoleIdle /\ clientMap = {}
    /\ drawn = 0 /\ handed = [s \in Secrets |-> NoUser]
    /\ told = [s \in Secrets |-> NoUser]
    /\ dead = {} /\ spared = {} /\ void = {}
    /\ mishaps = 0

-----------------------------------------------------------------------------
(* The worker: one task at a time, whole.                                  *)

\* m_taskQueue.front()
Task == Head(queue)

Runs(op) == working /\ queue # <<>> /\ Task.op = op

Finish == queue' = Tail(queue)

\* Mutant: an error path that forgets the promise.
AnswerUnlessFalse(value) ==
    /\ Finish
    /\ answers' = IF value = FALSE THEN answers ELSE [answers EXCEPT ![Task.by] = value]

\* promise->set_value(value)
Answer(value) == Finish /\ answers' = [answers EXCEPT ![Task.by] = value]

Mishap == mishaps < MaxMishaps /\ mishaps' = mishaps + 1

Succeeds == UNCHANGED mishaps
Fails == Mishap

workerKeeps == <<working, server, drawn, clients, dead>>

GetAccount ==
    /\ Runs("getAccountByUsername")
    /\ \/ Succeeds /\ Answer(accounts[Task.user])
       \/ Fails /\ Answer(NoAccount)
    /\ UNCHANGED <<tables, spared, void, workerKeeps>>

\* username is UNIQUE.
CreateAccount ==
    /\ Runs("createAccount")
    /\ \/ /\ Succeeds /\ accounts[Task.user] = NoAccount
          /\ accounts' = [accounts EXCEPT ![Task.user] = Task.password]
          /\ Answer(TRUE)
       \/ /\ \/ Succeeds /\ accounts[Task.user] # NoAccount
             \/ Fails
          /\ Answer(FALSE)
          /\ UNCHANGED accounts
    /\ UNCHANGED <<sessions, resets, spared, void, workerKeeps>>

Handed(u) == {s \in Secrets : handed[s] = u}

UpdateAccountPassword ==
    /\ Runs("updateAccountPassword")
    /\ \/ /\ Succeeds
          /\ accounts' = [accounts EXCEPT ![Task.user] = Task.password]
          /\ void' = void \cup Handed(Task.user)
          /\ Answer(TRUE)
       \/ Fails /\ Answer(FALSE) /\ UNCHANGED <<accounts, void>>
    /\ UNCHANGED <<sessions, resets, spared, workerKeeps>>

CreateSession ==
    /\ Runs("createSession")
    /\ \/ /\ Succeeds
          /\ sessions' = [sessions EXCEPT ![Task.token] = Task.user]
          /\ Answer(TRUE)
          /\ UNCHANGED void
       \/ Fails /\ void' = void \cup {Task.token} /\ Answer(FALSE) /\ UNCHANGED sessions
    /\ UNCHANGED <<accounts, resets, spared, workerKeeps>>

GetSessionAndAccount ==
    /\ Runs("getSessionAndAccount")
    /\ \/ /\ Succeeds
          /\ Answer(IF Task.token \in expired THEN NoUser ELSE sessions[Task.token])
       \/ Fails /\ Answer(NoUser)
    /\ UNCHANGED <<tables, spared, void, workerKeeps>>

\* The DELETE of revokeSession or revokeAllSessions; nobody waits for it.
Delete(tokens) ==
    /\ Finish
    /\ \/ /\ Succeeds
          /\ sessions' = [s \in Secrets |-> IF s \in tokens THEN NoUser ELSE sessions[s]]
          /\ UNCHANGED spared
       \/ Fails /\ spared' = spared \cup tokens /\ UNCHANGED sessions
    /\ UNCHANGED <<accounts, resets, answers, void, workerKeeps>>

RevokeSession == Runs("revokeSession") /\ Delete({Task.token})

RevokeAllSessions ==
    Runs("revokeAllSessions") /\ Delete({s \in Secrets : sessions[s] = Task.user})

CreatePasswordReset ==
    /\ Runs("createPasswordReset")
    /\ \/ /\ Succeeds
          /\ resets' = [resets EXCEPT ![Task.reset] = Task.user]
          /\ Answer(TRUE)
       \/ Fails /\ Answer(FALSE) /\ UNCHANGED resets
    /\ UNCHANGED <<accounts, sessions, spared, void, workerKeeps>>

\* Mutant: the token is left for whoever it belongs to.
SpentByOwner == [resets EXCEPT ![Task.reset] = IF @ = tcp.user THEN NoUser ELSE @]

\* The row is deleted on first sight.
Spent == [resets EXCEPT ![Task.reset] = NoUser]

\* The lookup and the DELETE are two statements of one task; one may fail or both.
ConsumePasswordReset ==
    /\ Runs("consumePasswordReset")
    /\ LET found == IF Task.reset \in expired THEN NoUser ELSE resets[Task.reset]
       IN  \/ Succeeds /\ resets' = Spent /\ Answer(found) /\ UNCHANGED spared
           \/ Fails /\ resets' = Spent /\ Answer(NoUser) /\ UNCHANGED spared
           \/ /\ Fails /\ \E seen \in {found, NoUser} : Answer(seen)
              /\ spared' = spared \cup {Task.reset}
              /\ UNCHANGED resets
    /\ UNCHANGED <<accounts, sessions, void, workerKeeps>>

Worker ==
    \/ GetAccount
    \/ CreateAccount
    \/ UpdateAccountPassword
    \/ CreateSession
    \/ GetSessionAndAccount
    \/ RevokeSession
    \/ RevokeAllSessions
    \/ CreatePasswordReset
    \/ ConsumePasswordReset

-----------------------------------------------------------------------------
(* The TCP thread: the account handlers, cut where they wait.              *)

tcpKeeps == <<tables, working, console, told, expired, spared, void, mishaps>>

FindAccount(by, u) == [op |-> "getAccountByUsername", by |-> by, user |-> u]

\* A request or command that may draw a secret is taken while the bound lets it.
Room ==
    drawn + (IF tcp.stage = "idle" THEN 0 ELSE 1)
          + (IF console.stage = "idle" THEN 0 ELSE 1) < MaxSecrets

\* A request is read; the handler makes its first call.
Receive(request, task) ==
    /\ tcp.stage = "idle"
    /\ tcp' = request
    /\ queue' = Append(queue, task)
    /\ UNCHANGED <<answers, clientMap, drawn, handed, dead, tcpKeeps>>

ReceiveLogin(u, p) ==
    Room /\ Receive([Idle EXCEPT !.kind = "LOGIN", !.stage = "account", !.user = u,
                                 !.password = p],
                    FindAccount("tcp", u))

ReceiveRegister(u, p) ==
    Room /\ Receive([Idle EXCEPT !.kind = "REGISTER", !.stage = "account", !.user = u,
                                 !.new = p],
                    FindAccount("tcp", u))

ReceiveChangePassword(u, p, q) ==
    /\ Room /\ u \in clientMap
    /\ Receive([Idle EXCEPT !.kind = "CHANGE_PASSWORD", !.stage = "account", !.user = u,
                            !.password = p, !.new = q],
               FindAccount("tcp", u))

ReceiveResetPassword(u, r, p) ==
    /\ Room /\ told[r] # NoUser
    /\ Receive([Idle EXCEPT !.kind = "RESET_PASSWORD", !.stage = "consume", !.user = u,
                            !.new = p, !.reset = r],
               [op |-> "consumePasswordReset", by |-> "tcp", reset |-> r])

ReceiveAuthSession(t) ==
    /\ handed[t] # NoUser
    /\ Receive([Idle EXCEPT !.kind = "AUTH_SESSION", !.stage = "lookup", !.token = t],
               [op |-> "getSessionAndAccount", by |-> "tcp", token |-> t])

\* LOGOUT waits for nothing.
ReceiveLogout(t) ==
    /\ tcp.stage = "idle" /\ handed[t] # NoUser /\ Len(queue) < MaxQueue
    /\ queue' = Append(queue, [op |-> "revokeSession", token |-> t])
    /\ clientMap' = clientMap \ {handed[t]}
    /\ dead' = dead \cup {t}
    /\ UNCHANGED <<answers, tcp, drawn, handed, tcpKeeps>>

\* The future of the handler's last call is ready.
Answered(stage) == tcp.stage = stage /\ answers["tcp"] # NoAnswer

TakeAnswer == answers' = [answers EXCEPT !["tcp"] = NoAnswer]

\* A failure is answered; a reset token it presented is used up.
Refuse ==
    /\ tcp' = Idle
    /\ dead' = IF tcp.stage = "consume" THEN dead \cup {tcp.reset} ELSE dead
    /\ UNCHANGED <<queue, clientMap, drawn, handed>>

\* Mutant: the sessions are revoked after the new one is created.
RevokedLast(u, t) ==
    <<[op |-> "createSession", by |-> "tcp", user |-> u, token |-> t],
      [op |-> "revokeAllSessions", user |-> u]>>

\* Mutant: the new session is all there is to it.
ReissuedOnly(u, t) ==
    <<[op |-> "createSession", by |-> "tcp", user |-> u, token |-> t]>>

\* A password change revokes what there was before the new session.
Reissued(u, t) ==
    <<[op |-> "revokeAllSessions", user |-> u],
      [op |-> "createSession", by |-> "tcp", user |-> u, token |-> t]>>

\* createSessionForAccount
Issue ==
    /\ drawn' = drawn + 1
    /\ tcp' = [tcp EXCEPT !.stage = "session", !.token = drawn + 1]
    /\ queue' = queue \o
         IF tcp.kind \in {"RESET_PASSWORD", "CHANGE_PASSWORD"}
           THEN Reissued(tcp.user, drawn + 1)
           ELSE <<[op |-> "createSession", by |-> "tcp", user |-> tcp.user,
                   token |-> drawn + 1]>>
    /\ UNCHANGED <<clientMap, handed, dead>>

Write(op, stage) ==
    /\ tcp' = [tcp EXCEPT !.stage = stage]
    /\ queue' = Append(queue, [op |-> op, by |-> "tcp", user |-> tcp.user,
                               password |-> tcp.new])
    /\ UNCHANGED <<clientMap, drawn, handed>>

\* The account was looked up.
AccountFound ==
    /\ Answered("account") /\ TakeAnswer
    /\ LET account == answers["tcp"]
       IN  \/ /\ tcp.kind = "LOGIN"
              /\ IF account = tcp.password THEN Issue ELSE Refuse
           \/ /\ tcp.kind = "REGISTER"
              /\ \/ /\ account = NoAccount
                    /\ Write("createAccount", "create") /\ UNCHANGED dead
                 \/ Refuse \* the name is taken, or the registration budget used up
           \/ /\ tcp.kind = "CHANGE_PASSWORD"
              /\ IF account = tcp.password
                   THEN Write("updateAccountPassword", "update") /\ UNCHANGED dead
                   ELSE Refuse
    /\ UNCHANGED tcpKeeps

\* Mutant: any account's token will do.
ResetFound == answers["tcp"] # NoUser

\* The reset token belongs to the account that was named.
ResetMatches == answers["tcp"] = tcp.user

\* The reset token was consumed.
ResetConsumed ==
    /\ Answered("consume") /\ TakeAnswer
    /\ \/ /\ ResetMatches
          /\ Write("updateAccountPassword", "update")
          /\ dead' = dead \cup {tcp.reset}
       \/ ~ResetMatches /\ Refuse
    /\ UNCHANGED tcpKeeps

\* createAccount or updateAccountPassword came back.
Written ==
    /\ Answered("create") \/ Answered("update")
    /\ TakeAnswer
    /\ IF answers["tcp"] THEN Issue ELSE Refuse
    /\ UNCHANGED tcpKeeps

\* The new token is sent whether or not it was stored.  Only AUTH_SUCCESS
\* signs the account in; a password change answers for the tokens before it.
Issued ==
    /\ Answered("session") /\ TakeAnswer
    /\ handed' = [handed EXCEPT ![tcp.token] = tcp.user]
    /\ clientMap' = IF tcp.kind = "CHANGE_PASSWORD" THEN clientMap
                    ELSE clientMap \cup {tcp.user}
    /\ dead' = IF tcp.kind \in {"RESET_PASSWORD", "CHANGE_PASSWORD"}
                 THEN dead \cup Handed(tcp.user) ELSE dead
    /\ tcp' = Idle
    /\ UNCHANGED <<queue, drawn, tcpKeeps>>

\* completeAuthentication, if the token was found.
SignedIn == clientMap \cup ({answers["tcp"]} \ {NoUser})

\* AUTH_SESSION goes on with the token it was given.
SessionFound ==
    /\ Answered("lookup") /\ TakeAnswer
    /\ clientMap' = SignedIn
    /\ tcp' = Idle
    /\ UNCHANGED <<queue, drawn, handed, dead, tcpKeeps>>

TcpGoesOn == AccountFound \/ ResetConsumed \/ Written \/ Issued \/ SessionFound

Requests ==
    \/ \E u \in Users, p \in Typed : ReceiveLogin(u, p)
    \/ \E u \in Users, p \in Passwords : ReceiveRegister(u, p)
    \/ \E u \in Users, p \in Typed, q \in Passwords : ReceiveChangePassword(u, p, q)
    \/ \E u \in Users, p \in Passwords, r \in Secrets : ReceiveResetPassword(u, r, p)
    \/ \E t \in Secrets : ReceiveAuthSession(t) \/ ReceiveLogout(t)

-----------------------------------------------------------------------------
(* The console thread: reset-password <username>.                          *)

consoleKeeps == <<tables, working, tcp, clientMap, handed, expired, history, mishaps>>

Command(u) ==
    /\ u \in Forgetful /\ console.stage = "idle" /\ Room
    /\ console' = [ConsoleIdle EXCEPT !.stage = "account", !.user = u]
    /\ queue' = Append(queue, FindAccount("console", u))
    /\ UNCHANGED <<answers, drawn, told, consoleKeeps>>

ConsoleAnswered(stage) ==
    /\ console.stage = stage /\ answers["console"] # NoAnswer
    /\ answers' = [answers EXCEPT !["console"] = NoAnswer]

DrawReset ==
    /\ ConsoleAnswered("account")
    /\ \/ /\ answers["console"] = NoAccount
          /\ console' = ConsoleIdle
          /\ UNCHANGED <<queue, drawn>>
       \/ /\ answers["console"] # NoAccount
          /\ drawn' = drawn + 1
          /\ console' = [console EXCEPT !.stage = "reset", !.reset = drawn + 1]
          /\ queue' = Append(queue, [op |-> "createPasswordReset", by |-> "console",
                                     user |-> console.user, reset |-> drawn + 1])
    /\ UNCHANGED <<told, consoleKeeps>>

PrintReset ==
    /\ ConsoleAnswered("reset")
    /\ told' = IF answers["console"] THEN [told EXCEPT ![console.reset] = console.user]
               ELSE told
    /\ console' = ConsoleIdle
    /\ UNCHANGED <<queue, drawn, consoleKeeps>>

ConsoleGoesOn == DrawReset \/ PrintReset

-----------------------------------------------------------------------------
(* The surroundings.                                                       *)

Expire(s) ==
    /\ sessions[s] # NoUser \/ resets[s] # NoUser
    /\ expired' = expired \cup {s}
    /\ UNCHANGED <<tables, working, queue, answers, server, drawn, handed, told,
                   history, mishaps>>

Queued(op) == {queue[i] : i \in {j \in 1 .. Len(queue) : queue[j].op = op}}

\* The process is killed and started again; a failure to open the database is
\* logged, and the worker then never started.
Crash ==
    /\ Mishap
    /\ working' \in BOOLEAN
    /\ spared' = spared \cup {task.token : task \in Queued("revokeSession")}
    /\ queue' = <<>> /\ answers' = [h \in Threads |-> NoAnswer]
    /\ tcp' = Idle /\ console' = ConsoleIdle /\ clientMap' = {}
    /\ UNCHANGED <<tables, drawn, clients, dead, void>>

Next ==
    \/ Worker
    \/ Requests
    \/ TcpGoesOn
    \/ \E u \in Users : Command(u)
    \/ ConsoleGoesOn
    \/ \E s \in Secrets : Expire(s)
    \/ Crash

Spec == Init /\ [][Next]_vars

\* The threads run; nobody owes a request, a command, or a crash.
Fairness == WF_vars(Worker) /\ WF_vars(TcpGoesOn) /\ WF_vars(ConsoleGoesOn)

FairSpec == Spec /\ Fairness

-----------------------------------------------------------------------------
(* Properties.                                                             *)

\* "Every existing session is dead once the password changes."
\* (Application.cpp:513), and so is the one a LOGOUT was acknowledged for:
\* although the revocation was only queued when the answer was sent, no later
\* AUTH_SESSION finds the token, unless the DELETE failed or a crash lost it.
RevokedSignsNobodyIn ==
    tcp.stage = "lookup" /\ answers["tcp"] \in Users => tcp.token \notin dead \ spared

\* "The token row is consumed on first sight (one-time use)"
\* (Application.cpp:495): once a RESET_PASSWORD was answered, its token works
\* for nobody, across crashes and whatever became of that request.
ResetWorksOnce ==
    tcp.stage = "consume" /\ answers["tcp"] \in Users => tcp.reset \notin dead \ spared

\* A token sent to a client is in the store, for its owner, until the client
\* logs out or the account's password is updated; its INSERT may have failed.
HandedOutIsStored ==
    \A s \in Secrets : handed[s] # NoUser /\ s \notin dead \cup void => sessions[s] = handed[s]

\* How far the request is that tcp handles.
Request == [kind |-> tcp.kind, user |-> tcp.user, password |-> tcp.password, new |-> tcp.new,
            token |-> IF tcp.kind = "AUTH_SESSION" THEN tcp.token ELSE 0, reset |-> tcp.reset]

Phase ==
    IF \/ tcp.stage \in {"create", "update"} /\ answers["tcp"] = TRUE
       \/ tcp.stage = "session" /\ tcp.kind # "LOGIN"
      THEN "written"
    ELSE IF tcp.stage = "update" /\ tcp.kind = "RESET_PASSWORD" THEN "redeemed"
    ELSE "asked"

Promise == INSTANCE Access WITH
    password <- accounts, inside <- clientMap, owner <- handed, printed <- told,
    used <- dead, lost <- spared, request <- Request, phase <- Phase

\* Although a handler waits for the worker between what it looks up and what it does
\* about it, and a console thread, expiry, failing statements and crashes go on
\* meanwhile, each request has the effect of whole steps: nobody gets in and no
\* password changes by a password or token that is not good at that moment.
ImplementsAccess == Promise!Spec

\* If the database was opened, every request is answered and every command
\* returns: the threads wait for each other's tasks, but not for ever.
EveryCallReturns ==
    /\ (tcp.stage # "idle" /\ working) ~> tcp.stage = "idle"
    /\ (console.stage # "idle" /\ working) ~> console.stage = "idle"
=============================================================================
