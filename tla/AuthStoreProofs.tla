--------------------------- MODULE AuthStoreProofs ---------------------------
(***************************************************************************)
(* For every set of accounts and passwords and every bound: a token the    *)
(* server has answered to be revoked signs nobody in, a reset token works  *)
(* once, and a token that was handed out stays in the store.  What a       *)
(* handler looked up before it waited still holds when it acts (ByRight),  *)
(* so the server is one that handles each request by itself (Access).      *)
(*                                                                         *)
(* None of these is inductive.  They rest on who waits for what            *)
(* (Calling), on which secret is what (Drawing), and on what the order of  *)
(* the task queue promises about the DELETEs in it (Revoking).             *)
(***************************************************************************)
EXTENDS AuthStore, TLAPS

-----------------------------------------------------------------------------
(* Who waits for what.                                                     *)

ByTcp(task) ==
    \/ task.op \in {"createAccount", "updateAccountPassword", "createSession",
                    "getSessionAndAccount", "consumePasswordReset"}
    \/ task.op = "getAccountByUsername" /\ task.by = "tcp"

ByConsole(task) ==
    \/ task.op = "createPasswordReset"
    \/ task.op = "getAccountByUsername" /\ task.by = "console"

\* The call the handler waits in.
Asked(task) ==
    \/ tcp.stage = "account" /\ task.op = "getAccountByUsername"
    \/ tcp.stage = "create" /\ task.op = "createAccount"
    \/ tcp.stage = "update" /\ task.op = "updateAccountPassword" /\ task.user = tcp.user
    \/ /\ tcp.stage = "session" /\ task.op = "createSession"
       /\ task.user = tcp.user /\ task.token = tcp.token
    \/ tcp.stage = "lookup" /\ task.op = "getSessionAndAccount" /\ task.token = tcp.token
    \/ tcp.stage = "consume" /\ task.op = "consumePasswordReset" /\ task.reset = tcp.reset

AskedByConsole(task) ==
    \/ console.stage = "account" /\ task.op = "getAccountByUsername"
    \/ console.stage = "reset" /\ task.op = "createPasswordReset" /\ task.reset = console.reset

\* A call in the queue is the one its thread waits in, and the only one.
OneCall ==
    /\ \A i \in 1 .. Len(queue) : ByTcp(queue[i]) =>
         /\ Asked(queue[i]) /\ answers["tcp"] = NoAnswer
         /\ \A j \in 1 .. Len(queue) : ByTcp(queue[j]) => i = j
    /\ \A i \in 1 .. Len(queue) : ByConsole(queue[i]) =>
         /\ AskedByConsole(queue[i]) /\ answers["console"] = NoAnswer
         /\ \A j \in 1 .. Len(queue) : ByConsole(queue[j]) => i = j

\* An answer is of the kind its call promises.
AnswerFits ==
    /\ tcp.stage = "idle" => answers["tcp"] = NoAnswer
    /\ console.stage = "idle" => answers["console"] = NoAnswer
    /\ answers["tcp"] # NoAnswer =>
         /\ tcp.stage \in {"create", "update", "session"} => answers["tcp"] \in BOOLEAN
         /\ tcp.stage \in {"lookup", "consume"} => answers["tcp"] \in Users \cup {NoUser}

\* What a handler knows at each of its stages.
HandlerFits ==
    /\ tcp.stage \notin {"idle", "lookup"} => tcp.user \in Users
    /\ tcp.kind \in {"REGISTER", "CHANGE_PASSWORD", "RESET_PASSWORD"} => tcp.new \in Passwords
    /\ tcp.stage = "create" => tcp.kind = "REGISTER"
    /\ tcp.stage \in {"consume", "update"} => tcp.kind \in {"CHANGE_PASSWORD", "RESET_PASSWORD"}
    /\ console.stage # "idle" => console.user \in Users

Calling == OneCall /\ AnswerFits /\ HandlerFits

-----------------------------------------------------------------------------
(* Which secret is what.                                                   *)

\* Every handler that still has a secret to draw finds one.
Reserved ==
    drawn + (IF tcp.stage \in {"account", "create", "consume", "update"} THEN 1 ELSE 0)
          + (IF console.stage = "account" THEN 1 ELSE 0) <= MaxSecrets

IsSession(s) == sessions[s] # NoUser \/ handed[s] # NoUser \/ tcp.token = s
IsReset(s) == resets[s] # NoUser \/ told[s] # NoUser \/ console.reset = s

\* A secret is a session token or a reset token, not both, once it is drawn.
Sorted == \A s \in Secrets :
    /\ ~(IsSession(s) /\ IsReset(s))
    /\ IsSession(s) \/ IsReset(s) => s <= drawn

\* A token is stored and handed out for one owner, and handed out after it is drawn.
Owned ==
    /\ \A s \in Secrets : sessions[s] # NoUser /\ handed[s] # NoUser => sessions[s] = handed[s]
    /\ tcp.stage = "session" =>
         /\ tcp.token \in Secrets /\ handed[tcp.token] = NoUser
         /\ sessions[tcp.token] \in {NoUser, tcp.user}
    /\ tcp.reset # 0 => tcp.reset \in Secrets /\ told[tcp.reset] # NoUser
    /\ tcp.stage = "consume" => tcp.reset \in Secrets /\ told[tcp.reset] # NoUser
    /\ console.stage = "reset" => console.reset \in Secrets /\ told[console.reset] = NoUser

Drawing == Reserved /\ Sorted /\ Owned

-----------------------------------------------------------------------------
(* What the queue promises about the DELETEs in it.                        *)

Reissues == tcp.stage = "session" /\ tcp.kind \in {"RESET_PASSWORD", "CHANGE_PASSWORD"}

\* A DELETE of one token is for one that was answered to be dead; a DELETE of all
\* of an account's comes before the session its handler waits for.
Justified ==
    /\ \A s \in dead : handed[s] # NoUser \/ told[s] # NoUser
    /\ \A i \in 1 .. Len(queue) : queue[i].op = "revokeSession" =>
         queue[i].token \in dead /\ handed[queue[i].token] # NoUser
    /\ \A i \in 1 .. Len(queue) : queue[i].op = "revokeAllSessions" =>
         /\ Reissues /\ queue[i].user = tcp.user
         /\ \E j \in i + 1 .. Len(queue) : queue[j].op = "createSession"

\* The DELETE of s is queued before any lookup.
Leaving(s) == \E i \in 1 .. Len(queue) :
    /\ queue[i].op = "revokeSession" /\ queue[i].token = s
    /\ \A j \in 1 .. i - 1 : queue[j].op # "getSessionAndAccount"

\* What was answered to be dead has no row, or is about to have none.
Gone == \A s \in dead \ spared :
    /\ resets[s] = NoUser
    /\ sessions[s] = NoUser \/ Leaving(s)

\* The same of the tokens a password change is going to answer for.
Going == Reissues => \A s \in Secrets :
    handed[s] = tcp.user /\ s \notin spared =>
        \/ sessions[s] = NoUser
        \/ \E i \in 1 .. Len(queue) : queue[i].op = "revokeAllSessions"

Consumed ==
    tcp.stage = "consume" /\ answers["tcp"] # NoAnswer =>
        resets[tcp.reset] = NoUser \/ tcp.reset \in spared

\* Tokens older than the password are void before they are revoked.
Voided ==
    /\ tcp.stage = "update" /\ answers["tcp"] = TRUE => Handed(tcp.user) \subseteq void
    /\ Reissues => Handed(tcp.user) \subseteq void
    /\ tcp.stage = "session" /\ answers["tcp"] # NoAnswer =>
         sessions[tcp.token] = tcp.user \/ tcp.token \in void

Revoking == Justified /\ Gone /\ Going /\ Consumed /\ Voided

IInv ==
    /\ TypeOK /\ Calling /\ Drawing /\ Revoking
    /\ RevokedSignsNobodyIn /\ ResetWorksOnce /\ HandedOutIsStored

-----------------------------------------------------------------------------
(* Tasks and the queue.                                                    *)

\* What a task carries.
LEMMA TaskFields ==
  ASSUME NEW task \in Tasks
  PROVE  /\ task.op \in {"getAccountByUsername", "createAccount", "updateAccountPassword",
                         "createSession", "getSessionAndAccount", "revokeSession",
                         "revokeAllSessions", "createPasswordReset", "consumePasswordReset"}
         /\ task.op \in {"getAccountByUsername", "createAccount", "updateAccountPassword",
                         "createSession", "revokeAllSessions", "createPasswordReset"}
              => task.user \in Users
         /\ task.op \in {"createAccount", "updateAccountPassword"} => task.password \in Passwords
         /\ task.op \in {"createSession", "getSessionAndAccount", "revokeSession"}
              => task.token \in Secrets
         /\ task.op \in {"createPasswordReset", "consumePasswordReset"} => task.reset \in Secrets
         /\ task.op = "getAccountByUsername" => task.by \in Threads
         /\ task.op \in {"createAccount", "updateAccountPassword", "createSession",
                         "getSessionAndAccount", "consumePasswordReset"} => task.by = "tcp"
         /\ task.op = "createPasswordReset" => task.by = "console"
BY DEF Tasks, Threads

\* A worker's task leaves the queue from the front.
LEMMA Popped ==
  ASSUME TypeOK, queue # <<>>, queue' = Tail(queue)
  PROVE  /\ queue' \in Seq(Tasks)
         /\ Len(queue) \in Nat /\ Len(queue) > 0 /\ Len(queue') = Len(queue) - 1
         /\ \A i \in 1 .. Len(queue) : queue[i] \in Tasks
         /\ \A i \in 1 .. Len(queue') : i + 1 \in 1 .. Len(queue) /\ queue'[i] = queue[i + 1]
         /\ Task = queue[1] /\ Task \in Tasks
BY DEF TypeOK, Task

\* A call joins it at the end.
LEMMA Pushed ==
  ASSUME TypeOK, NEW task \in Tasks, queue' = Append(queue, task)
  PROVE  /\ queue' \in Seq(Tasks)
         /\ Len(queue) \in Nat /\ Len(queue') = Len(queue) + 1
         /\ \A i \in 1 .. Len(queue) : queue[i] \in Tasks /\ queue'[i] = queue[i]
         /\ queue'[Len(queue) + 1] = task
BY DEF TypeOK

\* The two calls of a password change join it together.
LEMMA PushedBoth ==
  ASSUME TypeOK, NEW s \in Tasks, NEW t \in Tasks, queue' = queue \o <<s, t>>
  PROVE  /\ queue' \in Seq(Tasks)
         /\ Len(queue) \in Nat /\ Len(queue') = Len(queue) + 2
         /\ \A i \in 1 .. Len(queue) : queue[i] \in Tasks /\ queue'[i] = queue[i]
         /\ queue'[Len(queue) + 1] = s /\ queue'[Len(queue) + 2] = t
BY DEF TypeOK

-----------------------------------------------------------------------------
(* The initial states.                                                     *)

\* Everything holds when the process first starts.
LEMMA InitIInv == Init => IInv
<1> SUFFICES ASSUME Init PROVE IInv
  OBVIOUS
<1>1. TypeOK
  BY StoreAssumption DEF Init, TypeOK, Idle, ConsoleIdle, Answers, Secrets, Typed
<1>2. Calling
  BY DEF Init, Calling, OneCall, AnswerFits, HandlerFits, Idle, ConsoleIdle, Threads
<1>3. Drawing
  BY StoreAssumption DEF Init, Drawing, Reserved, Sorted, Owned, IsSession, IsReset, Idle,
     ConsoleIdle, Secrets
<1>4. Revoking
  BY DEF Init, Revoking, Justified, Gone, Going, Consumed, Voided, Reissues, Idle
<1>5. RevokedSignsNobodyIn /\ ResetWorksOnce /\ HandedOutIsStored
  BY DEF Init, RevokedSignsNobodyIn, ResetWorksOnce, HandedOutIsStored, Idle
<1> QED
  BY <1>1, <1>2, <1>3, <1>4, <1>5 DEF IInv

-----------------------------------------------------------------------------
(* The worker.                                                             *)

\* Every task is taken off the queue; its answer goes to the thread that waits.
LEMMA WorkerAnswers ==
  ASSUME TypeOK, Worker
  PROVE  /\ queue # <<>> /\ queue' = Tail(queue)
         /\ UNCHANGED workerKeeps
         /\ \/ /\ Task.op \in {"revokeSession", "revokeAllSessions"}
               /\ answers' = answers
            \/ /\ Task.op \notin {"revokeSession", "revokeAllSessions"}
               /\ \E value \in Answers \ {NoAnswer} :
                    /\ answers' = [answers EXCEPT ![Task.by] = value]
                    /\ Task.op \in {"createAccount", "updateAccountPassword", "createSession"}
                         => value \in BOOLEAN
                    /\ Task.op \in {"getSessionAndAccount", "consumePasswordReset"}
                         => value \in Users \cup {NoUser}
<1>1. queue # <<>> /\ queue' = Tail(queue) /\ UNCHANGED workerKeeps
  BY DEF Worker, GetAccount, CreateAccount, UpdateAccountPassword, CreateSession,
     GetSessionAndAccount, RevokeSession, RevokeAllSessions, CreatePasswordReset,
     ConsumePasswordReset, Runs, Answer, Delete, Finish
<1>2. Task \in Tasks
  BY <1>1, Popped
<1>0. /\ BOOLEAN \subseteq Answers \ {NoAnswer}
      /\ Passwords \cup {NoAccount} \subseteq Answers \ {NoAnswer}
      /\ Users \cup {NoUser} \subseteq Answers \ {NoAnswer}
  BY StoreAssumption DEF Answers
<1>3. CASE RevokeSession \/ RevokeAllSessions
  BY <1>1, <1>3 DEF RevokeSession, RevokeAllSessions, Runs, Delete
<1>4. CASE CreateAccount \/ UpdateAccountPassword \/ CreateSession \/ CreatePasswordReset
  <2>1. \E value \in BOOLEAN : answers' = [answers EXCEPT ![Task.by] = value]
    BY <1>4 DEF CreateAccount, UpdateAccountPassword, CreateSession, CreatePasswordReset, Answer
  <2>2. Task.op \in {"createAccount", "updateAccountPassword", "createSession",
                     "createPasswordReset"}
    BY <1>4 DEF CreateAccount, UpdateAccountPassword, CreateSession, CreatePasswordReset, Runs
  <2> QED
    BY <1>0, <1>1, <2>1, <2>2
<1>5. CASE GetAccount
  <2>1. Task.op = "getAccountByUsername" /\ Task.user \in Users
    BY <1>2, <1>5, TaskFields DEF GetAccount, Runs
  <2>2. \E value \in Passwords \cup {NoAccount} : answers' = [answers EXCEPT ![Task.by] = value]
    BY <1>5, <2>1 DEF GetAccount, Answer, TypeOK
  <2> QED
    BY <1>0, <1>1, <2>1, <2>2
<1>6. CASE GetSessionAndAccount
  <2>1. Task.op = "getSessionAndAccount" /\ Task.token \in Secrets
    BY <1>2, <1>6, TaskFields DEF GetSessionAndAccount, Runs
  <2>2. \E value \in Users \cup {NoUser} : answers' = [answers EXCEPT ![Task.by] = value]
    BY <1>6, <2>1 DEF GetSessionAndAccount, Answer, TypeOK
  <2> QED
    BY <1>0, <1>1, <2>1, <2>2
<1>7. CASE ConsumePasswordReset
  <2>1. Task.op = "consumePasswordReset" /\ Task.reset \in Secrets
    BY <1>2, <1>7, TaskFields DEF ConsumePasswordReset, Runs
  <2>2. \E value \in Users \cup {NoUser} : answers' = [answers EXCEPT ![Task.by] = value]
    BY <1>7, <2>1 DEF ConsumePasswordReset, Answer, TypeOK
  <2> QED
    BY <1>0, <1>1, <2>1, <2>2
<1> QED
  BY <1>3, <1>4, <1>5, <1>6, <1>7 DEF Worker

\* What the worker writes is of its type.
LEMMA WorkerType == TypeOK /\ Worker => TypeOK'
<1> SUFFICES ASSUME TypeOK, Worker PROVE TypeOK'
  OBVIOUS
<1>1. queue # <<>> /\ queue' = Tail(queue) /\ UNCHANGED workerKeeps
  BY WorkerAnswers
<1>2. queue' \in Seq(Tasks) /\ Task \in Tasks
  BY <1>1, Popped
<1>3. answers' \in [Threads -> Answers]
  BY WorkerAnswers DEF TypeOK
<1>4. accounts' \in [Users -> Passwords \cup {NoAccount}]
  BY <1>2, TaskFields DEF TypeOK, Worker, GetAccount, CreateAccount, UpdateAccountPassword,
     CreateSession, GetSessionAndAccount, RevokeSession, RevokeAllSessions,
     CreatePasswordReset, ConsumePasswordReset, Runs, Delete, tables
<1>5. sessions' \in [Secrets -> Users \cup {NoUser}]
  BY <1>2, TaskFields DEF TypeOK, Worker, GetAccount, CreateAccount, UpdateAccountPassword,
     CreateSession, GetSessionAndAccount, RevokeSession, RevokeAllSessions,
     CreatePasswordReset, ConsumePasswordReset, Runs, Delete, tables
<1>6. resets' \in [Secrets -> Users \cup {NoUser}]
  BY <1>2, TaskFields DEF TypeOK, Worker, GetAccount, CreateAccount, UpdateAccountPassword,
     CreateSession, GetSessionAndAccount, RevokeSession, RevokeAllSessions,
     CreatePasswordReset, ConsumePasswordReset, Runs, Delete, tables, Spent
<1>7. spared' \subseteq Secrets
  <2>1. \/ spared' = spared
        \/ spared' = spared \cup {s \in Secrets : sessions[s] = Task.user}
        \/ Task.op = "revokeSession" /\ spared' = spared \cup {Task.token}
        \/ Task.op = "consumePasswordReset" /\ spared' = spared \cup {Task.reset}
    BY DEF Worker, GetAccount, CreateAccount, UpdateAccountPassword, CreateSession,
       GetSessionAndAccount, RevokeSession, RevokeAllSessions, CreatePasswordReset,
       ConsumePasswordReset, Runs, Delete
  <2> QED
    BY <1>2, <2>1, TaskFields DEF TypeOK
<1>8. void' \subseteq Secrets
  <2>1. Handed(Task.user) \subseteq Secrets
    BY DEF Handed
  <2>2. \/ void' = void
        \/ void' = void \cup Handed(Task.user)
        \/ Task.op = "createSession" /\ void' = void \cup {Task.token}
    BY DEF Worker, GetAccount, CreateAccount, UpdateAccountPassword, CreateSession,
       GetSessionAndAccount, RevokeSession, RevokeAllSessions, CreatePasswordReset,
       ConsumePasswordReset, Runs, Delete
  <2> QED
    BY <1>2, <2>1, <2>2, TaskFields DEF TypeOK
<1>9. mishaps' \in 0 .. MaxMishaps
  <2>1. Succeeds \/ Mishap
    BY DEF Worker, GetAccount, CreateAccount, UpdateAccountPassword, CreateSession,
       GetSessionAndAccount, RevokeSession, RevokeAllSessions, CreatePasswordReset,
       ConsumePasswordReset, Delete, Fails
  <2> QED
    BY <2>1, StoreAssumption DEF TypeOK, Succeeds, Mishap
<1> QED
  BY <1>1, <1>2, <1>3, <1>4, <1>5, <1>6, <1>7, <1>8, <1>9
  DEF TypeOK, workerKeeps, server, clients

\* What the worker leaves alone, and whose answer it writes.
LEMMA WorkerTask ==
  ASSUME TypeOK, Calling, Worker
  PROVE  /\ tcp' = tcp /\ console' = console /\ clientMap' = clientMap
         /\ drawn' = drawn /\ handed' = handed /\ told' = told /\ dead' = dead
         /\ Len(queue) \in Nat /\ Len(queue) > 0 /\ Len(queue') = Len(queue) - 1
         /\ \A i \in 1 .. Len(queue) : queue[i] \in Tasks
         /\ \A i \in 1 .. Len(queue') : i + 1 \in 1 .. Len(queue) /\ queue'[i] = queue[i + 1]
         /\ Task = queue[1] /\ 1 \in 1 .. Len(queue) /\ Task \in Tasks
         /\ ByTcp(Task) => Asked(Task)
         /\ ByConsole(Task) => AskedByConsole(Task)
         /\ ~ByTcp(Task) => answers'["tcp"] = answers["tcp"]
         /\ ~ByConsole(Task) => answers'["console"] = answers["console"]
<1>1. /\ queue # <<>> /\ queue' = Tail(queue)
      /\ tcp' = tcp /\ console' = console /\ clientMap' = clientMap
      /\ drawn' = drawn /\ handed' = handed /\ told' = told /\ dead' = dead
  BY WorkerAnswers DEF workerKeeps, server, clients
<1>2. /\ Len(queue) \in Nat /\ Len(queue) > 0 /\ Len(queue') = Len(queue) - 1
      /\ \A i \in 1 .. Len(queue) : queue[i] \in Tasks
      /\ \A i \in 1 .. Len(queue') : i + 1 \in 1 .. Len(queue) /\ queue'[i] = queue[i + 1]
      /\ Task = queue[1] /\ 1 \in 1 .. Len(queue) /\ Task \in Tasks
  BY <1>1, Popped
<1>3. (ByTcp(Task) => Asked(Task)) /\ (ByConsole(Task) => AskedByConsole(Task))
  BY <1>2 DEF Calling, OneCall
<1>4. Task.op \notin {"revokeSession", "revokeAllSessions"} =>
        \/ ByTcp(Task) /\ Task.by = "tcp"
        \/ ByConsole(Task) /\ Task.by = "console"
  BY <1>2, TaskFields DEF ByTcp, ByConsole, Threads
<1>5. /\ ~ByTcp(Task) => answers'["tcp"] = answers["tcp"]
      /\ ~ByConsole(Task) => answers'["console"] = answers["console"]
  BY <1>4, WorkerAnswers DEF TypeOK, Threads
<1> QED
  BY <1>1, <1>2, <1>3, <1>5

\* The worker answers the one call its caller waits in.
LEMMA WorkerCalling == TypeOK /\ Calling /\ Worker => Calling'
<1> SUFFICES ASSUME TypeOK, Calling, Worker PROVE Calling'
  OBVIOUS
<1>1. OneCall'
  <2>1. ASSUME NEW i \in 1 .. Len(queue'), ByTcp(queue'[i])
        PROVE  /\ Asked(queue[i])' /\ answers'["tcp"] = NoAnswer
               /\ \A j \in 1 .. Len(queue') : ByTcp(queue'[j]) => i = j
    <3>1. ByTcp(queue[i + 1]) /\ i + 1 \in 1 .. Len(queue) /\ i + 1 # 1
      BY WorkerTask, <2>1
    <3>2. /\ Asked(queue[i + 1]) /\ answers["tcp"] = NoAnswer
          /\ \A j \in 1 .. Len(queue) : ByTcp(queue[j]) => i + 1 = j
      BY <3>1 DEF Calling, OneCall
    <3>3. ~ByTcp(Task)
      BY WorkerTask, <3>1, <3>2
    <3>4. Asked(queue[i])'
      BY WorkerTask, <3>2 DEF Asked
    <3>5. ASSUME NEW j \in 1 .. Len(queue'), ByTcp(queue'[j]) PROVE i = j
      <4>1. j + 1 \in 1 .. Len(queue) /\ ByTcp(queue[j + 1])
        BY WorkerTask, <3>5
      <4> QED
        BY WorkerTask, <3>2, <4>1
    <3> QED
      BY WorkerTask, <3>2, <3>3, <3>4, <3>5
  <2>2. ASSUME NEW i \in 1 .. Len(queue'), ByConsole(queue'[i])
        PROVE  /\ AskedByConsole(queue[i])' /\ answers'["console"] = NoAnswer
               /\ \A j \in 1 .. Len(queue') : ByConsole(queue'[j]) => i = j
    <3>1. ByConsole(queue[i + 1]) /\ i + 1 \in 1 .. Len(queue) /\ i + 1 # 1
      BY WorkerTask, <2>2
    <3>2. /\ AskedByConsole(queue[i + 1]) /\ answers["console"] = NoAnswer
          /\ \A j \in 1 .. Len(queue) : ByConsole(queue[j]) => i + 1 = j
      BY <3>1 DEF Calling, OneCall
    <3>3. ~ByConsole(Task)
      BY WorkerTask, <3>1, <3>2
    <3>4. AskedByConsole(queue[i])'
      BY WorkerTask, <3>2 DEF AskedByConsole
    <3>5. ASSUME NEW j \in 1 .. Len(queue'), ByConsole(queue'[j]) PROVE i = j
      <4>1. j + 1 \in 1 .. Len(queue) /\ ByConsole(queue[j + 1])
        BY WorkerTask, <3>5
      <4> QED
        BY WorkerTask, <3>2, <4>1
    <3> QED
      BY WorkerTask, <3>2, <3>3, <3>4, <3>5
  <2> QED
    BY <2>1, <2>2 DEF OneCall, ByTcp, ByConsole
<1>2. AnswerFits'
  <2>1. tcp.stage = "idle" => answers'["tcp"] = NoAnswer
    BY WorkerTask DEF Calling, AnswerFits, Asked
  <2>2. console.stage = "idle" => answers'["console"] = NoAnswer
    BY WorkerTask DEF Calling, AnswerFits, AskedByConsole
  <2>3. ASSUME answers'["tcp"] # NoAnswer
        PROVE  /\ tcp.stage \in {"create", "update", "session"} => answers'["tcp"] \in BOOLEAN
               /\ tcp.stage \in {"lookup", "consume"} => answers'["tcp"] \in Users \cup {NoUser}
    <3>1. CASE answers'["tcp"] = answers["tcp"]
      BY <2>3, <3>1 DEF Calling, AnswerFits
    <3>2. CASE answers'["tcp"] # answers["tcp"]
      <4>1. ByTcp(Task) /\ Asked(Task) /\ Task \in Tasks
        BY WorkerTask, <3>2
      <4>2. PICK value \in Answers :
              /\ answers' = [answers EXCEPT ![Task.by] = value]
              /\ Task.op \in {"createAccount", "updateAccountPassword", "createSession"}
                   => value \in BOOLEAN
              /\ Task.op \in {"getSessionAndAccount", "consumePasswordReset"}
                   => value \in Users \cup {NoUser}
        BY WorkerTask, <3>2, WorkerAnswers
      <4>3. Task.by = "tcp"
        BY <4>1, TaskFields DEF ByTcp
      <4>4. answers'["tcp"] = value
        BY <4>2, <4>3 DEF TypeOK, Threads
      <4> QED
        BY <4>1, <4>2, <4>4 DEF Asked
    <3> QED
      BY <3>1, <3>2
  <2> QED
    BY WorkerTask, <2>1, <2>2, <2>3 DEF AnswerFits
<1>3. HandlerFits'
  BY WorkerTask DEF Calling, HandlerFits
<1> QED
  BY <1>1, <1>2, <1>3 DEF Calling

\* What each task does to the tables and what it leaves undone.
LEMMA WorkerEffects ==
  ASSUME TypeOK, Worker
  PROVE  /\ \A s \in Secrets :
              \/ sessions'[s] = sessions[s]
              \/ /\ sessions'[s] = NoUser
                 /\ \/ Task.op = "revokeSession" /\ Task.token = s
                    \/ Task.op = "revokeAllSessions" /\ Task.user = sessions[s]
              \/ Task.op = "createSession" /\ Task.token = s /\ sessions'[s] = Task.user
         /\ \A s \in Secrets :
              \/ resets'[s] \in {resets[s], NoUser}
              \/ Task.op = "createPasswordReset" /\ Task.reset = s
         /\ spared \subseteq spared' /\ void \subseteq void'
         /\ Task.op = "revokeSession" => sessions'[Task.token] = NoUser \/ Task.token \in spared'
         /\ Task.op = "revokeAllSessions" => \A s \in Secrets :
              sessions[s] = Task.user => sessions'[s] = NoUser \/ s \in spared'
         /\ Task.op = "consumePasswordReset" =>
              /\ resets'[Task.reset] = NoUser \/ Task.reset \in spared'
              /\ answers'["tcp"] \in {NoUser, resets[Task.reset]}
         /\ Task.op = "updateAccountPassword" /\ answers'["tcp"] = TRUE =>
              Handed(Task.user) \subseteq void'
         /\ Task.op = "createSession" =>
              sessions'[Task.token] = Task.user \/ Task.token \in void'
         /\ Task.op = "getSessionAndAccount" =>
              answers'["tcp"] \in {NoUser, sessions[Task.token]}
<1>1. Task \in Tasks
  BY WorkerAnswers, Popped
<1>2. CASE GetAccount \/ CreateAccount
  BY <1>2 DEF GetAccount, CreateAccount, Runs, tables
<1>3. CASE UpdateAccountPassword
  <2>1. /\ Task.op = "updateAccountPassword" /\ Task.by = "tcp"
        /\ sessions' = sessions /\ resets' = resets /\ spared' = spared
    BY <1>1, <1>3, TaskFields DEF UpdateAccountPassword, Runs
  <2>2. \/ void' = void \cup Handed(Task.user)
        \/ void' = void /\ answers'["tcp"] = FALSE
    BY <1>3, <2>1 DEF UpdateAccountPassword, Answer, TypeOK, Threads
  <2> QED
    BY <2>1, <2>2
<1>4. CASE CreateSession
  <2>1. /\ Task.op = "createSession" /\ Task.token \in Secrets
        /\ resets' = resets /\ spared' = spared
    BY <1>1, <1>4, TaskFields DEF CreateSession, Runs
  <2>2. \/ sessions' = [sessions EXCEPT ![Task.token] = Task.user] /\ void' = void
        \/ sessions' = sessions /\ void' = void \cup {Task.token}
    BY <1>4 DEF CreateSession
  <2> QED
    BY <2>1, <2>2 DEF TypeOK
<1>5. CASE GetSessionAndAccount
  <2>1. /\ Task.op = "getSessionAndAccount" /\ Task.by = "tcp"
        /\ sessions' = sessions /\ resets' = resets /\ spared' = spared /\ void' = void
    BY <1>1, <1>5, TaskFields DEF GetSessionAndAccount, Runs, tables
  <2>2. answers'["tcp"] \in {NoUser, sessions[Task.token]}
    BY <1>5, <2>1 DEF GetSessionAndAccount, Answer, TypeOK, Threads
  <2> QED
    BY <2>1, <2>2
<1>6. CASE RevokeSession
  <2>1. Task.op = "revokeSession" /\ Task.token \in Secrets /\ resets' = resets /\ void' = void
    BY <1>1, <1>6, TaskFields DEF RevokeSession, Runs, Delete
  <2>2. \/ /\ sessions' = [s \in Secrets |-> IF s \in {Task.token} THEN NoUser ELSE sessions[s]]
           /\ spared' = spared
        \/ sessions' = sessions /\ spared' = spared \cup {Task.token}
    BY <1>6 DEF RevokeSession, Delete
  <2> QED
    BY <2>1, <2>2
<1>7. CASE RevokeAllSessions
  <2> DEFINE tokens == {s \in Secrets : sessions[s] = Task.user}
  <2>1. Task.op = "revokeAllSessions" /\ resets' = resets /\ void' = void
    BY <1>7 DEF RevokeAllSessions, Runs, Delete
  <2>2. \/ /\ sessions' = [s \in Secrets |-> IF s \in tokens THEN NoUser ELSE sessions[s]]
           /\ spared' = spared
        \/ sessions' = sessions /\ spared' = spared \cup tokens
    BY <1>7 DEF RevokeAllSessions, Delete
  <2> QED
    BY <2>1, <2>2
<1>8. CASE CreatePasswordReset
  <2>1. Task.op = "createPasswordReset" /\ sessions' = sessions /\ spared' = spared /\ void' = void
    BY <1>8 DEF CreatePasswordReset, Runs
  <2>2. resets' = resets \/ resets' = [resets EXCEPT ![Task.reset] = Task.user]
    BY <1>8 DEF CreatePasswordReset
  <2> QED
    BY <2>1, <2>2 DEF TypeOK
<1>9. CASE ConsumePasswordReset
  <2>1. /\ Task.op = "consumePasswordReset" /\ Task.by = "tcp" /\ Task.reset \in Secrets
        /\ sessions' = sessions /\ void' = void
    BY <1>1, <1>9, TaskFields DEF ConsumePasswordReset, Runs
  <2>2. answers'["tcp"] \in {NoUser, resets[Task.reset]}
    BY <1>9, <2>1 DEF ConsumePasswordReset, Answer, TypeOK, Threads
  <2>3. \/ resets' = [resets EXCEPT ![Task.reset] = NoUser] /\ spared' = spared
        \/ resets' = resets /\ spared' = spared \cup {Task.reset}
    BY <1>9 DEF ConsumePasswordReset, Spent
  <2> QED
    BY <2>1, <2>2, <2>3 DEF TypeOK
<1> QED
  BY <1>2, <1>3, <1>4, <1>5, <1>6, <1>7, <1>8, <1>9 DEF Worker

\* The worker stores a secret for the one who drew it.
LEMMA WorkerDrawing == TypeOK /\ Calling /\ Drawing /\ Worker => Drawing'
<1> SUFFICES ASSUME TypeOK, Calling, Drawing, Worker PROVE Drawing'
  OBVIOUS
<1>1. /\ tcp' = tcp /\ console' = console /\ drawn' = drawn
      /\ handed' = handed /\ told' = told
  BY WorkerTask
<1>2. Task.op = "createSession" =>
        /\ tcp.stage = "session" /\ Task.user = tcp.user /\ Task.token = tcp.token
        /\ handed[tcp.token] = NoUser
  BY WorkerTask DEF ByTcp, Asked, Drawing, Owned
<1>3. Task.op = "createPasswordReset" => Task.reset = console.reset
  BY WorkerTask DEF ByConsole, AskedByConsole
<1>4. \A s \in Secrets :
        \/ sessions'[s] \in {sessions[s], NoUser}
        \/ s = tcp.token /\ handed[s] = NoUser /\ sessions'[s] = tcp.user
  BY <1>2, WorkerEffects
<1>5. \A s \in Secrets : resets'[s] \in {resets[s], NoUser} \/ s = console.reset
  BY <1>3, WorkerEffects
<1>6. Reserved'
  BY <1>1 DEF Drawing, Reserved
<1>7. Sorted'
  BY <1>1, <1>4, <1>5 DEF Drawing, Sorted, IsSession, IsReset
<1>8. Owned'
  BY <1>1, <1>4 DEF Drawing, Owned
<1> QED
  BY <1>6, <1>7, <1>8 DEF Drawing

\* What the worker does with a token that was answered to be dead.
LEMMA WorkerRevoking ==
  TypeOK /\ Calling /\ Drawing /\ Revoking /\ Worker => Revoking'
<1> SUFFICES ASSUME TypeOK, Calling, Drawing, Revoking, Worker PROVE Revoking'
  OBVIOUS
<1>1. /\ tcp' = tcp /\ console' = console /\ handed' = handed /\ told' = told /\ dead' = dead
      /\ spared \subseteq spared' /\ void \subseteq void'
  BY WorkerTask, WorkerEffects
<1>2. Task.op = "createSession" =>
        /\ tcp.stage = "session" /\ Task.user = tcp.user /\ Task.token = tcp.token
        /\ tcp.token \in Secrets /\ handed[tcp.token] = NoUser
  BY WorkerTask DEF ByTcp, Asked, Drawing, Owned
<1>3. Task.op = "createPasswordReset" =>
        Task.reset = console.reset /\ console.reset \in Secrets /\ told[console.reset] = NoUser
  BY WorkerTask DEF ByConsole, AskedByConsole, Drawing, Owned
<1>4. \A s \in dead : s \in Secrets /\ (handed[s] # NoUser \/ told[s] # NoUser)
  BY DEF Revoking, Justified, TypeOK
<1>5. Task.op = "revokeSession" => Task.token \in dead /\ handed[Task.token] # NoUser
  BY WorkerTask DEF Revoking, Justified
<1>6. Task.op = "revokeAllSessions" =>
        /\ Reissues /\ Task.user = tcp.user /\ answers["tcp"] = NoAnswer /\ ~ByTcp(Task)
  <2>1. SUFFICES ASSUME Task.op = "revokeAllSessions"
                 PROVE  Reissues /\ Task.user = tcp.user /\ answers["tcp"] = NoAnswer
    BY DEF ByTcp
  <2>2. PICK j \in 2 .. Len(queue) : queue[j].op = "createSession"
    BY <2>1, WorkerTask DEF Revoking, Justified
  <2>3. j \in 1 .. Len(queue) /\ ByTcp(queue[j])
    BY <2>2, WorkerTask DEF ByTcp
  <2> QED
    BY <2>1, <2>3, WorkerTask DEF Revoking, Justified, Calling, OneCall
<1>7. Justified'
  <2>1. ASSUME NEW i \in 1 .. Len(queue'), queue'[i].op = "revokeSession"
        PROVE  queue'[i].token \in dead /\ handed[queue'[i].token] # NoUser
    BY <2>1, WorkerTask DEF Revoking, Justified
  <2>2. ASSUME NEW i \in 1 .. Len(queue'), queue'[i].op = "revokeAllSessions"
        PROVE  /\ Reissues /\ queue'[i].user = tcp.user
               /\ \E j \in i + 1 .. Len(queue') : queue'[j].op = "createSession"
    <3>1. i + 1 \in 1 .. Len(queue) /\ queue[i + 1].op = "revokeAllSessions"
      BY <2>2, WorkerTask
    <3>2. /\ Reissues /\ queue[i + 1].user = tcp.user
          /\ \E j \in i + 2 .. Len(queue) : queue[j].op = "createSession"
      BY <3>1 DEF Revoking, Justified
    <3>3. PICK j \in i + 2 .. Len(queue) : queue[j].op = "createSession"
      BY <3>2
    <3>4. j - 1 \in i + 1 .. Len(queue') /\ queue'[j - 1] = queue[j]
      BY <3>3, WorkerTask
    <3> QED
      BY <2>2, <3>2, <3>3, <3>4, WorkerTask
  <2> QED
    BY <1>1, <1>4, <2>1, <2>2 DEF Justified, Reissues
<1>8. Gone'
  <2> SUFFICES ASSUME NEW s \in dead, s \notin spared, s \notin spared'
               PROVE  resets'[s] = NoUser /\ (sessions'[s] = NoUser \/ Leaving(s)')
    BY <1>1 DEF Gone
  <2>1. s \in Secrets /\ (handed[s] # NoUser \/ told[s] # NoUser)
    BY <1>4
  <2>2. resets[s] = NoUser /\ (sessions[s] = NoUser \/ Leaving(s))
    BY DEF Revoking, Gone
  <2>3. resets'[s] = NoUser
    BY <1>3, <2>1, <2>2, WorkerEffects DEF Drawing, Sorted, IsSession, IsReset
  <2>4. CASE sessions[s] = NoUser
    BY <1>2, <2>1, <2>3, <2>4, WorkerEffects DEF Drawing, Sorted, IsSession, IsReset
  <2>5. CASE Leaving(s)
    <3>1. PICK i \in 1 .. Len(queue) :
            /\ queue[i].op = "revokeSession" /\ queue[i].token = s
            /\ \A j \in 1 .. i - 1 : queue[j].op # "getSessionAndAccount"
      BY <2>5 DEF Leaving
    <3>2. CASE i = 1
      BY <2>3, <3>1, <3>2, WorkerTask, WorkerEffects
    <3>3. CASE i # 1
      <4>1. i - 1 \in 1 .. Len(queue') /\ queue'[i - 1] = queue[i]
        BY <3>3, WorkerTask
      <4>2. ASSUME NEW j \in 1 .. i - 2 PROVE queue'[j].op # "getSessionAndAccount"
        <5>1. j \in 1 .. Len(queue') /\ j + 1 \in 1 .. i - 1
          BY <4>1
        <5> QED
          BY <3>1, <5>1, WorkerTask
      <4>3. Leaving(s)'
        BY <3>1, <4>1, <4>2 DEF Leaving
      <4> QED
        BY <2>3, <4>3
    <3> QED
      BY <3>2, <3>3
  <2> QED
    BY <2>2, <2>4, <2>5
<1>9. Going'
  <2> SUFFICES ASSUME Reissues, NEW s \in Secrets, handed[s] = tcp.user,
                      s \notin spared, s \notin spared'
               PROVE  \/ sessions'[s] = NoUser
                      \/ \E i \in 1 .. Len(queue') : queue'[i].op = "revokeAllSessions"
    BY <1>1 DEF Going, Reissues
  <2>1. handed[s] # NoUser
    BY StoreAssumption DEF Reissues, Calling, HandlerFits
  <2>2. CASE sessions[s] = NoUser
    BY <1>2, <2>1, <2>2, WorkerEffects
  <2>3. CASE sessions[s] # NoUser
    <3>1. sessions[s] = tcp.user
      BY <2>1, <2>3 DEF Drawing, Owned
    <3>2. PICK i \in 1 .. Len(queue) : queue[i].op = "revokeAllSessions"
      BY <2>3 DEF Revoking, Going
    <3>3. CASE i = 1
      BY <1>6, <3>1, <3>2, <3>3, WorkerTask, WorkerEffects
    <3>4. CASE i # 1
      <4>1. i - 1 \in 1 .. Len(queue') /\ queue'[i - 1] = queue[i]
        BY <3>4, WorkerTask
      <4> QED
        BY <3>2, <4>1
    <3> QED
      BY <3>3, <3>4
  <2> QED
    BY <2>2, <2>3
<1>10. Consumed'
  <2> SUFFICES ASSUME tcp.stage = "consume", answers'["tcp"] # NoAnswer
               PROVE  resets'[tcp.reset] = NoUser \/ tcp.reset \in spared'
    BY <1>1 DEF Consumed
  <2>1. tcp.reset \in Secrets /\ told[tcp.reset] # NoUser
    BY DEF Drawing, Owned, TypeOK
  <2>2. CASE ByTcp(Task)
    BY <2>2, WorkerTask, WorkerEffects DEF Asked
  <2>3. CASE ~ByTcp(Task)
    BY <1>1, <1>3, <2>1, <2>3, WorkerTask, WorkerEffects DEF Revoking, Consumed
  <2> QED
    BY <2>2, <2>3
<1>11. Voided'
  <2>1. ASSUME tcp.stage = "update", answers'["tcp"] = TRUE
        PROVE  Handed(tcp.user) \subseteq void'
    <3>1. CASE ByTcp(Task)
      BY <2>1, <3>1, WorkerTask, WorkerEffects DEF Asked
    <3>2. CASE ~ByTcp(Task)
      BY <1>1, <2>1, <3>2, WorkerTask DEF Revoking, Voided
    <3> QED
      BY <3>1, <3>2
  <2>2. Reissues => Handed(tcp.user) \subseteq void'
    BY <1>1 DEF Revoking, Voided
  <2>3. ASSUME tcp.stage = "session", answers'["tcp"] # NoAnswer
        PROVE  sessions'[tcp.token] = tcp.user \/ tcp.token \in void'
    <3>1. tcp.token \in Secrets /\ handed[tcp.token] = NoUser
      BY <2>3 DEF Drawing, Owned
    <3>2. CASE ByTcp(Task)
      BY <2>3, <3>2, WorkerTask, WorkerEffects DEF Asked
    <3>3. CASE ~ByTcp(Task)
      BY <1>1, <1>2, <1>5, <1>6, <2>3, <3>1, <3>3, WorkerTask, WorkerEffects
      DEF Revoking, Voided
    <3> QED
      BY <3>2, <3>3
  <2> QED
    BY <1>1, <2>1, <2>2, <2>3 DEF Voided, Reissues, Handed
<1> QED
  BY <1>7, <1>8, <1>9, <1>10, <1>11 DEF Revoking

\* A lookup finds no token that is dead, a reset token no second use; the worker
\* deletes no token that is still good.
LEMMA WorkerSafe ==
  IInv /\ Worker => (RevokedSignsNobodyIn /\ ResetWorksOnce /\ HandedOutIsStored)'
<1> SUFFICES ASSUME IInv, Worker
             PROVE  RevokedSignsNobodyIn' /\ ResetWorksOnce' /\ HandedOutIsStored'
  OBVIOUS
<1>1. /\ TypeOK /\ Calling /\ Drawing /\ Revoking
      /\ RevokedSignsNobodyIn /\ ResetWorksOnce /\ HandedOutIsStored
  BY DEF IInv
<1>2. /\ tcp' = tcp /\ console' = console /\ handed' = handed /\ dead' = dead
      /\ spared \subseteq spared' /\ void \subseteq void'
  BY <1>1, WorkerTask, WorkerEffects
<1>3. RevokedSignsNobodyIn'
  <2> SUFFICES ASSUME tcp.stage = "lookup", answers'["tcp"] \in Users,
                      tcp.token \in dead, tcp.token \notin spared
               PROVE  FALSE
    BY <1>2 DEF RevokedSignsNobodyIn
  <2>1. CASE ByTcp(Task)
    <3>1. Task.op = "getSessionAndAccount" /\ Task.token = tcp.token
      BY <1>1, <2>1, WorkerTask DEF Asked
    <3>2. sessions[tcp.token] # NoUser
      BY <1>1, <3>1, WorkerEffects, StoreAssumption
    <3>3. PICK i \in 1 .. Len(queue) :
            /\ queue[i].op = "revokeSession"
            /\ \A j \in 1 .. i - 1 : queue[j].op # "getSessionAndAccount"
      BY <1>1, <3>2 DEF Revoking, Gone, Leaving
    <3>4. i # 1 /\ 1 \in 1 .. i - 1
      BY <1>1, <3>1, <3>3, WorkerTask
    <3> QED
      BY <1>1, <3>1, <3>3, <3>4, WorkerTask
  <2>2. CASE ~ByTcp(Task)
    BY <1>1, <2>2, WorkerTask DEF RevokedSignsNobodyIn
  <2> QED
    BY <2>1, <2>2
<1>4. ResetWorksOnce'
  <2> SUFFICES ASSUME tcp.stage = "consume", answers'["tcp"] \in Users,
                      tcp.reset \in dead, tcp.reset \notin spared
               PROVE  FALSE
    BY <1>2 DEF ResetWorksOnce
  <2>1. CASE ByTcp(Task)
    <3>1. Task.op = "consumePasswordReset" /\ Task.reset = tcp.reset
      BY <1>1, <2>1, WorkerTask DEF Asked
    <3>2. resets[tcp.reset] = NoUser
      BY <1>1 DEF Revoking, Gone
    <3> QED
      BY <1>1, <3>1, <3>2, WorkerEffects, StoreAssumption
  <2>2. CASE ~ByTcp(Task)
    BY <1>1, <2>2, WorkerTask DEF ResetWorksOnce
  <2> QED
    BY <2>1, <2>2
<1>5. HandedOutIsStored'
  <2> SUFFICES ASSUME NEW s \in Secrets, handed[s] # NoUser, s \notin dead, s \notin void
               PROVE  sessions'[s] = handed[s]
    BY <1>2 DEF HandedOutIsStored
  <2>1. sessions[s] = handed[s]
    BY <1>1 DEF HandedOutIsStored
  <2>2. Task.op = "revokeSession" => Task.token # s
    BY <1>1, WorkerTask DEF Revoking, Justified
  <2>3. Task.op = "revokeAllSessions" => Task.user # handed[s]
    BY <1>1, WorkerTask DEF Revoking, Justified, Voided, Handed
  <2>4. Task.op = "createSession" => Task.token # s
    BY <1>1, WorkerTask DEF ByTcp, Asked, Drawing, Owned
  <2> QED
    BY <1>1, <2>1, <2>2, <2>3, <2>4, WorkerEffects
<1> QED
  BY <1>3, <1>4, <1>5

\* Whatever the worker does keeps the invariant.
LEMMA WorkerKeeps == IInv /\ Worker => IInv'
  BY WorkerType, WorkerCalling, WorkerDrawing, WorkerRevoking, WorkerSafe DEF IInv

-----------------------------------------------------------------------------
(* The TCP thread.                                                         *)

\* Calls are only added at the end.
Longer ==
    /\ Len(queue) \in Nat /\ Len(queue') \in Nat /\ Len(queue) <= Len(queue')
    /\ \A i \in 1 .. Len(queue) : queue[i] \in Tasks /\ queue'[i] = queue[i]

\* What is about to have no row still is, whatever is queued behind it.
LEMMA LeavingStays ==
  ASSUME Longer, NEW s, Leaving(s)
  PROVE  Leaving(s)'
<1>1. PICK i \in 1 .. Len(queue) :
        /\ queue[i].op = "revokeSession" /\ queue[i].token = s
        /\ \A j \in 1 .. i - 1 : queue[j].op # "getSessionAndAccount"
  BY DEF Leaving
<1>2. i \in 1 .. Len(queue') /\ queue'[i] = queue[i]
  BY DEF Longer
<1>3. ASSUME NEW j \in 1 .. i - 1 PROVE queue'[j].op # "getSessionAndAccount"
  BY <1>1 DEF Longer
<1> QED
  BY <1>1, <1>2, <1>3 DEF Leaving

\* While the TCP thread waits for nothing, no call of its is queued.
LEMMA TcpFree ==
  ASSUME IInv, tcp.stage = "idle" \/ answers["tcp"] # NoAnswer
  PROVE  \A i \in 1 .. Len(queue) :
           /\ queue[i] \in Tasks /\ ~ByTcp(queue[i])
           /\ queue[i].op \notin {"revokeAllSessions", "createSession", "getSessionAndAccount"}
<1>1. TypeOK /\ OneCall /\ Justified
  BY DEF IInv, Calling, Revoking
<1>2. \A i \in 1 .. Len(queue) : queue[i] \in Tasks /\ ~ByTcp(queue[i])
  BY <1>1 DEF OneCall, Asked, TypeOK
<1>3. \A i \in 1 .. Len(queue) : queue[i].op \notin {"createSession", "getSessionAndAccount"}
  BY <1>2 DEF ByTcp
<1>4. \A i \in 1 .. Len(queue) : queue[i].op # "revokeAllSessions"
  BY <1>1, <1>3 DEF Justified, TypeOK
<1> QED
  BY <1>2, <1>3, <1>4

\* It queues the call it waits in, and behind it nothing.
LEMMA TcpCalls ==
  ASSUME IInv, Longer,
         \A i \in 1 .. Len(queue) : ~ByTcp(queue[i]),
         \A i \in Len(queue) + 1 .. Len(queue') :
           /\ ~ByConsole(queue'[i])
           /\ ByTcp(queue'[i]) => i = Len(queue') /\ Asked(queue[i])',
         answers'["tcp"] = NoAnswer, answers'["console"] = answers["console"],
         console' = console
  PROVE  OneCall'
<1>1. ASSUME NEW i \in 1 .. Len(queue'), ByTcp(queue'[i])
      PROVE  /\ Asked(queue[i])' /\ \A j \in 1 .. Len(queue') : ByTcp(queue'[j]) => i = j
  <2>1. \A j \in 1 .. Len(queue') :
          ByTcp(queue'[j]) => j \in Len(queue) + 1 .. Len(queue')
    BY DEF Longer
  <2> QED
    BY <1>1, <2>1
<1>2. ASSUME NEW i \in 1 .. Len(queue'), ByConsole(queue'[i])
      PROVE  /\ AskedByConsole(queue[i])' /\ answers["console"] = NoAnswer
             /\ \A j \in 1 .. Len(queue') : ByConsole(queue'[j]) => i = j
  <2>1. \A j \in 1 .. Len(queue') : ByConsole(queue'[j]) =>
          j \in 1 .. Len(queue) /\ queue'[j] = queue[j] /\ ByConsole(queue[j])
    <3> SUFFICES ASSUME NEW j \in 1 .. Len(queue'), ByConsole(queue'[j])
                 PROVE  j \in 1 .. Len(queue) /\ queue'[j] = queue[j] /\ ByConsole(queue[j])
      OBVIOUS
    <3>1. j \notin Len(queue) + 1 .. Len(queue')
      OBVIOUS
    <3> QED
      BY <3>1 DEF Longer
  <2>2. /\ AskedByConsole(queue[i]) /\ answers["console"] = NoAnswer
        /\ \A j \in 1 .. Len(queue) : ByConsole(queue[j]) => i = j
    BY <1>2, <2>1 DEF IInv, Calling, OneCall
  <2>3. AskedByConsole(queue[i])'
    BY <1>2, <2>1, <2>2 DEF AskedByConsole
  <2> QED
    BY <2>1, <2>2, <2>3
<1> QED
  BY <1>1, <1>2 DEF OneCall, ByTcp, ByConsole

Handlers ==
    [kind : {"none", "LOGIN", "REGISTER", "RESET_PASSWORD", "CHANGE_PASSWORD", "AUTH_SESSION"},
     stage : {"idle", "account", "create", "consume", "update", "session", "lookup"},
     user : Users \cup {NoUser}, password : Typed \cup {NoAccount},
     new : Passwords \cup {NoAccount}, token : 0 .. MaxSecrets, reset : 0 .. MaxSecrets]

\* A request whose handler first waits for the task it queues.
Opens(request, task) ==
    /\ request \in Handlers
    /\ \/ /\ request.stage = "account" /\ Room /\ request.user \in Users
          /\ request.kind \in {"LOGIN", "REGISTER", "CHANGE_PASSWORD"}
          /\ request.kind \in {"REGISTER", "CHANGE_PASSWORD"} => request.new \in Passwords
          /\ request.kind \in {"LOGIN", "CHANGE_PASSWORD"} => request.password \in Typed
          /\ request.kind = "CHANGE_PASSWORD" => request.user \in clientMap
          /\ request.token = 0 /\ request.reset = 0
          /\ task = FindAccount("tcp", request.user)
       \/ /\ request.stage = "consume" /\ Room /\ request.user \in Users
          /\ request.kind = "RESET_PASSWORD" /\ request.new \in Passwords
          /\ request.token = 0 /\ request.reset \in Secrets /\ told[request.reset] # NoUser
          /\ task = [op |-> "consumePasswordReset", by |-> "tcp", reset |-> request.reset]
       \/ /\ request.stage = "lookup" /\ request.kind = "AUTH_SESSION"
          /\ request.token \in Secrets /\ handed[request.token] # NoUser /\ request.reset = 0
          /\ task = [op |-> "getSessionAndAccount", by |-> "tcp", token |-> request.token]

\* A request that is read keeps the invariant.
LEMMA ReceiveKeeps ==
  ASSUME IInv, NEW request, NEW task, Opens(request, task), Receive(request, task)
  PROVE  IInv'
<1>1. /\ TypeOK /\ Calling /\ Drawing /\ Revoking
      /\ RevokedSignsNobodyIn /\ ResetWorksOnce /\ HandedOutIsStored
  BY DEF IInv
<1>2. /\ accounts' = accounts /\ sessions' = sessions /\ resets' = resets
      /\ working' = working /\ console' = console /\ told' = told /\ expired' = expired
      /\ spared' = spared /\ void' = void /\ mishaps' = mishaps /\ answers' = answers
      /\ clientMap' = clientMap /\ drawn' = drawn /\ handed' = handed /\ dead' = dead
      /\ tcp' = request /\ queue' = Append(queue, task) /\ tcp.stage = "idle"
  BY DEF Receive, tcpKeeps, tables
<1>3. /\ task \in Tasks /\ ByTcp(task) /\ ~ByConsole(task)
      /\ task.op \notin {"revokeSession", "revokeAllSessions", "createSession"}
  BY <1>1 DEF Opens, FindAccount, Tasks, Threads, ByTcp, ByConsole, TypeOK
<1>4. /\ Longer /\ queue' \in Seq(Tasks) /\ Len(queue') = Len(queue) + 1
      /\ queue'[Len(queue')] = task
  BY <1>1, <1>2, <1>3, Pushed DEF Longer
<1>5. /\ \A i \in 1 .. Len(queue) : ~ByTcp(queue[i]) /\ queue[i].op # "revokeAllSessions"
      /\ answers["tcp"] = NoAnswer
  BY <1>1, <1>2, TcpFree DEF Calling, AnswerFits
<1>6. TypeOK'
  BY <1>1, <1>2, <1>4 DEF TypeOK, Opens, Handlers
<1>7. Calling'
  <2>1. Asked(task)'
    BY <1>2, <1>3 DEF Opens, Asked, FindAccount
  <2>2. OneCall'
    <3>1. ASSUME NEW i \in Len(queue) + 1 .. Len(queue')
          PROVE  /\ ~ByConsole(queue'[i])
                 /\ ByTcp(queue'[i]) => i = Len(queue') /\ Asked(queue[i])'
      <4>1. i = Len(queue') /\ queue'[i] = task
        BY <1>4 DEF Longer
      <4> QED
        BY <1>3, <2>1, <4>1 DEF Asked
    <3> QED
      BY <1>2, <1>4, <1>5, <3>1, TcpCalls
  <2>3. AnswerFits' /\ HandlerFits'
    BY <1>1, <1>2, <1>5 DEF Calling, AnswerFits, HandlerFits, Opens
  <2> QED
    BY <2>2, <2>3 DEF Calling
<1>8. Drawing'
  <2>1. Reserved'
    <3>1. drawn \in Nat /\ MaxSecrets \in Nat
      BY <1>1, StoreAssumption DEF TypeOK
    <3>2. CASE request.stage = "lookup"
      BY <1>1, <1>2, <3>1, <3>2 DEF Drawing, Reserved
    <3>3. CASE Room
      BY <1>2, <3>1, <3>3 DEF Reserved, Room
    <3> QED
      BY <3>2, <3>3 DEF Opens
  <2>2. Sorted'
    BY <1>1, <1>2 DEF Drawing, Sorted, IsSession, IsReset, Opens, Secrets
  <2>3. Owned'
    BY <1>1, <1>2 DEF Drawing, Owned, Opens
  <2> QED
    BY <2>1, <2>2, <2>3 DEF Drawing
<1>9. Revoking'
  <2>1. Justified'
    BY <1>1, <1>2, <1>3, <1>4, <1>5 DEF Revoking, Justified, Longer
  <2>2. Gone'
    BY <1>1, <1>2, <1>4, LeavingStays DEF Revoking, Gone
  <2>3. Going' /\ Consumed' /\ Voided'
    BY <1>2, <1>5 DEF Going, Consumed, Voided, Reissues, Opens
  <2> QED
    BY <2>1, <2>2, <2>3 DEF Revoking
<1>10. (RevokedSignsNobodyIn /\ ResetWorksOnce /\ HandedOutIsStored)'
  BY <1>1, <1>2, <1>5, StoreAssumption
  DEF RevokedSignsNobodyIn, ResetWorksOnce, HandedOutIsStored
<1> QED
  BY <1>6, <1>7, <1>8, <1>9, <1>10 DEF IInv

\* A LOGOUT answers for its token while the DELETE is only queued: no lookup is
\* queued before it.
LEMMA ReceiveLogoutKeeps ==
  ASSUME IInv, NEW t \in Secrets, ReceiveLogout(t)
  PROVE  IInv'
<1> DEFINE task == [op |-> "revokeSession", token |-> t]
<1>1. /\ TypeOK /\ Calling /\ Drawing /\ Revoking
      /\ RevokedSignsNobodyIn /\ ResetWorksOnce /\ HandedOutIsStored
  BY DEF IInv
<1>2. /\ accounts' = accounts /\ sessions' = sessions /\ resets' = resets
      /\ working' = working /\ console' = console /\ told' = told /\ expired' = expired
      /\ spared' = spared /\ void' = void /\ mishaps' = mishaps /\ answers' = answers
      /\ clientMap' \subseteq clientMap /\ drawn' = drawn /\ handed' = handed
      /\ dead' = dead \cup {t} /\ tcp' = tcp /\ queue' = Append(queue, task)
      /\ tcp.stage = "idle" /\ handed[t] # NoUser
  BY DEF ReceiveLogout, tcpKeeps, tables
<1>3. task \in Tasks /\ ~ByTcp(task) /\ ~ByConsole(task)
  BY DEF Tasks, ByTcp, ByConsole
<1>4. /\ Longer /\ queue' \in Seq(Tasks) /\ Len(queue') = Len(queue) + 1
      /\ queue'[Len(queue')] = task
  BY <1>1, <1>2, <1>3, Pushed DEF Longer
<1>5. /\ \A i \in 1 .. Len(queue) :
           ~ByTcp(queue[i]) /\ queue[i].op \notin {"revokeAllSessions", "getSessionAndAccount"}
      /\ answers["tcp"] = NoAnswer
  BY <1>1, <1>2, TcpFree DEF Calling, AnswerFits
<1>6. TypeOK'
  BY <1>1, <1>2, <1>4 DEF TypeOK
<1>7. Calling'
  <2>1. ASSUME NEW i \in Len(queue) + 1 .. Len(queue')
        PROVE  /\ ~ByConsole(queue'[i])
               /\ ByTcp(queue'[i]) => i = Len(queue') /\ Asked(queue[i])'
    <3>1. queue'[i] = task
      BY <1>4 DEF Longer
    <3> QED
      BY <1>3, <3>1
  <2>2. OneCall'
    BY <1>2, <1>4, <1>5, <2>1, TcpCalls
  <2> QED
    BY <1>1, <1>2, <2>2 DEF Calling, AnswerFits, HandlerFits
<1>8. Drawing'
  BY <1>1, <1>2 DEF Drawing, Reserved, Sorted, Owned, IsSession, IsReset
<1>9. Revoking'
  <2>1. Justified'
    <3>1. \A i \in 1 .. Len(queue') :
            \/ i \in 1 .. Len(queue) /\ queue'[i] = queue[i]
            \/ queue'[i] = task
      BY <1>4 DEF Longer
    <3> QED
      BY <1>1, <1>2, <1>5, <3>1 DEF Revoking, Justified
  <2>2. Leaving(t)'
    <3>1. \A j \in 1 .. Len(queue') - 1 : queue'[j].op # "getSessionAndAccount"
      BY <1>4, <1>5 DEF Longer
    <3>2. Len(queue') \in 1 .. Len(queue')
      BY <1>4 DEF Longer
    <3> QED
      BY <1>4, <3>1, <3>2 DEF Leaving
  <2>3. resets[t] = NoUser
    BY <1>1, <1>2 DEF Drawing, Sorted, IsSession, IsReset
  <2>4. Gone'
    BY <1>1, <1>2, <1>4, <2>2, <2>3, LeavingStays DEF Revoking, Gone
  <2>5. Going' /\ Consumed' /\ Voided'
    BY <1>2, <1>5 DEF Going, Consumed, Voided, Reissues
  <2> QED
    BY <2>1, <2>4, <2>5 DEF Revoking
<1>10. (RevokedSignsNobodyIn /\ ResetWorksOnce /\ HandedOutIsStored)'
  BY <1>1, <1>2, <1>5 DEF RevokedSignsNobodyIn, ResetWorksOnce, HandedOutIsStored
<1> QED
  BY <1>6, <1>7, <1>8, <1>9, <1>10 DEF IInv

\* Every request either opens a handler or is a LOGOUT.
LEMMA RequestsOpen ==
  ASSUME TypeOK, Requests
  PROVE  \/ \E t \in Secrets : ReceiveLogout(t)
         \/ \E request, task : Opens(request, task) /\ Receive(request, task)
<1> DEFINE Opening == \E request, task : Opens(request, task) /\ Receive(request, task)
<1>1. MaxSecrets \in Nat /\ told \in [Secrets -> Users \cup {NoUser}] /\ Secrets \subseteq 0 .. MaxSecrets /\ Idle \in Handlers
  BY StoreAssumption DEF TypeOK, Idle, Handlers, Secrets
<1>2. ASSUME NEW u \in Users, NEW p \in Typed, ReceiveLogin(u, p) PROVE Opening
  <2> DEFINE request == [Idle EXCEPT !.kind = "LOGIN", !.stage = "account", !.user = u,
                                     !.password = p]
  <2>1. request \in Handlers
    BY <1>1 DEF Handlers
  <2>2. Opens(request, FindAccount("tcp", u))
    BY <1>1, <1>2, <2>1 DEF ReceiveLogin, Opens, Idle
  <2> QED
    BY <1>2, <2>2 DEF ReceiveLogin
<1>3. ASSUME NEW u \in Users, NEW p \in Passwords, ReceiveRegister(u, p) PROVE Opening
  <2> DEFINE request == [Idle EXCEPT !.kind = "REGISTER", !.stage = "account", !.user = u,
                                     !.new = p]
  <2>1. request \in Handlers
    BY <1>1 DEF Handlers
  <2>2. Opens(request, FindAccount("tcp", u))
    BY <1>1, <1>3, <2>1 DEF ReceiveRegister, Opens, Idle
  <2> QED
    BY <1>3, <2>2 DEF ReceiveRegister
<1>4. ASSUME NEW u \in Users, NEW p \in Typed, NEW q \in Passwords,
             ReceiveChangePassword(u, p, q)
      PROVE  Opening
  <2> DEFINE request == [Idle EXCEPT !.kind = "CHANGE_PASSWORD", !.stage = "account",
                                     !.user = u, !.password = p, !.new = q]
  <2>1. request \in Handlers
    BY <1>1 DEF Handlers
  <2>2. Opens(request, FindAccount("tcp", u))
    BY <1>1, <1>4, <2>1 DEF ReceiveChangePassword, Opens, Idle
  <2> QED
    BY <1>4, <2>2 DEF ReceiveChangePassword
<1>5. ASSUME NEW u \in Users, NEW p \in Passwords, NEW r \in Secrets,
             ReceiveResetPassword(u, r, p)
      PROVE  Opening
  <2> DEFINE request == [Idle EXCEPT !.kind = "RESET_PASSWORD", !.stage = "consume",
                                     !.user = u, !.new = p, !.reset = r]
             task == [op |-> "consumePasswordReset", by |-> "tcp", reset |-> r]
  <2>1. request \in Handlers
    BY <1>1 DEF Handlers
  <2>2. Opens(request, task)
    BY <1>1, <1>5, <2>1 DEF ReceiveResetPassword, Opens, Idle
  <2> QED
    BY <1>5, <2>2 DEF ReceiveResetPassword
<1>6. ASSUME NEW t \in Secrets, ReceiveAuthSession(t) PROVE Opening
  <2> DEFINE request == [Idle EXCEPT !.kind = "AUTH_SESSION", !.stage = "lookup", !.token = t]
             task == [op |-> "getSessionAndAccount", by |-> "tcp", token |-> t]
  <2>1. request \in Handlers
    BY <1>1 DEF Handlers
  <2>2. Opens(request, task)
    BY <1>1, <1>6, <2>1 DEF ReceiveAuthSession, Opens, Idle
  <2> QED
    BY <1>6, <2>2 DEF ReceiveAuthSession
<1> QED
  BY <1>2, <1>3, <1>4, <1>5, <1>6 DEF Requests

LEMMA RequestsKeep == IInv /\ Requests => IInv'
<1> SUFFICES ASSUME IInv, Requests PROVE IInv'
  OBVIOUS
<1>1. TypeOK
  BY DEF IInv
<1> QED
  BY <1>1, RequestsOpen, ReceiveKeeps, ReceiveLogoutKeeps

\* A handler takes its answer and goes on.
Turn == answers["tcp"] # NoAnswer /\ TakeAnswer /\ UNCHANGED tcpKeeps

\* What a turn leaves alone, and what it finds in the queue.
LEMMA TurnFacts ==
  ASSUME IInv, Turn
  PROVE  /\ accounts' = accounts /\ sessions' = sessions /\ resets' = resets
         /\ working' = working /\ console' = console /\ told' = told /\ expired' = expired
         /\ spared' = spared /\ void' = void /\ mishaps' = mishaps
         /\ answers' \in [Threads -> Answers]
         /\ answers'["tcp"] = NoAnswer /\ answers'["console"] = answers["console"]
         /\ Len(queue) \in Nat /\ tcp.stage # "idle"
         /\ \A i \in 1 .. Len(queue) :
              /\ queue[i] \in Tasks /\ ~ByTcp(queue[i])
              /\ queue[i].op \notin {"revokeAllSessions", "createSession", "getSessionAndAccount"}
<1>1. TypeOK /\ AnswerFits
  BY DEF IInv, Calling
<1> QED
  BY <1>1, TcpFree DEF Turn, TakeAnswer, tcpKeeps, tables, TypeOK, AnswerFits, Threads, Answers

\* What happens to a dead token in a turn: the queue grows, and the token added
\* to the dead is the reset token the handler consumed.
LEMMA TurnGone ==
  ASSUME IInv, Turn, Longer,
         dead' = dead \/ (tcp.stage = "consume" /\ dead' = dead \cup {tcp.reset})
  PROVE  Gone'
<1>1. Gone /\ Sorted /\ Owned /\ Consumed /\ told \in [Secrets -> Users \cup {NoUser}]
  BY DEF IInv, Revoking, Drawing, TypeOK
<1>2. /\ sessions' = sessions /\ resets' = resets /\ spared' = spared
      /\ answers["tcp"] # NoAnswer
  BY TurnFacts DEF Turn
<1>3. ASSUME tcp.stage = "consume"
      PROVE  /\ resets[tcp.reset] = NoUser \/ tcp.reset \in spared
             /\ sessions[tcp.reset] = NoUser
  BY <1>1, <1>2, <1>3 DEF Sorted, Owned, Consumed, IsSession, IsReset
<1> QED
  BY <1>1, <1>2, <1>3, LeavingStays DEF Gone

\* A request that is turned down keeps the invariant.
LEMMA RefuseKeeps ==
  ASSUME IInv, Turn, Refuse
  PROVE  IInv'
<1>1. /\ TypeOK /\ Calling /\ Drawing /\ Revoking
      /\ RevokedSignsNobodyIn /\ ResetWorksOnce /\ HandedOutIsStored
  BY DEF IInv
<1>2. /\ tcp' = Idle /\ queue' = queue /\ clientMap' = clientMap /\ drawn' = drawn
      /\ handed' = handed /\ dead \subseteq dead'
      /\ dead' = dead \/ (tcp.stage = "consume" /\ dead' = dead \cup {tcp.reset})
  BY DEF Refuse
<1>3. tcp.stage = "consume" => tcp.reset \in Secrets /\ told[tcp.reset] # NoUser
  BY <1>1 DEF Drawing, Owned, TypeOK
<1>4. Longer
  BY <1>2, TurnFacts DEF Longer
<1>5. TypeOK'
  <2>1. Idle \in Handlers
    BY StoreAssumption DEF Idle, Handlers
  <2> QED
    BY <1>1, <1>2, <1>3, <2>1, TurnFacts DEF TypeOK, Handlers
<1>6. Calling'
  <2>1. OneCall'
    BY <1>2, <1>4, TurnFacts, TcpCalls
  <2>2. tcp'.stage = "idle" /\ tcp'.kind = "none"
    BY <1>2 DEF Idle
  <2> QED
    BY <1>1, <1>2, <2>1, <2>2, TurnFacts DEF Calling, AnswerFits, HandlerFits
<1>7. tcp'.stage = "idle" /\ tcp'.token = 0 /\ tcp'.reset = 0
  BY <1>2 DEF Idle
<1>8. Drawing'
  <2>1. Reserved'
    BY <1>1, <1>2, <1>7, TurnFacts, StoreAssumption DEF Drawing, Reserved, TypeOK
  <2>2. Sorted'
    BY <1>1, <1>2, <1>7, TurnFacts DEF Drawing, Sorted, IsSession, IsReset, Secrets
  <2>3. Owned'
    BY <1>1, <1>2, <1>7, TurnFacts DEF Drawing, Owned
  <2> QED
    BY <2>1, <2>2, <2>3 DEF Drawing
<1>9. Revoking'
  <2>1. Justified'
    BY <1>1, <1>2, <1>3, TurnFacts DEF Revoking, Justified
  <2>2. Gone'
    BY <1>2, <1>4, TurnGone
  <2> QED
    BY <1>7, <2>1, <2>2 DEF Revoking, Going, Consumed, Voided, Reissues
<1>10. (RevokedSignsNobodyIn /\ ResetWorksOnce /\ HandedOutIsStored)'
  BY <1>1, <1>2, <1>7, TurnFacts DEF RevokedSignsNobodyIn, ResetWorksOnce, HandedOutIsStored
<1> QED
  BY <1>5, <1>6, <1>8, <1>9, <1>10 DEF IInv

\* A handler that goes on to write the password keeps the invariant.
LEMMA WriteKeeps ==
  ASSUME IInv, Turn, NEW op, NEW stage, Write(op, stage),
         \/ /\ op = "createAccount" /\ stage = "create"
            /\ tcp.stage = "account" /\ tcp.kind = "REGISTER" /\ dead' = dead
         \/ /\ op = "updateAccountPassword" /\ stage = "update"
            /\ \/ tcp.stage = "account" /\ tcp.kind = "CHANGE_PASSWORD" /\ dead' = dead
               \/ tcp.stage = "consume" /\ dead' = dead \cup {tcp.reset}
  PROVE  IInv'
<1> DEFINE task == [op |-> op, by |-> "tcp", user |-> tcp.user, password |-> tcp.new]
<1>1. /\ TypeOK /\ Calling /\ Drawing /\ Revoking
      /\ RevokedSignsNobodyIn /\ ResetWorksOnce /\ HandedOutIsStored
  BY DEF IInv
<1>2. /\ queue' = Append(queue, task) /\ clientMap' = clientMap
      /\ drawn' = drawn /\ handed' = handed /\ dead \subseteq dead'
      /\ dead' = dead \/ (tcp.stage = "consume" /\ dead' = dead \cup {tcp.reset})
  BY DEF Write
<1>3. tcp.stage = "consume" => tcp.reset \in Secrets /\ told[tcp.reset] # NoUser
  BY <1>1 DEF Drawing, Owned, TypeOK
<1>4. tcp.user \in Users /\ tcp.new \in Passwords
  BY <1>1 DEF Calling, HandlerFits
<1>5. /\ tcp' \in Handlers /\ tcp'.stage = stage /\ tcp'.kind = tcp.kind
      /\ tcp'.user = tcp.user /\ tcp'.new = tcp.new
      /\ tcp'.token = tcp.token /\ tcp'.reset = tcp.reset
  BY <1>1 DEF Write, TypeOK, Handlers
<1>6. task \in Tasks /\ ~ByConsole(task)
  BY <1>4 DEF Tasks, ByConsole
<1>7. /\ Longer /\ queue' \in Seq(Tasks) /\ Len(queue') = Len(queue) + 1
      /\ queue'[Len(queue')] = task
  BY <1>1, <1>2, <1>6, Pushed DEF Longer
<1>8. \A i \in 1 .. Len(queue') :
        \/ i \in 1 .. Len(queue) /\ queue'[i] = queue[i]
        \/ i = Len(queue') /\ queue'[i] = task
  BY <1>7 DEF Longer
<1>9. TypeOK'
  BY <1>1, <1>2, <1>3, <1>5, <1>7, TurnFacts DEF TypeOK, Handlers
<1>10. Calling'
  <2>1. ASSUME NEW i \in Len(queue) + 1 .. Len(queue')
        PROVE  /\ ~ByConsole(queue'[i])
               /\ ByTcp(queue'[i]) => i = Len(queue') /\ Asked(queue[i])'
    <3>1. i = Len(queue') /\ queue'[i] = task
      BY <1>7 DEF Longer
    <3> QED
      BY <1>5, <1>6, <3>1 DEF Asked
  <2>2. OneCall'
    BY <1>7, <2>1, TurnFacts, TcpCalls
  <2>3. AnswerFits' /\ HandlerFits'
    BY <1>1, <1>4, <1>5, TurnFacts DEF Calling, AnswerFits, HandlerFits
  <2> QED
    BY <2>2, <2>3 DEF Calling
<1>11. Drawing'
  <2>1. Reserved'
    BY <1>1, <1>2, <1>5, TurnFacts DEF Drawing, Reserved
  <2>2. Sorted'
    BY <1>1, <1>2, <1>5, TurnFacts DEF Drawing, Sorted, IsSession, IsReset
  <2>3. Owned'
    BY <1>1, <1>2, <1>5, TurnFacts DEF Drawing, Owned
  <2> QED
    BY <2>1, <2>2, <2>3 DEF Drawing
<1>12. Revoking'
  <2>1. Justified'
    BY <1>1, <1>2, <1>3, <1>8, TurnFacts DEF Revoking, Justified
  <2>2. Gone'
    BY <1>2, <1>7, TurnGone
  <2> QED
    BY <1>5, <2>1, <2>2, TurnFacts, StoreAssumption
    DEF Revoking, Going, Consumed, Voided, Reissues
<1>13. (RevokedSignsNobodyIn /\ ResetWorksOnce /\ HandedOutIsStored)'
  BY <1>1, <1>2, <1>5, TurnFacts DEF RevokedSignsNobodyIn, ResetWorksOnce, HandedOutIsStored
<1> QED
  BY <1>9, <1>10, <1>11, <1>12, <1>13 DEF IInv

\* A handler that goes on to issue a session keeps the invariant: the token is new,
\* and a password change queues the DELETE of the others before it.
LEMMA IssueKeeps ==
  ASSUME IInv, Turn, Issue,
         \/ tcp.stage = "account" /\ tcp.kind = "LOGIN"
         \/ tcp.stage = "create"
         \/ tcp.stage = "update" /\ answers["tcp"] = TRUE
  PROVE  IInv'
<1> DEFINE token == drawn + 1
           Changes == tcp.kind \in {"RESET_PASSWORD", "CHANGE_PASSWORD"}
           revoke == [op |-> "revokeAllSessions", user |-> tcp.user]
           create == [op |-> "createSession", by |-> "tcp", user |-> tcp.user, token |-> token]
<1>1. /\ TypeOK /\ Calling /\ Drawing /\ Revoking
      /\ RevokedSignsNobodyIn /\ ResetWorksOnce /\ HandedOutIsStored
  BY DEF IInv
<1>2. /\ drawn' = token /\ clientMap' = clientMap /\ handed' = handed /\ dead' = dead
      /\ queue' = IF Changes THEN queue \o <<revoke, create>> ELSE queue \o << create >>
  BY DEF Issue, Reissued
<1>3. tcp.user \in Users
  BY <1>1 DEF Calling, HandlerFits
<1>4. token \in Secrets /\ token # console.reset
  <2>1. /\ drawn \in Nat /\ MaxSecrets \in Nat
        /\ console.reset \in 0 .. MaxSecrets /\ token <= MaxSecrets
    BY <1>1, StoreAssumption DEF TypeOK, Drawing, Reserved
  <2>2. console.reset \in Secrets => console.reset <= drawn
    BY <1>1 DEF Drawing, Sorted, IsReset
  <2> QED
    BY <2>1, <2>2 DEF Secrets
<1>5. sessions[token] = NoUser /\ resets[token] = NoUser /\ handed[token] = NoUser /\ told[token] = NoUser
  <2>1. ~(token <= drawn)
    BY <1>1 DEF TypeOK
  <2> QED
    BY <1>1, <1>4, <2>1 DEF Drawing, Sorted, IsSession, IsReset
<1>6. /\ tcp' \in Handlers /\ tcp'.stage = "session" /\ tcp'.kind = tcp.kind
      /\ tcp'.user = tcp.user /\ tcp'.new = tcp.new
      /\ tcp'.token = token /\ tcp'.reset = tcp.reset
  <2>1. token \in 0 .. MaxSecrets
    BY <1>4 DEF Secrets
  <2> QED
    BY <1>1, <2>1 DEF Issue, TypeOK, Handlers
<1>7. /\ revoke \in Tasks /\ ~ByConsole(revoke) /\ ~ByTcp(revoke)
      /\ create \in Tasks /\ ~ByConsole(create)
  BY <1>3, <1>4 DEF Tasks, ByConsole, ByTcp
<1>8. /\ Longer /\ queue' \in Seq(Tasks) /\ Len(queue) < Len(queue')
      /\ queue'[Len(queue')] = create
      /\ \A i \in Len(queue) + 1 .. Len(queue') :
           \/ i = Len(queue') /\ queue'[i] = create
           \/ i = Len(queue') - 1 /\ queue'[i] = revoke /\ Changes
      /\ Changes => Len(queue) + 1 \in 1 .. Len(queue') /\ queue'[Len(queue) + 1] = revoke
  <2>1. CASE Changes
    <3>1. queue' = queue \o <<revoke, create>>
      BY <1>2, <2>1
    <3>2. /\ queue' \in Seq(Tasks) /\ Len(queue) \in Nat /\ Len(queue') = Len(queue) + 2
          /\ \A i \in 1 .. Len(queue) : queue[i] \in Tasks /\ queue'[i] = queue[i]
          /\ queue'[Len(queue) + 1] = revoke /\ queue'[Len(queue) + 2] = create
      BY <1>1, <1>7, <3>1, PushedBoth
    <3>3. Longer
      BY <3>2 DEF Longer
    <3> HIDE DEF revoke, create
    <3> QED
      BY <2>1, <3>2, <3>3
  <2>2. CASE ~Changes
    <3>1. queue' = Append(queue, create)
      BY <1>1, <1>2, <1>7, <2>2 DEF TypeOK
    <3>2. /\ queue' \in Seq(Tasks) /\ Len(queue) \in Nat /\ Len(queue') = Len(queue) + 1
          /\ \A i \in 1 .. Len(queue) : queue[i] \in Tasks /\ queue'[i] = queue[i]
          /\ queue'[Len(queue) + 1] = create
      BY <1>1, <1>7, <3>1, Pushed
    <3>3. Longer
      BY <3>2 DEF Longer
    <3> HIDE DEF revoke, create
    <3> QED
      BY <2>2, <3>2, <3>3
  <2> QED
    BY <2>1, <2>2
<1>9. TypeOK'
  BY <1>1, <1>2, <1>4, <1>6, <1>8, TurnFacts DEF TypeOK, Handlers, Secrets
<1>10. Calling'
  <2>1. ASSUME NEW i \in Len(queue) + 1 .. Len(queue')
        PROVE  /\ ~ByConsole(queue'[i])
               /\ ByTcp(queue'[i]) => i = Len(queue') /\ Asked(queue[i])'
    <3>1. CASE i = Len(queue') /\ queue'[i] = create
      BY <1>6, <1>7, <3>1 DEF Asked
    <3>2. CASE queue'[i] = revoke
      BY <1>7, <3>2 DEF ByConsole, ByTcp
    <3> QED
      BY <1>8, <3>1, <3>2
  <2>2. OneCall'
    BY <1>8, <2>1, TurnFacts, TcpCalls
  <2>3. AnswerFits' /\ HandlerFits'
    BY <1>1, <1>3, <1>6, TurnFacts DEF Calling, AnswerFits, HandlerFits
  <2> QED
    BY <2>2, <2>3 DEF Calling
<1>11. Drawing'
  <2>1. Reserved'
    BY <1>1, <1>2, <1>6, TurnFacts, StoreAssumption DEF Drawing, Reserved, TypeOK
  <2>2. Sorted'
    <3>1. drawn \in Nat /\ drawn' = drawn + 1
      BY <1>1, <1>2 DEF TypeOK
    <3> QED
      BY <1>1, <1>2, <1>4, <1>5, <1>6, <3>1, TurnFacts
      DEF Drawing, Sorted, IsSession, IsReset, Secrets
  <2>3. Owned'
    BY <1>1, <1>2, <1>4, <1>5, <1>6, TurnFacts DEF Drawing, Owned
  <2> QED
    BY <2>1, <2>2, <2>3 DEF Drawing
<1>12. Revoking'
  <2>1. Justified'
    <3>1. ASSUME NEW i \in 1 .. Len(queue')
          PROVE  \/ i \in 1 .. Len(queue) /\ queue'[i] = queue[i]
                 \/ i = Len(queue') /\ queue'[i] = create
                 \/ i = Len(queue') - 1 /\ queue'[i] = revoke /\ Changes
      <4>1. CASE i \in 1 .. Len(queue)
        BY <1>8, <4>1 DEF Longer
      <4>2. CASE i \in Len(queue) + 1 .. Len(queue')
        BY <1>8, <4>2
      <4> QED
        BY <1>8, <4>1, <4>2 DEF Longer
    <3>2. ASSUME NEW i \in 1 .. Len(queue'), queue'[i].op = "revokeSession"
          PROVE  queue'[i].token \in dead' /\ handed'[queue'[i].token] # NoUser
      BY <1>1, <1>2, <3>1, <3>2 DEF Revoking, Justified
    <3>3. ASSUME NEW i \in 1 .. Len(queue'), queue'[i].op = "revokeAllSessions"
          PROVE  /\ Reissues' /\ queue'[i].user = tcp'.user
                 /\ \E j \in i + 1 .. Len(queue') : queue'[j].op = "createSession"
      <4>1. i = Len(queue') - 1 /\ queue'[i] = revoke /\ Changes
        BY <3>1, <3>3, TurnFacts
      <4>2. Len(queue') \in i + 1 .. Len(queue')
        BY <4>1, <1>8 DEF Longer
      <4> QED
        BY <1>6, <1>8, <4>1, <4>2 DEF Reissues
    <3> QED
      BY <1>1, <1>2, <3>2, <3>3, TurnFacts DEF Revoking, Justified
  <2>2. Gone'
    BY <1>2, <1>8, TurnGone
  <2>3. Going'
    BY <1>6, <1>8 DEF Going, Reissues
  <2>4. Voided'
    <3>1. Changes => Handed(tcp.user) \subseteq void
      BY <1>1 DEF Calling, HandlerFits, Revoking, Voided
    <3> QED
      BY <1>2, <1>6, <3>1, TurnFacts DEF Voided, Reissues, Handed
  <2> QED
    BY <1>6, <2>1, <2>2, <2>3, <2>4 DEF Revoking, Consumed
<1>13. (RevokedSignsNobodyIn /\ ResetWorksOnce /\ HandedOutIsStored)'
  BY <1>1, <1>2, <1>6, TurnFacts DEF RevokedSignsNobodyIn, ResetWorksOnce, HandedOutIsStored
<1> QED
  BY <1>9, <1>10, <1>11, <1>12, <1>13 DEF IInv

\* A session that is issued keeps the invariant: whatever the answer was, the token
\* is in the store or known not to be, and the tokens before it are gone.
LEMMA IssuedKeeps == IInv /\ Issued => IInv'
<1> SUFFICES ASSUME IInv, Issued PROVE IInv'
  OBVIOUS
<1>1. /\ TypeOK /\ Calling /\ Drawing /\ Revoking
      /\ RevokedSignsNobodyIn /\ ResetWorksOnce /\ HandedOutIsStored
  BY DEF IInv
<1>2. Turn /\ tcp.stage = "session" /\ answers["tcp"] # NoAnswer
  BY DEF Issued, Answered, Turn
<1>3. /\ tcp' = Idle /\ queue' = queue /\ drawn' = drawn /\ clientMap' \subseteq clientMap \cup {tcp.user}
      /\ handed' = [handed EXCEPT ![tcp.token] = tcp.user]
      /\ dead' = dead \/ (Reissues /\ dead' = dead \cup Handed(tcp.user))
  BY <1>2 DEF Issued, Reissues
<1>4. /\ tcp.user \in Users /\ tcp.user # NoUser /\ tcp.token \in Secrets
      /\ handed[tcp.token] = NoUser /\ sessions[tcp.token] \in {NoUser, tcp.user}
  BY <1>1, <1>2, StoreAssumption DEF Calling, HandlerFits, Drawing, Owned
<1>5. /\ handed'[tcp.token] = tcp.user
      /\ \A s \in Secrets : s # tcp.token => handed'[s] = handed[s]
      /\ \A s \in Secrets : handed[s] # NoUser => handed'[s] = handed[s]
  BY <1>1, <1>3, <1>4 DEF TypeOK
<1>6. \A s \in dead' : s \in dead \/ (Reissues /\ s \in Secrets /\ handed[s] = tcp.user)
  BY <1>3 DEF Handed
<1>7. tcp'.stage = "idle" /\ tcp'.kind = "none" /\ tcp'.token = 0 /\ tcp'.reset = 0
  BY <1>3 DEF Idle
<1>8. Longer
  BY <1>2, <1>3, TurnFacts DEF Longer
<1>9. TypeOK'
  <2>1. Idle \in Handlers
    BY StoreAssumption DEF Idle, Handlers
  <2>2. dead' \subseteq Secrets
    BY <1>1, <1>6 DEF TypeOK
  <2> QED
    BY <1>1, <1>2, <1>3, <1>4, <2>1, <2>2, TurnFacts DEF TypeOK, Handlers
<1>10. Calling'
  <2>1. OneCall'
    BY <1>2, <1>3, <1>8, TurnFacts, TcpCalls
  <2> QED
    BY <1>1, <1>2, <1>7, <2>1, TurnFacts DEF Calling, AnswerFits, HandlerFits
<1>11. Drawing'
  <2>1. Reserved'
    BY <1>1, <1>2, <1>3, <1>7, TurnFacts, StoreAssumption DEF Drawing, Reserved, TypeOK
  <2>2. Sorted'
    BY <1>1, <1>2, <1>3, <1>5, <1>7, TurnFacts DEF Drawing, Sorted, IsSession, IsReset, Secrets
  <2>3. Owned'
    BY <1>1, <1>2, <1>4, <1>5, <1>7, TurnFacts DEF Drawing, Owned
  <2> QED
    BY <2>1, <2>2, <2>3 DEF Drawing
<1>12. Revoking'
  <2>1. Justified'
    <3>1. \A s \in dead' : handed'[s] # NoUser \/ told'[s] # NoUser
      BY <1>1, <1>2, <1>4, <1>5, <1>6, TurnFacts DEF Revoking, Justified, TypeOK
    <3>2. ASSUME NEW i \in 1 .. Len(queue'), queue'[i].op = "revokeSession"
          PROVE  queue'[i].token \in dead' /\ handed'[queue'[i].token] # NoUser
      <4>1. queue[i].token \in dead /\ handed[queue[i].token] # NoUser
        BY <1>1, <1>3, <3>2 DEF Revoking, Justified
      <4> QED
        BY <1>1, <1>3, <1>5, <4>1 DEF TypeOK
    <3> QED
      BY <1>2, <1>3, <3>1, <3>2, TurnFacts DEF Justified
  <2>2. Gone'
    <3> SUFFICES ASSUME NEW s \in dead', s \notin spared
                 PROVE  resets[s] = NoUser /\ (sessions[s] = NoUser \/ Leaving(s)')
      BY <1>2, TurnFacts DEF Gone
    <3>1. CASE s \in dead
      BY <1>1, <1>8, <3>1, LeavingStays DEF Revoking, Gone
    <3>2. CASE Reissues /\ s \in Secrets /\ handed[s] = tcp.user
      <4>1. sessions[s] = NoUser
        BY <1>1, <1>2, <3>2, TurnFacts DEF Revoking, Going
      <4>2. resets[s] = NoUser
        BY <1>1, <1>4, <3>2 DEF Drawing, Sorted, IsSession, IsReset
      <4> QED
        BY <4>1, <4>2
    <3> QED
      BY <1>6, <3>1, <3>2
  <2> QED
    BY <1>7, <2>1, <2>2 DEF Revoking, Going, Consumed, Voided, Reissues
<1>13. HandedOutIsStored'
  <2> SUFFICES ASSUME NEW s \in Secrets, handed'[s] # NoUser, s \notin dead, s \notin void
               PROVE  sessions[s] = handed'[s]
    BY <1>2, <1>3, TurnFacts DEF HandedOutIsStored
  <2>1. CASE s = tcp.token
    BY <1>1, <1>2, <1>5, <2>1 DEF Revoking, Voided
  <2>2. CASE s # tcp.token
    BY <1>1, <1>5, <2>2 DEF HandedOutIsStored
  <2> QED
    BY <2>1, <2>2
<1>14. (RevokedSignsNobodyIn /\ ResetWorksOnce)'
  BY <1>7 DEF RevokedSignsNobodyIn, ResetWorksOnce
<1> QED
  BY <1>9, <1>10, <1>11, <1>12, <1>13, <1>14 DEF IInv

\* An AUTH_SESSION that was answered keeps the invariant.
LEMMA SessionFoundKeeps == IInv /\ SessionFound => IInv'
<1> SUFFICES ASSUME IInv, SessionFound PROVE IInv'
  OBVIOUS
<1>1. /\ TypeOK /\ Calling /\ Drawing /\ Revoking
      /\ RevokedSignsNobodyIn /\ ResetWorksOnce /\ HandedOutIsStored
  BY DEF IInv
<1>2. /\ Turn /\ tcp.stage = "lookup" /\ answers["tcp"] # NoAnswer
      /\ tcp' = Idle /\ queue' = queue /\ drawn' = drawn /\ handed' = handed /\ dead' = dead
  BY DEF SessionFound, Answered, Turn
<1>3. clientMap' \subseteq Users
  BY <1>1, <1>2 DEF SessionFound, SignedIn, Calling, AnswerFits, TypeOK
<1>4. tcp'.stage = "idle" /\ tcp'.kind = "none" /\ tcp'.token = 0 /\ tcp'.reset = 0
  BY <1>2 DEF Idle
<1>5. Longer
  BY <1>2, TurnFacts DEF Longer
<1>6. TypeOK'
  <2>1. Idle \in Handlers
    BY StoreAssumption DEF Idle, Handlers
  <2> QED
    BY <1>1, <1>2, <1>3, <2>1, TurnFacts DEF TypeOK, Handlers
<1>7. Calling'
  <2>1. OneCall'
    BY <1>2, <1>5, TurnFacts, TcpCalls
  <2> QED
    BY <1>1, <1>2, <1>4, <2>1, TurnFacts DEF Calling, AnswerFits, HandlerFits
<1>8. Drawing'
  <2>1. Reserved'
    BY <1>1, <1>2, <1>4, TurnFacts, StoreAssumption DEF Drawing, Reserved, TypeOK
  <2>2. Sorted' /\ Owned'
    BY <1>1, <1>2, <1>4, TurnFacts DEF Drawing, Sorted, Owned, IsSession, IsReset, Secrets
  <2> QED
    BY <2>1, <2>2 DEF Drawing
<1>9. Revoking'
  <2>1. Justified'
    BY <1>1, <1>2, TurnFacts DEF Revoking, Justified
  <2>2. Gone'
    BY <1>2, <1>5, TurnGone
  <2> QED
    BY <1>4, <2>1, <2>2 DEF Revoking, Going, Consumed, Voided, Reissues
<1>10. (RevokedSignsNobodyIn /\ ResetWorksOnce /\ HandedOutIsStored)'
  BY <1>1, <1>2, <1>4, TurnFacts DEF RevokedSignsNobodyIn, ResetWorksOnce, HandedOutIsStored
<1> QED
  BY <1>6, <1>7, <1>8, <1>9, <1>10 DEF IInv

\* Every handler that goes on keeps the invariant.
LEMMA TcpGoesOnKeeps == IInv /\ TcpGoesOn => IInv'
<1> SUFFICES ASSUME IInv, TcpGoesOn PROVE IInv'
  OBVIOUS
<1>1. CASE AccountFound
  <2>1. Turn /\ tcp.stage = "account"
    BY <1>1 DEF AccountFound, Answered, Turn
  <2>2. \/ tcp.kind = "LOGIN" /\ Issue
        \/ Refuse
        \/ tcp.kind = "REGISTER" /\ Write("createAccount", "create") /\ dead' = dead
        \/ tcp.kind = "CHANGE_PASSWORD" /\ Write("updateAccountPassword", "update") /\ dead' = dead
    BY <1>1 DEF AccountFound
  <2> QED
    BY <2>1, <2>2, IssueKeeps, RefuseKeeps, WriteKeeps
<1>2. CASE ResetConsumed
  <2>1. Turn /\ tcp.stage = "consume"
    BY <1>2 DEF ResetConsumed, ResetMatches, Answered, Turn
  <2>2. \/ Write("updateAccountPassword", "update") /\ dead' = dead \cup {tcp.reset}
        \/ Refuse
    BY <1>2 DEF ResetConsumed, ResetMatches
  <2> QED
    BY <2>1, <2>2, RefuseKeeps, WriteKeeps
<1>3. CASE Written
  <2>1. Turn /\ tcp.stage \in {"create", "update"}
    BY <1>3 DEF Written, Answered, Turn
  <2>2. answers["tcp"] \in BOOLEAN
    BY <2>1 DEF IInv, Calling, AnswerFits, Turn
  <2>3. (answers["tcp"] = TRUE /\ Issue) \/ Refuse
    BY <1>3, <2>2 DEF Written
  <2> QED
    BY <2>1, <2>3, IssueKeeps, RefuseKeeps
<1> QED
  BY <1>1, <1>2, <1>3, IssuedKeeps, SessionFoundKeeps DEF TcpGoesOn

-----------------------------------------------------------------------------
(* The console thread.                                                     *)

\* A step of a command: at most one call is queued, and it is the one waited for.
ConsoleTurn ==
    /\ UNCHANGED consoleKeeps
    /\ answers' \in [Threads -> Answers]
    /\ answers'["tcp"] = answers["tcp"] /\ answers'["console"] = NoAnswer
    /\ console.stage = "idle" \/ answers["console"] # NoAnswer
    /\ \A s \in Secrets : told[s] # NoUser => told'[s] # NoUser
    /\ \/ queue' = queue
       \/ \E task \in Tasks :
            queue' = Append(queue, task) /\ ByConsole(task) /\ AskedByConsole(task)'

\* It disturbs neither what the TCP thread waits for nor a queued DELETE.
LEMMA ConsoleTurnKeeps ==
  ASSUME IInv, ConsoleTurn
  PROVE  /\ accounts' = accounts /\ sessions' = sessions /\ resets' = resets
         /\ working' = working /\ tcp' = tcp /\ clientMap' = clientMap /\ handed' = handed
         /\ expired' = expired /\ dead' = dead /\ spared' = spared /\ void' = void
         /\ mishaps' = mishaps
         /\ queue' \in Seq(Tasks) /\ OneCall' /\ AnswerFits' /\ Revoking'
         /\ (RevokedSignsNobodyIn /\ ResetWorksOnce /\ HandedOutIsStored)'
<1>1. /\ TypeOK /\ Calling /\ Drawing /\ Revoking
      /\ RevokedSignsNobodyIn /\ ResetWorksOnce /\ HandedOutIsStored
  BY DEF IInv
<1>2. /\ accounts' = accounts /\ sessions' = sessions /\ resets' = resets
      /\ working' = working /\ tcp' = tcp /\ clientMap' = clientMap /\ handed' = handed
      /\ expired' = expired /\ dead' = dead /\ spared' = spared /\ void' = void
      /\ mishaps' = mishaps /\ \A s \in Secrets : told[s] # NoUser => told'[s] # NoUser
      /\ answers'["tcp"] = answers["tcp"] /\ answers'["console"] = NoAnswer
  BY DEF ConsoleTurn, consoleKeeps, tables, history
<1>3. /\ Longer /\ queue' \in Seq(Tasks)
      /\ \A i \in Len(queue) + 1 .. Len(queue') :
           /\ i = Len(queue') /\ queue'[i] \in Tasks /\ ByConsole(queue'[i])
           /\ AskedByConsole(queue[i])'
  <2>1. CASE queue' = queue
    BY <1>1, <2>1 DEF Longer, TypeOK
  <2>2. ASSUME NEW task \in Tasks, queue' = Append(queue, task), ByConsole(task),
               AskedByConsole(task)'
        PROVE  /\ Longer /\ queue' \in Seq(Tasks)
               /\ \A i \in Len(queue) + 1 .. Len(queue') :
                    /\ i = Len(queue') /\ queue'[i] \in Tasks /\ ByConsole(queue'[i])
                    /\ AskedByConsole(queue[i])'
    <3>1. /\ Longer /\ queue' \in Seq(Tasks) /\ Len(queue') = Len(queue) + 1
          /\ queue'[Len(queue')] = task
      BY <1>1, <2>2, Pushed DEF Longer
    <3>2. ASSUME NEW i \in Len(queue) + 1 .. Len(queue')
          PROVE  /\ i = Len(queue') /\ queue'[i] \in Tasks /\ ByConsole(queue'[i])
                 /\ AskedByConsole(queue[i])'
      <4>1. i = Len(queue') /\ queue'[i] = task
        BY <3>1 DEF Longer
      <4> QED
        BY <2>2, <4>1 DEF AskedByConsole
    <3> QED
      BY <3>1, <3>2
  <2> QED
    BY <2>1, <2>2 DEF ConsoleTurn
<1>4. \A i \in 1 .. Len(queue) : ~ByConsole(queue[i])
  BY <1>1 DEF ConsoleTurn, Calling, OneCall, AskedByConsole
<1>5. \A i \in 1 .. Len(queue') :
        \/ i \in 1 .. Len(queue) /\ queue'[i] = queue[i] /\ ~ByConsole(queue'[i])
        \/ /\ i \in Len(queue) + 1 .. Len(queue') /\ ByConsole(queue'[i]) /\ ~ByTcp(queue'[i])
           /\ queue'[i].op \notin {"revokeSession", "revokeAllSessions"}
  <2> SUFFICES ASSUME NEW i \in 1 .. Len(queue')
               PROVE  \/ i \in 1 .. Len(queue) /\ queue'[i] = queue[i] /\ ~ByConsole(queue'[i])
                      \/ /\ i \in Len(queue) + 1 .. Len(queue') /\ ByConsole(queue'[i])
                         /\ ~ByTcp(queue'[i])
                         /\ queue'[i].op \notin {"revokeSession", "revokeAllSessions"}
    OBVIOUS
  <2>1. CASE i \in 1 .. Len(queue)
    BY <1>3, <1>4, <2>1 DEF Longer
  <2>2. CASE i \in Len(queue) + 1 .. Len(queue')
    BY <1>3, <2>2 DEF ByConsole, ByTcp
  <2> QED
    BY <1>3, <2>1, <2>2 DEF Longer
<1>6. OneCall'
  <2>1. ASSUME NEW i \in 1 .. Len(queue'), ByTcp(queue'[i])
        PROVE  /\ Asked(queue[i])' /\ answers["tcp"] = NoAnswer
               /\ \A j \in 1 .. Len(queue') : ByTcp(queue'[j]) => i = j
    <3>1. /\ Asked(queue[i]) /\ answers["tcp"] = NoAnswer
          /\ \A j \in 1 .. Len(queue) : ByTcp(queue[j]) => i = j
      BY <1>1, <1>5, <2>1 DEF Calling, OneCall
    <3>2. Asked(queue[i])'
      BY <1>2, <1>5, <2>1, <3>1 DEF Asked
    <3> QED
      BY <1>5, <3>1, <3>2
  <2>2. ASSUME NEW i \in 1 .. Len(queue'), ByConsole(queue'[i])
        PROVE  /\ AskedByConsole(queue[i])'
               /\ \A j \in 1 .. Len(queue') : ByConsole(queue'[j]) => i = j
    <3>1. \A j \in 1 .. Len(queue') :
            ByConsole(queue'[j]) => j = Len(queue') /\ j \in Len(queue) + 1 .. Len(queue')
      BY <1>3, <1>5
    <3> QED
      BY <1>3, <2>2, <3>1
  <2> QED
    BY <1>2, <2>1, <2>2 DEF OneCall, ByTcp, ByConsole
<1>7. AnswerFits'
  BY <1>1, <1>2 DEF Calling, AnswerFits
<1>8. Revoking'
  <2>1. Justified'
    <3>1. ASSUME NEW i \in 1 .. Len(queue'), queue'[i].op = "revokeAllSessions"
          PROVE  /\ Reissues /\ queue'[i].user = tcp.user
                 /\ \E j \in i + 1 .. Len(queue') : queue'[j].op = "createSession"
      <4>1. i \in 1 .. Len(queue) /\ queue'[i] = queue[i]
        BY <1>5, <3>1
      <4>2. PICK j \in i + 1 .. Len(queue) : queue[j].op = "createSession"
        BY <1>1, <3>1, <4>1 DEF Revoking, Justified
      <4>3. j \in i + 1 .. Len(queue') /\ queue'[j] = queue[j]
        BY <1>3, <4>1 DEF Longer
      <4> QED
        BY <1>1, <3>1, <4>1, <4>2, <4>3 DEF Revoking, Justified
    <3>2. \A s \in dead : handed[s] # NoUser \/ told'[s] # NoUser
      <4>1. dead \subseteq Secrets
        BY DEF IInv, TypeOK
      <4> QED
        BY <1>1, <1>2, <4>1 DEF Revoking, Justified
    <3>3. ASSUME NEW i \in 1 .. Len(queue'), queue'[i].op = "revokeSession"
          PROVE  queue'[i].token \in dead /\ handed[queue'[i].token] # NoUser
      BY <1>1, <1>5, <3>3 DEF Revoking, Justified
    <3> QED
      BY <1>2, <3>1, <3>2, <3>3 DEF Justified, Reissues
  <2>2. Gone'
    BY <1>1, <1>2, <1>3, LeavingStays DEF Revoking, Gone
  <2>3. Going'
    BY <1>1, <1>2, <1>3 DEF Revoking, Going, Reissues, Longer
  <2>4. Consumed' /\ Voided'
    BY <1>1, <1>2 DEF Revoking, Consumed, Voided, Reissues, Handed
  <2> QED
    BY <2>1, <2>2, <2>3, <2>4 DEF Revoking
<1>9. (RevokedSignsNobodyIn /\ ResetWorksOnce /\ HandedOutIsStored)'
  BY <1>1, <1>2 DEF RevokedSignsNobodyIn, ResetWorksOnce, HandedOutIsStored
<1> QED
  BY <1>2, <1>3, <1>6, <1>7, <1>8, <1>9

\* A command that is typed keeps the invariant.
LEMMA CommandKeeps ==
  ASSUME IInv, NEW u \in Users, Command(u)
  PROVE  IInv'
<1>1. TypeOK /\ Calling /\ Drawing
  BY DEF IInv
<1>2. /\ console' = [ConsoleIdle EXCEPT !.stage = "account", !.user = u]
      /\ queue' = Append(queue, FindAccount("console", u))
      /\ answers' = answers /\ drawn' = drawn /\ told' = told
      /\ console.stage = "idle" /\ Room
  BY DEF Command
<1>3. console'.stage = "account" /\ console'.user = u /\ console'.reset = 0
  BY <1>2 DEF ConsoleIdle
<1>4. FindAccount("console", u) \in Tasks
  BY DEF FindAccount, Tasks, Threads
<1>5. ConsoleTurn
  <2>1. ByConsole(FindAccount("console", u)) /\ AskedByConsole(FindAccount("console", u))'
    BY <1>3 DEF FindAccount, ByConsole, AskedByConsole
  <2>2. answers["console"] = NoAnswer
    BY <1>1, <1>2 DEF Calling, AnswerFits
  <2> QED
    BY <1>1, <1>2, <1>4, <2>1, <2>2 DEF ConsoleTurn, Command, TypeOK
<1>6. TypeOK'
  <2>1. console' \in [stage : {"idle", "account", "reset"}, user : Users \cup {NoUser},
                      reset : 0 .. MaxSecrets]
    <3>1. ConsoleIdle \in [stage : {"idle", "account", "reset"}, user : Users \cup {NoUser},
                           reset : 0 .. MaxSecrets]
      BY StoreAssumption DEF ConsoleIdle
    <3> QED
      BY <1>2, <3>1
  <2> QED
    BY <1>1, <1>2, <1>5, <2>1, ConsoleTurnKeeps DEF TypeOK
<1>7. HandlerFits'
  BY <1>1, <1>3, <1>5, ConsoleTurnKeeps DEF Calling, HandlerFits
<1>8. Drawing'
  <2>1. Reserved'
    <3>1. drawn \in Nat /\ MaxSecrets \in Nat
      BY <1>1, StoreAssumption DEF TypeOK
    <3>2. (IF tcp.stage \in {"account", "create", "consume", "update"} THEN 1 ELSE 0)
            <= (IF tcp.stage = "idle" THEN 0 ELSE 1)
      OBVIOUS
    <3>3. drawn + (IF tcp.stage = "idle" THEN 0 ELSE 1) + 1 <= MaxSecrets
      BY <1>2, <3>1 DEF Room
    <3> QED
      BY <1>2, <1>3, <1>5, <3>1, <3>2, <3>3, ConsoleTurnKeeps DEF Reserved
  <2>2. Sorted' /\ Owned'
    BY <1>1, <1>2, <1>3, <1>5, ConsoleTurnKeeps
    DEF Drawing, Sorted, Owned, IsSession, IsReset, Secrets
  <2> QED
    BY <2>1, <2>2 DEF Drawing
<1> QED
  BY <1>5, <1>6, <1>7, <1>8, ConsoleTurnKeeps DEF IInv, Calling

\* A command that draws a reset token keeps the invariant: the token is new.
LEMMA DrawResetKeeps == IInv /\ DrawReset => IInv'
<1> SUFFICES ASSUME IInv, DrawReset PROVE IInv'
  OBVIOUS
<1> DEFINE reset == drawn + 1
           task == [op |-> "createPasswordReset", by |-> "console",
                    user |-> console.user, reset |-> reset]
           Commands == [stage : {"idle", "account", "reset"}, user : Users \cup {NoUser},
                        reset : 0 .. MaxSecrets]
<1>1. /\ TypeOK /\ Calling /\ Drawing
      /\ console.stage = "account" /\ console.user \in Users
  BY DEF IInv, DrawReset, ConsoleAnswered, Calling, HandlerFits
<1>2. /\ UNCHANGED consoleKeeps /\ answers' \in [Threads -> Answers]
      /\ answers'["tcp"] = answers["tcp"] /\ answers'["console"] = NoAnswer
      /\ answers["console"] # NoAnswer /\ told' = told
  BY <1>1 DEF DrawReset, ConsoleAnswered, TypeOK, Threads, Answers
<1>3. drawn \in Nat /\ MaxSecrets \in Nat /\ reset \in Secrets /\ reset \in 0 .. MaxSecrets
  BY <1>1, StoreAssumption DEF TypeOK, Drawing, Reserved, Secrets
<1>4. CASE console' = ConsoleIdle /\ queue' = queue /\ drawn' = drawn
  <2>1. console'.stage = "idle" /\ console'.reset = 0
    BY <1>4 DEF ConsoleIdle
  <2>2. ConsoleTurn
    BY <1>2, <1>4 DEF ConsoleTurn
  <2>3. ConsoleIdle \in Commands
    BY <1>3 DEF ConsoleIdle
  <2>4. TypeOK'
    BY <1>1, <1>2, <1>4, <2>2, <2>3, ConsoleTurnKeeps DEF TypeOK
  <2>5. HandlerFits'
    BY <1>1, <2>1, <2>2, ConsoleTurnKeeps DEF Calling, HandlerFits
  <2>6. Reserved'
    BY <1>1, <1>3, <1>4, <2>1, <2>2, ConsoleTurnKeeps DEF Drawing, Reserved
  <2>7. Sorted' /\ Owned'
    BY <1>1, <1>2, <1>4, <2>1, <2>2, ConsoleTurnKeeps
    DEF Drawing, Sorted, Owned, IsSession, IsReset, Secrets
  <2> QED
    BY <2>2, <2>4, <2>5, <2>6, <2>7, ConsoleTurnKeeps DEF IInv, Calling, Drawing
<1>5. CASE /\ drawn' = reset
           /\ console' = [console EXCEPT !.stage = "reset", !.reset = reset]
           /\ queue' = Append(queue, task)
  <2>1. /\ console'.stage = "reset" /\ console'.reset = reset
        /\ console'.user = console.user /\ console' \in Commands
    BY <1>1, <1>3, <1>5 DEF TypeOK
  <2>2. task \in Tasks
    BY <1>1, <1>3 DEF Tasks
  <2>3. ConsoleTurn
    <3>1. ByConsole(task)
      BY DEF ByConsole
    <3>2. \E t \in Tasks : queue' = Append(queue, t) /\ ByConsole(t) /\ AskedByConsole(t)'
      BY <1>5, <2>1, <2>2, <3>1 DEF AskedByConsole
    <3> QED
      BY <1>2, <3>2 DEF ConsoleTurn
  <2>4. TypeOK'
    BY <1>1, <1>2, <1>3, <1>5, <2>1, <2>3, ConsoleTurnKeeps DEF TypeOK
  <2>5. HandlerFits'
    BY <1>1, <2>1, <2>3, ConsoleTurnKeeps DEF Calling, HandlerFits
  <2>6. Reserved'
    BY <1>1, <1>3, <1>5, <2>1, <2>3, ConsoleTurnKeeps DEF Drawing, Reserved
  <2>7. Sorted'
    BY <1>1, <1>2, <1>3, <1>5, <2>1, <2>3, ConsoleTurnKeeps
    DEF Drawing, Sorted, IsSession, IsReset, Secrets
  <2>8. Owned'
    <3>1. told[reset] = NoUser
      BY <1>1, <1>3 DEF Drawing, Sorted, IsReset
    <3> QED
      BY <1>1, <1>2, <1>3, <2>1, <2>3, <3>1, ConsoleTurnKeeps DEF Drawing, Owned
  <2> QED
    BY <2>3, <2>4, <2>5, <2>6, <2>7, <2>8, ConsoleTurnKeeps DEF IInv, Calling, Drawing
<1> QED
  BY <1>4, <1>5 DEF DrawReset

\* A command that prints a reset token keeps the invariant.
LEMMA PrintResetKeeps == IInv /\ PrintReset => IInv'
<1> SUFFICES ASSUME IInv, PrintReset PROVE IInv'
  OBVIOUS
<1>1. TypeOK /\ Calling /\ Drawing
  BY DEF IInv
<1>2. /\ UNCHANGED consoleKeeps /\ answers' \in [Threads -> Answers]
      /\ answers'["tcp"] = answers["tcp"] /\ answers'["console"] = NoAnswer
      /\ answers["console"] # NoAnswer /\ console.stage = "reset"
      /\ told' \in {told, [told EXCEPT ![console.reset] = console.user]}
      /\ console' = ConsoleIdle /\ queue' = queue /\ drawn' = drawn
  BY <1>1 DEF PrintReset, ConsoleAnswered, TypeOK, Threads, Answers
<1>3. console.reset \in Secrets /\ console.user \in Users
  BY <1>1, <1>2 DEF Drawing, Owned, Calling, HandlerFits
<1>4. console'.stage = "idle" /\ console'.reset = 0
  BY <1>2 DEF ConsoleIdle
<1>9. \A s \in Secrets : \/ told'[s] = told[s]
                         \/ s = console.reset /\ told'[s] = console.user
  BY <1>1, <1>2 DEF TypeOK
<1>5. ConsoleTurn
  <2>1. \A s \in Secrets : told[s] # NoUser => told'[s] # NoUser
    BY <1>3, <1>9, StoreAssumption
  <2> QED
    BY <1>2, <2>1 DEF ConsoleTurn
<1>6. TypeOK'
  <2>1. ConsoleIdle \in [stage : {"idle", "account", "reset"}, user : Users \cup {NoUser},
                         reset : 0 .. MaxSecrets]
    BY StoreAssumption DEF ConsoleIdle
  <2> QED
    BY <1>1, <1>2, <1>3, <1>5, <2>1, ConsoleTurnKeeps DEF TypeOK
<1>7. HandlerFits'
  BY <1>1, <1>4, <1>5, ConsoleTurnKeeps DEF Calling, HandlerFits
<1>8. Drawing'
  <2>1. Reserved'
    BY <1>1, <1>2, <1>4, <1>5, ConsoleTurnKeeps DEF Drawing, Reserved
  <2>2. Sorted'
    <3>1. ASSUME NEW s \in Secrets
          PROVE  /\ IsSession(s)' = IsSession(s)
                 /\ IsReset(s)' => IsReset(s)
      <4>1. s # 0
        BY DEF Secrets
      <4>2. /\ sessions' = sessions /\ handed' = handed /\ tcp' = tcp /\ resets' = resets
        BY <1>2, <1>5, ConsoleTurnKeeps
      <4>3. IsSession(s)' = IsSession(s)
        BY <4>2 DEF IsSession
      <4> QED
        BY <1>4, <1>9, <4>1, <4>2, <4>3 DEF IsReset
    <3> QED
      BY <1>1, <1>2, <3>1 DEF Drawing, Sorted
  <2>3. Owned'
    BY <1>1, <1>2, <1>3, <1>4, <1>5, ConsoleTurnKeeps DEF Drawing, Owned, ConsoleTurn
  <2> QED
    BY <2>1, <2>2, <2>3 DEF Drawing
<1> QED
  BY <1>5, <1>6, <1>7, <1>8, ConsoleTurnKeeps DEF IInv, Calling

-----------------------------------------------------------------------------
(* The surroundings.                                                       *)

\* A secret that expires keeps the invariant.
LEMMA ExpireKeeps ==
  ASSUME IInv, NEW s \in Secrets, Expire(s)
  PROVE  IInv'
<1>1. /\ accounts' = accounts /\ sessions' = sessions /\ resets' = resets
      /\ working' = working /\ queue' = queue /\ answers' = answers /\ tcp' = tcp
      /\ console' = console /\ clientMap' = clientMap /\ drawn' = drawn /\ handed' = handed
      /\ told' = told /\ dead' = dead /\ spared' = spared /\ void' = void
      /\ mishaps' = mishaps /\ expired' = expired \cup {s}
  BY DEF Expire, tables, server, history
<1>2. TypeOK'
  BY <1>1 DEF IInv, TypeOK
<1>3. Calling'
  BY <1>1 DEF IInv, Calling, OneCall, AnswerFits, HandlerFits, ByTcp, ByConsole, Asked,
     AskedByConsole
<1>4. Drawing'
  BY <1>1 DEF IInv, Drawing, Reserved, Sorted, Owned, IsSession, IsReset
<1>5. Revoking'
  BY <1>1 DEF IInv, Revoking, Justified, Gone, Leaving, Going, Consumed, Voided, Reissues, Handed
<1>6. (RevokedSignsNobodyIn /\ ResetWorksOnce /\ HandedOutIsStored)'
  BY <1>1 DEF IInv, RevokedSignsNobodyIn, ResetWorksOnce, HandedOutIsStored
<1> QED
  BY <1>2, <1>3, <1>4, <1>5, <1>6 DEF IInv

\* A crash loses the queue with the DELETEs in it, and keeps the invariant.
LEMMA CrashKeeps == IInv /\ Crash => IInv'
<1> SUFFICES ASSUME IInv, Crash PROVE IInv'
  OBVIOUS
<1> DEFINE lost == {task.token : task \in Queued("revokeSession")}
<1>1. /\ TypeOK /\ Calling /\ Drawing /\ Revoking
      /\ RevokedSignsNobodyIn /\ ResetWorksOnce /\ HandedOutIsStored
  BY DEF IInv
<1>2. /\ accounts' = accounts /\ sessions' = sessions /\ resets' = resets
      /\ working' \in BOOLEAN /\ drawn' = drawn /\ handed' = handed /\ told' = told
      /\ expired' = expired /\ dead' = dead /\ void' = void
      /\ spared' = spared \cup lost /\ queue' = <<>>
      /\ answers' = [h \in Threads |-> NoAnswer]
      /\ tcp' = Idle /\ console' = ConsoleIdle /\ clientMap' = {}
      /\ mishaps' \in 0 .. MaxMishaps
  BY <1>1, StoreAssumption DEF Crash, Mishap, tables, clients, TypeOK
<1>3. lost \subseteq Secrets
  BY <1>1 DEF Queued, Revoking, Justified, TypeOK
<1>4. /\ tcp'.stage = "idle" /\ tcp'.kind = "none" /\ tcp'.token = 0 /\ tcp'.reset = 0
      /\ console'.stage = "idle" /\ console'.reset = 0 /\ Len(queue') = 0
      /\ answers'["tcp"] = NoAnswer /\ answers'["console"] = NoAnswer
  BY <1>2 DEF Idle, ConsoleIdle, Threads
<1>5. TypeOK'
  <2>1. Idle \in Handlers
    BY StoreAssumption DEF Idle, Handlers
  <2>2. ConsoleIdle \in [stage : {"idle", "account", "reset"}, user : Users \cup {NoUser},
                         reset : 0 .. MaxSecrets]
    BY StoreAssumption DEF ConsoleIdle
  <2>3. answers' \in [Threads -> Answers] /\ queue' \in Seq(Tasks)
    BY <1>2 DEF Answers
  <2> QED
    BY <1>1, <1>2, <1>3, <2>1, <2>2, <2>3 DEF TypeOK, Handlers
<1>6. Calling'
  BY <1>4 DEF Calling, OneCall, AnswerFits, HandlerFits
<1>7. Drawing'
  <2>1. Reserved'
    BY <1>1, <1>2, <1>4, StoreAssumption DEF Drawing, Reserved, TypeOK
  <2>2. Sorted' /\ Owned'
    BY <1>1, <1>2, <1>4 DEF Drawing, Sorted, Owned, IsSession, IsReset, Secrets
  <2> QED
    BY <2>1, <2>2 DEF Drawing
<1>8. Revoking'
  <2>1. \A s : Leaving(s) => s \in lost
    <3> SUFFICES ASSUME NEW s, Leaving(s) PROVE s \in lost
      OBVIOUS
    <3>1. PICK i \in 1 .. Len(queue) : queue[i].op = "revokeSession" /\ queue[i].token = s
      BY DEF Leaving
    <3>2. queue[i] \in Queued("revokeSession")
      BY <3>1 DEF Queued
    <3> QED
      BY <3>1, <3>2
  <2>2. Gone'
    BY <1>1, <1>2, <2>1 DEF Revoking, Gone
  <2>3. Justified'
    BY <1>1, <1>2, <1>4 DEF Revoking, Justified
  <2> QED
    BY <1>4, <2>2, <2>3 DEF Revoking, Going, Consumed, Voided, Reissues
<1>9. (RevokedSignsNobodyIn /\ ResetWorksOnce /\ HandedOutIsStored)'
  BY <1>1, <1>2, <1>4 DEF RevokedSignsNobodyIn, ResetWorksOnce, HandedOutIsStored
<1> QED
  BY <1>5, <1>6, <1>7, <1>8, <1>9 DEF IInv

\* A step that changes nothing.
LEMMA StutterKeeps == IInv /\ UNCHANGED vars => IInv'
<1> SUFFICES ASSUME IInv, UNCHANGED vars PROVE IInv'
  OBVIOUS
<1>1. /\ accounts' = accounts /\ sessions' = sessions /\ resets' = resets
      /\ working' = working /\ queue' = queue /\ answers' = answers /\ tcp' = tcp
      /\ console' = console /\ clientMap' = clientMap /\ drawn' = drawn /\ handed' = handed
      /\ told' = told /\ dead' = dead /\ spared' = spared /\ void' = void
      /\ mishaps' = mishaps /\ expired' = expired
  BY DEF vars, tables, server, clients, history
<1> QED
  BY <1>1 DEF IInv, TypeOK, Calling, OneCall, AnswerFits, HandlerFits, ByTcp, ByConsole, Asked,
     AskedByConsole, Drawing, Reserved, Sorted, Owned, IsSession, IsReset, Revoking, Justified,
     Gone, Leaving, Going, Consumed, Voided, Reissues, Handed,
     RevokedSignsNobodyIn, ResetWorksOnce, HandedOutIsStored

-----------------------------------------------------------------------------
(* The theorems.                                                           *)

\* The inductive invariant holds in every behaviour.
THEOREM Invariance == Spec => []IInv
<1>1. IInv /\ [Next]_vars => IInv'
  BY WorkerKeeps, RequestsKeep, TcpGoesOnKeeps, CommandKeeps, DrawResetKeeps, PrintResetKeeps,
     ExpireKeeps, CrashKeeps, StutterKeeps
  DEF Next, ConsoleGoesOn
<1> QED
  BY InitIInv, <1>1, PTL DEF Spec

\* The tables, the queue, the futures and the handlers keep their types; no handler
\* draws more secrets than were left for it.
THEOREM TypeCorrect == Spec => []TypeOK
<1>1. IInv => TypeOK
  BY DEF IInv
<1> QED
  BY Invariance, <1>1, PTL

\* A session the server has answered to be revoked, by LOGOUT, RESET_PASSWORD or
\* CHANGE_PASSWORD, signs nobody in (Application.cpp:513), unless its DELETE failed
\* or a crash lost it.
THEOREM RevokedIsOut == Spec => []RevokedSignsNobodyIn
<1>1. IInv => RevokedSignsNobodyIn
  BY DEF IInv
<1> QED
  BY Invariance, <1>1, PTL

\* A reset token that a RESET_PASSWORD was answered for works for nobody again
\* (Application.cpp:495), crashes included.
THEOREM ResetOnce == Spec => []ResetWorksOnce
<1>1. IInv => ResetWorksOnce
  BY DEF IInv
<1> QED
  BY Invariance, <1>1, PTL

\* A token that was handed out is stored for its owner until it is revoked or the
\* password changes, unless its INSERT failed.
THEOREM HandedOutStored == Spec => []HandedOutIsStored
<1>1. IInv => HandedOutIsStored
  BY DEF IInv
<1> QED
  BY Invariance, <1>1, PTL

-----------------------------------------------------------------------------
(* No call is lost.                                                        *)

\* A thread that waits has its answer, or its call is in the queue.
CallIsHeld ==
    /\ tcp.stage # "idle" =>
         answers["tcp"] # NoAnswer \/ \E i \in 1 .. Len(queue) : ByTcp(queue[i])
    /\ console.stage # "idle" =>
         answers["console"] # NoAnswer \/ \E i \in 1 .. Len(queue) : ByConsole(queue[i])

\* Whatever the task, and whether or not its statement fails, the worker sets the
\* promise of the thread that waits for it.
LEMMA WorkerSetsPromise ==
  ASSUME IInv, Worker
  PROVE  /\ ByTcp(Task) => answers'["tcp"] # NoAnswer
         /\ ByConsole(Task) => answers'["console"] # NoAnswer
<1>1. TypeOK /\ Task \in Tasks
  BY WorkerTask DEF IInv
<1>2. /\ ByTcp(Task) => Task.by = "tcp" /\ Task.op \notin {"revokeSession", "revokeAllSessions"}
      /\ ByConsole(Task) =>
           Task.by = "console" /\ Task.op \notin {"revokeSession", "revokeAllSessions"}
  BY <1>1, TaskFields DEF ByTcp, ByConsole
<1>3. QED
  BY <1>1, <1>2, WorkerAnswers DEF TypeOK, Threads

LEMMA WorkerHolds == IInv /\ CallIsHeld /\ Worker => CallIsHeld'
<1> SUFFICES ASSUME IInv, CallIsHeld, Worker PROVE CallIsHeld'
  OBVIOUS
<1>1. TypeOK /\ Calling
  BY DEF IInv
<1>2. ASSUME NEW i \in 1 .. Len(queue), i # 1
      PROVE  i - 1 \in 1 .. Len(queue') /\ queue'[i - 1] = queue[i]
  BY <1>1, <1>2, WorkerTask
<1>3. ASSUME tcp.stage # "idle"
      PROVE  answers'["tcp"] # NoAnswer \/ \E i \in 1 .. Len(queue') : ByTcp(queue'[i])
  <2>1. CASE ByTcp(Task)
    BY <2>1, WorkerSetsPromise
  <2>2. CASE ~ByTcp(Task)
    <3>1. answers'["tcp"] = answers["tcp"]
      BY <1>1, <2>2, WorkerTask
    <3>2. ASSUME NEW i \in 1 .. Len(queue), ByTcp(queue[i])
          PROVE  i - 1 \in 1 .. Len(queue') /\ ByTcp(queue'[i - 1])
      BY <1>1, <1>2, <2>2, <3>2, WorkerTask
    <3>3. QED
      BY <1>3, <3>1, <3>2 DEF CallIsHeld
  <2>3. QED
    BY <2>1, <2>2
<1>4. ASSUME console.stage # "idle"
      PROVE  answers'["console"] # NoAnswer \/ \E i \in 1 .. Len(queue') : ByConsole(queue'[i])
  <2>1. CASE ByConsole(Task)
    BY <2>1, WorkerSetsPromise
  <2>2. CASE ~ByConsole(Task)
    <3>1. answers'["console"] = answers["console"]
      BY <1>1, <2>2, WorkerTask
    <3>2. ASSUME NEW i \in 1 .. Len(queue), ByConsole(queue[i])
          PROVE  i - 1 \in 1 .. Len(queue') /\ ByConsole(queue'[i - 1])
      BY <1>1, <1>2, <2>2, <3>2, WorkerTask
    <3>3. QED
      BY <1>4, <3>1, <3>2 DEF CallIsHeld
  <2>3. QED
    BY <2>1, <2>2
<1>5. QED
  BY <1>1, <1>3, <1>4, WorkerTask DEF CallIsHeld, ByTcp, ByConsole

\* A thread that goes on queues the call it waits in next; the other's stays queued.
LEMMA ThreadsHold ==
  ASSUME CallIsHeld, Longer,
         \/ tcp'.stage = "idle"
         \/ \E i \in 1 .. Len(queue') : ByTcp(queue'[i])
         \/ tcp' = tcp /\ answers'["tcp"] = answers["tcp"],
         \/ console'.stage = "idle"
         \/ \E i \in 1 .. Len(queue') : ByConsole(queue'[i])
         \/ console' = console /\ answers'["console"] = answers["console"]
  PROVE  CallIsHeld'
<1>1. \A i \in 1 .. Len(queue) : i \in 1 .. Len(queue') /\ queue'[i] = queue[i]
  BY DEF Longer
<1>2. tcp'.stage # "idle" =>
        answers'["tcp"] # NoAnswer \/ \E i \in 1 .. Len(queue') : ByTcp(queue'[i])
  BY <1>1 DEF CallIsHeld
<1>3. console'.stage # "idle" =>
        answers'["console"] # NoAnswer \/ \E i \in 1 .. Len(queue') : ByConsole(queue'[i])
  BY <1>1 DEF CallIsHeld
<1>4. QED
  BY <1>2, <1>3 DEF CallIsHeld, ByTcp, ByConsole

LEMMA GrowsByOne ==
  ASSUME TypeOK, NEW task \in Tasks, queue' = Append(queue, task)
  PROVE  /\ Longer
         /\ ByTcp(task) => \E i \in 1 .. Len(queue') : ByTcp(queue'[i])
         /\ ByConsole(task) => \E i \in 1 .. Len(queue') : ByConsole(queue'[i])
<1>1. Len(queue) + 1 \in 1 .. Len(queue') /\ queue'[Len(queue) + 1] = task
  BY Pushed
<1>2. Longer
  BY Pushed DEF Longer
<1>3. QED
  BY <1>1, <1>2

LEMMA StaysAsLong == TypeOK /\ queue' = queue => Longer
  BY DEF TypeOK, Longer

LEMMA RequestsHold == IInv /\ CallIsHeld /\ Requests => CallIsHeld'
<1> SUFFICES ASSUME IInv, CallIsHeld, Requests PROVE CallIsHeld'
  OBVIOUS
<1>1. TypeOK
  BY DEF IInv
<1>2. ASSUME NEW request, NEW task, Opens(request, task), Receive(request, task)
      PROVE  CallIsHeld'
  <2>1. task \in Tasks /\ ByTcp(task)
    BY <1>2 DEF Opens, FindAccount, Tasks, Threads, ByTcp
  <2>2. queue' = Append(queue, task) /\ console' = console /\ answers' = answers
    BY <1>2 DEF Receive, tcpKeeps
  <2>3. Longer /\ \E i \in 1 .. Len(queue') : ByTcp(queue'[i])
    BY <1>1, <2>1, <2>2, GrowsByOne
  <2>4. QED
    BY <2>2, <2>3, ThreadsHold
<1>3. ASSUME NEW t \in Secrets, ReceiveLogout(t) PROVE CallIsHeld'
  <2>1. /\ queue' = Append(queue, [op |-> "revokeSession", token |-> t])
        /\ tcp' = tcp /\ console' = console /\ answers' = answers
    BY <1>3 DEF ReceiveLogout, tcpKeeps
  <2>2. [op |-> "revokeSession", token |-> t] \in Tasks
    BY DEF Tasks
  <2>3. Longer
    BY <1>1, <2>1, <2>2, GrowsByOne
  <2>4. QED
    BY <2>1, <2>3, ThreadsHold
<1>4. QED
  BY <1>1, <1>2, <1>3, RequestsOpen

\* The three ways in which a handler goes on.
LEMMA TcpTurns ==
  ASSUME IInv, TcpGoesOn
  PROVE  /\ Turn
         /\ \/ /\ Issue
               /\ \/ tcp.stage = "account" /\ tcp.kind = "LOGIN" /\ answers["tcp"] = tcp.password
                  \/ tcp.stage \in {"create", "update"} /\ answers["tcp"] = TRUE
            \/ /\ Write("createAccount", "create") /\ dead' = dead
               /\ tcp.stage = "account" /\ tcp.kind = "REGISTER"
            \/ /\ Write("updateAccountPassword", "update") /\ dead' = dead
               /\ tcp.stage = "account" /\ tcp.kind = "CHANGE_PASSWORD"
               /\ answers["tcp"] = tcp.password
            \/ /\ Write("updateAccountPassword", "update") /\ dead' = dead \cup {tcp.reset}
               /\ tcp.stage = "consume" /\ answers["tcp"] = tcp.user
            \/ /\ Refuse /\ tcp.stage \in {"account", "create", "consume", "update"}
               /\ tcp.stage \in {"create", "update"} => answers["tcp"] # TRUE
            \/ Issued
            \/ SessionFound
<1>1. CASE AccountFound
  BY <1>1 DEF AccountFound, Answered, Turn
<1>2. CASE ResetConsumed
  BY <1>2 DEF ResetConsumed, ResetMatches, Answered, Turn
<1>3. CASE Written
  <2>1. Turn /\ tcp.stage \in {"create", "update"}
    BY <1>3 DEF Written, Answered, Turn
  <2>2. answers["tcp"] \in BOOLEAN
    BY <2>1 DEF IInv, Calling, AnswerFits, Turn
  <2>3. (answers["tcp"] = TRUE /\ Issue) \/ (answers["tcp"] = FALSE /\ Refuse)
    BY <1>3, <2>2 DEF Written
  <2> QED
    BY <2>1, <2>3
<1>4. CASE Issued \/ SessionFound
  BY <1>4 DEF Issued, SessionFound, Answered, Turn
<1> QED
  BY <1>1, <1>2, <1>3, <1>4 DEF TcpGoesOn

LEMMA TcpGoesOnHolds == IInv /\ CallIsHeld /\ TcpGoesOn => CallIsHeld'
<1> SUFFICES ASSUME IInv, CallIsHeld, TcpGoesOn PROVE CallIsHeld'
  OBVIOUS
<1>1. TypeOK /\ Calling /\ Drawing
  BY DEF IInv
<1>2. Turn
  BY TcpTurns
<1>3. console' = console /\ answers'["console"] = answers["console"]
  BY <1>2, TurnFacts
<1>4. CASE Refuse \/ Issued \/ SessionFound
  <2>1. tcp'.stage = "idle" /\ queue' = queue
    BY <1>4 DEF Refuse, Issued, SessionFound, Idle
  <2>2. QED
    BY <1>1, <1>3, <2>1, StaysAsLong, ThreadsHold
<1>5. ASSUME NEW op \in {"createAccount", "updateAccountPassword"}, NEW stage, Write(op, stage),
             tcp.user \in Users, tcp.new \in Passwords
      PROVE  CallIsHeld'
  <2> DEFINE task == [op |-> op, by |-> "tcp", user |-> tcp.user, password |-> tcp.new]
  <2>1. task \in Tasks /\ ByTcp(task)
    BY <1>5 DEF Tasks, ByTcp
  <2>2. queue' = Append(queue, task)
    BY <1>5 DEF Write
  <2> HIDE DEF task
  <2>3. Longer /\ \E i \in 1 .. Len(queue') : ByTcp(queue'[i])
    BY <1>1, <2>1, <2>2, GrowsByOne
  <2>4. QED
    BY <1>3, <2>3, ThreadsHold
<1>6. ASSUME Issue, tcp.user \in Users, drawn + 1 \in Secrets
      PROVE  CallIsHeld'
  <2> DEFINE revoke == [op |-> "revokeAllSessions", user |-> tcp.user]
             create == [op |-> "createSession", by |-> "tcp", user |-> tcp.user,
                        token |-> drawn + 1]
  <2>1. revoke \in Tasks /\ create \in Tasks /\ ByTcp(create)
    BY <1>6 DEF Tasks, ByTcp
  <2>2. queue' = queue \o <<revoke, create>> \/ queue' = queue \o << create >>
    BY <1>6 DEF Issue, Reissued
  <2> HIDE DEF revoke, create
  <2>3. CASE queue' = queue \o <<revoke, create>>
    <3>1. Longer /\ Len(queue) + 2 \in 1 .. Len(queue') /\ queue'[Len(queue) + 2] = create
      BY <1>1, <2>1, <2>3, PushedBoth DEF Longer
    <3>2. \E i \in 1 .. Len(queue') : ByTcp(queue'[i])
      BY <2>1, <3>1
    <3>3. QED
      BY <1>3, <3>1, <3>2, ThreadsHold
  <2>4. CASE queue' = queue \o << create >>
    <3>1. queue' = Append(queue, create)
      BY <1>1, <2>1, <2>4 DEF TypeOK
    <3>2. Longer /\ \E i \in 1 .. Len(queue') : ByTcp(queue'[i])
      BY <1>1, <2>1, <3>1, GrowsByOne
    <3>3. QED
      BY <1>3, <3>2, ThreadsHold
  <2>5. QED
    BY <2>2, <2>3, <2>4
<1>7. tcp.stage \in {"account", "create", "consume", "update"} =>
        tcp.user \in Users /\ drawn + 1 \in Secrets
  BY <1>1, StoreAssumption DEF TypeOK, Calling, HandlerFits, Drawing, Reserved, Secrets
<1>8. tcp.kind \in {"REGISTER", "CHANGE_PASSWORD", "RESET_PASSWORD"} => tcp.new \in Passwords
  BY <1>1 DEF Calling, HandlerFits
<1>9. tcp.stage = "consume" => tcp.kind \in {"CHANGE_PASSWORD", "RESET_PASSWORD"}
  BY <1>1 DEF Calling, HandlerFits
<1>10. QED
  BY <1>4, <1>5, <1>6, <1>7, <1>8, <1>9, TcpTurns

LEMMA ConsoleHolds ==
  ASSUME IInv, CallIsHeld, (\E u \in Users : Command(u)) \/ ConsoleGoesOn
  PROVE  CallIsHeld'
<1>1. TypeOK /\ Calling /\ Drawing
  BY DEF IInv
<1>2. tcp' = tcp /\ answers'["tcp"] = answers["tcp"]
  BY <1>1 DEF Command, ConsoleGoesOn, DrawReset, PrintReset, ConsoleAnswered, consoleKeeps,
     TypeOK, Threads
<1>3. ASSUME NEW task \in Tasks, ByConsole(task), queue' = Append(queue, task)
      PROVE  CallIsHeld'
  <2>1. Longer /\ \E i \in 1 .. Len(queue') : ByConsole(queue'[i])
    BY <1>1, <1>3, GrowsByOne
  <2>2. QED
    BY <1>2, <2>1, ThreadsHold
<1>4. ASSUME queue' = queue, console'.stage = "idle" PROVE CallIsHeld'
  BY <1>1, <1>2, <1>4, StaysAsLong, ThreadsHold
<1>5. ASSUME NEW u \in Users, Command(u) PROVE CallIsHeld'
  <2>1. FindAccount("console", u) \in Tasks /\ ByConsole(FindAccount("console", u))
    BY DEF FindAccount, Tasks, Threads, ByConsole
  <2>2. QED
    BY <1>3, <1>5, <2>1 DEF Command
<1>6. CASE DrawReset
  <2>1. console.stage = "account"
    BY <1>6 DEF DrawReset, ConsoleAnswered
  <2>2. console.user \in Users /\ drawn + 1 \in Secrets
    BY <1>1, <2>1, StoreAssumption DEF TypeOK, Calling, HandlerFits, Drawing, Reserved, Secrets
  <2> DEFINE task == [op |-> "createPasswordReset", by |-> "console", user |-> console.user,
                      reset |-> drawn + 1]
  <2>3. task \in Tasks /\ ByConsole(task)
    BY <2>2 DEF Tasks, ByConsole
  <2>4. \/ console'.stage = "idle" /\ queue' = queue
        \/ queue' = Append(queue, task)
    BY <1>6 DEF DrawReset, ConsoleIdle
  <2>5. QED
    BY <1>3, <1>4, <2>3, <2>4
<1>7. CASE PrintReset
  BY <1>4, <1>7 DEF PrintReset, ConsoleIdle
<1>8. QED
  BY <1>5, <1>6, <1>7 DEF ConsoleGoesOn

\* A thread that waits for the worker never waits in vain: its answer is there, or its
\* call is still in the queue, whatever fails and whatever the other thread calls.  What
\* EveryCallReturns adds is that the worker runs, which it does unless the database
\* could not be opened (Application.cpp:74).
THEOREM NoCallIsLost == Spec => []CallIsHeld
<1>1. Init => CallIsHeld
  BY DEF Init, CallIsHeld, Idle, ConsoleIdle
<1>2. IInv /\ CallIsHeld /\ [Next]_vars => CallIsHeld'
  <2> SUFFICES ASSUME IInv, CallIsHeld, [Next]_vars PROVE CallIsHeld'
    OBVIOUS
  <2>1. ASSUME (\E s \in Secrets : Expire(s)) \/ UNCHANGED vars
        PROVE  CallIsHeld'
    <3>1. queue' = queue /\ answers' = answers /\ tcp' = tcp /\ console' = console
      BY <2>1 DEF Expire, vars, server
    <3>2. QED
      BY <3>1, StaysAsLong, ThreadsHold DEF IInv
  <2>2. CASE Crash
    <3>1. tcp'.stage = "idle" /\ console'.stage = "idle"
      BY <2>2 DEF Crash, Idle, ConsoleIdle
    <3>2. QED
      BY <3>1 DEF CallIsHeld
  <2>3. QED
    BY <2>1, <2>2, WorkerHolds, RequestsHold, TcpGoesOnHolds, ConsoleHolds DEF Next
<1>3. QED
  BY <1>1, <1>2, Invariance, PTL DEF Spec

-----------------------------------------------------------------------------
(* By what right.                                                          *)

\* A queued call is about what its thread is about.
CallsFit == \A i \in 1 .. Len(queue) :
    /\ queue[i].op = "getAccountByUsername" =>
         queue[i].user = IF queue[i].by = "tcp" THEN tcp.user ELSE console.user
    /\ queue[i].op \in {"createAccount", "updateAccountPassword"} =>
         queue[i].user = tcp.user /\ queue[i].password = tcp.new
    /\ queue[i].op = "createPasswordReset" => queue[i].user = console.user

\* What was looked up still holds when the thread that asked goes on; of an account
\* the console looked up, only that there is one.
AnswersHold ==
    /\ tcp.stage = "account" =>
         answers["tcp"] \in {NoAnswer, NoAccount, accounts[tcp.user]}
    /\ console.stage = "account" /\ answers["console"] \notin {NoAnswer, NoAccount} =>
         accounts[console.user] # NoAccount
    /\ tcp.stage = "lookup" =>
         /\ tcp.token \in Secrets /\ handed[tcp.token] # NoUser
         /\ answers["tcp"] \in {NoAnswer, NoUser, handed[tcp.token]}
    /\ tcp.stage = "consume" =>
         answers["tcp"] \in {NoAnswer, NoUser, told[tcp.reset]}

\* Which handler has which stages.
KindFits ==
    /\ tcp.stage = "idle" => tcp = Idle
    /\ tcp.stage = "account" => tcp.kind \in {"LOGIN", "REGISTER", "CHANGE_PASSWORD"}
    /\ tcp.stage = "consume" => tcp.kind = "RESET_PASSWORD"
    /\ tcp.stage = "lookup" => tcp.kind = "AUTH_SESSION"
    /\ tcp.stage = "session" =>
         tcp.kind \in {"LOGIN", "REGISTER", "CHANGE_PASSWORD", "RESET_PASSWORD"}
    /\ tcp.kind \in {"LOGIN", "CHANGE_PASSWORD"} => tcp.password \in Typed
    /\ tcp.kind = "CHANGE_PASSWORD" => tcp.user \in clientMap

\* The password a handler goes by is the account's.
PasswordHolds ==
    /\ tcp.stage = "update" /\ tcp.kind = "CHANGE_PASSWORD" /\ answers["tcp"] # TRUE =>
         accounts[tcp.user] = tcp.password
    /\ tcp.stage \in {"create", "update"} /\ answers["tcp"] = TRUE =>
         accounts[tcp.user] = tcp.new
    /\ tcp.stage = "session" =>
         accounts[tcp.user] = IF tcp.kind = "LOGIN" THEN tcp.password ELSE tcp.new
    /\ console.stage = "reset" => accounts[console.user] # NoAccount

\* A reset token is stored for the account it was printed for.
ResetOwned ==
    /\ \A s \in Secrets : resets[s] # NoUser /\ told[s] # NoUser => resets[s] = told[s]
    /\ console.stage = "reset" => resets[console.reset] \in {NoUser, console.user}

ByRight == CallsFit /\ AnswersHold /\ KindFits /\ PasswordHolds /\ ResetOwned

\* What each task does to the accounts and the reset tokens, and what it costs.
LEMMA WorkerWrites ==
  ASSUME TypeOK, Worker
  PROVE  /\ \/ /\ accounts' = accounts
               /\ Task.op \in {"createAccount", "updateAccountPassword"} =>
                    answers'["tcp"] = FALSE
            \/ /\ Task.op = "createAccount" /\ accounts[Task.user] = NoAccount
               /\ accounts' = [accounts EXCEPT ![Task.user] = Task.password]
               /\ answers'["tcp"] = TRUE /\ mishaps' = mishaps
            \/ /\ Task.op = "updateAccountPassword"
               /\ accounts' = [accounts EXCEPT ![Task.user] = Task.password]
               /\ answers'["tcp"] = TRUE /\ mishaps' = mishaps
         /\ Task.op \in {"createAccount", "updateAccountPassword"} /\ answers'["tcp"] = TRUE =>
              accounts'[Task.user] = Task.password
         /\ Task.op = "getAccountByUsername" =>
              accounts' = accounts /\ answers'[Task.by] \in {NoAccount, accounts[Task.user]}
         /\ Task.op = "createPasswordReset" => \A s \in Secrets :
              resets'[s] = IF s = Task.reset /\ resets' # resets THEN Task.user ELSE resets[s]
         /\ mishaps' = mishaps + 1 \/ (mishaps' = mishaps /\ spared' = spared)
<1>1. Task \in Tasks
  BY WorkerAnswers, Popped
<1>2. CASE GetAccount
  <2>1. /\ Task.op = "getAccountByUsername" /\ Task.by \in Threads
        /\ accounts' = accounts /\ resets' = resets /\ spared' = spared
    BY <1>1, <1>2, TaskFields DEF GetAccount, Runs, tables
  <2>2. answers'[Task.by] \in {NoAccount, accounts[Task.user]}
    BY <1>2, <2>1 DEF GetAccount, Answer, TypeOK
  <2>3. mishaps' \in {mishaps, mishaps + 1}
    BY <1>2 DEF GetAccount, Succeeds, Fails, Mishap
  <2> QED
    BY <2>1, <2>2, <2>3
<1>3. CASE CreateAccount
  <2>1. /\ Task.op = "createAccount" /\ Task.by = "tcp" /\ Task.user \in Users
        /\ resets' = resets /\ spared' = spared
    BY <1>1, <1>3, TaskFields DEF CreateAccount, Runs
  <2>2. \/ /\ accounts[Task.user] = NoAccount
           /\ accounts' = [accounts EXCEPT ![Task.user] = Task.password]
           /\ answers'["tcp"] = TRUE /\ mishaps' = mishaps
        \/ accounts' = accounts /\ answers'["tcp"] = FALSE
    BY <1>3, <2>1 DEF CreateAccount, Answer, Succeeds, TypeOK, Threads
  <2>3. mishaps' \in {mishaps, mishaps + 1}
    BY <1>3 DEF CreateAccount, Succeeds, Fails, Mishap
  <2>4. accounts' = [accounts EXCEPT ![Task.user] = Task.password] =>
          accounts'[Task.user] = Task.password
    BY <2>1 DEF TypeOK
  <2> QED
    BY <2>1, <2>2, <2>3, <2>4
<1>4. CASE UpdateAccountPassword
  <2>1. /\ Task.op = "updateAccountPassword" /\ Task.by = "tcp" /\ Task.user \in Users
        /\ resets' = resets /\ spared' = spared
    BY <1>1, <1>4, TaskFields DEF UpdateAccountPassword, Runs
  <2>2. \/ /\ accounts' = [accounts EXCEPT ![Task.user] = Task.password]
           /\ answers'["tcp"] = TRUE /\ mishaps' = mishaps
        \/ accounts' = accounts /\ answers'["tcp"] = FALSE
    BY <1>4, <2>1 DEF UpdateAccountPassword, Answer, Succeeds, TypeOK, Threads
  <2>3. mishaps' \in {mishaps, mishaps + 1}
    BY <1>4 DEF UpdateAccountPassword, Succeeds, Fails, Mishap
  <2>4. accounts' = [accounts EXCEPT ![Task.user] = Task.password] =>
          accounts'[Task.user] = Task.password
    BY <2>1 DEF TypeOK
  <2> QED
    BY <2>1, <2>2, <2>3, <2>4
<1>5. CASE CreateSession \/ GetSessionAndAccount
  <2>1. /\ Task.op \in {"createSession", "getSessionAndAccount"}
        /\ accounts' = accounts /\ resets' = resets /\ spared' = spared
    BY <1>5 DEF CreateSession, GetSessionAndAccount, Runs, tables
  <2>2. mishaps' \in {mishaps, mishaps + 1}
    BY <1>5 DEF CreateSession, GetSessionAndAccount, Succeeds, Fails, Mishap
  <2> QED
    BY <2>1, <2>2
<1>6. CASE RevokeSession \/ RevokeAllSessions
  <2>1. /\ Task.op \in {"revokeSession", "revokeAllSessions"}
        /\ accounts' = accounts /\ resets' = resets
    BY <1>6 DEF RevokeSession, RevokeAllSessions, Runs, Delete
  <2>2. mishaps' = mishaps + 1 \/ (mishaps' = mishaps /\ spared' = spared)
    BY <1>6 DEF RevokeSession, RevokeAllSessions, Delete, Succeeds, Fails, Mishap
  <2> QED
    BY <2>1, <2>2
<1>7. CASE CreatePasswordReset
  <2>1. /\ Task.op = "createPasswordReset" /\ accounts' = accounts /\ spared' = spared
    BY <1>7 DEF CreatePasswordReset, Runs
  <2>2. resets' = resets \/ resets' = [resets EXCEPT ![Task.reset] = Task.user]
    BY <1>7 DEF CreatePasswordReset
  <2>3. mishaps' \in {mishaps, mishaps + 1}
    BY <1>7 DEF CreatePasswordReset, Succeeds, Fails, Mishap
  <2> QED
    BY <2>1, <2>2, <2>3 DEF TypeOK
<1>8. CASE ConsumePasswordReset
  <2>1. /\ Task.op = "consumePasswordReset" /\ accounts' = accounts
    BY <1>8 DEF ConsumePasswordReset, Runs
  <2>2. mishaps' = mishaps + 1 \/ (mishaps' = mishaps /\ spared' = spared)
    BY <1>8 DEF ConsumePasswordReset, Succeeds, Fails, Mishap
  <2> QED
    BY <2>1, <2>2
<1> QED
  BY <1>2, <1>3, <1>4, <1>5, <1>6, <1>7, <1>8 DEF Worker

\* An account that exists is not taken away.
LEMMA AccountsStay ==
  ASSUME TypeOK, Worker, NEW u \in Users, accounts[u] # NoAccount
  PROVE  accounts'[u] # NoAccount
<1>1. Task \in Tasks
  BY WorkerAnswers, Popped
<1>2. \/ accounts' = accounts
      \/ Task.password \in Passwords /\ accounts' = [accounts EXCEPT ![Task.user] = Task.password]
  BY <1>1, WorkerWrites, TaskFields
<1> QED
  BY <1>2, StoreAssumption DEF TypeOK

\* The worker writes and answers what the thread that waits is entitled to.
LEMMA WorkerByRight == IInv /\ ByRight /\ Worker => ByRight'
<1> SUFFICES ASSUME IInv, ByRight, Worker PROVE ByRight'
  OBVIOUS
<1>1. /\ TypeOK /\ Calling /\ Drawing
      /\ CallsFit /\ AnswersHold /\ KindFits /\ PasswordHolds /\ ResetOwned
  BY DEF IInv, ByRight
<1>2. /\ tcp' = tcp /\ console' = console /\ clientMap' = clientMap
      /\ handed' = handed /\ told' = told
  BY <1>1, WorkerTask
<1>3. /\ Task.op = "getAccountByUsername" =>
           /\ Task.by \in Threads
           /\ Task.by = "tcp" => tcp.stage = "account" /\ Task.user = tcp.user
           /\ Task.by = "console" => console.stage = "account" /\ Task.user = console.user
      /\ Task.op = "createAccount" =>
           tcp.stage = "create" /\ Task.user = tcp.user /\ Task.password = tcp.new
      /\ Task.op = "updateAccountPassword" =>
           tcp.stage = "update" /\ Task.user = tcp.user /\ Task.password = tcp.new
      /\ Task.op = "createSession" => tcp.stage = "session"
      /\ Task.op = "getSessionAndAccount" => tcp.stage = "lookup" /\ Task.token = tcp.token
      /\ Task.op = "consumePasswordReset" => tcp.stage = "consume" /\ Task.reset = tcp.reset
      /\ Task.op = "createPasswordReset" =>
           /\ console.stage = "reset" /\ Task.reset = console.reset
           /\ Task.user = console.user
  <2>1. Task \in Tasks /\ Task = queue[1] /\ 1 \in 1 .. Len(queue)
    BY <1>1, WorkerTask
  <2>2. (ByTcp(Task) => Asked(Task)) /\ (ByConsole(Task) => AskedByConsole(Task))
    BY <1>1, WorkerTask
  <2>3. Task.op = "getAccountByUsername" => Task.by \in Threads
    BY <2>1, TaskFields
  <2> QED
    BY <1>1, <2>1, <2>2, <2>3 DEF ByTcp, ByConsole, Asked, AskedByConsole, CallsFit, Threads
<1>4. /\ ByTcp(Task) => answers["tcp"] = NoAnswer
      /\ ~ByTcp(Task) => answers'["tcp"] = answers["tcp"]
      /\ ~ByConsole(Task) => answers'["console"] = answers["console"]
  BY <1>1, WorkerTask DEF Calling, OneCall
<1>5. /\ Len(queue) \in Nat /\ Len(queue') = Len(queue) - 1
      /\ \A i \in 1 .. Len(queue') : i + 1 \in 1 .. Len(queue) /\ queue'[i] = queue[i + 1]
  BY <1>1, WorkerTask
<1>6. CallsFit'
  BY <1>1, <1>2, <1>5 DEF CallsFit
<1>7. AnswersHold'
  <2>1. ASSUME tcp.stage = "account"
        PROVE  answers'["tcp"] \in {NoAnswer, NoAccount, accounts'[tcp.user]}
    <3>1. accounts' = accounts
      BY <1>1, <1>3, <2>1, WorkerWrites
    <3>2. CASE ByTcp(Task)
      <4>1. Task.op = "getAccountByUsername" /\ Task.by = "tcp"
        BY <1>3, <2>1, <3>2 DEF ByTcp
      <4> QED
        BY <1>1, <1>3, <3>1, <4>1, WorkerWrites
    <3> QED
      BY <1>1, <1>4, <2>1, <3>1, <3>2 DEF AnswersHold
  <2>2. ASSUME console.stage = "account", answers'["console"] \notin {NoAnswer, NoAccount}
        PROVE  accounts'[console.user] # NoAccount
    <3>1. accounts[console.user] # NoAccount
      <4>1. CASE ByConsole(Task)
        <5>1. Task.op = "getAccountByUsername" /\ Task.by = "console"
          BY <1>3, <2>2, <4>1 DEF ByConsole
        <5> QED
          BY <1>1, <1>3, <2>2, <5>1, WorkerWrites
      <4> QED
        BY <1>1, <1>4, <2>2, <4>1 DEF AnswersHold
    <3> QED
      BY <1>1, <2>2, <3>1, AccountsStay DEF Calling, HandlerFits
  <2>3. ASSUME tcp.stage = "lookup"
        PROVE  /\ tcp.token \in Secrets /\ handed[tcp.token] # NoUser
               /\ answers'["tcp"] \in {NoAnswer, NoUser, handed[tcp.token]}
    <3>1. CASE ByTcp(Task)
      <4>1. Task.op = "getSessionAndAccount" /\ Task.token = tcp.token
        BY <1>3, <2>3, <3>1 DEF ByTcp
      <4> QED
        BY <1>1, <2>3, <4>1, WorkerEffects DEF AnswersHold, Drawing, Owned
    <3> QED
      BY <1>1, <1>4, <2>3, <3>1 DEF AnswersHold
  <2>4. ASSUME tcp.stage = "consume"
        PROVE  answers'["tcp"] \in {NoAnswer, NoUser, told[tcp.reset]}
    <3>1. CASE ByTcp(Task)
      <4>1. Task.op = "consumePasswordReset" /\ Task.reset = tcp.reset
        BY <1>3, <2>4, <3>1 DEF ByTcp
      <4> QED
        BY <1>1, <2>4, <4>1, WorkerEffects DEF ResetOwned, Drawing, Owned
    <3> QED
      BY <1>1, <1>4, <2>4, <3>1 DEF AnswersHold
  <2> QED
    BY <1>2, <2>1, <2>2, <2>3, <2>4 DEF AnswersHold
<1>8. KindFits'
  BY <1>1, <1>2 DEF KindFits
<1>9. PasswordHolds'
  <2>1. ASSUME tcp.stage = "update", tcp.kind = "CHANGE_PASSWORD", answers'["tcp"] # TRUE
        PROVE  accounts'[tcp.user] = tcp.password
    <3>1. accounts' = accounts
      BY <1>1, <1>3, <2>1, WorkerWrites
    <3>2. answers["tcp"] # TRUE
      BY <1>4, <2>1, StoreAssumption
    <3> QED
      BY <1>1, <2>1, <3>1, <3>2 DEF PasswordHolds
  <2>2. ASSUME tcp.stage \in {"create", "update"}, answers'["tcp"] = TRUE
        PROVE  accounts'[tcp.user] = tcp.new
    <3>1. CASE ByTcp(Task)
      <4>1. /\ Task.op \in {"createAccount", "updateAccountPassword"}
            /\ Task.user = tcp.user /\ Task.password = tcp.new
        BY <1>3, <2>2, <3>1 DEF ByTcp
      <4> QED
        BY <1>1, <2>2, <4>1, WorkerWrites
    <3>2. CASE ~ByTcp(Task)
      <4>1. accounts' = accounts
        BY <1>1, <3>2, WorkerWrites DEF ByTcp
      <4> QED
        BY <1>1, <1>4, <2>2, <3>2, <4>1 DEF PasswordHolds
    <3> QED
      BY <3>1, <3>2
  <2>3. ASSUME tcp.stage = "session"
        PROVE  accounts'[tcp.user] = IF tcp.kind = "LOGIN" THEN tcp.password ELSE tcp.new
    <3>1. accounts' = accounts
      BY <1>1, <1>3, <2>3, WorkerWrites
    <3> QED
      BY <1>1, <2>3, <3>1 DEF PasswordHolds
  <2>4. ASSUME console.stage = "reset" PROVE accounts'[console.user] # NoAccount
    BY <1>1, <2>4, AccountsStay DEF PasswordHolds, Calling, HandlerFits
  <2> QED
    BY <1>2, <2>1, <2>2, <2>3, <2>4 DEF PasswordHolds
<1>10. ResetOwned'
  <2>1. ASSUME NEW s \in Secrets, resets'[s] # NoUser
        PROVE  \/ resets'[s] = resets[s]
               \/ console.stage = "reset" /\ s = console.reset /\ resets'[s] = console.user
    <3>1. CASE Task.op = "createPasswordReset"
      BY <1>1, <1>3, <3>1, WorkerWrites
    <3> QED
      BY <1>1, <2>1, <3>1, WorkerEffects
  <2>2. console.stage = "reset" => console.reset \in Secrets /\ told[console.reset] = NoUser
    BY <1>1 DEF Drawing, Owned
  <2> QED
    BY <1>1, <1>2, <2>1, <2>2 DEF ResetOwned
<1> QED
  BY <1>6, <1>7, <1>8, <1>9, <1>10 DEF ByRight

\* What is queued behind the calls there are leaves those of the console as they were.
LEMMA CallsStayFit ==
  ASSUME IInv, CallsFit, Longer, console' = console,
         \A i \in 1 .. Len(queue) : ~ByTcp(queue[i]),
         \A i \in Len(queue) + 1 .. Len(queue') :
           \/ queue'[i].op \in {"createSession", "getSessionAndAccount", "revokeSession",
                                "revokeAllSessions", "consumePasswordReset"}
           \/ /\ queue'[i].op = "getAccountByUsername" /\ queue'[i].by = "tcp"
              /\ queue'[i].user = tcp'.user
           \/ /\ queue'[i].op \in {"createAccount", "updateAccountPassword"}
              /\ queue'[i].user = tcp'.user /\ queue'[i].password = tcp'.new
  PROVE  CallsFit'
<1> SUFFICES ASSUME NEW i \in 1 .. Len(queue')
             PROVE  /\ queue'[i].op = "getAccountByUsername" =>
                         queue'[i].user = IF queue'[i].by = "tcp" THEN tcp'.user
                                          ELSE console'.user
                    /\ queue'[i].op \in {"createAccount", "updateAccountPassword"} =>
                         queue'[i].user = tcp'.user /\ queue'[i].password = tcp'.new
                    /\ queue'[i].op = "createPasswordReset" => queue'[i].user = console'.user
  BY DEF CallsFit
<1>1. CASE i \in 1 .. Len(queue)
  <2>1. queue'[i] = queue[i] /\ ~ByTcp(queue[i])
    BY <1>1 DEF Longer
  <2> QED
    BY <1>1, <2>1 DEF CallsFit, ByTcp
<1>2. CASE i \in Len(queue) + 1 .. Len(queue')
  BY <1>2
<1> QED
  BY <1>1, <1>2 DEF Longer

\* A request that is read is about an account, and shows what it was given.
LEMMA ReceiveByRight ==
  ASSUME IInv, ByRight, NEW request, NEW task, Opens(request, task), Receive(request, task)
  PROVE  ByRight'
<1>1. /\ TypeOK /\ Calling /\ Drawing
      /\ CallsFit /\ AnswersHold /\ KindFits /\ PasswordHolds /\ ResetOwned
  BY DEF IInv, ByRight
<1>2. /\ accounts' = accounts /\ resets' = resets /\ console' = console /\ told' = told
      /\ answers' = answers /\ clientMap' = clientMap /\ handed' = handed
      /\ tcp' = request /\ queue' = Append(queue, task) /\ tcp.stage = "idle"
  BY DEF Receive, tcpKeeps, tables
<1>3. answers["tcp"] = NoAnswer
  BY <1>1, <1>2 DEF Calling, AnswerFits
<1>4. CallsFit'
  <2>1. /\ task \in Tasks
        /\ \/ task.op \in {"getSessionAndAccount", "consumePasswordReset"}
           \/ task.op = "getAccountByUsername" /\ task.by = "tcp" /\ task.user = request.user
    BY <1>1 DEF Opens, FindAccount, Tasks, Threads
  <2>2. /\ Longer /\ Len(queue') = Len(queue) + 1 /\ queue'[Len(queue')] = task
    BY <1>1, <1>2, <2>1, Pushed DEF Longer
  <2>3. \A i \in Len(queue) + 1 .. Len(queue') : queue'[i] = task
    BY <2>2 DEF Longer
  <2> QED
    BY <1>1, <1>2, <2>1, <2>2, <2>3, TcpFree, CallsStayFit
<1>5. AnswersHold'
  BY <1>1, <1>2, <1>3 DEF AnswersHold, Opens
<1>6. KindFits'
  BY <1>2 DEF KindFits, Opens
<1>7. PasswordHolds'
  BY <1>1, <1>2 DEF PasswordHolds, Opens
<1>8. ResetOwned'
  BY <1>1, <1>2 DEF ResetOwned
<1> QED
  BY <1>4, <1>5, <1>6, <1>7, <1>8 DEF ByRight

LEMMA RequestsByRight == IInv /\ ByRight /\ Requests => ByRight'
<1> SUFFICES ASSUME IInv, ByRight, Requests PROVE ByRight'
  OBVIOUS
<1>1. /\ TypeOK /\ Calling /\ CallsFit /\ AnswersHold /\ KindFits /\ PasswordHolds /\ ResetOwned
  BY DEF IInv, ByRight
<1>2. ASSUME NEW t \in Secrets, ReceiveLogout(t) PROVE ByRight'
  <2> DEFINE task == [op |-> "revokeSession", token |-> t]
  <2>1. /\ accounts' = accounts /\ resets' = resets /\ console' = console /\ told' = told
        /\ answers' = answers /\ handed' = handed /\ tcp' = tcp
        /\ queue' = Append(queue, task) /\ tcp.stage = "idle"
    BY <1>2 DEF ReceiveLogout, tcpKeeps, tables
  <2>2. task \in Tasks
    BY DEF Tasks
  <2>3. Longer /\ \A i \in Len(queue) + 1 .. Len(queue') : queue'[i] = task
    BY <1>1, <2>1, <2>2, Pushed DEF Longer
  <2>4. CallsFit'
    BY <1>1, <2>1, <2>3, TcpFree, CallsStayFit
  <2>5. KindFits'
    BY <1>1, <2>1 DEF KindFits, Idle
  <2> QED
    BY <1>1, <2>1, <2>4, <2>5 DEF ByRight, AnswersHold, PasswordHolds, ResetOwned
<1> QED
  BY <1>1, <1>2, RequestsOpen, ReceiveByRight

\* A handler that is through leaves nothing behind that could go stale.
LEMMA DoneByRight ==
  ASSUME IInv, ByRight, Turn, tcp' = Idle, queue' = queue
  PROVE  ByRight'
<1>1. /\ TypeOK /\ CallsFit /\ AnswersHold /\ PasswordHolds /\ ResetOwned
  BY DEF IInv, ByRight
<1>2. /\ accounts' = accounts /\ resets' = resets /\ console' = console /\ told' = told
      /\ answers'["console"] = answers["console"] /\ Longer
      /\ \A i \in 1 .. Len(queue) : ~ByTcp(queue[i])
  BY TurnFacts DEF Longer
<1>3. tcp'.stage = "idle" /\ tcp'.kind = "none"
  BY DEF Idle
<1>4. CallsFit'
  BY <1>1, <1>2, CallsStayFit
<1>5. AnswersHold' /\ PasswordHolds' /\ ResetOwned'
  BY <1>1, <1>2, <1>3 DEF AnswersHold, PasswordHolds, ResetOwned
<1>6. KindFits'
  BY <1>3 DEF KindFits
<1> QED
  BY <1>4, <1>5, <1>6 DEF ByRight

\* A handler that goes on to write the password has found what it takes.
LEMMA WriteByRight ==
  ASSUME IInv, ByRight, Turn, NEW op, NEW stage, Write(op, stage),
         \/ /\ op = "createAccount" /\ stage = "create"
            /\ tcp.stage = "account" /\ tcp.kind = "REGISTER"
         \/ /\ op = "updateAccountPassword" /\ stage = "update"
            /\ tcp.stage = "account" /\ tcp.kind = "CHANGE_PASSWORD"
            /\ answers["tcp"] = tcp.password
         \/ /\ op = "updateAccountPassword" /\ stage = "update"
            /\ tcp.stage = "consume"
  PROVE  ByRight'
<1> DEFINE task == [op |-> op, by |-> "tcp", user |-> tcp.user, password |-> tcp.new]
<1>1. /\ TypeOK /\ Calling /\ CallsFit /\ AnswersHold /\ KindFits /\ PasswordHolds /\ ResetOwned
  BY DEF IInv, ByRight
<1>2. /\ accounts' = accounts /\ resets' = resets /\ console' = console /\ told' = told
      /\ handed' = handed /\ clientMap' = clientMap
      /\ answers'["tcp"] = NoAnswer /\ answers'["console"] = answers["console"]
      /\ \A i \in 1 .. Len(queue) : ~ByTcp(queue[i])
  BY TurnFacts DEF Write
<1>3. /\ tcp'.stage = stage /\ tcp'.kind = tcp.kind /\ tcp'.user = tcp.user
      /\ tcp'.password = tcp.password /\ tcp'.new = tcp.new /\ queue' = Append(queue, task)
  BY <1>1 DEF Write, TypeOK
<1>4. /\ tcp.kind \in {"REGISTER", "CHANGE_PASSWORD", "RESET_PASSWORD"}
      /\ tcp.user \in Users /\ tcp.new \in Passwords
  BY <1>1 DEF Calling, HandlerFits, KindFits
<1>5. CallsFit'
  <2>1. task \in Tasks
    BY <1>4 DEF Tasks
  <2>2. Longer /\ \A i \in Len(queue) + 1 .. Len(queue') : queue'[i] = task
    BY <1>1, <1>3, <2>1, Pushed DEF Longer
  <2> QED
    BY <1>1, <1>2, <1>3, <2>2, CallsStayFit
<1>6. AnswersHold'
  BY <1>1, <1>2, <1>3 DEF AnswersHold
<1>7. KindFits'
  BY <1>1, <1>2, <1>3, <1>4 DEF KindFits
<1>8. PasswordHolds'
  <2>1. ASSUME stage = "update", tcp.kind = "CHANGE_PASSWORD"
        PROVE  accounts[tcp.user] = tcp.password
    <3>1. tcp.stage = "account" /\ answers["tcp"] = tcp.password
      BY <1>1, <2>1 DEF KindFits
    <3>2. tcp.password \in Typed /\ answers["tcp"] # NoAnswer
      BY <1>1, <2>1 DEF KindFits, Turn
    <3> QED
      BY <1>1, <3>1, <3>2, StoreAssumption DEF AnswersHold, Typed
  <2> QED
    BY <1>1, <1>2, <1>3, <2>1, StoreAssumption DEF PasswordHolds
<1>9. ResetOwned'
  BY <1>1, <1>2 DEF ResetOwned
<1> QED
  BY <1>5, <1>6, <1>7, <1>8, <1>9 DEF ByRight

\* A handler that goes on to issue a session has the account's password.
LEMMA IssueByRight ==
  ASSUME IInv, ByRight, Turn, Issue,
         \/ tcp.stage = "account" /\ tcp.kind = "LOGIN" /\ answers["tcp"] = tcp.password
         \/ tcp.stage \in {"create", "update"} /\ answers["tcp"] = TRUE
  PROVE  ByRight'
<1> DEFINE token == drawn + 1
           revoke == [op |-> "revokeAllSessions", user |-> tcp.user]
           create == [op |-> "createSession", by |-> "tcp", user |-> tcp.user, token |-> token]
<1>1. /\ TypeOK /\ Calling /\ Drawing
      /\ CallsFit /\ AnswersHold /\ KindFits /\ PasswordHolds /\ ResetOwned
  BY DEF IInv, ByRight
<1>2. /\ accounts' = accounts /\ resets' = resets /\ console' = console /\ told' = told
      /\ handed' = handed /\ clientMap' = clientMap
      /\ answers'["tcp"] = NoAnswer /\ answers'["console"] = answers["console"]
      /\ \A i \in 1 .. Len(queue) : ~ByTcp(queue[i])
  BY TurnFacts DEF Issue
<1>3. /\ tcp'.stage = "session" /\ tcp'.kind = tcp.kind /\ tcp'.user = tcp.user
      /\ tcp'.password = tcp.password /\ tcp'.new = tcp.new
      /\ queue' = queue \o <<revoke, create>> \/ queue' = queue \o << create >>
  BY <1>1 DEF Issue, Reissued, TypeOK
<1>4. /\ tcp.kind \in {"LOGIN", "REGISTER", "CHANGE_PASSWORD", "RESET_PASSWORD"}
      /\ tcp.stage \in {"create", "update"} => tcp.kind # "LOGIN"
  BY <1>1 DEF Calling, HandlerFits, KindFits
<1>5. CallsFit'
  <2>1. tcp.user \in Users /\ token \in Secrets
    BY <1>1, StoreAssumption DEF Calling, HandlerFits, Drawing, Reserved, TypeOK, Secrets
  <2>2. revoke \in Tasks /\ create \in Tasks
    BY <2>1 DEF Tasks
  <2>3. Longer /\ \A i \in Len(queue) + 1 .. Len(queue') : queue'[i] \in {revoke, create}
    <3>1. CASE queue' = queue \o << create >>
      <4>1. queue' = Append(queue, create)
        BY <1>1, <2>2, <3>1 DEF TypeOK
      <4> QED
        BY <1>1, <2>2, <4>1, Pushed DEF Longer
    <3>2. CASE queue' = queue \o <<revoke, create>>
      <4>1. /\ Len(queue) \in Nat /\ Len(queue') = Len(queue) + 2
            /\ \A i \in 1 .. Len(queue) : queue[i] \in Tasks /\ queue'[i] = queue[i]
            /\ queue'[Len(queue) + 1] = revoke /\ queue'[Len(queue) + 2] = create
        BY <1>1, <2>2, <3>2, PushedBoth
      <4>2. \A i \in Len(queue) + 1 .. Len(queue') : i \in {Len(queue) + 1, Len(queue) + 2}
        BY <4>1
      <4>3. Longer
        BY <4>1 DEF Longer
      <4> QED
        BY <4>1, <4>2, <4>3
    <3> QED
      BY <1>3, <3>1, <3>2
  <2> QED
    BY <1>1, <1>2, <2>3, CallsStayFit
<1>6. AnswersHold'
  BY <1>1, <1>2, <1>3 DEF AnswersHold
<1>7. KindFits'
  BY <1>1, <1>2, <1>3, <1>4 DEF KindFits
<1>8. PasswordHolds'
  <2>1. accounts[tcp.user] = IF tcp.kind = "LOGIN" THEN tcp.password ELSE tcp.new
    <3>1. CASE tcp.stage = "account" /\ tcp.kind = "LOGIN" /\ answers["tcp"] = tcp.password
      <4>1. tcp.password \in Typed /\ answers["tcp"] # NoAnswer
        BY <1>1, <3>1 DEF KindFits, Turn
      <4> QED
        BY <1>1, <3>1, <4>1, StoreAssumption DEF AnswersHold, Typed
    <3>2. CASE tcp.stage \in {"create", "update"} /\ answers["tcp"] = TRUE
      BY <1>1, <1>4, <3>2 DEF PasswordHolds
    <3> QED
      BY <3>1, <3>2
  <2> QED
    BY <1>1, <1>2, <1>3, <2>1 DEF PasswordHolds
<1>9. ResetOwned'
  BY <1>1, <1>2 DEF ResetOwned
<1> QED
  BY <1>5, <1>6, <1>7, <1>8, <1>9 DEF ByRight

LEMMA TcpGoesOnByRight == IInv /\ ByRight /\ TcpGoesOn => ByRight'
<1> SUFFICES ASSUME IInv, ByRight, TcpGoesOn PROVE ByRight'
  OBVIOUS
<1>1. Turn
  BY TcpTurns
<1>2. Refuse \/ Issued \/ SessionFound => tcp' = Idle /\ queue' = queue
  BY DEF Refuse, Issued, SessionFound
<1> QED
  BY <1>1, <1>2, TcpTurns, IssueByRight, WriteByRight, DoneByRight

\* The console thread goes by what its own calls found.
LEMMA ConsoleByRight ==
  ASSUME IInv, ByRight,
         (\E u \in Users : Command(u)) \/ DrawReset \/ PrintReset
  PROVE  ByRight'
<1>1. /\ TypeOK /\ Calling /\ Drawing
      /\ CallsFit /\ AnswersHold /\ KindFits /\ PasswordHolds /\ ResetOwned
  BY DEF IInv, ByRight
<1>2. /\ accounts' = accounts /\ resets' = resets /\ tcp' = tcp /\ handed' = handed
      /\ clientMap' = clientMap /\ answers'["tcp"] = answers["tcp"]
      /\ console.stage = "idle" \/ answers["console"] # NoAnswer
      /\ answers'["console"] = NoAnswer
  <2>1. CASE \E u \in Users : Command(u)
    BY <1>1, <2>1 DEF Command, consoleKeeps, tables, Calling, AnswerFits
  <2>2. CASE DrawReset \/ PrintReset
    BY <1>1, <2>2 DEF DrawReset, PrintReset, ConsoleAnswered, consoleKeeps, tables, TypeOK, Threads
  <2> QED
    BY <2>1, <2>2
<1>3. \A i \in 1 .. Len(queue) : queue[i] \in Tasks /\ ~ByConsole(queue[i])
  BY <1>1, <1>2 DEF Calling, OneCall, AskedByConsole, TypeOK
<1>4. \A i \in 1 .. Len(queue) : queue[i].op # "createPasswordReset" /\
        (queue[i].op = "getAccountByUsername" => queue[i].by = "tcp")
  BY <1>3, TaskFields DEF ByConsole, Threads
<1>5. ASSUME NEW task \in Tasks, queue' = Append(queue, task), task.user = console'.user,
             \/ task.op = "getAccountByUsername" /\ task.by = "console"
             \/ task.op = "createPasswordReset"
      PROVE  CallsFit'
  <2>1. \A i \in 1 .. Len(queue') :
          (i \in 1 .. Len(queue) /\ queue'[i] = queue[i]) \/ queue'[i] = task
    BY <1>1, <1>5, Pushed
  <2> QED
    BY <1>1, <1>2, <1>4, <1>5, <2>1 DEF CallsFit
<1>6. queue' = queue => CallsFit'
  BY <1>1, <1>2, <1>4 DEF CallsFit
<1>7. KindFits'
  BY <1>1, <1>2 DEF KindFits
<1>8. ASSUME NEW u \in Users, Command(u) PROVE ByRight'
  <2>1. /\ console'.stage = "account" /\ console'.user = u /\ told' = told
        /\ queue' = Append(queue, FindAccount("console", u))
    BY <1>8 DEF Command, ConsoleIdle
  <2>2. CallsFit'
    BY <1>5, <2>1 DEF FindAccount, Tasks, Threads
  <2> QED
    BY <1>1, <1>2, <1>7, <2>1, <2>2 DEF ByRight, AnswersHold, PasswordHolds, ResetOwned
<1>9. ASSUME DrawReset PROVE ByRight'
  <2>1. CASE console' = ConsoleIdle /\ queue' = queue
    <3>1. console'.stage = "idle" /\ told' = told
      BY <1>9, <2>1 DEF DrawReset, ConsoleIdle
    <3> QED
      BY <1>1, <1>2, <1>6, <1>7, <2>1, <3>1
      DEF ByRight, AnswersHold, PasswordHolds, ResetOwned
  <2>2. CASE /\ answers["console"] # NoAccount
             /\ console' = [console EXCEPT !.stage = "reset", !.reset = drawn + 1]
             /\ queue' = Append(queue, [op |-> "createPasswordReset", by |-> "console",
                                        user |-> console.user, reset |-> drawn + 1])
    <3>1. /\ console'.stage = "reset" /\ console'.user = console.user
          /\ console'.reset = drawn + 1 /\ told' = told
      BY <1>1, <1>9, <2>2 DEF DrawReset, TypeOK
    <3>2. console.stage = "account" /\ answers["console"] # NoAnswer /\ console.user \in Users
      BY <1>1, <1>9 DEF DrawReset, ConsoleAnswered, Calling, HandlerFits
    <3>3. drawn + 1 \in Secrets /\ ~(drawn + 1 <= drawn)
      BY <1>1, <3>2, StoreAssumption DEF TypeOK, Drawing, Reserved, Secrets
    <3>4. CallsFit'
      <4>1. [op |-> "createPasswordReset", by |-> "console", user |-> console.user,
             reset |-> drawn + 1] \in Tasks
        BY <3>2, <3>3 DEF Tasks
      <4> QED
        BY <1>5, <2>2, <3>1, <4>1
    <3>5. resets[drawn + 1] = NoUser
      BY <1>1, <3>3 DEF Drawing, Sorted, IsReset
    <3>6. accounts[console.user] # NoAccount
      BY <1>1, <2>2, <3>2 DEF AnswersHold
    <3> QED
      BY <1>1, <1>2, <1>7, <3>1, <3>4, <3>5, <3>6
      DEF ByRight, AnswersHold, PasswordHolds, ResetOwned
  <2> QED
    BY <1>9, <2>1, <2>2 DEF DrawReset
<1>10. ASSUME PrintReset PROVE ByRight'
  <2>1. /\ console.stage = "reset" /\ console'.stage = "idle" /\ queue' = queue
        /\ told' \in {told, [told EXCEPT ![console.reset] = console.user]}
    BY <1>10 DEF PrintReset, ConsoleAnswered, ConsoleIdle
  <2>2. \A s \in Secrets : \/ told'[s] = told[s]
                           \/ /\ s = console.reset /\ told[s] = NoUser
                              /\ told'[s] = console.user
    BY <1>1, <2>1 DEF TypeOK, Drawing, Owned
  <2>3. ResetOwned'
    BY <1>1, <1>2, <2>1, <2>2 DEF ResetOwned
  <2>4. AnswersHold'
    BY <1>1, <1>2, <2>1, <2>2 DEF AnswersHold, Drawing, Owned
  <2> QED
    BY <1>1, <1>2, <1>6, <1>7, <2>1, <2>3, <2>4 DEF ByRight, PasswordHolds
<1> QED
  BY <1>8, <1>9, <1>10

\* Expiry, crashes and stuttering.
LEMMA SurroundingsByRight ==
  ASSUME IInv, ByRight, (\E s \in Secrets : Expire(s)) \/ Crash \/ UNCHANGED vars
  PROVE  ByRight'
<1>1. CASE (\E s \in Secrets : Expire(s)) \/ UNCHANGED vars
  <2>1. /\ accounts' = accounts /\ resets' = resets /\ queue' = queue /\ answers' = answers
        /\ tcp' = tcp /\ console' = console /\ clientMap' = clientMap
        /\ handed' = handed /\ told' = told
    BY <1>1 DEF Expire, vars, tables, server, clients
  <2>2. CallsFit'
    BY <2>1 DEF ByRight, CallsFit
  <2>3. AnswersHold'
    BY <2>1 DEF ByRight, AnswersHold
  <2>4. KindFits'
    BY <2>1 DEF ByRight, KindFits
  <2>5. PasswordHolds' /\ ResetOwned'
    BY <2>1 DEF ByRight, PasswordHolds, ResetOwned
  <2> QED
    BY <2>2, <2>3, <2>4, <2>5 DEF ByRight
<1>2. CASE Crash
  <2>1. /\ resets' = resets /\ told' = told /\ Len(queue') = 0
        /\ tcp' = Idle /\ tcp'.stage = "idle" /\ tcp'.kind = "none" /\ console'.stage = "idle"
    BY <1>2 DEF Crash, tables, clients, Idle, ConsoleIdle
  <2> QED
    BY <2>1 DEF ByRight, CallsFit, AnswersHold, KindFits, PasswordHolds, ResetOwned
<1> QED
  BY <1>1, <1>2

LEMMA NextByRight == IInv /\ ByRight /\ [Next]_vars => ByRight'
  BY WorkerByRight, RequestsByRight, TcpGoesOnByRight, ConsoleByRight, SurroundingsByRight
  DEF Next, ConsoleGoesOn

LEMMA InitByRight == Init => ByRight
  BY DEF Init, ByRight, CallsFit, AnswersHold, KindFits, PasswordHolds, ResetOwned, Idle,
     ConsoleIdle, Threads

\* Whatever a handler goes by holds at the moment it acts.
THEOREM ActsByRight == Spec => [](IInv /\ ByRight)
<1>1. IInv /\ ByRight /\ [Next]_vars => IInv' /\ ByRight'
  BY WorkerKeeps, RequestsKeep, TcpGoesOnKeeps, CommandKeeps, DrawResetKeeps, PrintResetKeeps,
     ExpireKeeps, CrashKeeps, StutterKeeps, NextByRight
  DEF Next, ConsoleGoesOn
<1> QED
  BY InitIInv, InitByRight, <1>1, PTL DEF Spec

-----------------------------------------------------------------------------
(* What the server promises.                                               *)

\* A step of the abstract server, or none.
PromiseStep == [Promise!Next]_(Promise!vars)

\* Where a handler is, seen from outside.
LEMMA PhaseOf ==
  ASSUME KindFits
  PROVE  /\ tcp.stage = "idle" => Request = Promise!NoRequest /\ Phase = "asked"
         /\ tcp.stage \in {"account", "consume", "lookup"} => Phase = "asked"
         /\ tcp.stage = "create" => Phase = IF answers["tcp"] = TRUE THEN "written" ELSE "asked"
         /\ tcp.stage = "update" =>
              Phase = IF answers["tcp"] = TRUE THEN "written"
                      ELSE IF tcp.kind = "RESET_PASSWORD" THEN "redeemed" ELSE "asked"
         /\ tcp.stage = "session" => Phase = IF tcp.kind = "LOGIN" THEN "asked" ELSE "written"
  BY DEF KindFits, Idle, Request, Phase, Promise!NoRequest

\* What the request in hand is, to the letter.
LEMMA RequestFields ==
         /\ Request.kind = tcp.kind /\ Request.user = tcp.user
         /\ Request.password = tcp.password /\ Request.new = tcp.new
         /\ Request.reset = tcp.reset
         /\ tcp.kind = "AUTH_SESSION" => Request.token = tcp.token
         /\ tcp.kind # "none" => Request # Promise!NoRequest
  BY DEF Request, Promise!NoRequest

\* The server starts as it promises to.
LEMMA InitImplements == Init => Promise!Init
  BY DEF Init, Promise!Init, Promise!NoRequest, Request, Phase, Idle

\* Of the worker's tasks only those that write a password are seen from outside.
LEMMA WorkerImplements == IInv /\ ByRight /\ Worker => PromiseStep
<1> SUFFICES ASSUME IInv, ByRight, Worker PROVE PromiseStep
  OBVIOUS
<1>1. /\ TypeOK /\ Calling /\ Drawing
      /\ CallsFit /\ AnswersHold /\ KindFits /\ PasswordHolds /\ ResetOwned
      /\ KindFits'
  BY WorkerByRight DEF IInv, ByRight
<1>2. /\ tcp' = tcp /\ clientMap' = clientMap /\ handed' = handed /\ told' = told
      /\ dead' = dead /\ spared \subseteq spared' /\ Request' = Request
      /\ mishaps' = mishaps + 1 \/ (mishaps' = mishaps /\ spared' = spared)
  BY <1>1, WorkerTask, WorkerEffects, WorkerWrites DEF Request
<1>3. /\ Task.op = "createAccount" =>
           /\ tcp.stage = "create" /\ tcp.kind = "REGISTER" /\ answers["tcp"] = NoAnswer
           /\ Task.user = tcp.user /\ Task.password = tcp.new
      /\ Task.op = "updateAccountPassword" =>
           /\ tcp.stage = "update" /\ tcp.kind \in {"CHANGE_PASSWORD", "RESET_PASSWORD"}
           /\ answers["tcp"] = NoAnswer
           /\ Task.user = tcp.user /\ Task.password = tcp.new
  <2>1. Task \in Tasks /\ Task = queue[1] /\ 1 \in 1 .. Len(queue)
    BY <1>1, WorkerTask
  <2>2. ByTcp(Task) => Asked(Task) /\ answers["tcp"] = NoAnswer
    BY <1>1, <2>1 DEF Calling, OneCall
  <2> QED
    BY <1>1, <2>1, <2>2 DEF ByTcp, Asked, CallsFit, Calling, HandlerFits
<1>4. NoAnswer # TRUE
  BY StoreAssumption
<1>5. CASE accounts' = accounts /\ Phase' = Phase
  BY <1>2, <1>5 DEF PromiseStep, Promise!Next, Promise!vars, Promise!Mishap
<1>6. CASE Task.op \notin {"createAccount", "updateAccountPassword"}
  <2>1. accounts' = accounts
    BY <1>1, <1>6, WorkerWrites
  <2>2. tcp.stage \in {"create", "update"} => answers'["tcp"] = answers["tcp"]
    BY <1>1, <1>6, WorkerTask DEF ByTcp, Asked
  <2>3. Phase' = Phase
    BY <1>2, <2>2 DEF Phase
  <2> QED
    BY <1>5, <2>1, <2>3
<1>7. CASE /\ Task.op \in {"createAccount", "updateAccountPassword"}
           /\ accounts' = accounts /\ answers'["tcp"] = FALSE
  <2>1. Phase' = Phase
    BY <1>2, <1>3, <1>4, <1>7 DEF Phase
  <2> QED
    BY <1>5, <1>7, <2>1
<1>8. CASE /\ Task.op = "createAccount" /\ accounts[Task.user] = NoAccount
           /\ accounts' = [accounts EXCEPT ![Task.user] = Task.password]
           /\ answers'["tcp"] = TRUE /\ mishaps' = mishaps
  <2>1. Phase = "asked" /\ Phase' = "written"
    BY <1>2, <1>3, <1>4, <1>8 DEF Phase
  <2>2. mishaps' = mishaps /\ spared' = spared
    BY <1>2, <1>8, <1>1 DEF TypeOK
  <2>3. Promise!Register
    BY <1>2, <1>3, <1>8, <2>1, <2>2, RequestFields
    DEF Promise!Register, Promise!Handling, Promise!Write
  <2> QED
    BY <2>3 DEF PromiseStep, Promise!Next
<1>9. CASE /\ Task.op = "updateAccountPassword"
           /\ accounts' = [accounts EXCEPT ![Task.user] = Task.password]
           /\ answers'["tcp"] = TRUE /\ mishaps' = mishaps
  <2>1. /\ Phase = IF tcp.kind = "RESET_PASSWORD" THEN "redeemed" ELSE "asked"
        /\ Phase' = "written"
    BY <1>2, <1>3, <1>4, <1>9 DEF Phase
  <2>2. mishaps' = mishaps /\ spared' = spared
    BY <1>2, <1>9, <1>1 DEF TypeOK
  <2>3. CASE tcp.kind = "RESET_PASSWORD"
    <3>1. Promise!Reset
      BY <1>2, <1>3, <1>9, <2>1, <2>2, <2>3, RequestFields DEF Promise!Reset, Promise!Write
    <3> QED
      BY <3>1 DEF PromiseStep, Promise!Next
  <2>4. CASE tcp.kind = "CHANGE_PASSWORD"
    <3>1. tcp.user \in clientMap /\ accounts[tcp.user] = tcp.password
      BY <1>1, <1>3, <1>4, <1>9, <2>4 DEF KindFits, PasswordHolds
    <3>2. Promise!Change
      BY <1>2, <1>3, <1>9, <2>1, <2>2, <2>4, <3>1, RequestFields
      DEF Promise!Change, Promise!Handling, Promise!Write
    <3> QED
      BY <3>2 DEF PromiseStep, Promise!Next
  <2> QED
    BY <1>3, <1>9, <2>3, <2>4
<1> QED
  BY <1>1, <1>6, <1>7, <1>8, <1>9, WorkerWrites

\* A request that is read is a request that is asked; LOGOUT is done at once.
LEMMA RequestsImplement == IInv /\ ByRight /\ Requests => PromiseStep
<1> SUFFICES ASSUME IInv, ByRight, Requests PROVE PromiseStep
  OBVIOUS
<1>1. TypeOK /\ KindFits
  BY DEF IInv, ByRight
<1>2. ASSUME NEW t \in Secrets, ReceiveLogout(t) PROVE PromiseStep
  <2>1. /\ accounts' = accounts /\ handed' = handed /\ told' = told /\ spared' = spared
        /\ mishaps' = mishaps /\ tcp' = tcp /\ answers' = answers
        /\ clientMap' = clientMap \ {handed[t]} /\ dead' = dead \cup {t}
        /\ tcp.stage = "idle" /\ handed[t] # NoUser
    BY <1>2 DEF ReceiveLogout, tcpKeeps, tables
  <2>2. Request = Promise!NoRequest /\ Request' = Request /\ Phase' = Phase
    BY <1>1, <2>1, PhaseOf DEF Request, Phase
  <2>3. Promise!LogOut(t)
    BY <2>1, <2>2 DEF Promise!LogOut
  <2> QED
    BY <2>3 DEF PromiseStep, Promise!Next
<1>3. ASSUME NEW request, NEW task, Opens(request, task), Receive(request, task)
      PROVE  PromiseStep
  <2>1. /\ accounts' = accounts /\ handed' = handed /\ told' = told /\ spared' = spared
        /\ mishaps' = mishaps /\ clientMap' = clientMap /\ dead' = dead
        /\ tcp' = request /\ tcp.stage = "idle"
    BY <1>3 DEF Receive, tcpKeeps, tables
  <2>2. /\ Request = Promise!NoRequest /\ Phase = "asked"
        /\ tcp'.stage \in {"account", "consume", "lookup"} /\ tcp'.kind # "none"
    BY <1>1, <1>3, <2>1, PhaseOf DEF Opens
  <2>3. Phase' = "asked"
    BY <2>2 DEF Phase
  <2>4. /\ Request'.kind = request.kind /\ Request'.reset = request.reset
        /\ request.kind = "AUTH_SESSION" => Request'.token = request.token
    BY <2>1 DEF Request
  <2>5. Request' # Promise!NoRequest
    BY <2>1, <2>2, <2>4 DEF Promise!NoRequest
  <2>6. /\ request.kind = "AUTH_SESSION" => handed[request.token] # NoUser
        /\ request.kind = "RESET_PASSWORD" => told[request.reset] # NoUser
    BY <1>3 DEF Opens
  <2>7. Promise!Ask
    BY <2>1, <2>2, <2>3, <2>4, <2>5, <2>6 DEF Promise!Ask
  <2> QED
    BY <2>7 DEF PromiseStep, Promise!Next
<1> QED
  BY <1>1, <1>2, <1>3, RequestsOpen

\* A new session is given for the right password, or for one just written.
LEMMA IssuedImplements == IInv /\ ByRight /\ Issued => PromiseStep
<1> SUFFICES ASSUME IInv, ByRight, Issued PROVE PromiseStep
  OBVIOUS
<1>1. TypeOK /\ Calling /\ Drawing /\ Justified /\ KindFits /\ PasswordHolds
  BY DEF IInv, ByRight, Revoking
<1>2. /\ Turn /\ tcp.stage = "session" /\ tcp' = Idle
      /\ handed' = [handed EXCEPT ![tcp.token] = tcp.user]
      /\ clientMap' = IF tcp.kind = "CHANGE_PASSWORD" THEN clientMap
                      ELSE clientMap \cup {tcp.user}
      /\ dead' = IF tcp.kind \in {"RESET_PASSWORD", "CHANGE_PASSWORD"}
                   THEN dead \cup Handed(tcp.user) ELSE dead
  BY DEF Issued, Answered, Turn
<1>3. /\ accounts' = accounts /\ told' = told /\ spared' = spared /\ mishaps' = mishaps
  BY <1>2, TurnFacts
<1>4. tcp.kind \in {"LOGIN", "REGISTER", "CHANGE_PASSWORD", "RESET_PASSWORD"}
  BY <1>1, <1>2 DEF KindFits
<1>5. /\ tcp.kind = "LOGIN" => accounts[tcp.user] = tcp.password /\ tcp.password # NoAccount
      /\ tcp.kind # "LOGIN" => accounts[tcp.user] = tcp.new /\ tcp.new # NoAccount
  BY <1>1, <1>2, <1>4, StoreAssumption
  DEF PasswordHolds, KindFits, Typed, Calling, HandlerFits
<1>6. Phase = IF tcp.kind = "LOGIN" THEN "asked" ELSE "written"
  BY <1>1, <1>2, PhaseOf
<1>7. Request' = Promise!NoRequest /\ Phase' = "asked"
  BY <1>2 DEF Idle, Request, Phase, Promise!NoRequest
<1>8. tcp.token \in Secrets /\ Promise!Fresh(tcp.token)
  <2>1. tcp.token \in Secrets /\ handed[tcp.token] = NoUser
    BY <1>1, <1>2 DEF Drawing, Owned
  <2>2. told[tcp.token] = NoUser
    BY <1>1, <2>1 DEF Drawing, Sorted, IsSession, IsReset
  <2>3. tcp.token \notin dead
    BY <1>1, <2>1, <2>2 DEF Justified
  <2> QED
    BY <2>1, <2>2, <2>3 DEF Promise!Fresh
<1>9. Promise!Admit(tcp.token)
  BY <1>2, <1>3, <1>4, <1>5, <1>6, <1>7, <1>8, RequestFields
  DEF Promise!Admit, Promise!Handling, Promise!Done, Handed
<1> QED
  BY <1>8, <1>9 DEF PromiseStep, Promise!Next

\* A session token lets in the account it was given to, or nobody.
LEMMA SessionFoundImplements == IInv /\ ByRight /\ SessionFound => PromiseStep
<1> SUFFICES ASSUME IInv, ByRight, SessionFound PROVE PromiseStep
  OBVIOUS
<1>1. /\ TypeOK /\ Calling /\ KindFits /\ AnswersHold /\ RevokedSignsNobodyIn
  BY DEF IInv, ByRight
<1>2. /\ Turn /\ tcp.stage = "lookup" /\ answers["tcp"] # NoAnswer /\ tcp' = Idle
      /\ clientMap' = clientMap \cup ({answers["tcp"]} \ {NoUser})
      /\ handed' = handed /\ dead' = dead
  BY DEF SessionFound, SignedIn, Answered, Turn
<1>3. /\ accounts' = accounts /\ told' = told /\ spared' = spared /\ mishaps' = mishaps
  BY <1>2, TurnFacts
<1>4. tcp.kind = "AUTH_SESSION" /\ Phase = "asked" /\ Request # Promise!NoRequest
  BY <1>1, <1>2, PhaseOf, RequestFields DEF KindFits
<1>5. Request' = Promise!NoRequest /\ Phase' = "asked"
  BY <1>2 DEF Idle, Request, Phase, Promise!NoRequest
<1>6. CASE answers["tcp"] = NoUser
  <2>1. Promise!Refuse
    BY <1>2, <1>3, <1>4, <1>5, <1>6, RequestFields
    DEF Promise!Refuse, Promise!Handling, Promise!Done
  <2> QED
    BY <2>1 DEF PromiseStep, Promise!Next
<1>7. CASE answers["tcp"] # NoUser
  <2>1. answers["tcp"] \in Users /\ answers["tcp"] = handed[tcp.token]
    BY <1>1, <1>2, <1>7 DEF AnswersHold, Calling, AnswerFits
  <2>2. Promise!Good(tcp.token)
    BY <1>1, <1>2, <2>1 DEF RevokedSignsNobodyIn, Promise!Good
  <2>3. clientMap' = clientMap \cup {handed[tcp.token]}
    BY <1>2, <1>7, <2>1
  <2>4. Promise!Resume
    BY <1>2, <1>3, <1>4, <1>5, <2>2, <2>3, RequestFields
    DEF Promise!Resume, Promise!Handling, Promise!Done
  <2> QED
    BY <2>4 DEF PromiseStep, Promise!Next
<1> QED
  BY <1>6, <1>7

\* A handler that goes on redeems a reset token, refuses, or does nothing yet that
\* anybody sees.
LEMMA TcpGoesOnImplements == IInv /\ ByRight /\ TcpGoesOn => PromiseStep
<1> SUFFICES ASSUME IInv, ByRight, TcpGoesOn PROVE PromiseStep
  OBVIOUS
<1>1. /\ TypeOK /\ Calling /\ Drawing /\ KindFits /\ AnswersHold /\ ResetWorksOnce
  BY DEF IInv, ByRight
<1>2. /\ Turn /\ accounts' = accounts /\ told' = told /\ spared' = spared
      /\ mishaps' = mishaps /\ answers'["tcp"] # TRUE
  BY TcpTurns, TurnFacts, StoreAssumption
<1>3. CASE /\ Issue
           /\ \/ tcp.stage = "account" /\ tcp.kind = "LOGIN"
              \/ tcp.stage \in {"create", "update"} /\ answers["tcp"] = TRUE
  <2>1. /\ tcp'.stage = "session" /\ tcp'.kind = tcp.kind /\ tcp'.user = tcp.user
        /\ tcp'.password = tcp.password /\ tcp'.new = tcp.new /\ tcp'.reset = tcp.reset
        /\ clientMap' = clientMap /\ handed' = handed /\ dead' = dead
    BY <1>1, <1>3 DEF Issue, TypeOK
  <2>2. tcp.stage \in {"create", "update"} => tcp.kind # "LOGIN"
    BY <1>1 DEF Calling, HandlerFits
  <2>3. tcp.kind # "AUTH_SESSION"
    BY <1>1, <1>3 DEF Calling, HandlerFits
  <2>4. Request' = Request
    BY <2>1, <2>3 DEF Request
  <2>5. Phase' = Phase
    BY <1>3, <2>1, <2>2 DEF Phase
  <2> QED
    BY <1>2, <2>1, <2>4, <2>5 DEF PromiseStep, Promise!vars
<1>4. ASSUME NEW op, NEW stage, Write(op, stage), stage \in {"create", "update"},
             tcp.stage \in {"account", "consume"}
      PROVE  /\ Request' = Request
             /\ Phase = "asked"
             /\ Phase' = IF stage = "update" /\ tcp.kind = "RESET_PASSWORD" THEN "redeemed"
                         ELSE "asked"
             /\ clientMap' = clientMap /\ handed' = handed
  <2>1. /\ tcp'.stage = stage /\ tcp'.kind = tcp.kind /\ tcp'.user = tcp.user
        /\ tcp'.password = tcp.password /\ tcp'.new = tcp.new /\ tcp'.reset = tcp.reset
        /\ tcp'.token = tcp.token /\ clientMap' = clientMap /\ handed' = handed
    BY <1>1, <1>4 DEF Write, TypeOK
  <2>2. Request' = Request
    BY <2>1 DEF Request
  <2>3. Phase = "asked"
    BY <1>1, <1>4, PhaseOf
  <2> QED
    BY <1>2, <1>4, <2>1, <2>2, <2>3 DEF Phase
<1>5. CASE \/ /\ Write("createAccount", "create") /\ dead' = dead
              /\ tcp.stage = "account" /\ tcp.kind = "REGISTER"
           \/ /\ Write("updateAccountPassword", "update") /\ dead' = dead
              /\ tcp.stage = "account" /\ tcp.kind = "CHANGE_PASSWORD"
  BY <1>2, <1>4, <1>5 DEF PromiseStep, Promise!vars
<1>6. CASE /\ Write("updateAccountPassword", "update") /\ dead' = dead \cup {tcp.reset}
           /\ tcp.stage = "consume" /\ answers["tcp"] = tcp.user
  <2>1. tcp.kind = "RESET_PASSWORD" /\ tcp.user \in Users /\ answers["tcp"] # NoAnswer
    BY <1>1, <1>2, <1>6 DEF KindFits, Calling, HandlerFits, Turn
  <2>2. told[tcp.reset] = tcp.user
    BY <1>1, <1>6, <2>1, StoreAssumption DEF AnswersHold
  <2>3. Promise!Good(tcp.reset)
    BY <1>1, <1>6, <2>1 DEF ResetWorksOnce, Promise!Good
  <2>4. Promise!Redeem
    BY <1>2, <1>4, <1>6, <2>1, <2>2, <2>3, RequestFields
    DEF Promise!Redeem, Promise!Handling
  <2> QED
    BY <2>4 DEF PromiseStep, Promise!Next
<1>7. CASE /\ Refuse /\ tcp.stage \in {"account", "create", "consume", "update"}
           /\ tcp.stage \in {"create", "update"} => answers["tcp"] # TRUE
  <2>1. /\ clientMap' = clientMap /\ handed' = handed /\ tcp' = Idle
        /\ dead' = IF tcp.stage = "consume" THEN dead \cup {tcp.reset} ELSE dead
    BY <1>7 DEF Refuse
  <2>2. Request' = Promise!NoRequest /\ Phase' = "asked"
    BY <2>1 DEF Idle, Request, Phase, Promise!NoRequest
  <2>3. tcp.kind # "none" /\ Phase # "written"
    BY <1>1, <1>7, PhaseOf DEF KindFits, Calling, HandlerFits
  <2>4. (tcp.kind = "RESET_PASSWORD" /\ Phase = "asked") <=> tcp.stage = "consume"
    BY <1>1, <1>7, PhaseOf DEF KindFits, Calling, HandlerFits
  <2>5. Promise!Refuse
    BY <1>2, <2>1, <2>2, <2>3, <2>4, RequestFields
    DEF Promise!Refuse, Promise!Handling, Promise!Done
  <2> QED
    BY <2>5 DEF PromiseStep, Promise!Next
<1> QED
  BY <1>3, <1>5, <1>6, <1>7, TcpTurns, IssuedImplements, SessionFoundImplements

\* Only an account that exists is reset, by a token that is new.
LEMMA ConsoleImplements ==
  ASSUME IInv, ByRight, (\E u \in Users : Command(u)) \/ DrawReset \/ PrintReset
  PROVE  PromiseStep
<1>1. TypeOK /\ Calling /\ Drawing /\ Justified /\ PasswordHolds
  BY DEF IInv, ByRight, Revoking
<1>2. /\ accounts' = accounts /\ tcp' = tcp /\ handed' = handed /\ clientMap' = clientMap
      /\ dead' = dead /\ spared' = spared /\ mishaps' = mishaps
  BY DEF Command, DrawReset, PrintReset, consoleKeeps, tables, history
<1>3. answers'["tcp"] = answers["tcp"]
  <2>1. CASE \E u \in Users : Command(u)
    BY <2>1 DEF Command
  <2>2. CASE DrawReset \/ PrintReset
    BY <1>1, <2>2 DEF DrawReset, PrintReset, ConsoleAnswered, TypeOK, Threads
  <2> QED
    BY <2>1, <2>2
<1>4. Request' = Request /\ Phase' = Phase
  BY <1>2, <1>3 DEF Request, Phase
<1>5. CASE told' = told
  BY <1>2, <1>4, <1>5 DEF PromiseStep, Promise!vars
<1>6. CASE PrintReset /\ told' = [told EXCEPT ![console.reset] = console.user]
  <2>1. /\ console.stage = "reset" /\ console.user \in Users /\ console.reset \in Secrets
        /\ told[console.reset] = NoUser /\ accounts[console.user] # NoAccount
    BY <1>1, <1>6 DEF PrintReset, ConsoleAnswered, Calling, HandlerFits, Drawing, Owned,
       PasswordHolds
  <2>2. handed[console.reset] = NoUser
    BY <1>1, <2>1 DEF Drawing, Sorted, IsSession, IsReset
  <2>3. Promise!Fresh(console.reset)
    BY <1>1, <2>1, <2>2 DEF Promise!Fresh, Justified
  <2>4. Promise!Announce(console.reset, console.user)
    BY <1>2, <1>4, <1>6, <2>1, <2>3 DEF Promise!Announce
  <2> QED
    BY <2>1, <2>4 DEF PromiseStep, Promise!Next
<1>7. \/ told' = told
      \/ PrintReset /\ told' = [told EXCEPT ![console.reset] = console.user]
  BY DEF Command, DrawReset, PrintReset
<1> QED
  BY <1>5, <1>6, <1>7

\* Expiry is not seen; a crash is a mishap.
LEMMA SurroundingsImplement ==
  ASSUME IInv, ByRight, (\E s \in Secrets : Expire(s)) \/ Crash \/ UNCHANGED vars
  PROVE  PromiseStep
<1>1. CASE (\E s \in Secrets : Expire(s)) \/ UNCHANGED vars
  <2>1. /\ accounts' = accounts /\ answers' = answers /\ tcp' = tcp /\ clientMap' = clientMap
        /\ handed' = handed /\ told' = told /\ dead' = dead /\ spared' = spared
        /\ mishaps' = mishaps
    BY <1>1 DEF Expire, vars, tables, server, clients, history
  <2>2. Request' = Request /\ Phase' = Phase
    BY <2>1 DEF Request, Phase
  <2> QED
    BY <2>1, <2>2 DEF PromiseStep, Promise!vars
<1>2. CASE Crash
  <2>1. /\ accounts' = accounts /\ handed' = handed /\ told' = told /\ dead' = dead
        /\ mishaps' = mishaps + 1 /\ clientMap' = {} /\ tcp' = Idle /\ spared \subseteq spared'
    BY <1>2 DEF Crash, Mishap, tables, clients
  <2>2. Request' = Promise!NoRequest /\ Phase' = "asked"
    BY <2>1 DEF Idle, Request, Phase, Promise!NoRequest
  <2> QED
    BY <2>1, <2>2 DEF PromiseStep, Promise!Next, Promise!Mishap, Promise!Done
<1> QED
  BY <1>1, <1>2

\* The server keeps its promise.
THEOREM AccessImplemented == Spec => ImplementsAccess
<1>1. IInv /\ ByRight /\ [Next]_vars => PromiseStep
  BY WorkerImplements, RequestsImplement, TcpGoesOnImplements, ConsoleImplements,
     SurroundingsImplement
  DEF Next, ConsoleGoesOn
<1> QED
  BY InitImplements, ActsByRight, <1>1, PTL DEF Spec, ImplementsAccess, Promise!Spec, PromiseStep
=============================================================================
