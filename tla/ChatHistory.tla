---------------------------- MODULE ChatHistory ----------------------------
(***************************************************************************)
(* The text channel a user is looking at, end to end.                      *)
(*                                                                         *)
(*   Qt main thread    DiscordBackend and ChatMessageModel: the selected   *)
(*                     channel, the loaded page, scroll-up paging          *)
(*   control thread    Application::processActiveClientState, which samples*)
(*                     the selection and the queues once per wake          *)
(*   server TCP thread CHAT, REQ_CHAT_LOG and REQ_CHAT_LOG_BEFORE, one     *)
(*                     handler at a time; CHAT hands its message to the    *)
(*                     worker before it reads the clock for its broadcast  *)
(*   database worker   stores messages behind the TCP thread's back        *)
(*                                                                         *)
(* Requests travel one FIFO, answers and broadcasts another; the client's  *)
(* TCP thread turns each into one queued Qt signal, so the second FIFO ends*)
(* in the slots.  The model starts where AUTH_SUCCESS leaves the client.   *)
(* A message is its number; a row adds its channel and its timestamp.      *)
(***************************************************************************)
EXTENDS Naturals, Sequences, FiniteSets

CONSTANTS
    TextChannels,
    NoChannel,      \* m_loadedChannelId == -1
    PageSize,       \* kChatHistoryPageSize
    MemoryLimit,    \* kChatHistoryMemoryLimit
    OldMessages,    \* messages stored before the client signed in: [id -> channel]
    MaxMessages,    \* bound: message ids
    MaxSwitches,    \* bound: channel selections
    DistinctStamps  \* no two timestamps fall in the same millisecond

ASSUME ChatAssumption ==
    /\ NoChannel \notin TextChannels
    /\ PageSize \in Nat \ {0} /\ MemoryLimit \in Nat \ {0}
    /\ OldMessages \in Seq(TextChannels)
    /\ MaxMessages \in Nat /\ MaxMessages >= Len(OldMessages)
    /\ MaxSwitches \in Nat
    /\ DistinctStamps \in BOOLEAN

Ids == 1 .. MaxMessages
Stamps == 0 .. 2 * MaxMessages       \* a message is stamped twice at most
Row == [id : Ids, ch : TextChannels, ts : Stamps]

VARIABLES
    \* server
    messages,        \* the messages table, in insertion order
    taskQueue,       \* DatabaseManager::m_taskQueue: messages still to store
    clock,           \* the server's system_clock
    lastId,          \* messages handed to the worker so far
    posting,         \* channel of the last one while its handler has yet to broadcast it
    \* wires
    requests,        \* client to server
    pushes,          \* server to client, up to the Qt slots
    \* Qt main thread
    selected,        \* m_selectedTextChannelId
    loaded,          \* m_loadedChannelId
    model,           \* m_chatMessageModel's rows, oldest first
    hasMore,         \* m_hasMoreHistory
    inFlight,        \* m_historyLoadInFlight
    paged,           \* history: a page of the selected channel was shown since it was selected
    switches,        \* selections made
    pendingMessages, \* m_pendingMessages, each with the channel it was typed in
    pendingHistory,  \* m_pendingHistoryRequests
    \* control thread
    control,         \* where the current wake is, and its uiTextChannelId
    current,         \* m_textChannelState.m_currentChannelId
    late,            \* history: messages a page missed, still to be stored when read
    cut,             \* history: rows were trimmed while an older page was asked for
    misdated         \* history: an older page was asked for from a row that the table does
                     \* not have as it is shown, with its broadcast's stamp

server == <<messages, taskQueue, clock, lastId, posting, late>>
view == <<selected, loaded, model, hasMore, inFlight, paged, switches, cut, misdated>>
queues == <<pendingMessages, pendingHistory>>
controlVars == <<control, current>>
vars == <<server, requests, pushes, view, queues, controlVars>>

Log(c) == [type |-> "REQ_CHAT_LOG", ch |-> c]
Before(c, t) == [type |-> "REQ_CHAT_LOG_BEFORE", ch |-> c, before |-> t]
Chat(c, typed) == [type |-> "CHAT", ch |-> c, typed |-> typed]

Request ==
    [type : {"REQ_CHAT_LOG"}, ch : TextChannels]
    \cup [type : {"REQ_CHAT_LOG_BEFORE"}, ch : TextChannels, before : Stamps]
    \cup [type : {"CHAT"}, ch : TextChannels, typed : TextChannels]

Push ==
    [type : {"PUSH_CHAT"}, ch : TextChannels, row : Row]
    \cup [type : {"CHAT_LOG", "CHAT_LOG_MORE"}, ch : TextChannels, rows : Seq(Row),
          hasMore : BOOLEAN]

TypeOK ==
    /\ messages \in Seq(Row) /\ Len(messages) <= MaxMessages
    /\ taskQueue \in Seq([id : Ids, ch : TextChannels])
    /\ clock \in Stamps /\ lastId \in 0 .. MaxMessages /\ late \subseteq Ids
    /\ posting \in TextChannels \cup {NoChannel}
    /\ requests \in Seq(Request) /\ pushes \in Seq(Push)
    /\ selected \in TextChannels /\ loaded \in TextChannels \cup {NoChannel}
    /\ model \in Seq(Row) /\ hasMore \in BOOLEAN /\ inFlight \in BOOLEAN
    /\ paged \in BOOLEAN /\ switches \in 0 .. MaxSwitches
    /\ pendingMessages \in Seq(TextChannels)
    /\ pendingHistory \in Seq([ch : TextChannels, before : Stamps])
    /\ control \in [pc : {"idle", "chat", "history"}, ch : TextChannels]
    /\ current \in TextChannels
    /\ cut \in BOOLEAN /\ misdated \in BOOLEAN

\* Rows stored before: one after the other, perhaps in the same millisecond.
OldRows(stamps) ==
    [i \in 1 .. Len(OldMessages) |-> [id |-> i, ch |-> OldMessages[i], ts |-> stamps[i]]]

Init ==
    /\ \E stamps \in [1 .. Len(OldMessages) -> 1 .. Len(OldMessages)] :
          /\ \A i, j \in DOMAIN stamps : i < j =>
                IF DistinctStamps THEN stamps[i] < stamps[j] ELSE stamps[i] <= stamps[j]
          /\ messages = OldRows(stamps)
    /\ taskQueue = <<>>
    /\ clock = Len(OldMessages)
    /\ lastId = Len(OldMessages) /\ posting = NoChannel
    /\ selected \in TextChannels
    /\ requests = <<Log(selected)>>
    /\ pushes = <<>>
    /\ loaded = NoChannel /\ model = <<>>
    /\ hasMore = FALSE /\ inFlight = FALSE /\ paged = FALSE /\ switches = 0
    /\ pendingMessages = <<>> /\ pendingHistory = <<>>
    /\ control = [pc |-> "idle", ch |-> selected]
    /\ current = selected
    /\ late = {} /\ cut = FALSE /\ misdated = FALSE

-----------------------------------------------------------------------------
(* Qt main thread.                                                         *)

\* selectTextChannel
Select(c) ==
    /\ c # selected
    /\ switches < MaxSwitches
    /\ selected' = c
    /\ switches' = switches + 1
    /\ paged' = FALSE
    /\ IF c # loaded
         THEN model' = <<>> /\ hasMore' = FALSE /\ inFlight' = FALSE
         ELSE UNCHANGED <<model, hasMore, inFlight>>
    /\ UNCHANGED <<loaded, cut, misdated, server, requests, pushes, queues, controlVars>>

ChatRequests == {i \in 1 .. Len(requests) : requests[i].type = "CHAT"}

\* Bound: the messages sent or on their way.
MayWrite == lastId + Len(pendingMessages) + Cardinality(ChatRequests) < MaxMessages

\* sendMessage: queues the text alone.
Type ==
    /\ MayWrite
    /\ pendingMessages' = Append(pendingMessages, selected)
    /\ UNCHANGED <<server, requests, pushes, view, pendingHistory, controlVars>>

\* The rows the table has, as a page shows them.
Stored == {messages[i] : i \in 1 .. Len(messages)}

\* requestOlderMessages
RequestOlder ==
    /\ ~inFlight /\ hasMore
    /\ selected = loaded
    /\ model # <<>>
    /\ inFlight' = TRUE
    /\ pendingHistory' = Append(pendingHistory, [ch |-> selected, before |-> model[1].ts])
    /\ misdated' = (misdated \/ model[1] \notin Stored)
    /\ UNCHANGED <<server, requests, pushes, selected, loaded, model, hasMore, paged,
                   switches, cut, pendingMessages, controlVars>>

\* trimToLimit: sacrifices the oldest rows.
Trimmed(rows) ==
    SubSeq(rows, IF Len(rows) > MemoryLimit THEN Len(rows) - MemoryLimit + 1 ELSE 1,
           Len(rows))

Receive(type) ==
    /\ pushes # <<>> /\ Head(pushes).type = type
    /\ pushes' = Tail(pushes)
    /\ UNCHANGED <<server, requests, selected, switches, misdated, queues, controlVars>>

\* onAppendMessage
OnAppendMessage ==
    /\ Receive("PUSH_CHAT")
    /\ model' = IF Head(pushes).ch = loaded
                  THEN Trimmed(Append(model, Head(pushes).row)) ELSE model
    /\ cut' = (cut \/ (Head(pushes).ch = loaded /\ Len(model) >= MemoryLimit /\ inFlight))
    /\ UNCHANGED <<loaded, hasMore, inFlight, paged>>

\* onSetHistory
OnSetHistory ==
    /\ Receive("CHAT_LOG")
    /\ IF Head(pushes).ch = selected
         THEN /\ model' = Head(pushes).rows
              /\ loaded' = Head(pushes).ch
              /\ hasMore' = Head(pushes).hasMore
              /\ paged' = TRUE
         ELSE UNCHANGED <<model, loaded, hasMore, paged>>
    /\ UNCHANGED <<inFlight, cut>>

\* Mutant: an older page is prepended whatever channel it is of.
OnPrependAnyHistory ==
    /\ Receive("CHAT_LOG_MORE")
    /\ inFlight' = FALSE
    /\ model' = Head(pushes).rows \o model
    /\ hasMore' = Head(pushes).hasMore
    /\ UNCHANGED <<loaded, paged, cut>>

\* onPrependHistory
OnPrependHistory ==
    /\ Receive("CHAT_LOG_MORE")
    /\ inFlight' = FALSE
    /\ IF Head(pushes).ch = loaded
         THEN /\ model' = Head(pushes).rows \o model
              /\ hasMore' = Head(pushes).hasMore
         ELSE UNCHANGED <<model, hasMore>>
    /\ UNCHANGED <<loaded, paged, cut>>

-----------------------------------------------------------------------------
(* Control thread: one wake of processActiveClientState.                   *)

\* Mutant: asks for the channel that was shown before.
WakeFormerChannel ==
    /\ control.pc = "idle"
    /\ control' = [pc |-> "chat", ch |-> selected]
    /\ current' = selected
    /\ requests' = IF selected # current THEN Append(requests, Log(current)) ELSE requests
    /\ UNCHANGED <<server, pushes, view, queues>>

WakeTextChannel ==
    /\ control.pc = "idle"
    /\ control' = [pc |-> "chat", ch |-> selected]
    /\ current' = selected
    /\ requests' = IF selected # current THEN Append(requests, Log(selected)) ELSE requests
    /\ UNCHANGED <<server, pushes, view, queues>>

\* One pending message per wake, to the channel sampled when the wake began.
WakeMessage ==
    /\ control.pc = "chat"
    /\ control' = [control EXCEPT !.pc = "history"]
    /\ IF pendingMessages # <<>>
         THEN /\ requests' = Append(requests, Chat(control.ch, Head(pendingMessages)))
              /\ pendingMessages' = Tail(pendingMessages)
         ELSE UNCHANGED <<requests, pendingMessages>>
    /\ UNCHANGED <<server, pushes, view, pendingHistory, current>>

\* Mutant: a request for a channel other than the sampled one is thrown away.
WakeSampledHistory ==
    /\ control.pc = "history"
    /\ control' = [control EXCEPT !.pc = "idle"]
    /\ IF pendingHistory # <<>>
         THEN /\ requests' = IF Head(pendingHistory).ch # control.ch THEN requests
                             ELSE Append(requests, Before(control.ch,
                                                          Head(pendingHistory).before))
              /\ pendingHistory' = Tail(pendingHistory)
         ELSE UNCHANGED <<requests, pendingHistory>>
    /\ UNCHANGED <<server, pushes, view, pendingMessages, current>>

WakeHistory ==
    /\ control.pc = "history"
    /\ control' = [control EXCEPT !.pc = "idle"]
    /\ IF pendingHistory # <<>>
         THEN /\ requests' = Append(requests, Before(Head(pendingHistory).ch,
                                                     Head(pendingHistory).before))
              /\ pendingHistory' = Tail(pendingHistory)
         ELSE UNCHANGED <<requests, pendingHistory>>
    /\ UNCHANGED <<server, pushes, view, pendingMessages, current>>

-----------------------------------------------------------------------------
(* Server.                                                                 *)

\* The clock reading for a stamp; strictly later each time if DistinctStamps.
Now == IF DistinctStamps THEN clock + 1 ELSE clock

\* The thread takes a request when it is done with the one before.
Handle(type) ==
    /\ posting = NoChannel
    /\ requests # <<>> /\ Head(requests).type = type
    /\ requests' = Tail(requests)

\* The CHAT handler hands the message to the worker, which may be done with it before
\* the handler goes on.
PostChat(c) ==
    /\ posting = NoChannel /\ posting' = c
    /\ lastId' = lastId + 1
    /\ taskQueue' = Append(taskQueue, [id |-> lastId + 1, ch |-> c])
    /\ UNCHANGED <<messages, clock, late, pushes, view, queues, controlVars>>

HandleChat == Handle("CHAT") /\ PostChat(Head(requests).ch)

\* Another signed-in client sends a message.
OtherChat(c) ==
    /\ MayWrite
    /\ PostChat(c)
    /\ UNCHANGED requests

\* ... and broadcasts it with its own reading of the clock.
Broadcast(c) ==
    /\ posting = c /\ posting' = NoChannel
    /\ clock' = Now
    /\ pushes' = Append(pushes, [type |-> "PUSH_CHAT", ch |-> c,
                                 row |-> [id |-> lastId, ch |-> c, ts |-> Now]])
    /\ UNCHANGED <<messages, taskQueue, lastId, late, requests, view, queues, controlVars>>

\* What a query selects is a set of places in the table.
RowsOf(c) == {i \in 1 .. Len(messages) : messages[i].ch = c}

\* Mutant: the row asked from is part of the page.
RowsUpTo(c, t) == {i \in RowsOf(c) : messages[i].ts <= t}

RowsBefore(c, t) == {i \in RowsOf(c) : messages[i].ts < t}

\* Mutant: the oldest rows, not the newest.
OldestPage(rows) == {i \in rows : Cardinality({j \in rows : j < i}) < PageSize}

\* fetchLastMessages / fetchMessagesBefore: of what the WHERE selects the newest PageSize.
Page(rows) == {i \in rows : Cardinality({j \in rows : j > i}) < PageSize}

\* The rows at some places, oldest first.
InOrder(rows) ==
    [k \in 1 .. Cardinality(rows) |->
        messages[CHOOSE i \in rows : Cardinality({j \in rows : j <= i}) = k]]

\* A page, and whether there was one row more.
Answer(type, c, rows) ==
    pushes' = Append(pushes, [type |-> type, ch |-> c, rows |-> InOrder(Page(rows)),
                              hasMore |-> Cardinality(rows) > PageSize])

\* Reads the table on the TCP thread, whatever the worker still has queued.
HandleLog ==
    /\ Handle("REQ_CHAT_LOG")
    /\ Answer("CHAT_LOG", Head(requests).ch, RowsOf(Head(requests).ch))
    /\ late' = late \cup {taskQueue[i].id : i \in 1 .. Len(taskQueue)}
    /\ UNCHANGED <<messages, taskQueue, clock, lastId, posting, view, queues, controlVars>>

HandleBefore ==
    /\ Handle("REQ_CHAT_LOG_BEFORE")
    /\ Answer("CHAT_LOG_MORE", Head(requests).ch,
              RowsBefore(Head(requests).ch, Head(requests).before))
    /\ UNCHANGED <<server, view, queues, controlVars>>

\* The worker's INSERT, with the worker's own reading of the clock.
StoreMessage ==
    /\ taskQueue # <<>>
    /\ taskQueue' = Tail(taskQueue)
    /\ clock' = Now
    /\ messages' = Append(messages, [id |-> Head(taskQueue).id,
                                     ch |-> Head(taskQueue).ch, ts |-> Now])
    /\ UNCHANGED <<lastId, posting, late, requests, pushes, view, queues, controlVars>>

\* Bound: a tick for each stamp of the messages sent so far; only which stamps are
\* equal and which are later tells two histories apart.
Tick ==
    /\ ~DistinctStamps
    /\ clock < 2 * lastId - Len(OldMessages)
    /\ clock' = clock + 1
    /\ UNCHANGED <<messages, taskQueue, lastId, posting, late, requests, pushes, view,
                   queues, controlVars>>

UserNext == (\E c \in TextChannels : Select(c)) \/ Type \/ RequestOlder

SystemNext ==
    \/ OnAppendMessage \/ OnSetHistory \/ OnPrependHistory
    \/ WakeTextChannel \/ WakeMessage \/ WakeHistory
    \/ HandleChat \/ (\E c \in TextChannels : Broadcast(c))
    \/ HandleLog \/ HandleBefore \/ StoreMessage

Next == UserNext \/ SystemNext \/ Tick \/ \E c \in TextChannels : OtherChat(c)

Spec == Init /\ [][Next]_vars

\* Every thread keeps running: the control loop wakes at least every two
\* seconds, the connection is up, Qt delivers its queued signals.
Fairness ==
    /\ WF_vars(OnAppendMessage) /\ WF_vars(OnSetHistory) /\ WF_vars(OnPrependHistory)
    /\ WF_vars(WakeTextChannel) /\ WF_vars(WakeMessage) /\ WF_vars(WakeHistory)
    /\ WF_vars(HandleChat) /\ WF_vars(\E c \in TextChannels : Broadcast(c))
    /\ WF_vars(HandleLog) /\ WF_vars(HandleBefore) /\ WF_vars(StoreMessage)

FairSpec == Spec /\ Fairness

-----------------------------------------------------------------------------
(* Properties.                                                             *)

ModelIds == {model[i].id : i \in 1 .. Len(model)}

\* The model never mixes channels: however fast the user switches and however
\* late the pages and broadcasts come, its rows are those of one channel, the
\* one m_loadedChannelId names.
RowsOfLoaded == \A i \in 1 .. Len(model) : model[i].ch = loaded

\* The "loading older messages" spinner always stops.
PagingFinishes == inFlight ~> ~inFlight

\* A selection that differs from what the control loop last saw gets a page of its
\* channel that comes after it, or the user moves on: no page of another channel, late
\* or early, takes its place and no request is lost between the threads.
PageLoads ==
    \A c \in TextChannels :
        selected = c /\ current # c ~> (selected = c /\ paged) \/ selected # c

IsLast(line, i, type) ==
    line[i].type = type /\ \A j \in i + 1 .. Len(line) : line[j].type # type

\* However fast the user switches, the pages come in the order the control loop asked
\* for them, and the one that comes last is of the channel it last saw: nothing that
\* is still under way can replace that channel's page for good.
LastPageIsCurrent ==
    /\ \A i \in 1 .. Len(requests) : IsLast(requests, i, "REQ_CHAT_LOG") => requests[i].ch = current
    /\ (\A i \in 1 .. Len(requests) : requests[i].type # "REQ_CHAT_LOG") =>
          \A i \in 1 .. Len(pushes) : IsLast(pushes, i, "CHAT_LOG") => pushes[i].ch = current

\* "The fresh page arrives via REQ_CHAT_LOG (sent by the control loop on the
\* channel change)" (DiscordBackend.cpp:423-424): a channel the user stays on
\* gets its page.
SelectedPageLoads == \A c \in TextChannels : <>[](selected = c) => <>[]paged

\* Messages that the client was sent and still has to show, and the one whose handler
\* has yet to send it.
Announced ==
    {pushes[i].row.id : i \in {j \in 1 .. Len(pushes) : pushes[j].type = "PUSH_CHAT"}}
    \cup {m \in {lastId} : posting # NoChannel}

DistinctlyStamped ==
    \A i, j \in 1 .. Len(messages) : messages[i].ts = messages[j].ts => i = j

\* Scrolling up leaves no hole: as long as the user stays on one channel, no two
\* messages share a millisecond, the row limit cut nothing off while a page was asked
\* for and no page was asked for by a broadcast's stamp, every stored message younger
\* than the oldest row is a row, or on its way, or was not stored yet when the first
\* page was read.
NoHoles ==
    switches = 0 /\ DistinctlyStamped /\ ~cut /\ ~misdated /\ model # <<>> =>
        \A i \in 1 .. Len(messages) :
            messages[i].ch = loaded /\ messages[i].id > model[1].id
              => messages[i].id \in ModelIds \cup Announced \cup late

\* As long as the user stays on one channel and asks for older pages from rows that have
\* the table's stamp, no message is shown twice, whatever is posted, stored and paged in
\* between and whichever messages share a millisecond.
NoDuplicateRows ==
    switches = 0 /\ ~misdated =>
        \A i, j \in 1 .. Len(model) : model[i].id = model[j].id => i = j
=============================================================================
