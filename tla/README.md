# A verification of vc_app

`vc_app` is a voice and text chat: one executable that runs as the server or as
a client (Qt/QML window). This directory holds TLA+ models of its protocol and
state machines, TLC runs on small instances and TLAPS proofs. Paths below are
those of the repository; `Application.cpp` stands for `src/Core/Application.cpp`
and so on.

## Inventory

| Component | State | Operations | Threads |
|---|---|---|---|
| Server control (`Application.cpp:287-760`) | `clientMap`: profile of each signed-in account | LOGIN, REGISTER, RESET_PASSWORD, CHANGE_PASSWORD, AUTH_SESSION, LOGOUT, STATE, CHAT, REQ_CHAT_LOG, REQ_CHAT_LOG_BEFORE, SYNC/CREATE_CHANNEL, HEARTBEAT | TCP thread |
| Voice router (`Application.cpp:159-209`) | `m_activeRouters`: channel and endpoint of each account | drain `m_routingQueue`, learn endpoint, forward | UDP thread |
| Routing queue (`LockFreeQueue.hpp`) | ring buffer, drop-oldest | `forcePush`, `pop` | TCP to UDP |
| Sessions (`TailscaleNetwork.cpp`, `TcpSession.cpp`) | `m_activeSessions`, per session: uuid, dead flag, heartbeat flag, timer, write queue | accept, read, override, close (posted), disconnect, broadcast, targeted send | TCP thread |
| Throttling (`LoginRateLimiter.cpp`) | failure records, registration times, last sweep | ask, record failure/success/registration, sweep | TCP thread |
| Database (`DatabaseManager.cpp`) | accounts, sessions, reset tokens, channels, messages; task queue | synchronous reads and account writes, queued inserts and revocations | TCP thread, worker |
| Client control (`Application.cpp:762-966`) | uuid, in-flight flag, token file, sampled channels | one pass per wake: sign in, sign out, password, heartbeat, voice state, text channel, message, history, channel creation | control thread |
| Client pushes (`Application.cpp:1011-1258`) | - | one branch per server message | TCP thread |
| Backend and rows (`DiscordBackend.cpp`, `ChatMessageModel.cpp`) | login state, selection, loaded channel, rows, paging flags, pending queues | user slots, queued signals | Qt main thread |
| Audio (`AudioEngine.cpp`, `PeerMixer.cpp`, `JitterBuffer.hpp`) | capture/playback rings, per-peer jitter buffer and expected sequence | capture, VAD, encode, push, mix, conceal, reset | device callback, outgoing thread, UDP thread |

Interactions: the TCP thread of the server announces a user's channel to the UDP
thread through `m_routingQueue` only. A request's answer and the broadcasts it
causes leave on the requester's session, in order. The client's Qt thread and
control thread share guarded queues and atomics; pushes reach the window as
queued Qt signals, in the order they were posted whatever thread posted them.
Queued database writes run on the worker behind synchronous reads of the TCP
thread.

Hard to get right: a queue that drops its oldest entry between two threads;
closes that are posted and run after requests already read; answers and
broadcasts that come for a channel the user has left; three threads of the
client that agree on being signed in only through a flag, a uuid, a file and
signals; timestamps as page anchors; lockout arithmetic over two clocks' ends.
`PROJECT.json` lists these hazards line by line.

What makes each component correct:

- Router: it follows the profiles up to what an overflow drops; a datagram goes
  to the members of the sender's channel at one instant; members hear each other.
- Sessions: an account is mapped to its newest live session and never to a dead
  or foreign one; vanished peers are purged.
- Chat: the rows are one channel's, without gaps or duplicates; loading ends;
  a channel selected gets a page that comes after the selection.
- Client login: one authentication at a time; signed in means a token is kept;
  the window ends up showing what the client is.
- Accounts: a secret the server answered to be revoked or used up works for
  nobody; a token it gave out is stored; every call returns.
- Throttling: lockouts are bounded, stand while they should, registrations stay
  in their budget.
- Presence: the server's profile is what the client last sent; who has read every
  broadcast shows the server's list.
- Connections' clocks: a live client keeps its connection, a silent one loses it
  within two timers.
- Queue: what comes out went in, once and in order, and only an overflow loses,
  the oldest first.
- Voice path: what is late silences a speaker for a bounded time only, audio of a
  channel the speaker has left stays there as long as no thread puts the queue's
  head back, queued frames are taken.

## Modules

| Module | Models | State and actions |
|---|---|---|
| `VoiceRouting` | router, profiles' channels, the queue between them | one action per TCP handler that touches it; the UDP callback is `UdpReceive`, one `DrainUpdate` per popped entry, `DrainDone`, then `Route` or `Discard`; `ClientRestart` moves a client to a new port with a datagram still under way from the old one |
| `SessionRegistry` | sessions and `m_activeSessions` | `ReadRequest`/`ReadAuthentication` are one completed read with its handler; a close is two steps, the post (`PostClose`) and `RunClose`; `HeartbeatTick`, `IoError`, `PeerGone` |
| `ChatHistory` | the text channel end to end | Qt slots, one wake of the control loop in three steps (`WakeTextChannel`, `WakeMessage`, `WakeHistory`), three server handlers, the worker's INSERT; CHAT is two steps, handing the message to the worker (`PostChat`) and the broadcast (`Broadcast`), and the worker may store it before, between or after them |
| `ClientLogin` | signing in and out on the client | Qt thread (`Submit`, `Logout`, `ChangePassword`, `DeliverSignal`), one wake of the control loop in its steps, the TCP thread's three pushes, a server that gives any answer |
| `AuthStore` | accounts, session tokens, reset tokens, the database's task queue | one action per kind of task (`GetAccount` ... `ConsumePasswordReset`), run by the worker; a handler is cut where it waits for a task: `Receive...` makes its first call, `AccountFound`, `ResetConsumed`, `Written`, `Issued`, `SessionFound` go on with the answer; the console's `Command`, `DrawReset`, `PrintReset`; `Expire`, `Crash` |
| `Access` | what the server promises about who gets in: one request at a time, no database, no queue, no second thread | `Ask`; `Register`, `Change`, `Redeem` and `Reset` write a password or use a reset token up; `Admit`, `Resume`, `Refuse` end a request, `LogOut` is one; the operator's `Announce`; `Mishap` |
| `LoginRateLimiter` | the limiter inside its callers | one action per outcome of a handler |
| `Heartbeats` | the clocks of one connection: both ends' 45 s timers, the client's heartbeat interval and the naps of its control loop | `Tick` lets time pass, `Wake` is one pass of the loop, `Expire` one run of a timer, `ReachServer`/`ReachClient` a message read, `Chatter` any other traffic, `HangUp` the end of a stream |
| `LockFreeQueue` | `forcePush` and `pop`, load by load and store by store, one producer and any consumers | `BeginWrite` ... `DiscardOldest`, `LoadHead` ... `StoreHead`; a copy takes two steps, so it can tear |
| `DropOldest` | what the queue promises: an atomic queue that drops its oldest entry | `Push`, `Pop`, `FindEmpty` |
| `VoicePresence` | who is shown in which voice channel: both copies of the client's voice state, `clientMap`, its broadcasts, several connections per account | clicks on the Qt thread, `Dial`, `WakeLogout`, `WakeVoice`, `ReceivePush`, one `Handle...` per request, `Close` |
| `VoicePath` | one speaker's frames in one listener's mixer | the outgoing queue is its ring: `ring`, `front`, `back` are `m_buffer`, `m_head`, `m_tail`; the control thread's `BeginJoin`/`BeginLeave`, `resetBuffers` pop by pop (`ResetPops`, `ResetStores`, `ResetEnds`), `StoreChannel`, `StoreMute`, `SignOutOrIn`; the device callback's `Record`, which goes on with `DiscardOldestFrame` when the ring is full; the outgoing thread statement by statement, a pop in two steps (`PopAt`, `PopEnds`); `Arrive`, of anything sent so far, again or not at all; `MixStored` or `MixConceal` per mixer callback |

`MCChatHistory` defines the small message histories, `MCLoginRateLimiter` the
symmetry, `MCVoicePresence` the sign-ins the configurations use; the other modules
are run directly. `...Proofs`
modules hold the theorems; two of them serve two modules each (`SessionProofs`
those about a connection, `AudioProofs` those about audio), which is why the
definitions every module has bear the module's name in `Heartbeats` and `VoicePath`
(`HeartbeatInit`, `VoiceSpec`, `VoiceTypeOK`): one module can extend both. Operators marked "Mutant" in the modules are
deliberate faults, used by `PROJECT.json`'s mutants to show that each property
can fail; no specification refers to them.

The modules meet in these places. `AuthStore` is shown to implement `Access`. `VoiceRouting` uses its queue
as `DropOldest`, which `LockFreeQueue` is shown to implement within the limits
below; `VoicePath`, whose queue two threads pop at once, has the ring itself. `VoicePresence` maps an account to its newest connection, which is
`SessionRegistry`'s `NewestIsTracked`; its sign-in succeeds or has not ended yet,
`ClientLogin` has the rest. `Heartbeats` gives `SessionRegistry`'s untimed
`HeartbeatTick` its clock. `ClientLogin`'s server gives any answer;
`AuthStore` and `LoginRateLimiter` have what makes it one or the other.

History variables (`lost`, `snapshot`, `newest`, `displaced`, `late`, `cut`,
`leaving`, `created`, `dead` of `AuthStore`, `spared`, `void`, `silence`,
`published`, `out`, `raced`, `shownFrom`, `told`, `overtaken`, `paged`, `misdated`,
`leaked`, `putBack`, `arrived`, `waited`, `spoiled`) are read by no guard but `published`, which bounds and numbers
the pushes; they exist to state properties.

### Abstractions worth knowing

- A request handler is one step: the TCP thread runs it to its end and what it
  shares with other threads it touches once. Where it touches shared state more
  than once (AUTH_SUCCESS and AUTH_FAILED on the client) or waits (the account
  handlers of `AuthStore`), it is several steps.
- `m_routingQueue` in `VoiceRouting` is an atomic bounded sequence. `LockFreeQueue`
  says how far that goes: until the two sides meet on `m_head` (`raced`). That a pop
  beside an overflowing push may find the ring empty for a moment, with entries
  in it (`LockFreeQueue.hpp:25-30`), is in `LockFreeQueue` and not here: the router
  then forwards a datagram by what it had read so far, and drains the rest at the next.
- In `LockFreeQueue` indices are loaded and stored in one order for all threads;
  the code's acquire and release give what the model's order is used for. A slot
  written while it is copied reads as `Torn`: a data race, so any mixture of bytes.
- In `Heartbeats` time is counted in ticks, a thread may be late by `Lag`, a
  message takes at most `Delay`, and at most one heartbeat and one answer travel.
- In `VoicePresence` a handler with its broadcast is one step and the user dials
  only when signed out; which lists exist beside the users' states is left out. A
  connection that drops drops at both ends at once, and none drops while its user is
  dialling: that a sign-in fails is `ClientLogin`'s, that the server notices late
  `SessionRegistry`'s.
- In `VoicePath` a frame is its stay and its number, samples and voice activity
  are left out (a frame is recorded or not), the flags of one burst are loaded in
  one step, as are the mute and deafen flags stored, and the sequence number does
  not wrap at 2^32 (two and a half years of talking). `m_isBuffering` is never set
  by the code and has no variable. What is sent is its number alone: the listener
  sees no more of a frame.
- A pop there loads both indices and copies the frame in one step and stores
  `m_head` in another, a push writes, stores `m_tail` and loads `m_head` in one and
  discards in another. A store of `m_head` that another thread has overtaken, the
  replay it causes and the moment in which an overflowing ring looks empty are thus
  in the model; copies torn by a push that comes round are in `LockFreeQueue`.
- In `ClientLogin` a queued form is a count per kind, every dial opens a
  connection of its own, order is kept per connection only, and what is sent on
  a dead connection vanishes, as in `sendPersistentTcp`. Clearing the uuid and
  posting the confirmation of a logout (`Application.cpp:878-882`) are one step.
- In `ChatHistory` the client is signed in from the start (as AUTH_SUCCESS leaves
  it) and stays connected, and the clock does not go back. A query selects a set
  of places in the table, its page is the newest of them, and the answer has the
  rows there in order of insertion: no recursion over a sequence. For rows of equal
  timestamps the code leaves that order open (the outer ORDER BY sorts by the
  timestamp only, `DatabaseManager.cpp:338`); no property depends on it, as `NoHoles`
  asks for distinct ones and the others do not look at the order.
  With equal timestamps allowed the clock ticks at most once per stamp of the messages
  sent so far (`Tick`): which stamps are equal and which later is all the code looks at.
- In `AuthStore` an account's name stands for its uuid, a secret for its hash, and
  requests turned down before the first database call are left out (a registration
  over its budget is turned down after the lookup, and is modelled). That the SELECT
  and the DELETE of one reset token both fail is one `mishap`, as one cause has it. The server
  installs no signal handler and nothing clears `m_isRunning` on it, so being
  killed is the only way it stops: `Crash` is the ordinary end of a run.
- In `LoginRateLimiter` a handler takes no time (the hashing is slow in reality,
  but one thread runs all handlers) and times are whole seconds. An address's
  registration times are a set of numbered times: the code counts and erases them
  by their age, wherever they stand, and two of one second are two.

## Runs

All bounds are CONSTANTS. Deadlock is checked except where the system can stop:
the finite pool of sessions is used up (`SessionRegistry`), the database was never
opened and both threads wait for its worker (`AuthStore`), or the bounded clicks,
sign-ins and frames are used up (`VoicePresence`, `VoicePath`). `LockFreeQueue` and
`Heartbeats` never stop.

| Run | Shows | Bounds and why they suffice |
|---|---|---|
| VoiceRouting | `RoutingAgreement`, `ForwardBySnapshot`, `AudioFlows` | two users (each is sender and receiver), one channel besides none, two queue entries so that overflow and several announcements of one user both occur; one client restarts with a datagram still under way from its old port |
| SessionRegistry | `TrackedIsLive`, `NewestIsTracked`, `VanishedIsPurged` | two sessions and two accounts: one session overrides the other on either account and goes on reading until its close runs |
| ChatHistory | `LastPageIsCurrent`, `RowsOfLoaded`, `PagingFinishes`, `PageLoads` | two channels, three switches (away, back and away) at any speed, one new message, pages of one row; `PageLoads` is about a page shown after the selection (`paged`), not about `m_loadedChannelId`, which keeps its value when the rows are cleared |
| ChatHistoryPaging | `NoHoles`, `NoDuplicateRows` | one channel, three old messages and three new ones, pages of two, the last one short, a memory of two rows that new messages push rows out of while paging, equal timestamps allowed, each message stamped by the worker before or after its broadcast; both ask that no page was asked for from a row that shows its broadcast's stamp (`misdated`), `NoHoles` also for distinct stamps and for no row cut while a page is under way |
| ClientLogin | `WindowAgrees`, `OneAuthAtATime`, `SignedInHasToken`, `LogoutSticks`, `SignedInIsShown`, `IdleShowsForm` | two submissions, a password change, two logouts, any connection may drop, at most one undelivered signal when the control loop wakes, so that the loop and the pushes still race over the one signal queue |
| AuthStore | `RevokedSignsNobodyIn`, `ResetWorksOnce`, `HandedOutIsStored`, `ImplementsAccess`, `EveryCallReturns` | two accounts, so that a reset token can be presented for the wrong one; three secrets: a session, a reset token and the session the reset opens; one password, so that a stale one is left to the theorem `ActsByRight`; one crash or failing statement anywhere |
| LoginRateLimiter | `LockoutIsCapped`, `RegistrationBudget`, `LockoutStandsInWindow`, `FailuresAreSpaced` | windows of three and two seconds, a cap below the largest doubling, two accounts behind one address, starting at any clock value |
| Heartbeats | `LiveIsKept`, `SilentIsPurged` | timer 11, interval 6, naps of 1 to 3, one tick late, one on the wire: the shortest timer the assumption allows (interval + shortest nap + lateness + way there and back < timer) |
| LockFreeQueue | `RingHoldsNewest`, `ImplementsDropOldest` | three slots, so two entries; five pushes wrap the ring and overflow it more than once; two popping threads |
| VoicePresence | `ServerKnows`, `ShownIsCurrent` | two users, one of whom signs in twice and is followed, the other once; two clicks; any connection may drop. An old connection with unread requests, a newer one and a broadcast of the other user all occur together |
| VoicePath | `DeafnessIsBounded`, `PastStaysPast`, `FramesLeave` | two stays of two frames, a ring of two places (one frame), one slot, a stale timeout of three mixes, one mute or sign-out. The second frame overflows the queue and is a whole jitter buffer ahead; a frame straggles from one stay into the next; the reset pops beside the outgoing thread's pop and the callback's push and may put `m_head` back. Without `~putBack` the run finds the replay of a whole stay |

The runs of `VoiceRouting`, `SessionRegistry`, `VoicePresence` and `VoicePath` also check
the module's type invariant (`TypeOK`, `VoiceTypeOK`); the others' is proved only. Every invariant and action property of the
passing runs is also proved for all values of the constants (see Proofs): there the
run is what a reader can replay and what the mutants are measured with. The liveness
properties rest on the runs alone.

### Fairness

- `VoiceRouting`: the UDP callback runs to its end (weak fairness of its steps); a
  talking client's datagrams are received again and again (strong fairness of
  `UdpReceive` from the present port: between two callbacks it is enabled
  whatever else the UDP thread serves). The TCP thread owes nothing.
- `SessionRegistry`: timers fire, posted handlers run. I/O errors are not promised.
- `ChatHistory`: every thread keeps running; the control loop wakes at least every
  two seconds (`sleepTime`). Users and other clients owe nothing.
- `ClientLogin`: threads run and the server answers; an answer, a successful dial
  and the network owe nothing. Weak fairness of the control thread as a whole:
  every dial ends, either way.
- `AuthStore`: the worker, the TCP thread and the console thread go on when they
  can. Requests, commands, expiry and crashes owe nothing.
- `VoicePath`: weak fairness of the outgoing thread, whose wait ends by its timeout
  (`wait_for`, 250 ms) even if every notification is lost, and of the end of a push
  that has begun. No other frame has to come, and the network and the user owe nothing.
- `LoginRateLimiter`, `Heartbeats`, `LockFreeQueue` and `VoicePresence` have safety
  properties only; in `Heartbeats` deadlines are bounds on `Tick`.

### Disagreements between the code and what it says

One run is expected to violate its property; `PROJECT.json`'s `findings` quotes the
line it contradicts.

| Run | What happens |
|---|---|
| ChatHistoryFast | A page of A is shown; B and then A again are selected between two wakes. The first selection clears the rows (`DiscordBackend.cpp:425-432`), the loop compares what it sampled with what it sampled before and sees no change, so no page of A is asked for and none comes: A stays empty |

The models show more behaviour a maintainer should know of. The passing properties
exclude it by a condition that names it, or do not claim the opposite.

Chat and history:

- broadcasts of the channel left behind are appended under the new header until
  its page arrives;
- an abandoned older page finishes a newer request, and the next scroll then
  requests and prepends the same page twice (`NoHoles` and `NoDuplicateRows` are
  checked without switches);
- a message that shares a page boundary's millisecond is skipped by paging
  (`DistinctlyStamped` in `NoHoles`);
- a live message over the row limit cuts the oldest row off while an older page is
  under way; the page is then put in front of what is left, and the row between
  is missing for good (`cut` in `NoHoles`);
- a row that came as a broadcast bears the CHAT handler's reading of the clock
  (`Application.cpp:654`), the table has the worker's (`DatabaseManager.cpp:238`), and
  either may be the earlier one: the handler enqueues the INSERT before it reads its
  clock. When rows are cut until such a row is the oldest, the next page starts from
  the broadcast's stamp. If that is the earlier one the messages stored between the
  two are skipped, if it is the later one the row itself comes again (`misdated` in
  `NoHoles` and `NoDuplicateRows`);
- rows trimmed from a fully paged channel cannot be paged in, `hasMore` being false;
- a message typed just before a switch goes to the other channel;

Signing in, accounts:

- a failed dial loses the form, and the in-flight flag can be set after the answer
  it waits for: the client then waits for ever, as it does if the connection drops
  while an authentication is under way;
- a second click on Log Out is kept for the next session, and taken before that
  session is confirmed it leaves a window that says signed in with nobody signed in
  (`logouts <= 1` in `WindowAgrees` and `IdleShowsForm`); a form submitted twice signs in again after a logout, and a
  late PASSWORD_CHANGED stores a token after it (conditions of `LogoutSticks`);
- a running lockout is cut when its failure window ends (`LockoutStandsInWindow`
  speaks of the window only);
- a kill between the password update and the queued revocation leaves the old
  tokens valid under the new password, and one between a LOGOUT's answer and its
  DELETE revives the token (`spared` in `RevokedSignsNobodyIn`);
- if the database cannot be opened, the server accepts requests and the first one
  blocks the TCP thread for good (`working` in `EveryCallReturns`).

Voice:

- a login announces an endpoint the router never stores; a user who only listens is
  not heard of until its first datagram in a channel;
- a LOGOUT or STATE read from an old connection after the same account signed in on
  a newer one erases or overwrites the new profile (`overtaken` in `ServerKnows`);
  a LOGOUT announces nothing to the router;
- the login's broadcast leaves before the session is mapped, so the client that
  signs in does not get it (`shownFrom` in `ShownIsCurrent`);
- the client's applied voice state outlives a logout: after the next sign-in an equal
  choice is not sent. The shown list outlives it too, and a signed-out client whose
  connection stands goes on receiving broadcasts;
- a client whose connection dropped stays listed until it signs in and out again,
  and does not notice that it dropped;
- `LockFreeQueue`: a ring drained between a push's store of `m_tail` and its load of
  `m_head` is taken for full, and the head then passes the tail: the slots before it
  are popped again, unwritten ones included. Two overflows during one pop can lose
  everything, the pop's own store of `m_head` can undo a discard and replay, and
  while a push overflows the ring looks empty to a pop (`raced` in
  `ImplementsDropOldest`);
- a pause, one late frame or a speaker who rejoins leaves the listener deaf to that
  speaker until concealment gives the speaker up (up to the stale timeout, 100
  mixes); there is no jitter margin. A frame a whole buffer ahead overwrites one not
  played yet, and a frame that does not decode is lost and counts as a concealed one:
  then the bound does not hold (`spoiled` in `DeafnessIsBounded`);
- `resetBuffers` pops the outgoing queue beside the outgoing thread. If that thread
  stands before its store of `m_head` while the reset runs through, its store puts
  the head back to the frame after its own: what the reset had popped waits again, and
  the last stay's backlog is sent in the new one. A push that overflows and a pop
  can do the same to each other (`putBack` in `PastStaysPast`);
- mute and channel are looked at once per burst: what is queued behind the first
  frame is sent whatever the user does meanwhile. A direct change of channels resets
  nothing. A signed-out client throws queued frames away two at a time.

## Proofs

Each theorem holds for all values of the constants that the named assumption
allows; the assumptions say no more than that the bounds are numbers and the model
values distinct, unless the arguments below say otherwise.

| Theorem | States | From |
|---|---|---|
| `VoiceRoutingProofs!TypeCorrect` | `Spec => []TypeOK` | `RoutingAssumption` |
| `VoiceRoutingProofs!RoutingAgrees` | `Spec => []RoutingAgreement` | the same |
| `VoiceRoutingProofs!ForwardsBySnapshot` | `Spec => ForwardBySnapshot` | the same |
| `SessionProofs!TypeCorrect` | `SessionRegistry`: `Spec => []TypeOK` | `RegistryAssumption` |
| `SessionProofs!MapsLiveSessions` | `Spec => []TrackedIsLive` | the same |
| `SessionProofs!NewestStaysTracked` | `Spec => []NewestIsTracked` | the same |
| `SessionProofs!HeartbeatsTyped` | `HeartbeatSpec => []HeartbeatTypeOK` | `HeartbeatAssumption` |
| `SessionProofs!LiveConnectionKept` | `HeartbeatSpec => []LiveIsKept` | the same |
| `SessionProofs!SilentConnectionPurged` | `HeartbeatSpec => []SilentIsPurged` | the same |
| `ChatHistoryProofs!TypeCorrect` | `Spec => []TypeOK` | `ChatAssumption` |
| `ChatHistoryProofs!OneChannelShown` | `Spec => []RowsOfLoaded` | the same |
| `ChatHistoryProofs!NoneShownTwice` | `Spec => []NoDuplicateRows` | the same |
| `ChatHistoryProofs!NothingSkipped` | `Spec => []NoHoles` | the same |
| `ChatHistoryProofs!PagesComeInOrder` | `Spec => []LastPageIsCurrent` | the same |
| `ChatHistoryProofs!UnhurriedPageComes` | `Spec /\ [][Unhurried]_vars => []PageComes` | the same |
| `ChatHistoryProofs!SpinnerStops` | `Spec => []SpinnerHasReason` | the same |
| `ClientLoginProofs!TypeCorrect` | `Spec => []TypeOK` | `LoginAssumption` |
| `ClientLoginProofs!OnlyOneAuth` | `Spec => []OneAuthAtATime` | the same |
| `ClientLoginProofs!TokenIsKept` | `Spec => []SignedInHasToken` | the same |
| `ClientLoginProofs!LogoutStays` | `Spec => LogoutSticks` | the same |
| `ClientLoginProofs!WindowIsRight` | `Spec => []WindowAgrees` | the same |
| `ClientLoginProofs!WindowFollows` | `Spec /\ [][LogoutInTime]_vars => [](signals = <<>> /\ tcp # "AUTH_SUCCESS" => isLoggedIn = uuid)` | the same |
| `AuthStoreProofs!TypeCorrect` | `Spec => []TypeOK` | `StoreAssumption` |
| `AuthStoreProofs!RevokedIsOut` | `Spec => []RevokedSignsNobodyIn` | the same |
| `AuthStoreProofs!ResetOnce` | `Spec => []ResetWorksOnce` | the same |
| `AuthStoreProofs!HandedOutStored` | `Spec => []HandedOutIsStored` | the same |
| `AuthStoreProofs!NoCallIsLost` | `Spec => []CallIsHeld` | the same |
| `AuthStoreProofs!ActsByRight` | `Spec => [](IInv /\ ByRight)` | the same |
| `AuthStoreProofs!AccessImplemented` | `Spec => ImplementsAccess` | the same |
| `LoginRateLimiterProofs!TypeCorrect` | `Spec => []TypeOK` | `LimiterAssumption`, `NoRecordAssumption`, `DoublingAssumption` |
| `LoginRateLimiterProofs!LockoutsAreCapped` | `Spec => []LockoutIsCapped` | the same |
| `LoginRateLimiterProofs!LockoutsStandInWindow` | `Spec => LockoutStandsInWindow` | the same |
| `LoginRateLimiterProofs!BudgetHolds` | `Spec => []RegistrationBudget` | the same |
| `LoginRateLimiterProofs!LockoutsAreServed` | `Spec => []FailuresAreSpaced` | the same |
| `LoginRateLimiterProofs!FailuresAreFew` | `Spec => []FailureBudget` | the same |
| `VoicePresenceProofs!TypeCorrect` | `Spec => []TypeOK` | `PresenceAssumption` |
| `VoicePresenceProofs!ServerKnowsEach` | `Spec => []ServerKnows` | the same |
| `VoicePresenceProofs!ShownCurrent` | `Spec => []ShownIsCurrent` | the same |
| `AudioProofs!TypeCorrect` | `LockFreeQueue`: `Spec => []TypeOK` | `QueueAssumption` |
| `AudioProofs!NewestAreHeld` | `Spec => []RingHoldsNewest` | the same |
| `AudioProofs!Implements` | `Spec => ImplementsDropOldest` | the same |
| `AudioProofs!VoiceTyped` | `VoiceSpec => []VoiceTypeOK` | `VoiceAssumption` |
| `AudioProofs!PastStays` | `VoiceSpec => []PastStaysPast` | the same |
| `AudioProofs!DeafnessBounded` | `VoiceSpec => []DeafnessIsBounded` | the same |

`VoiceRouting`. `RoutingAgreement` speaks about the newest announcement of each
user in the queue, so a push and a pop each move entries under it. The lemmas
about `Pushed` and `Tail` say where the entries go; with the type invariant the
property is inductive. `ForwardBySnapshot` needs more: from the moment the
callback found the queue empty to the moment it forwards, the router's table is
the snapshot, which holds because in between only the TCP thread moves and it
does not touch the table, and at the moment of the snapshot the empty queue
turns `RoutingAgreement` into equality.

`SessionRegistry`. `TrackedIsLive` is inductive with the types: the disconnect of a
session removes the entry under its uuid if the entry is that session, and a
tracked session's uuid is its key. `NewestIsTracked` needs in addition that the
newest session of an account carries that account's uuid. Its exception,
`displaced`, is real: the erase of a session's former uuid
(`TailscaleNetwork.cpp:178-182`) does not look at whose session the entry names.

`Heartbeats`. That no timer finds its flag unset on a live connection is not
inductive. `WaitInv` says that an end that has heard nothing since its timer was
armed will hear something before the timer is over, by what is left of the way of
the message on the wire or of the time to the next heartbeat. That time is bounded
because a nap never passes the heartbeat's due time by more than the shortest nap
(`NapInv`), and because a heartbeat never meets an earlier one (`WireInv`). The
margin in `HeartbeatAssumption` is exactly what the argument uses; the shipped
values (45000, 41250, 10, 2000 ms) meet it as long as lateness and two ways stay
under 3740 ms. `SilentIsPurged` needs only that silence is at most the armed time
plus one timer whose flag was already cleared (`SilenceInv`).

`ChatHistory`. A message's number is its place in the table, or the place it will
have (`Numbered`). What a page is, is a lemma about finite sets: the k-th row of an
answer is the one whose place has rank k among those selected, and there is one,
by the least-element principle rather than by induction. `HistoryInv` has the types
and the channel of every row and page; that the model is one channel's is inductive
with it however the user switches. The bound on messages counts those typed, on
their way and sent once each (`Counted`), the clock stays within what was and will be
stamped (`Clocked`), and a message whose handler has yet to broadcast it (`posting`) is
the last one sent (`PostingLast`).

The two properties of paging are about a user who stays on one channel (`switches =
0`). `StampsInv` gives every row, wherever it is, its place in time: the broadcasts
come in the order of their numbers (`Told` says how many came), and what is behind a row
in the table has no earlier stamp. A page is asked for below the stamp the oldest row
*shows*. Until one was asked for below a broadcast's stamp (`misdated`) that is the
table's, so the page holds older messages only (`OlderInv`), whether or not stamps are
equal. `StayInv` adds the protocol: the first page is asked for once and before any
other (`FirstPage`), at most one older page is queued, asked for or answered at a time
(`OneOlder`), and what is still to be shown is newer than every row (`ModelInv`). That
gives `NoDuplicateRows`. `NoHoles` needs that nothing is left out in between, at three
places: behind the first page every message is a row, is announced behind it or was
missed when it was read (`FirstPageCovers`); between an older page and the rows there
is nothing (`OlderPageCovers`); among the rows neither (`ModelCovers`). The second is
where its own exceptions come from: the row asked from must still be there when the page
comes (`AskedExactly`), and no other message may have its stamp.

The liveness of the channel rests on facts without time, and those are proved. Requests
and pushes keep their order, so among the pages to come the last is of the channel the
control loop last saw (`LastPageIsCurrent`), whatever the user does. If the user selects
nothing before the loop has seen the last selection, a selected channel that the loop
has seen has therefore had a page since it was selected, or one is under way
(`PageComes`): the run `ChatHistoryFast` shows why that condition is needed. And a spinner turns only while an older page is queued, asked for or
on its way (`SpinnerHasReason`), since only an answer ends a page. What is left to fairness
is that the wires are read.

`ClientLogin`. No lock keeps the three threads apart. The invariant says what does:
whenever an authentication is under way on any connection, `m_authRequestInFlight` is
set or the control thread is about to set it, and the client has no uuid (`Guarded`);
an authentication is the first request and its answer the first answer on its
connection (`AuthComesFirst`); what the wake sampled still holds when it acts on it
(`Sampled`). While a rejection is processed there is no other authentication whose
token it could wipe, which is `SignedInHasToken`. For `LogoutSticks` a user who signed
out and never asked for a password change holds no token (`LeftForGood`).

For `WindowAgrees` the invariant looks at the confirmations among the queued signals: the
last one, or the window itself if there is none, is what the client is (`WillShow`), except
while a success is being processed. It holds because a rejection and a success come to a
signed-out client, and because Log Out is clicked in a window that shows what the client
is; before the first logout that is itself invariant (`FirstSession`). A click that comes
too late, after the logout it repeats was taken, waits for the next session and can be
taken between that session's uuid and its confirmation: the window is then told of the
logout first and says signed in for good. Hence `logouts <= 1` in the property, and the
premise of `WindowFollows`.

`AuthStore`. `Calling` says who waits for what: a task in the queue is the call its
thread waits in, and the only one of that thread. `Drawing` says which secret is
what: a drawn secret is a session token or a reset token, with one owner, and the one
being issued has not been given out. `Revoking` says what the order of the queue
promises: the DELETE of a token answered to be dead stands before any lookup
(`Leaving`); a DELETE of all of an account's tokens stands before the INSERT its
handler waits for (`Justified`), so it cannot take the new one; until then the
account's earlier tokens are void (`Voided`). A crash empties the queue and a
statement may fail anywhere; what they spare is in `spared`, and nothing else is.

Nobody waits in vain (`CallIsHeld`): a thread that waits has its answer or its call in the
queue, because every task, its failing statements included, ends in setting the promise
of the thread that `Calling` says waits for it. Whether the worker runs is all that is
left to `EveryCallReturns`.

A handler looks a row up, waits, and acts on what it saw. `ByRight` says why that is
no risk: the call in the queue is about the account and the secret its thread is about
(`CallsFit`); what was answered still holds (`AnswersHold`), because only the TCP thread
changes a password and it is the one that waits; each stage belongs to the handlers
that have it (`KindFits`); so the password a handler goes by is the account's when it
acts (`PasswordHolds`), and a reset token is stored for the account it was printed for
(`ResetOwned`). The first statement of it was false, and TLC said so: the *console's*
lookup can be stale, as a password may change while the operator's thread waits. That
the account exists is all it uses, and that lasts.

With it `AuthStore` implements `Access`. The mapping takes the tables, `clientMap` and
the history variables as they are and reads how far a request is from the stage of the
TCP thread and its answer (`Phase`): a password counts as written when the worker wrote
it, a reset token as redeemed when the handler has its answer. `Receive...` is `Ask` or
`LogOut`, the worker's write is `Register`, `Change` or `Reset`, `Issued` is `Admit`,
`SessionFound` is `Resume` or `Refuse`, `PrintReset` is `Announce`; a failing statement
and a crash are `Mishap`, and the other steps are invisible. `Access` says what a
reader of the handlers would like to believe, that a request looks at the present
password or token and takes effect at once, and a mishap lets nobody in.

`LoginRateLimiter`. A key is locked only by a failure recorded when it was not
locked, so its lockout starts now and is at most the cap: the invariant is the
cap together with the typing of the records, and each handler is reduced to
"ask about some keys, then answer". For the registration budget the invariant says
that what was forgotten, by a sweep or by the question itself, is no longer recent
(`Remembered`): the recent registrations among those remembered are the recent ones
among all, so the count the handler makes is the true one.

`FailuresAreSpaced` is about handlers that share a key in any order. A key that is asked
about is locked until its last lockout is over, so the failure recorded next comes a
whole lockout later; the lockout of f failures is at least 2^n from the (n+1)st over
the limit on, so the sum is at least `Served`. A window begins anew with the first
failure after it ended. Hence `FailureBudget`: a window has room for few failures, with
the shipped limits (5 free ones, 600 seconds; n = 9, the last doubling under the cap of
900 seconds) for 15. `DoublingAssumption` (powers of two are numbers that double) is there because the
provers do not know it.

`VoicePresence`. Messages are ordered on one connection only, so the invariant is
about the newest message of a wire: the newest request on the client's newest
connection, or the profile when all are read, is the client's state (`KnownOf`), and
the newest push on the mapped connection, or the shown list when all are read, is
the server's list (`CurrentFor`). Both need that an authentication is alone on a new
connection until it is handled and its answer the first push there (`SigningIn`), and
that the newest connection is mapped from then on (`NewestMapped`).

`LockFreeQueue`. `RingInv` (types, the slots behind the tail, the entry being
published is whole) holds whatever the consumers do, because only the producer
writes slots. The refinement maps `gone` to the pushes less what the indices say is
held, where equal indices mean full between a push's store of the tail and its
discard. `Sync` says that until `raced` the map is right: no more is held than was
pushed, the discarding push has seen the present head, and a popping consumer is
the only one, with the present head in hand and, once it has copied, the oldest
entry. Each of the eleven steps then is a `DropOldest` step or a stutter. What
`raced` excludes is real and listed above.

`VoicePath`. The ring is proved about as it is, two consumers and a producer on one
`m_head`. `RingFilled` holds whatever they do to each other: `m_head` and every copy of
it that a thread has loaded are at places that were written, because a ring that has not
come round has its head before its tail, and one that has is written everywhere
(`Wrapped`, `Reached`). `FreshRing` says that what waits between the indices is of
the present stay. A join makes it so, as its reset ends with a pop that finds nothing
and the stream, hence the counter of stays, moves only then (`Phased`); a push writes the
present stay; and a store of `m_head` keeps it unless it puts the head back
(`StoreKeepsFresh`): that is where the proof needs `~putBack`, and the run without it
fails there. The outgoing thread may hold one frame of an earlier stay, and that one
together with those that leaked never is more than one (`FewLeak`).

For the listener (`ListenerInv`), as long as no two frames met in one slot and each one
taken decoded, either concealment lasted as long as the listener has waited, or the
first frame of a peer that was forgotten waits in its slot and is played next
(`Heard`); concealment ends at the stale timeout, which `VoiceAssumption` takes to be
longer than the jitter buffer (100 and 50 frames).

Only model-checked: the liveness properties (`AudioFlows`, `VanishedIsPurged`,
`PagingFinishes`, `PageLoads`, `EveryCallReturns`, `SignedInIsShown`, `IdleShowsForm`,
`FramesLeave`). The prover reasons about neither ENABLED nor fairness; of `PageLoads`,
`PagingFinishes`, `EveryCallReturns`, `SignedInIsShown` and `IdleShowsForm` the parts that
need neither are proved (`UnhurriedPageComes`, `SpinnerStops`, `NoCallIsLost`,
`WindowIsRight`).

## Not modelled

- Audio signal processing, Opus, the voice activity threshold, opening devices and
  their failures: samples, not protocol state.
- The write queue of a session: one writer at a time on one thread, in order.
- Channel lists (SYNC_CHANNELS, CREATE_CHANNEL) and the speaking indicator
  (`DiscordBackend.cpp:157-189`, `887-982`), a display with decay timers.
- The database worker's condition variable and shutdown: nothing clears the
  server's `m_isRunning`, so its destructor does not run while requests come.
- `ChannelState` (a guarded integer), the network facade (forwards every call), the
  window and QML beyond the guards of the forms, logging, the entry point, the audio
  quality test, the build.
- Memory orderings weaker than one order of all loads and stores, and the wrap of
  the frame number at 2^32.

## Plan

The runs are kept few: each asks several questions of one instance.

1. Done: the modules above with their runs; every safety property of the passing
   runs proved; the server's accounts shown to implement `Access`.
2. Proofs still worth having: that an overflow of `m_routingQueue` is what
   `DropOldest` does to it, so that `VoiceRouting` rests on `LockFreeQueue` by a theorem
   and not by an argument in this file.
3. `SpeakerIndicator` (who is shown as speaking, its decay and rebuild timers) and the
   channel lists, if a property worth its run is found for them.
