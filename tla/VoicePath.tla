----------------------------- MODULE VoicePath -----------------------------
(***************************************************************************)
(* One speaker's voice on its way to one listener.                         *)
(*                                                                         *)
(*   device callback   records frames, numbers them, queues them           *)
(*   control thread    joins and leaves channels, mutes; each join and     *)
(*                     leave resets the buffers, frame by frame            *)
(*   outgoing thread   sleeps until a frame is queued, then sends bursts   *)
(*   network           loses, reorders and duplicates datagrams            *)
(*   listener          stores frames by sequence number and mixes the next *)
(*                     one at every callback, concealing what is missing   *)
(*                                                                         *)
(* A frame is its stay (which join of the speaker it was recorded after)   *)
(* and its sequence number, which restarts with every stay; what it sounds *)
(* like is left out, and so is when the voice activity detector lets one   *)
(* be recorded.  The outgoing queue is the ring of LockFreeQueue, with a   *)
(* step for each store of m_head and one for what comes before it; torn    *)
(* copies are left to LockFreeQueue.  A direct change of channels resets   *)
(* nothing: it is no new stay.  What the listener's side drops, because it *)
(* is in no channel or deafened, is lost like any datagram.                *)
(*                                                                         *)
(* The definitions every module has bear this one's name, so that a module *)
(* can extend it together with LockFreeQueue.                              *)
(***************************************************************************)
EXTENDS Naturals, Sequences

CONSTANTS
    QueueSize,          \* frames the outgoing queue holds: 99
    BufferSlots,        \* of the jitter buffer: 50
    StaleTimeoutFrames, \* 100
    MaxFrames,          \* bound: frames recorded in a stay
    MaxStays,           \* bound: stays of the speaker
    MaxToggles          \* bound: mutes, unmutes, sign-outs and sign-ins of the speaker

ASSUME VoiceAssumption ==
    /\ QueueSize \in Nat \ {0} /\ BufferSlots \in Nat \ {0}
    /\ StaleTimeoutFrames \in Nat /\ StaleTimeoutFrames > BufferSlots
    /\ MaxFrames \in Nat /\ MaxStays \in Nat /\ MaxToggles \in Nat

Places == 0 .. QueueSize \* of the ring, which holds one frame less
NoPlace == QueueSize + 1

Frame == [stay : 1 .. MaxStays, seq : 1 .. MaxFrames]
NoFrame == [stay |-> 0, seq |-> 0] \* m_sequenceTracker is 0

VARIABLES
    \* speaker
    signedIn, \* m_activeServerUuid is set
    control,  \* control thread: idle, clearing the queue, or past the reset
    clearing, \* the m_head its pop loaded, or NoPlace
    joined,   \* m_activeVoiceChannelId is not -1
    muted,    \* m_isMuted or m_isDeafened
    toggles,  \* changes of muted and of signedIn
    stay,     \* joins so far
    stream,   \* the device callback runs
    counter,  \* m_sequenceCounter
    ring,     \* m_outgoingPackets' m_buffer
    front,    \* its m_head
    back,     \* its m_tail
    full,     \* the m_head that a push of a full ring loaded, or NoPlace
    sender,   \* outgoing thread: its place, the m_head its pop loaded and where it goes
              \* from there, the frame it holds, the flags it loaded
    \* network
    net,      \* numbers of the frames sent: each may arrive late, more than once or never
    \* listener
    peer,     \* the speaker's PeerAudioState, or NoPeer
    \* history
    leaked,   \* frames of earlier stays sent since this one began
    putBack,  \* a thread's store of m_head undid another thread's
    arrived,  \* a frame arrived since the last mix
    spoiled,  \* since a frame was last played one took the slot of another that was not
              \* played yet, or did not decode
    waited    \* mixes with an arrival since a frame was last played, until spoiled

speakerVars == <<signedIn, control, clearing, joined, muted, toggles, stay, stream, counter>>
queueVars == <<ring, front, back, full, putBack>>
senderVars == <<sender, leaked>>
listenerVars == <<peer, arrived, spoiled, waited>>
voiceVars == <<speakerVars, queueVars, senderVars, net, listenerVars>>

Senders ==
    [pc : {"poll", "drowsy", "waiting", "woken", "store", "load", "send", "next"},
     at : Places, to : {"poll", "load", "send"}, frame : Frame \cup {NoFrame}, live : BOOLEAN]

NoPeer == [last |-> 0, timeout |-> 0, slots |-> <<>>, readHead |-> 0]

Peers == [last : 0 .. MaxFrames + StaleTimeoutFrames,
          timeout : 0 .. StaleTimeoutFrames - 1,
          slots : [0 .. BufferSlots - 1 -> 0 .. MaxFrames],
          readHead : 0 .. MaxFrames + 1]

SpeakerTyped ==
    /\ signedIn \in BOOLEAN
    /\ control \in {"idle", "clearing", "changing"} /\ clearing \in Places \cup {NoPlace}
    /\ joined \in BOOLEAN /\ muted \in BOOLEAN /\ stream \in BOOLEAN
    /\ toggles \in 0 .. MaxToggles
    /\ stay \in 0 .. MaxStays
    /\ counter \in 1 .. MaxFrames + 1
    /\ ring \in [Places -> Frame \cup {NoFrame}]
    /\ front \in Places /\ back \in Places /\ full \in Places \cup {NoPlace}
    /\ sender \in Senders
    /\ net \subseteq 1 .. MaxFrames
    /\ leaked \in Nat /\ putBack \in BOOLEAN

ListenerTyped ==
    /\ peer \in Peers \cup {NoPeer}
    /\ peer # NoPeer => \A s \in 0 .. BufferSlots - 1 :
         peer.slots[s] = 0 \/ peer.slots[s] % BufferSlots = s
    /\ arrived \in BOOLEAN /\ waited \in Nat /\ spoiled \in BOOLEAN

VoiceTypeOK == SpeakerTyped /\ ListenerTyped

Resting == [pc |-> "poll", at |-> 0, to |-> "poll", frame |-> NoFrame, live |-> FALSE]

VoiceInit ==
    /\ signedIn = TRUE
    /\ control = "idle" /\ clearing = NoPlace /\ joined = FALSE /\ muted = FALSE /\ toggles = 0
    /\ stay = 0 /\ stream = FALSE /\ counter = 1
    /\ ring = [p \in Places |-> NoFrame] /\ front = 0 /\ back = 0 /\ full = NoPlace
    /\ sender = Resting
    /\ net = {}
    /\ peer = NoPeer
    /\ leaked = 0 /\ putBack = FALSE
    /\ arrived = FALSE /\ waited = 0 /\ spoiled = FALSE

-----------------------------------------------------------------------------
(* The outgoing queue.                                                     *)

\* Mutant: m_tail and m_head run past the last place.
NextPlaceUnbounded(p) == p + 1

NextPlace(p) == IF p = QueueSize THEN 0 ELSE p + 1

\* What a pop finds; while a push of a full ring is under way it finds nothing either.
Empty == front = back

\* A pop's or a push's store of m_head, which another thread may have moved since it
\* was loaded: by the frame that goes now, or any further.
StoreFront(loaded) ==
    /\ front' = NextPlace(loaded)
    /\ putBack' = \/ putBack
                  \/ ~ \/ front = NextPlace(loaded)
                       \/ front = loaded /\ (~Empty \/ full # NoPlace)

-----------------------------------------------------------------------------
(* The speaker's control thread.                                           *)

\* A join resets the buffers first.
BeginJoin ==
    /\ signedIn /\ control = "idle" /\ ~joined
    /\ stay < MaxStays
    /\ control' = "clearing"
    /\ UNCHANGED <<signedIn, clearing, joined, muted, toggles, stay, stream, counter,
                   queueVars, senderVars, net, listenerVars>>

\* A leave stops the stream first, when the callback has returned.
BeginLeave ==
    /\ signedIn /\ control = "idle" /\ joined
    /\ full = NoPlace
    /\ control' = "clearing"
    /\ stream' = FALSE
    /\ UNCHANGED <<signedIn, clearing, joined, muted, toggles, stay, counter, queueVars,
                   senderVars, net, listenerVars>>

\* resetBuffers pops until a pop finds nothing, beside the outgoing thread's pops ...
ResetPops ==
    /\ control = "clearing" /\ clearing = NoPlace
    /\ ~Empty
    /\ clearing' = front
    /\ UNCHANGED <<signedIn, control, joined, muted, toggles, stay, stream, counter,
                   queueVars, senderVars, net, listenerVars>>

ResetStores ==
    /\ clearing # NoPlace
    /\ StoreFront(clearing)
    /\ clearing' = NoPlace
    /\ UNCHANGED <<signedIn, control, joined, muted, toggles, stay, stream, counter, ring,
                   back, full, senderVars, net, listenerVars>>

\* ... and restarts the numbers; a join starts the stream.
Restarted ==
    /\ control' = "changing"
    /\ counter' = 1
    /\ IF joined THEN UNCHANGED <<stay, stream, leaked>>
                 ELSE stay' = stay + 1 /\ stream' = TRUE /\ leaked' = 0
    /\ UNCHANGED <<signedIn, clearing, joined, muted, toggles, queueVars, sender, net,
                   listenerVars>>

\* Mutant: one pop at most.
ResetEndsEarly == control = "clearing" /\ clearing = NoPlace /\ Restarted

ResetEnds == control = "clearing" /\ clearing = NoPlace /\ Empty /\ Restarted

StoreChannel ==
    /\ control = "changing"
    /\ joined' = ~joined
    /\ control' = "idle"
    /\ UNCHANGED <<signedIn, clearing, muted, toggles, stay, stream, counter, queueVars,
                   senderVars, net, listenerVars>>

StoreMute ==
    /\ signedIn /\ control = "idle"
    /\ toggles < MaxToggles
    /\ toggles' = toggles + 1
    /\ muted' = ~muted
    /\ UNCHANGED <<signedIn, control, clearing, joined, stay, stream, counter, queueVars,
                   senderVars, net, listenerVars>>

\* A logout leaves the channel joined and the stream running until the control loop
\* finds the client signed in again.
SignOutOrIn ==
    /\ control = "idle"
    /\ toggles < MaxToggles
    /\ toggles' = toggles + 1
    /\ signedIn' = ~signedIn
    /\ UNCHANGED <<control, clearing, joined, muted, stay, stream, counter, queueVars,
                   senderVars, net, listenerVars>>

-----------------------------------------------------------------------------
(* The device callback and the outgoing thread.                            *)

\* A thread that waits by now is notified.
Notified == IF sender.pc = "waiting" THEN [sender EXCEPT !.pc = "woken"] ELSE sender

\* A frame takes a number; if it can be encoded it is pushed.
Record ==
    /\ stream /\ full = NoPlace
    /\ counter <= MaxFrames
    /\ counter' = counter + 1
    /\ \/ /\ ring' = [ring EXCEPT ![back] = [stay |-> stay, seq |-> counter]]
          /\ back' = NextPlace(back)
          /\ IF NextPlace(back) = front THEN full' = front /\ UNCHANGED sender
                                        ELSE sender' = Notified /\ UNCHANGED full
       \/ UNCHANGED <<ring, back, full, sender>>
    /\ UNCHANGED <<signedIn, control, clearing, joined, muted, toggles, stay, stream, front,
                   putBack, leaked, net, listenerVars>>

\* The push of a full ring goes on: the oldest frame makes room.
DiscardOldestFrame ==
    /\ full # NoPlace
    /\ StoreFront(full)
    /\ full' = NoPlace
    /\ sender' = Notified
    /\ UNCHANGED <<speakerVars, ring, back, leaked, net, listenerVars>>

\* A pop at one place of the thread's loop, and where it goes with or without a frame:
\* m_head, m_tail and the frame are read here, m_head is stored when the pop ends.
PopAt(pc, found, empty) ==
    /\ sender.pc = pc
    /\ sender' = IF Empty THEN [Resting EXCEPT !.pc = empty]
                 ELSE [sender EXCEPT !.pc = "store", !.at = front, !.to = found,
                                     !.frame = ring[front]]
    /\ UNCHANGED <<speakerVars, queueVars, leaked, net, listenerVars>>

\* The pop's last step; a frame that goes nowhere is thrown away.
PopEnds ==
    /\ sender.pc = "store"
    /\ StoreFront(sender.at)
    /\ sender' = IF sender.to = "poll" THEN Resting
                 ELSE [sender EXCEPT !.pc = sender.to, !.at = 0, !.to = "poll"]
    /\ UNCHANGED <<speakerVars, ring, back, full, leaked, net, listenerVars>>

\* waitForOutgoingPacket: a look, a nap, a look.
PollQueue == PopAt("poll", "load", "drowsy")
PopAfterWait == PopAt("woken", "load", "poll")

\* Before the thread waits a notification finds nobody.
BeginWait ==
    /\ sender.pc = "drowsy"
    /\ sender' = [sender EXCEPT !.pc = "waiting"]
    /\ UNCHANGED <<speakerVars, queueVars, leaked, net, listenerVars>>

\* Mutant: the thread waits for a notification only.
WaitForever == FALSE /\ UNCHANGED voiceVars

\* 250 ms are over, or the thread wakes spuriously.
WaitTimesOut ==
    /\ sender.pc = "waiting"
    /\ sender' = [sender EXCEPT !.pc = "woken"]
    /\ UNCHANGED <<speakerVars, queueVars, leaked, net, listenerVars>>

\* The flags are loaded once for the burst that begins.
LoadFlags ==
    /\ sender.pc = "load"
    /\ signedIn
    /\ sender' = [sender EXCEPT !.pc = "send", !.live = joined /\ ~muted]
    /\ UNCHANGED <<speakerVars, queueVars, leaked, net, listenerVars>>

\* Signed out, the frame is thrown away and the next one with it.
DrainBacklog == ~signedIn /\ PopAt("load", "poll", "poll")

SendFrame ==
    /\ sender.pc = "send"
    /\ sender' = [sender EXCEPT !.pc = "next", !.frame = NoFrame]
    /\ IF sender.live
         THEN /\ net' = net \cup {sender.frame.seq}
              /\ leaked' = IF sender.frame.stay < stay THEN leaked + 1 ELSE leaked
         ELSE UNCHANGED <<net, leaked>>
    /\ UNCHANGED <<speakerVars, queueVars, listenerVars>>

PopNext == PopAt("next", "send", "poll")

-----------------------------------------------------------------------------
(* The network and the listener.                                           *)

\* pushPacket: an unknown peer starts at this frame; what is not newer than the last
\* one played, or older than the buffer's read head, is dropped.
Stored(p, seq) ==
    IF seq <= p.last \/ seq < p.readHead THEN p
    ELSE [p EXCEPT !.slots[seq % BufferSlots] = seq]

NewPeer(seq) ==
    [last |-> seq - 1, timeout |-> 0, slots |-> [s \in 0 .. BufferSlots - 1 |-> 0],
     readHead |-> 0]

Known(seq) == IF peer = NoPeer THEN NewPeer(seq) ELSE peer

\* The frame takes the slot of one with another number.
Collides(seq) ==
    LET old == Known(seq).slots[seq % BufferSlots]
    IN  Stored(Known(seq), seq) # Known(seq) /\ old \notin {0, seq}

\* Mutant: an arrival proves the peer is not stale.
ArriveFresh ==
    /\ \E seq \in net :
         /\ peer' = [Stored(Known(seq), seq) EXCEPT !.timeout = 0]
         /\ spoiled' = (spoiled \/ Collides(seq))
    /\ arrived' = TRUE
    /\ UNCHANGED <<speakerVars, queueVars, senderVars, net, waited>>

Arrive ==
    /\ \E seq \in net :
         /\ peer' = Stored(Known(seq), seq)
         /\ spoiled' = (spoiled \/ Collides(seq))
    /\ arrived' = TRUE
    /\ UNCHANGED <<speakerVars, queueVars, senderVars, net, waited>>

\* A peer that was not heard for too long is forgotten.
Evicted(p) == IF p.timeout >= StaleTimeoutFrames THEN NoPeer ELSE p

NextFrame == peer.slots[(peer.last + 1) % BufferSlots]

\* The next frame is there; it is taken from its slot whether or not it decodes.
MixStored ==
    /\ peer # NoPeer
    /\ NextFrame = peer.last + 1
    /\ LET taken == [peer EXCEPT !.slots[(peer.last + 1) % BufferSlots] = 0,
                                 !.readHead = peer.last + 2]
       IN  \/ /\ peer' = [taken EXCEPT !.last = @ + 1, !.timeout = 0]
              /\ waited' = 0 /\ spoiled' = FALSE
           \/ /\ peer' = Evicted([taken EXCEPT !.timeout = @ + 1])
              /\ spoiled' = TRUE /\ UNCHANGED waited
    /\ arrived' = FALSE
    /\ UNCHANGED <<speakerVars, queueVars, senderVars, net>>

\* It is missing: the gap is concealed, and the frame is late from now on.
MixConceal ==
    /\ peer # NoPeer
    /\ NextFrame # peer.last + 1
    /\ peer' = Evicted([peer EXCEPT !.last = @ + 1, !.timeout = @ + 1])
    /\ waited' = IF arrived /\ ~spoiled THEN waited + 1 ELSE waited
    /\ arrived' = FALSE
    /\ UNCHANGED <<spoiled, speakerVars, queueVars, senderVars, net>>

\* The listener leaves or joins a channel: the mixer is reset.
ResetMixer ==
    /\ peer # NoPeer
    /\ peer' = NoPeer
    /\ arrived' = FALSE /\ waited' = 0 /\ spoiled' = FALSE
    /\ UNCHANGED <<speakerVars, queueVars, senderVars, net>>

-----------------------------------------------------------------------------

Control ==
    \/ BeginJoin \/ BeginLeave \/ ResetPops \/ ResetStores \/ ResetEnds \/ StoreChannel
    \/ StoreMute \/ SignOutOrIn

Outgoing ==
    \/ PollQueue \/ BeginWait \/ WaitTimesOut \/ PopAfterWait \/ PopEnds
    \/ LoadFlags \/ DrainBacklog \/ SendFrame \/ PopNext

Listener == Arrive \/ MixStored \/ MixConceal \/ ResetMixer

VoiceNext == Control \/ Record \/ DiscardOldestFrame \/ Outgoing \/ Listener

VoiceSpec == VoiceInit /\ [][VoiceNext]_voiceVars

\* The outgoing thread goes on, and its wait ends; a push that has begun ends.
FairVoiceSpec == VoiceSpec /\ WF_voiceVars(Outgoing) /\ WF_voiceVars(DiscardOldestFrame)

-----------------------------------------------------------------------------
(* Properties                                                              *)

\* Concealment runs ahead of a speaker who pauses, and a speaker who rejoins starts
\* again at 1: either way what arrives is taken for late and dropped.  It is not for
\* ever: of the mixes before which something arrived, no more than the stale timeout
\* pass in a row without playing anything, unless frames a whole jitter buffer apart
\* collide or a frame does not decode (PeerMixer::pushPacket, mixAudio).
DeafnessIsBounded == ~spoiled => waited <= StaleTimeoutFrames

\* Of what was recorded before the speaker left, at most the one frame that the
\* outgoing thread held is sent after the speaker has joined again, although both
\* threads pop the queue at once, unless one of them or a push puts m_head back to a
\* place it had left (AudioEngine::resetBuffers, LockFreeQueue::pop).
PastStaysPast == ~putBack => leaked <= 1

\* The callback notifies without the mutex, so a notification can come between the
\* thread's look and its wait and be lost; the queue is emptied all the same.
FramesLeave == []<>(Empty /\ full = NoPlace)
=============================================================================
