----------------------------- MODULE AudioProofs -----------------------------
(***************************************************************************)
(* The queue that carries audio frames, and the frames' path to a listener.*)
(*                                                                         *)
(* LockFreeQueue, for every capacity and every set of consumers: the slots *)
(* behind the tail hold the newest entries, and until the two sides meet   *)
(* the ring implements the atomic queue of DropOldest.                     *)
(*                                                                         *)
(* VoicePath, for every capacity, jitter buffer, timeout and number of     *)
(* frames: at most one frame is sent into a stay after its own as long as  *)
(* no store of m_head puts it back, and a listener is deaf to a speaker no *)
(* longer than the stale timeout.                                          *)
(***************************************************************************)
EXTENDS LockFreeQueue, VoicePath, TLAPS

-----------------------------------------------------------------------------
(* The ring.                                                               *)

\* A push that is under way has an entry left to push.
Started == push.pc \in {"write", "publish"} => published < MaxPushes

\* The entry about to be published is whole.
Written == push.pc = "publish" => buffer[tail] = published + 1

RingInv == TypeOK /\ Started /\ Written /\ RingHoldsNewest

-----------------------------------------------------------------------------
(* Arithmetic of the ring.                                                 *)

\* The slots behind the tail are slots, and none is the tail's.
LEMMA BehindTyped ==
  ASSUME tail \in Slots, NEW i \in 1 .. Capacity - 1
  PROVE  Behind(i) \in Slots /\ Behind(i) # tail
BY QueueAssumption DEF Slots, Behind

\* A slot has a successor.
LEMMA SuccessorTyped ==
  ASSUME NEW s \in Slots
  PROVE  Successor(s) \in Slots /\ Successor(s) # s
BY QueueAssumption DEF Slots, Successor

\* When the tail moves on, what was behind it is one further behind.
LEMMA BehindNext ==
  ASSUME tail \in Slots, tail' = Successor(tail), NEW i \in 1 .. Capacity - 1
  PROVE  Behind(i)' = IF i = 1 THEN tail ELSE Behind(i - 1)
BY QueueAssumption DEF Slots, Behind, Successor

-----------------------------------------------------------------------------
(* The ring's contents.                                                    *)

LEMMA RingInit == Init => RingInv
<1> SUFFICES ASSUME Init PROVE RingInv
  OBVIOUS
<1>1. 0 \in Slots /\ published = 0
  BY QueueAssumption DEF Init, Slots
<1>2. TypeOK
  <2>1. buffer \in [Slots -> {Unwritten, Torn} \cup 1 .. MaxPushes]
    BY DEF Init
  <2>2. /\ push \in [pc : {"idle", "write", "publish", "check", "discard"}, seen : Slots]
        /\ head \in Slots /\ tail \in Slots
    BY <1>1 DEF Init
  <2>3. Idle \in [pc : {"idle", "test", "copy", "compare", "store"}, at : Slots,
                  got : {Unwritten, Torn} \cup 1 .. MaxPushes]
    BY <1>1 DEF Idle
  <2>4. pop \in [Consumers -> [pc : {"idle", "test", "copy", "compare", "store"}, at : Slots,
                               got : {Unwritten, Torn} \cup 1 .. MaxPushes]]
    BY <2>3 DEF Init
  <2>5. published \in 0 .. MaxPushes
    BY QueueAssumption DEF Init
  <2>6. out \in {Nothing, Unwritten, Torn} \cup 1 .. MaxPushes /\ raced \in BOOLEAN
    BY DEF Init
  <2> QED
    BY <2>1, <2>2, <2>4, <2>5, <2>6 DEF TypeOK
<1>3. Started /\ Written
  BY DEF Init, Started, Written
<1>4. RingHoldsNewest
  BY <1>1 DEF RingHoldsNewest
<1> QED
  BY <1>2, <1>3, <1>4 DEF RingInv

\* A half written slot is not behind the tail.
LEMMA RingBeginWrite ==
  ASSUME RingInv, BeginWrite, Race
  PROVE  RingInv'
<1>1. TypeOK'
  BY QueueAssumption DEF RingInv, TypeOK, BeginWrite, Race, Torn
<1>2. Started' /\ Written'
  BY DEF RingInv, TypeOK, Started, Written, BeginWrite
<1>3. RingHoldsNewest'
  <2> SUFFICES ASSUME NEW i \in 1 .. Capacity - 1, i <= published
               PROVE  buffer'[Behind(i)] = published - i + 1
    BY DEF RingHoldsNewest, Behind, BeginWrite
  <2>1. Behind(i) \in Slots /\ Behind(i) # tail
    BY BehindTyped DEF RingInv, TypeOK
  <2>2. buffer'[Behind(i)] = buffer[Behind(i)]
    BY <2>1 DEF RingInv, TypeOK, BeginWrite
  <2> QED
    BY <2>2 DEF RingInv, RingHoldsNewest
<1> QED
  BY <1>1, <1>2, <1>3 DEF RingInv

\* Nor is the slot that is whole again.
LEMMA RingEndWrite ==
  ASSUME RingInv, EndWrite, Race
  PROVE  RingInv'
<1>1. TypeOK'
  BY QueueAssumption DEF RingInv, TypeOK, Started, EndWrite, Race
<1>2. Started' /\ Written'
  BY DEF RingInv, TypeOK, Started, Written, EndWrite
<1>3. RingHoldsNewest'
  <2> SUFFICES ASSUME NEW i \in 1 .. Capacity - 1, i <= published
               PROVE  buffer'[Behind(i)] = published - i + 1
    BY DEF RingHoldsNewest, Behind, EndWrite
  <2>1. Behind(i) \in Slots /\ Behind(i) # tail
    BY BehindTyped DEF RingInv, TypeOK
  <2>2. buffer'[Behind(i)] = buffer[Behind(i)]
    BY <2>1 DEF RingInv, TypeOK, EndWrite
  <2> QED
    BY <2>2 DEF RingInv, RingHoldsNewest
<1> QED
  BY <1>1, <1>2, <1>3 DEF RingInv

\* The new entry becomes the newest, and the oldest slot the one to write next.
LEMMA RingStoreTail ==
  ASSUME RingInv, StoreTail, Race
  PROVE  RingInv'
<1>1. TypeOK'
  BY QueueAssumption, SuccessorTyped DEF RingInv, TypeOK, Started, StoreTail, Race
<1>2. Started' /\ Written'
  BY DEF RingInv, TypeOK, Started, Written, StoreTail
<1>3. RingHoldsNewest'
  <2> SUFFICES ASSUME NEW i \in 1 .. Capacity - 1, i <= published'
               PROVE  buffer'[Behind(i)'] = published' - i + 1
    BY DEF RingHoldsNewest
  <2>1. published' = published + 1 /\ buffer' = buffer /\ published \in Nat
    BY DEF RingInv, TypeOK, StoreTail
  <2>2. Behind(i)' = IF i = 1 THEN tail ELSE Behind(i - 1)
    BY BehindNext DEF RingInv, TypeOK, StoreTail
  <2>3. CASE i = 1
    BY <2>1, <2>2, <2>3 DEF RingInv, Written, StoreTail
  <2>4. CASE i # 1
    <3>1. i - 1 \in 1 .. Capacity - 1 /\ i - 1 <= published
      BY <2>1, <2>4, QueueAssumption
    <3>2. buffer[Behind(i - 1)] = published - (i - 1) + 1
      BY <3>1 DEF RingInv, RingHoldsNewest
    <3> QED
      BY <2>1, <2>2, <2>4, <3>2
  <2> QED
    BY <2>3, <2>4
<1> QED
  BY <1>1, <1>2, <1>3 DEF RingInv

\* A step that moves neither the tail nor an entry keeps the contents.
LEMMA RingKept ==
  ASSUME RingInv, TypeOK', UNCHANGED <<buffer, tail, published>>,
         push'.pc \in {"idle", "discard"} \/ push' = push
  PROVE  RingInv'
<1>1. Started' /\ Written'
  BY DEF RingInv, Started, Written
<1>2. RingHoldsNewest'
  BY DEF RingInv, RingHoldsNewest, Behind
<1> QED
  BY <1>1, <1>2 DEF RingInv

LEMMA RingPop ==
  ASSUME RingInv, NEW c \in Consumers, Pop(c), Race
  PROVE  RingInv'
<1>1. UNCHANGED <<buffer, tail, push, published>>
  BY DEF Pop, LoadHead, FindEmpty, FindEntry, BeginCopy, EndCopy, StoreHead
<1>2. pop' \in [Consumers -> [pc : {"idle", "test", "copy", "compare", "store"}, at : Slots,
                              got : {Unwritten, Torn} \cup 1 .. MaxPushes]]
  <2>1. CASE LoadHead(c)
    BY <2>1 DEF RingInv, TypeOK, LoadHead, Idle
  <2>2. CASE FindEmpty(c)
    BY <2>2, QueueAssumption DEF RingInv, TypeOK, FindEmpty, Idle, Slots
  <2>3. CASE FindEntry(c)
    BY <2>3 DEF RingInv, TypeOK, FindEntry
  <2>4. CASE BeginCopy(c)
    BY <2>4 DEF RingInv, TypeOK, BeginCopy
  <2>5. CASE EndCopy(c)
    BY <2>5 DEF RingInv, TypeOK, EndCopy
  <2>6. CASE StoreHead(c)
    BY <2>6, QueueAssumption DEF RingInv, TypeOK, StoreHead, Idle, Slots
  <2> QED
    BY <2>1, <2>2, <2>3, <2>4, <2>5, <2>6 DEF Pop
<1>3. head' \in Slots /\ out' \in {Nothing, Unwritten, Torn} \cup 1 .. MaxPushes
  <2>1. pop[c].at \in Slots /\ pop[c].got \in {Unwritten, Torn} \cup 1 .. MaxPushes
    BY DEF RingInv, TypeOK
  <2> QED
    BY <2>1, SuccessorTyped
    DEF RingInv, TypeOK, Pop, LoadHead, FindEmpty, FindEntry, BeginCopy, EndCopy, StoreHead
<1>4. raced' \in BOOLEAN
  BY DEF Race, RingInv, TypeOK
<1>5. TypeOK'
  BY <1>1, <1>2, <1>3, <1>4 DEF RingInv, TypeOK
<1> QED
  BY <1>1, <1>5, RingKept

LEMMA RingStep == RingInv /\ [Next]_vars => RingInv'
<1> SUFFICES ASSUME RingInv, [Next]_vars PROVE RingInv'
  OBVIOUS
<1>1. CASE BeginWrite /\ Race
  BY <1>1, RingBeginWrite
<1>2. CASE EndWrite /\ Race
  BY <1>2, RingEndWrite
<1>3. CASE StoreTail /\ Race
  BY <1>3, RingStoreTail
<1>4. CASE CheckHead /\ Race
  <2>1. TypeOK'
    BY <1>4, QueueAssumption DEF RingInv, TypeOK, CheckHead, Race
  <2>2. push'.pc \in {"idle", "discard"} /\ UNCHANGED <<buffer, tail, published>>
    BY <1>4 DEF RingInv, TypeOK, CheckHead
  <2> QED
    BY <2>1, <2>2, RingKept
<1>5. CASE DiscardOldest /\ Race
  <2>1. push.seen \in Slots
    BY DEF RingInv, TypeOK
  <2>2. TypeOK'
    BY <1>5, <2>1, SuccessorTyped DEF RingInv, TypeOK, DiscardOldest, Race
  <2>3. push'.pc \in {"idle", "discard"} /\ UNCHANGED <<buffer, tail, published>>
    BY <1>5 DEF RingInv, TypeOK, DiscardOldest
  <2> QED
    BY <2>2, <2>3, RingKept
<1>6. CASE \E c \in Consumers : Pop(c) /\ Race
  BY <1>6, RingPop
<1>7. CASE UNCHANGED vars
  <2>1. TypeOK'
    BY <1>7 DEF RingInv, TypeOK, vars
  <2> QED
    BY <1>7, <2>1, RingKept DEF vars
<1> QED
  BY <1>1, <1>2, <1>3, <1>4, <1>5, <1>6, <1>7 DEF Next, ForcePush

LEMMA RingInvariance == Spec => []RingInv
BY RingInit, RingStep, PTL DEF Spec

\* The types of the ring and of the two threads' places in it.
THEOREM TypeCorrect == Spec => []TypeOK
BY RingInvariance, PTL DEF RingInv

\* For every capacity and any number of consumers, whatever they do to m_head, the
\* slots behind the tail hold the newest entries, whole and in order.
THEOREM NewestAreHeld == Spec => []RingHoldsNewest
BY RingInvariance, PTL DEF RingInv

-----------------------------------------------------------------------------
(* The implementation of DropOldest.                                       *)

\* A consumer in a pop found m_head where it is, is alone, and the push in flight
\* cannot tell it that the ring is empty.
Alone(c) ==
    /\ pop[c].at = head
    /\ ~Ambiguous
    /\ \A d \in Consumers : Popping(d) => d = c

\* What it is about to return.
Oldest(c) ==
    /\ pop[c].pc \in {"copy", "compare", "store"} => head # tail
    /\ pop[c].pc \in {"compare", "store"} => pop[c].got = published - Distance + 1

\* The discard goes by the head of the full ring.
Discarding == push.pc = "discard" => push.seen = head /\ head = tail

\* The ring does not promise more entries than there were.
Covered == Held <= published

InStep ==
    /\ Covered
    /\ Discarding
    /\ \A c \in Consumers : Popping(c) => Alone(c) /\ Oldest(c)

Sync == ~raced => InStep

\* How far the tail is ahead of the head.
LEMMA DistanceTyped ==
  ASSUME head \in Slots, tail \in Slots
  PROVE  /\ Distance \in 0 .. Capacity - 1
         /\ Distance = 0 <=> head = tail
         /\ Distance > 0 => Behind(Distance) = head
BY QueueAssumption DEF Slots, Distance, Behind

\* The tail catches up with the head of a full ring and gets ahead of any other.
LEMMA DistancePushed ==
  ASSUME head \in Slots, tail \in Slots, head' = head, tail' = Successor(tail)
  PROVE  IF Distance = Capacity - 1 THEN head' = tail'
                                    ELSE head' # tail' /\ Distance' = Distance + 1
BY QueueAssumption DEF Slots, Distance, Successor

\* The head moves towards the tail.
LEMMA DistancePopped ==
  ASSUME head \in Slots, tail \in Slots, tail' = tail, head' = Successor(head)
  PROVE  Distance' = IF head = tail THEN Capacity - 1 ELSE Distance - 1
BY QueueAssumption DEF Slots, Distance, Successor

LEMMA SyncInit == Init => Sync
<1> SUFFICES ASSUME Init PROVE InStep
  BY DEF Sync
<1>1. Covered /\ Discarding
  BY DEF Init, Covered, Discarding, Held, Ambiguous, Distance
<1>2. \A c \in Consumers : ~Popping(c)
  BY DEF Init, Popping, Idle
<1> QED
  BY <1>1, <1>2 DEF InStep

\* What a step that did not let the sides meet left as it should be.
LEMMA NotRaced ==
  ASSUME Race, ~raced'
  PROVE  /\ ~raced
         /\ Ambiguous' => \A c \in Consumers : ~Popping(c) /\ ~Popping(c)'
         /\ \A c, d \in Consumers : Popping(c)' /\ Popping(d)' => c = d
BY DEF Race, TwoPops

\* The ring seen as the queue: the pushed entries, and how many are gone.
gone == published - Held

\* A step the queue does not take.
Stutter == UNCHANGED <<published, gone, out>>

\* A step that leaves the indices and a push's look at them alone is no step of the queue.
LEMMA IndicesKept ==
  ASSUME UNCHANGED <<head, tail, published, push>>
  PROVE  UNCHANGED <<Ambiguous, Distance, Held, gone>>
BY DEF Ambiguous, Distance, Held, gone

LEMMA SyncBeginWrite ==
  ASSUME RingInv, Sync, BeginWrite, Race, ~raced'
  PROVE  InStep' /\ Stutter
<1>1. InStep
  BY NotRaced DEF Sync
<1>2. UNCHANGED <<head, tail, pop, published, out>> /\ push.pc = "idle" /\ push'.pc = "write"
  BY DEF BeginWrite, RingInv, TypeOK
<1>3. ~Ambiguous /\ ~Ambiguous' /\ UNCHANGED <<Distance, Held, gone>>
  BY <1>2 DEF Ambiguous, Distance, Held, gone
<1>4. Covered' /\ Discarding'
  BY <1>1, <1>2, <1>3 DEF InStep, Covered, Discarding
<1>5. \A c \in Consumers : Popping(c)' => Alone(c)' /\ Oldest(c)'
  BY <1>1, <1>2, <1>3 DEF InStep, Popping, Alone, Oldest
<1> QED
  BY <1>2, <1>3, <1>4, <1>5 DEF InStep, Stutter

LEMMA SyncEndWrite ==
  ASSUME RingInv, Sync, EndWrite, Race, ~raced'
  PROVE  InStep' /\ Stutter
<1>1. InStep
  BY NotRaced DEF Sync
<1>2. UNCHANGED <<head, tail, pop, published, out>> /\ push.pc = "write" /\ push'.pc = "publish"
  BY DEF EndWrite, RingInv, TypeOK
<1>3. ~Ambiguous /\ ~Ambiguous' /\ UNCHANGED <<Distance, Held, gone>>
  BY <1>2 DEF Ambiguous, Distance, Held, gone
<1>4. Covered' /\ Discarding'
  BY <1>1, <1>2, <1>3 DEF InStep, Covered, Discarding
<1>5. \A c \in Consumers : Popping(c)' => Alone(c)' /\ Oldest(c)'
  BY <1>1, <1>2, <1>3 DEF InStep, Popping, Alone, Oldest
<1> QED
  BY <1>2, <1>3, <1>4, <1>5 DEF InStep, Stutter

\* The store of the tail is the push: into a full ring it makes the indices equal,
\* which is allowed only while nobody pops.
LEMMA SyncStoreTail ==
  ASSUME RingInv, Sync, StoreTail, Race, ~raced'
  PROVE  InStep' /\ Promise!Push
<1>1. InStep
  BY NotRaced DEF Sync
<1>2. /\ UNCHANGED <<head, pop, out>> /\ tail' = Successor(tail)
      /\ published' = published + 1 /\ published \in Nat
      /\ push.pc = "publish" /\ push'.pc = "check"
      /\ head \in Slots /\ tail \in Slots
  BY DEF StoreTail, RingInv, TypeOK
<1>3. ~Ambiguous /\ Held = Distance /\ Distance \in 0 .. Capacity - 1
  BY <1>2, DistanceTyped DEF Ambiguous, Held
<1>4. CASE Distance = Capacity - 1
  <2>1. Ambiguous' /\ Held' = Capacity - 1
    BY <1>2, <1>4, DistancePushed DEF Ambiguous, Held
  <2>2. \A c \in Consumers : ~Popping(c)'
    BY <2>1, NotRaced
  <2>3. Covered' /\ Discarding'
    BY <1>1, <1>2, <1>3, <1>4, <2>1 DEF InStep, Covered, Discarding
  <2>4. Promise!Push
    BY <1>2, <1>3, <1>4, <2>1, QueueAssumption DEF Promise!Push, Promise!Held
  <2> QED
    BY <2>2, <2>3, <2>4 DEF InStep
<1>5. CASE Distance # Capacity - 1
  <2>1. head' # tail' /\ Distance' = Distance + 1 /\ ~Ambiguous' /\ Held' = Held + 1
    BY <1>2, <1>3, <1>5, DistancePushed DEF Ambiguous, Held
  <2>2. Covered' /\ Discarding'
    BY <1>1, <1>2, <1>3, <2>1 DEF InStep, Covered, Discarding
  <2>3. ASSUME NEW c \in Consumers, Popping(c)' PROVE Alone(c)' /\ Oldest(c)'
    <3>1. Popping(c) /\ Alone(c) /\ Oldest(c)
      BY <1>1, <1>2, <2>3 DEF InStep, Popping
    <3>2. Alone(c)'
      BY <1>2, <2>1, <3>1 DEF Alone, Popping
    <3>3. published' - Distance' = published - Distance
      BY <1>2, <1>3, <2>1
    <3> QED
      BY <1>2, <2>1, <3>1, <3>2, <3>3 DEF Oldest
  <2>4. Promise!Push
    BY <1>2, <1>3, <1>5, <2>1, QueueAssumption DEF Promise!Push, Promise!Held
  <2> QED
    BY <2>2, <2>3, <2>4 DEF InStep
<1> QED
  BY <1>4, <1>5

\* The look at the head decides whether the push goes on to discard.
LEMMA SyncCheckHead ==
  ASSUME RingInv, Sync, CheckHead, Race, ~raced'
  PROVE  InStep' /\ Stutter
<1>1. InStep
  BY NotRaced DEF Sync
<1>2. UNCHANGED <<head, tail, pop, published, out>> /\ push.pc = "check"
  BY DEF CheckHead
<1>3. push' = IF head = tail THEN [pc |-> "discard", seen |-> head]
                             ELSE [push EXCEPT !.pc = "idle"]
  BY DEF CheckHead
<1>4. (push'.pc = "discard" <=> head = tail) /\ (push'.pc = "discard" => push'.seen = head)
      /\ push'.pc # "check"
  BY <1>3 DEF RingInv, TypeOK
<1>5. UNCHANGED <<Ambiguous, Distance>>
  BY <1>2, <1>4 DEF Ambiguous, Distance
<1>6. UNCHANGED <<Held, gone>>
  BY <1>2, <1>5 DEF Held, gone
<1>7. Covered' /\ Discarding'
  BY <1>1, <1>2, <1>4, <1>6 DEF InStep, Covered, Discarding
<1>8. \A c \in Consumers : Popping(c)' => Alone(c)' /\ Oldest(c)'
  BY <1>1, <1>2, <1>5 DEF InStep, Popping, Alone, Oldest
<1> QED
  BY <1>2, <1>6, <1>7, <1>8 DEF InStep, Stutter

\* The discard moves the head of a full ring that nobody pops.
LEMMA SyncDiscardOldest ==
  ASSUME RingInv, Sync, DiscardOldest, Race, ~raced'
  PROVE  InStep' /\ Stutter
<1>1. InStep
  BY NotRaced DEF Sync
<1>2. /\ UNCHANGED <<tail, pop, published, out>>
      /\ push.pc = "discard" /\ push'.pc = "idle"
      /\ head' = Successor(push.seen)
      /\ head \in Slots /\ tail \in Slots
  BY DEF DiscardOldest, RingInv, TypeOK
<1>3. push.seen = head /\ head = tail /\ Ambiguous
  BY <1>1, <1>2 DEF InStep, Discarding, Ambiguous
<1>4. Distance' = Capacity - 1
  BY <1>2, <1>3, DistancePopped
<1>5. UNCHANGED Held /\ ~Ambiguous'
  BY <1>2, <1>3, <1>4 DEF Held, Ambiguous
<1>6. Covered' /\ Discarding'
  BY <1>1, <1>2, <1>5 DEF InStep, Covered, Discarding
<1>7. \A c \in Consumers : ~Popping(c)
  BY <1>1, <1>3 DEF InStep, Alone
<1>8. \A c \in Consumers : ~Popping(c)'
  BY <1>2, <1>7 DEF Popping
<1> QED
  BY <1>2, <1>5, <1>6, <1>8 DEF InStep, Stutter, gone

\* What a step inside a pop has in common with every other.
LEMMA SyncInsidePop ==
  ASSUME Sync, Race, ~raced', NEW c \in Consumers, Popping(c)',
         UNCHANGED <<head, tail, push, published>>,
         \A d \in Consumers : d # c => pop'[d] = pop[d],
         pop'[c].at = head,
         Oldest(c)'
  PROVE  InStep' /\ UNCHANGED gone
<1>1. InStep /\ ~Ambiguous'
  BY NotRaced DEF Sync
<1>2. UNCHANGED <<Ambiguous, Distance, Held, gone>>
  BY IndicesKept
<1>3. Covered' /\ Discarding'
  BY <1>1, <1>2 DEF InStep, Covered, Discarding
<1>4. \A d \in Consumers : Popping(d)' => d = c
  BY NotRaced
<1>5. Alone(c)'
  BY <1>1, <1>4 DEF Alone
<1> QED
  BY <1>2, <1>3, <1>4, <1>5 DEF InStep

LEMMA SyncLoadHead ==
  ASSUME RingInv, Sync, NEW c \in Consumers, LoadHead(c), Race, ~raced'
  PROVE  InStep' /\ Stutter
<1>1. UNCHANGED <<head, tail, push, published, out>>
      /\ pop' = [pop EXCEPT ![c] = [Idle EXCEPT !.pc = "test", !.at = head]]
  BY DEF LoadHead
<1>2. pop'[c].pc = "test" /\ pop'[c].at = head
  BY <1>1 DEF RingInv, TypeOK, Idle
<1>3. \A d \in Consumers : d # c => pop'[d] = pop[d]
  BY <1>1 DEF RingInv, TypeOK
<1>4. Popping(c)' /\ Oldest(c)'
  BY <1>2 DEF Popping, Oldest
<1> QED
  BY <1>1, <1>2, <1>3, <1>4, SyncInsidePop DEF Stutter

\* The pop of an empty ring is the queue's.
LEMMA SyncFindEmpty ==
  ASSUME RingInv, Sync, NEW c \in Consumers, FindEmpty(c), Race, ~raced'
  PROVE  InStep' /\ Promise!FindEmpty
<1>1. InStep
  BY NotRaced DEF Sync
<1>2. UNCHANGED <<head, tail, push, published>> /\ out' = Nothing
      /\ pop' = [pop EXCEPT ![c] = Idle] /\ pop[c].pc = "test" /\ pop[c].at = tail
      /\ head \in Slots /\ tail \in Slots
  BY DEF FindEmpty, RingInv, TypeOK
<1>3. Popping(c) /\ Alone(c)
  BY <1>1, <1>2 DEF InStep, Popping
<1>4. head = tail /\ Held = 0
  BY <1>2, <1>3, DistanceTyped DEF Alone, Held
<1>5. UNCHANGED <<Ambiguous, Distance, Held, gone>>
  BY <1>2, IndicesKept
<1>6. Covered' /\ Discarding'
  BY <1>1, <1>2, <1>5 DEF InStep, Covered, Discarding
<1>7. \A d \in Consumers : ~Popping(d)'
  BY <1>2, <1>3 DEF RingInv, TypeOK, Popping, Alone, Idle
<1>8. Promise!FindEmpty
  BY <1>2, <1>4, <1>5 DEF Promise!FindEmpty, Promise!Held, gone, RingInv, TypeOK
<1> QED
  BY <1>6, <1>7, <1>8 DEF InStep

LEMMA SyncFindEntry ==
  ASSUME RingInv, Sync, NEW c \in Consumers, FindEntry(c), Race, ~raced'
  PROVE  InStep' /\ Stutter
<1>1. InStep
  BY NotRaced DEF Sync
<1>2. UNCHANGED <<head, tail, push, published, out>>
      /\ pop' = [pop EXCEPT ![c].pc = "copy"] /\ pop[c].pc = "test" /\ pop[c].at # tail
  BY DEF FindEntry
<1>3. Alone(c)
  BY <1>1, <1>2 DEF InStep, Popping
<1>4. pop'[c].pc = "copy" /\ pop'[c].at = head /\ head # tail
  BY <1>2, <1>3 DEF RingInv, TypeOK, Alone
<1>5. \A d \in Consumers : d # c => pop'[d] = pop[d]
  BY <1>2 DEF RingInv, TypeOK
<1>6. Popping(c)' /\ Oldest(c)'
  BY <1>2, <1>4 DEF Popping, Oldest
<1> QED
  BY <1>2, <1>4, <1>5, <1>6, SyncInsidePop DEF Stutter

\* The slot at the head holds the oldest of the entries the ring promises.
LEMMA HeadHoldsOldest ==
  ASSUME RingInv, InStep, ~Ambiguous, head # tail
  PROVE  buffer[head] = published - Distance + 1
<1>1. head \in Slots /\ tail \in Slots /\ published \in Nat
  BY DEF RingInv, TypeOK
<1>2. Distance \in 1 .. Capacity - 1 /\ Behind(Distance) = head
  BY <1>1, DistanceTyped
<1>3. Distance <= published
  BY DEF InStep, Covered, Held
<1> QED
  BY <1>2, <1>3 DEF RingInv, RingHoldsNewest

LEMMA SyncBeginCopy ==
  ASSUME RingInv, Sync, NEW c \in Consumers, BeginCopy(c), Race, ~raced'
  PROVE  InStep' /\ Stutter
<1>1. InStep
  BY NotRaced DEF Sync
<1>2. UNCHANGED <<head, tail, push, published, out>> /\ pop[c].pc = "copy"
      /\ pop' = [pop EXCEPT ![c].pc = "compare", ![c].got = buffer[pop[c].at]]
  BY DEF BeginCopy
<1>3. Alone(c) /\ head # tail
  BY <1>1, <1>2 DEF InStep, Popping, Oldest
<1>4. buffer[head] = published - Distance + 1
  BY <1>1, <1>3, HeadHoldsOldest DEF Alone
<1>5. pop'[c].pc = "compare" /\ pop'[c].at = head /\ pop'[c].got = buffer[head]
  BY <1>2, <1>3 DEF RingInv, TypeOK, Alone
<1>6. \A d \in Consumers : d # c => pop'[d] = pop[d]
  BY <1>2 DEF RingInv, TypeOK
<1>7. UNCHANGED Distance
  BY <1>2, IndicesKept
<1>8. Popping(c)' /\ Oldest(c)'
  BY <1>2, <1>3, <1>4, <1>5, <1>7 DEF Popping, Oldest
<1> QED
  BY <1>2, <1>5, <1>6, <1>8, SyncInsidePop DEF Stutter

LEMMA SyncEndCopy ==
  ASSUME RingInv, Sync, NEW c \in Consumers, EndCopy(c), Race, ~raced'
  PROVE  InStep' /\ Stutter
<1>1. InStep
  BY NotRaced DEF Sync
<1>2. UNCHANGED <<head, tail, push, published, out>> /\ pop[c].pc = "compare"
      /\ pop' = [pop EXCEPT ![c].pc = "store",
                            ![c].got = IF buffer[pop[c].at] = @ THEN @ ELSE Torn]
  BY DEF EndCopy
<1>3. Alone(c) /\ head # tail /\ pop[c].got = published - Distance + 1
  BY <1>1, <1>2 DEF InStep, Popping, Oldest
<1>4. buffer[pop[c].at] = pop[c].got
  BY <1>1, <1>3, HeadHoldsOldest DEF Alone
<1>5. pop'[c].pc = "store" /\ pop'[c].at = head /\ pop'[c].got = pop[c].got
  BY <1>2, <1>3, <1>4 DEF RingInv, TypeOK, Alone
<1>6. \A d \in Consumers : d # c => pop'[d] = pop[d]
  BY <1>2 DEF RingInv, TypeOK
<1>7. UNCHANGED Distance
  BY <1>2, IndicesKept
<1>8. Popping(c)' /\ Oldest(c)'
  BY <1>2, <1>3, <1>5, <1>7 DEF Popping, Oldest
<1> QED
  BY <1>2, <1>5, <1>6, <1>8, SyncInsidePop DEF Stutter

\* The store of the head is the pop.
LEMMA SyncStoreHead ==
  ASSUME RingInv, Sync, NEW c \in Consumers, StoreHead(c), Race, ~raced'
  PROVE  InStep' /\ Promise!Pop
<1>1. InStep
  BY NotRaced DEF Sync
<1>2. UNCHANGED <<tail, push, published>> /\ pop[c].pc = "store"
      /\ head' = Successor(pop[c].at) /\ out' = pop[c].got /\ pop' = [pop EXCEPT ![c] = Idle]
      /\ head \in Slots /\ tail \in Slots /\ published \in Nat
  BY DEF StoreHead, RingInv, TypeOK
<1>3. Popping(c) /\ Alone(c) /\ head # tail /\ pop[c].got = published - Distance + 1
  BY <1>1, <1>2 DEF InStep, Popping, Oldest
<1>4. Distance \in 1 .. Capacity - 1 /\ Distance' = Distance - 1
  BY <1>2, <1>3, DistanceTyped, DistancePopped DEF Alone
<1>5. ~Ambiguous /\ ~Ambiguous'
  BY <1>3, NotRaced DEF Alone
<1>6. Held = Distance /\ Held' = Held - 1
  BY <1>4, <1>5 DEF Held
<1>7. push.pc # "discard"
  BY <1>1, <1>5 DEF InStep, Discarding, Ambiguous
<1>8. Covered' /\ Discarding'
  BY <1>1, <1>2, <1>4, <1>6, <1>7 DEF InStep, Covered, Discarding
<1>9. \A d \in Consumers : ~Popping(d)'
  BY <1>2, <1>3 DEF RingInv, TypeOK, Popping, Alone, Idle
<1>10. Promise!Pop
  BY <1>2, <1>3, <1>4, <1>6 DEF Promise!Pop, Promise!Held
<1> QED
  BY <1>8, <1>9, <1>10 DEF InStep

LEMMA SyncStep ==
  ASSUME RingInv, Sync, [Next]_vars
  PROVE  Sync' /\ (raced' \/ Promise!Next \/ Stutter)
<1> SUFFICES ASSUME ~raced'
             PROVE  InStep' /\ (Promise!Next \/ Stutter)
  BY DEF Sync
<1>1. CASE (BeginWrite \/ EndWrite \/ CheckHead \/ DiscardOldest) /\ Race
  BY <1>1, SyncBeginWrite, SyncEndWrite, SyncCheckHead, SyncDiscardOldest
<1>2. CASE StoreTail /\ Race
  BY <1>2, SyncStoreTail DEF Promise!Next
<1>3. CASE \E c \in Consumers : Pop(c) /\ Race
  <2> PICK c \in Consumers : Pop(c) /\ Race
    BY <1>3
  <2>1. CASE LoadHead(c) \/ FindEntry(c) \/ BeginCopy(c) \/ EndCopy(c)
    BY <2>1, SyncLoadHead, SyncFindEntry, SyncBeginCopy, SyncEndCopy
  <2>2. CASE FindEmpty(c)
    BY <2>2, SyncFindEmpty DEF Promise!Next
  <2>3. CASE StoreHead(c)
    BY <2>3, SyncStoreHead DEF Promise!Next
  <2> QED
    BY <2>1, <2>2, <2>3 DEF Pop
<1>4. CASE UNCHANGED vars
  <2>1. UNCHANGED <<head, tail, published, push, pop, out, raced>>
    BY <1>4 DEF vars
  <2>2. UNCHANGED <<Ambiguous, Distance, Held, gone>>
    BY <2>1, IndicesKept
  <2>3. InStep
    BY <2>1 DEF Sync
  <2>4. Covered' /\ Discarding'
    BY <2>1, <2>2, <2>3 DEF InStep, Covered, Discarding
  <2>5. \A c \in Consumers : Popping(c)' => Alone(c)' /\ Oldest(c)'
    BY <2>1, <2>2, <2>3 DEF InStep, Popping, Alone, Oldest
  <2> QED
    BY <2>1, <2>2, <2>4, <2>5 DEF InStep, Stutter
<1> QED
  BY <1>1, <1>2, <1>3, <1>4 DEF Next, ForcePush

\* For every capacity and any number of consumers, the ring implements the atomic
\* drop-oldest queue as long as the sides have not met on m_head.
THEOREM Implements == Spec => ImplementsDropOldest
<1>1. Init => Promise!Init
  BY DEF Init, Promise!Init, Held, Ambiguous, Distance
<1>2. ASSUME RingInv, Sync, [Next]_vars
      PROVE  Sync' /\ [raced' \/ Promise!Next]_(Promise!vars)
  BY <1>2, SyncStep DEF Stutter, Promise!vars, gone
<1> QED
  BY <1>1, <1>2, SyncInit, RingInvariance, PTL DEF Spec, ImplementsDropOldest

-----------------------------------------------------------------------------
(* The path of a frame: the outgoing queue.                                *)

\* A place whose frame waits, as m_head and m_tail say.
Waits(p) == IF front <= back THEN front <= p /\ p < back ELSE front <= p \/ p < back

\* A place that was written; once the ring has come round all are.
Wrapped == \A p \in Places : ring[p] \in Frame
Reached(p) == Wrapped \/ p < back

\* Whatever m_head is put back to, it and every copy of it that a thread holds are at
\* places that were written, and a ring comes to be full only after coming round.
RingFilled ==
    /\ \A p \in Places : p < back => ring[p] \in Frame
    /\ Wrapped \/ front <= back
    /\ clearing # NoPlace => Reached(clearing)
    /\ sender.pc = "store" => Reached(sender.at)
    /\ full # NoPlace => Wrapped

\* While a push of a full ring is under way every place holds a frame that waits.
Current(p) == (full # NoPlace \/ Waits(p)) => ring[p].stay = stay

FreshRing == \A p \in Places : Current(p)

LEMMA NextTyped == \A p \in Places : NextPlace(p) \in Places
  BY VoiceAssumption DEF Places, NextPlace

\* The front of a ring that is not empty waits, and was written.
LEMMA FrontWaits ==
  ASSUME SpeakerTyped, RingFilled, ~Empty
  PROVE  front \in Places /\ Waits(front) /\ Reached(front) /\ ring[front] \in Frame
<1>1. front \in Places /\ back \in Places /\ front # back
  BY DEF SpeakerTyped, Empty
<1>2. front \in Nat /\ back \in Nat
  BY <1>1, VoiceAssumption DEF Places
<1>3. Waits(front)
  BY <1>1, <1>2 DEF Waits
<1>4. Reached(front)
  BY <1>1, <1>2 DEF RingFilled, Reached
<1>5. ring[front] \in Frame
  BY <1>1, <1>4 DEF RingFilled, Reached, Wrapped
<1>6. QED
  BY <1>1, <1>3, <1>4, <1>5

\* Storing m_head keeps it at a place that was written ...
LEMMA StoreKeepsFilled ==
  ASSUME SpeakerTyped, RingFilled, NEW loaded \in Places, Reached(loaded),
         StoreFront(loaded), ring' = ring, back' = back, full' \in {full, NoPlace},
         clearing' \in {clearing, NoPlace},
         sender'.pc = "store" => sender.pc = "store" /\ sender'.at = sender.at
  PROVE  front' \in Places /\ putBack' \in BOOLEAN /\ RingFilled'
<1>1. front' = NextPlace(loaded)
  BY DEF StoreFront
<1>2. front' \in Places
  BY <1>1, NextTyped
<1>3. putBack' \in BOOLEAN
  BY DEF StoreFront, SpeakerTyped
<1>4. Wrapped' = Wrapped /\ \A p : Reached(p)' = Reached(p)
  BY DEF Wrapped, Reached
<1>5. Wrapped \/ front' <= back'
  <2> SUFFICES ASSUME ~Wrapped PROVE front' <= back'
    OBVIOUS
  <2>1. loaded < back /\ back \in Places
    BY DEF Reached, SpeakerTyped
  <2>2. QED
    BY <1>1, <2>1, VoiceAssumption DEF NextPlace, Places
<1>6. QED
  BY <1>2, <1>3, <1>4, <1>5 DEF RingFilled

\* ... and, unless it puts m_head back, makes nothing wait that did not.
LEMMA StoreKeepsFresh ==
  ASSUME SpeakerTyped, NEW loaded \in Places, FreshRing,
         StoreFront(loaded), ~putBack', ring' = ring, back' = back, stay' = stay,
         full' \in {full, NoPlace}
  PROVE  FreshRing'
<1> SUFFICES ASSUME NEW p \in Places, full' # NoPlace \/ Waits(p)'
             PROVE  ring[p].stay = stay
  BY DEF FreshRing, Current
<1>1. CASE full # NoPlace
  BY <1>1 DEF FreshRing, Current
<1>2. CASE full = NoPlace
  <2>1. Waits(p)'
    BY <1>2
  <2>2. \/ front = NextPlace(loaded)
        \/ front = loaded /\ ~Empty
    BY <1>2 DEF StoreFront
  <2>3. front' = NextPlace(loaded)
    BY DEF StoreFront
  <2>4. Waits(p)
    <3>1. CASE front = NextPlace(loaded)
      BY <2>1, <2>3, <3>1 DEF Waits
    <3>2. CASE front = loaded /\ ~Empty
      <4>1. front \in Places /\ back \in Places /\ front # back
        BY <3>2 DEF SpeakerTyped, Empty
      <4>2. front' = NextPlace(front)
        BY <2>3, <3>2
      <4>3. IF front' <= back THEN front' <= p /\ p < back ELSE front' <= p \/ p < back
        BY <2>1 DEF Waits
      <4>4. IF front <= back THEN front <= p /\ p < back ELSE front <= p \/ p < back
        BY <4>1, <4>2, <4>3, VoiceAssumption DEF NextPlace, Places
      <4>5. QED
        BY <4>4 DEF Waits
    <3>3. QED
      BY <2>2, <3>1, <3>2
  <2>5. QED
    BY <2>4 DEF FreshRing, Current
<1>3. QED
  BY <1>1, <1>2

-----------------------------------------------------------------------------
(* Its speaker.                                                            *)

\* The stream runs from the reset of a join to the beginning of a leave.
Phased ==
    /\ clearing # NoPlace => control = "clearing"
    /\ stream => \/ control = "idle" /\ joined
                 \/ control = "changing" /\ ~joined
    /\ full # NoPlace => stream
    /\ stream => stay > 0
    /\ control = "clearing" /\ ~joined => stay < MaxStays

\* The outgoing thread can hold one frame of an earlier stay.
Holds == sender.pc \in {"store", "load", "send"}
HoldsOld == Holds /\ sender.frame.stay < stay

FewLeak == leaked + (IF HoldsOld THEN 1 ELSE 0) <= 1

SpeakerInv ==
    /\ SpeakerTyped
    /\ Phased
    /\ RingFilled
    /\ Holds => sender.frame \in Frame
    /\ ~putBack => FreshRing /\ FewLeak

\* Nothing about the queue and the outgoing thread changes.
LEMMA QueueSame ==
  ASSUME SpeakerInv, UNCHANGED <<ring, front, back, full, putBack, clearing, sender, stay, leaked>>
  PROVE  /\ RingFilled'
         /\ Holds' => sender'.frame \in Frame
         /\ ~putBack' => FreshRing' /\ FewLeak'
<1>1. RingFilled' = RingFilled
  BY DEF RingFilled, Reached, Wrapped
<1>2. FreshRing' = FreshRing
  BY DEF FreshRing, Current, Waits
<1>3. FewLeak' = FewLeak /\ Holds' = Holds
  BY DEF FewLeak, HoldsOld, Holds
<1>4. QED
  BY <1>1, <1>2, <1>3 DEF SpeakerInv

\* The control thread between two resets.
LEMMA ControlKeeps ==
  ASSUME SpeakerInv, BeginJoin \/ BeginLeave \/ StoreChannel \/ StoreMute \/ SignOutOrIn
  PROVE  SpeakerInv'
<1>1. UNCHANGED <<ring, front, back, full, putBack, clearing, sender, stay, leaked, counter, net>>
  BY DEF BeginJoin, BeginLeave, StoreChannel, StoreMute, SignOutOrIn, queueVars, senderVars
<1>2. SpeakerTyped'
  <2>1. SpeakerTyped
    BY DEF SpeakerInv
  <2>2. /\ signedIn' \in BOOLEAN /\ control' \in {"idle", "clearing", "changing"}
        /\ joined' \in BOOLEAN /\ muted' \in BOOLEAN /\ stream' \in BOOLEAN
    BY <2>1 DEF SpeakerTyped, BeginJoin, BeginLeave, StoreChannel, StoreMute, SignOutOrIn
  <2>3. toggles' \in 0 .. MaxToggles
    BY <2>1, VoiceAssumption
    DEF SpeakerTyped, BeginJoin, BeginLeave, StoreChannel, StoreMute, SignOutOrIn
  <2>4. QED
    BY <1>1, <2>1, <2>2, <2>3 DEF SpeakerTyped
<1>3. Phased'
  <2>1. Phased /\ stay \in Nat
    BY VoiceAssumption DEF SpeakerInv, SpeakerTyped
  <2>2. CASE BeginJoin
    BY <1>1, <2>1, <2>2 DEF Phased, BeginJoin
  <2>3. CASE BeginLeave
    BY <1>1, <2>1, <2>3 DEF Phased, BeginLeave
  <2>4. CASE StoreChannel
    <3>1. joined \in BOOLEAN /\ joined' = ~joined /\ control' = "idle" /\ control = "changing"
          /\ stream' = stream
      BY <2>4 DEF StoreChannel, SpeakerInv, SpeakerTyped
    <3>2. QED
      BY <1>1, <2>1, <3>1 DEF Phased
  <2>5. CASE StoreMute \/ SignOutOrIn
    <3>1. UNCHANGED <<control, joined, stream>>
      BY <2>5 DEF StoreMute, SignOutOrIn
    <3>2. QED
      BY <1>1, <2>1, <3>1 DEF Phased
  <2>6. QED
    BY <2>2, <2>3, <2>4, <2>5
<1>4. QED
  BY <1>1, <1>2, <1>3, QueueSame DEF SpeakerInv

\* resetBuffers pops ...
LEMMA ResetPopsKeeps == SpeakerInv /\ ResetPops => SpeakerInv'
<1> SUFFICES ASSUME SpeakerInv, ResetPops PROVE SpeakerInv'
  OBVIOUS
<1>1. /\ UNCHANGED <<signedIn, control, joined, muted, toggles, stay, stream, counter, ring,
                     front, back, full, putBack, sender, leaked, net>>
      /\ control = "clearing" /\ clearing' = front
  BY DEF ResetPops, queueVars, senderVars
<1>2. front \in Places /\ Reached(front)
  BY FrontWaits DEF ResetPops, SpeakerInv
<1>3. SpeakerTyped'
  BY <1>1, <1>2 DEF SpeakerInv, SpeakerTyped
<1>4. Phased'
  BY <1>1 DEF SpeakerInv, Phased
<1>5. RingFilled'
  BY <1>1, <1>2 DEF SpeakerInv, RingFilled, Reached, Wrapped
<1>6. FreshRing' = FreshRing /\ FewLeak' = FewLeak /\ Holds' = Holds
  BY <1>1 DEF FreshRing, Current, Waits, FewLeak, HoldsOld, Holds
<1>7. QED
  BY <1>1, <1>3, <1>4, <1>5, <1>6 DEF SpeakerInv

LEMMA ResetStoresKeeps == SpeakerInv /\ ResetStores => SpeakerInv'
<1> SUFFICES ASSUME SpeakerInv, ResetStores PROVE SpeakerInv'
  OBVIOUS
<1>1. /\ UNCHANGED <<signedIn, control, joined, muted, toggles, stay, stream, counter, ring,
                     back, full, sender, leaked, net>>
      /\ clearing # NoPlace /\ clearing' = NoPlace /\ StoreFront(clearing)
  BY DEF ResetStores, senderVars
<1>2. clearing \in Places /\ Reached(clearing)
  BY <1>1 DEF SpeakerInv, SpeakerTyped, RingFilled
<1>3. front' \in Places /\ putBack' \in BOOLEAN /\ RingFilled'
  BY <1>1, <1>2, StoreKeepsFilled DEF SpeakerInv
<1>4. SpeakerTyped'
  BY <1>1, <1>3 DEF SpeakerInv, SpeakerTyped
<1>5. Phased'
  BY <1>1 DEF SpeakerInv, Phased
<1>6. FewLeak' = FewLeak /\ Holds' = Holds /\ (~putBack' => ~putBack)
  BY <1>1 DEF FewLeak, HoldsOld, Holds, StoreFront
<1>7. ~putBack' => FreshRing'
  BY <1>1, <1>2, <1>6, StoreKeepsFresh DEF SpeakerInv
<1>8. QED
  BY <1>1, <1>3, <1>4, <1>5, <1>6, <1>7 DEF SpeakerInv

\* ... until nothing waits: a join makes a frame that is held an old one, but counts anew.
LEMMA ResetEndsKeeps == SpeakerInv /\ ResetEnds => SpeakerInv'
<1> SUFFICES ASSUME SpeakerInv, ResetEnds PROVE SpeakerInv'
  OBVIOUS
<1>1. /\ UNCHANGED <<signedIn, clearing, joined, muted, toggles, ring, front, back, full,
                     putBack, sender, net>>
      /\ control = "clearing" /\ clearing = NoPlace /\ Empty
      /\ control' = "changing" /\ counter' = 1
      /\ IF joined THEN UNCHANGED <<stay, stream, leaked>>
                   ELSE stay' = stay + 1 /\ stream' = TRUE /\ leaked' = 0
  BY DEF ResetEnds, Restarted, queueVars
<1>2. front = back /\ front \in Places /\ full = NoPlace
  BY <1>1 DEF SpeakerInv, SpeakerTyped, Phased, Empty
<1>3. CASE joined
  <2>1. SpeakerTyped'
    BY <1>1, <1>3, VoiceAssumption DEF SpeakerInv, SpeakerTyped
  <2>2. Phased'
    BY <1>1, <1>3 DEF SpeakerInv, Phased
  <2>3. QED
    BY <1>1, <1>3, <2>1, <2>2, QueueSame DEF SpeakerInv
<1>4. CASE ~joined
  <2>1. stay' \in 1 .. MaxStays /\ stay \in Nat /\ stay' = stay + 1
    BY <1>1, <1>4, VoiceAssumption DEF SpeakerInv, SpeakerTyped, Phased
  <2>2. SpeakerTyped'
    BY <1>1, <1>4, <2>1, VoiceAssumption DEF SpeakerInv, SpeakerTyped
  <2>3. Phased'
    BY <1>1, <1>2, <1>4, <2>1 DEF SpeakerInv, Phased
  <2>4. RingFilled'
    BY <1>1 DEF SpeakerInv, RingFilled, Reached, Wrapped
  <2>5. FreshRing'
    <3>1. \A p \in Places : ~Waits(p)'
      BY <1>1, <1>2, VoiceAssumption DEF Waits, Places
    <3>2. QED
      BY <1>1, <1>2, <3>1 DEF FreshRing, Current
  <2>6. FewLeak' /\ Holds' = Holds
    BY <1>1, <1>4 DEF FewLeak, Holds
  <2>7. QED
    BY <1>1, <2>2, <2>3, <2>4, <2>5, <2>6 DEF SpeakerInv
<1>5. QED
  BY <1>3, <1>4

LEMMA NotifiedSender ==
  ASSUME sender \in Senders
  PROVE  /\ Notified \in Senders /\ Notified.frame = sender.frame /\ Notified.at = sender.at
         /\ Notified.pc = sender.pc \/ (sender.pc = "waiting" /\ Notified.pc = "woken")
<1>1. CASE sender.pc = "waiting"
  <2>1. Notified = [pc |-> "woken", at |-> sender.at, to |-> sender.to, frame |-> sender.frame,
                    live |-> sender.live]
    BY <1>1 DEF Notified, Senders
  <2>2. QED
    BY <1>1, <2>1 DEF Senders
<1>2. CASE sender.pc # "waiting"
  BY <1>2 DEF Notified
<1>3. QED
  BY <1>1, <1>2

\* A frame that is recorded is of this stay, and so are all when the ring is full.
LEMMA RecordKeeps == SpeakerInv /\ Record => SpeakerInv'
<1> SUFFICES ASSUME SpeakerInv, Record PROVE SpeakerInv'
  OBVIOUS
<1> DEFINE frame == [stay |-> stay, seq |-> counter]
<1>1. SpeakerTyped /\ Phased /\ RingFilled
  BY DEF SpeakerInv
<1>2. /\ UNCHANGED <<signedIn, control, clearing, joined, muted, toggles, stay, stream, front,
                     putBack, leaked, net>>
      /\ stream /\ full = NoPlace /\ counter <= MaxFrames /\ counter' = counter + 1
  BY DEF Record
<1>3. frame \in Frame /\ frame.stay = stay
  BY <1>1, <1>2, VoiceAssumption DEF SpeakerTyped, Phased, Frame
<1>4. counter' \in 1 .. MaxFrames + 1
  BY <1>1, <1>2, VoiceAssumption DEF SpeakerTyped
<1>5. front \in Places /\ back \in Places /\ NextPlace(back) \in Places
  BY <1>1, NextTyped DEF SpeakerTyped
<1>6. /\ Notified \in Senders /\ Notified.frame = sender.frame /\ Notified.at = sender.at
      /\ Notified.pc = sender.pc \/ (sender.pc = "waiting" /\ Notified.pc = "woken")
  BY <1>1, NotifiedSender DEF SpeakerTyped
<1>7. CASE UNCHANGED <<ring, back, full, sender>>
  <2>1. SpeakerTyped'
    BY <1>1, <1>2, <1>4, <1>7 DEF SpeakerTyped
  <2>2. Phased'
    BY <1>1, <1>2, <1>7 DEF Phased
  <2>3. QED
    BY <1>2, <1>7, <2>1, <2>2, QueueSame DEF SpeakerInv
<1>8. CASE /\ ring' = [ring EXCEPT ![back] = frame] /\ back' = NextPlace(back)
           /\ IF NextPlace(back) = front THEN full' = front /\ UNCHANGED sender
                                         ELSE sender' = Notified /\ UNCHANGED full
  <2>1. /\ sender' \in Senders /\ sender'.frame = sender.frame /\ sender'.at = sender.at
        /\ sender'.pc = sender.pc \/ (sender.pc = "waiting" /\ sender'.pc = "woken")
    BY <1>1, <1>6, <1>8 DEF SpeakerTyped
  <2>2. /\ ring' \in [Places -> Frame \cup {NoFrame}] /\ back' \in Places
        /\ full' \in Places \cup {NoPlace}
        /\ \A p \in Places : ring'[p] = IF p = back THEN frame ELSE ring[p]
    BY <1>1, <1>2, <1>3, <1>5, <1>8 DEF SpeakerTyped
  <2>3. SpeakerTyped'
    BY <1>1, <1>2, <1>4, <2>1, <2>2 DEF SpeakerTyped
  <2>4. Phased'
    BY <1>1, <1>2 DEF Phased
  <2>5. RingFilled'
    <3>1. Wrapped => Wrapped'
      BY <1>3, <2>2 DEF Wrapped
    <3>2. ~Wrapped' => back < QueueSize /\ back' = back + 1
      <4>1. CASE back = QueueSize
        <5>1. \A p \in Places : p # back => ring[p] \in Frame
          BY <1>1, <4>1, VoiceAssumption DEF RingFilled, Places
        <5>2. QED
          BY <1>3, <2>2, <5>1 DEF Wrapped
      <4>2. CASE back # QueueSize
        BY <1>5, <1>8, <4>2, VoiceAssumption DEF Places, NextPlace
      <4>3. QED
        BY <4>1, <4>2
    <3>3. \A p \in Places : Reached(p) => Wrapped' \/ p < back'
      BY <1>5, <3>1, <3>2, VoiceAssumption DEF Reached, Places
    <3>4. \A p \in Places : p < back' => ring'[p] \in Frame
      <4>1. CASE Wrapped'
        BY <4>1 DEF Wrapped
      <4>2. CASE ~Wrapped'
        BY <1>1, <1>3, <1>5, <2>2, <3>2, <4>2, VoiceAssumption DEF RingFilled, Places
      <4>3. QED
        BY <4>1, <4>2
    <3>5. Wrapped' \/ front' <= back'
      BY <1>1, <1>2, <1>5, <3>1, <3>2, VoiceAssumption DEF RingFilled, Places
    <3>6. full' # NoPlace => Wrapped'
      <4>1. CASE NextPlace(back) # front
        BY <1>2, <1>8, <4>1
      <4>2. CASE NextPlace(back) = front
        BY <1>1, <1>5, <3>1, <3>2, <4>2, VoiceAssumption DEF RingFilled, Places, NextPlace
      <4>3. QED
        BY <4>1, <4>2
    <3>7. clearing' # NoPlace => Wrapped' \/ clearing' < back'
      <4>1. clearing # NoPlace => clearing \in Places /\ Reached(clearing)
        BY <1>1 DEF SpeakerTyped, RingFilled
      <4>2. QED
        BY <1>2, <3>3, <4>1
    <3>8. sender'.pc = "store" => Wrapped' \/ sender'.at < back'
      <4>1. sender.pc = "store" => sender.at \in Places /\ Reached(sender.at)
        BY <1>1 DEF SpeakerTyped, Senders, RingFilled
      <4>2. QED
        BY <2>1, <3>3, <4>1
    <3>9. QED
      BY <3>4, <3>5, <3>6, <3>7, <3>8 DEF RingFilled, Reached
  <2>6. ~putBack' => FreshRing'
    <3> SUFFICES ASSUME ~putBack, NEW p \in Places, full' # NoPlace \/ Waits(p)'
                 PROVE  ring'[p].stay = stay
      BY <1>2 DEF FreshRing, Current
    <3>1. CASE p = back
      BY <1>3, <2>2, <3>1
    <3>2. CASE p # back
      <4>1. Waits(p)
        BY <1>2, <1>5, <1>8, <3>2, VoiceAssumption DEF Waits, NextPlace, Places
      <4>2. QED
        BY <2>2, <3>2, <4>1 DEF SpeakerInv, FreshRing, Current
    <3>3. QED
      BY <3>1, <3>2
  <2>7. Holds' = Holds /\ HoldsOld' = HoldsOld /\ FewLeak' = FewLeak
    BY <1>2, <2>1 DEF Holds, HoldsOld, FewLeak
  <2>8. QED
    BY <1>2, <2>1, <2>3, <2>4, <2>5, <2>6, <2>7 DEF SpeakerInv
<1>9. QED
  BY <1>7, <1>8 DEF Record

LEMMA DiscardKeeps == SpeakerInv /\ DiscardOldestFrame => SpeakerInv'
<1> SUFFICES ASSUME SpeakerInv, DiscardOldestFrame PROVE SpeakerInv'
  OBVIOUS
<1>1. /\ UNCHANGED <<signedIn, control, clearing, joined, muted, toggles, stay, stream,
                     counter, ring, back, leaked, net>>
      /\ full # NoPlace /\ full' = NoPlace /\ StoreFront(full) /\ sender' = Notified
  BY DEF DiscardOldestFrame, speakerVars
<1>2. full \in Places /\ Reached(full)
  BY <1>1 DEF SpeakerInv, SpeakerTyped, RingFilled, Reached
<1>3. /\ sender' \in Senders /\ sender'.frame = sender.frame /\ sender'.at = sender.at
      /\ sender'.pc = sender.pc \/ (sender.pc = "waiting" /\ sender'.pc = "woken")
  BY <1>1, NotifiedSender DEF SpeakerInv, SpeakerTyped
<1>4. front' \in Places /\ putBack' \in BOOLEAN /\ RingFilled'
  BY <1>1, <1>2, <1>3, StoreKeepsFilled DEF SpeakerInv
<1>5. SpeakerTyped'
  BY <1>1, <1>3, <1>4 DEF SpeakerInv, SpeakerTyped
<1>6. Phased'
  BY <1>1 DEF SpeakerInv, Phased
<1>7. FewLeak' = FewLeak /\ Holds' = Holds /\ (~putBack' => ~putBack)
  BY <1>1, <1>3 DEF FewLeak, HoldsOld, Holds, StoreFront
<1>8. ~putBack' => FreshRing'
  BY <1>1, <1>2, <1>7, StoreKeepsFresh DEF SpeakerInv
<1>9. QED
  BY <1>1, <1>3, <1>4, <1>5, <1>6, <1>7, <1>8 DEF SpeakerInv

\* The outgoing thread pops a frame of this stay; what it held before is gone.
LEMMA PopKeeps ==
  ASSUME NEW pc, NEW found \in {"load", "send", "poll"}, NEW empty \in {"drowsy", "poll"},
         SpeakerInv, PopAt(pc, found, empty)
  PROVE  SpeakerInv'
<1>1. /\ UNCHANGED <<signedIn, control, clearing, joined, muted, toggles, stay, stream, counter,
                     ring, front, back, full, putBack, leaked, net>>
      /\ sender' = IF Empty THEN [Resting EXCEPT !.pc = empty]
                   ELSE [sender EXCEPT !.pc = "store", !.at = front, !.to = found,
                                       !.frame = ring[front]]
  BY DEF PopAt, speakerVars, queueVars
<1>2. SpeakerTyped /\ RingFilled /\ Phased
  BY DEF SpeakerInv
<1>3. /\ sender' \in Senders
      /\ IF Empty THEN sender'.pc = empty
         ELSE /\ front \in Places /\ Waits(front) /\ Reached(front) /\ ring[front] \in Frame
              /\ sender'.pc = "store" /\ sender'.at = front /\ sender'.frame = ring[front]
  <2>1. CASE Empty
    <3>1. sender' = [pc |-> empty, at |-> 0, to |-> "poll", frame |-> NoFrame, live |-> FALSE]
      BY <1>1, <2>1 DEF Resting
    <3>2. 0 \in Places
      BY VoiceAssumption DEF Places
    <3>3. QED
      BY <2>1, <3>1, <3>2 DEF Senders
  <2>2. CASE ~Empty
    <3>1. front \in Places /\ Waits(front) /\ Reached(front) /\ ring[front] \in Frame
      BY <1>2, <2>2, FrontWaits
    <3>2. sender \in Senders
      BY <1>2 DEF SpeakerTyped
    <3>3. sender' = [pc |-> "store", at |-> front, to |-> found, frame |-> ring[front],
                     live |-> sender.live]
      BY <1>1, <2>2, <3>2 DEF Senders
    <3>4. QED
      BY <2>2, <3>1, <3>2, <3>3 DEF Senders
  <2>3. QED
    BY <2>1, <2>2
<1>4. SpeakerTyped'
  BY <1>1, <1>2, <1>3 DEF SpeakerTyped
<1>5. Phased'
  BY <1>1, <1>2 DEF Phased
<1>6. RingFilled'
  BY <1>1, <1>2, <1>3 DEF RingFilled, Reached, Wrapped
<1>7. Holds' => sender'.frame \in Frame
  BY <1>3 DEF Holds
<1>8. ~putBack' => FreshRing' /\ FewLeak'
  <2> SUFFICES ASSUME ~putBack PROVE FreshRing' /\ FewLeak'
    BY <1>1
  <2>1. FreshRing /\ FewLeak
    BY DEF SpeakerInv
  <2>2. FreshRing'
    BY <1>1, <2>1 DEF FreshRing, Current, Waits
  <2>3. leaked \in Nat /\ leaked <= 1 /\ stay \in Nat
    BY <1>2, <2>1 DEF SpeakerTyped, FewLeak
  <2>4. ~HoldsOld'
    BY <1>1, <1>3, <2>1, <2>3 DEF HoldsOld, Holds, FreshRing, Current
  <2>5. QED
    BY <1>1, <2>2, <2>3, <2>4 DEF FewLeak
<1>9. QED
  BY <1>4, <1>5, <1>6, <1>7, <1>8 DEF SpeakerInv

LEMMA PopEndsKeeps == SpeakerInv /\ PopEnds => SpeakerInv'
<1> SUFFICES ASSUME SpeakerInv, PopEnds PROVE SpeakerInv'
  OBVIOUS
<1>1. /\ UNCHANGED <<signedIn, control, clearing, joined, muted, toggles, stay, stream,
                     counter, ring, back, full, leaked, net>>
      /\ sender.pc = "store" /\ StoreFront(sender.at)
      /\ sender' = IF sender.to = "poll" THEN Resting
                   ELSE [sender EXCEPT !.pc = sender.to, !.at = 0, !.to = "poll"]
  BY DEF PopEnds, speakerVars
<1>2. sender \in Senders /\ sender.at \in Places /\ Reached(sender.at) /\ sender.frame \in Frame
  BY <1>1 DEF SpeakerInv, SpeakerTyped, Senders, RingFilled, Holds
<1>3. /\ sender' \in Senders /\ sender'.pc # "store"
      /\ sender'.pc # "poll" => sender'.frame = sender.frame
  <2>1. 0 \in Places
    BY VoiceAssumption DEF Places
  <2>2. CASE sender.to = "poll"
    BY <1>1, <2>1, <2>2 DEF Resting, Senders
  <2>3. CASE sender.to # "poll"
    <3>1. sender' = [pc |-> sender.to, at |-> 0, to |-> "poll", frame |-> sender.frame,
                     live |-> sender.live]
      BY <1>1, <1>2, <2>3 DEF Senders
    <3>2. QED
      BY <1>2, <2>1, <2>3, <3>1 DEF Senders
  <2>4. QED
    BY <2>2, <2>3
<1>4. front' \in Places /\ putBack' \in BOOLEAN /\ RingFilled'
  BY <1>1, <1>2, <1>3, StoreKeepsFilled DEF SpeakerInv
<1>5. SpeakerTyped'
  BY <1>1, <1>3, <1>4 DEF SpeakerInv, SpeakerTyped
<1>6. Phased'
  BY <1>1 DEF SpeakerInv, Phased
<1>7. Holds' => sender'.frame \in Frame
  BY <1>2, <1>3 DEF Holds
<1>8. ~putBack' => ~putBack
  BY <1>1 DEF StoreFront
<1>9. FewLeak => FewLeak'
  <2>1. HoldsOld' => HoldsOld
    BY <1>1, <1>3 DEF Holds, HoldsOld
  <2>2. leaked \in Nat
    BY DEF SpeakerInv, SpeakerTyped
  <2>3. QED
    BY <1>1, <2>1, <2>2 DEF FewLeak
<1>10. ~putBack' => FreshRing'
  BY <1>1, <1>2, <1>8, StoreKeepsFresh DEF SpeakerInv
<1>11. QED
  BY <1>4, <1>5, <1>6, <1>7, <1>8, <1>9, <1>10 DEF SpeakerInv

\* The rest of its loop touches no queue.
LEMMA SenderKeeps ==
  ASSUME SpeakerInv, BeginWait \/ WaitTimesOut \/ LoadFlags \/ SendFrame
  PROVE  SpeakerInv'
<1>1. UNCHANGED <<signedIn, control, clearing, joined, muted, toggles, stay, stream, counter,
                  ring, front, back, full, putBack>>
  BY DEF BeginWait, WaitTimesOut, LoadFlags, SendFrame, speakerVars, queueVars
<1>2. SpeakerTyped /\ sender \in Senders /\ leaked \in Nat /\ net \subseteq 1 .. MaxFrames
      /\ (Holds => sender.frame \in Frame)
  BY DEF SpeakerInv, SpeakerTyped
<1>3. /\ sender' \in Senders /\ sender'.pc # "store"
      /\ Holds' => Holds /\ sender'.frame = sender.frame
  <2>1. CASE BeginWait \/ WaitTimesOut
    BY <1>2, <2>1 DEF BeginWait, WaitTimesOut, Senders, Holds
  <2>2. CASE LoadFlags
    <3>1. joined \in BOOLEAN /\ muted \in BOOLEAN
      BY <1>2 DEF SpeakerTyped
    <3>2. /\ sender.pc = "load"
          /\ sender' = [pc |-> "send", at |-> sender.at, to |-> sender.to,
                        frame |-> sender.frame, live |-> joined /\ ~muted]
      BY <1>2, <2>2 DEF LoadFlags, Senders
    <3>3. QED
      BY <1>2, <3>1, <3>2 DEF Senders, Holds
  <2>3. CASE SendFrame
    BY <1>2, <2>3 DEF SendFrame, Senders, Holds
  <2>4. QED
    BY <2>1, <2>2, <2>3
<1>4. /\ net' \subseteq 1 .. MaxFrames /\ leaked' \in Nat
      /\ FewLeak => FewLeak'
  <2>1. CASE BeginWait \/ WaitTimesOut \/ LoadFlags
    <3>1. leaked' = leaked /\ net' = net
      BY <2>1 DEF BeginWait, WaitTimesOut, LoadFlags
    <3>2. HoldsOld' => HoldsOld
      BY <1>1, <1>3 DEF HoldsOld
    <3>3. QED
      BY <1>2, <3>1, <3>2 DEF FewLeak
  <2>2. CASE SendFrame
    <3>1. /\ Holds /\ sender.frame \in Frame /\ sender.frame.seq \in 1 .. MaxFrames
          /\ ~Holds'
      BY <1>2, <2>2 DEF SendFrame, Senders, Holds, Frame
    <3>2. net' \subseteq 1 .. MaxFrames
      BY <1>2, <2>2, <3>1 DEF SendFrame
    <3>3. leaked' \in {leaked, IF HoldsOld THEN leaked + 1 ELSE leaked}
      BY <2>2, <3>1 DEF SendFrame, HoldsOld
    <3>4. QED
      BY <1>2, <3>1, <3>2, <3>3 DEF FewLeak, HoldsOld
  <2>3. QED
    BY <2>1, <2>2
<1>5. SpeakerTyped'
  BY <1>1, <1>2, <1>3, <1>4 DEF SpeakerTyped
<1>6. Phased' = Phased /\ FreshRing' = FreshRing
  BY <1>1 DEF Phased, FreshRing, Current, Waits
<1>7. RingFilled'
  BY <1>1, <1>3 DEF SpeakerInv, RingFilled, Reached, Wrapped
<1>8. QED
  BY <1>1, <1>2, <1>3, <1>4, <1>5, <1>6, <1>7 DEF SpeakerInv

LEMMA OutgoingKeeps == SpeakerInv /\ Outgoing => SpeakerInv'
<1> SUFFICES ASSUME SpeakerInv, Outgoing PROVE SpeakerInv'
  OBVIOUS
<1>1. CASE PollQueue
  BY <1>1, PopKeeps DEF PollQueue
<1>2. CASE PopAfterWait
  BY <1>2, PopKeeps DEF PopAfterWait
<1>3. CASE DrainBacklog
  BY <1>3, PopKeeps DEF DrainBacklog
<1>4. CASE PopNext
  BY <1>4, PopKeeps DEF PopNext
<1>5. CASE PopEnds
  BY <1>5, PopEndsKeeps
<1>6. CASE BeginWait \/ WaitTimesOut \/ LoadFlags \/ SendFrame
  BY <1>6, SenderKeeps
<1>7. QED
  BY <1>1, <1>2, <1>3, <1>4, <1>5, <1>6 DEF Outgoing

-----------------------------------------------------------------------------
(* Its listener.                                                           *)

Filed(p) ==
    /\ p \in Peers
    /\ \A s \in 0 .. BufferSlots - 1 : p.slots[s] = 0 \/ p.slots[s] % BufferSlots = s

\* Concealment has not gone further than the mixes it lasted, and either those are all
\* the listener waited, or the first frame of a peer that was forgotten waits in its slot.
Heard ==
    ~spoiled =>
        /\ waited <= StaleTimeoutFrames
        /\ peer # NoPeer => waited <= peer.timeout \/ NextFrame = peer.last + 1

ListenerInv ==
    /\ ListenerTyped
    /\ peer # NoPeer => peer.last <= MaxFrames + peer.timeout
    /\ Heard

LEMMA SlotOf == \A n \in Nat : n % BufferSlots \in 0 .. BufferSlots - 1
  BY VoiceAssumption

LEMMA PeerFiled == ListenerTyped /\ peer # NoPeer => Filed(peer)
  BY DEF ListenerTyped, Filed

LEMMA KnownFiled ==
  ASSUME ListenerInv, NEW seq \in 1 .. MaxFrames
  PROVE  Filed(Known(seq)) /\ Known(seq).last <= MaxFrames + Known(seq).timeout
<1>1. CASE peer # NoPeer
  BY <1>1, PeerFiled DEF Known, ListenerInv
<1>2. CASE peer = NoPeer
  <2>1. seq \in 1 .. MaxFrames
    OBVIOUS
  <2>2. /\ Known(seq).last = seq - 1 /\ Known(seq).timeout = 0
        /\ Known(seq).slots = [s \in 0 .. BufferSlots - 1 |-> 0]
        /\ Known(seq) \in Peers
    BY <1>2, <2>1, VoiceAssumption DEF Known, NewPeer, Peers
  <2>3. QED
    BY <2>1, <2>2, VoiceAssumption DEF Filed
<1>3. QED
  BY <1>1, <1>2

\* Storing a frame moves nothing but the frame's slot.
LEMMA StoredFiled ==
  ASSUME NEW p, Filed(p), NEW seq \in 1 .. MaxFrames
  PROVE  /\ Filed(Stored(p, seq))
         /\ Stored(p, seq).last = p.last /\ Stored(p, seq).timeout = p.timeout
         /\ \A s \in 0 .. BufferSlots - 1 :
              \/ Stored(p, seq).slots[s] = p.slots[s]
              \/ /\ s = seq % BufferSlots
                 /\ Stored(p, seq) # p
                 /\ Stored(p, seq).slots[s] = seq
<1> DEFINE slot == seq % BufferSlots
           filed == [p EXCEPT !.slots[slot] = seq]
<1>1. seq \in Nat /\ slot \in 0 .. BufferSlots - 1
  BY SlotOf
<1>2. p \in Peers
  BY DEF Filed
<1>3. /\ filed \in Peers /\ filed.last = p.last /\ filed.timeout = p.timeout
      /\ filed.slots = [p.slots EXCEPT ![slot] = seq]
  <2>1. filed = [last |-> p.last, timeout |-> p.timeout, readHead |-> p.readHead,
                 slots |-> [p.slots EXCEPT ![slot] = seq]]
    BY <1>2 DEF Peers
  <2>2. [p.slots EXCEPT ![slot] = seq] \in [0 .. BufferSlots - 1 -> 0 .. MaxFrames]
    BY <1>1, <1>2 DEF Peers
  <2> HIDE DEF filed, slot
  <2>3. QED
    BY <1>2, <2>1, <2>2 DEF Peers
<1>4. \A s \in 0 .. BufferSlots - 1 : filed.slots[s] = IF s = slot THEN seq ELSE p.slots[s]
  BY <1>1, <1>2, <1>3 DEF Peers
<1>5. Filed(filed)
  BY <1>1, <1>3, <1>4 DEF Filed
<1>6. Stored(p, seq) = p \/ Stored(p, seq) = filed
  BY DEF Stored
<1> HIDE DEF filed
<1>7. CASE Stored(p, seq) = p
  BY <1>7
<1>8. CASE Stored(p, seq) = filed /\ filed # p
  BY <1>3, <1>4, <1>5, <1>8
<1>9. QED
  BY <1>6, <1>7, <1>8

\* The first frame of an unknown peer is the next one to play.
LEMMA FirstIsNext ==
  ASSUME NEW seq \in 1 .. MaxFrames, peer = NoPeer
  PROVE  Stored(Known(seq), seq).slots[seq % BufferSlots] = seq
<1>1. seq \in 1 .. MaxFrames /\ seq % BufferSlots \in 0 .. BufferSlots - 1
  BY SlotOf, VoiceAssumption
<1> DEFINE p == Known(seq)
<1>2. /\ p.last = seq - 1 /\ p.readHead = 0
      /\ p.slots = [s \in 0 .. BufferSlots - 1 |-> 0]
      /\ p \in Peers
  BY <1>1, VoiceAssumption DEF Known, NewPeer, Peers
<1>3. Stored(p, seq) = [p EXCEPT !.slots[seq % BufferSlots] = seq]
  BY <1>1, <1>2 DEF Stored
<1> HIDE DEF p
<1>4. Stored(p, seq).slots = [p.slots EXCEPT ![seq % BufferSlots] = seq]
  BY <1>2, <1>3 DEF Peers
<1>5. QED
  BY <1>1, <1>2, <1>4 DEF p

LEMMA ArriveKeeps ==
  ASSUME ListenerInv, Arrive, net \subseteq 1 .. MaxFrames
  PROVE  ListenerInv'
<1>1. PICK seq \in 1 .. MaxFrames : /\ peer' = Stored(Known(seq), seq)
                             /\ spoiled' = (spoiled \/ Collides(seq))
  BY DEF Arrive
<1>2. arrived' = TRUE /\ waited' = waited
  BY DEF Arrive
<1> DEFINE p == Known(seq)
<1>3. Filed(p) /\ p.last <= MaxFrames + p.timeout
  BY KnownFiled
<1>4. /\ Filed(peer') /\ peer'.last = p.last /\ peer'.timeout = p.timeout
      /\ \A s \in 0 .. BufferSlots - 1 :
           \/ peer'.slots[s] = p.slots[s]
           \/ /\ s = seq % BufferSlots /\ peer' # p /\ peer'.slots[s] = seq
  BY <1>1, <1>3, StoredFiled
<1>5. ListenerTyped'
  <2>1. spoiled' \in BOOLEAN
    BY <1>1 DEF ListenerInv, ListenerTyped, Collides
  <2>2. waited' \in Nat /\ arrived' \in BOOLEAN
    BY <1>2 DEF ListenerInv, ListenerTyped
  <2>3. QED
    BY <1>4, <2>1, <2>2 DEF ListenerTyped, Filed
<1>6. Heard'
  <2> SUFFICES ASSUME ~spoiled, ~Collides(seq)
               PROVE  /\ waited <= StaleTimeoutFrames
                      /\ waited <= peer'.timeout \/ NextFrame' = peer'.last + 1
    BY <1>1, <1>2 DEF Heard
  <2>1. waited <= StaleTimeoutFrames
    BY DEF ListenerInv, Heard
  <2>2. CASE peer = NoPeer
    <3>1. p.last + 1 = seq
      BY <2>2 DEF Known, NewPeer
    <3>2. NextFrame' = seq
      BY <1>1, <1>4, <2>2, <3>1, FirstIsNext DEF NextFrame
    <3>3. QED
      BY <1>4, <2>1, <3>1, <3>2
  <2>3. CASE peer # NoPeer /\ waited <= peer.timeout
    BY <1>4, <2>1, <2>3 DEF Known
  <2>4. CASE peer # NoPeer /\ NextFrame = peer.last + 1
    <3> DEFINE slot == (peer.last + 1) % BufferSlots
    <3>1. p = peer /\ peer.last \in Nat
      BY <1>3, <2>4, VoiceAssumption DEF Known, Filed, Peers
    <3>2. slot \in 0 .. BufferSlots - 1
      BY <3>1, SlotOf
    <3>3. NextFrame = peer.slots[slot] /\ NextFrame' = peer'.slots[slot]
      BY <1>4, <3>1 DEF NextFrame
    <3>4. CASE NextFrame' = NextFrame
      BY <1>4, <2>1, <2>4, <3>1, <3>4
    <3>5. CASE slot = seq % BufferSlots /\ peer' # p /\ NextFrame' = seq
      <4>1. p.slots[seq % BufferSlots] \in {0, seq}
        BY <1>1, <3>5 DEF Collides
      <4>2. peer.last + 1 = seq
        BY <2>4, <3>1, <3>3, <3>5, <4>1
      <4>3. peer'.last = peer.last
        BY <1>4, <3>1
      <4>4. NextFrame' = peer'.last + 1
        BY <3>5, <4>2, <4>3
      <4>5. QED
        BY <2>1, <4>4
    <3>6. QED
      BY <1>4, <3>1, <3>2, <3>3, <3>4, <3>5
  <2>5. QED
    BY <2>2, <2>3, <2>4 DEF ListenerInv, Heard
<1>7. QED
  BY <1>3, <1>4, <1>5, <1>6 DEF ListenerInv

LEMMA MixStoredKeeps == ListenerInv /\ MixStored => ListenerInv'
<1> SUFFICES ASSUME ListenerInv, MixStored PROVE ListenerInv'
  OBVIOUS
<1> DEFINE slot == (peer.last + 1) % BufferSlots
           taken == [peer EXCEPT !.slots[slot] = 0, !.readHead = peer.last + 2]
<1>1. Filed(peer) /\ peer \in Peers
  BY PeerFiled DEF MixStored, ListenerInv, Filed
<1>2. peer.last \in Nat /\ slot \in 0 .. BufferSlots - 1
  <2>1. peer.last \in Nat /\ peer.last + 1 \in Nat
    BY <1>1 DEF Peers
  <2>2. QED
    BY <2>1, SlotOf
<1>3. peer.slots[slot] \in 1 .. MaxFrames /\ peer.last + 1 <= MaxFrames
  <2>1. peer.slots[slot] \in 0 .. MaxFrames /\ peer.slots[slot] = peer.last + 1
    BY <1>1, <1>2 DEF Peers, MixStored, NextFrame
  <2>2. peer.slots[slot] # 0
    BY <1>2, <2>1
  <2>3. QED
    BY <1>2, <2>1, <2>2
<1>4. /\ taken \in Peers /\ taken.last = peer.last /\ taken.timeout = peer.timeout
      /\ taken.slots = [peer.slots EXCEPT ![slot] = 0]
  <2>1. [peer.slots EXCEPT ![slot] = 0] \in [0 .. BufferSlots - 1 -> 0 .. MaxFrames]
    <3>1. peer.slots \in [0 .. BufferSlots - 1 -> 0 .. MaxFrames] /\ 0 \in 0 .. MaxFrames
      BY <1>1, VoiceAssumption DEF Peers
    <3> HIDE DEF slot
    <3>2. QED
      BY <3>1
  <2>2. peer.last + 2 \in 0 .. MaxFrames + 1
    BY <1>2, <1>3, VoiceAssumption
  <2> DEFINE emptied == [peer EXCEPT !.slots[slot] = 0]
  <2>3. emptied = [last |-> peer.last, timeout |-> peer.timeout,
                   slots |-> [peer.slots EXCEPT ![slot] = 0], readHead |-> peer.readHead]
    BY <1>1 DEF Peers
  <2>4. taken = [emptied EXCEPT !.readHead = peer.last + 2]
    OBVIOUS
  <2> HIDE DEF slot
  <2> HIDE DEF emptied, taken
  <2>5. taken = [last |-> peer.last, timeout |-> peer.timeout,
                 slots |-> [peer.slots EXCEPT ![slot] = 0], readHead |-> peer.last + 2]
    BY <2>3, <2>4
  <2>6. QED
    BY <1>1, <2>1, <2>2, <2>5 DEF Peers
<1>5. Filed(taken)
  BY <1>1, <1>2, <1>4 DEF Filed, Peers
<1>6. /\ arrived' = FALSE
      /\ \/ /\ peer' = [taken EXCEPT !.last = @ + 1, !.timeout = 0]
            /\ waited' = 0 /\ spoiled' = FALSE
         \/ /\ peer' = Evicted([taken EXCEPT !.timeout = @ + 1])
            /\ waited' = waited /\ spoiled' = TRUE
  BY DEF MixStored
<1> HIDE DEF taken, slot
<1>7. peer' = NoPeer \/ (Filed(peer') /\ peer'.last <= MaxFrames + peer'.timeout)
  <2>1. CASE peer' = [taken EXCEPT !.last = @ + 1, !.timeout = 0]
    <3>1. peer' = [last |-> peer.last + 1, timeout |-> 0, slots |-> taken.slots,
                   readHead |-> taken.readHead]
      BY <1>4, <2>1 DEF Peers
    <3>2. /\ peer.last + 1 \in 0 .. MaxFrames + StaleTimeoutFrames
          /\ 0 \in 0 .. StaleTimeoutFrames - 1
      BY <1>2, <1>3, VoiceAssumption
    <3>3. peer' \in Peers
      BY <1>4, <3>1, <3>2 DEF Peers
    <3>4. QED
      BY <1>2, <1>3, <1>5, <3>1, <3>3, VoiceAssumption DEF Filed
  <2>2. CASE peer' = Evicted([taken EXCEPT !.timeout = @ + 1]) /\ peer' # NoPeer
    <3>1. /\ peer' = [taken EXCEPT !.timeout = @ + 1]
          /\ ~([taken EXCEPT !.timeout = @ + 1].timeout >= StaleTimeoutFrames)
      BY <2>2 DEF Evicted
    <3>2. peer' = [last |-> peer.last, timeout |-> peer.timeout + 1, slots |-> taken.slots,
                   readHead |-> taken.readHead]
      BY <1>4, <3>1 DEF Peers
    <3>3. peer.timeout \in Nat /\ peer.last \in 0 .. MaxFrames + StaleTimeoutFrames
      BY <1>1 DEF Peers
    <3>4. peer.timeout + 1 \in 0 .. StaleTimeoutFrames - 1
      BY <3>1, <3>2, <3>3, VoiceAssumption
    <3>5. peer' \in Peers
      BY <1>4, <3>2, <3>3, <3>4 DEF Peers
    <3>6. QED
      BY <1>3, <1>5, <3>2, <3>3, <3>4, <3>5, VoiceAssumption DEF Filed
  <2>3. QED
    BY <1>6, <2>1, <2>2
<1>8. QED
  <2>1. ListenerTyped'
    <3>1. waited' \in Nat /\ spoiled' \in BOOLEAN /\ arrived' \in BOOLEAN
      <4>1. waited \in Nat /\ 0 \in Nat
        BY DEF ListenerInv, ListenerTyped
      <4>2. QED
        BY <1>6, <4>1
    <3>2. QED
      BY <1>7, <3>1 DEF ListenerTyped, Filed
  <2>2. Heard'
    <3>1. peer' # NoPeer => 0 <= peer'.timeout
      BY <1>7 DEF Filed, Peers
    <3>2. QED
      BY <1>6, <3>1, VoiceAssumption DEF Heard
  <2>3. QED
    BY <1>7, <2>1, <2>2 DEF ListenerInv

LEMMA MixConcealKeeps == ListenerInv /\ MixConceal => ListenerInv'
<1> SUFFICES ASSUME ListenerInv, MixConceal PROVE ListenerInv'
  OBVIOUS
<1> DEFINE later == [peer EXCEPT !.last = @ + 1, !.timeout = @ + 1]
<1>1. /\ Filed(peer) /\ peer \in Peers /\ peer # NoPeer
      /\ peer.last \in Nat /\ peer.timeout \in 0 .. StaleTimeoutFrames - 1
      /\ peer.last <= MaxFrames + peer.timeout
  BY PeerFiled DEF MixConceal, ListenerInv, Filed, Peers
<1>2. /\ peer' = Evicted(later) /\ arrived' = FALSE /\ spoiled' = spoiled
      /\ waited' \in {waited, waited + 1} /\ waited' \in Nat
  BY DEF MixConceal, ListenerInv, ListenerTyped
<1>3. /\ later.last = peer.last + 1 /\ later.timeout = peer.timeout + 1
      /\ later.slots = peer.slots /\ later.readHead = peer.readHead
      /\ later.last <= MaxFrames + later.timeout
  BY <1>1, VoiceAssumption DEF Peers
<1>4. later.timeout < StaleTimeoutFrames => Filed(later)
  <2> SUFFICES ASSUME later.timeout < StaleTimeoutFrames PROVE later \in Peers
    BY <1>1, <1>3 DEF Filed
  <2>1. peer.last + 1 \in 0 .. MaxFrames + StaleTimeoutFrames
        /\ peer.timeout + 1 \in 0 .. StaleTimeoutFrames - 1
    BY <1>1, <1>3, VoiceAssumption
  <2>2. QED
    BY <1>1, <2>1 DEF Peers
<1>5. ~spoiled => waited' <= peer.timeout + 1
  BY <1>1, <1>2 DEF ListenerInv, ListenerTyped, Heard, MixConceal
<1> HIDE DEF later
<1>6. CASE peer' = NoPeer
  <2>1. Heard'
    BY <1>1, <1>2, <1>5, <1>6, VoiceAssumption DEF Heard
  <2>2. QED
    BY <1>2, <1>6, <2>1 DEF ListenerInv, ListenerTyped
<1>7. CASE peer' # NoPeer
  <2>1. peer' = later /\ later.timeout < StaleTimeoutFrames
    BY <1>1, <1>2, <1>3, <1>7, VoiceAssumption DEF Evicted
  <2>2. Heard'
    BY <1>1, <1>2, <1>3, <1>5, <2>1, VoiceAssumption DEF Heard
  <2>3. ListenerTyped'
    BY <1>2, <1>4, <2>1 DEF ListenerInv, ListenerTyped, Filed
  <2>4. QED
    BY <1>3, <2>1, <2>2, <2>3 DEF ListenerInv
<1>8. QED
  BY <1>6, <1>7

LEMMA ResetKeeps == ListenerInv /\ ResetMixer => ListenerInv'
<1> SUFFICES ASSUME ListenerInv, ResetMixer PROVE ListenerInv'
  OBVIOUS
<1>1. peer' = NoPeer /\ arrived' = FALSE /\ waited' = 0 /\ spoiled' = FALSE
  BY DEF ResetMixer
<1>2. ListenerTyped'
  BY <1>1 DEF ListenerTyped
<1>3. Heard'
  BY <1>1, VoiceAssumption DEF Heard
<1>4. QED
  BY <1>1, <1>2, <1>3 DEF ListenerInv

-----------------------------------------------------------------------------
(* Both together.                                                          *)

VoiceInv == SpeakerInv /\ ListenerInv

LEMMA VoiceInitInv == VoiceInit => VoiceInv
<1> SUFFICES ASSUME VoiceInit PROVE VoiceInv
  OBVIOUS
<1>1. SpeakerTyped
  <2>1. 0 \in Places
    BY VoiceAssumption DEF Places
  <2>2. /\ signedIn \in BOOLEAN /\ joined \in BOOLEAN /\ muted \in BOOLEAN /\ stream \in BOOLEAN
        /\ control = "idle" /\ clearing = NoPlace /\ net = {} /\ putBack \in BOOLEAN
    BY DEF VoiceInit
  <2>3. /\ toggles \in 0 .. MaxToggles /\ stay \in 0 .. MaxStays
        /\ counter \in 1 .. MaxFrames + 1 /\ leaked \in Nat
    BY VoiceAssumption DEF VoiceInit
  <2>4. /\ ring \in [Places -> Frame \cup {NoFrame}]
        /\ front \in Places /\ back \in Places /\ full = NoPlace
    BY <2>1 DEF VoiceInit
  <2>5. sender \in Senders
    BY <2>1 DEF VoiceInit, Resting, Senders
  <2>6. QED
    BY <2>2, <2>3, <2>4, <2>5 DEF SpeakerTyped
<1>2. Phased
  BY DEF VoiceInit, Phased
<1>3. RingFilled
  BY VoiceAssumption DEF VoiceInit, RingFilled, Places, Resting
<1>4. ~Holds /\ FreshRing /\ FewLeak
  <2>1. \A p \in Places : ~Waits(p)
    BY VoiceAssumption DEF VoiceInit, Waits, Places
  <2>2. ~Holds
    BY DEF VoiceInit, Resting, Holds
  <2>3. QED
    BY <2>1, <2>2 DEF VoiceInit, FreshRing, Current, FewLeak, HoldsOld
<1>5. SpeakerInv
  BY <1>1, <1>2, <1>3, <1>4 DEF SpeakerInv
<1>6. ListenerInv
  <2>1. peer = NoPeer /\ arrived = FALSE /\ waited = 0 /\ spoiled = FALSE
    BY DEF VoiceInit
  <2>2. ListenerTyped
    BY <2>1 DEF ListenerTyped
  <2>3. QED
    BY <2>1, <2>2, VoiceAssumption DEF ListenerInv, Heard
<1>7. QED
  BY <1>5, <1>6 DEF VoiceInv

LEMMA SpeakerSame ==
  SpeakerInv /\ UNCHANGED <<speakerVars, queueVars, senderVars, net>> => SpeakerInv'
<1> SUFFICES ASSUME SpeakerInv, UNCHANGED <<speakerVars, queueVars, senderVars, net>>
             PROVE  SpeakerInv'
  OBVIOUS
<1>1. UNCHANGED <<signedIn, control, clearing, joined, muted, toggles, stay, stream, counter,
                  ring, front, back, full, putBack, sender, leaked, net>>
  BY DEF speakerVars, queueVars, senderVars
<1>2. SpeakerTyped' /\ Phased'
  BY <1>1 DEF SpeakerInv, SpeakerTyped, Phased
<1>3. QED
  BY <1>1, <1>2, QueueSame DEF SpeakerInv

LEMMA ListenerSame == ListenerInv /\ UNCHANGED listenerVars => ListenerInv'
  BY DEF ListenerInv, ListenerTyped, listenerVars, Heard, NextFrame

LEMMA VoiceStep == VoiceInv /\ [VoiceNext]_voiceVars => VoiceInv'
<1> SUFFICES ASSUME VoiceInv, [VoiceNext]_voiceVars PROVE VoiceInv'
  OBVIOUS
<1> USE DEF VoiceInv
<1>1. CASE Control
  <2>1. UNCHANGED listenerVars
    BY <1>1 DEF Control, BeginJoin, BeginLeave, ResetPops, ResetStores, ResetEnds, Restarted,
                StoreChannel, StoreMute, SignOutOrIn
  <2>2. SpeakerInv'
    BY <1>1, ControlKeeps, ResetPopsKeeps, ResetStoresKeeps, ResetEndsKeeps DEF Control
  <2>3. QED
    BY <2>1, <2>2, ListenerSame
<1>2. CASE Record \/ DiscardOldestFrame
  <2>1. UNCHANGED listenerVars
    BY <1>2 DEF Record, DiscardOldestFrame
  <2>2. QED
    BY <1>2, <2>1, RecordKeeps, DiscardKeeps, ListenerSame
<1>3. CASE Outgoing
  <2>1. UNCHANGED listenerVars
    BY <1>3 DEF Outgoing, PollQueue, BeginWait, WaitTimesOut, PopAfterWait, PopEnds, LoadFlags,
                DrainBacklog, SendFrame, PopNext, PopAt
  <2>2. QED
    BY <1>3, <2>1, OutgoingKeeps, ListenerSame
<1>4. CASE Listener
  <2>1. UNCHANGED <<speakerVars, queueVars, senderVars, net>>
    BY <1>4 DEF Listener, Arrive, MixStored, MixConceal, ResetMixer
  <2>2. net \subseteq 1 .. MaxFrames
    BY DEF SpeakerInv, SpeakerTyped
  <2>3. ListenerInv'
    BY <1>4, <2>2, ArriveKeeps, MixStoredKeeps, MixConcealKeeps, ResetKeeps DEF Listener
  <2>4. QED
    BY <2>1, <2>3, SpeakerSame
<1>5. CASE UNCHANGED voiceVars
  BY <1>5, SpeakerSame, ListenerSame DEF voiceVars
<1>6. QED
  BY <1>1, <1>2, <1>3, <1>4, <1>5 DEF VoiceNext

LEMMA VoiceInvariance == VoiceSpec => []VoiceInv
  BY VoiceInitInv, VoiceStep, PTL DEF VoiceSpec

\* Every variable keeps its type: m_head and m_tail stay in the ring and every frame that
\* is popped was pushed, put back or not; a peer's expected frame stays within what was
\* recorded and the stale timeout, a frame in its slot.
THEOREM VoiceTyped == VoiceSpec => []VoiceTypeOK
<1>1. VoiceInv => VoiceTypeOK
  BY DEF VoiceInv, SpeakerInv, ListenerInv, VoiceTypeOK
<1>2. QED
  BY <1>1, VoiceInvariance, PTL

\* Although the reset and the outgoing thread pop the same queue, at most the one frame
\* the thread held across a leave and a join is sent into the new stay, until some thread's
\* store of m_head undoes another's (AudioEngine::resetBuffers, LockFreeQueue::pop,
\* clientOutgoingAudioLoop).
THEOREM PastStays == VoiceSpec => []PastStaysPast
<1>1. VoiceInv => PastStaysPast
  BY DEF VoiceInv, SpeakerInv, SpeakerTyped, FewLeak, PastStaysPast
<1>2. QED
  BY <1>1, VoiceInvariance, PTL

\* A listener whose buffer saw no collision and decoded what it took waits no longer for a
\* speaker it receives than the stale timeout, for every buffer, timeout and number of
\* frames (PeerMixer::mixAudio).
THEOREM DeafnessBounded == VoiceSpec => []DeafnessIsBounded
<1>1. VoiceInv => DeafnessIsBounded
  BY DEF VoiceInv, ListenerInv, Heard, DeafnessIsBounded
<1>2. QED
  BY <1>1, VoiceInvariance, PTL
==============================================================================
