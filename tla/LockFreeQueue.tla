--------------------------- MODULE LockFreeQueue ----------------------------
(***************************************************************************)
(* LockFreeQueue<T, Capacity>, load by load and store by store.            *)
(*                                                                         *)
(* The ring is used twice: as m_routingQueue (the TCP thread pushes, the   *)
(* UDP thread pops) and as m_outgoingPackets (the device callback pushes,  *)
(* the outgoing thread pops, and so does the control thread while it       *)
(* resets the audio buffers).  The producer owns m_tail; m_head is stored  *)
(* by the consumer and, when a push finds the ring full, by the producer.  *)
(*                                                                         *)
(* An entry is the number of its push.  Copying an entry takes two steps   *)
(* on either side: a slot that is being written reads as Torn, and so does *)
(* a copy during which the slot changed.  Loads and stores of the indices  *)
(* are sequentially consistent here: acquire and release order what the    *)
(* model orders.                                                           *)
(***************************************************************************)
EXTENDS Integers

CONSTANTS
    Capacity,  \* slots of the ring; it holds one entry less
    Consumers, \* threads that pop
    MaxPushes  \* bound: pushes in a behaviour

ASSUME QueueAssumption ==
    /\ Capacity \in Nat /\ Capacity > 1
    /\ MaxPushes \in Nat

Slots == 0 .. Capacity - 1

Unwritten == 0 \* a slot no push has reached
Torn == -1     \* half of one entry, half of another
Nothing == -2  \* pop returned false

VARIABLES
    buffer,    \* m_buffer
    head,      \* m_head
    tail,      \* m_tail
    push,      \* the producer: its place in forcePush and the head it loaded
    pop,       \* each consumer: its place in pop, the head it loaded, its copy
    published, \* history: entries whose push has stored m_tail
    out,       \* history: what the last pop returned
    raced      \* history: the two sides have met on m_head

vars == <<buffer, head, tail, push, pop, published, out, raced>>

Idle == [pc |-> "idle", at |-> 0, got |-> Unwritten]

TypeOK ==
    /\ buffer \in [Slots -> {Unwritten, Torn} \cup 1 .. MaxPushes]
    /\ head \in Slots
    /\ tail \in Slots
    /\ push \in [pc : {"idle", "write", "publish", "check", "discard"}, seen : Slots]
    /\ pop \in [Consumers -> [pc : {"idle", "test", "copy", "compare", "store"}, at : Slots,
                              got : {Unwritten, Torn} \cup 1 .. MaxPushes]]
    /\ published \in 0 .. MaxPushes
    /\ out \in {Nothing, Unwritten, Torn} \cup 1 .. MaxPushes
    /\ raced \in BOOLEAN

Init ==
    /\ buffer = [s \in Slots |-> Unwritten]
    /\ head = 0
    /\ tail = 0
    /\ push = [pc |-> "idle", seen |-> 0]
    /\ pop = [c \in Consumers |-> Idle]
    /\ published = 0
    /\ out = Nothing
    /\ raced = FALSE

-----------------------------------------------------------------------------

Successor(s) == IF s = Capacity - 1 THEN 0 ELSE s + 1

Popping(c) == pop[c].pc # "idle"

\* Between a push's store of m_tail and its last use of m_head, equal indices
\* stand for a full ring; for everybody else they stand for an empty one.
Ambiguous == push.pc \in {"check", "discard"} /\ head = tail

TwoPops == \E c, d \in Consumers : c # d /\ Popping(c) /\ Popping(d)

\* The sides meet when a pop overlaps a state in which the indices are ambiguous,
\* or another pop.
Race ==
    raced' = (\/ raced
              \/ Ambiguous' /\ \E c \in Consumers : Popping(c) \/ Popping(c)'
              \/ TwoPops')

-----------------------------------------------------------------------------
(* forcePush                                                               *)

\* Mutant: m_tail is stored before the entry is written.
BeginWritePublished ==
    /\ push.pc = "idle"
    /\ published < MaxPushes
    /\ tail' = Successor(tail)
    /\ published' = published + 1
    /\ push' = [push EXCEPT !.pc = "write"]
    /\ UNCHANGED <<buffer, head, pop, out>>

BeginWrite ==
    /\ push.pc = "idle"
    /\ published < MaxPushes
    /\ buffer' = [buffer EXCEPT ![tail] = Torn]
    /\ push' = [push EXCEPT !.pc = "write"]
    /\ UNCHANGED <<head, tail, pop, published, out>>

EndWrite ==
    /\ push.pc = "write"
    /\ buffer' = [buffer EXCEPT ![tail] = published + 1]
    /\ push' = [push EXCEPT !.pc = "publish"]
    /\ UNCHANGED <<head, tail, pop, published, out>>

StoreTail ==
    /\ push.pc = "publish"
    /\ tail' = Successor(tail)
    /\ published' = published + 1
    /\ push' = [push EXCEPT !.pc = "check"]
    /\ UNCHANGED <<buffer, head, pop, out>>

CheckHead ==
    /\ push.pc = "check"
    /\ push' = IF head = tail THEN [pc |-> "discard", seen |-> head]
                              ELSE [push EXCEPT !.pc = "idle"]
    /\ UNCHANGED <<buffer, head, tail, pop, published, out>>

\* Mutant: a full ring keeps its head.
DiscardNothing ==
    /\ push.pc = "discard"
    /\ push' = [push EXCEPT !.pc = "idle"]
    /\ UNCHANGED <<buffer, head, tail, pop, published, out>>

DiscardOldest ==
    /\ push.pc = "discard"
    /\ head' = Successor(push.seen)
    /\ push' = [push EXCEPT !.pc = "idle"]
    /\ UNCHANGED <<buffer, tail, pop, published, out>>

-----------------------------------------------------------------------------
(* pop                                                                     *)

LoadHead(c) ==
    /\ pop[c].pc = "idle"
    /\ pop' = [pop EXCEPT ![c] = [Idle EXCEPT !.pc = "test", !.at = head]]
    /\ UNCHANGED <<buffer, head, tail, push, published, out>>

FindEmpty(c) ==
    /\ pop[c].pc = "test"
    /\ pop[c].at = tail
    /\ pop' = [pop EXCEPT ![c] = Idle]
    /\ out' = Nothing
    /\ UNCHANGED <<buffer, head, tail, push, published>>

FindEntry(c) ==
    /\ pop[c].pc = "test"
    /\ pop[c].at # tail
    /\ pop' = [pop EXCEPT ![c].pc = "copy"]
    /\ UNCHANGED <<buffer, head, tail, push, published, out>>

BeginCopy(c) ==
    /\ pop[c].pc = "copy"
    /\ pop' = [pop EXCEPT ![c].pc = "compare", ![c].got = buffer[pop[c].at]]
    /\ UNCHANGED <<buffer, head, tail, push, published, out>>

EndCopy(c) ==
    /\ pop[c].pc = "compare"
    /\ pop' = [pop EXCEPT ![c].pc = "store",
                          ![c].got = IF buffer[pop[c].at] = @ THEN @ ELSE Torn]
    /\ UNCHANGED <<buffer, head, tail, push, published, out>>

StoreHead(c) ==
    /\ pop[c].pc = "store"
    /\ head' = Successor(pop[c].at)
    /\ out' = pop[c].got
    /\ pop' = [pop EXCEPT ![c] = Idle]
    /\ UNCHANGED <<buffer, tail, push, published>>

-----------------------------------------------------------------------------

ForcePush == BeginWrite \/ EndWrite \/ StoreTail \/ CheckHead \/ DiscardOldest

Pop(c) ==
    LoadHead(c) \/ FindEmpty(c) \/ FindEntry(c) \/ BeginCopy(c) \/ EndCopy(c) \/ StoreHead(c)

Next == (ForcePush \/ \E c \in Consumers : Pop(c)) /\ Race

Spec == Init /\ [][Next]_vars

-----------------------------------------------------------------------------
(* Properties                                                              *)

\* The slot i behind the tail.
Behind(i) == IF tail >= i THEN tail - i ELSE tail - i + Capacity

\* Whatever the two sides do to m_head, the slots behind the tail are the newest
\* entries in the order of their pushes, whole: what a pop returns from among
\* them, once or several times, is an entry somebody pushed.
RingHoldsNewest ==
    \A i \in 1 .. Capacity - 1 : i <= published => buffer[Behind(i)] = published - i + 1

\* What the indices say is in the ring.
Distance == IF tail >= head THEN tail - head ELSE tail - head + Capacity
Held == IF Ambiguous THEN Capacity - 1 ELSE Distance

Promise ==
    INSTANCE DropOldest WITH Size <- Capacity - 1, pushed <- published, gone <- published - Held

\* As long as no pop has overlapped a full ring's discard, a push's look at a ring
\* drained meanwhile, or another pop, the ring is the atomic drop-oldest queue the
\* rest of the program takes it for: every entry comes out once, whole and in
\* order, and only an overflow loses one, the oldest (forcePush and pop).
ImplementsDropOldest == Promise!Init /\ [][raced' \/ Promise!Next]_(Promise!vars)
=============================================================================
