-------------------------- MODULE ChatHistoryProofs --------------------------
(***************************************************************************)
(* For any channels, page size, row limit and history: the rows shown are  *)
(* those of the loaded channel, and as long as the user stays on it none   *)
(* is shown twice and scrolling up skips none.  Pages come in the order    *)
(* they were asked for, and a spinner turns only while one is to come.     *)
(***************************************************************************)
EXTENDS ChatHistory, FiniteSetTheorems, FunctionTheorems, SequenceTheorems,
        WellFoundedInduction, TLAPS

-----------------------------------------------------------------------------
(* Pages: finite sets of places, put in order.                             *)

UpTo(places, i) == {j \in places : j <= i}

LEMMA Least ==
  ASSUME NEW S \in SUBSET Nat, S # {}
  PROVE  \E m \in S : \A n \in S : m <= n
<1>1. PICK x \in S : \A y \in S : ~(<<y, x>> \in OpToRel(<, Nat))
  BY NatLessThanWellFounded, WFMin
<1>2. \A y \in S : ~(y < x)
  BY <1>1 DEF OpToRel
<1>3. QED
  BY <1>2

\* The places of a table are finitely many, and so are those up to one of them.
LEMMA PlacesFinite ==
  ASSUME NEW n \in Nat, NEW places \in SUBSET (1 .. n)
  PROVE  /\ IsFiniteSet(places) /\ Cardinality(places) \in 0 .. n
         /\ \A i \in Nat : /\ IsFiniteSet(UpTo(places, i))
                           /\ Cardinality(UpTo(places, i)) \in Nat
                           /\ Cardinality(UpTo(places, i)) <= Cardinality(places)
<1>1. IsFiniteSet(1 .. n) /\ Cardinality(1 .. n) = n
  BY FS_Interval
<1>2. IsFiniteSet(places) /\ Cardinality(places) <= n
  BY <1>1, FS_Subset
<1>3. Cardinality(places) \in Nat
  BY <1>2, FS_CardinalityType
<1>4. \A i \in Nat : UpTo(places, i) \in SUBSET places
  BY DEF UpTo
<1>5. \A i \in Nat : IsFiniteSet(UpTo(places, i)) /\ Cardinality(UpTo(places, i)) <= Cardinality(places)
  BY <1>2, <1>4, FS_Subset
<1>6. \A i \in Nat : Cardinality(UpTo(places, i)) \in Nat
  BY <1>5, FS_CardinalityType
<1>7. QED
  BY <1>2, <1>3, <1>5, <1>6

\* There is a first, a second, ... and a last place.
LEMMA RankExists ==
  ASSUME NEW n \in Nat, NEW places \in SUBSET (1 .. n), NEW k \in 1 .. Cardinality(places)
  PROVE  \E i \in places : Cardinality(UpTo(places, i)) = k
<1>1. Cardinality(places) \in Nat
  BY PlacesFinite
<1>0. \A j \in places : j \in Nat /\ 1 <= j /\ j <= n
  OBVIOUS
<1>2. UpTo(places, n) = places
  BY <1>0 DEF UpTo
<1> DEFINE enough == {m \in Nat : Cardinality(UpTo(places, m)) >= k}
<1>3. n \in enough
  BY <1>1, <1>2
<1>4. PICK m \in enough : \A l \in enough : m <= l
  BY <1>3, Least
<1>5. UpTo(places, 0) = {}
  <2>1. \A j \in places : ~(j <= 0)
    BY <1>0
  <2>2. QED
    BY <2>1 DEF UpTo
<1>6. m # 0
  BY <1>1, <1>4, <1>5, FS_EmptySet
<1>7. m - 1 \in Nat /\ m - 1 \notin enough
  BY <1>4, <1>6
<1>8. /\ IsFiniteSet(UpTo(places, m - 1))
      /\ Cardinality(UpTo(places, m - 1)) \in Nat /\ Cardinality(UpTo(places, m - 1)) < k
  <2>1. IsFiniteSet(UpTo(places, m - 1)) /\ Cardinality(UpTo(places, m - 1)) \in Nat
    BY <1>7, PlacesFinite
  <2>2. ~(Cardinality(UpTo(places, m - 1)) >= k)
    BY <1>7
  <2>3. QED
    BY <1>1, <2>1, <2>2
<1>9. m \in places
  <2> SUFFICES ASSUME m \notin places PROVE FALSE
    OBVIOUS
  <2>1. m \in Nat
    BY <1>4
  <2>2. \A j \in places : j <= m <=> j <= m - 1
    BY <1>0, <2>1
  <2>3. UpTo(places, m) = UpTo(places, m - 1)
    BY <2>2, Zenon DEF UpTo
  <2>4. QED
    BY <1>1, <1>4, <1>8, <2>3
<1>10. UpTo(places, m) = UpTo(places, m - 1) \cup {m} /\ m \notin UpTo(places, m - 1)
  <2>1. m \in Nat
    BY <1>4
  <2>2. \A j \in places : j <= m <=> (j <= m - 1 \/ j = m)
    BY <1>0, <2>1
  <2>3. ~(m <= m - 1)
    BY <2>1
  <2>4. \A j : j \in UpTo(places, m) <=> j \in UpTo(places, m - 1) \cup {m}
    BY <1>9, <2>2, Zenon DEF UpTo
  <2>5. m \notin UpTo(places, m - 1)
    BY <2>3, Zenon DEF UpTo
  <2>6. UpTo(places, m) = UpTo(places, m - 1) \cup {m}
    BY <2>4, Zenon
  <2>7. QED
    BY <2>5, <2>6
<1>11. Cardinality(UpTo(places, m)) = Cardinality(UpTo(places, m - 1)) + 1
  BY <1>8, <1>10, FS_AddElement
<1>12. Cardinality(UpTo(places, m)) >= k
  BY <1>4
<1>13. QED
  BY <1>1, <1>8, <1>9, <1>11, <1>12

\* InOrder lists the rows at the places, each by its rank.
LEMMA Listed ==
  ASSUME messages \in Seq(Row), NEW places \in SUBSET (1 .. Len(messages))
  PROVE  /\ InOrder(places) \in Seq(Row) /\ Len(InOrder(places)) = Cardinality(places)
         /\ \A k \in 1 .. Len(InOrder(places)) :
              \E i \in places : /\ InOrder(places)[k] = messages[i]
                                /\ Cardinality(UpTo(places, i)) = k
<1> DEFINE n == Len(messages)
           rank(k) == CHOOSE i \in places : Cardinality({j \in places : j <= i}) = k
<1>1. n \in Nat /\ Cardinality(places) \in Nat
  BY PlacesFinite
<1>2. ASSUME NEW k \in 1 .. Cardinality(places)
      PROVE  rank(k) \in places /\ Cardinality(UpTo(places, rank(k))) = k
  <2>1. \E i \in places : Cardinality({j \in places : j <= i}) = k
    BY <1>1, RankExists DEF UpTo
  <2>2. QED
    BY <2>1 DEF UpTo
<1> HIDE DEF rank
<1>3. InOrder(places) = [k \in 1 .. Cardinality(places) |-> messages[rank(k)]]
  BY DEF InOrder, rank
<1>4. \A k \in 1 .. Cardinality(places) : messages[rank(k)] \in Row
  <2>1. \A i \in places : i \in 1 .. Len(messages) /\ messages[i] \in Row
    OBVIOUS
  <2>2. QED
    BY <1>2, <2>1
<1>5. InOrder(places) \in Seq(Row) /\ Len(InOrder(places)) = Cardinality(places)
  BY <1>1, <1>3, <1>4
<1>6. QED
  BY <1>2, <1>3, <1>5

\* A place of a lower rank is a lower place.
LEMMA RankOrders ==
  ASSUME NEW n \in Nat, NEW places \in SUBSET (1 .. n), NEW i \in places, NEW j \in places,
         Cardinality(UpTo(places, i)) < Cardinality(UpTo(places, j))
  PROVE  i < j
<1> SUFFICES ASSUME j <= i PROVE FALSE
  OBVIOUS
<1>0. \A l \in places : l \in Nat
  OBVIOUS
<1>1. UpTo(places, j) \in SUBSET UpTo(places, i)
  <2>1. \A l \in places : l <= j => l <= i
    BY <1>0
  <2>2. QED
    BY <2>1, Zenon DEF UpTo
<1>2. /\ IsFiniteSet(UpTo(places, i)) /\ Cardinality(UpTo(places, i)) \in Nat
      /\ Cardinality(UpTo(places, j)) \in Nat
  BY <1>0, PlacesFinite
<1>3. Cardinality(UpTo(places, j)) <= Cardinality(UpTo(places, i))
  BY <1>1, <1>2, FS_Subset
<1>4. QED
  BY <1>2, <1>3

-----------------------------------------------------------------------------
(* Sequences.                                                              *)

LEMMA Members == ASSUME NEW S, NEW q \in Seq(S) PROVE \A i \in 1 .. Len(q) : q[i] \in S
OBVIOUS

LEMMA Taken ==
  ASSUME NEW S, NEW q \in Seq(S), q # <<>>
  PROVE  /\ Head(q) = q[1] /\ Head(q) \in S /\ 1 \in 1 .. Len(q)
         /\ Tail(q) \in Seq(S)
         /\ Len(q) \in Nat /\ Len(q) >= 1 /\ Len(Tail(q)) = Len(q) - 1
         /\ \A i \in 1 .. Len(Tail(q)) :
              Tail(q)[i] = q[i + 1] /\ i + 1 \in 1 .. Len(q) /\ Tail(q)[i] \in S
<1>1. Len(q) \in Nat /\ Len(q) >= 1
  OBVIOUS
<1>2. Head(q) = q[1] /\ Head(q) \in S /\ Tail(q) \in Seq(S) /\ Len(Tail(q)) = Len(q) - 1
  OBVIOUS
<1>3. \A i \in 1 .. Len(Tail(q)) : Tail(q)[i] = q[i + 1]
  OBVIOUS
<1>4. \A i \in 1 .. Len(Tail(q)) : Tail(q)[i] \in S
  BY <1>2
<1>5. \A i \in 1 .. Len(Tail(q)) : i + 1 \in 1 .. Len(q)
  BY <1>1, <1>2
<1>6. QED
  BY <1>1, <1>2, <1>3, <1>4, <1>5

LEMMA Added ==
  ASSUME NEW S, NEW q \in Seq(S), NEW x \in S
  PROVE  /\ Append(q, x) \in Seq(S)
         /\ Len(q) \in Nat /\ Len(Append(q, x)) = Len(q) + 1
         /\ \A i \in 1 .. Len(q) : Append(q, x)[i] = q[i] /\ q[i] \in S
         /\ Append(q, x)[Len(q) + 1] = x
         /\ \A i \in 1 .. Len(Append(q, x)) : i \in 1 .. Len(q) \/ i = Len(q) + 1
<1>1. /\ Append(q, x) \in Seq(S)
      /\ Len(q) \in Nat /\ Len(Append(q, x)) = Len(q) + 1
      /\ \A i \in 1 .. Len(q) : Append(q, x)[i] = q[i]
      /\ Append(q, x)[Len(q) + 1] = x
  OBVIOUS
<1>2. \A i \in 1 .. Len(q) : q[i] \in S
  OBVIOUS
<1>3. \A i \in 1 .. Len(Append(q, x)) : i \in 1 .. Len(q) \/ i = Len(q) + 1
  BY <1>1
<1>4. QED
  BY <1>1, <1>2, <1>3

-----------------------------------------------------------------------------
(* The messages on their way to the server.                                *)

ChatsIn(q) == {i \in 1 .. Len(q) : q[i].type = "CHAT"}

LEMMA ChatsCounted ==
  ASSUME NEW q \in Seq(Request)
  PROVE  IsFiniteSet(ChatsIn(q)) /\ Cardinality(ChatsIn(q)) \in Nat
<1>1. ChatsIn(q) \in SUBSET (1 .. Len(q)) /\ Len(q) \in Nat
  BY DEF ChatsIn
<1>2. QED
  BY <1>1, PlacesFinite

LEMMA ChatsAdded ==
  ASSUME NEW q \in Seq(Request), NEW r \in Request
  PROVE  Cardinality(ChatsIn(Append(q, r)))
           = Cardinality(ChatsIn(q)) + (IF r.type = "CHAT" THEN 1 ELSE 0)
<1>1. IsFiniteSet(ChatsIn(q)) /\ Cardinality(ChatsIn(q)) \in Nat
  BY ChatsCounted
<1>2. /\ Len(q) \in Nat /\ Len(Append(q, r)) = Len(q) + 1
      /\ \A i \in 1 .. Len(q) : Append(q, r)[i] = q[i]
      /\ Append(q, r)[Len(q) + 1] = r
  BY Added
<1>3. Len(q) + 1 \notin ChatsIn(q)
  BY <1>2 DEF ChatsIn
<1>4. 1 .. (Len(q) + 1) = (1 .. Len(q)) \cup {Len(q) + 1}
  BY <1>2
<1>5. CASE r.type = "CHAT"
  <2>1. ChatsIn(Append(q, r)) = ChatsIn(q) \cup {Len(q) + 1}
    BY <1>2, <1>4, <1>5 DEF ChatsIn
  <2>2. QED
    BY <1>1, <1>3, <1>5, <2>1, FS_AddElement
<1>6. CASE r.type # "CHAT"
  <2>1. ChatsIn(Append(q, r)) = ChatsIn(q)
    BY <1>2, <1>4, <1>6 DEF ChatsIn
  <2>2. QED
    BY <1>1, <1>6, <2>1
<1>7. QED
  BY <1>5, <1>6

LEMMA ChatsTaken ==
  ASSUME NEW q \in Seq(Request), q # <<>>
  PROVE  Cardinality(ChatsIn(q))
           = Cardinality(ChatsIn(Tail(q))) + (IF Head(q).type = "CHAT" THEN 1 ELSE 0)
<1> DEFINE rest == ChatsIn(q) \ {1}
           shift == [i \in ChatsIn(Tail(q)) |-> i + 1]
<1>1. /\ Head(q) = q[1] /\ 1 \in 1 .. Len(q) /\ Tail(q) \in Seq(Request)
      /\ Len(q) \in Nat /\ Len(q) >= 1 /\ Len(Tail(q)) = Len(q) - 1
      /\ \A i \in 1 .. Len(Tail(q)) : Tail(q)[i] = q[i + 1] /\ i + 1 \in 1 .. Len(q)
  BY Taken
<1>2. /\ IsFiniteSet(ChatsIn(q)) /\ Cardinality(ChatsIn(q)) \in Nat
      /\ IsFiniteSet(ChatsIn(Tail(q))) /\ Cardinality(ChatsIn(Tail(q))) \in Nat
  BY <1>1, ChatsCounted
<1>3. shift \in Bijection(ChatsIn(Tail(q)), rest)
  <2>1. \A i \in ChatsIn(Tail(q)) : i \in Nat /\ i + 1 \in rest
    BY <1>1 DEF ChatsIn
  <2>2. \A i, j \in ChatsIn(Tail(q)) : shift[i] = shift[j] => i = j
    BY <2>1
  <2>3. ASSUME NEW j \in rest
        PROVE  \E i \in ChatsIn(Tail(q)) : shift[i] = j
    <3>1. j \in 1 .. Len(q) /\ j # 1 /\ q[j].type = "CHAT"
      BY DEF ChatsIn
    <3>2. j - 1 \in 1 .. Len(Tail(q)) /\ (j - 1) + 1 = j
      BY <1>1, <3>1
    <3>3. j - 1 \in ChatsIn(Tail(q))
      BY <1>1, <3>1, <3>2 DEF ChatsIn
    <3>4. QED
      BY <3>2, <3>3
  <2>4. shift \in [ChatsIn(Tail(q)) -> rest]
    BY <2>1
  <2> HIDE DEF shift, rest
  <2>5. \A j \in rest : \E i \in ChatsIn(Tail(q)) : shift[i] = j
    BY <2>3
  <2>6. QED
    BY <2>2, <2>4, <2>5, Fun_IsBij
<1>4. Cardinality(rest) = Cardinality(ChatsIn(Tail(q)))
  BY <1>2, <1>3, FS_Bijection DEF ExistsBijection
<1>5. CASE Head(q).type = "CHAT"
  <2>1. 1 \in ChatsIn(q)
    BY <1>1, <1>5 DEF ChatsIn
  <2>2. Cardinality(rest) = Cardinality(ChatsIn(q)) - 1
    BY <1>2, <2>1, FS_RemoveElement
  <2>3. QED
    BY <1>2, <1>4, <1>5, <2>2
<1>6. CASE Head(q).type # "CHAT"
  <2>1. rest = ChatsIn(q)
    BY <1>1, <1>6 DEF ChatsIn
  <2> HIDE DEF rest
  <2>2. Cardinality(ChatsIn(q)) = Cardinality(ChatsIn(Tail(q)))
    BY <1>4, <2>1
  <2>3. QED
    BY <1>2, <1>6, <2>2
<1>7. QED
  BY <1>5, <1>6

-----------------------------------------------------------------------------
(* Requests, pushes and pages.                                             *)

LEMMA RequestParts ==
  ASSUME NEW r \in Request
  PROVE  /\ r.ch \in TextChannels
         /\ r.type = "REQ_CHAT_LOG_BEFORE" => r.before \in Stamps
BY DEF Request

LEMMA PushParts ==
  ASSUME NEW p \in Push
  PROVE  /\ p.ch \in TextChannels
         /\ p.type = "PUSH_CHAT" => p.row \in Row
         /\ p.type \in {"CHAT_LOG", "CHAT_LOG_MORE"} => p.rows \in Seq(Row) /\ p.hasMore \in BOOLEAN
<1>1. CASE p \in [type : {"PUSH_CHAT"}, ch : TextChannels, row : Row]
  BY <1>1
<1>2. CASE p \in [type : {"CHAT_LOG", "CHAT_LOG_MORE"}, ch : TextChannels, rows : Seq(Row),
                  hasMore : BOOLEAN]
  <2>1. p.type # "PUSH_CHAT" /\ p.ch \in TextChannels /\ p.rows \in Seq(Row)
    BY <1>2
  <2>2. p.hasMore \in BOOLEAN
    BY <1>2, Zenon
  <2>3. QED
    BY <2>1, <2>2
<1>3. QED
  BY <1>1, <1>2 DEF Push

PageOf(rows) == InOrder(Page(rows))

\* A page lists rows that the query selects, in the order of the table.
LEMMA PageListed ==
  ASSUME messages \in Seq(Row), NEW rows \in SUBSET (1 .. Len(messages))
  PROVE  /\ PageOf(rows) \in Seq(Row)
         /\ \A k \in 1 .. Len(PageOf(rows)) :
              \E i \in Page(rows) : i \in rows /\ PageOf(rows)[k] = messages[i]
         /\ \A k, l \in 1 .. Len(PageOf(rows)) : k < l =>
              \E i, j \in Page(rows) :
                i < j /\ PageOf(rows)[k] = messages[i] /\ PageOf(rows)[l] = messages[j]
<1> DEFINE places == Page(rows)
           page == PageOf(rows)
<1>1. places \in SUBSET rows
  BY DEF Page
<1>2. page = InOrder(places)
  BY DEF PageOf
<1> SUFFICES
      /\ page \in Seq(Row)
      /\ \A k \in 1 .. Len(page) : \E i \in places : i \in rows /\ page[k] = messages[i]
      /\ \A k, l \in 1 .. Len(page) : k < l =>
           \E i, j \in places : i < j /\ page[k] = messages[i] /\ page[l] = messages[j]
  OBVIOUS
<1> HIDE DEF places, page
<1>3. places \in SUBSET (1 .. Len(messages)) /\ Len(messages) \in Nat
  BY <1>1
<1>4. /\ page \in Seq(Row)
      /\ \A k \in 1 .. Len(page) :
           \E i \in places : page[k] = messages[i] /\ Cardinality(UpTo(places, i)) = k
  BY <1>2, <1>3, Listed
<1>5. ASSUME NEW k \in 1 .. Len(page), NEW l \in 1 .. Len(page), k < l
      PROVE  \E i, j \in places : i < j /\ page[k] = messages[i] /\ page[l] = messages[j]
  <2>1. PICK i \in places : page[k] = messages[i] /\ Cardinality(UpTo(places, i)) = k
    BY <1>4
  <2>2. PICK j \in places : page[l] = messages[j] /\ Cardinality(UpTo(places, j)) = l
    BY <1>4
  <2>3. i < j
    BY <1>3, <1>5, <2>1, <2>2, RankOrders
  <2>4. QED
    BY <2>1, <2>2, <2>3
<1>6. QED
  BY <1>1, <1>4, <1>5

-----------------------------------------------------------------------------
(* The inductive invariant.                                                *)

\* A message's number is its place in the table, or the place it will have.
Numbered ==
    /\ \A i \in 1 .. Len(messages) : messages[i].id = i
    /\ \A i \in 1 .. Len(taskQueue) : taskQueue[i].id = Len(messages) + i
    /\ lastId = Len(messages) + Len(taskQueue)

\* Every message is counted once, typed, on its way or sent.
Counted == lastId + Len(pendingMessages) + Cardinality(ChatsIn(requests)) <= MaxMessages

\* A message is stamped when it is broadcast and again when it is stored.
ToStamp == Len(taskQueue) + (IF posting = NoChannel THEN 0 ELSE 1)
Clocked == clock + (IF DistinctStamps THEN ToStamp ELSE 0) <= 2 * lastId

\* The channel of a message, stored or not.
ChannelAt(m, table, tasks) ==
    IF m <= Len(table) THEN table[m].ch ELSE tasks[m - Len(table)].ch

\* What its handler has yet to broadcast is the newest message.
PostingLast ==
    posting # NoChannel => lastId >= 1 /\ ChannelAt(lastId, messages, taskQueue) = posting

OfItsChannel(p) ==
    /\ p.type = "PUSH_CHAT" => p.row.ch = p.ch
    /\ p.type \in {"CHAT_LOG", "CHAT_LOG_MORE"} => \A k \in 1 .. Len(p.rows) : p.rows[k].ch = p.ch

ServerInv ==
    /\ messages \in Seq(Row) /\ Len(messages) <= MaxMessages
    /\ taskQueue \in Seq([id : Ids, ch : TextChannels])
    /\ clock \in Stamps /\ lastId \in 0 .. MaxMessages /\ late \subseteq Ids
    /\ posting \in TextChannels \cup {NoChannel}
    /\ Numbered /\ Clocked /\ PostingLast

RequestsInv ==
    /\ requests \in Seq(Request)
    /\ pendingMessages \in Seq(TextChannels)
    /\ pendingHistory \in Seq([ch : TextChannels, before : Stamps])
    /\ control \in [pc : {"idle", "chat", "history"}, ch : TextChannels]
    /\ current \in TextChannels
    /\ Counted

PushesInv ==
    /\ pushes \in Seq(Push)
    /\ \A i \in 1 .. Len(pushes) : OfItsChannel(pushes[i])

ViewInv ==
    /\ selected \in TextChannels /\ loaded \in TextChannels \cup {NoChannel}
    /\ model \in Seq(Row) /\ hasMore \in BOOLEAN /\ inFlight \in BOOLEAN
    /\ paged \in BOOLEAN /\ switches \in 0 .. MaxSwitches
    /\ cut \in BOOLEAN /\ misdated \in BOOLEAN
    /\ RowsOfLoaded

HistoryInv == ServerInv /\ RequestsInv /\ PushesInv /\ ViewInv

LEMMA InvTyped == HistoryInv => TypeOK
BY DEF HistoryInv, ServerInv, RequestsInv, PushesInv, ViewInv, TypeOK

LEMMA StampsAre == MaxMessages \in Nat /\ \A t : t \in Stamps <=> t \in Nat /\ t <= 2 * MaxMessages
BY ChatAssumption DEF Stamps

LEMMA InitHistory == Init => HistoryInv
<1> SUFFICES ASSUME Init PROVE HistoryInv
  OBVIOUS
<1>0. MaxMessages \in Nat /\ Len(OldMessages) \in Nat /\ Len(OldMessages) <= MaxMessages
  BY ChatAssumption
<1>1. PICK stamps \in [1 .. Len(OldMessages) -> 1 .. Len(OldMessages)] : messages = OldRows(stamps)
  BY DEF Init
<1>2. messages \in Seq(Row) /\ Len(messages) = Len(OldMessages)
  <2>1. \A i \in 1 .. Len(OldMessages) :
          /\ i \in Ids /\ OldMessages[i] \in TextChannels /\ stamps[i] \in Stamps
    BY <1>0, ChatAssumption DEF Ids, Stamps
  <2>2. messages = [i \in 1 .. Len(OldMessages) |->
                      [id |-> i, ch |-> OldMessages[i], ts |-> stamps[i]]]
    BY <1>1 DEF OldRows
  <2>3. \A i \in 1 .. Len(OldMessages) :
          [id |-> i, ch |-> OldMessages[i], ts |-> stamps[i]] \in Row
    BY <2>1 DEF Row
  <2>4. QED
    BY <1>0, <2>2, <2>3
<1>3. \A i \in 1 .. Len(messages) : messages[i].id = i
  BY <1>1, <1>2 DEF OldRows
<1>4. ServerInv
  <2>1. /\ taskQueue = <<>> /\ clock = Len(OldMessages) /\ lastId = Len(OldMessages)
        /\ late = {} /\ posting = NoChannel
    BY DEF Init
  <2>2. clock \in Stamps /\ lastId \in 0 .. MaxMessages
    BY <1>0, <2>1, StampsAre
  <2>3. Numbered
    BY <1>0, <1>2, <1>3, <2>1 DEF Numbered
  <2>4. QED
    BY <1>0, <1>2, <2>1, <2>2, <2>3 DEF ServerInv, Clocked, ToStamp, PostingLast
<1>5. RequestsInv
  <2>1. /\ selected \in TextChannels /\ requests = <<Log(selected)>>
        /\ pendingMessages = <<>> /\ pendingHistory = <<>>
        /\ control = [pc |-> "idle", ch |-> selected] /\ current = selected
        /\ lastId = Len(OldMessages)
    BY DEF Init
  <2>2. Log(selected) \in Request /\ Log(selected).type # "CHAT"
    BY <2>1 DEF Log, Request
  <2>3. requests \in Seq(Request) /\ Len(requests) = 1 /\ requests[1] = Log(selected)
    BY <2>1, <2>2
  <2>4. ChatsIn(requests) = {}
    BY <2>2, <2>3 DEF ChatsIn
  <2>5. Cardinality(ChatsIn(requests)) = 0 /\ Len(pendingMessages) = 0
    BY <2>1, <2>4, FS_EmptySet
  <2>6. Counted
    BY <1>0, <2>1, <2>5 DEF Counted
  <2>7. QED
    BY <2>1, <2>3, <2>6 DEF RequestsInv
<1>6. PushesInv
  BY DEF Init, PushesInv
<1>7. ViewInv
  <2>1. /\ selected \in TextChannels /\ loaded = NoChannel /\ model = <<>>
        /\ hasMore = FALSE /\ inFlight = FALSE /\ switches = 0 /\ cut = FALSE
        /\ paged = FALSE /\ misdated = FALSE
    BY DEF Init
  <2>2. model \in Seq(Row) /\ Len(model) = 0 /\ switches \in 0 .. MaxSwitches
    BY <2>1, ChatAssumption
  <2>3. RowsOfLoaded
    BY <2>2 DEF RowsOfLoaded
  <2>4. QED
    BY <2>1, <2>2, <2>3 DEF ViewInv
<1>8. QED
  BY <1>4, <1>5, <1>6, <1>7 DEF HistoryInv

-----------------------------------------------------------------------------
(* Every step keeps the invariant, group by group.                         *)

\* A message sent takes the next number, hence there must be room for it.
LEMMA PostKeepsServer ==
  ASSUME ServerInv, lastId < MaxMessages, NEW c \in TextChannels, PostChat(c)
  PROVE  ServerInv'
<1>1. /\ lastId' = lastId + 1 /\ clock' = clock /\ posting = NoChannel /\ posting' = c
      /\ taskQueue' = Append(taskQueue, [id |-> lastId + 1, ch |-> c])
      /\ messages' = messages /\ late' = late
  BY DEF PostChat
<1>2. /\ messages \in Seq(Row) /\ Len(messages) <= MaxMessages /\ Len(messages) \in Nat
      /\ taskQueue \in Seq([id : Ids, ch : TextChannels]) /\ Len(taskQueue) \in Nat
      /\ clock \in Nat /\ clock \in Stamps /\ lastId \in 0 .. MaxMessages /\ lastId \in Nat
      /\ MaxMessages \in Nat /\ late \subseteq Ids /\ lastId = Len(messages) + Len(taskQueue)
  BY StampsAre DEF ServerInv, Numbered
<1>3. [id |-> lastId + 1, ch |-> c] \in [id : Ids, ch : TextChannels]
  BY <1>2 DEF Ids
<1>4. /\ taskQueue' \in Seq([id : Ids, ch : TextChannels])
      /\ Len(taskQueue') = Len(taskQueue) + 1
      /\ \A i \in 1 .. Len(taskQueue) : taskQueue'[i] = taskQueue[i]
      /\ taskQueue'[Len(taskQueue) + 1] = [id |-> lastId + 1, ch |-> c]
      /\ \A i \in 1 .. Len(taskQueue') : i \in 1 .. Len(taskQueue) \/ i = Len(taskQueue) + 1
  BY <1>1, <1>2, <1>3, Added
<1>5. Numbered'
  <2>1. lastId = Len(messages) + Len(taskQueue)
    BY DEF ServerInv, Numbered
  <2>2. \A i \in 1 .. Len(messages') : messages'[i].id = i
    BY <1>1 DEF ServerInv, Numbered
  <2>3. taskQueue'[Len(taskQueue) + 1].id = Len(messages') + (Len(taskQueue) + 1)
    BY <1>1, <1>2, <1>4, <2>1
  <2>4. \A i \in 1 .. Len(taskQueue) : taskQueue'[i].id = Len(messages') + i
    BY <1>1, <1>4 DEF ServerInv, Numbered
  <2>5. \A i \in 1 .. Len(taskQueue') : taskQueue'[i].id = Len(messages') + i
    BY <1>4, <2>3, <2>4
  <2>6. lastId' = Len(messages') + Len(taskQueue')
    BY <1>1, <1>2, <1>4, <2>1
  <2>7. QED
    BY <2>2, <2>5, <2>6 DEF Numbered
<1>6. Clocked'
  <2>1. ToStamp' <= ToStamp + 2 /\ ToStamp \in Nat /\ ToStamp' \in Nat
    BY <1>1, <1>2, <1>4 DEF ToStamp
  <2>2. QED
    BY <1>1, <1>2, <2>1 DEF Clocked, ServerInv
<1>7. PostingLast'
  <2>1. ~(lastId' <= Len(messages')) /\ lastId' - Len(messages') = Len(taskQueue) + 1
    BY <1>1, <1>2
  <2>2. QED
    BY <1>1, <1>2, <1>4, <2>1 DEF PostingLast, ChannelAt
<1>8. QED
  BY <1>1, <1>2, <1>4, <1>5, <1>6, <1>7 DEF ServerInv

\* The broadcast of the newest message is stamped at a time the clock can show.
LEMMA BroadcastKeepsServer ==
  ASSUME ServerInv, NEW c \in TextChannels, Broadcast(c)
  PROVE  /\ ServerInv' /\ posting = c /\ c # NoChannel
         /\ lastId \in Ids /\ Now \in Stamps
<1>1. /\ clock' = Now /\ posting = c /\ posting' = NoChannel /\ c # NoChannel
      /\ UNCHANGED <<messages, taskQueue, lastId, late>>
  BY ChatAssumption DEF Broadcast
<1>2. /\ clock \in Nat /\ lastId \in Nat /\ lastId <= MaxMessages /\ MaxMessages \in Nat
      /\ taskQueue \in Seq([id : Ids, ch : TextChannels]) /\ Len(taskQueue) \in Nat
  BY StampsAre DEF ServerInv
<1>3. lastId \in Ids
  BY <1>1, <1>2 DEF ServerInv, PostingLast, Ids
<1>4. ToStamp = ToStamp' + 1 /\ ToStamp' \in Nat
  BY <1>1, <1>2 DEF ToStamp
<1>5. Clocked' /\ Now \in Nat /\ Now <= 2 * lastId
  <2>0. Clocked
    BY DEF ServerInv
  <2>1. CASE DistinctStamps
    <3>1. clock + ToStamp <= 2 * lastId /\ Now = clock + 1
      BY <2>0, <2>1 DEF Clocked, Now
    <3>2. ToStamp \in Nat
      BY <1>2 DEF ToStamp
    <3>5. \A a, b, l \in Nat : a + (b + 1) <= l => (a + 1) + b <= l /\ a + 1 <= l
      OBVIOUS
    <3>6. 2 * lastId \in Nat
      BY <1>2
    <3>3. clock' = clock + 1 /\ clock' + ToStamp' <= 2 * lastId /\ clock + 1 <= 2 * lastId
      BY <1>1, <1>2, <1>4, <3>1, <3>5, <3>6
    <3>4. QED
      BY <1>1, <1>2, <2>1, <3>1, <3>3 DEF Clocked
  <2>2. CASE ~DistinctStamps
    BY <1>1, <1>2, <2>0, <2>2 DEF Clocked, Now
  <2>3. QED
    BY <2>1, <2>2
<1>6. Now \in Stamps
  BY <1>2, <1>5, StampsAre
<1>7. QED
  BY <1>1, <1>3, <1>5, <1>6 DEF ServerInv, Numbered, PostingLast

LEMMA StoreKeepsServer ==
  ASSUME ServerInv, StoreMessage
  PROVE  /\ ServerInv'
         /\ Len(messages') = Len(messages) + 1
         /\ \A i \in 1 .. Len(messages) : messages'[i] = messages[i]
         /\ messages'[Len(messages) + 1].ts = Now
<1> DEFINE row == [id |-> Head(taskQueue).id, ch |-> Head(taskQueue).ch, ts |-> Now]
<1>1. /\ taskQueue # <<>> /\ taskQueue' = Tail(taskQueue) /\ clock' = Now
      /\ messages' = Append(messages, row)
      /\ lastId' = lastId /\ late' = late /\ posting' = posting
  BY DEF StoreMessage
<1>2. /\ messages \in Seq(Row) /\ Len(messages) <= MaxMessages /\ Len(messages) \in Nat
      /\ taskQueue \in Seq([id : Ids, ch : TextChannels]) /\ Len(taskQueue) \in Nat
      /\ clock \in Nat /\ clock \in Stamps /\ lastId \in 0 .. MaxMessages /\ lastId \in Nat
      /\ MaxMessages \in Nat /\ late \subseteq Ids
      /\ Numbered /\ lastId = Len(messages) + Len(taskQueue)
  BY StampsAre DEF ServerInv, Numbered
<1>3. /\ Head(taskQueue) = taskQueue[1] /\ Head(taskQueue) \in [id : Ids, ch : TextChannels]
      /\ 1 \in 1 .. Len(taskQueue)
      /\ taskQueue' \in Seq([id : Ids, ch : TextChannels])
      /\ Len(taskQueue) >= 1 /\ Len(taskQueue') = Len(taskQueue) - 1
      /\ \A i \in 1 .. Len(taskQueue') :
           taskQueue'[i] = taskQueue[i + 1] /\ i + 1 \in 1 .. Len(taskQueue)
  BY <1>1, <1>2, Taken
<1>4. Clocked' /\ clock' \in Stamps /\ Now \in Stamps
  <2>1. ToStamp = ToStamp' + 1 /\ ToStamp' \in Nat
    BY <1>1, <1>2, <1>3 DEF ToStamp
  <2>2. Clocked' /\ Now \in Nat /\ Now <= 2 * lastId
    BY <1>1, <1>2, <2>1 DEF ServerInv, Clocked, Now
  <2>3. QED
    BY <1>1, <1>2, <2>2, StampsAre
<1>5. row \in Row /\ row.id = Len(messages) + 1 /\ row.ts = Now
  BY <1>2, <1>3, <1>4 DEF Row, Numbered
<1> HIDE DEF row
<1>6. /\ messages' \in Seq(Row) /\ Len(messages') = Len(messages) + 1
      /\ \A i \in 1 .. Len(messages) : messages'[i] = messages[i]
      /\ messages'[Len(messages) + 1] = row
      /\ \A i \in 1 .. Len(messages') : i \in 1 .. Len(messages) \/ i = Len(messages) + 1
  BY <1>1, <1>2, <1>5, Added
<1>7. Numbered'
  <2>1. \A i \in 1 .. Len(messages') : messages'[i].id = i
    BY <1>2, <1>5, <1>6 DEF Numbered
  <2>2. ASSUME NEW i \in 1 .. Len(taskQueue')
        PROVE  taskQueue'[i].id = Len(messages') + i
    <3>1. i \in Nat /\ taskQueue'[i] = taskQueue[i + 1] /\ i + 1 \in 1 .. Len(taskQueue)
      BY <1>3
    <3>2. taskQueue[i + 1].id = Len(messages) + (i + 1)
      BY <1>2, <3>1, Zenon DEF Numbered
    <3>3. QED
      BY <1>2, <1>6, <3>1, <3>2
  <2>3. lastId' = Len(messages') + Len(taskQueue')
    BY <1>1, <1>2, <1>3, <1>6
  <2>4. QED
    BY <2>1, <2>2, <2>3 DEF Numbered
<1>8. PostingLast'
  <2>0. Len(messages) \in Nat /\ Len(messages') = Len(messages) + 1 /\ lastId \in Nat
    BY <1>2, <1>6
  <2>1. CASE lastId <= Len(messages)
    <3>1. Len(taskQueue) = 0
      BY <1>2, <2>1
    <3>2. QED
      BY <1>3, <3>1
  <2>2. CASE lastId > Len(messages) /\ lastId <= Len(messages')
    <3>1. lastId = Len(messages) + 1 /\ lastId - Len(messages) = 1
      BY <2>0, <2>2
    <3>2. ChannelAt(lastId', messages', taskQueue') = row.ch
      BY <1>1, <1>6, <2>2, <3>1 DEF ChannelAt
    <3>3. ChannelAt(lastId, messages, taskQueue) = taskQueue[1].ch
      BY <1>2, <2>2, <3>1 DEF ChannelAt
    <3>4. row.ch = taskQueue[1].ch
      BY <1>3 DEF row
    <3>5. QED
      BY <1>1, <3>2, <3>3, <3>4 DEF PostingLast, ServerInv
  <2>3. CASE lastId > Len(messages')
    <3>1. /\ lastId - Len(messages') \in 1 .. Len(taskQueue')
          /\ (lastId - Len(messages')) + 1 = lastId - Len(messages)
          /\ ~(lastId <= Len(messages')) /\ ~(lastId <= Len(messages))
      BY <1>2, <1>3, <1>6, <2>3
    <3>2. ChannelAt(lastId', messages', taskQueue') = ChannelAt(lastId, messages, taskQueue)
      BY <1>1, <1>3, <3>1 DEF ChannelAt
    <3>3. QED
      BY <1>1, <3>2 DEF PostingLast, ServerInv
  <2>4. QED
    BY <2>0, <2>1, <2>2, <2>3
<1>9. QED
  BY <1>1, <1>2, <1>3, <1>4, <1>5, <1>6, <1>7, <1>8 DEF ServerInv

\* Where a request was, there was a message to count.
LEMMA RoomForChat ==
  ASSUME ServerInv, RequestsInv
  PROVE  /\ lastId \in Nat /\ Len(pendingMessages) \in Nat /\ MaxMessages \in Nat
         /\ Cardinality(ChatsIn(requests)) \in Nat
         /\ requests # <<>> => Cardinality(ChatsIn(Tail(requests))) \in Nat
         /\ requests # <<>> /\ Head(requests).type = "CHAT" => lastId < MaxMessages
         /\ MayWrite <=> lastId + Len(pendingMessages) + Cardinality(ChatsIn(requests)) < MaxMessages
<1>1. lastId \in Nat /\ Len(pendingMessages) \in Nat /\ MaxMessages \in Nat
  BY StampsAre DEF ServerInv, RequestsInv
<1>2. requests \in Seq(Request) /\ Cardinality(ChatsIn(requests)) \in Nat
  BY ChatsCounted DEF RequestsInv
<1>3. requests # <<>> => /\ Cardinality(ChatsIn(Tail(requests))) \in Nat
                         /\ Head(requests).type = "CHAT" => Cardinality(ChatsIn(requests)) >= 1
  <2> SUFFICES ASSUME requests # <<>>
               PROVE  /\ Cardinality(ChatsIn(Tail(requests))) \in Nat
                      /\ Head(requests).type = "CHAT" => Cardinality(ChatsIn(requests)) >= 1
    OBVIOUS
  <2>1. Tail(requests) \in Seq(Request)
    BY <1>2, Taken
  <2>2. Cardinality(ChatsIn(Tail(requests))) \in Nat
    BY <2>1, ChatsCounted
  <2>3. Head(requests).type = "CHAT" =>
          Cardinality(ChatsIn(requests)) = Cardinality(ChatsIn(Tail(requests))) + 1
    BY <1>2, ChatsTaken
  <2>4. QED
    BY <1>2, <2>2, <2>3
<1>4. requests # <<>> /\ Head(requests).type = "CHAT" => lastId < MaxMessages
  BY <1>1, <1>2, <1>3 DEF RequestsInv, Counted
<1>5. ChatRequests = ChatsIn(requests)
  BY DEF ChatRequests, ChatsIn
<1>6. QED
  BY <1>1, <1>2, <1>3, <1>4, <1>5 DEF MayWrite

LEMMA ServerKept ==
  ASSUME ServerInv, RequestsInv, [Next]_vars
  PROVE  ServerInv'
<1>1. \/ \E c \in TextChannels : OtherChat(c)
      \/ HandleChat \/ HandleLog \/ StoreMessage \/ Tick \/ (\E c \in TextChannels : Broadcast(c))
      \/ UNCHANGED server
  BY DEF Next, UserNext, SystemNext, vars, Select, Type, RequestOlder, OnAppendMessage,
         OnSetHistory, OnPrependHistory, Receive, WakeTextChannel, WakeMessage, WakeHistory,
         HandleBefore
<1>2. CASE \E c \in TextChannels : OtherChat(c)
  <2>1. PICK c \in TextChannels : OtherChat(c)
    BY <1>2
  <2>2. PostChat(c) /\ MayWrite
    BY <2>1 DEF OtherChat
  <2>3. lastId < MaxMessages
    BY <2>2, RoomForChat
  <2>4. QED
    BY <2>2, <2>3, PostKeepsServer
<1>3. CASE HandleChat
  <2>1. requests # <<>> /\ Head(requests).type = "CHAT" /\ PostChat(Head(requests).ch)
    BY <1>3 DEF HandleChat, Handle
  <2>2. Head(requests) \in Request
    BY <2>1, Taken DEF RequestsInv
  <2>3. lastId < MaxMessages
    BY <2>1, RoomForChat
  <2>4. QED
    BY <2>1, <2>2, <2>3, RequestParts, PostKeepsServer
<1>4. CASE HandleLog
  <2>1. /\ late' = late \cup {taskQueue[i].id : i \in 1 .. Len(taskQueue)}
        /\ messages' = messages /\ taskQueue' = taskQueue /\ clock' = clock /\ lastId' = lastId
        /\ posting' = posting
    BY <1>4 DEF HandleLog
  <2>2. taskQueue \in Seq([id : Ids, ch : TextChannels]) /\ late \subseteq Ids
    BY DEF ServerInv
  <2>3. \A i \in 1 .. Len(taskQueue) : taskQueue[i].id \in Ids
    <3>1. \A i \in 1 .. Len(taskQueue) : taskQueue[i] \in [id : Ids, ch : TextChannels]
      BY <2>2, Members
    <3>2. \A task \in [id : Ids, ch : TextChannels] : task.id \in Ids
      OBVIOUS
    <3>3. QED
      BY <3>1, <3>2
  <2>4. late' \subseteq Ids
    BY <2>1, <2>2, <2>3
  <2>5. QED
    BY <2>1, <2>4 DEF ServerInv, Numbered, Clocked, ToStamp, PostingLast
<1>5. CASE StoreMessage
  BY <1>5, StoreKeepsServer
<1>6. CASE Tick
  <2>1. /\ clock < 2 * lastId - Len(OldMessages) /\ clock' = clock + 1 /\ ~DistinctStamps
        /\ messages' = messages /\ taskQueue' = taskQueue /\ lastId' = lastId /\ late' = late
        /\ posting' = posting
    BY <1>6 DEF Tick
  <2>2. /\ clock \in Nat /\ lastId \in Nat /\ lastId <= MaxMessages /\ Len(messages) \in Nat
        /\ Len(messages) <= MaxMessages /\ Len(OldMessages) \in Nat /\ MaxMessages \in Nat
    BY StampsAre, ChatAssumption DEF ServerInv
  <2>3. clock' <= 2 * lastId /\ clock' \in Nat /\ clock' <= 2 * MaxMessages
    BY <2>1, <2>2
  <2>4. QED
    <3>1. clock' \in Stamps
      BY <2>3, StampsAre
    <3>2. Clocked'
      BY <2>1, <2>2, <2>3 DEF Clocked
    <3>3. QED
      BY <2>1, <3>1, <3>2 DEF ServerInv, Numbered, PostingLast
<1>7. CASE UNCHANGED server
  <2>1. /\ messages' = messages /\ taskQueue' = taskQueue /\ clock' = clock
        /\ lastId' = lastId /\ late' = late /\ posting' = posting
    BY <1>7 DEF server
  <2>2. QED
    BY <2>1 DEF ServerInv, Numbered, Clocked, ToStamp, PostingLast
<1>8. CASE \E c \in TextChannels : Broadcast(c)
  BY <1>8, BroadcastKeepsServer
<1>9. QED
  BY <1>1, <1>2, <1>3, <1>4, <1>5, <1>6, <1>7, <1>8

\* A request more: the count goes up with a message and stays otherwise.
LEMMA Sent ==
  ASSUME requests \in Seq(Request), NEW r \in Request, requests' = Append(requests, r)
  PROVE  /\ requests' \in Seq(Request)
         /\ Cardinality(ChatsIn(requests')) =
              Cardinality(ChatsIn(requests)) + (IF r.type = "CHAT" THEN 1 ELSE 0)
<1>1. requests' \in Seq(Request)
  BY Added
<1>2. ChatsIn(requests') = ChatsIn(Append(requests, r))
  BY DEF ChatsIn
<1>3. QED
  BY <1>1, <1>2, ChatsAdded

LEMMA Handled ==
  ASSUME requests \in Seq(Request), NEW type, Handle(type)
  PROVE  /\ Head(requests) \in Request /\ Head(requests).type = type
         /\ requests' \in Seq(Request)
         /\ Cardinality(ChatsIn(requests)) =
              Cardinality(ChatsIn(requests')) + (IF type = "CHAT" THEN 1 ELSE 0)
<1>1. requests # <<>> /\ Head(requests).type = type /\ requests' = Tail(requests)
  BY DEF Handle
<1>2. Head(requests) \in Request /\ requests' \in Seq(Request)
  BY <1>1, Taken
<1>3. ChatsIn(requests') = ChatsIn(Tail(requests))
  BY <1>1 DEF ChatsIn
<1>4. QED
  BY <1>1, <1>2, <1>3, ChatsTaken

LEMMA RequestsKept ==
  ASSUME HistoryInv, [Next]_vars
  PROVE  RequestsInv'
<1> DEFINE chats == Cardinality(ChatsIn(requests))
           typed == Len(pendingMessages)
<1>1. /\ requests \in Seq(Request) /\ chats \in Nat
      /\ pendingMessages \in Seq(TextChannels) /\ typed \in Nat
      /\ pendingHistory \in Seq([ch : TextChannels, before : Stamps])
      /\ control \in [pc : {"idle", "chat", "history"}, ch : TextChannels]
      /\ control.ch \in TextChannels
      /\ current \in TextChannels /\ selected \in TextChannels
      /\ lastId \in Nat /\ MaxMessages \in Nat
      /\ lastId + typed + chats <= MaxMessages
  BY RoomForChat DEF HistoryInv, RequestsInv, ViewInv, Counted
<1> DEFINE Kept == /\ requests' \in Seq(Request)
                   /\ pendingMessages' \in Seq(TextChannels)
                   /\ pendingHistory' \in Seq([ch : TextChannels, before : Stamps])
                   /\ control' \in [pc : {"idle", "chat", "history"}, ch : TextChannels]
                   /\ current' \in TextChannels
                   /\ lastId' + Len(pendingMessages') + Cardinality(ChatsIn(requests')) <= MaxMessages
<1> SUFFICES Kept
  BY DEF RequestsInv, Counted, ChatsIn
<1>2. requests' = requests => Cardinality(ChatsIn(requests')) = chats
  BY DEF ChatsIn
<1> HIDE DEF chats, typed
<1>3. \/ Type \/ RequestOlder \/ WakeTextChannel \/ WakeMessage \/ WakeHistory
      \/ HandleChat \/ HandleLog \/ HandleBefore \/ \E c \in TextChannels : OtherChat(c)
      \/ UNCHANGED <<requests, pendingMessages, pendingHistory, control, current, lastId>>
  BY DEF Next, UserNext, SystemNext, vars, server, queues, controlVars, Select, OnAppendMessage,
         OnSetHistory, OnPrependHistory, Receive, Broadcast, StoreMessage, Tick
<1>4. CASE UNCHANGED <<requests, pendingMessages, pendingHistory, control, current, lastId>>
  BY <1>1, <1>2, <1>4 DEF typed
<1>5. CASE Type
  <2>1. /\ MayWrite /\ pendingMessages' = Append(pendingMessages, selected)
        /\ UNCHANGED <<requests, pendingHistory, control, current, lastId>>
    BY <1>5 DEF Type, server, controlVars
  <2>2. pendingMessages' \in Seq(TextChannels) /\ Len(pendingMessages') = typed + 1
    BY <1>1, <2>1, Added DEF typed
  <2>3. lastId + typed + chats < MaxMessages
    BY <2>1, RoomForChat DEF HistoryInv, chats, typed
  <2>4. QED
    BY <1>1, <1>2, <2>1, <2>2, <2>3
<1>6. CASE RequestOlder
  <2>1. /\ model # <<>>
        /\ pendingHistory' = Append(pendingHistory, [ch |-> selected, before |-> model[1].ts])
        /\ UNCHANGED <<requests, pendingMessages, control, current, lastId>>
    BY <1>6 DEF RequestOlder, server, controlVars
  <2>2. model[1] \in Row
    BY <2>1, Taken DEF HistoryInv, ViewInv
  <2>3. [ch |-> selected, before |-> model[1].ts] \in [ch : TextChannels, before : Stamps]
    BY <1>1, <2>2 DEF Row
  <2>4. pendingHistory' \in Seq([ch : TextChannels, before : Stamps])
    BY <1>1, <2>1, <2>3, Added
  <2>5. QED
    BY <1>1, <1>2, <2>1, <2>4 DEF typed
<1>7. CASE WakeTextChannel
  <2>1. /\ control' = [pc |-> "chat", ch |-> selected] /\ current' = selected
        /\ requests' = IF selected # current THEN Append(requests, Log(selected)) ELSE requests
        /\ UNCHANGED <<pendingMessages, pendingHistory, lastId>>
    BY <1>7 DEF WakeTextChannel, server, queues
  <2>2. Log(selected) \in Request /\ Log(selected).type # "CHAT"
    BY <1>1 DEF Log, Request
  <2>3. requests' \in Seq(Request) /\ Cardinality(ChatsIn(requests')) = chats
    <3>1. CASE selected # current
      BY <1>1, <2>1, <2>2, <3>1, Sent DEF chats
    <3>2. CASE selected = current
      BY <1>1, <1>2, <2>1, <3>2
    <3>3. QED
      BY <3>1, <3>2
  <2>4. QED
    BY <1>1, <2>1, <2>3 DEF typed
<1>8. CASE WakeMessage
  <2>1. /\ control' = [control EXCEPT !.pc = "history"]
        /\ UNCHANGED <<pendingHistory, current, lastId>>
    BY <1>8 DEF WakeMessage, server
  <2>2. control' \in [pc : {"idle", "chat", "history"}, ch : TextChannels]
    BY <1>1, <2>1
  <2>3. CASE pendingMessages # <<>>
    <3>1. /\ requests' = Append(requests, Chat(control.ch, Head(pendingMessages)))
          /\ pendingMessages' = Tail(pendingMessages)
      BY <1>8, <2>3 DEF WakeMessage
    <3>2. /\ Head(pendingMessages) \in TextChannels
          /\ pendingMessages' \in Seq(TextChannels) /\ Len(pendingMessages') = typed - 1
      BY <1>1, <2>3, <3>1, Taken DEF typed
    <3>3. /\ Chat(control.ch, Head(pendingMessages)) \in Request
          /\ Chat(control.ch, Head(pendingMessages)).type = "CHAT"
      BY <1>1, <3>2 DEF Chat, Request
    <3>4. requests' \in Seq(Request) /\ Cardinality(ChatsIn(requests')) = chats + 1
      BY <1>1, <3>1, <3>3, Sent DEF chats
    <3>5. QED
      BY <1>1, <2>1, <2>2, <3>2, <3>4
  <2>4. CASE pendingMessages = <<>>
    <3>1. UNCHANGED <<requests, pendingMessages>>
      BY <1>8, <2>4 DEF WakeMessage
    <3>2. QED
      BY <1>1, <1>2, <2>1, <2>2, <3>1 DEF typed
  <2>5. QED
    BY <2>3, <2>4
<1>9. CASE WakeHistory
  <2>1. /\ control' = [control EXCEPT !.pc = "idle"]
        /\ UNCHANGED <<pendingMessages, current, lastId>>
    BY <1>9 DEF WakeHistory, server
  <2>2. control' \in [pc : {"idle", "chat", "history"}, ch : TextChannels]
    BY <1>1, <2>1
  <2>3. CASE pendingHistory # <<>>
    <3> DEFINE asked == Head(pendingHistory)
    <3>1. /\ requests' = Append(requests, Before(asked.ch, asked.before))
          /\ pendingHistory' = Tail(pendingHistory)
      BY <1>9, <2>3 DEF WakeHistory
    <3>2. /\ asked \in [ch : TextChannels, before : Stamps]
          /\ pendingHistory' \in Seq([ch : TextChannels, before : Stamps])
      BY <1>1, <2>3, <3>1, Taken
    <3> HIDE DEF asked
    <3>3. /\ Before(asked.ch, asked.before) \in Request
          /\ Before(asked.ch, asked.before).type # "CHAT"
      BY <3>2 DEF Before, Request
    <3>4. requests' \in Seq(Request) /\ Cardinality(ChatsIn(requests')) = chats
      BY <1>1, <3>1, <3>3, Sent DEF chats
    <3>5. QED
      BY <1>1, <2>1, <2>2, <3>2, <3>4 DEF typed
  <2>4. CASE pendingHistory = <<>>
    <3>1. UNCHANGED <<requests, pendingHistory>>
      BY <1>9, <2>4 DEF WakeHistory
    <3>2. QED
      BY <1>1, <1>2, <2>1, <2>2, <3>1 DEF typed
  <2>5. QED
    BY <2>3, <2>4
<1>10. CASE HandleChat
  <2>1. /\ Handle("CHAT") /\ lastId' = lastId + 1
        /\ UNCHANGED <<pendingMessages, pendingHistory, control, current>>
    BY <1>10 DEF HandleChat, PostChat, queues, controlVars
  <2>2. requests' \in Seq(Request) /\ chats = Cardinality(ChatsIn(requests')) + 1
    BY <1>1, <2>1, Handled DEF chats
  <2>3. Cardinality(ChatsIn(requests')) \in Nat
    BY <2>2, ChatsCounted
  <2>4. QED
    BY <1>1, <2>1, <2>2, <2>3 DEF typed
<1>11. CASE HandleLog \/ HandleBefore
  <2>1. /\ Handle("REQ_CHAT_LOG") \/ Handle("REQ_CHAT_LOG_BEFORE")
        /\ UNCHANGED <<pendingMessages, pendingHistory, control, current, lastId>>
    BY <1>11 DEF HandleLog, HandleBefore, server, queues, controlVars
  <2>2. requests' \in Seq(Request) /\ chats = Cardinality(ChatsIn(requests')) + 0
    BY <1>1, <2>1, Handled DEF chats
  <2>3. Cardinality(ChatsIn(requests')) \in Nat
    BY <2>2, ChatsCounted
  <2>4. QED
    BY <1>1, <2>1, <2>2, <2>3 DEF typed
<1>12. CASE \E c \in TextChannels : OtherChat(c)
  <2>1. /\ MayWrite /\ lastId' = lastId + 1
        /\ UNCHANGED <<requests, pendingMessages, pendingHistory, control, current>>
    BY <1>12 DEF OtherChat, PostChat, queues, controlVars
  <2>2. lastId + typed + chats < MaxMessages
    BY <2>1, RoomForChat DEF HistoryInv, chats, typed
  <2>3. QED
    BY <1>1, <1>2, <2>1, <2>2 DEF typed
<1>13. QED
  BY <1>3, <1>4, <1>5, <1>6, <1>7, <1>8, <1>9, <1>10, <1>11, <1>12

\* A push more, and a push less.
LEMMA PushAdded ==
  ASSUME PushesInv, NEW p \in Push, OfItsChannel(p), pushes' = Append(pushes, p)
  PROVE  PushesInv'
<1>1. pushes \in Seq(Push)
  BY DEF PushesInv
<1>2. /\ pushes' \in Seq(Push)
      /\ \A i \in 1 .. Len(pushes) : pushes'[i] = pushes[i]
      /\ pushes'[Len(pushes) + 1] = p
      /\ \A i \in 1 .. Len(pushes') : i \in 1 .. Len(pushes) \/ i = Len(pushes) + 1
  BY <1>1, Added
<1>3. \A i \in 1 .. Len(pushes') : OfItsChannel(pushes'[i])
  <2>1. \A i \in 1 .. Len(pushes) : OfItsChannel(pushes[i])
    BY DEF PushesInv
  <2>2. QED
    BY <1>2, <2>1
<1>4. QED
  BY <1>2, <1>3 DEF PushesInv

LEMMA PushRead ==
  ASSUME PushesInv, NEW type, Receive(type)
  PROVE  /\ PushesInv'
         /\ Head(pushes) \in Push /\ Head(pushes).type = type /\ OfItsChannel(Head(pushes))
<1>1. pushes \in Seq(Push) /\ pushes # <<>> /\ Head(pushes).type = type /\ pushes' = Tail(pushes)
  BY DEF PushesInv, Receive
<1>2. /\ Head(pushes) = pushes[1] /\ 1 \in 1 .. Len(pushes) /\ Head(pushes) \in Push
      /\ pushes' \in Seq(Push)
      /\ \A i \in 1 .. Len(pushes') : pushes'[i] = pushes[i + 1] /\ i + 1 \in 1 .. Len(pushes)
  BY <1>1, Taken
<1>3. \A i \in 1 .. Len(pushes) : OfItsChannel(pushes[i])
  BY DEF PushesInv
<1>4. \A i \in 1 .. Len(pushes') : OfItsChannel(pushes'[i])
  BY <1>2, <1>3
<1>5. QED
  BY <1>1, <1>2, <1>3, <1>4 DEF PushesInv

\* The rows of a page are of the channel it was asked for.
LEMMA AnswerFits ==
  ASSUME ServerInv, NEW type \in {"CHAT_LOG", "CHAT_LOG_MORE"}, NEW c \in TextChannels,
         NEW rows \in SUBSET RowsOf(c), NEW more \in BOOLEAN
  PROVE  LET p == [type |-> type, ch |-> c, rows |-> PageOf(rows), hasMore |-> more]
         IN  p \in Push /\ OfItsChannel(p)
<1> DEFINE page == PageOf(rows)
           p == [type |-> type, ch |-> c, rows |-> page, hasMore |-> more]
<1>1. messages \in Seq(Row) /\ rows \in SUBSET (1 .. Len(messages))
  BY DEF ServerInv, RowsOf
<1>2. /\ page \in Seq(Row)
      /\ \A k \in 1 .. Len(page) : \E i \in rows : page[k] = messages[i]
  BY <1>1, PageListed
<1> HIDE DEF page
<1>3. p \in Push
  BY <1>2 DEF Push
<1>4. \A k \in 1 .. Len(page) : page[k].ch = c
  BY <1>2 DEF RowsOf
<1>5. OfItsChannel(p)
  BY <1>4 DEF OfItsChannel
<1>6. QED
  BY <1>3, <1>5 DEF page

LEMMA BroadcastFits ==
  ASSUME ServerInv, NEW c \in TextChannels, Broadcast(c), PushesInv
  PROVE  PushesInv'
<1> DEFINE row == [id |-> lastId, ch |-> c, ts |-> Now]
           p == [type |-> "PUSH_CHAT", ch |-> c, row |-> row]
<1>1. pushes' = Append(pushes, p)
  BY DEF Broadcast
<1>2. row \in Row
  BY BroadcastKeepsServer DEF Row
<1>3. p \in Push /\ OfItsChannel(p)
  BY <1>2 DEF Push, OfItsChannel
<1> HIDE DEF p
<1>4. QED
  BY <1>1, <1>3, PushAdded

LEMMA PushesKept ==
  ASSUME HistoryInv, [Next]_vars
  PROVE  PushesInv'
<1>0. ServerInv /\ RequestsInv /\ PushesInv /\ requests \in Seq(Request)
  BY DEF HistoryInv, RequestsInv
<1>1. \/ \E type \in {"PUSH_CHAT", "CHAT_LOG", "CHAT_LOG_MORE"} : Receive(type)
      \/ HandleLog \/ HandleBefore \/ \E c \in TextChannels : Broadcast(c)
      \/ pushes' = pushes
  BY DEF Next, UserNext, SystemNext, vars, Select, Type, RequestOlder, OnAppendMessage,
         OnSetHistory, OnPrependHistory, WakeTextChannel, WakeMessage, WakeHistory,
         HandleChat, OtherChat, PostChat, StoreMessage, Tick
<1>2. CASE \E type \in {"PUSH_CHAT", "CHAT_LOG", "CHAT_LOG_MORE"} : Receive(type)
  BY <1>0, <1>2, PushRead
<1>4. CASE HandleLog
  <2> DEFINE c == Head(requests).ch
             rows == RowsOf(c)
             more == Cardinality(rows) > PageSize
             p == [type |-> "CHAT_LOG", ch |-> c, rows |-> PageOf(rows), hasMore |-> more]
  <2>1. Handle("REQ_CHAT_LOG") /\ pushes' = Append(pushes, p)
    BY <1>4 DEF HandleLog, Answer, PageOf
  <2>2. c \in TextChannels
    BY <1>0, <2>1, Handled, RequestParts
  <2>3. rows \in SUBSET RowsOf(c) /\ more \in BOOLEAN
    OBVIOUS
  <2> HIDE DEF c, rows, more
  <2>4. p \in Push /\ OfItsChannel(p)
    BY <1>0, <2>2, <2>3, AnswerFits
  <2> HIDE DEF p
  <2>5. QED
    BY <1>0, <2>1, <2>4, PushAdded
<1>5. CASE HandleBefore
  <2> DEFINE c == Head(requests).ch
             rows == RowsBefore(c, Head(requests).before)
             more == Cardinality(rows) > PageSize
             p == [type |-> "CHAT_LOG_MORE", ch |-> c, rows |-> PageOf(rows), hasMore |-> more]
  <2>1. Handle("REQ_CHAT_LOG_BEFORE") /\ pushes' = Append(pushes, p)
    BY <1>5 DEF HandleBefore, Answer, PageOf
  <2>2. c \in TextChannels
    BY <1>0, <2>1, Handled, RequestParts
  <2>3. rows \in SUBSET RowsOf(c) /\ more \in BOOLEAN
    BY DEF RowsBefore
  <2> HIDE DEF c, rows, more
  <2>4. p \in Push /\ OfItsChannel(p)
    BY <1>0, <2>2, <2>3, AnswerFits
  <2> HIDE DEF p
  <2>5. QED
    BY <1>0, <2>1, <2>4, PushAdded
<1>6. CASE \E c \in TextChannels : Broadcast(c)
  BY <1>0, <1>6, BroadcastFits
<1>7. CASE pushes' = pushes
  BY <1>0, <1>7 DEF PushesInv
<1>8. QED
  BY <1>1, <1>2, <1>4, <1>5, <1>6, <1>7

\* Trimming keeps the newest rows, in their order.
LEMMA TrimmedRows ==
  ASSUME NEW rows \in Seq(Row)
  PROVE  /\ Trimmed(rows) \in Seq(Row)
         /\ \E k \in 0 .. Len(rows) :
              /\ rows # <<>> => k < Len(rows)
              /\ Len(rows) <= MemoryLimit => k = 0
              /\ Len(Trimmed(rows)) = Len(rows) - k
              /\ \A i \in 1 .. Len(Trimmed(rows)) :
                   i + k \in 1 .. Len(rows) /\ Trimmed(rows)[i] = rows[i + k]
<1> DEFINE first == IF Len(rows) > MemoryLimit THEN Len(rows) - MemoryLimit + 1 ELSE 1
<1>1. Len(rows) \in Nat /\ first \in 1 .. Len(rows) + 1
  BY ChatAssumption
<1>2. Trimmed(rows) = SubSeq(rows, first, Len(rows))
  BY DEF Trimmed
<1> HIDE DEF first
<1>3. \A i \in first .. Len(rows) : rows[i] \in Row
  BY <1>1, Members
<1>4. /\ Trimmed(rows) \in Seq(Row)
      /\ Len(Trimmed(rows)) = Len(rows) - (first - 1)
      /\ \A i \in 1 .. Len(Trimmed(rows)) :
           i + (first - 1) \in 1 .. Len(rows) /\ Trimmed(rows)[i] = rows[i + (first - 1)]
  <2>1. /\ SubSeq(rows, first, Len(rows)) \in Seq(Row)
        /\ Len(SubSeq(rows, first, Len(rows))) =
             IF first <= Len(rows) THEN Len(rows) - first + 1 ELSE 0
        /\ \A i \in 1 .. Len(rows) - first + 1 :
             SubSeq(rows, first, Len(rows))[i] = rows[first + i - 1]
    BY <1>1, <1>3, SubSeqProperties
  <2>2. Len(Trimmed(rows)) = Len(rows) - (first - 1)
    BY <1>1, <1>2, <2>1
  <2>3. ASSUME NEW i \in 1 .. Len(Trimmed(rows))
        PROVE  i + (first - 1) \in 1 .. Len(rows) /\ Trimmed(rows)[i] = rows[i + (first - 1)]
    <3>1. i \in 1 .. Len(rows) - first + 1 /\ first + i - 1 = i + (first - 1)
      BY <1>1, <2>2
    <3>2. Trimmed(rows)[i] = rows[first + i - 1]
      BY <1>2, <2>1, <3>1
    <3>3. QED
      BY <1>1, <3>1, <3>2
  <2>4. QED
    BY <1>2, <2>1, <2>2, <2>3
<1>5. /\ first - 1 \in 0 .. Len(rows)
      /\ rows # <<>> => first - 1 < Len(rows)
      /\ Len(rows) <= MemoryLimit => first - 1 = 0
  <2>1. rows # <<>> => Len(rows) >= 1
    OBVIOUS
  <2>2. MemoryLimit \in Nat /\ MemoryLimit >= 1
    BY ChatAssumption
  <2>3. QED
    BY <1>1, <2>1, <2>2 DEF first
<1>6. QED
  BY <1>4, <1>5

LEMMA ViewKept ==
  ASSUME HistoryInv, [Next]_vars
  PROVE  ViewInv'
<1>0. /\ PushesInv /\ selected \in TextChannels /\ loaded \in TextChannels \cup {NoChannel}
      /\ model \in Seq(Row) /\ hasMore \in BOOLEAN /\ inFlight \in BOOLEAN
      /\ switches \in 0 .. MaxSwitches /\ cut \in BOOLEAN
      /\ paged \in BOOLEAN /\ misdated \in BOOLEAN
      /\ \A i \in 1 .. Len(model) : model[i].ch = loaded
  BY DEF HistoryInv, ViewInv, RowsOfLoaded
<1>1. \/ \E c \in TextChannels : Select(c)
      \/ RequestOlder \/ OnAppendMessage \/ OnSetHistory \/ OnPrependHistory
      \/ UNCHANGED view
  BY DEF Next, UserNext, SystemNext, vars, Type, WakeTextChannel, WakeMessage, WakeHistory,
         HandleChat, HandleLog, HandleBefore, OtherChat, PostChat, Broadcast, StoreMessage,
         Tick
<1>2. CASE \E c \in TextChannels : Select(c)
  <2>1. PICK c \in TextChannels : Select(c)
    BY <1>2
  <2>2. /\ selected' = c /\ switches < MaxSwitches /\ switches' = switches + 1
        /\ loaded' = loaded /\ cut' = cut /\ paged' = FALSE /\ misdated' = misdated
        /\ \/ model' = <<>> /\ hasMore' = FALSE /\ inFlight' = FALSE
           \/ UNCHANGED <<model, hasMore, inFlight>>
    BY <2>1 DEF Select
  <2>3. switches' \in 0 .. MaxSwitches
    BY <1>0, <2>2, ChatAssumption
  <2>4. model' \in Seq(Row) /\ RowsOfLoaded'
    <3>1. CASE model' = <<>>
      <4>1. model' \in Seq(Row) /\ Len(model') = 0
        BY <3>1
      <4>2. QED
        BY <4>1 DEF RowsOfLoaded
    <3>2. CASE model' = model
      BY <1>0, <2>2, <3>2 DEF RowsOfLoaded
    <3>3. QED
      BY <2>2, <3>1, <3>2
  <2>5. hasMore' \in BOOLEAN /\ inFlight' \in BOOLEAN
    BY <1>0, <2>2
  <2>6. QED
    BY <1>0, <2>2, <2>3, <2>4, <2>5 DEF ViewInv
<1>3. CASE RequestOlder
  <2>1. /\ UNCHANGED <<selected, loaded, model, hasMore, paged, switches, cut>>
        /\ inFlight' = TRUE
    BY <1>3 DEF RequestOlder
  <2>2. misdated' \in BOOLEAN
    BY <1>3, Zenon DEF RequestOlder
  <2>3. QED
    BY <1>0, <2>1, <2>2 DEF ViewInv, RowsOfLoaded
<1>4. CASE OnAppendMessage
  <2>1. /\ Receive("PUSH_CHAT")
        /\ UNCHANGED <<selected, loaded, hasMore, inFlight, paged, switches, misdated>>
        /\ model' = IF Head(pushes).ch = loaded THEN Trimmed(Append(model, Head(pushes).row))
                    ELSE model
    BY <1>4 DEF OnAppendMessage, Receive
  <2>2. Head(pushes) \in Push /\ Head(pushes).type = "PUSH_CHAT" /\ OfItsChannel(Head(pushes))
    BY <1>0, <2>1, PushRead
  <2>3. Head(pushes).row \in Row /\ Head(pushes).row.ch = Head(pushes).ch
    BY <2>2, PushParts DEF OfItsChannel
  <2>4. cut' \in BOOLEAN
    BY <1>4, Zenon DEF OnAppendMessage
  <2>5. model' \in Seq(Row) /\ RowsOfLoaded'
    <3>1. CASE Head(pushes).ch = loaded
      <4> DEFINE longer == Append(model, Head(pushes).row)
      <4>1. longer \in Seq(Row) /\ \A i \in 1 .. Len(longer) : longer[i].ch = loaded
        BY <1>0, <2>3, <3>1, Added
      <4> HIDE DEF longer
      <4>2. Trimmed(longer) \in Seq(Row) /\ \A i \in 1 .. Len(Trimmed(longer)) : Trimmed(longer)[i].ch = loaded
        <5>1. PICK k \in 0 .. Len(longer) :
                \A i \in 1 .. Len(Trimmed(longer)) :
                  i + k \in 1 .. Len(longer) /\ Trimmed(longer)[i] = longer[i + k]
          BY <4>1, TrimmedRows
        <5>2. Trimmed(longer) \in Seq(Row)
          BY <4>1, TrimmedRows
        <5>3. QED
          BY <4>1, <5>1, <5>2
      <4>3. model' = Trimmed(longer) /\ loaded' = loaded
        BY <2>1, <3>1 DEF longer
      <4>4. QED
        BY <4>2, <4>3 DEF RowsOfLoaded
    <3>2. CASE Head(pushes).ch # loaded
      BY <1>0, <2>1, <3>2 DEF RowsOfLoaded
    <3>3. QED
      BY <3>1, <3>2
  <2>6. QED
    BY <1>0, <2>1, <2>4, <2>5 DEF ViewInv
<1>5. CASE OnSetHistory
  <2>1. /\ Receive("CHAT_LOG")
        /\ UNCHANGED <<selected, inFlight, switches, cut, misdated>>
        /\ paged' = TRUE \/ paged' = paged
        /\ IF Head(pushes).ch = selected
             THEN model' = Head(pushes).rows /\ loaded' = Head(pushes).ch /\ hasMore' = Head(pushes).hasMore
             ELSE UNCHANGED <<model, loaded, hasMore>>
    BY <1>5 DEF OnSetHistory, Receive
  <2>2. Head(pushes) \in Push /\ Head(pushes).type = "CHAT_LOG" /\ OfItsChannel(Head(pushes))
    BY <1>0, <2>1, PushRead
  <2>3. /\ Head(pushes).ch \in TextChannels /\ Head(pushes).rows \in Seq(Row)
        /\ Head(pushes).hasMore \in BOOLEAN
        /\ \A k \in 1 .. Len(Head(pushes).rows) : Head(pushes).rows[k].ch = Head(pushes).ch
    BY <2>2, PushParts DEF OfItsChannel
  <2>4. hasMore' \in BOOLEAN
    BY <1>0, <2>1, <2>3
  <2>5. loaded' \in TextChannels \cup {NoChannel} /\ model' \in Seq(Row) /\ RowsOfLoaded'
    BY <1>0, <2>1, <2>3 DEF RowsOfLoaded
  <2>6. QED
    BY <1>0, <2>1, <2>4, <2>5 DEF ViewInv
<1>6. CASE OnPrependHistory
  <2>1. /\ Receive("CHAT_LOG_MORE") /\ inFlight' = FALSE
        /\ UNCHANGED <<selected, loaded, paged, switches, cut, misdated>>
        /\ IF Head(pushes).ch = loaded
             THEN model' = Head(pushes).rows \o model /\ hasMore' = Head(pushes).hasMore
             ELSE UNCHANGED <<model, hasMore>>
    BY <1>6 DEF OnPrependHistory, Receive
  <2>2. Head(pushes) \in Push /\ Head(pushes).type = "CHAT_LOG_MORE" /\ OfItsChannel(Head(pushes))
    BY <1>0, <2>1, PushRead
  <2> DEFINE rows == Head(pushes).rows
  <2>3. /\ Head(pushes).ch \in TextChannels /\ rows \in Seq(Row)
        /\ Head(pushes).hasMore \in BOOLEAN
        /\ \A k \in 1 .. Len(rows) : rows[k].ch = Head(pushes).ch
    BY <2>2, PushParts DEF OfItsChannel
  <2>4. hasMore' \in BOOLEAN
    BY <1>0, <2>1, <2>3
  <2>5. model' \in Seq(Row) /\ RowsOfLoaded'
    <3>1. CASE Head(pushes).ch = loaded
      <4>1. model' = rows \o model
        BY <2>1, <3>1
      <4> HIDE DEF rows
      <4>2. /\ rows \o model \in Seq(Row) /\ Len(rows \o model) = Len(rows) + Len(model)
            /\ \A i \in 1 .. Len(rows) + Len(model) :
                 (rows \o model)[i] = IF i <= Len(rows) THEN rows[i] ELSE model[i - Len(rows)]
        BY <1>0, <2>3, ConcatProperties
      <4>3. Len(rows) \in Nat /\ Len(model) \in Nat
        BY <1>0, <2>3
      <4>4. \A i \in 1 .. Len(model') : model'[i].ch = loaded
        BY <1>0, <2>3, <3>1, <4>1, <4>2, <4>3
      <4>5. QED
        BY <2>1, <4>1, <4>2, <4>4 DEF RowsOfLoaded
    <3>2. CASE Head(pushes).ch # loaded
      <4>1. model' = model /\ loaded' = loaded
        BY <2>1, <3>2
      <4>2. QED
        BY <1>0, <4>1 DEF RowsOfLoaded
    <3>3. QED
      BY <3>1, <3>2
  <2>6. QED
    BY <1>0, <2>1, <2>4, <2>5 DEF ViewInv
<1>7. CASE UNCHANGED view
  BY <1>0, <1>7 DEF view, ViewInv, RowsOfLoaded
<1>8. QED
  BY <1>1, <1>2, <1>3, <1>4, <1>5, <1>6, <1>7

LEMMA HistoryKept == HistoryInv /\ [Next]_vars => HistoryInv'
BY ServerKept, RequestsKept, PushesKept, ViewKept DEF HistoryInv

LEMMA HistoryAlways == Spec => []HistoryInv
<1>1. Init => HistoryInv
  BY InitHistory
<1>2. HistoryInv /\ [Next]_vars => HistoryInv'
  BY HistoryKept
<1>3. QED
  BY <1>1, <1>2, PTL DEF Spec

\* Whatever the user, the control loop, the server and the other clients do, the state
\* stays within its types; the bounds of the model (numbers, stamps) are never left.
THEOREM TypeCorrect == Spec => []TypeOK
BY HistoryAlways, InvTyped, PTL

\* However fast the user switches and however late pages and broadcasts come, the rows
\* of m_chatMessageModel are those of m_loadedChannelId.
THEOREM OneChannelShown == Spec => []RowsOfLoaded
<1>1. HistoryInv => RowsOfLoaded
  BY DEF HistoryInv, ViewInv
<1>2. QED
  BY <1>1, HistoryAlways, PTL

-----------------------------------------------------------------------------
(* What was sent, and the stamps it bears.                                 *)

\* The channels of the messages broadcast so far, stored or not.
Told == IF posting = NoChannel THEN lastId ELSE lastId - 1
sent == [m \in 1 .. Told |-> ChannelAt(m, messages, taskQueue)]

\* A row is a message that was broadcast.  Its stamp is past, and the messages behind it
\* are stored with no earlier one.
Anchored(row, table, now, channels) ==
    /\ row.id \in 1 .. Len(channels) /\ channels[row.id] = row.ch
    /\ row.ts <= now
    /\ \A j \in 1 .. Len(table) : row.id < j => row.ts <= table[j].ts

LEMMA SentTyped ==
  ASSUME ServerInv
  PROVE  /\ sent \in Seq(TextChannels) /\ Len(sent) = Told /\ Told \in Nat /\ Told <= lastId
         /\ posting = NoChannel => Told = lastId
         /\ \A i \in 1 .. Len(messages) : messages[i].id = i
         /\ \A i \in 1 .. Len(messages) : i <= Told => sent[i] = messages[i].ch
         /\ Len(messages) <= lastId
<1>1. /\ messages \in Seq(Row) /\ Len(messages) \in Nat
      /\ taskQueue \in Seq([id : Ids, ch : TextChannels]) /\ Len(taskQueue) \in Nat
      /\ lastId = Len(messages) + Len(taskQueue) /\ lastId \in Nat
  BY DEF ServerInv, Numbered
<1>2. /\ \A i \in 1 .. Len(messages) : messages[i] \in Row
      /\ \A i \in 1 .. Len(taskQueue) : taskQueue[i] \in [id : Ids, ch : TextChannels]
  BY <1>1, Members
<1>3. /\ \A i \in 1 .. Len(messages) : messages[i].ch \in TextChannels
      /\ \A i \in 1 .. Len(taskQueue) : taskQueue[i].ch \in TextChannels
  BY <1>2 DEF Row
<1>4. Told \in Nat /\ Told <= lastId /\ (posting = NoChannel => Told = lastId)
  BY <1>1 DEF Told, ServerInv, PostingLast
<1>5. \A m \in 1 .. Told :
        IF m <= Len(messages) THEN m \in 1 .. Len(messages)
        ELSE m - Len(messages) \in 1 .. Len(taskQueue)
  BY <1>1, <1>4
<1>6. sent \in Seq(TextChannels) /\ Len(sent) = Told
  BY <1>1, <1>3, <1>4, <1>5 DEF sent, ChannelAt
<1>7. \A i \in 1 .. Len(messages) : messages[i].id = i
  BY DEF ServerInv, Numbered
<1>8. \A i \in 1 .. Len(messages) : i <= Told => sent[i] = messages[i].ch
  BY <1>1, <1>4 DEF sent, ChannelAt
<1>9. QED
  BY <1>1, <1>4, <1>6, <1>7, <1>8

\* A message that is posted is not broadcast yet.
LEMMA SentPosted ==
  ASSUME ServerInv, NEW c \in TextChannels, PostChat(c)
  PROVE  sent' = sent
<1>1. /\ lastId' = lastId + 1 /\ messages' = messages /\ posting = NoChannel /\ posting' = c
      /\ taskQueue' = Append(taskQueue, [id |-> lastId + 1, ch |-> c]) /\ c # NoChannel
  BY ChatAssumption DEF PostChat
<1>2. /\ Len(messages) \in Nat
      /\ taskQueue \in Seq([id : Ids, ch : TextChannels]) /\ Len(taskQueue) \in Nat
      /\ lastId = Len(messages) + Len(taskQueue) /\ lastId \in Nat
  BY DEF ServerInv, Numbered
<1>3. \A i \in 1 .. Len(taskQueue) : taskQueue'[i] = taskQueue[i]
  BY <1>1, <1>2
<1>4. Told' = Told /\ Told = lastId
  BY <1>1, <1>2 DEF Told
<1>5. ASSUME NEW m \in 1 .. lastId
      PROVE  ChannelAt(m, messages', taskQueue') = ChannelAt(m, messages, taskQueue)
  <2>1. CASE m <= Len(messages)
    BY <1>1, <2>1 DEF ChannelAt
  <2>2. CASE ~(m <= Len(messages))
    <3>1. m - Len(messages) \in 1 .. Len(taskQueue)
      BY <1>2, <2>2
    <3>2. QED
      BY <1>1, <1>3, <2>2, <3>1 DEF ChannelAt
  <2>3. QED
    BY <2>1, <2>2
<1>6. QED
  BY <1>4, <1>5 DEF sent

LEMMA SentBroadcast ==
  ASSUME ServerInv, NEW c \in TextChannels, Broadcast(c)
  PROVE  /\ Len(sent) \in Nat /\ lastId = Len(sent) + 1
         /\ Len(sent') = Len(sent) + 1 /\ sent'[Len(sent) + 1] = c
         /\ \A m \in 1 .. Len(sent) : sent'[m] = sent[m]
<1>1. /\ UNCHANGED <<lastId, messages, taskQueue>> /\ posting = c /\ posting' = NoChannel
      /\ c # NoChannel
  BY ChatAssumption DEF Broadcast
<1>2. Len(sent) = Told /\ Told \in Nat /\ lastId \in Nat
  BY SentTyped DEF ServerInv
<1>3. Told = lastId - 1 /\ Told' = lastId
  BY <1>1 DEF Told
<1>4. Len(sent') = lastId
  BY <1>2, <1>3 DEF sent
<1>5. \A m \in 1 .. Told : sent'[m] = sent[m]
  BY <1>1, <1>2, <1>3 DEF sent
<1>6. sent'[lastId] = ChannelAt(lastId, messages, taskQueue)
  BY <1>1, <1>2, <1>3 DEF sent
<1>7. ChannelAt(lastId, messages, taskQueue) = c
  BY <1>1 DEF ServerInv, PostingLast
<1>8. QED
  BY <1>2, <1>3, <1>4, <1>5, <1>6, <1>7

LEMMA SentStored ==
  ASSUME ServerInv, StoreMessage
  PROVE  /\ sent' = sent
         /\ messages'[Len(messages) + 1].id = Len(messages) + 1
<1>1. /\ taskQueue # <<>> /\ taskQueue' = Tail(taskQueue) /\ lastId' = lastId
      /\ posting' = posting
      /\ messages' = Append(messages, [id |-> Head(taskQueue).id, ch |-> Head(taskQueue).ch,
                                       ts |-> Now])
  BY DEF StoreMessage
<1>2. /\ messages \in Seq(Row) /\ Len(messages) \in Nat
      /\ taskQueue \in Seq([id : Ids, ch : TextChannels])
      /\ lastId = Len(messages) + Len(taskQueue) /\ lastId \in Nat
  BY DEF ServerInv, Numbered
<1>3. /\ Head(taskQueue) = taskQueue[1] /\ Len(taskQueue) \in Nat /\ Len(taskQueue) >= 1
      /\ Len(taskQueue') = Len(taskQueue) - 1
      /\ \A i \in 1 .. Len(taskQueue') : taskQueue'[i] = taskQueue[i + 1]
  BY <1>1, <1>2, Taken
<1>4. /\ Len(messages') = Len(messages) + 1
      /\ \A i \in 1 .. Len(messages) : messages'[i] = messages[i]
      /\ messages'[Len(messages) + 1].ch = taskQueue[1].ch
  BY <1>1, <1>2, <1>3
<1>5. ASSUME NEW m \in 1 .. lastId
      PROVE  ChannelAt(m, messages', taskQueue') = ChannelAt(m, messages, taskQueue)
  <2>1. CASE m <= Len(messages)
    BY <1>2, <1>4, <2>1 DEF ChannelAt
  <2>2. CASE m = Len(messages) + 1
    BY <1>2, <1>4, <2>2 DEF ChannelAt
  <2>3. CASE m > Len(messages) + 1
    <3>1. /\ m - Len(messages') \in 1 .. Len(taskQueue')
          /\ (m - Len(messages')) + 1 = m - Len(messages)
      BY <1>2, <1>3, <1>4, <2>3
    <3>2. ~(m <= Len(messages)) /\ ~(m <= Len(messages'))
      BY <1>2, <1>4, <2>3
    <3>3. /\ ChannelAt(m, messages', taskQueue') = taskQueue'[m - Len(messages')].ch
          /\ ChannelAt(m, messages, taskQueue) = taskQueue[m - Len(messages)].ch
      BY <3>2, Zenon DEF ChannelAt
    <3>4. QED
      BY <1>3, <3>1, <3>3
  <2>4. QED
    BY <1>2, <2>1, <2>2, <2>3
<1>6. Told' = Told /\ Told \in Nat /\ Told <= lastId
  BY <1>1, SentTyped DEF Told
<1>7. \A m \in 1 .. Told : m \in 1 .. lastId
  BY <1>2, <1>6
<1>8. sent' = sent
  BY <1>5, <1>6, <1>7 DEF sent
<1>9. messages'[Len(messages) + 1].id = taskQueue[1].id
  BY <1>1, <1>2, <1>3
<1>10. taskQueue[1].id = Len(messages) + 1
  BY <1>3 DEF ServerInv, Numbered
<1>11. QED
  BY <1>8, <1>9, <1>10

\* What is sent and stored stays, and what is stored later bears no earlier stamp.
LEMMA Grown ==
  ASSUME HistoryInv, [Next]_vars
  PROVE  /\ clock \in Nat /\ clock' \in Nat /\ clock <= clock'
         /\ Len(messages) \in Nat /\ Len(messages') \in Nat /\ Len(messages) <= Len(messages')
         /\ \A i \in 1 .. Len(messages) : messages'[i] = messages[i]
         /\ \A j \in 1 .. Len(messages') : j \notin 1 .. Len(messages) => clock <= messages'[j].ts
         /\ Len(sent) \in Nat /\ Len(sent') \in Nat /\ Len(sent) <= Len(sent')
         /\ \A m \in 1 .. Len(sent) : sent'[m] = sent[m]
<1>0. ServerInv /\ ServerInv' /\ RequestsInv /\ requests \in Seq(Request)
  BY HistoryKept DEF HistoryInv, RequestsInv
<1>1. /\ clock \in Nat /\ clock' \in Nat /\ Len(messages) \in Nat /\ Len(messages') \in Nat
      /\ sent \in Seq(TextChannels) /\ Len(sent) \in Nat
  BY <1>0, SentTyped, StampsAre DEF ServerInv
<1>2. \/ \E c \in TextChannels : PostChat(c) \/ Broadcast(c)
      \/ StoreMessage \/ Tick
      \/ UNCHANGED <<messages, taskQueue, clock, lastId, posting>>
  <2>1. HandleChat => \E c \in TextChannels : PostChat(c)
    BY <1>0, Handled, RequestParts DEF HandleChat
  <2>2. QED
    BY <2>1 DEF Next, UserNext, SystemNext, vars, server, Select, Type, RequestOlder,
         OnAppendMessage, OnSetHistory, OnPrependHistory, Receive, WakeTextChannel, WakeMessage,
         WakeHistory, OtherChat, HandleLog, HandleBefore
<1>3. CASE \E c \in TextChannels : PostChat(c)
  <2>1. PICK c \in TextChannels : PostChat(c)
    BY <1>3
  <2>2. messages' = messages /\ clock' = clock
    BY <2>1 DEF PostChat
  <2>3. sent' = sent
    BY <1>0, <2>1, SentPosted
  <2>4. QED
    BY <1>1, <2>2, <2>3
<1>7. CASE \E c \in TextChannels : Broadcast(c)
  <2>1. PICK c \in TextChannels : Broadcast(c)
    BY <1>7
  <2>2. messages' = messages /\ clock' = Now
    BY <2>1 DEF Broadcast
  <2>3. Len(sent') = Len(sent) + 1 /\ \A m \in 1 .. Len(sent) : sent'[m] = sent[m]
    BY <1>0, <2>1, SentBroadcast
  <2>4. QED
    BY <1>1, <2>2, <2>3 DEF Now
<1>4. CASE StoreMessage
  <2>1. /\ Len(messages') = Len(messages) + 1
        /\ \A i \in 1 .. Len(messages) : messages'[i] = messages[i]
        /\ messages'[Len(messages) + 1].ts = Now /\ clock' = Now
    BY <1>0, <1>4, StoreKeepsServer DEF StoreMessage
  <2>2. sent' = sent
    BY <1>0, <1>4, SentStored
  <2>3. clock <= Now
    BY <1>1 DEF Now
  <2>4. \A j \in 1 .. Len(messages') : j \notin 1 .. Len(messages) => clock <= messages'[j].ts
    <3>1. \A j \in 1 .. Len(messages') : j \in 1 .. Len(messages) \/ j = Len(messages) + 1
      BY <1>1, <2>1
    <3>2. QED
      BY <2>1, <2>3, <3>1
  <2>5. QED
    BY <1>1, <2>1, <2>2, <2>3, <2>4
<1>5. CASE Tick \/ UNCHANGED <<messages, taskQueue, clock, lastId, posting>>
  <2>1. UNCHANGED <<messages, taskQueue, lastId, posting>> /\ clock <= clock'
    BY <1>1, <1>5 DEF Tick
  <2>2. sent' = sent
    BY <2>1 DEF sent, Told
  <2>3. QED
    BY <1>1, <2>1, <2>2
<1>6. QED
  BY <1>2, <1>3, <1>4, <1>5, <1>7

Ascending(rows) == \A k, l \in 1 .. Len(rows) : k < l => rows[k].id < rows[l].id

PushAnchored(p, table, now, channels) ==
    /\ p.type = "PUSH_CHAT" => Anchored(p.row, table, now, channels)
    /\ p.type \in {"CHAT_LOG", "CHAT_LOG_MORE"} =>
         /\ Ascending(p.rows)
         /\ \A k \in 1 .. Len(p.rows) : Anchored(p.rows[k], table, now, channels)

\* Broadcasts come in the order of their numbers.
InSendingOrder(q) ==
    \A i, j \in 1 .. Len(q) :
       i < j /\ q[i].type = "PUSH_CHAT" /\ q[j].type = "PUSH_CHAT" => q[i].row.id < q[j].row.id

StampsInv ==
    /\ \A j \in 1 .. Len(messages) : messages[j].ts <= clock
    /\ \A i, j \in 1 .. Len(messages) : i < j => messages[i].ts <= messages[j].ts
    /\ \A i \in 1 .. Len(pushes) : PushAnchored(pushes[i], messages, clock, sent)
    /\ \A k \in 1 .. Len(model) : Anchored(model[k], messages, clock, sent)
    /\ InSendingOrder(pushes)

LEMMA AnchoredStays ==
  ASSUME HistoryInv, [Next]_vars
  PROVE  /\ \A row \in Row :
              Anchored(row, messages, clock, sent) => Anchored(row, messages', clock', sent')
         /\ \A p \in Push :
              PushAnchored(p, messages, clock, sent) => PushAnchored(p, messages', clock', sent')
<1>1. ASSUME NEW row \in Row, Anchored(row, messages, clock, sent)
      PROVE  Anchored(row, messages', clock', sent')
  <2>1. /\ row.id \in Nat /\ row.ts \in Nat /\ row.ts <= clock
        /\ row.id \in 1 .. Len(sent) /\ sent[row.id] = row.ch
        /\ \A j \in 1 .. Len(messages) : row.id < j => row.ts <= messages[j].ts
    BY <1>1, StampsAre DEF Anchored, Row, Ids
  <2>2. row.id \in 1 .. Len(sent') /\ sent'[row.id] = row.ch /\ row.ts <= clock'
    BY <2>1, Grown
  <2>3. ASSUME NEW j \in 1 .. Len(messages'), row.id < j
        PROVE  row.ts <= messages'[j].ts
    <3>1. CASE j \in 1 .. Len(messages)
      BY <2>1, <2>3, <3>1, Grown
    <3>2. CASE j \notin 1 .. Len(messages)
      <4>1. clock <= messages'[j].ts
        BY <3>2, Grown
      <4>2. messages'[j].ts \in Nat /\ clock \in Nat
        <5>1. messages' \in Seq(Row)
          BY HistoryKept DEF HistoryInv, ServerInv
        <5>2. messages'[j] \in Row
          BY <5>1, Members
        <5>3. QED
          BY <5>2, Grown, StampsAre DEF Row
      <4>3. QED
        BY <2>1, <4>1, <4>2
    <3>3. QED
      BY <3>1, <3>2
  <2>4. QED
    BY <2>2, <2>3 DEF Anchored
<1>2. ASSUME NEW p \in Push, PushAnchored(p, messages, clock, sent)
      PROVE  PushAnchored(p, messages', clock', sent')
  <2>1. p.type = "PUSH_CHAT" => Anchored(p.row, messages', clock', sent')
    BY <1>1, <1>2, PushParts DEF PushAnchored
  <2>2. ASSUME p.type \in {"CHAT_LOG", "CHAT_LOG_MORE"}, NEW k \in 1 .. Len(p.rows)
        PROVE  Anchored(p.rows[k], messages', clock', sent')
    <3>1. p.rows \in Seq(Row)
      BY <2>2, PushParts
    <3>2. p.rows[k] \in Row
      BY <3>1, Members
    <3>3. Anchored(p.rows[k], messages, clock, sent)
      BY <1>2, <2>2 DEF PushAnchored
    <3>4. QED
      BY <1>1, <3>2, <3>3
  <2>3. QED
    BY <1>2, <2>1, <2>2 DEF PushAnchored
<1>3. QED
  BY <1>1, <1>2

\* A page's rows are rows of the table, in its order.
LEMMA PageAnchored ==
  ASSUME ServerInv, StampsInv, posting = NoChannel, NEW rows \in SUBSET (1 .. Len(messages))
  PROVE  /\ PageOf(rows) \in Seq(Row) /\ Ascending(PageOf(rows))
         /\ \A k \in 1 .. Len(PageOf(rows)) : Anchored(PageOf(rows)[k], messages, clock, sent)
<1> DEFINE page == PageOf(rows)
<1>1. /\ page \in Seq(Row)
      /\ \A k \in 1 .. Len(page) : \E i \in Page(rows) : i \in rows /\ page[k] = messages[i]
      /\ \A k, l \in 1 .. Len(page) : k < l =>
           \E i, j \in Page(rows) : i < j /\ page[k] = messages[i] /\ page[l] = messages[j]
  BY PageListed DEF ServerInv
<1>2. \A i \in Page(rows) : i \in 1 .. Len(messages) /\ messages[i].id = i
  BY DEF Page, ServerInv, Numbered
<1> HIDE DEF page
<1>3. Ascending(page)
  <2>1. ASSUME NEW k \in 1 .. Len(page), NEW l \in 1 .. Len(page), k < l
        PROVE  page[k].id < page[l].id
    <3>1. PICK i \in Page(rows), j \in Page(rows) :
            i < j /\ page[k] = messages[i] /\ page[l] = messages[j]
      BY <1>1, <2>1
    <3>2. QED
      BY <1>2, <3>1
  <2>2. QED
    BY <2>1 DEF Ascending
<1>4. \A k \in 1 .. Len(page) : Anchored(page[k], messages, clock, sent)
  <2>1. ASSUME NEW i \in 1 .. Len(messages)
        PROVE  Anchored(messages[i], messages, clock, sent)
    BY <2>1, SentTyped DEF StampsInv, Anchored
  <2>2. QED
    BY <1>1, <1>2, <2>1
<1>5. QED
  BY <1>1, <1>3, <1>4 DEF page

\* What a step adds to the pushes is the broadcast of the newest message or a page.
LEMMA PushesStep ==
  ASSUME HistoryInv, [Next]_vars
  PROVE  \/ pushes' = pushes
         \/ \E type \in {"PUSH_CHAT", "CHAT_LOG", "CHAT_LOG_MORE"} : Receive(type)
         \/ \E c \in TextChannels :
              /\ Broadcast(c)
              /\ [id |-> lastId, ch |-> c, ts |-> Now] \in Row
              /\ pushes' = Append(pushes, [type |-> "PUSH_CHAT", ch |-> c,
                                           row |-> [id |-> lastId, ch |-> c, ts |-> Now]])
         \/ \E type \in {"CHAT_LOG", "CHAT_LOG_MORE"}, c \in TextChannels, more \in BOOLEAN :
              posting = NoChannel /\ \E rows \in SUBSET RowsOf(c) :
                pushes' = Append(pushes, [type |-> type, ch |-> c, rows |-> PageOf(rows),
                                          hasMore |-> more])
<1>0. ServerInv /\ RequestsInv /\ requests \in Seq(Request) /\ ServerInv'
  BY HistoryKept DEF HistoryInv, RequestsInv
<1>1. \/ pushes' = pushes
      \/ \E type \in {"PUSH_CHAT", "CHAT_LOG", "CHAT_LOG_MORE"} : Receive(type)
      \/ HandleLog \/ HandleBefore \/ \E c \in TextChannels : Broadcast(c)
  BY DEF Next, UserNext, SystemNext, vars, Select, Type, RequestOlder, OnAppendMessage,
       OnSetHistory, OnPrependHistory, WakeTextChannel, WakeMessage, WakeHistory,
       HandleChat, OtherChat, PostChat, StoreMessage, Tick
<1>2. CASE \E c \in TextChannels : Broadcast(c)
  <2>1. PICK c \in TextChannels : Broadcast(c)
    BY <1>2
  <2>2. [id |-> lastId, ch |-> c, ts |-> Now] \in Row
    BY <1>0, <2>1, BroadcastKeepsServer DEF Row
  <2>3. QED
    BY <2>1, <2>2 DEF Broadcast
<1>3. CASE HandleLog
  <2> DEFINE c == Head(requests).ch
             more == Cardinality(RowsOf(c)) > PageSize
  <2>1. Handle("REQ_CHAT_LOG")
    BY <1>3 DEF HandleLog
  <2>2. /\ c \in TextChannels /\ more \in BOOLEAN /\ RowsOf(c) \in SUBSET RowsOf(c)
        /\ posting = NoChannel
    BY <1>0, <2>1, Handled, RequestParts DEF Handle
  <2>3. pushes' = Append(pushes, [type |-> "CHAT_LOG", ch |-> c, rows |-> PageOf(RowsOf(c)),
                                  hasMore |-> more])
    BY <1>3 DEF HandleLog, Answer, PageOf
  <2> HIDE DEF c, more
  <2>4. QED
    BY <2>2, <2>3
<1>4. CASE HandleBefore
  <2> DEFINE c == Head(requests).ch
             rows == RowsBefore(c, Head(requests).before)
             more == Cardinality(rows) > PageSize
  <2>1. Handle("REQ_CHAT_LOG_BEFORE")
    BY <1>4 DEF HandleBefore
  <2>2. /\ c \in TextChannels /\ more \in BOOLEAN /\ rows \in SUBSET RowsOf(c)
        /\ posting = NoChannel
    BY <1>0, <2>1, Handled, RequestParts DEF RowsBefore, Handle
  <2>3. pushes' = Append(pushes, [type |-> "CHAT_LOG_MORE", ch |-> c, rows |-> PageOf(rows),
                                  hasMore |-> more])
    BY <1>4 DEF HandleBefore, Answer, PageOf
  <2> HIDE DEF c, more, rows
  <2>4. QED
    BY <2>2, <2>3
<1>5. QED
  BY <1>1, <1>2, <1>3, <1>4

\* What a step puts into the model comes with the push it reads.
LEMMA ModelStep ==
  ASSUME HistoryInv, [Next]_vars, NEW k \in 1 .. Len(model')
  PROVE  \/ \E l \in 1 .. Len(model) : model'[k] = model[l]
         \/ /\ pushes # <<>> /\ Head(pushes).type = "PUSH_CHAT"
            /\ model'[k] = Head(pushes).row
         \/ /\ pushes # <<>> /\ Head(pushes).type \in {"CHAT_LOG", "CHAT_LOG_MORE"}
            /\ \E l \in 1 .. Len(Head(pushes).rows) : model'[k] = Head(pushes).rows[l]
<1>0. model \in Seq(Row) /\ Len(model) \in Nat /\ PushesInv
  BY DEF HistoryInv, ViewInv
<1>1. \/ model' = model \/ model' = <<>>
      \/ OnAppendMessage \/ OnSetHistory \/ OnPrependHistory
  BY DEF Next, UserNext, SystemNext, vars, view, Select, Type, RequestOlder, WakeTextChannel,
         WakeMessage, WakeHistory, HandleChat, HandleLog, HandleBefore, OtherChat, PostChat,
         Broadcast, StoreMessage, Tick
<1>2. CASE model' = model
  BY <1>2
<1>3. CASE model' = <<>>
  <2>1. Len(model') = 0
    BY <1>3
  <2>2. QED
    BY <2>1
<1>4. CASE OnAppendMessage
  <2>1. Receive("PUSH_CHAT")
    BY <1>4 DEF OnAppendMessage
  <2>2. /\ pushes # <<>> /\ Head(pushes).type = "PUSH_CHAT" /\ Head(pushes).row \in Row
    BY <1>0, <2>1, PushRead, PushParts DEF Receive
  <2> DEFINE longer == Append(model, Head(pushes).row)
  <2>3. CASE model' = model
    BY <2>3
  <2>4. CASE model' = Trimmed(longer)
    <3>1. /\ longer \in Seq(Row)
          /\ \A l \in 1 .. Len(longer) : l \in 1 .. Len(model) \/ l = Len(model) + 1
          /\ \A l \in 1 .. Len(model) : longer[l] = model[l]
          /\ longer[Len(model) + 1] = Head(pushes).row
      BY <1>0, <2>2, Added
    <3> HIDE DEF longer
    <3>2. PICK s \in 0 .. Len(longer) :
             \A i \in 1 .. Len(Trimmed(longer)) :
                i + s \in 1 .. Len(longer) /\ Trimmed(longer)[i] = longer[i + s]
      BY <3>1, TrimmedRows
    <3>3. k + s \in 1 .. Len(longer) /\ model'[k] = longer[k + s]
      BY <2>4, <3>2
    <3>4. QED
      BY <2>2, <3>1, <3>3
  <2>5. QED
    BY <1>4, <2>3, <2>4 DEF OnAppendMessage
<1>5. CASE OnSetHistory
  <2>1. Receive("CHAT_LOG") /\ (model' = model \/ model' = Head(pushes).rows)
    BY <1>5 DEF OnSetHistory
  <2>2. pushes # <<>> /\ Head(pushes).type = "CHAT_LOG"
    BY <2>1 DEF Receive
  <2>3. QED
    BY <2>1, <2>2
<1>6. CASE OnPrependHistory
  <2> DEFINE rows == Head(pushes).rows
  <2>1. Receive("CHAT_LOG_MORE") /\ (model' = model \/ model' = rows \o model)
    BY <1>6 DEF OnPrependHistory
  <2>2. /\ pushes # <<>> /\ Head(pushes).type = "CHAT_LOG_MORE" /\ rows \in Seq(Row)
    BY <1>0, <2>1, PushRead, PushParts DEF Receive
  <2> HIDE DEF rows
  <2>3. CASE model' = model
    BY <2>3
  <2>4. CASE model' = rows \o model
    <3>1. /\ Len(model') = Len(rows) + Len(model) /\ Len(rows) \in Nat
          /\ model'[k] = IF k <= Len(rows) THEN rows[k] ELSE model[k - Len(rows)]
      BY <1>0, <2>2, <2>4, ConcatProperties
    <3>2. CASE k <= Len(rows)
      <4>1. k \in 1 .. Len(rows) /\ model'[k] = rows[k]
        BY <3>1, <3>2
      <4>2. QED
        BY <2>2, <4>1 DEF rows
    <3>3. CASE ~(k <= Len(rows))
      <4>1. k - Len(rows) \in 1 .. Len(model) /\ model'[k] = model[k - Len(rows)]
        BY <1>0, <3>1, <3>3
      <4>2. QED
        BY <4>1
    <3>4. QED
      BY <3>2, <3>3
  <2>5. QED
    BY <2>1, <2>3, <2>4
<1>7. QED
  BY <1>1, <1>2, <1>3, <1>4, <1>5, <1>6

LEMMA StampsKept ==
  ASSUME HistoryInv, StampsInv, [Next]_vars
  PROVE  StampsInv'
<1>0. /\ ServerInv /\ HistoryInv' /\ messages \in Seq(Row) /\ messages' \in Seq(Row)
      /\ pushes \in Seq(Push) /\ PushesInv /\ Len(pushes) \in Nat
      /\ model \in Seq(Row) /\ model' \in Seq(Row)
  BY HistoryKept DEF HistoryInv, ServerInv, PushesInv, ViewInv
<1>1. \A i \in 1 .. Len(pushes) :
        /\ pushes[i] \in Push
        /\ PushAnchored(pushes[i], messages, clock, sent)
        /\ PushAnchored(pushes[i], messages', clock', sent')
  <2>1. \A i \in 1 .. Len(pushes) : pushes[i] \in Push
    BY <1>0, Members
  <2>2. \A i \in 1 .. Len(pushes) : PushAnchored(pushes[i], messages, clock, sent)
    BY DEF StampsInv
  <2>3. QED
    BY <2>1, <2>2, AnchoredStays
<1>2. /\ \A j \in 1 .. Len(messages') : messages'[j].ts <= clock'
      /\ \A i, j \in 1 .. Len(messages') : i < j => messages'[i].ts <= messages'[j].ts
  <2>0. /\ \A i \in 1 .. Len(messages) : messages[i].ts \in Nat
        /\ \A i \in 1 .. Len(messages') : messages'[i].ts \in Nat
    <3>1. /\ \A i \in 1 .. Len(messages) : messages[i] \in Row
          /\ \A i \in 1 .. Len(messages') : messages'[i] \in Row
      BY <1>0, Members
    <3>2. QED
      BY <3>1, StampsAre DEF Row
  <2>2. CASE messages' = messages
    BY <2>0, <2>2, Grown DEF StampsInv
  <2>3. CASE StoreMessage
    <3>1. /\ Len(messages') = Len(messages) + 1 /\ Len(messages) \in Nat
          /\ \A i \in 1 .. Len(messages) : messages'[i] = messages[i]
          /\ messages'[Len(messages) + 1].ts = clock' /\ clock' \in Nat
          /\ clock \in Nat /\ clock <= clock'
      BY <1>0, <2>3, StoreKeepsServer, Grown DEF StoreMessage
    <3>2. \A i \in 1 .. Len(messages') : i \in 1 .. Len(messages) \/ i = Len(messages) + 1
      BY <3>1
    <3>3. \A j \in 1 .. Len(messages') : messages'[j].ts <= clock'
      BY <2>0, <3>1, <3>2 DEF StampsInv
    <3>4. ASSUME NEW i \in 1 .. Len(messages'), NEW j \in 1 .. Len(messages'), i < j
          PROVE  messages'[i].ts <= messages'[j].ts
      <4>1. i \in 1 .. Len(messages)
        BY <3>1, <3>4
      <4>2. CASE j \in 1 .. Len(messages)
        BY <3>1, <3>4, <4>1, <4>2 DEF StampsInv
      <4>3. CASE j = Len(messages) + 1
        BY <3>1, <3>3, <4>3
      <4>4. QED
        BY <3>2, <4>2, <4>3
    <3>5. QED
      BY <3>3, <3>4
  <2>4. QED
    BY <2>2, <2>3 DEF Next, UserNext, SystemNext, vars, server, Select, Type, RequestOlder,
         OnAppendMessage, OnSetHistory, OnPrependHistory, Receive, WakeTextChannel, WakeMessage,
         WakeHistory, HandleChat, HandleLog, HandleBefore, OtherChat, PostChat, Broadcast, Tick
<1>3. ASSUME NEW k \in 1 .. Len(model')
      PROVE  Anchored(model'[k], messages', clock', sent')
  <2>1. pushes # <<>> => /\ Head(pushes) \in Push
                         /\ PushAnchored(Head(pushes), messages', clock', sent')
    BY <1>0, <1>1, Taken
  <2>2. CASE \E l \in 1 .. Len(model) : model'[k] = model[l]
    <3>1. \A l \in 1 .. Len(model) : model[l] \in Row /\ Anchored(model[l], messages, clock, sent)
      BY <1>0, Members DEF StampsInv
    <3>2. QED
      BY <2>2, <3>1, AnchoredStays
  <2>3. QED
    BY <2>1, <2>2, ModelStep DEF PushAnchored
<1>4. /\ \A i \in 1 .. Len(pushes') : PushAnchored(pushes'[i], messages', clock', sent')
      /\ InSendingOrder(pushes')
  <2>1. InSendingOrder(pushes)
    BY DEF StampsInv
  <2>2. CASE pushes' = pushes
    BY <1>1, <2>1, <2>2
  <2>3. CASE \E type \in {"PUSH_CHAT", "CHAT_LOG", "CHAT_LOG_MORE"} : Receive(type)
    <3>1. pushes # <<>> /\ pushes' = Tail(pushes)
      BY <2>3 DEF Receive
    <3>2. \A i \in 1 .. Len(pushes') : pushes'[i] = pushes[i + 1] /\ i + 1 \in 1 .. Len(pushes)
      BY <1>0, <3>1, Taken
    <3>3. InSendingOrder(pushes')
      BY <2>1, <3>2 DEF InSendingOrder
    <3>4. QED
      BY <1>1, <3>2, <3>3
  <2>4. CASE \E c \in TextChannels :
              /\ Broadcast(c)
              /\ [id |-> lastId, ch |-> c, ts |-> Now] \in Row
              /\ pushes' = Append(pushes, [type |-> "PUSH_CHAT", ch |-> c,
                                           row |-> [id |-> lastId, ch |-> c, ts |-> Now]])
    <3>1. PICK c \in TextChannels :
              /\ Broadcast(c)
              /\ [id |-> lastId, ch |-> c, ts |-> Now] \in Row
              /\ pushes' = Append(pushes, [type |-> "PUSH_CHAT", ch |-> c,
                                           row |-> [id |-> lastId, ch |-> c, ts |-> Now]])
      BY <2>4
    <3> DEFINE row == [id |-> lastId, ch |-> c, ts |-> Now]
               p == [type |-> "PUSH_CHAT", ch |-> c, row |-> row]
    <3>2. /\ lastId = Len(sent) + 1 /\ Len(sent') = lastId /\ sent'[lastId] = c
          /\ lastId \in Nat /\ Len(sent) \in Nat
      BY <1>0, <3>1, SentBroadcast
    <3>3. messages' = messages /\ clock' = Now /\ Len(messages) \in Nat /\ Len(messages) <= lastId
          /\ clock' \in Nat
      BY <1>0, <3>1, Grown, SentTyped DEF Broadcast, ServerInv
    <3>4. Anchored(row, messages', clock', sent')
      BY <3>2, <3>3 DEF Anchored
    <3>5. p \in Push /\ p.type = "PUSH_CHAT" /\ p.row = row /\ row.id = lastId
      BY <3>1 DEF Push
    <3> HIDE DEF row, p
    <3>6. PushAnchored(p, messages', clock', sent')
      BY <3>4, <3>5 DEF PushAnchored
    <3>7. /\ \A i \in 1 .. Len(pushes) : pushes'[i] = pushes[i]
          /\ pushes'[Len(pushes) + 1] = p
          /\ \A i \in 1 .. Len(pushes') : i \in 1 .. Len(pushes) \/ i = Len(pushes) + 1
      BY <1>0, <3>1, <3>5, Added DEF p, row
    <3>8. \A i \in 1 .. Len(pushes) : pushes[i].type = "PUSH_CHAT" => pushes[i].row.id < lastId
      <4>1. \A i \in 1 .. Len(pushes) : pushes[i].type = "PUSH_CHAT" =>
               pushes[i].row.id \in 1 .. Len(sent)
        BY <1>1 DEF PushAnchored, Anchored
      <4>2. QED
        BY <3>2, <4>1
    <3>9. InSendingOrder(pushes')
      <4>1. ASSUME NEW i \in 1 .. Len(pushes'), NEW j \in 1 .. Len(pushes'), i < j,
                   pushes'[i].type = "PUSH_CHAT", pushes'[j].type = "PUSH_CHAT"
            PROVE  pushes'[i].row.id < pushes'[j].row.id
        <5>1. i \in 1 .. Len(pushes)
          BY <1>0, <3>7, <4>1
        <5>2. CASE j \in 1 .. Len(pushes)
          BY <2>1, <3>7, <4>1, <5>1, <5>2 DEF InSendingOrder
        <5>3. CASE j = Len(pushes) + 1
          BY <3>5, <3>7, <3>8, <4>1, <5>1, <5>3
        <5>4. QED
          BY <3>7, <5>2, <5>3
      <4>2. QED
        BY <4>1 DEF InSendingOrder
    <3>10. QED
      BY <1>1, <3>6, <3>7, <3>9
  <2>5. CASE \E type \in {"CHAT_LOG", "CHAT_LOG_MORE"}, c \in TextChannels, more \in BOOLEAN :
              posting = NoChannel /\ \E rows \in SUBSET RowsOf(c) :
                pushes' = Append(pushes, [type |-> type, ch |-> c, rows |-> PageOf(rows),
                                          hasMore |-> more])
    <3>1. PICK type \in {"CHAT_LOG", "CHAT_LOG_MORE"}, c \in TextChannels, more \in BOOLEAN :
              posting = NoChannel /\ \E rows \in SUBSET RowsOf(c) :
                pushes' = Append(pushes, [type |-> type, ch |-> c, rows |-> PageOf(rows),
                                          hasMore |-> more])
      BY <2>5
    <3>2. PICK rows \in SUBSET RowsOf(c) :
                pushes' = Append(pushes, [type |-> type, ch |-> c, rows |-> PageOf(rows),
                                          hasMore |-> more])
      BY <3>1
    <3> DEFINE page == PageOf(rows)
               p == [type |-> type, ch |-> c, rows |-> page, hasMore |-> more]
    <3>3. rows \in SUBSET (1 .. Len(messages))
      BY DEF RowsOf
    <3>4. /\ page \in Seq(Row) /\ Ascending(page)
          /\ \A k \in 1 .. Len(page) : Anchored(page[k], messages, clock, sent)
      BY <1>0, <3>1, <3>3, PageAnchored
    <3> HIDE DEF page
    <3>5. \A k \in 1 .. Len(page) : Anchored(page[k], messages', clock', sent')
      <4>1. \A k \in 1 .. Len(page) : page[k] \in Row
        BY <3>4, Members
      <4>2. QED
        BY <3>4, <4>1, AnchoredStays
    <3>6. p \in Push /\ p.type # "PUSH_CHAT" /\ p.rows = page
      BY <3>4 DEF Push
    <3> HIDE DEF p
    <3>7. PushAnchored(p, messages', clock', sent')
      BY <3>4, <3>5, <3>6 DEF PushAnchored
    <3>8. /\ \A i \in 1 .. Len(pushes) : pushes'[i] = pushes[i]
          /\ pushes'[Len(pushes) + 1] = p
          /\ \A i \in 1 .. Len(pushes') : i \in 1 .. Len(pushes) \/ i = Len(pushes) + 1
      BY <1>0, <3>2, <3>6, Added DEF p, page
    <3>9. InSendingOrder(pushes')
      BY <1>0, <2>1, <3>6, <3>8 DEF InSendingOrder
    <3>10. QED
      BY <1>1, <3>7, <3>8, <3>9
  <2>6. QED
    BY <2>2, <2>3, <2>4, <2>5, PushesStep
<1>5. QED
  BY <1>2, <1>3, <1>4 DEF StampsInv

-----------------------------------------------------------------------------
(* As long as the user stays on one channel.                               *)

NoneOf(q, type) == \A i \in 1 .. Len(q) : q[i].type # type
OneOf(q, type) ==
    \A i, j \in 1 .. Len(q) : q[i].type = type /\ q[j].type = type => i = j

\* The control loop sees no change of channels.
ControlStays == current = selected /\ control.ch = selected

\* The first page is asked for once and first, and what is broadcast behind it is newer.
OnlyFirst(q, type) == \A i \in 1 .. Len(q) : q[i].type = type => i = 1

NewerBehind(q) ==
    \A i, j \in 1 .. Len(q) :
       i < j /\ q[i].type = "CHAT_LOG" /\ q[j].type = "PUSH_CHAT" =>
         \A k \in 1 .. Len(q[i].rows) : q[i].rows[k].id < q[j].row.id

FirstPage ==
    /\ OnlyFirst(requests, "REQ_CHAT_LOG")
    /\ ~NoneOf(requests, "REQ_CHAT_LOG") => loaded = NoChannel /\ NoneOf(pushes, "CHAT_LOG")
    /\ ~NoneOf(pushes, "CHAT_LOG") => loaded = NoChannel
    /\ OneOf(pushes, "CHAT_LOG")
    /\ NewerBehind(pushes)

\* The rows are in order, and what is still to be shown is newer.
StillNewer(rows, q) ==
    \A i \in 1 .. Len(q) : q[i].type = "PUSH_CHAT" =>
       \A k \in 1 .. Len(rows) : rows[k].id < q[i].row.id

ModelInv ==
    /\ Ascending(model)
    /\ StillNewer(model, pushes)

\* One older page at a time: queued, asked for or on its way.
OneOlder ==
    /\ pendingHistory # <<>> =>
         /\ inFlight /\ Len(pendingHistory) = 1
         /\ NoneOf(requests, "REQ_CHAT_LOG_BEFORE") /\ NoneOf(pushes, "CHAT_LOG_MORE")
    /\ OneOf(requests, "REQ_CHAT_LOG_BEFORE")
    /\ ~NoneOf(requests, "REQ_CHAT_LOG_BEFORE") => inFlight /\ NoneOf(pushes, "CHAT_LOG_MORE")
    /\ OneOf(pushes, "CHAT_LOG_MORE")
    /\ ~NoneOf(pushes, "CHAT_LOG_MORE") => inFlight

\* What is stored with a stamp before t is older than the oldest row.
AskedBelow(t, rows, table, now) ==
    /\ rows # <<>> /\ t <= now
    /\ \A j \in 1 .. Len(table) : table[j].ts < t => j < rows[1].id

OlderPage(page, rows) ==
    rows # <<>> /\ \A k \in 1 .. Len(page) : page[k].id < rows[1].id

OlderInv ==
    /\ \A i \in 1 .. Len(pendingHistory) :
         AskedBelow(pendingHistory[i].before, model, messages, clock)
    /\ \A i \in 1 .. Len(requests) : requests[i].type = "REQ_CHAT_LOG_BEFORE" =>
         AskedBelow(requests[i].before, model, messages, clock)
    /\ \A i \in 1 .. Len(pushes) : pushes[i].type = "CHAT_LOG_MORE" =>
         OlderPage(pushes[i].rows, model)

\* A page asked for by a broadcast's stamp may bring the row it was asked from again.
StayInv ==
    switches = 0 => /\ ControlStays /\ FirstPage /\ OneOlder
                    /\ ~misdated => ModelInv /\ OlderInv

LEMMA KindsAdded ==
  ASSUME NEW S, NEW q \in Seq(S), NEW x \in S, NEW type
  PROVE  /\ NoneOf(Append(q, x), type) <=> NoneOf(q, type) /\ x.type # type
         /\ OneOf(q, type) /\ (x.type # type \/ NoneOf(q, type)) => OneOf(Append(q, x), type)
<1>1. /\ Len(q) \in Nat /\ Len(Append(q, x)) = Len(q) + 1
      /\ \A i \in 1 .. Len(q) : Append(q, x)[i] = q[i]
      /\ Append(q, x)[Len(q) + 1] = x
      /\ \A i \in 1 .. Len(Append(q, x)) : i \in 1 .. Len(q) \/ i = Len(q) + 1
  BY Added
<1>2. \A i \in 1 .. Len(q) : i \in 1 .. Len(Append(q, x))
  BY <1>1
<1>3. Len(q) + 1 \in 1 .. Len(Append(q, x))
  BY <1>1
<1>4. QED
  BY <1>1, <1>2, <1>3 DEF NoneOf, OneOf

LEMMA KindsTaken ==
  ASSUME NEW S, NEW q \in Seq(S), q # <<>>, NEW type
  PROVE  /\ NoneOf(q, type) => NoneOf(Tail(q), type) /\ Head(q).type # type
         /\ Head(q).type # type /\ NoneOf(Tail(q), type) => NoneOf(q, type)
         /\ OneOf(q, type) => OneOf(Tail(q), type)
         /\ OneOf(q, type) /\ Head(q).type = type => NoneOf(Tail(q), type)
<1>1. /\ Head(q) = q[1] /\ 1 \in 1 .. Len(q)
      /\ Len(q) \in Nat /\ Len(Tail(q)) = Len(q) - 1
      /\ \A i \in 1 .. Len(Tail(q)) : Tail(q)[i] = q[i + 1] /\ i + 1 \in 1 .. Len(q)
  BY Taken
<1>2. ASSUME NEW i \in 1 .. Len(q), i # 1
      PROVE  i - 1 \in 1 .. Len(Tail(q)) /\ q[i] = Tail(q)[i - 1]
  <2>1. i - 1 \in 1 .. Len(Tail(q)) /\ (i - 1) + 1 = i
    BY <1>1, <1>2
  <2>2. QED
    BY <1>1, <2>1
<1>3. NoneOf(q, type) => NoneOf(Tail(q), type) /\ Head(q).type # type
  BY <1>1 DEF NoneOf
<1>4. Head(q).type # type /\ NoneOf(Tail(q), type) => NoneOf(q, type)
  BY <1>1, <1>2 DEF NoneOf
<1>5. OneOf(q, type) => OneOf(Tail(q), type)
  BY <1>1 DEF OneOf
<1>6. OneOf(q, type) /\ Head(q).type = type => NoneOf(Tail(q), type)
  BY <1>1 DEF OneOf, NoneOf
<1>7. QED
  BY <1>3, <1>4, <1>5, <1>6

LEMMA EmptyNone == \A type : NoneOf(<<>>, type) /\ OneOf(<<>>, type)
BY DEF NoneOf, OneOf

LEMMA ControlKept ==
  ASSUME HistoryInv, ControlStays, [Next]_vars, switches = 0, switches' = 0
  PROVE  ControlStays' /\ selected' = selected
<1>1. switches \in Nat /\ control \in [pc : {"idle", "chat", "history"}, ch : TextChannels]
  BY ChatAssumption DEF HistoryInv, ViewInv, RequestsInv
<1>2. \A c \in TextChannels : ~Select(c)
  BY <1>1 DEF Select
<1>3. selected' = selected
  BY <1>2 DEF Next, UserNext, SystemNext, vars, view, Type, RequestOlder, OnAppendMessage,
       OnSetHistory, OnPrependHistory, Receive, WakeTextChannel, WakeMessage, WakeHistory,
       HandleChat, HandleLog, HandleBefore, OtherChat, PostChat, Broadcast, StoreMessage, Tick
<1>4. CASE WakeTextChannel
  BY <1>3, <1>4 DEF WakeTextChannel, ControlStays
<1>5. CASE WakeMessage \/ WakeHistory
  BY <1>1, <1>3, <1>5 DEF WakeMessage, WakeHistory, ControlStays
<1>6. CASE UNCHANGED controlVars
  BY <1>3, <1>6 DEF controlVars, ControlStays
<1>7. QED
  BY <1>2, <1>3, <1>4, <1>5, <1>6 DEF Next, UserNext, SystemNext, vars, Type, RequestOlder,
     OnAppendMessage, OnSetHistory, OnPrependHistory, Receive, HandleChat, HandleLog,
     HandleBefore, OtherChat, PostChat, Broadcast, StoreMessage, Tick

\* A step that leaves alone what the pages are about.
Quiet == UNCHANGED <<requests, pushes, loaded, model, inFlight, pendingHistory>>

ChatWritten ==
    /\ \E r \in Request : r.type = "CHAT" /\ requests' = Append(requests, r)
    /\ UNCHANGED <<pushes, loaded, model, inFlight, pendingHistory>>

ChatTaken ==
    /\ Handle("CHAT")
    /\ UNCHANGED <<pushes, loaded, model, inFlight, pendingHistory>>

LEMMA StaySteps ==
  ASSUME HistoryInv, ControlStays, [Next]_vars, switches = 0, switches' = 0
  PROVE  \/ Quiet \/ ChatWritten \/ ChatTaken \/ RequestOlder
         \/ WakeHistory /\ pendingHistory # <<>>
         \/ \E c \in TextChannels : Broadcast(c)
         \/ HandleLog \/ HandleBefore
         \/ OnAppendMessage \/ OnSetHistory \/ OnPrependHistory
<1>1. /\ switches \in Nat /\ control.ch \in TextChannels
      /\ requests \in Seq(Request) /\ pendingMessages \in Seq(TextChannels)
  BY ChatAssumption DEF HistoryInv, ViewInv, RequestsInv
<1>2. \A c \in TextChannels : ~Select(c)
  BY <1>1 DEF Select
<1>3. WakeTextChannel => Quiet
  BY DEF WakeTextChannel, ControlStays, Quiet, view, queues
<1>4. ASSUME WakeMessage PROVE Quiet \/ ChatWritten
  <2>1. CASE pendingMessages # <<>>
    <3> DEFINE r == Chat(control.ch, Head(pendingMessages))
    <3>1. Head(pendingMessages) \in TextChannels
      BY <1>1, <2>1, Taken
    <3>2. r \in Request /\ r.type = "CHAT"
      BY <1>1, <3>1 DEF Chat, Request
    <3>3. requests' = Append(requests, r) /\ UNCHANGED <<pushes, loaded, model, inFlight, pendingHistory>>
      BY <1>4, <2>1 DEF WakeMessage, view
    <3> HIDE DEF r
    <3>4. QED
      BY <3>2, <3>3 DEF ChatWritten
  <2>2. CASE pendingMessages = <<>>
    BY <1>4, <2>2 DEF WakeMessage, Quiet, view
  <2>3. QED
    BY <2>1, <2>2
<1>5. WakeHistory => Quiet \/ (WakeHistory /\ pendingHistory # <<>>)
  BY DEF WakeHistory, Quiet, view
<1>6. HandleChat => ChatTaken
  BY DEF HandleChat, PostChat, ChatTaken, view, queues
<1>7. Type \/ StoreMessage \/ Tick \/ UNCHANGED vars => Quiet
  BY DEF Type, StoreMessage, Tick, vars, view, queues, Quiet
<1>8. (\E c \in TextChannels : OtherChat(c)) => Quiet
  BY DEF OtherChat, PostChat, Quiet, view, queues
<1>9. QED
  BY <1>2, <1>3, <1>4, <1>5, <1>6, <1>7, <1>8, Zenon DEF Next, UserNext, SystemNext

\* What a step does to the requests, as far as the first page is concerned.
LEMMA FirstAsked ==
  ASSUME HistoryInv, OnlyFirst(requests, "REQ_CHAT_LOG"),
         \/ requests' = requests
         \/ \E r \in Request : r.type # "REQ_CHAT_LOG" /\ requests' = Append(requests, r)
         \/ \E type : Handle(type)
  PROVE  /\ OnlyFirst(requests', "REQ_CHAT_LOG")
         /\ ~NoneOf(requests', "REQ_CHAT_LOG") => ~NoneOf(requests, "REQ_CHAT_LOG")
         /\ (\E type : Handle(type)) => NoneOf(requests', "REQ_CHAT_LOG")
<1>0. requests \in Seq(Request) /\ Len(requests) \in Nat
  BY DEF HistoryInv, RequestsInv
<1>1. ASSUME NEW type, Handle(type)
      PROVE  NoneOf(requests', "REQ_CHAT_LOG")
  <2>1. requests # <<>> /\ requests' = Tail(requests)
    BY <1>1 DEF Handle
  <2>2. \A i \in 1 .. Len(requests') : requests'[i] = requests[i + 1] /\ i + 1 \in 1 .. Len(requests)
    BY <1>0, <2>1, Taken
  <2>3. \A i \in 1 .. Len(requests') : i + 1 # 1
    OBVIOUS
  <2>4. QED
    BY <2>2, <2>3 DEF OnlyFirst, NoneOf
<1>2. CASE \E type : Handle(type)
  BY <1>1, <1>2 DEF OnlyFirst, NoneOf
<1>3. CASE requests' = requests
  BY <1>1, <1>3
<1>4. CASE \E r \in Request : r.type # "REQ_CHAT_LOG" /\ requests' = Append(requests, r)
  <2>1. PICK r \in Request : r.type # "REQ_CHAT_LOG" /\ requests' = Append(requests, r)
    BY <1>4
  <2>2. NoneOf(requests', "REQ_CHAT_LOG") <=> NoneOf(requests, "REQ_CHAT_LOG")
    BY <1>0, <2>1, KindsAdded
  <2>3. OnlyFirst(requests', "REQ_CHAT_LOG")
    BY <1>0, <2>1, Added DEF OnlyFirst
  <2>4. QED
    BY <1>1, <2>2, <2>3
<1>5. QED
  BY <1>2, <1>3, <1>4

LEMMA NewerTaken ==
  ASSUME NEW q \in Seq(Push), q # <<>>, NewerBehind(q)
  PROVE  NewerBehind(Tail(q))
<1>1. /\ Len(q) \in Nat /\ Len(Tail(q)) = Len(q) - 1
      /\ \A i \in 1 .. Len(Tail(q)) : Tail(q)[i] = q[i + 1] /\ i + 1 \in 1 .. Len(q)
  BY Taken
<1>2. QED
  BY <1>1 DEF NewerBehind

LEMMA NewerAdded ==
  ASSUME NEW q \in Seq(Push), NEW p \in Push, NewerBehind(q),
         p.type = "PUSH_CHAT" =>
           \A i \in 1 .. Len(q) : q[i].type = "CHAT_LOG" =>
              \A k \in 1 .. Len(q[i].rows) : q[i].rows[k].id < p.row.id
  PROVE  NewerBehind(Append(q, p))
<1> DEFINE longer == Append(q, p)
<1>1. /\ Len(q) \in Nat /\ \A i \in 1 .. Len(q) : longer[i] = q[i]
      /\ longer[Len(q) + 1] = p
      /\ \A i \in 1 .. Len(longer) : i \in 1 .. Len(q) \/ i = Len(q) + 1
  BY Added
<1> HIDE DEF longer
<1>2. ASSUME NEW i \in 1 .. Len(longer), NEW j \in 1 .. Len(longer), i < j,
             longer[i].type = "CHAT_LOG", longer[j].type = "PUSH_CHAT"
      PROVE  \A k \in 1 .. Len(longer[i].rows) : longer[i].rows[k].id < longer[j].row.id
  <2>1. i \in 1 .. Len(q) /\ longer[i] = q[i]
    BY <1>1, <1>2
  <2>2. CASE j \in 1 .. Len(q)
    <3>1. longer[j] = q[j]
      BY <1>1, <2>2
    <3>2. QED
      BY <1>2, <2>1, <2>2, <3>1 DEF NewerBehind
  <2>3. CASE j = Len(q) + 1
    BY <1>1, <1>2, <2>1, <2>3
  <2>4. QED
    BY <1>1, <2>2, <2>3
<1>3. QED
  BY <1>2 DEF NewerBehind, longer

\* What a handler sends is a push: the broadcast of a new message or a page.
LEMMA Answered ==
  ASSUME HistoryInv, StampsInv, [Next]_vars
  PROVE  /\ HandleLog =>
              \E p \in Push : /\ p.type = "CHAT_LOG" /\ pushes' = Append(pushes, p)
                              /\ p.ch = Head(requests).ch /\ p.rows = PageOf(RowsOf(p.ch))
                              /\ p.hasMore => Cardinality(RowsOf(p.ch)) > PageSize
         /\ HandleBefore =>
              \E p \in Push :
                /\ p.type = "CHAT_LOG_MORE" /\ pushes' = Append(pushes, p)
                /\ p.ch = Head(requests).ch
                /\ p.rows = PageOf(RowsBefore(p.ch, Head(requests).before))
                /\ p.hasMore => Cardinality(RowsBefore(p.ch, Head(requests).before)) > PageSize
         /\ \A c \in TextChannels : Broadcast(c) =>
              \E p \in Push : /\ p.type = "PUSH_CHAT" /\ pushes' = Append(pushes, p)
                              /\ p.row.id = Len(sent) + 1 /\ p.row \in Row
                              /\ p.ch = c /\ p.row.ch = c
<1>0. /\ ServerInv /\ requests \in Seq(Request) /\ ServerInv'
  BY HistoryKept DEF HistoryInv, RequestsInv
<1>1. ASSUME NEW type \in {"CHAT_LOG", "CHAT_LOG_MORE"}, NEW c \in TextChannels,
             NEW rows \in SUBSET RowsOf(c), Answer(type, c, rows)
      PROVE  \E p \in Push : /\ p.type = type /\ pushes' = Append(pushes, p)
                             /\ p.ch = c /\ p.rows = PageOf(rows)
                             /\ p.hasMore => Cardinality(rows) > PageSize
  <2> DEFINE more == Cardinality(rows) > PageSize
             page == PageOf(rows)
             p == [type |-> type, ch |-> c, rows |-> page, hasMore |-> more]
  <2>1. more \in BOOLEAN
    OBVIOUS
  <2>2. rows \in SUBSET (1 .. Len(messages))
    BY DEF RowsOf
  <2>3. page \in Seq(Row)
    BY <1>0, <2>2, PageListed DEF ServerInv
  <2>4. pushes' = Append(pushes, p)
    BY <1>1 DEF Answer, PageOf
  <2>8. more => Cardinality(rows) > PageSize
    OBVIOUS
  <2> HIDE DEF more, page
  <2>5. p \in Push
    BY <2>1, <2>3 DEF Push
  <2>6. p.type = type /\ p.ch = c /\ p.rows = page
    OBVIOUS
  <2>9. p.hasMore => Cardinality(rows) > PageSize
    BY <2>8
  <2> HIDE DEF p
  <2>7. QED
    BY <2>4, <2>5, <2>6, <2>9 DEF page
<1>2. ASSUME HandleLog
      PROVE  \E p \in Push : /\ p.type = "CHAT_LOG" /\ pushes' = Append(pushes, p)
                             /\ p.ch = Head(requests).ch /\ p.rows = PageOf(RowsOf(p.ch))
                             /\ p.hasMore => Cardinality(RowsOf(p.ch)) > PageSize
  <2>1. Handle("REQ_CHAT_LOG") /\ Answer("CHAT_LOG", Head(requests).ch, RowsOf(Head(requests).ch))
    BY <1>2 DEF HandleLog
  <2>2. Head(requests).ch \in TextChannels
    BY <1>0, <2>1, Handled, RequestParts
  <2>3. QED
    BY <1>1, <2>1, <2>2
<1>3. ASSUME HandleBefore
      PROVE  \E p \in Push : /\ p.type = "CHAT_LOG_MORE" /\ pushes' = Append(pushes, p)
                             /\ p.ch = Head(requests).ch
                             /\ p.rows = PageOf(RowsBefore(p.ch, Head(requests).before))
                             /\ p.hasMore =>
                                  Cardinality(RowsBefore(p.ch, Head(requests).before)) > PageSize
  <2>1. /\ Handle("REQ_CHAT_LOG_BEFORE")
        /\ Answer("CHAT_LOG_MORE", Head(requests).ch,
                  RowsBefore(Head(requests).ch, Head(requests).before))
    BY <1>3 DEF HandleBefore
  <2>2. Head(requests).ch \in TextChannels
    BY <1>0, <2>1, Handled, RequestParts
  <2>3. RowsBefore(Head(requests).ch, Head(requests).before) \in SUBSET RowsOf(Head(requests).ch)
    BY DEF RowsBefore
  <2>4. QED
    BY <1>1, <2>1, <2>2, <2>3
<1>4. ASSUME NEW c \in TextChannels, Broadcast(c)
      PROVE  \E p \in Push : /\ p.type = "PUSH_CHAT" /\ pushes' = Append(pushes, p)
                             /\ p.row.id = Len(sent) + 1 /\ p.row \in Row
                             /\ p.ch = c /\ p.row.ch = c
  <2> DEFINE row == [id |-> lastId, ch |-> c, ts |-> Now]
             p == [type |-> "PUSH_CHAT", ch |-> c, row |-> row]
  <2>1. lastId = Len(sent) + 1
    BY <1>0, <1>4, SentBroadcast
  <2>2. pushes' = Append(pushes, p)
    BY <1>4 DEF Broadcast
  <2>3. lastId \in Ids /\ Now \in Stamps
    BY <1>0, <1>4, BroadcastKeepsServer
  <2>4. row \in Row /\ row.id = lastId /\ row.ch = c
    BY <2>3 DEF Row
  <2> HIDE DEF row
  <2>5. p \in Push /\ p.type = "PUSH_CHAT" /\ p.row = row /\ p.ch = c
    BY <2>4 DEF Push
  <2> HIDE DEF p
  <2>6. QED
    BY <2>1, <2>2, <2>4, <2>5
<1>5. QED
  BY <1>2, <1>3, <1>4

LEMMA FirstPageKept ==
  ASSUME HistoryInv, StampsInv, ControlStays, FirstPage, [Next]_vars,
         switches = 0, switches' = 0
  PROVE  FirstPage'
<1> USE DEF FirstPage
<1>0. /\ requests \in Seq(Request) /\ pushes \in Seq(Push) /\ ServerInv
      /\ OnlyFirst(requests, "REQ_CHAT_LOG") /\ NewerBehind(pushes)
  BY DEF HistoryInv, RequestsInv, PushesInv
<1>1. CASE Quiet
  BY <1>1 DEF Quiet
<1>2. CASE ChatWritten
  <2>1. \E r \in Request : r.type # "REQ_CHAT_LOG" /\ requests' = Append(requests, r)
    BY <1>2 DEF ChatWritten
  <2>2. pushes' = pushes /\ loaded' = loaded
    BY <1>2 DEF ChatWritten
  <2>3. QED
    BY <1>0, <2>1, <2>2, FirstAsked
<1>3. CASE RequestOlder
  BY <1>3 DEF RequestOlder
<1>4. CASE WakeHistory /\ pendingHistory # <<>>
  <2> DEFINE h == Head(pendingHistory)
             r == Before(h.ch, h.before)
  <2>1. h \in [ch : TextChannels, before : Stamps]
    BY <1>4, Taken DEF HistoryInv, RequestsInv
  <2>2. r \in Request /\ r.type # "REQ_CHAT_LOG"
    BY <2>1 DEF Before, Request
  <2>3. requests' = Append(requests, r) /\ pushes' = pushes /\ loaded' = loaded
    BY <1>4 DEF WakeHistory, view
  <2> HIDE DEF r
  <2>4. QED
    BY <1>0, <2>2, <2>3, FirstAsked
<1>12. CASE ChatTaken
  <2>1. Handle("CHAT") /\ pushes' = pushes /\ loaded' = loaded
    BY <1>12 DEF ChatTaken
  <2>2. QED
    BY <1>0, <2>1, FirstAsked
<1>5. CASE \E c \in TextChannels : Broadcast(c)
  <2>1. PICK c \in TextChannels : Broadcast(c)
    BY <1>5
  <2>2. PICK p \in Push : p.type = "PUSH_CHAT" /\ pushes' = Append(pushes, p) /\ p.row.id = Len(sent) + 1
    BY <2>1, Answered
  <2>3. loaded' = loaded
    BY <2>1 DEF Broadcast, view
  <2>4. /\ OnlyFirst(requests', "REQ_CHAT_LOG")
        /\ ~NoneOf(requests', "REQ_CHAT_LOG") => ~NoneOf(requests, "REQ_CHAT_LOG")
    BY <1>0, <2>1, FirstAsked DEF Broadcast
  <2>5. /\ NoneOf(pushes', "CHAT_LOG") <=> NoneOf(pushes, "CHAT_LOG")
        /\ OneOf(pushes, "CHAT_LOG") => OneOf(pushes', "CHAT_LOG")
    BY <1>0, <2>2, KindsAdded
  <2>6. NewerBehind(pushes')
    <3>1. \A i \in 1 .. Len(pushes) : pushes[i].type = "CHAT_LOG" =>
             \A k \in 1 .. Len(pushes[i].rows) : pushes[i].rows[k].id \in 1 .. Len(sent)
      BY DEF StampsInv, PushAnchored, Anchored
    <3>2. Len(sent) \in Nat
      BY Grown
    <3>3. \A i \in 1 .. Len(pushes) : pushes[i].type = "CHAT_LOG" =>
             \A k \in 1 .. Len(pushes[i].rows) : pushes[i].rows[k].id < p.row.id
      BY <2>2, <3>1, <3>2
    <3>4. NewerBehind(Append(pushes, p))
      BY <1>0, <3>3, NewerAdded
    <3>5. QED
      BY <2>2, <3>4
  <2>7. QED
    BY <2>3, <2>4, <2>5, <2>6
<1>6. CASE HandleLog
  <2>1. PICK p \in Push : p.type = "CHAT_LOG" /\ pushes' = Append(pushes, p)
    BY <1>6, Answered
  <2>2. Handle("REQ_CHAT_LOG") /\ loaded' = loaded
    BY <1>6 DEF HandleLog, view
  <2>3. OnlyFirst(requests', "REQ_CHAT_LOG") /\ NoneOf(requests', "REQ_CHAT_LOG")
    BY <1>0, <2>2, FirstAsked
  <2>4. ~NoneOf(requests, "REQ_CHAT_LOG")
    BY <1>0, <2>2, KindsTaken DEF Handle
  <2>5. OneOf(pushes', "CHAT_LOG")
    BY <1>0, <2>1, <2>4, KindsAdded
  <2>6. NewerBehind(pushes')
    BY <1>0, <2>1, NewerAdded
  <2>7. QED
    BY <2>2, <2>3, <2>4, <2>5, <2>6
<1>7. CASE HandleBefore
  <2>1. PICK p \in Push : p.type = "CHAT_LOG_MORE" /\ pushes' = Append(pushes, p)
    BY <1>7, Answered
  <2>2. Handle("REQ_CHAT_LOG_BEFORE") /\ loaded' = loaded
    BY <1>7 DEF HandleBefore, view
  <2>3. OnlyFirst(requests', "REQ_CHAT_LOG") /\ NoneOf(requests', "REQ_CHAT_LOG")
    BY <1>0, <2>2, FirstAsked
  <2>4. /\ NoneOf(pushes', "CHAT_LOG") <=> NoneOf(pushes, "CHAT_LOG")
        /\ OneOf(pushes, "CHAT_LOG") => OneOf(pushes', "CHAT_LOG")
    BY <1>0, <2>1, KindsAdded
  <2>5. NewerBehind(pushes')
    BY <1>0, <2>1, NewerAdded
  <2>6. QED
    BY <2>2, <2>3, <2>4, <2>5
<1>8. ASSUME NEW type, Receive(type)
      PROVE  /\ requests' = requests /\ pushes # <<>> /\ pushes' = Tail(pushes)
             /\ Head(pushes).type = type
             /\ OneOf(pushes', "CHAT_LOG") /\ NewerBehind(pushes')
             /\ ~NoneOf(pushes', "CHAT_LOG") => ~NoneOf(pushes, "CHAT_LOG")
             /\ type = "CHAT_LOG" => ~NoneOf(pushes, "CHAT_LOG") /\ NoneOf(pushes', "CHAT_LOG")
  <2>1. requests' = requests /\ pushes # <<>> /\ pushes' = Tail(pushes) /\ Head(pushes).type = type
    BY <1>8 DEF Receive
  <2>2. NewerBehind(pushes')
    BY <1>0, <2>1, NewerTaken
  <2>3. QED
    BY <1>0, <2>1, <2>2, KindsTaken
<1>9. CASE OnAppendMessage \/ OnPrependHistory
  <2>1. loaded' = loaded /\ \E type : Receive(type)
    BY <1>9 DEF OnAppendMessage, OnPrependHistory
  <2>2. QED
    BY <1>8, <2>1
<1>10. CASE OnSetHistory
  <2>1. Receive("CHAT_LOG")
    BY <1>10 DEF OnSetHistory
  <2>2. NoneOf(pushes', "CHAT_LOG") /\ OneOf(pushes', "CHAT_LOG") /\ NewerBehind(pushes')
        /\ ~NoneOf(pushes, "CHAT_LOG") /\ requests' = requests
    BY <1>8, <2>1
  <2>3. NoneOf(requests', "REQ_CHAT_LOG")
    BY <2>2
  <2>4. QED
    BY <2>2, <2>3
<1>11. QED
  BY <1>1, <1>2, <1>3, <1>4, <1>5, <1>6, <1>7, <1>9, <1>10, <1>12, StaySteps

\* An older page in front of the rows.
LEMMA Joined ==
  ASSUME NEW page \in Seq(Row), NEW rows \in Seq(Row),
         Ascending(page), Ascending(rows), OlderPage(page, rows)
  PROVE  /\ Ascending(page \o rows) /\ page \o rows \in Seq(Row)
         /\ Len(page \o rows) = Len(page) + Len(rows)
         /\ \A i \in 1 .. Len(page \o rows) :
              \/ i \in 1 .. Len(page) /\ (page \o rows)[i] = page[i]
              \/ i - Len(page) \in 1 .. Len(rows) /\ (page \o rows)[i] = rows[i - Len(page)]
<1>1. /\ Len(page) \in Nat /\ Len(rows) \in Nat /\ rows # <<>> /\ Len(rows) >= 1
      /\ page \o rows \in Seq(Row) /\ Len(page \o rows) = Len(page) + Len(rows)
      /\ \A i \in 1 .. Len(page) + Len(rows) :
           (page \o rows)[i] = IF i <= Len(page) THEN page[i] ELSE rows[i - Len(page)]
  BY ConcatProperties DEF OlderPage
<1> DEFINE both == page \o rows
<1> HIDE DEF both
<1>2. \A i \in 1 .. Len(both) :
         \/ i \in 1 .. Len(page) /\ both[i] = page[i]
         \/ /\ i \notin 1 .. Len(page)
            /\ i - Len(page) \in 1 .. Len(rows) /\ both[i] = rows[i - Len(page)]
  BY <1>1 DEF both
<1>3. /\ \A i \in 1 .. Len(page) : page[i].id \in Nat
      /\ \A i \in 1 .. Len(rows) : rows[i].id \in Nat
  <2>1. /\ \A i \in 1 .. Len(page) : page[i] \in Row
        /\ \A i \in 1 .. Len(rows) : rows[i] \in Row
    BY Members
  <2>2. QED
    BY <2>1 DEF Row, Ids
<1>4. \A i \in 1 .. Len(rows) : rows[1].id <= rows[i].id
  BY <1>1, <1>3 DEF Ascending
<1>5. ASSUME NEW i \in 1 .. Len(both), NEW j \in 1 .. Len(both), i < j
      PROVE  both[i].id < both[j].id
  <2>1. CASE j \in 1 .. Len(page)
    <3>1. i \in 1 .. Len(page)
      BY <1>1, <1>5, <2>1
    <3>2. both[i] = page[i] /\ both[j] = page[j]
      BY <1>2, <2>1, <3>1
    <3>3. QED
      BY <1>5, <2>1, <3>1, <3>2 DEF Ascending
  <2>2. CASE i \in 1 .. Len(page) /\ j \notin 1 .. Len(page)
    <3>1. both[i] = page[i] /\ j - Len(page) \in 1 .. Len(rows) /\ both[j] = rows[j - Len(page)]
      BY <1>2, <2>2
    <3>2. page[i].id < rows[1].id
      BY <2>2 DEF OlderPage
    <3>3. 1 \in 1 .. Len(rows)
      BY <1>1
    <3>4. QED
      BY <1>3, <1>4, <2>2, <3>1, <3>2, <3>3
  <2>3. CASE i \notin 1 .. Len(page) /\ j \notin 1 .. Len(page)
    <3>1. /\ i - Len(page) \in 1 .. Len(rows) /\ both[i] = rows[i - Len(page)]
          /\ j - Len(page) \in 1 .. Len(rows) /\ both[j] = rows[j - Len(page)]
          /\ i - Len(page) < j - Len(page)
      BY <1>1, <1>2, <1>5, <2>3
    <3>2. QED
      BY <3>1 DEF Ascending
  <2>4. QED
    BY <2>1, <2>2, <2>3
<1>6. QED
  BY <1>1, <1>2, <1>5 DEF Ascending, both

HasRow(rows, m) == \E k \in 1 .. Len(rows) : rows[k].id = m

\* The message is a row, or one that older pages still bring.
Reaches(rows, m) == HasRow(rows, m) \/ (rows # <<>> /\ m < rows[1].id)

\* A newer row behind the rows, and the oldest ones cut off.
Longer(rows, row) == Trimmed(Append(rows, row))

LEMMA Extended ==
  ASSUME NEW rows \in Seq(Row), NEW row \in Row, Ascending(rows),
         \A i \in 1 .. Len(rows) : rows[i].id < row.id
  PROVE  /\ Longer(rows, row) \in Seq(Row) /\ Longer(rows, row) # <<>>
         /\ Ascending(Longer(rows, row))
         /\ \A i \in 1 .. Len(Longer(rows, row)) :
              \/ Longer(rows, row)[i] = row
              \/ \E j \in 1 .. Len(rows) : Longer(rows, row)[i] = rows[j]
         /\ rows # <<>> => rows[1].id <= Longer(rows, row)[1].id
         /\ rows # <<>> /\ Len(rows) < MemoryLimit => Longer(rows, row)[1] = rows[1]
         /\ HasRow(Longer(rows, row), row.id)
         /\ \A m \in Nat : Reaches(rows, m) => Reaches(Longer(rows, row), m)
<1> DEFINE added == Append(rows, row)
           longer == Trimmed(added)
<1>1. /\ added \in Seq(Row) /\ Len(rows) \in Nat /\ Len(added) = Len(rows) + 1
      /\ \A i \in 1 .. Len(rows) : added[i] = rows[i] /\ rows[i] \in Row
      /\ added[Len(rows) + 1] = row
      /\ \A i \in 1 .. Len(added) : i \in 1 .. Len(rows) \/ i = Len(rows) + 1
  BY Added
<1>2. Ascending(added)
  BY <1>1 DEF Ascending
<1> HIDE DEF added
<1>3. added # <<>> /\ Len(added) \in Nat
  BY <1>1
<1>4. PICK k \in 0 .. Len(added) :
        /\ k < Len(added)
        /\ Len(added) <= MemoryLimit => k = 0
        /\ Len(Trimmed(added)) = Len(added) - k
        /\ \A i \in 1 .. Len(Trimmed(added)) :
             i + k \in 1 .. Len(added) /\ Trimmed(added)[i] = added[i + k]
  BY <1>1, <1>3, TrimmedRows
<1>5. longer \in Seq(Row) /\ Len(longer) \in Nat /\ Len(longer) >= 1
  <2>1. longer \in Seq(Row)
    BY <1>1, TrimmedRows
  <2>2. QED
    BY <1>3, <1>4, <2>1
<1>6. Ascending(longer)
  <2>1. \A i, j \in 1 .. Len(longer) : i < j => i + k < j + k
    BY <1>4
  <2>2. QED
    BY <1>2, <1>4, <2>1 DEF Ascending
<1>7. \A i \in 1 .. Len(longer) : \/ longer[i] = row
                                  \/ \E j \in 1 .. Len(rows) : longer[i] = rows[j]
  BY <1>1, <1>4
<1>8. ASSUME rows # <<>> PROVE rows[1].id <= longer[1].id
  <2>1. 1 \in 1 .. Len(rows) /\ added[1] = rows[1]
    BY <1>1, <1>8
  <2>2. longer[1] = added[1 + k] /\ 1 + k \in 1 .. Len(added) /\ 1 \in 1 .. Len(added)
    BY <1>1, <1>4, <1>5, <2>1
  <2>3. \A i \in 1 .. Len(added) : added[i] \in Row
    BY <1>1, Members
  <2>4. added[1].id \in Nat /\ added[1 + k].id \in Nat
    BY <2>2, <2>3 DEF Row, Ids
  <2>5. added[1].id <= added[1 + k].id
    <3>1. CASE k = 0
      BY <2>4, <3>1
    <3>2. CASE k # 0
      BY <1>2, <2>2, <2>4, <3>2 DEF Ascending
    <3>3. QED
      BY <3>1, <3>2
  <2>6. QED
    BY <2>1, <2>2, <2>5
<1>9. longer # <<>>
  BY <1>5
<1>10. ASSUME rows # <<>>, Len(rows) < MemoryLimit PROVE longer[1] = rows[1]
  <2>1. k = 0
    BY <1>1, <1>4, <1>10, ChatAssumption
  <2>2. 1 \in 1 .. Len(rows) /\ 1 \in 1 .. Len(longer) /\ 1 + k = 1
    BY <1>1, <1>5, <1>10, <2>1
  <2>3. QED
    BY <1>1, <1>4, <2>2
<1>11. /\ Len(longer) \in 1 .. Len(longer) /\ Len(longer) + k = Len(rows) + 1
       /\ \A l \in 1 .. Len(rows) : k < l => /\ l - k \in 1 .. Len(longer)
                                             /\ (l - k) + k = l
  BY <1>1, <1>4, <1>5
<1>12. HasRow(longer, row.id)
  <2>1. longer[Len(longer)] = row
    BY <1>1, <1>4, <1>11
  <2>2. QED
    BY <1>11, <2>1 DEF HasRow
<1>13. ASSUME NEW m \in Nat, Reaches(rows, m) PROVE Reaches(longer, m)
  <2>0. 1 \in 1 .. Len(longer) /\ 1 + k \in 1 .. Len(added) /\ longer[1] = added[1 + k]
    BY <1>4, <1>5
  <2>1. ASSUME NEW l \in 1 .. Len(rows), rows[l].id = m PROVE Reaches(longer, m)
    <3>1. CASE k < l
      <4>1. longer[l - k] = rows[l]
        BY <1>1, <1>4, <1>11, <3>1
      <4>2. QED
        BY <1>11, <2>1, <3>1, <4>1 DEF Reaches, HasRow
    <3>2. CASE ~(k < l)
      <4>1. l \in 1 .. Len(added) /\ l < 1 + k /\ added[l] = rows[l]
        BY <1>1, <3>2
      <4>2. m < longer[1].id
        BY <1>2, <2>0, <2>1, <4>1 DEF Ascending
      <4>3. QED
        BY <1>9, <4>2 DEF Reaches
    <3>3. QED
      BY <3>1, <3>2
  <2>2. ASSUME rows # <<>>, m < rows[1].id PROVE Reaches(longer, m)
    <3>1. 1 \in 1 .. Len(rows)
      BY <1>1, <2>2
    <3>2. rows[1].id \in Nat /\ longer[1].id \in Nat
      <4>1. rows[1] \in Row /\ longer[1] \in Row
        BY <1>1, <1>5, <2>0, <3>1, Members
      <4>2. QED
        BY <4>1 DEF Row, Ids
    <3>3. m < longer[1].id
      BY <1>8, <2>2, <3>2
    <3>4. QED
      BY <1>9, <3>3 DEF Reaches
  <2>3. QED
    BY <1>13, <2>1, <2>2 DEF Reaches, HasRow
<1> HIDE DEF longer
<1>14. QED
  BY <1>5, <1>6, <1>7, <1>8, <1>9, <1>10, <1>12, <1>13 DEF longer, added, Longer

LEMMA ModelInvKept ==
  ASSUME HistoryInv, StampsInv, ControlStays, FirstPage, ModelInv, OlderInv, [Next]_vars,
         switches = 0, switches' = 0
  PROVE  ModelInv'
<1>0. /\ pushes \in Seq(Push) /\ PushesInv /\ model \in Seq(Row) /\ Len(pushes) \in Nat
      /\ Ascending(model) /\ StillNewer(model, pushes) /\ Len(sent) \in Nat
  BY Grown DEF HistoryInv, PushesInv, ViewInv, ModelInv
<1>1. CASE UNCHANGED <<model, pushes>>
  BY <1>0, <1>1 DEF ModelInv
<1>2. ASSUME NEW p \in Push, pushes' = Append(pushes, p), model' = model,
             p.type = "PUSH_CHAT" => p.row.id = Len(sent) + 1
      PROVE  ModelInv'
  <2>1. /\ \A i \in 1 .. Len(pushes) : pushes'[i] = pushes[i]
        /\ pushes'[Len(pushes) + 1] = p
        /\ \A i \in 1 .. Len(pushes') : i \in 1 .. Len(pushes) \/ i = Len(pushes) + 1
    BY <1>0, <1>2, Added
  <2>2. \A k \in 1 .. Len(model) : model[k].id \in 1 .. Len(sent)
    BY DEF StampsInv, Anchored
  <2>3. \A k \in 1 .. Len(model) : p.type = "PUSH_CHAT" => model[k].id < p.row.id
    BY <1>0, <1>2, <2>2
  <2>4. StillNewer(model, pushes')
    BY <1>0, <2>1, <2>3 DEF StillNewer
  <2>5. QED
    BY <1>0, <1>2, <2>4 DEF ModelInv
<1>3. CASE \/ HandleLog \/ HandleBefore \/ \E c \in TextChannels : Broadcast(c)
  <2>1. model' = model
    BY <1>3 DEF HandleLog, HandleBefore, Broadcast, view
  <2>2. \E p \in Push : /\ pushes' = Append(pushes, p)
                        /\ p.type = "PUSH_CHAT" => p.row.id = Len(sent) + 1
    BY <1>3, Answered
  <2>3. QED
    BY <1>2, <2>1, <2>2
<1>4. ASSUME NEW type, Receive(type)
      PROVE  /\ pushes # <<>> /\ pushes' = Tail(pushes) /\ Head(pushes).type = type
             /\ Head(pushes) = pushes[1] /\ Head(pushes) \in Push /\ 1 \in 1 .. Len(pushes)
             /\ PushAnchored(Head(pushes), messages, clock, sent)
             /\ \A i \in 1 .. Len(pushes') : /\ pushes'[i] = pushes[i + 1]
                                             /\ i + 1 \in 1 .. Len(pushes) /\ 1 < i + 1
             /\ StillNewer(model, pushes')
  <2>1. pushes # <<>> /\ pushes' = Tail(pushes) /\ Head(pushes).type = type
    BY <1>4 DEF Receive
  <2>2. /\ Head(pushes) = pushes[1] /\ Head(pushes) \in Push /\ 1 \in 1 .. Len(pushes)
        /\ \A i \in 1 .. Len(pushes') : pushes'[i] = pushes[i + 1] /\ i + 1 \in 1 .. Len(pushes)
    BY <1>0, <2>1, Taken
  <2>3. PushAnchored(Head(pushes), messages, clock, sent)
    BY <2>2 DEF StampsInv
  <2>4. \A i \in 1 .. Len(pushes') : 1 < i + 1
    OBVIOUS
  <2>5. StillNewer(model, pushes')
    BY <1>0, <2>2 DEF StillNewer
  <2>6. QED
    BY <2>1, <2>2, <2>3, <2>4, <2>5
<1>5. CASE OnAppendMessage
  <2> DEFINE row == Head(pushes).row
  <2>1. Receive("PUSH_CHAT") /\ (model' = model \/ model' = Longer(model, row))
    BY <1>5 DEF OnAppendMessage, Longer
  <2>2. CASE model' = model
    BY <1>0, <1>4, <2>1, <2>2 DEF ModelInv
  <2>3. CASE model' = Longer(model, row)
    <3>1. row \in Row /\ row = pushes[1].row
      BY <1>4, <2>1, PushParts
    <3>2. \A i \in 1 .. Len(model) : model[i].id < row.id
      BY <1>0, <1>4, <2>1, <3>1 DEF StillNewer
    <3> HIDE DEF row
    <3>3. /\ Ascending(model')
          /\ \A i \in 1 .. Len(model') : \/ model'[i] = row
                                         \/ \E j \in 1 .. Len(model) : model'[i] = model[j]
      BY <1>0, <2>3, <3>1, <3>2, Extended
    <3>4. \A i \in 1 .. Len(pushes') : pushes'[i].type = "PUSH_CHAT" => row.id < pushes'[i].row.id
      BY <1>4, <2>1, <3>1 DEF StampsInv, InSendingOrder
    <3>5. StillNewer(model', pushes')
      BY <1>4, <2>1, <3>3, <3>4 DEF StillNewer
    <3>6. QED
      BY <3>3, <3>5 DEF ModelInv
  <2>4. QED
    BY <2>1, <2>2, <2>3
<1>6. CASE OnSetHistory
  <2> DEFINE rows == Head(pushes).rows
  <2>1. Receive("CHAT_LOG") /\ (model' = model \/ model' = rows)
    BY <1>6 DEF OnSetHistory
  <2>2. CASE model' = model
    BY <1>0, <1>4, <2>1, <2>2 DEF ModelInv
  <2>3. CASE model' = rows
    <3>1. Ascending(model')
      BY <1>4, <2>1, <2>3 DEF PushAnchored
    <3>2. /\ pushes[1].type = "CHAT_LOG" /\ rows = pushes[1].rows /\ 1 \in 1 .. Len(pushes)
          /\ \A i \in 1 .. Len(pushes') : /\ pushes'[i] = pushes[i + 1]
                                          /\ i + 1 \in 1 .. Len(pushes) /\ 1 < i + 1
      BY <1>4, <2>1
    <3>3. \A j \in 1 .. Len(pushes) : 1 < j /\ pushes[j].type = "PUSH_CHAT" =>
             \A k \in 1 .. Len(pushes[1].rows) : pushes[1].rows[k].id < pushes[j].row.id
      BY <3>2 DEF FirstPage, NewerBehind
    <3> HIDE DEF rows
    <3>4. StillNewer(rows, pushes')
      BY <3>2, <3>3 DEF StillNewer
    <3>5. QED
      BY <2>3, <3>1, <3>4 DEF ModelInv
  <2>4. QED
    BY <2>1, <2>2, <2>3
<1>7. CASE OnPrependHistory
  <2> DEFINE rows == Head(pushes).rows
  <2>1. Receive("CHAT_LOG_MORE") /\ (model' = model \/ model' = rows \o model)
    BY <1>7 DEF OnPrependHistory
  <2>2. CASE model' = model
    BY <1>0, <1>4, <2>1, <2>2 DEF ModelInv
  <2>3. CASE model' = rows \o model
    <3>1. rows \in Seq(Row) /\ Ascending(rows) /\ OlderPage(rows, model)
      BY <1>4, <2>1, PushParts DEF PushAnchored, OlderInv
    <3> HIDE DEF rows
    <3>2. /\ Ascending(model') /\ Len(rows) \in Nat /\ Len(model) \in Nat
          /\ \A i \in 1 .. Len(model') :
               \/ i \in 1 .. Len(rows) /\ model'[i] = rows[i]
               \/ i - Len(rows) \in 1 .. Len(model) /\ model'[i] = model[i - Len(rows)]
      BY <1>0, <2>3, <3>1, Joined
    <3>3. /\ \A i \in 1 .. Len(rows) : rows[i].id \in Nat
          /\ model[1].id \in Nat /\ 1 \in 1 .. Len(model)
      <4>1. /\ \A i \in 1 .. Len(rows) : rows[i] \in Row
            /\ \A i \in 1 .. Len(model) : model[i] \in Row
        BY <1>0, <3>1, Members
      <4>2. 1 \in 1 .. Len(model)
        BY <1>0, <3>1 DEF OlderPage
      <4>3. QED
        BY <4>1, <4>2 DEF Row, Ids
    <3>4. ASSUME NEW i \in 1 .. Len(pushes'), pushes'[i].type = "PUSH_CHAT",
                 NEW k \in 1 .. Len(model')
          PROVE  model'[k].id < pushes'[i].row.id
      <4>1. \A l \in 1 .. Len(model) : model[l].id < pushes'[i].row.id
        BY <1>4, <2>1, <3>4 DEF StillNewer
      <4>2. pushes'[i].row.id \in Nat
        <5>1. pushes'[i] \in Push
          BY <1>0, <1>4, <2>1, Members
        <5>2. QED
          BY <3>4, <5>1, PushParts DEF Row, Ids
      <4>3. \A l \in 1 .. Len(rows) : rows[l].id < pushes'[i].row.id
        BY <3>1, <3>3, <4>1, <4>2 DEF OlderPage
      <4>4. QED
        BY <3>2, <4>1, <4>3
    <3>5. QED
      BY <3>2, <3>4 DEF ModelInv, StillNewer
  <2>4. QED
    BY <2>1, <2>2, <2>3
<1>8. Quiet \/ ChatWritten \/ ChatTaken \/ RequestOlder \/ WakeHistory => UNCHANGED <<model, pushes>>
  BY DEF Quiet, ChatWritten, ChatTaken, RequestOlder, WakeHistory, view
<1>9. QED
  BY <1>1, <1>3, <1>5, <1>6, <1>7, <1>8, StaySteps

LEMMA OneOlderKept ==
  ASSUME HistoryInv, StampsInv, ControlStays, OneOlder, [Next]_vars,
         switches = 0, switches' = 0
  PROVE  OneOlder'
<1> DEFINE before == "REQ_CHAT_LOG_BEFORE"
           more == "CHAT_LOG_MORE"
<1> USE DEF OneOlder
<1>0. /\ requests \in Seq(Request) /\ pushes \in Seq(Push)
      /\ pendingHistory \in Seq([ch : TextChannels, before : Stamps])
      /\ inFlight \in BOOLEAN
  BY DEF HistoryInv, RequestsInv, PushesInv, ViewInv
<1>1. CASE Quiet
  BY <1>1 DEF Quiet
<1>2. CASE ChatWritten
  <2>1. PICK r \in Request : r.type # before /\ requests' = Append(requests, r)
    BY <1>2 DEF ChatWritten
  <2>2. UNCHANGED <<pushes, inFlight, pendingHistory>>
    BY <1>2 DEF ChatWritten
  <2>3. /\ NoneOf(requests', before) <=> NoneOf(requests, before)
        /\ OneOf(requests, before) => OneOf(requests', before)
    BY <1>0, <2>1, KindsAdded
  <2>4. QED
    BY <2>2, <2>3
<1>3. CASE RequestOlder
  <2> DEFINE h == [ch |-> selected, before |-> model[1].ts]
  <2>1. /\ ~inFlight /\ inFlight' = TRUE /\ UNCHANGED <<requests, pushes>>
        /\ pendingHistory' = Append(pendingHistory, h)
    BY <1>3 DEF RequestOlder
  <2> HIDE DEF h
  <2>2. /\ pendingHistory = <<>> /\ NoneOf(requests, before) /\ NoneOf(pushes, more)
    BY <2>1
  <2>3. Len(pendingHistory') = 1
    BY <2>1, <2>2
  <2>4. QED
    BY <2>1, <2>2, <2>3
<1>4. CASE WakeHistory /\ pendingHistory # <<>>
  <2> DEFINE h == Head(pendingHistory)
             r == Before(h.ch, h.before)
  <2>1. h \in [ch : TextChannels, before : Stamps]
    BY <1>0, <1>4, Taken
  <2>2. r \in Request
    BY <2>1 DEF Before, Request
  <2>3. requests' = Append(requests, r) /\ UNCHANGED <<pushes, inFlight>> /\ pendingHistory' = Tail(pendingHistory)
    BY <1>4 DEF WakeHistory, view
  <2> HIDE DEF r, h
  <2>4. inFlight /\ NoneOf(requests, before) /\ NoneOf(pushes, more) /\ Len(pendingHistory) = 1
    BY <1>4
  <2>5. OneOf(requests', before)
    BY <1>0, <2>2, <2>3, <2>4, KindsAdded
  <2>6. pendingHistory' = <<>>
    <3>1. Len(pendingHistory') = 0 /\ pendingHistory' \in Seq([ch : TextChannels, before : Stamps])
      BY <1>0, <1>4, <2>3, <2>4, Taken
    <3>2. QED
      BY <3>1
  <2>7. QED
    BY <2>3, <2>4, <2>5, <2>6
<1>5. ASSUME NEW type, Handle(type)
      PROVE  /\ requests # <<>>
             /\ OneOf(requests', before)
             /\ ~NoneOf(requests', before) => ~NoneOf(requests, before)
             /\ type = before => ~NoneOf(requests, before) /\ NoneOf(requests', before)
  <2>1. requests # <<>> /\ requests' = Tail(requests) /\ Head(requests).type = type
    BY <1>5 DEF Handle
  <2>2. QED
    BY <1>0, <2>1, KindsTaken
<1>13. CASE ChatTaken
  <2>1. Handle("CHAT") /\ UNCHANGED <<pushes, inFlight, pendingHistory>>
    BY <1>13 DEF ChatTaken
  <2>2. OneOf(requests', before) /\ (~NoneOf(requests', before) => ~NoneOf(requests, before))
    BY <1>5, <2>1
  <2>3. QED
    BY <2>1, <2>2
<1>6. CASE \E c \in TextChannels : Broadcast(c)
  <2>1. PICK c \in TextChannels : Broadcast(c)
    BY <1>6
  <2>2. PICK p \in Push : p.type = "PUSH_CHAT" /\ pushes' = Append(pushes, p)
    BY <2>1, Answered
  <2>3. UNCHANGED <<requests, inFlight, pendingHistory>>
    BY <2>1 DEF Broadcast, view, queues
  <2>4. /\ NoneOf(pushes', more) <=> NoneOf(pushes, more)
        /\ OneOf(pushes, more) => OneOf(pushes', more)
    BY <1>0, <2>2, KindsAdded
  <2>5. QED
    BY <2>3, <2>4
<1>7. CASE HandleLog
  <2>1. PICK p \in Push : p.type = "CHAT_LOG" /\ pushes' = Append(pushes, p)
    BY <1>7, Answered
  <2>2. Handle("REQ_CHAT_LOG") /\ UNCHANGED <<inFlight, pendingHistory>>
    BY <1>7 DEF HandleLog, view, queues
  <2>3. /\ NoneOf(pushes', more) <=> NoneOf(pushes, more)
        /\ OneOf(pushes, more) => OneOf(pushes', more)
    BY <1>0, <2>1, KindsAdded
  <2>4. OneOf(requests', before) /\ (~NoneOf(requests', before) => ~NoneOf(requests, before))
    BY <1>5, <2>2
  <2>5. QED
    BY <2>2, <2>3, <2>4
<1>8. CASE HandleBefore
  <2>1. PICK p \in Push : p.type = more /\ pushes' = Append(pushes, p)
    BY <1>8, Answered
  <2>2. Handle(before) /\ UNCHANGED <<inFlight, pendingHistory>>
    BY <1>8 DEF HandleBefore, view, queues
  <2>3. ~NoneOf(requests, before) /\ NoneOf(requests', before) /\ OneOf(requests', before)
    BY <1>5, <2>2
  <2>4. inFlight /\ NoneOf(pushes, more) /\ pendingHistory = <<>>
    BY <2>3
  <2>5. OneOf(pushes', more)
    BY <1>0, <2>1, <2>4, KindsAdded
  <2>6. QED
    BY <2>2, <2>3, <2>4, <2>5
<1>9. ASSUME NEW type, Receive(type)
      PROVE  /\ UNCHANGED <<requests, pendingHistory>>
             /\ OneOf(pushes', more)
             /\ ~NoneOf(pushes', more) => ~NoneOf(pushes, more)
             /\ type = more => ~NoneOf(pushes, more) /\ NoneOf(pushes', more)
  <2>1. /\ UNCHANGED <<requests, pendingHistory>>
        /\ pushes # <<>> /\ pushes' = Tail(pushes) /\ Head(pushes).type = type
    BY <1>9 DEF Receive, queues
  <2>2. QED
    BY <1>0, <2>1, KindsTaken
<1>10. CASE OnAppendMessage \/ OnSetHistory
  <2>1. inFlight' = inFlight /\ \E type : Receive(type)
    BY <1>10 DEF OnAppendMessage, OnSetHistory
  <2>2. QED
    BY <1>9, <2>1
<1>11. CASE OnPrependHistory
  <2>1. Receive(more)
    BY <1>11 DEF OnPrependHistory
  <2>2. /\ UNCHANGED <<requests, pendingHistory>> /\ OneOf(pushes', more)
        /\ ~NoneOf(pushes, more) /\ NoneOf(pushes', more)
    BY <1>9, <2>1
  <2>3. pendingHistory = <<>> /\ NoneOf(requests, before)
    BY <2>2
  <2>4. QED
    BY <2>2, <2>3
<1>12. QED
  BY <1>1, <1>2, <1>3, <1>4, <1>6, <1>7, <1>8, <1>10, <1>11, <1>13, StaySteps

LEMMA AskedStays ==
  ASSUME HistoryInv, [Next]_vars,
         model # <<>> => model' # <<>> /\ model[1].id <= model'[1].id
  PROVE  /\ \A t \in Stamps : AskedBelow(t, model, messages, clock)
                                => AskedBelow(t, model', messages', clock')
         /\ \A page \in Seq(Row) : OlderPage(page, model) => OlderPage(page, model')
<1>0. model \in Seq(Row) /\ model' \in Seq(Row) /\ messages' \in Seq(Row)
  BY HistoryKept DEF HistoryInv, ViewInv, ServerInv
<1>1. model # <<>> => model[1].id \in Nat /\ model'[1].id \in Nat
  <2>1. model # <<>> => model[1] \in Row /\ model'[1] \in Row
    BY <1>0, Taken
  <2>2. QED
    BY <2>1 DEF Row, Ids
<1>2. ASSUME NEW t \in Stamps, AskedBelow(t, model, messages, clock)
      PROVE  AskedBelow(t, model', messages', clock')
  <2>1. /\ model # <<>> /\ t <= clock /\ t \in Nat
        /\ \A j \in 1 .. Len(messages) : messages[j].ts < t => j < model[1].id
    BY <1>2, StampsAre DEF AskedBelow
  <2>2. model' # <<>> /\ model[1].id <= model'[1].id
    BY <2>1
  <2>3. t <= clock'
    BY <2>1, Grown
  <2>4. ASSUME NEW j \in 1 .. Len(messages'), messages'[j].ts < t
        PROVE  j < model'[1].id
    <3>1. j \in 1 .. Len(messages)
      <4>1. messages'[j].ts \in Nat
        <5>1. messages'[j] \in Row
          BY <1>0, Members
        <5>2. QED
          BY <5>1, StampsAre DEF Row
      <4>2. ~(clock <= messages'[j].ts)
        BY <2>1, <2>4, <4>1, Grown
      <4>3. QED
        BY <4>2, Grown
    <3>2. messages'[j] = messages[j]
      BY <3>1, Grown
    <3>3. j < model[1].id
      BY <2>1, <2>4, <3>1, <3>2
    <3>4. QED
      BY <1>1, <2>1, <2>2, <3>3
  <2>5. QED
    BY <2>2, <2>3, <2>4 DEF AskedBelow
<1>3. ASSUME NEW page \in Seq(Row), OlderPage(page, model)
      PROVE  OlderPage(page, model')
  <2>1. /\ model # <<>> /\ model' # <<>> /\ model[1].id <= model'[1].id
        /\ \A k \in 1 .. Len(page) : page[k].id < model[1].id
    BY <1>3 DEF OlderPage
  <2>2. \A k \in 1 .. Len(page) : page[k].id \in Nat
    <3>1. \A k \in 1 .. Len(page) : page[k] \in Row
      BY Members
    <3>2. QED
      BY <3>1 DEF Row, Ids
  <2>3. QED
    BY <1>1, <2>1, <2>2 DEF OlderPage
<1>4. QED
  BY <1>2, <1>3

\* What is asked for, or on its way, when a step begins is still below the rows.
LEMMA OlderStays ==
  ASSUME HistoryInv, [Next]_vars, OlderInv,
         model # <<>> => model' # <<>> /\ model[1].id <= model'[1].id
  PROVE  /\ \A i \in 1 .. Len(pendingHistory) :
              AskedBelow(pendingHistory[i].before, model', messages', clock')
         /\ \A i \in 1 .. Len(requests) : requests[i].type = "REQ_CHAT_LOG_BEFORE" =>
              AskedBelow(requests[i].before, model', messages', clock')
         /\ \A i \in 1 .. Len(pushes) : pushes[i].type = "CHAT_LOG_MORE" =>
              OlderPage(pushes[i].rows, model')
<1>1. /\ \A i \in 1 .. Len(pendingHistory) : pendingHistory[i] \in [ch : TextChannels, before : Stamps]
      /\ \A i \in 1 .. Len(requests) : requests[i] \in Request
      /\ \A i \in 1 .. Len(pushes) : pushes[i] \in Push
  BY Members DEF HistoryInv, RequestsInv, PushesInv
<1>2. /\ \A i \in 1 .. Len(pendingHistory) : pendingHistory[i].before \in Stamps
      /\ \A i \in 1 .. Len(requests) : requests[i].type = "REQ_CHAT_LOG_BEFORE" =>
           requests[i].before \in Stamps
      /\ \A i \in 1 .. Len(pushes) : pushes[i].type = "CHAT_LOG_MORE" => pushes[i].rows \in Seq(Row)
  BY <1>1, RequestParts, PushParts
<1>3. QED
  BY <1>2, AskedStays DEF OlderInv

LEMMA OlderInvKept ==
  ASSUME HistoryInv, StampsInv, ControlStays, FirstPage, ModelInv, OneOlder, OlderInv,
         [Next]_vars, switches = 0, switches' = 0, ~misdated'
  PROVE  OlderInv'
<1> DEFINE before == "REQ_CHAT_LOG_BEFORE"
           more == "CHAT_LOG_MORE"
           stays == model # <<>> => model' # <<>> /\ model[1].id <= model'[1].id
<1>0. /\ requests \in Seq(Request) /\ pushes \in Seq(Push) /\ model \in Seq(Row)
      /\ pendingHistory \in Seq([ch : TextChannels, before : Stamps])
      /\ messages \in Seq(Row)
  BY DEF HistoryInv, RequestsInv, PushesInv, ViewInv, ServerInv
<1>1. model' = model => stays
  <2>1. model # <<>> => model[1].id \in Nat
    <3>1. model # <<>> => model[1] \in Row
      BY <1>0, Taken
    <3>2. QED
      BY <3>1 DEF Row, Ids
  <2>2. QED
    BY <2>1
<1> HIDE DEF stays
<1>2. ASSUME stays
      PROVE  /\ \A i \in 1 .. Len(pendingHistory) :
                  AskedBelow(pendingHistory[i].before, model', messages', clock')
             /\ \A i \in 1 .. Len(requests) : requests[i].type = before =>
                  AskedBelow(requests[i].before, model', messages', clock')
             /\ \A i \in 1 .. Len(pushes) : pushes[i].type = more => OlderPage(pushes[i].rows, model')
  BY <1>2, OlderStays DEF stays
<1>3. CASE Quiet
  <2>1. stays /\ UNCHANGED <<requests, pushes, pendingHistory>>
    BY <1>1, <1>3 DEF Quiet
  <2>2. QED
    BY <1>2, <2>1 DEF OlderInv
<1>4. CASE ChatWritten
  <2>1. PICK r \in Request : r.type # before /\ requests' = Append(requests, r)
    BY <1>4 DEF ChatWritten
  <2>2. stays /\ UNCHANGED <<pushes, pendingHistory>>
    BY <1>1, <1>4 DEF ChatWritten
  <2>3. \A i \in 1 .. Len(requests') : requests'[i].type = before =>
           i \in 1 .. Len(requests) /\ requests'[i] = requests[i]
    BY <1>0, <2>1, Added
  <2>4. QED
    BY <1>2, <2>2, <2>3 DEF OlderInv
<1>5. CASE RequestOlder
  <2> DEFINE h == [ch |-> selected, before |-> model[1].ts]
  <2>1. /\ model # <<>> /\ UNCHANGED <<requests, pushes, model, messages, clock>>
        /\ pendingHistory' = Append(pendingHistory, h)
    BY <1>5 DEF RequestOlder, server
  <2>2. stays
    BY <1>1, <2>1
  <2>3. 1 \in 1 .. Len(model) /\ model[1] \in Row
    BY <1>0, <2>1, Taken
  <2>4. Anchored(model[1], messages, clock, sent)
    BY <2>3 DEF StampsInv
  <2>5. AskedBelow(model[1].ts, model, messages, clock)
    <3>1. model[1].ts \in Nat /\ model[1].id \in Nat
      BY <2>3, StampsAre DEF Row, Ids
    <3>2. \A j \in 1 .. Len(messages) : messages[j] \in Row
      BY <1>0, Members
    <3>3. \A j \in 1 .. Len(messages) : messages[j].ts \in Nat
      BY <3>2, StampsAre DEF Row
    <3>4. PICK m \in 1 .. Len(messages) : model[1] = messages[m]
      BY <1>5 DEF RequestOlder, Stored
    <3>5. model[1].id = m
      BY <3>4 DEF HistoryInv, ServerInv, Numbered
    <3>6. \A j \in 1 .. Len(messages) : model[1].id <= j => model[1].ts <= messages[j].ts
      BY <2>4, <3>1, <3>3, <3>4, <3>5 DEF Anchored
    <3>7. QED
      BY <2>1, <2>4, <3>1, <3>3, <3>6 DEF AskedBelow, Anchored
  <2>6. AskedBelow(h.before, model', messages', clock')
    BY <2>1, <2>5
  <2>7. h \in [ch : TextChannels, before : Stamps]
    BY <2>3 DEF HistoryInv, ViewInv, Row
  <2> HIDE DEF h
  <2>8. \A i \in 1 .. Len(pendingHistory') :
           \/ i \in 1 .. Len(pendingHistory) /\ pendingHistory'[i] = pendingHistory[i]
           \/ pendingHistory'[i] = h
    BY <1>0, <2>1, <2>7, Added
  <2>9. QED
    BY <1>2, <2>1, <2>2, <2>6, <2>8 DEF OlderInv
<1>6. CASE WakeHistory /\ pendingHistory # <<>>
  <2> DEFINE h == Head(pendingHistory)
             r == Before(h.ch, h.before)
  <2>1. /\ h \in [ch : TextChannels, before : Stamps] /\ h = pendingHistory[1]
        /\ 1 \in 1 .. Len(pendingHistory)
        /\ \A i \in 1 .. Len(Tail(pendingHistory)) :
             Tail(pendingHistory)[i] = pendingHistory[i + 1] /\ i + 1 \in 1 .. Len(pendingHistory)
    BY <1>0, <1>6, Taken
  <2>2. r \in Request /\ r.before = h.before
    BY <2>1 DEF Before, Request
  <2>3. /\ requests' = Append(requests, r) /\ UNCHANGED <<pushes, model>>
        /\ pendingHistory' = Tail(pendingHistory)
    BY <1>6 DEF WakeHistory, view
  <2>4. stays
    BY <1>1, <2>3
  <2>5. AskedBelow(r.before, model', messages', clock')
    BY <1>2, <2>1, <2>2, <2>4
  <2> HIDE DEF r, h
  <2>6. \A i \in 1 .. Len(requests') :
           \/ i \in 1 .. Len(requests) /\ requests'[i] = requests[i]
           \/ requests'[i] = r
    BY <1>0, <2>2, <2>3, Added
  <2>7. QED
    BY <1>2, <2>1, <2>3, <2>4, <2>5, <2>6 DEF OlderInv
<1>7. ASSUME NEW type, Handle(type), stays
      PROVE  \A i \in 1 .. Len(requests') : requests'[i].type = before =>
               AskedBelow(requests'[i].before, model', messages', clock')
  <2>1. requests # <<>> /\ requests' = Tail(requests)
    BY <1>7 DEF Handle
  <2>2. \A i \in 1 .. Len(requests') : requests'[i] = requests[i + 1] /\ i + 1 \in 1 .. Len(requests)
    BY <1>0, <2>1, Taken
  <2>3. QED
    BY <1>2, <1>7, <2>2
<1>8. ASSUME NEW p \in Push, pushes' = Append(pushes, p), stays,
             p.type = more => OlderPage(p.rows, model')
      PROVE  \A i \in 1 .. Len(pushes') : pushes'[i].type = more => OlderPage(pushes'[i].rows, model')
  <2>1. \A i \in 1 .. Len(pushes') : \/ i \in 1 .. Len(pushes) /\ pushes'[i] = pushes[i]
                                     \/ pushes'[i] = p
    BY <1>0, <1>8, Added
  <2>2. QED
    BY <1>2, <1>8, <2>1
<1>18. CASE ChatTaken
  <2>1. Handle("CHAT") /\ stays /\ UNCHANGED <<pushes, pendingHistory>>
    BY <1>1, <1>18 DEF ChatTaken
  <2>2. QED
    BY <1>2, <1>7, <2>1 DEF OlderInv
<1>9. CASE \E c \in TextChannels : Broadcast(c)
  <2>1. PICK c \in TextChannels : Broadcast(c)
    BY <1>9
  <2>2. PICK p \in Push : p.type = "PUSH_CHAT" /\ pushes' = Append(pushes, p)
    BY <2>1, Answered
  <2>3. stays /\ UNCHANGED <<requests, pendingHistory>>
    BY <1>1, <2>1 DEF Broadcast, view, queues
  <2>4. \A i \in 1 .. Len(pushes') : pushes'[i].type = more => OlderPage(pushes'[i].rows, model')
    BY <1>8, <2>2, <2>3
  <2>5. QED
    BY <1>2, <2>3, <2>4 DEF OlderInv
<1>10. CASE HandleLog
  <2>1. PICK p \in Push : p.type = "CHAT_LOG" /\ pushes' = Append(pushes, p)
    BY <1>10, Answered
  <2>2. Handle("REQ_CHAT_LOG") /\ stays /\ pendingHistory' = pendingHistory
    BY <1>1, <1>10 DEF HandleLog, view, queues
  <2>3. \A i \in 1 .. Len(pushes') : pushes'[i].type = more => OlderPage(pushes'[i].rows, model')
    BY <1>8, <2>1, <2>2
  <2>4. QED
    BY <1>2, <1>7, <2>2, <2>3 DEF OlderInv
<1>11. CASE HandleBefore
  <2> DEFINE t == Head(requests).before
  <2>1. Handle(before) /\ stays /\ UNCHANGED <<pendingHistory, model, messages, clock>>
    BY <1>1, <1>11 DEF HandleBefore, view, queues, server
  <2>2. requests # <<>> /\ Head(requests).type = before
    BY <2>1 DEF Handle
  <2>3. 1 \in 1 .. Len(requests) /\ Head(requests) = requests[1]
    BY <1>0, <2>2, Taken
  <2>4. AskedBelow(t, model, messages, clock)
    BY <2>2, <2>3 DEF OlderInv
  <2>5. PICK p \in Push : /\ p.type = more /\ pushes' = Append(pushes, p)
                          /\ p.rows = PageOf(RowsBefore(p.ch, t))
    BY <1>11, Answered
  <2> DEFINE rows == RowsBefore(p.ch, t)
  <2>6. /\ rows \in SUBSET (1 .. Len(messages))
        /\ \A i \in rows : messages[i].ts < t /\ i < model[1].id /\ messages[i].id = i
    BY <2>4 DEF RowsBefore, RowsOf, AskedBelow, HistoryInv, ServerInv, Numbered
  <2> HIDE DEF rows
  <2>7. \A k \in 1 .. Len(PageOf(rows)) : \E i \in rows : PageOf(rows)[k] = messages[i]
    BY <1>0, <2>6, PageListed
  <2>8. OlderPage(PageOf(rows), model)
    BY <2>4, <2>6, <2>7 DEF OlderPage, AskedBelow
  <2>9. OlderPage(p.rows, model')
    BY <2>1, <2>5, <2>8 DEF rows
  <2>10. \A i \in 1 .. Len(pushes') : pushes'[i].type = more => OlderPage(pushes'[i].rows, model')
    BY <1>8, <2>1, <2>5, <2>9
  <2>11. QED
    BY <1>2, <1>7, <2>1, <2>10 DEF OlderInv
<1>12. ASSUME NEW type, Receive(type)
       PROVE  /\ UNCHANGED <<requests, pendingHistory>>
              /\ Head(pushes) \in Push /\ Head(pushes) = pushes[1] /\ 1 \in 1 .. Len(pushes)
              /\ Head(pushes).type = type /\ pushes # <<>>
              /\ \A i \in 1 .. Len(pushes') : pushes'[i] = pushes[i + 1] /\ i + 1 \in 1 .. Len(pushes)
  <2>1. /\ UNCHANGED <<requests, pendingHistory>>
        /\ pushes # <<>> /\ pushes' = Tail(pushes) /\ Head(pushes).type = type
    BY <1>12 DEF Receive, queues
  <2>2. QED
    BY <1>0, <2>1, Taken
<1>13. ASSUME stays, NEW type, Receive(type)
       PROVE  OlderInv'
  BY <1>2, <1>12, <1>13 DEF OlderInv
<1>14. CASE OnAppendMessage
  <2> DEFINE row == Head(pushes).row
  <2>1. Receive("PUSH_CHAT") /\ (model' = model \/ model' = Longer(model, row))
    BY <1>14 DEF OnAppendMessage, Longer
  <2>2. CASE model' = Longer(model, row)
    <3>1. row \in Row /\ row = pushes[1].row
      BY <1>12, <2>1, PushParts
    <3>2. Ascending(model) /\ \A i \in 1 .. Len(model) : model[i].id < row.id
      BY <1>12, <2>1, <3>1 DEF ModelInv, StillNewer
    <3>3. stays
      BY <1>0, <2>2, <3>1, <3>2, Extended DEF stays
    <3>4. QED
      BY <1>13, <2>1, <3>3
  <2>3. QED
    BY <1>1, <1>13, <2>1, <2>2
<1>15. CASE OnSetHistory
  <2>1. Receive("CHAT_LOG")
    BY <1>15 DEF OnSetHistory
  <2>2. loaded = NoChannel
    BY <1>12, <2>1 DEF FirstPage, NoneOf
  <2>3. model = <<>>
    <3>1. \A i \in 1 .. Len(model) : model[i] \in Row /\ model[i].ch = loaded
      BY <1>0, Members DEF HistoryInv, ViewInv, RowsOfLoaded
    <3>2. \A i \in 1 .. Len(model) : model[i].ch \in TextChannels
      BY <3>1 DEF Row
    <3>3. \A i \in 1 .. Len(model) : FALSE
      BY <2>2, <3>1, <3>2, ChatAssumption
    <3>4. QED
      BY <1>0, <3>3, Taken
  <2>4. QED
    BY <1>13, <2>1, <2>3 DEF stays
<1>16. CASE OnPrependHistory
  <2>1. OneOlder' /\ inFlight' = FALSE
    BY <1>16, OneOlderKept DEF OnPrependHistory
  <2>2. pendingHistory' = <<>> /\ NoneOf(requests', before) /\ NoneOf(pushes', more)
    BY <2>1 DEF OneOlder
  <2>3. Len(pendingHistory') = 0
    BY <2>2
  <2>4. QED
    BY <2>2, <2>3 DEF OlderInv, NoneOf
<1>17. QED
  BY <1>3, <1>4, <1>5, <1>6, <1>9, <1>10, <1>11, <1>14, <1>15, <1>16, <1>18, StaySteps

LEMMA StayedOn ==
  ASSUME HistoryInv, [Next]_vars
  PROVE  /\ switches' = 0 => switches = 0
         /\ cut => cut'
         /\ misdated => misdated'
<1>1. switches \in Nat
  BY ChatAssumption DEF HistoryInv, ViewInv
<1>2. switches' = switches \/ switches' = switches + 1
  BY DEF Next, UserNext, SystemNext, vars, view, Select, Type, RequestOlder, OnAppendMessage,
       OnSetHistory, OnPrependHistory, Receive, WakeTextChannel, WakeMessage, WakeHistory,
       HandleChat, HandleLog, HandleBefore, OtherChat, PostChat, Broadcast, StoreMessage, Tick
<1>3. OnAppendMessage => (cut => cut')
  BY Zenon DEF OnAppendMessage
<1>4. cut => cut'
  BY <1>3 DEF Next, UserNext, SystemNext, vars, view, Select, Type, RequestOlder,
       OnSetHistory, OnPrependHistory, WakeTextChannel, WakeMessage, WakeHistory,
       HandleChat, HandleLog, HandleBefore, OtherChat, PostChat, Broadcast, StoreMessage, Tick
<1>5. RequestOlder => (misdated => misdated')
  BY Zenon DEF RequestOlder
<1>6. misdated => misdated'
  BY <1>5 DEF Next, UserNext, SystemNext, vars, view, Select, Type, OnAppendMessage,
       OnSetHistory, OnPrependHistory, Receive, WakeTextChannel, WakeMessage, WakeHistory,
       HandleChat, HandleLog, HandleBefore, OtherChat, PostChat, Broadcast, StoreMessage, Tick
<1>7. QED
  BY <1>1, <1>2, <1>4, <1>6

LEMMA StayKept ==
  ASSUME HistoryInv, StampsInv, StayInv, [Next]_vars
  PROVE  StayInv'
<1> SUFFICES ASSUME switches' = 0
             PROVE  /\ ControlStays' /\ FirstPage' /\ OneOlder'
                    /\ ~misdated' => ModelInv' /\ OlderInv'
  BY DEF StayInv
<1>1. switches = 0 /\ (~misdated' => ~misdated)
  BY StayedOn
<1>2. ControlStays /\ FirstPage /\ OneOlder /\ (~misdated => ModelInv /\ OlderInv)
  BY <1>1 DEF StayInv
<1>3. ControlStays' /\ FirstPage' /\ OneOlder'
  BY <1>1, <1>2, ControlKept, FirstPageKept, OneOlderKept
<1>4. ASSUME ~misdated' PROVE ModelInv' /\ OlderInv'
  BY <1>1, <1>2, <1>4, ModelInvKept, OlderInvKept
<1>5. QED
  BY <1>3, <1>4

LEMMA InitStay == Init => StampsInv /\ StayInv
<1> SUFFICES ASSUME Init PROVE StampsInv /\ StayInv
  OBVIOUS
<1>1. HistoryInv
  BY InitHistory
<1>2. /\ pushes = <<>> /\ model = <<>> /\ pendingHistory = <<>> /\ taskQueue = <<>>
      /\ loaded = NoChannel /\ requests = <<Log(selected)>> /\ selected \in TextChannels
      /\ current = selected /\ control = [pc |-> "idle", ch |-> selected]
      /\ clock = Len(OldMessages)
  BY DEF Init
<1>3. Len(pushes) = 0 /\ Len(model) = 0 /\ Len(pendingHistory) = 0
  BY <1>2
<1>4. PICK stamps \in [1 .. Len(OldMessages) -> 1 .. Len(OldMessages)] :
        /\ \A i, j \in DOMAIN stamps : i < j =>
              IF DistinctStamps THEN stamps[i] < stamps[j] ELSE stamps[i] <= stamps[j]
        /\ messages = OldRows(stamps)
  BY DEF Init
<1>5. /\ Len(messages) = Len(OldMessages) /\ Len(messages) \in Nat
      /\ \A i \in 1 .. Len(messages) : messages[i].ts = stamps[i] /\ stamps[i] \in 1 .. Len(OldMessages)
  BY <1>4, ChatAssumption DEF OldRows
<1>6. \A i, j \in 1 .. Len(messages) : i <= j => messages[i].ts <= messages[j].ts
  BY <1>4, <1>5
<1>7. \A i \in 1 .. Len(messages) : messages[i].ts <= clock
  BY <1>2, <1>5, ChatAssumption
<1>8. StampsInv
  <2>1. \A i, j \in 1 .. Len(messages) : i < j => messages[i].ts <= messages[j].ts
    BY <1>5, <1>6
  <2>2. InSendingOrder(pushes)
    BY <1>3 DEF InSendingOrder
  <2>3. QED
    BY <1>3, <1>7, <2>1, <2>2 DEF StampsInv
<1>9. ControlStays
  BY <1>2 DEF ControlStays
<1>10. FirstPage
  <2>1. OnlyFirst(requests, "REQ_CHAT_LOG")
    BY <1>2 DEF OnlyFirst
  <2>2. QED
    BY <1>2, <1>3, <2>1 DEF FirstPage, NewerBehind, OneOf, NoneOf
<1>11. ModelInv
  BY <1>3 DEF ModelInv, Ascending, StillNewer
<1>12. NoneOf(requests, "REQ_CHAT_LOG_BEFORE")
  BY <1>2 DEF Log, NoneOf
<1>13. OneOlder
  BY <1>2, <1>3, <1>12 DEF OneOlder, OneOf, NoneOf
<1>14. OlderInv
  BY <1>3, <1>12 DEF OlderInv, NoneOf
<1>15. QED
  BY <1>8, <1>9, <1>10, <1>11, <1>13, <1>14 DEF StayInv

LEMMA StayAlways == Spec => [](HistoryInv /\ StampsInv /\ StayInv)
<1>1. Init => HistoryInv /\ StampsInv /\ StayInv
  BY InitHistory, InitStay
<1>2. HistoryInv /\ StampsInv /\ StayInv /\ [Next]_vars => (HistoryInv /\ StampsInv /\ StayInv)'
  BY HistoryKept, StampsKept, StayKept
<1>3. QED
  BY <1>1, <1>2, PTL DEF Spec

\* As long as the user stays on one channel and asks for older pages from rows that bear
\* the table's stamp, no message is shown twice, whatever is posted, stored, trimmed and
\* paged in between, whichever messages share a millisecond and whether the worker or the
\* handler reads the clock first.
THEOREM NoneShownTwice == Spec => []NoDuplicateRows
<1>1. ASSUME HistoryInv, StayInv PROVE NoDuplicateRows
  <2> SUFFICES ASSUME switches = 0, ~misdated, NEW i \in 1 .. Len(model), NEW j \in 1 .. Len(model),
                      model[i].id = model[j].id
               PROVE  i = j
    BY DEF NoDuplicateRows
  <2>1. Ascending(model)
    BY <1>1 DEF StayInv, ModelInv
  <2>2. \A k \in 1 .. Len(model) : model[k].id \in Nat
    <3>1. \A k \in 1 .. Len(model) : model[k] \in Row
      BY <1>1, Members DEF HistoryInv, ViewInv
    <3>2. QED
      BY <3>1 DEF Row, Ids
  <2>3. i \in Nat /\ j \in Nat
    OBVIOUS
  <2>4. QED
    BY <2>1, <2>2, <2>3 DEF Ascending
<1>2. QED
  BY <1>1, StayAlways, PTL

-----------------------------------------------------------------------------
(* Scrolling up.                                                           *)

PostedTo(c, channels) == {m \in 1 .. Len(channels) : channels[m] = c}

\* Its broadcast is on its way, behind place i.
Awaited(q, i, m) ==
    \E j \in 1 .. Len(q) : i < j /\ q[j].type = "PUSH_CHAT" /\ q[j].row.id = m

InTable(row, table) == row.id \in 1 .. Len(table) /\ table[row.id] = row

IsPage(p) == p.type \in {"CHAT_LOG", "CHAT_LOG_MORE"}

\* All that is asked for and answered is about the selected channel.
OfSelected ==
    /\ loaded \in {NoChannel, selected}
    /\ \A i \in 1 .. Len(requests) : requests[i].type # "CHAT" => requests[i].ch = selected
    /\ \A i \in 1 .. Len(pushes) : IsPage(pushes[i]) => pushes[i].ch = selected
    /\ \A i \in 1 .. Len(pendingHistory) : pendingHistory[i].ch = selected

\* What is asked for is what is older than the oldest row.
AskedFrom(t, rows, table) == t = rows[1].ts /\ InTable(rows[1], table)

AskedExactly ==
    ~cut =>
      /\ \A i \in 1 .. Len(pendingHistory) : AskedFrom(pendingHistory[i].before, model, messages)
      /\ \A i \in 1 .. Len(requests) : requests[i].type = "REQ_CHAT_LOG_BEFORE" =>
           AskedFrom(requests[i].before, model, messages)

\* Nothing is left out between the rows of a page and what comes behind it ...
FirstCovers(p, i, q, channels, missed) ==
    \A m \in PostedTo(p.ch, channels) : Reaches(p.rows, m) \/ Awaited(q, i, m) \/ m \in missed

\* ... between an older page and the rows, ...
OlderCovers(p, rows, channels) ==
    \A m \in PostedTo(p.ch, channels) : m < rows[1].id => Reaches(p.rows, m)

\* ... and among the rows.
RowsCover(c, rows, q, channels, missed) ==
    \A m \in PostedTo(c, channels) : Reaches(rows, m) \/ Awaited(q, 0, m) \/ m \in missed

FirstPageCovers ==
    \A i \in 1 .. Len(pushes) : pushes[i].type = "CHAT_LOG" =>
       FirstCovers(pushes[i], i, pushes, sent, late)

OlderPageCovers ==
    ~cut /\ DistinctlyStamped =>
      \A i \in 1 .. Len(pushes) : pushes[i].type = "CHAT_LOG_MORE" =>
        OlderCovers(pushes[i], model, sent)

ModelCovers ==
    ~cut /\ DistinctlyStamped /\ loaded # NoChannel =>
      RowsCover(loaded, model, pushes, sent, late)

HolesInv ==
    switches = 0 /\ ~misdated =>
      /\ OfSelected /\ AskedExactly
      /\ FirstPageCovers /\ OlderPageCovers /\ ModelCovers

LEMMA RankUnique ==
  ASSUME NEW n \in Nat, NEW places \in SUBSET (1 .. n), NEW i \in places, NEW j \in places,
         i < j
  PROVE  Cardinality(UpTo(places, i)) # Cardinality(UpTo(places, j))
<1>0. \A l \in places : l \in Nat
  OBVIOUS
<1>1. UpTo(places, i) \in SUBSET UpTo(places, j)
  <2>1. \A l \in places : l <= i => l <= j
    BY <1>0
  <2>2. QED
    BY <2>1, Zenon DEF UpTo
<1>2. j \in UpTo(places, j) /\ j \notin UpTo(places, i)
  <2>1. j <= j /\ ~(j <= i)
    BY <1>0
  <2>2. QED
    BY <2>1, Zenon DEF UpTo
<1>3. IsFiniteSet(UpTo(places, j))
  BY <1>0, PlacesFinite
<1>4. QED
  BY <1>1, <1>2, <1>3, FS_Subset

\* The newest row that a query selects is on the page.
LEMMA PageNotEmpty ==
  ASSUME NEW n \in Nat, NEW rows \in SUBSET (1 .. n), rows # {}
  PROVE  Page(rows) # {}
<1>0. \A i \in rows : i \in Nat /\ i <= n
  OBVIOUS
<1> DEFINE bounds == {b \in Nat : \A i \in rows : i <= b}
<1>1. n \in bounds
  BY <1>0
<1>2. PICK b \in bounds : \A l \in bounds : b <= l
  BY <1>1, Least
<1>3. b \in Nat /\ \A i \in rows : i <= b
  BY <1>2
<1>4. b \in rows
  <2> SUFFICES ASSUME b \notin rows PROVE FALSE
    OBVIOUS
  <2>1. PICK i \in rows : TRUE
    OBVIOUS
  <2>2. b # 0
    BY <1>3, <2>1
  <2>3. b - 1 \in Nat /\ \A l \in rows : l <= b - 1
    BY <1>0, <1>3, <2>2
  <2>4. b - 1 \in bounds
    BY <2>3
  <2>5. QED
    BY <1>2, <1>3, <2>4
<1>5. {j \in rows : j > b} = {}
  <2>1. \A j \in rows : ~(j > b)
    BY <1>0, <1>3
  <2>2. QED
    BY <2>1
<1>6. Cardinality({j \in rows : j > b}) = 0
  BY <1>5, FS_EmptySet
<1>7. b \in Page(rows)
  BY <1>4, <1>6, ChatAssumption DEF Page
<1>8. QED
  BY <1>7

\* A row that a query selects is on the page, or older than what is.
LEMMA PageReaches ==
  ASSUME ServerInv, NEW rows \in SUBSET (1 .. Len(messages))
  PROVE  \A m \in rows : Reaches(PageOf(rows), m)
<1> DEFINE places == Page(rows)
           page == PageOf(rows)
<1>0. /\ messages \in Seq(Row) /\ Len(messages) \in Nat
      /\ \A i \in 1 .. Len(messages) : messages[i].id = i
  BY DEF ServerInv, Numbered
<1>1. places \in SUBSET rows /\ places \in SUBSET (1 .. Len(messages))
  BY DEF Page
<1>2. page = InOrder(places)
  BY DEF PageOf
<1>3. \A i \in rows, j \in rows : i < j /\ i \in places => j \in places
  <2>1. ASSUME NEW i \in rows, NEW j \in rows, i < j, i \in places PROVE j \in places
    <3> DEFINE above(l) == {k \in rows : k > l}
    <3>1. above(j) \in SUBSET above(i)
      <4>1. \A k \in rows : k > j => k > i
        BY <1>0, <2>1
      <4>2. QED
        BY <4>1
    <3>2. \A l : above(l) \in SUBSET rows
      OBVIOUS
    <3>3. IsFiniteSet(rows)
      BY <1>0, PlacesFinite
    <3>4. IsFiniteSet(above(i)) /\ IsFiniteSet(above(j))
      BY <3>2, <3>3, FS_Subset
    <3>5. Cardinality(above(i)) \in Nat /\ Cardinality(above(j)) \in Nat
      BY <3>4, FS_CardinalityType
    <3>6. Cardinality(above(j)) <= Cardinality(above(i))
      BY <3>1, <3>4, FS_Subset
    <3>7. Cardinality(above(i)) < PageSize
      BY <2>1 DEF Page
    <3>8. Cardinality(above(j)) < PageSize
      BY <3>5, <3>6, <3>7, ChatAssumption
    <3>9. QED
      BY <3>8 DEF Page
  <2>2. QED
    BY <2>1
<1>4. rows # {} => places # {}
  BY <1>0, PageNotEmpty
<1> HIDE DEF places, page
<1>5. /\ page \in Seq(Row) /\ Len(page) = Cardinality(places) /\ Len(page) \in Nat
      /\ \A k \in 1 .. Len(page) :
           \E i \in places : page[k] = messages[i] /\ Cardinality(UpTo(places, i)) = k
  <2>1. InOrder(places) \in Seq(Row) /\ Len(InOrder(places)) = Cardinality(places)
    BY <1>0, <1>1, Listed
  <2>2. \A k \in 1 .. Len(InOrder(places)) :
           \E i \in places : InOrder(places)[k] = messages[i] /\ Cardinality(UpTo(places, i)) = k
    BY <1>0, <1>1, Listed
  <2>3. Len(page) \in Nat
    BY <1>2, <2>1
  <2>4. QED
    BY <1>2, <2>1, <2>2, <2>3, Zenon
<1>6. ASSUME NEW i \in places
      PROVE  \E k \in 1 .. Len(page) : page[k] = messages[i]
  <2> DEFINE k == Cardinality(UpTo(places, i))
  <2>1. i \in Nat /\ i \in UpTo(places, i)
    BY <1>1 DEF UpTo
  <2>2. IsFiniteSet(UpTo(places, i)) /\ k \in Nat /\ k <= Cardinality(places)
    BY <1>0, <1>1, <2>1, PlacesFinite
  <2>3. k # 0
    BY <2>1, <2>2, FS_EmptySet
  <2>4. k \in 1 .. Len(page)
    BY <1>5, <2>2, <2>3
  <2>5. PICK j \in places : page[k] = messages[j] /\ Cardinality(UpTo(places, j)) = k
    BY <1>5, <2>4
  <2>6. i \in Nat /\ j \in Nat
    BY <1>1
  <2>7. i = j
    BY <1>0, <1>1, <2>5, <2>6, RankUnique
  <2>8. QED
    BY <2>4, <2>5, <2>7
<1>8. ASSUME NEW m \in rows
      PROVE  Reaches(page, m)
  <2>1. CASE m \in places
    <3>1. PICK k \in 1 .. Len(page) : page[k] = messages[m]
      BY <1>6, <2>1
    <3>2. page[k].id = m
      BY <1>0, <3>1
    <3>3. QED
      BY <3>2 DEF Reaches, HasRow
  <2>2. CASE m \notin places
    <3>1. PICK i \in places : TRUE
      BY <1>4
    <3>2. Len(page) >= 1 /\ 1 \in 1 .. Len(page) /\ page # <<>>
      BY <1>5, <1>6, <3>1
    <3>3. PICK j \in places : page[1] = messages[j]
      BY <1>5, <3>2
    <3>4. j \in rows /\ j \in Nat /\ m \in Nat /\ page[1].id = j
      BY <1>0, <1>1, <3>3
    <3>5. m < j
      BY <1>3, <2>2, <3>3, <3>4
    <3>6. QED
      BY <3>2, <3>4, <3>5 DEF Reaches
  <2>3. QED
    BY <2>1, <2>2
<1>9. QED
  BY <1>8 DEF page

-----------------------------------------------------------------------------
(* What a step does to what was sent, stored and missed.                   *)

LEMMA Posted ==
  ASSUME HistoryInv, [Next]_vars, NEW c
  PROVE  /\ \A m \in PostedTo(c, sent') : \/ m \in PostedTo(c, sent)
                                          \/ m = Len(sent) + 1 /\ c \in TextChannels /\ Broadcast(c)
         /\ PostedTo(c, sent) \in SUBSET PostedTo(c, sent') /\ PostedTo(c, sent) \in SUBSET Nat
<1>0. ServerInv /\ requests \in Seq(Request) /\ Len(sent) \in Nat
  BY Grown DEF HistoryInv, RequestsInv
<1>1. /\ PostedTo(c, sent) \in SUBSET PostedTo(c, sent')
      /\ PostedTo(c, sent) \in SUBSET Nat
  BY Grown DEF PostedTo
<1>2. ASSUME NEW d \in TextChannels, Broadcast(d), NEW m \in PostedTo(c, sent')
      PROVE  \/ m \in PostedTo(c, sent)
             \/ m = Len(sent) + 1 /\ c = d
  <2>1. /\ Len(sent') = Len(sent) + 1 /\ sent'[Len(sent) + 1] = d
        /\ \A l \in 1 .. Len(sent) : sent'[l] = sent[l]
    BY <1>0, <1>2, SentBroadcast
  <2>2. m \in 1 .. Len(sent') /\ sent'[m] = c
    BY <1>2 DEF PostedTo
  <2>3. m \in 1 .. Len(sent) \/ m = Len(sent) + 1
    BY <1>0, <2>1, <2>2
  <2>4. QED
    BY <2>1, <2>2, <2>3 DEF PostedTo
<1>3. (\E d \in TextChannels : Broadcast(d)) \/ sent' = sent
  <2>1. ASSUME NEW d \in TextChannels, PostChat(d) PROVE sent' = sent
    BY <1>0, <2>1, SentPosted
  <2>2. HandleChat => sent' = sent
    BY <1>0, <2>1, Handled, RequestParts DEF HandleChat
  <2>3. StoreMessage => sent' = sent
    BY <1>0, SentStored
  <2>4. UNCHANGED <<messages, taskQueue, lastId, posting>> => sent' = sent
    BY DEF sent, Told
  <2>5. QED
    BY <2>1, <2>2, <2>3, <2>4 DEF Next, UserNext, SystemNext, vars, server, Select, Type, RequestOlder,
         OnAppendMessage, OnSetHistory, OnPrependHistory, Receive, WakeTextChannel, WakeMessage,
         WakeHistory, OtherChat, HandleLog, HandleBefore, Tick
<1>4. QED
  BY <1>1, <1>2, <1>3

LEMMA StoredStays ==
  ASSUME HistoryInv, [Next]_vars
  PROVE  /\ \A row : InTable(row, messages) => InTable(row, messages')
         /\ DistinctlyStamped' => DistinctlyStamped
         /\ late \subseteq late'
         /\ ~cut' => ~cut
<1>1. /\ Len(messages) \in Nat /\ Len(messages') \in Nat /\ Len(messages) <= Len(messages')
      /\ \A i \in 1 .. Len(messages) : i \in 1 .. Len(messages') /\ messages'[i] = messages[i]
  BY Grown
<1>2. \A row : InTable(row, messages) => InTable(row, messages')
  BY <1>1 DEF InTable
<1>3. DistinctlyStamped' => DistinctlyStamped
  BY <1>1 DEF DistinctlyStamped
<1>4. late \subseteq late'
  BY DEF Next, UserNext, SystemNext, vars, server, Select, Type, RequestOlder,
     OnAppendMessage, OnSetHistory, OnPrependHistory, Receive, WakeTextChannel, WakeMessage,
     WakeHistory, OtherChat, HandleChat, PostChat, Broadcast, HandleLog, HandleBefore,
     StoreMessage, Tick
<1>5. ~cut' => ~cut
  <2>1. OnAppendMessage => (~cut' => ~cut)
    BY Zenon DEF OnAppendMessage
  <2>2. QED
    BY <2>1 DEF Next, UserNext, SystemNext, vars, view, Select, Type, RequestOlder,
     OnSetHistory, OnPrependHistory, WakeTextChannel, WakeMessage,
     WakeHistory, OtherChat, HandleChat, PostChat, Broadcast, HandleLog, HandleBefore,
     StoreMessage, Tick
<1>6. QED
  BY <1>2, <1>3, <1>4, <1>5

LEMMA AwaitedAdded ==
  ASSUME NEW q \in Seq(Push), NEW p \in Push, NEW i \in Nat
  PROVE  /\ \A m : Awaited(q, i, m) => Awaited(Append(q, p), i, m)
         /\ p.type = "PUSH_CHAT" /\ i <= Len(q) => Awaited(Append(q, p), i, p.row.id)
<1>1. /\ Len(q) \in Nat /\ Len(Append(q, p)) = Len(q) + 1
      /\ \A j \in 1 .. Len(q) : Append(q, p)[j] = q[j]
      /\ Append(q, p)[Len(q) + 1] = p
  BY Added
<1>2. /\ \A j \in 1 .. Len(q) : j \in 1 .. Len(Append(q, p))
      /\ Len(q) + 1 \in 1 .. Len(Append(q, p)) /\ (i <= Len(q) => i < Len(q) + 1)
  BY <1>1
<1>3. QED
  BY <1>1, <1>2 DEF Awaited

LEMMA AwaitedTaken ==
  ASSUME NEW q \in Seq(Push), q # <<>>
  PROVE  /\ \A i \in Nat : \A m : Awaited(q, i + 1, m) => Awaited(Tail(q), i, m)
         /\ \A m : Awaited(q, 0, m) => \/ Awaited(Tail(q), 0, m)
                                       \/ Head(q).type = "PUSH_CHAT" /\ Head(q).row.id = m
<1>1. /\ Len(q) \in Nat /\ Len(Tail(q)) = Len(q) - 1 /\ Head(q) = q[1]
      /\ \A j \in 1 .. Len(Tail(q)) : Tail(q)[j] = q[j + 1]
  BY Taken
<1>2. ASSUME NEW i \in Nat, NEW j \in 1 .. Len(q), i + 1 < j
      PROVE  j - 1 \in 1 .. Len(Tail(q)) /\ Tail(q)[j - 1] = q[j] /\ i < j - 1
  <2>1. j - 1 \in 1 .. Len(Tail(q)) /\ (j - 1) + 1 = j /\ i < j - 1
    BY <1>1, <1>2
  <2>2. QED
    BY <1>1, <2>1
<1>3. ASSUME NEW i \in Nat, NEW m, Awaited(q, i + 1, m)
      PROVE  Awaited(Tail(q), i, m)
  <2>1. PICK j \in 1 .. Len(q) : i + 1 < j /\ q[j].type = "PUSH_CHAT" /\ q[j].row.id = m
    BY <1>3 DEF Awaited
  <2>2. QED
    BY <1>2, <2>1 DEF Awaited
<1>4. ASSUME NEW m, Awaited(q, 0, m)
      PROVE  \/ Awaited(Tail(q), 0, m)
             \/ Head(q).type = "PUSH_CHAT" /\ Head(q).row.id = m
  <2>1. PICK j \in 1 .. Len(q) : 0 < j /\ q[j].type = "PUSH_CHAT" /\ q[j].row.id = m
    BY <1>4 DEF Awaited
  <2>2. CASE j = 1
    BY <1>1, <2>1, <2>2
  <2>3. CASE j # 1
    <3>1. 0 + 1 < j
      BY <2>1, <2>3
    <3>2. Awaited(q, 0 + 1, m)
      BY <2>1, <3>1 DEF Awaited
    <3>3. QED
      BY <1>3, <3>2
  <2>4. QED
    BY <2>2, <2>3
<1>5. QED
  BY <1>3, <1>4

-----------------------------------------------------------------------------
(* What a handler takes and what a slot is given.                          *)

LEMMA TakenRequest ==
  ASSUME HistoryInv, NEW type, Handle(type)
  PROVE  /\ requests[1] = Head(requests) /\ 1 \in 1 .. Len(requests)
         /\ Head(requests).type = type /\ Head(requests) \in Request
         /\ \A i \in 1 .. Len(requests') : requests'[i] = requests[i + 1] /\ i + 1 \in 1 .. Len(requests)
<1>1. requests \in Seq(Request) /\ requests # <<>> /\ requests' = Tail(requests) /\ Head(requests).type = type
  BY DEF Handle, HistoryInv, RequestsInv
<1>2. QED
  BY <1>1, Taken

LEMMA TakenPush ==
  ASSUME HistoryInv, NEW type, Receive(type)
  PROVE  /\ pushes[1] = Head(pushes) /\ 1 \in 1 .. Len(pushes) /\ pushes # <<>>
         /\ Head(pushes).type = type /\ Head(pushes) \in Push /\ pushes' = Tail(pushes)
         /\ \A i \in 1 .. Len(pushes') : pushes'[i] = pushes[i + 1] /\ i + 1 \in 1 .. Len(pushes)
         /\ UNCHANGED <<requests, pendingHistory, messages, clock, lastId, taskQueue, posting, late,
                        selected, switches, misdated>>
<1>1. pushes \in Seq(Push) /\ pushes # <<>> /\ pushes' = Tail(pushes) /\ Head(pushes).type = type
  BY DEF Receive, HistoryInv, PushesInv
<1>2. UNCHANGED <<requests, pendingHistory, messages, clock, lastId, taskQueue, posting, late,
                  selected, switches, misdated>>
  BY DEF Receive, server, queues
<1>3. QED
  BY <1>1, <1>2, Taken

\* When the first page is shown, nothing older has been asked for.
LEMMA NothingAskedBefore ==
  ASSUME HistoryInv, FirstPage, OlderInv, OnSetHistory
  PROVE  /\ loaded = NoChannel /\ model = <<>> /\ Len(pendingHistory) = 0
         /\ NoneOf(requests, "REQ_CHAT_LOG_BEFORE") /\ NoneOf(pushes, "CHAT_LOG_MORE")
<1>1. Receive("CHAT_LOG")
  BY DEF OnSetHistory
<1>2. loaded = NoChannel
  BY <1>1, TakenPush DEF FirstPage, NoneOf
<1>3. model = <<>>
  <2>0. model \in Seq(Row)
    BY DEF HistoryInv, ViewInv
  <2>1. \A i \in 1 .. Len(model) : model[i] \in Row /\ model[i].ch = loaded
    BY <2>0, Members DEF HistoryInv, ViewInv, RowsOfLoaded
  <2>2. \A i \in 1 .. Len(model) : model[i].ch \in TextChannels
    BY <2>1 DEF Row
  <2>3. \A i \in 1 .. Len(model) : FALSE
    BY <1>2, <2>1, <2>2, ChatAssumption
  <2>4. QED
    BY <2>0, <2>3, Taken
<1>4. Len(pendingHistory) \in Nat /\ ~(1 \in 1 .. Len(pendingHistory))
  BY <1>3 DEF OlderInv, AskedBelow, HistoryInv, RequestsInv
<1>5. QED
  BY <1>2, <1>3, <1>4 DEF OlderInv, AskedBelow, OlderPage, NoneOf

\* When an older page has been shown, none is asked for.
LEMMA NothingAskedAfter ==
  ASSUME OneOlder', OnPrependHistory
  PROVE  /\ Len(pendingHistory') = 0
         /\ NoneOf(requests', "REQ_CHAT_LOG_BEFORE") /\ NoneOf(pushes', "CHAT_LOG_MORE")
<1>1. ~inFlight'
  BY DEF OnPrependHistory
<1>2. pendingHistory' = <<>> /\ NoneOf(requests', "REQ_CHAT_LOG_BEFORE") /\ NoneOf(pushes', "CHAT_LOG_MORE")
  BY <1>1 DEF OneOlder
<1>3. QED
  BY <1>2

\* A broadcast is shown behind the rows, and may cut off the oldest.
LEMMA BroadcastShown ==
  ASSUME HistoryInv, ModelInv, OnAppendMessage
  PROVE  \/ Head(pushes).ch # loaded /\ UNCHANGED <<model, cut>>
         \/ /\ Head(pushes).ch = loaded /\ model' = Longer(model, Head(pushes).row)
            /\ Head(pushes).row \in Row /\ model' # <<>> /\ HasRow(model', Head(pushes).row.id)
            /\ \A m \in Nat : Reaches(model, m) => Reaches(model', m)
            /\ model # <<>> /\ Len(model) < MemoryLimit => model'[1] = model[1]
            /\ ~cut' /\ ~(Len(model) < MemoryLimit) => ~inFlight
<1> DEFINE row == Head(pushes).row
<1>1. /\ Receive("PUSH_CHAT")
      /\ model' = IF Head(pushes).ch = loaded THEN Longer(model, row) ELSE model
      /\ cut' = (cut \/ (Head(pushes).ch = loaded /\ Len(model) >= MemoryLimit /\ inFlight))
  BY DEF OnAppendMessage, Longer
<1>0. /\ model \in Seq(Row) /\ Ascending(model) /\ StillNewer(model, pushes)
      /\ cut \in BOOLEAN
      /\ \A i \in 1 .. Len(messages) : messages[i].id = i
  BY DEF HistoryInv, ViewInv, ModelInv, ServerInv, Numbered
<1>2. row \in Row /\ \A i \in 1 .. Len(model) : model[i].id < row.id
  BY <1>0, <1>1, TakenPush, PushParts DEF StillNewer
<1>3. CASE Head(pushes).ch # loaded
  <2>1. cut' = cut
    BY <1>0, <1>1, <1>3, Zenon
  <2>2. QED
    BY <1>1, <1>3, <2>1
<1>4. CASE Head(pushes).ch = loaded
  <2>1. model' = Longer(model, row)
    BY <1>1, <1>4
  <2> HIDE DEF row
  <2>2. /\ model' # <<>> /\ HasRow(model', row.id)
        /\ \A m \in Nat : Reaches(model, m) => Reaches(model', m)
        /\ model # <<>> /\ Len(model) < MemoryLimit => model'[1] = model[1]
    BY <1>0, <1>2, <2>1, Extended
  <2>3. ASSUME ~cut', ~(Len(model) < MemoryLimit)
        PROVE  ~inFlight
    <3>1. Len(model) >= MemoryLimit
      BY <1>0, <2>3, ChatAssumption
    <3>2. QED
      BY <1>1, <1>4, <2>3, <3>1, Zenon
  <2>4. QED
    BY <1>2, <1>4, <2>1, <2>2, <2>3 DEF row
<1>5. QED
  BY <1>3, <1>4

LEMMA OldestStays ==
  ASSUME HistoryInv, ModelInv, OnAppendMessage, model # <<>>, inFlight, ~cut'
  PROVE  model' # <<>> /\ model'[1] = model[1]
BY BroadcastShown

-----------------------------------------------------------------------------
(* Each part is kept.                                                      *)

LEMMA OfSelectedKept ==
  ASSUME HistoryInv, StampsInv, ControlStays, OfSelected, [Next]_vars,
         switches = 0, switches' = 0
  PROVE  OfSelected'
<1> USE DEF OfSelected
<1>0. /\ selected' = selected /\ requests \in Seq(Request) /\ pushes \in Seq(Push)
      /\ pendingHistory \in Seq([ch : TextChannels, before : Stamps])
  BY ControlKept DEF HistoryInv, RequestsInv, PushesInv
<1>1. CASE Quiet
  BY <1>0, <1>1 DEF Quiet
<1>2. CASE ChatWritten
  <2>1. PICK r \in Request : r.type = "CHAT" /\ requests' = Append(requests, r)
    BY <1>2 DEF ChatWritten
  <2>2. UNCHANGED <<pushes, loaded, pendingHistory>>
    BY <1>2 DEF ChatWritten
  <2>3. \A i \in 1 .. Len(requests') :
           (i \in 1 .. Len(requests) /\ requests'[i] = requests[i]) \/ requests'[i] = r
    BY <1>0, <2>1, Added
  <2>4. QED
    BY <1>0, <2>1, <2>2, <2>3
<1>3. CASE RequestOlder
  <2> DEFINE h == [ch |-> selected, before |-> model[1].ts]
  <2>1. /\ UNCHANGED <<requests, pushes, loaded>> /\ model # <<>>
        /\ pendingHistory' = Append(pendingHistory, h)
    BY <1>3 DEF RequestOlder
  <2>2. h \in [ch : TextChannels, before : Stamps] /\ h.ch = selected
    <3>1. model[1] \in Row
      BY <2>1, Taken DEF HistoryInv, ViewInv
    <3>2. QED
      BY <3>1 DEF Row, HistoryInv, ViewInv
  <2> HIDE DEF h
  <2>3. \A i \in 1 .. Len(pendingHistory') :
           \/ i \in 1 .. Len(pendingHistory) /\ pendingHistory'[i] = pendingHistory[i]
           \/ pendingHistory'[i] = h
    BY <1>0, <2>1, <2>2, Added
  <2>4. QED
    BY <1>0, <2>1, <2>2, <2>3
<1>4. CASE WakeHistory /\ pendingHistory # <<>>
  <2> DEFINE h == Head(pendingHistory)
             r == Before(h.ch, h.before)
  <2>1. /\ h \in [ch : TextChannels, before : Stamps] /\ h = pendingHistory[1]
        /\ 1 \in 1 .. Len(pendingHistory)
        /\ \A i \in 1 .. Len(Tail(pendingHistory)) :
             Tail(pendingHistory)[i] = pendingHistory[i + 1] /\ i + 1 \in 1 .. Len(pendingHistory)
    BY <1>0, <1>4, Taken
  <2>2. r \in Request /\ r.ch = selected
    BY <2>1 DEF Before, Request
  <2>3. /\ requests' = Append(requests, r) /\ UNCHANGED <<pushes, loaded>>
        /\ pendingHistory' = Tail(pendingHistory)
    BY <1>4 DEF WakeHistory, view
  <2> HIDE DEF r, h
  <2>4. \A i \in 1 .. Len(requests') :
           (i \in 1 .. Len(requests) /\ requests'[i] = requests[i]) \/ requests'[i] = r
    BY <1>0, <2>2, <2>3, Added
  <2>5. QED
    BY <1>0, <2>1, <2>2, <2>3, <2>4
<1>5. ASSUME NEW p \in Push, pushes' = Append(pushes, p), IsPage(p) => p.ch = selected,
             UNCHANGED <<loaded, pendingHistory>>,
             requests' = requests \/ \E type : Handle(type)
      PROVE  OfSelected'
  <2>1. \A i \in 1 .. Len(pushes') : (i \in 1 .. Len(pushes) /\ pushes'[i] = pushes[i]) \/ pushes'[i] = p
    BY <1>0, <1>5, Added
  <2>2. \A i \in 1 .. Len(requests') : requests'[i].type # "CHAT" => requests'[i].ch = selected
    BY <1>5, TakenRequest
  <2>3. QED
    BY <1>0, <1>5, <2>1, <2>2
<1>6. CASE \E c \in TextChannels : Broadcast(c)
  <2>1. PICK c \in TextChannels : Broadcast(c)
    BY <1>6
  <2>2. PICK p \in Push : p.type = "PUSH_CHAT" /\ pushes' = Append(pushes, p)
    BY <2>1, Answered
  <2>3. ~IsPage(p) /\ UNCHANGED <<requests, loaded, pendingHistory>>
    BY <2>1, <2>2 DEF Broadcast, view, queues, IsPage
  <2>4. QED
    BY <1>5, <2>1, <2>2, <2>3
<1>7. CASE HandleLog
  <2>1. PICK p \in Push : pushes' = Append(pushes, p) /\ p.ch = Head(requests).ch
    BY <1>7, Answered
  <2>2. Handle("REQ_CHAT_LOG") /\ UNCHANGED <<loaded, pendingHistory>>
    BY <1>7 DEF HandleLog, view, queues
  <2>3. Head(requests).ch = selected
    BY <2>2, TakenRequest
  <2>4. QED
    BY <1>5, <2>1, <2>2, <2>3
<1>8. CASE HandleBefore
  <2>1. PICK p \in Push : pushes' = Append(pushes, p) /\ p.ch = Head(requests).ch
    BY <1>8, Answered
  <2>2. Handle("REQ_CHAT_LOG_BEFORE") /\ UNCHANGED <<loaded, pendingHistory>>
    BY <1>8 DEF HandleBefore, view, queues
  <2>3. Head(requests).ch = selected
    BY <2>2, TakenRequest
  <2>4. QED
    BY <1>5, <2>1, <2>2, <2>3
<1>9. CASE OnAppendMessage \/ OnSetHistory \/ OnPrependHistory
  <2>1. \E type : Receive(type)
    BY <1>9 DEF OnAppendMessage, OnSetHistory, OnPrependHistory
  <2>2. loaded' \in {NoChannel, selected}
    BY <1>9 DEF OnAppendMessage, OnSetHistory, OnPrependHistory
  <2>3. QED
    BY <1>0, <2>1, <2>2, TakenPush
<1>10. CASE ChatTaken
  BY <1>0, <1>10, TakenRequest DEF ChatTaken
<1>11. QED
  BY <1>1, <1>2, <1>3, <1>4, <1>6, <1>7, <1>8, <1>9, <1>10, StaySteps

\* What a slot leaves of the rows, as far as the oldest one is concerned.
LEMMA OlderShown ==
  ASSUME HistoryInv, StampsInv, OlderInv, OnPrependHistory, Head(pushes).ch = loaded
  PROVE  /\ model' = Head(pushes).rows \o model /\ hasMore' = Head(pushes).hasMore
         /\ model # <<>> /\ model' # <<>>
         /\ Head(pushes).rows # <<>> => model'[1] = Head(pushes).rows[1]
         /\ Head(pushes).rows = <<>> => model' = model
         /\ \A m : HasRow(Head(pushes).rows, m) \/ HasRow(model, m) => HasRow(model', m)
<1> DEFINE rows == Head(pushes).rows
<1>1. Receive("CHAT_LOG_MORE") /\ model' = rows \o model /\ hasMore' = Head(pushes).hasMore
  BY DEF OnPrependHistory
<1>2. /\ rows \in Seq(Row) /\ model \in Seq(Row) /\ Ascending(rows) /\ OlderPage(rows, model)
  <2>1. /\ Head(pushes) \in Push /\ Head(pushes).type = "CHAT_LOG_MORE"
        /\ Head(pushes) = pushes[1] /\ 1 \in 1 .. Len(pushes)
    BY <1>1, TakenPush
  <2>2. OlderPage(rows, model)
    BY <2>1 DEF OlderInv
  <2>3. Ascending(rows)
    BY <2>1 DEF StampsInv, PushAnchored
  <2>4. rows \in Seq(Row)
    BY <2>1, PushParts
  <2>5. QED
    BY <2>2, <2>3, <2>4 DEF HistoryInv, ViewInv
<1>3. model # <<>>
  BY <1>2 DEF OlderPage
<1>4. /\ Len(rows) \in Nat /\ Len(model) \in Nat /\ Len(model) >= 1
      /\ model' \in Seq(Row) /\ Len(model') = Len(rows) + Len(model)
      /\ \A i \in 1 .. Len(rows) + Len(model) :
           model'[i] = IF i <= Len(rows) THEN rows[i] ELSE model[i - Len(rows)]
  <2>0. Len(model) \in Nat /\ Len(model) >= 1 /\ Len(rows) \in Nat
    BY <1>2, <1>3
  <2> HIDE DEF rows
  <2>1. /\ rows \o model \in Seq(Row) /\ Len(rows \o model) = Len(rows) + Len(model)
        /\ \A i \in 1 .. Len(rows) + Len(model) :
             (rows \o model)[i] = IF i <= Len(rows) THEN rows[i] ELSE model[i - Len(rows)]
    BY <1>2, ConcatProperties
  <2>2. QED
    BY <1>1, <2>0, <2>1
<1> HIDE DEF rows
<1>5. model' # <<>>
  BY <1>4
<1>6. rows # <<>> => model'[1] = rows[1]
  <2>1. ASSUME rows # <<>> PROVE model'[1] = rows[1]
    <3>1. 1 <= Len(rows)
      BY <1>2, <2>1
    <3>2. QED
      BY <1>4, <3>1
  <2>2. QED
    BY <2>1
<1>7. rows = <<>> => model' = model
  BY <1>1, <1>2
<1>8. \A m : HasRow(rows, m) \/ HasRow(model, m) => HasRow(model', m)
  <2>1. ASSUME NEW m, HasRow(rows, m) PROVE HasRow(model', m)
    <3>1. PICK k \in 1 .. Len(rows) : rows[k].id = m
      BY <2>1 DEF HasRow
    <3>2. k \in 1 .. Len(model') /\ model'[k] = rows[k]
      BY <1>4
    <3>3. QED
      BY <3>1, <3>2 DEF HasRow
  <2>2. ASSUME NEW m, HasRow(model, m) PROVE HasRow(model', m)
    <3>1. PICK k \in 1 .. Len(model) : model[k].id = m
      BY <2>2 DEF HasRow
    <3>2. /\ k + Len(rows) \in 1 .. Len(model') /\ ~(k + Len(rows) <= Len(rows))
          /\ (k + Len(rows)) - Len(rows) = k
      BY <1>4
    <3>3. model'[k + Len(rows)] = model[k]
      BY <1>4, <3>2
    <3>4. QED
      BY <3>1, <3>2, <3>3 DEF HasRow
  <2>3. QED
    BY <2>1, <2>2
<1>9. QED
  BY <1>1, <1>3, <1>5, <1>6, <1>7, <1>8 DEF rows

LEMMA AskedExactlyKept ==
  ASSUME HistoryInv, StampsInv, ControlStays, FirstPage, ModelInv, OneOlder, OlderInv,
         AskedExactly, [Next]_vars, switches = 0, switches' = 0, ~misdated'
  PROVE  AskedExactly'
<1> DEFINE before == "REQ_CHAT_LOG_BEFORE"
<1> SUFFICES ASSUME ~cut'
             PROVE  /\ \A i \in 1 .. Len(pendingHistory') :
                         AskedFrom(pendingHistory'[i].before, model', messages')
                    /\ \A i \in 1 .. Len(requests') : requests'[i].type = before =>
                         AskedFrom(requests'[i].before, model', messages')
  BY DEF AskedExactly
<1>0. /\ ~cut /\ requests \in Seq(Request)
      /\ pendingHistory \in Seq([ch : TextChannels, before : Stamps])
  BY StoredStays DEF HistoryInv, RequestsInv
<1>1. ASSUME model'[1] = model[1]
      PROVE  /\ \A i \in 1 .. Len(pendingHistory) :
                  AskedFrom(pendingHistory[i].before, model', messages')
             /\ \A i \in 1 .. Len(requests) : requests[i].type = before =>
                  AskedFrom(requests[i].before, model', messages')
  BY <1>0, <1>1, StoredStays DEF AskedExactly, AskedFrom
<1>2. CASE Quiet
  BY <1>1, <1>2 DEF Quiet
<1>3. CASE ChatWritten
  <2>1. PICK r \in Request : r.type # before /\ requests' = Append(requests, r)
    BY <1>3 DEF ChatWritten
  <2>2. UNCHANGED <<model, pendingHistory>>
    BY <1>3 DEF ChatWritten
  <2>3. \A i \in 1 .. Len(requests') :
           (i \in 1 .. Len(requests) /\ requests'[i] = requests[i]) \/ requests'[i] = r
    BY <1>0, <2>1, Added
  <2>4. QED
    BY <1>1, <2>1, <2>2, <2>3
<1>4. CASE RequestOlder
  <2> DEFINE h == [ch |-> selected, before |-> model[1].ts]
  <2>1. /\ UNCHANGED <<requests, model, messages>> /\ model # <<>>
        /\ pendingHistory' = Append(pendingHistory, h) /\ model[1] \in Stored
    BY <1>4 DEF RequestOlder, server
  <2>2. h \in [ch : TextChannels, before : Stamps]
    <3>1. model[1] \in Row
      BY <2>1, Taken DEF HistoryInv, ViewInv
    <3>2. QED
      BY <3>1 DEF Row, HistoryInv, ViewInv
  <2>3. AskedFrom(h.before, model', messages')
    <3>1. PICK i \in 1 .. Len(messages) : model[1] = messages[i]
      BY <2>1 DEF Stored
    <3>2. messages[i].id = i
      BY <3>1 DEF HistoryInv, ServerInv, Numbered
    <3>3. QED
      BY <2>1, <3>1, <3>2 DEF AskedFrom, InTable
  <2> HIDE DEF h
  <2>4. \A i \in 1 .. Len(pendingHistory') :
           \/ i \in 1 .. Len(pendingHistory) /\ pendingHistory'[i] = pendingHistory[i]
           \/ pendingHistory'[i] = h
    BY <1>0, <2>1, <2>2, Added
  <2>5. QED
    BY <1>1, <2>1, <2>3, <2>4
<1>5. CASE WakeHistory /\ pendingHistory # <<>>
  <2> DEFINE h == Head(pendingHistory)
             r == Before(h.ch, h.before)
  <2>1. /\ h \in [ch : TextChannels, before : Stamps] /\ h = pendingHistory[1]
        /\ 1 \in 1 .. Len(pendingHistory)
        /\ \A i \in 1 .. Len(Tail(pendingHistory)) :
             Tail(pendingHistory)[i] = pendingHistory[i + 1] /\ i + 1 \in 1 .. Len(pendingHistory)
    BY <1>0, <1>5, Taken
  <2>2. r \in Request /\ r.before = pendingHistory[1].before
    BY <2>1 DEF Before, Request
  <2>3. /\ requests' = Append(requests, r) /\ model' = model
        /\ pendingHistory' = Tail(pendingHistory)
    BY <1>5 DEF WakeHistory, view
  <2> HIDE DEF r, h
  <2>4. \A i \in 1 .. Len(requests') :
           (i \in 1 .. Len(requests) /\ requests'[i] = requests[i]) \/ requests'[i] = r
    BY <1>0, <2>2, <2>3, Added
  <2>5. QED
    BY <1>1, <2>1, <2>2, <2>3, <2>4
<1>6. ASSUME model' = model, pendingHistory' = pendingHistory,
             requests' = requests \/ \E type : Handle(type)
      PROVE  /\ \A i \in 1 .. Len(pendingHistory') :
                  AskedFrom(pendingHistory'[i].before, model', messages')
             /\ \A i \in 1 .. Len(requests') : requests'[i].type = before =>
                  AskedFrom(requests'[i].before, model', messages')
  BY <1>1, <1>6, TakenRequest
<1>7. CASE \/ ChatTaken \/ (\E c \in TextChannels : Broadcast(c))
           \/ HandleLog \/ HandleBefore
  BY <1>6, <1>7 DEF ChatTaken, Broadcast, HandleLog, HandleBefore, view, queues
<1>8. CASE OnAppendMessage
  <2>1. UNCHANGED <<requests, pendingHistory>>
    BY <1>8, TakenPush DEF OnAppendMessage
  <2>2. CASE Len(pendingHistory) = 0 /\ NoneOf(requests, before)
    BY <2>1, <2>2 DEF NoneOf
  <2>3. CASE pendingHistory # <<>> \/ ~NoneOf(requests, before)
    <3>1. inFlight
      BY <2>3 DEF OneOlder
    <3>2. model # <<>>
      <4>1. pendingHistory # <<>> => 1 \in 1 .. Len(pendingHistory)
        BY <1>0, Taken
      <4>2. QED
        BY <2>3, <4>1 DEF OlderInv, AskedBelow, NoneOf
    <3>3. model'[1] = model[1]
      BY <1>8, <3>1, <3>2, OldestStays
    <3>4. QED
      BY <1>1, <2>1, <3>3
  <2>4. pendingHistory = <<>> => Len(pendingHistory) = 0
    OBVIOUS
  <2>5. QED
    BY <2>2, <2>3, <2>4
<1>9. CASE OnSetHistory
  <2>1. UNCHANGED <<requests, pendingHistory>>
    BY <1>9, TakenPush DEF OnSetHistory
  <2>2. QED
    BY <1>9, <2>1, NothingAskedBefore DEF NoneOf
<1>10. CASE OnPrependHistory
  BY <1>10, OneOlderKept, NothingAskedAfter DEF NoneOf
<1>11. QED
  BY <1>2, <1>3, <1>4, <1>5, <1>7, <1>8, <1>9, <1>10, StaySteps

\* What was sent to a channel is stored, and on a page of it, or waits for the worker.
LEMMA StoredOrQueued ==
  ASSUME HistoryInv, posting = NoChannel, NEW c, NEW m \in PostedTo(c, sent)
  PROVE  \/ m \in RowsOf(c) /\ messages[m].id = m
         \/ m \in {taskQueue[i].id : i \in 1 .. Len(taskQueue)}
<1>0. /\ lastId = Len(messages) + Len(taskQueue)
      /\ Len(messages) \in Nat /\ Len(taskQueue) \in Nat
      /\ \A i \in 1 .. Len(taskQueue) : taskQueue[i].id = Len(messages) + i
  BY DEF HistoryInv, ServerInv, Numbered
<1>1. /\ Len(sent) = lastId
      /\ \A i \in 1 .. Len(messages) : sent[i] = messages[i].ch /\ messages[i].id = i
  <2>1. /\ Len(sent) = Told /\ Told = lastId
        /\ \A i \in 1 .. Len(messages) : messages[i].id = i
        /\ \A i \in 1 .. Len(messages) : i <= Told => sent[i] = messages[i].ch
    BY SentTyped DEF HistoryInv
  <2>2. \A i \in 1 .. Len(messages) : i <= Told
    BY <1>0, <2>1
  <2>3. QED
    BY <2>1, <2>2
<1>2. m \in 1 .. Len(sent) /\ sent[m] = c
  BY DEF PostedTo
<1>3. CASE m \in 1 .. Len(messages)
  BY <1>1, <1>2, <1>3 DEF RowsOf
<1>4. CASE m \notin 1 .. Len(messages)
  <2>1. m - Len(messages) \in 1 .. Len(taskQueue) /\ Len(messages) + (m - Len(messages)) = m
    BY <1>0, <1>1, <1>2, <1>4
  <2>2. taskQueue[m - Len(messages)].id = m
    BY <1>0, <2>1
  <2>3. QED
    BY <2>1, <2>2
<1>5. QED
  BY <1>3, <1>4

LEMMA FirstPageCoversKept ==
  ASSUME HistoryInv, StampsInv, ControlStays, FirstPageCovers, [Next]_vars,
         switches = 0, switches' = 0
  PROVE  FirstPageCovers'
<1>0. /\ pushes \in Seq(Push) /\ Len(pushes) \in Nat /\ late \subseteq late'
      /\ ServerInv /\ Len(sent) \in Nat
  BY StoredStays, Grown DEF HistoryInv, PushesInv
<1>1. ASSUME \A c : ~Broadcast(c)
      PROVE  \A c : PostedTo(c, sent') \in SUBSET PostedTo(c, sent)
  BY <1>1, Posted
<1>2. ASSUME \A c : ~Broadcast(c), pushes' = pushes
      PROVE  FirstPageCovers'
  BY <1>0, <1>1, <1>2 DEF FirstPageCovers, FirstCovers
<1>3. ASSUME NEW type, Receive(type)
      PROVE  FirstPageCovers'
  <2>1. /\ pushes # <<>> /\ pushes' = Tail(pushes) /\ sent' = sent
        /\ \A i \in 1 .. Len(pushes') : pushes'[i] = pushes[i + 1] /\ i + 1 \in 1 .. Len(pushes)
    <3>1. UNCHANGED <<messages, taskQueue, lastId, posting>>
      BY <1>3, TakenPush
    <3>2. sent' = sent
      BY <3>1 DEF sent, Told
    <3>3. QED
      BY <1>3, <3>2, TakenPush
  <2>2. ASSUME NEW i \in 1 .. Len(pushes'), pushes'[i].type = "CHAT_LOG"
        PROVE  FirstCovers(pushes'[i], i, pushes', sent', late')
    <3>1. FirstCovers(pushes[i + 1], i + 1, pushes, sent, late)
      BY <2>1, <2>2 DEF FirstPageCovers
    <3>2. \A m : Awaited(pushes, i + 1, m) => Awaited(pushes', i, m)
      BY <1>0, <2>1, AwaitedTaken
    <3>3. QED
      BY <1>0, <2>1, <3>1, <3>2 DEF FirstCovers
  <2>3. QED
    BY <2>2 DEF FirstPageCovers
<1>4. ASSUME NEW p \in Push, pushes' = Append(pushes, p),
             \A c, m : m \in PostedTo(c, sent') =>
                \/ m \in PostedTo(c, sent)
                \/ p.type = "PUSH_CHAT" /\ m = p.row.id,
             p.type = "CHAT_LOG" => FirstCovers(p, Len(pushes) + 1, pushes', sent', late')
      PROVE  FirstPageCovers'
  <2>1. /\ \A i \in 1 .. Len(pushes) : pushes'[i] = pushes[i]
        /\ pushes'[Len(pushes) + 1] = p
        /\ \A i \in 1 .. Len(pushes') : i \in 1 .. Len(pushes) \/ i = Len(pushes) + 1
    BY <1>0, <1>4, Added
  <2>2. ASSUME NEW i \in 1 .. Len(pushes), pushes[i].type = "CHAT_LOG"
        PROVE  FirstCovers(pushes[i], i, pushes', sent', late')
    <3>1. FirstCovers(pushes[i], i, pushes, sent, late)
      BY <2>2 DEF FirstPageCovers
    <3>2. /\ \A m : Awaited(pushes, i, m) => Awaited(pushes', i, m)
          /\ p.type = "PUSH_CHAT" => Awaited(pushes', i, p.row.id)
      BY <1>0, <1>4, AwaitedAdded
    <3>3. QED
      BY <1>0, <1>4, <3>1, <3>2 DEF FirstCovers
  <2>3. QED
    BY <1>4, <2>1, <2>2 DEF FirstPageCovers
<1>5. ASSUME NEW c \in TextChannels, Broadcast(c)
      PROVE  FirstPageCovers'
  <2>1. PICK p \in Push : p.type = "PUSH_CHAT" /\ pushes' = Append(pushes, p) /\ p.row.id = Len(sent) + 1
    BY <1>5, Answered
  <2>2. \A d, m : m \in PostedTo(d, sent') => m \in PostedTo(d, sent) \/ m = p.row.id
    BY <2>1, Posted
  <2>3. QED
    BY <1>4, <2>1, <2>2
<1>6. CASE HandleBefore
  <2>1. PICK p \in Push : p.type = "CHAT_LOG_MORE" /\ pushes' = Append(pushes, p)
    BY <1>6, Answered
  <2>2. sent' = sent
    BY <1>6 DEF HandleBefore, server, sent, Told
  <2>3. QED
    BY <1>4, <2>1, <2>2
<1>7. CASE HandleLog
  <2>1. PICK p \in Push : /\ p.type = "CHAT_LOG" /\ pushes' = Append(pushes, p)
                          /\ p.rows = PageOf(RowsOf(p.ch))
    BY <1>7, Answered
  <2>2. /\ UNCHANGED <<messages, taskQueue, lastId, posting>> /\ posting = NoChannel
        /\ late' = late \cup {taskQueue[i].id : i \in 1 .. Len(taskQueue)}
    BY <1>7 DEF HandleLog, Handle
  <2>3. sent' = sent
    BY <2>2 DEF sent, Told
  <2>4. RowsOf(p.ch) \in SUBSET (1 .. Len(messages))
    BY DEF RowsOf
  <2>5. \A m \in RowsOf(p.ch) : Reaches(p.rows, m)
    BY <1>0, <2>1, <2>4, PageReaches
  <2>6. FirstCovers(p, Len(pushes) + 1, pushes', sent', late')
    BY <2>2, <2>3, <2>5, StoredOrQueued DEF FirstCovers
  <2>7. QED
    BY <1>4, <2>1, <2>3, <2>6
<1>8. ASSUME Quiet \/ ChatWritten \/ ChatTaken \/ RequestOlder \/ WakeHistory
      PROVE  pushes' = pushes
  BY <1>8 DEF Quiet, ChatWritten, ChatTaken, RequestOlder, WakeHistory
<1>9. ASSUME NEW c, Broadcast(c)
      PROVE  pushes' # pushes
  <2>1. Len(pushes') = Len(pushes) + 1
    BY <1>0, <1>9 DEF Broadcast
  <2>2. QED
    BY <1>0, <2>1
<1>10. CASE Quiet \/ ChatWritten \/ ChatTaken \/ RequestOlder \/ WakeHistory
  BY <1>2, <1>8, <1>9, <1>10
<1>11. CASE OnAppendMessage \/ OnSetHistory \/ OnPrependHistory
  BY <1>3, <1>11 DEF OnAppendMessage, OnSetHistory, OnPrependHistory
<1>12. QED
  BY <1>5, <1>6, <1>7, <1>10, <1>11, StaySteps

LEMMA OlderPageCoversKept ==
  ASSUME HistoryInv, StampsInv, ControlStays, FirstPage, ModelInv, OneOlder, OlderInv,
         AskedExactly, OlderPageCovers, [Next]_vars, switches = 0, switches' = 0, ~misdated'
  PROVE  OlderPageCovers'
<1> DEFINE more == "CHAT_LOG_MORE"
<1> SUFFICES ASSUME ~cut', DistinctlyStamped'
             PROVE  \A i \in 1 .. Len(pushes') : pushes'[i].type = more =>
                      OlderCovers(pushes'[i], model', sent')
  BY DEF OlderPageCovers
<1>0. /\ ~cut /\ DistinctlyStamped /\ pushes \in Seq(Push) /\ Len(sent) \in Nat
      /\ ServerInv /\ model \in Seq(Row)
  BY StoredStays, Grown DEF HistoryInv, PushesInv, ViewInv
<1>1. ASSUME model'[1] = model[1]
      PROVE  \A i \in 1 .. Len(pushes) : pushes[i].type = more =>
               OlderCovers(pushes[i], model', sent')
  <2>1. ASSUME NEW i \in 1 .. Len(pushes), pushes[i].type = more
        PROVE  OlderCovers(pushes[i], model', sent')
    <3>1. OlderCovers(pushes[i], model, sent)
      BY <1>0, <2>1 DEF OlderPageCovers
    <3>2. model # <<>>
      BY <2>1 DEF OlderInv, OlderPage
    <3>3. model[1].id \in 1 .. Len(sent)
      <4>1. 1 \in 1 .. Len(model)
        BY <1>0, <3>2, Taken
      <4>2. QED
        BY <4>1 DEF StampsInv, Anchored
    <3>4. ~(Len(sent) + 1 < model[1].id)
      BY <1>0, <3>3
    <3>5. QED
      BY <1>1, <3>1, <3>4, Posted DEF OlderCovers
  <2>2. QED
    BY <2>1
<1>2. CASE Quiet \/ ChatWritten \/ ChatTaken \/ RequestOlder \/ WakeHistory
  <2>1. UNCHANGED <<model, pushes>>
    BY <1>2 DEF Quiet, ChatWritten, ChatTaken, RequestOlder, WakeHistory, view
  <2>2. QED
    BY <1>1, <2>1
<1>3. ASSUME NEW p \in Push, pushes' = Append(pushes, p), model' = model,
             p.type = more => OlderCovers(p, model', sent')
      PROVE  \A i \in 1 .. Len(pushes') : pushes'[i].type = more =>
               OlderCovers(pushes'[i], model', sent')
  <2>1. \A i \in 1 .. Len(pushes') : (i \in 1 .. Len(pushes) /\ pushes'[i] = pushes[i]) \/ pushes'[i] = p
    BY <1>0, <1>3, Added
  <2>2. QED
    BY <1>1, <1>3, <2>1
<1>4. CASE \E c \in TextChannels : Broadcast(c)
  <2>1. PICK p \in Push : p.type = "PUSH_CHAT" /\ pushes' = Append(pushes, p)
    BY <1>4, Answered
  <2>2. model' = model
    BY <1>4 DEF Broadcast, view
  <2>3. QED
    BY <1>3, <2>1, <2>2
<1>5. CASE HandleLog
  <2>1. PICK p \in Push : p.type = "CHAT_LOG" /\ pushes' = Append(pushes, p)
    BY <1>5, Answered
  <2>2. model' = model
    BY <1>5 DEF HandleLog, view
  <2>3. QED
    BY <1>3, <2>1, <2>2
<1>6. CASE HandleBefore
  <2> DEFINE t == Head(requests).before
             r == model[1]
  <2>1. PICK p \in Push : /\ p.type = more /\ pushes' = Append(pushes, p)
                          /\ p.rows = PageOf(RowsBefore(p.ch, t))
    BY <1>6, Answered
  <2>2. /\ Handle("REQ_CHAT_LOG_BEFORE") /\ model' = model
        /\ UNCHANGED <<messages, taskQueue, lastId, posting>>
    BY <1>6 DEF HandleBefore, view, server
  <2>3. sent' = sent
    BY <2>2 DEF sent, Told
  <2>4. t = r.ts /\ r.id \in 1 .. Len(messages) /\ messages[r.id] = r
    BY <1>0, <2>2, TakenRequest DEF AskedExactly, AskedFrom, InTable
  <2> HIDE DEF r, t
  <2>5. ASSUME NEW m \in PostedTo(p.ch, sent), m < r.id
        PROVE  m \in RowsBefore(p.ch, t)
    <3>1. /\ m \in 1 .. Len(messages) /\ messages[m].id = m /\ messages[m].ch = p.ch
          /\ r.id \in Nat /\ m \in Nat
      BY <1>0, <2>4, <2>5, SentTyped DEF PostedTo
    <3>2. messages[m].ts <= messages[r.id].ts
      BY <2>4, <2>5, <3>1 DEF StampsInv, Anchored
    <3>3. messages[m].ts # messages[r.id].ts
      BY <1>0, <2>4, <2>5, <3>1 DEF DistinctlyStamped
    <3>4. messages[m].ts \in Nat /\ messages[r.id].ts \in Nat
      <4>1. messages[m] \in Row /\ messages[r.id] \in Row
        BY <1>0, <2>4, <3>1, Members DEF ServerInv
      <4>2. QED
        BY <4>1, StampsAre DEF Row
    <3>5. messages[m].ts < t
      BY <2>4, <3>2, <3>3, <3>4
    <3>6. QED
      BY <3>1, <3>5 DEF RowsBefore, RowsOf
  <2>6. RowsBefore(p.ch, t) \in SUBSET (1 .. Len(messages))
    BY DEF RowsBefore, RowsOf
  <2>7. OlderCovers(p, model, sent)
    BY <1>0, <2>1, <2>5, <2>6, PageReaches DEF OlderCovers, r
  <2>8. QED
    BY <1>3, <2>1, <2>2, <2>3, <2>7
<1>7. CASE OnAppendMessage
  <2>1. /\ Receive("PUSH_CHAT")
        /\ \A i \in 1 .. Len(pushes') : pushes'[i] = pushes[i + 1] /\ i + 1 \in 1 .. Len(pushes)
    BY <1>7, TakenPush DEF OnAppendMessage
  <2>2. CASE NoneOf(pushes, more)
    BY <2>1, <2>2 DEF NoneOf
  <2>3. CASE ~NoneOf(pushes, more)
    <3>1. inFlight
      BY <2>3 DEF OneOlder
    <3>2. model # <<>>
      BY <2>3 DEF OlderInv, OlderPage, NoneOf
    <3>3. model'[1] = model[1]
      BY <1>7, <3>1, <3>2, OldestStays
    <3>4. QED
      BY <1>1, <2>1, <3>3
  <2>4. QED
    BY <2>2, <2>3
<1>8. CASE OnSetHistory
  <2>1. \A i \in 1 .. Len(pushes') : pushes'[i] = pushes[i + 1] /\ i + 1 \in 1 .. Len(pushes)
    BY <1>8, TakenPush DEF OnSetHistory
  <2>2. QED
    BY <1>8, <2>1, NothingAskedBefore DEF NoneOf
<1>9. CASE OnPrependHistory
  BY <1>9, OneOlderKept, NothingAskedAfter DEF NoneOf
<1>10. QED
  BY <1>2, <1>4, <1>5, <1>6, <1>7, <1>8, <1>9, StaySteps

LEMMA ModelCoversKept ==
  ASSUME HistoryInv, StampsInv, ControlStays, FirstPage, ModelInv, OneOlder, OlderInv,
         OfSelected, FirstPageCovers, OlderPageCovers, ModelCovers, [Next]_vars,
         switches = 0, switches' = 0, ~misdated'
  PROVE  ModelCovers'
<1> SUFFICES ASSUME ~cut', DistinctlyStamped', loaded' # NoChannel
             PROVE  RowsCover(loaded', model', pushes', sent', late')
  BY DEF ModelCovers
<1>0. /\ ~cut /\ DistinctlyStamped /\ pushes \in Seq(Push) /\ Len(pushes) \in Nat
      /\ Len(sent) \in Nat /\ ServerInv /\ model \in Seq(Row) /\ late \subseteq late'
      /\ selected # NoChannel
  BY StoredStays, Grown, ChatAssumption DEF HistoryInv, PushesInv, ViewInv
<1>1. loaded # NoChannel => RowsCover(loaded, model, pushes, sent, late)
  BY <1>0 DEF ModelCovers
<1>2. ASSUME UNCHANGED <<model, loaded>>, NEW p \in Push, pushes' = Append(pushes, p),
             \A c, m : m \in PostedTo(c, sent') =>
                \/ m \in PostedTo(c, sent)
                \/ p.type = "PUSH_CHAT" /\ m = p.row.id
      PROVE  RowsCover(loaded', model', pushes', sent', late')
  <2>1. /\ \A m : Awaited(pushes, 0, m) => Awaited(pushes', 0, m)
        /\ p.type = "PUSH_CHAT" => Awaited(pushes', 0, p.row.id)
    BY <1>0, <1>2, AwaitedAdded
  <2>2. QED
    BY <1>0, <1>1, <1>2, <2>1 DEF RowsCover
<1>3. CASE \E c \in TextChannels : Broadcast(c)
  <2>1. PICK p \in Push : p.type = "PUSH_CHAT" /\ pushes' = Append(pushes, p) /\ p.row.id = Len(sent) + 1
    BY <1>3, Answered
  <2>2. UNCHANGED <<model, loaded>>
    BY <1>3 DEF Broadcast, view
  <2>3. \A c, m : m \in PostedTo(c, sent') => m \in PostedTo(c, sent) \/ m = p.row.id
    BY <2>1, Posted
  <2>4. QED
    BY <1>2, <2>1, <2>2, <2>3
<1>4. CASE HandleLog \/ HandleBefore
  <2>1. PICK p \in Push : pushes' = Append(pushes, p)
    BY <1>4, Answered
  <2>2. UNCHANGED <<model, loaded, messages, taskQueue, lastId, posting>>
    BY <1>4 DEF HandleLog, HandleBefore, view, server
  <2>3. sent' = sent
    BY <2>2 DEF sent, Told
  <2>4. QED
    BY <1>2, <2>1, <2>2, <2>3
<1>5. CASE Quiet \/ ChatWritten \/ ChatTaken \/ RequestOlder \/ WakeHistory
  <2>1. UNCHANGED <<model, pushes, loaded>>
    BY <1>5 DEF Quiet, ChatWritten, ChatTaken, RequestOlder, WakeHistory, view
  <2>2. \A c : ~Broadcast(c)
    <3>1. ASSUME NEW c, Broadcast(c) PROVE FALSE
      <4>1. Len(pushes') = Len(pushes) + 1
        BY <1>0, <3>1 DEF Broadcast
      <4>2. QED
        BY <1>0, <2>1, <4>1
    <3>2. QED
      BY <3>1
  <2>3. \A c : PostedTo(c, sent') \in SUBSET PostedTo(c, sent)
    BY <2>2, Posted
  <2>4. QED
    BY <1>0, <1>1, <2>1, <2>3 DEF RowsCover
<1>6. ASSUME NEW type, Receive(type)
      PROVE  /\ sent' = sent /\ late' = late /\ pushes' = Tail(pushes) /\ pushes # <<>>
             /\ Head(pushes).type = type /\ Head(pushes) = pushes[1] /\ 1 \in 1 .. Len(pushes)
             /\ \A m : Awaited(pushes, 0, m) => \/ Awaited(pushes', 0, m)
                                                \/ type = "PUSH_CHAT" /\ Head(pushes).row.id = m
             /\ \A m : Awaited(pushes, 1, m) => Awaited(pushes', 0, m)
  <2>1. /\ UNCHANGED <<messages, taskQueue, lastId, posting, late>> /\ pushes' = Tail(pushes)
        /\ pushes # <<>> /\ Head(pushes).type = type
        /\ Head(pushes) = pushes[1] /\ 1 \in 1 .. Len(pushes)
    BY <1>6, TakenPush
  <2>2. sent' = sent
    BY <2>1 DEF sent, Told
  <2>3. \A m : Awaited(pushes, 0, m) => \/ Awaited(Tail(pushes), 0, m)
                                        \/ Head(pushes).type = "PUSH_CHAT" /\ Head(pushes).row.id = m
    BY <1>0, <2>1, AwaitedTaken
  <2>4. \A m : Awaited(pushes, 0 + 1, m) => Awaited(Tail(pushes), 0, m)
    BY <1>0, <2>1, AwaitedTaken
  <2>5. QED
    BY <2>1, <2>2, <2>3, <2>4
<1>7. CASE OnAppendMessage
  <2>1. Receive("PUSH_CHAT") /\ loaded' = loaded
    BY <1>7 DEF OnAppendMessage
  <2>2. RowsCover(loaded, model, pushes, sent, late)
    BY <1>1, <2>1
  <2>3. CASE Head(pushes).ch # loaded /\ UNCHANGED <<model, cut>>
    <3>1. Head(pushes).row.id \notin PostedTo(loaded, sent)
      <4>1. /\ Head(pushes) = pushes[1] /\ 1 \in 1 .. Len(pushes)
            /\ Head(pushes).type = "PUSH_CHAT"
        BY <1>6, <2>1
      <4>2. Anchored(Head(pushes).row, messages, clock, sent) /\ OfItsChannel(Head(pushes))
        BY <4>1 DEF StampsInv, PushAnchored, HistoryInv, PushesInv
      <4>3. sent[Head(pushes).row.id] = Head(pushes).ch
        BY <4>1, <4>2 DEF Anchored, OfItsChannel
      <4>4. QED
        BY <2>3, <4>3 DEF PostedTo
    <3>2. QED
      BY <1>6, <2>1, <2>2, <2>3, <3>1 DEF RowsCover
  <2>4. CASE /\ HasRow(model', Head(pushes).row.id)
             /\ \A m \in Nat : Reaches(model, m) => Reaches(model', m)
    <3>1. PostedTo(loaded, sent) \in SUBSET Nat
      BY Posted
    <3>2. Reaches(model', Head(pushes).row.id)
      BY <2>4 DEF Reaches
    <3>3. QED
      BY <1>6, <2>1, <2>2, <2>4, <3>1, <3>2 DEF RowsCover
  <2>5. QED
    BY <1>7, <2>3, <2>4, BroadcastShown
<1>8. CASE OnSetHistory
  <2>1. /\ Receive("CHAT_LOG") /\ loaded = NoChannel
    BY <1>8, NothingAskedBefore DEF OnSetHistory
  <2>2. model' = Head(pushes).rows /\ loaded' = Head(pushes).ch
    BY <1>8, <2>1 DEF OnSetHistory
  <2>3. FirstCovers(Head(pushes), 1, pushes, sent, late)
    BY <1>6, <2>1 DEF FirstPageCovers
  <2>4. QED
    BY <1>6, <2>1, <2>2, <2>3 DEF FirstCovers, RowsCover
<1>9. CASE OnPrependHistory
  <2>1. Receive("CHAT_LOG_MORE") /\ loaded' = loaded
    BY <1>9 DEF OnPrependHistory
  <2>2. RowsCover(loaded, model, pushes, sent, late)
    BY <1>1, <2>1
  <2>3. Head(pushes).ch = loaded
    BY <1>6, <2>1 DEF OfSelected, IsPage
  <2>4. OlderCovers(Head(pushes), model, sent)
    BY <1>0, <1>6, <2>1 DEF OlderPageCovers
  <2>5. /\ model' # <<>>
        /\ Head(pushes).rows # <<>> => model'[1] = Head(pushes).rows[1]
        /\ Head(pushes).rows = <<>> => model' = model
        /\ \A m : HasRow(Head(pushes).rows, m) \/ HasRow(model, m) => HasRow(model', m)
    BY <1>9, <2>3, OlderShown
  <2>6. ASSUME NEW m \in PostedTo(loaded, sent), Reaches(model, m)
        PROVE  Reaches(model', m)
    <3>1. CASE HasRow(model, m)
      BY <2>5, <3>1 DEF Reaches
    <3>2. CASE m < model[1].id
      <4>1. Reaches(Head(pushes).rows, m)
        BY <2>3, <2>4, <2>6, <3>2 DEF OlderCovers
      <4>2. QED
        BY <2>5, <4>1 DEF Reaches
    <3>3. QED
      BY <2>6, <3>1, <3>2 DEF Reaches
  <2>7. QED
    BY <1>6, <2>1, <2>2, <2>6 DEF RowsCover
<1>10. QED
  BY <1>3, <1>4, <1>5, <1>7, <1>8, <1>9, StaySteps

LEMMA HolesKept ==
  ASSUME HistoryInv, StampsInv, StayInv, HolesInv, [Next]_vars
  PROVE  HolesInv'
<1> SUFFICES ASSUME switches' = 0, ~misdated'
             PROVE  /\ OfSelected' /\ AskedExactly'
                    /\ FirstPageCovers' /\ OlderPageCovers' /\ ModelCovers'
  BY DEF HolesInv
<1>1. switches = 0 /\ ~misdated
  BY StayedOn
<1>2. /\ ControlStays /\ FirstPage /\ ModelInv /\ OneOlder /\ OlderInv
      /\ OfSelected /\ AskedExactly
      /\ FirstPageCovers /\ OlderPageCovers /\ ModelCovers
  BY <1>1 DEF StayInv, HolesInv
<1>3. OfSelected' /\ AskedExactly'
  BY <1>1, <1>2, OfSelectedKept, AskedExactlyKept
<1>4. FirstPageCovers' /\ OlderPageCovers' /\ ModelCovers'
  BY <1>1, <1>2, FirstPageCoversKept, OlderPageCoversKept, ModelCoversKept
<1>5. QED
  BY <1>3, <1>4

LEMMA InitHoles == Init => HolesInv
<1> SUFFICES ASSUME Init PROVE HolesInv
  OBVIOUS
<1>1. /\ pushes = <<>> /\ model = <<>> /\ pendingHistory = <<>>
      /\ loaded = NoChannel /\ requests = <<Log(selected)>>
  BY DEF Init
<1>2. Len(pushes) = 0 /\ Len(model) = 0 /\ Len(pendingHistory) = 0
  BY <1>1
<1>3. /\ Len(requests) = 1 /\ requests[1].type = "REQ_CHAT_LOG" /\ requests[1].ch = selected
  BY <1>1 DEF Log
<1>4. OfSelected
  BY <1>1, <1>2, <1>3 DEF OfSelected
<1>5. AskedExactly
  BY <1>2, <1>3 DEF AskedExactly
<1>6. QED
  BY <1>1, <1>2, <1>4, <1>5 DEF HolesInv, FirstPageCovers, OlderPageCovers, ModelCovers

\* Scrolling up leaves no hole: every stored message younger than the oldest row is a row,
\* on its way, or was not stored yet when the first page was read - as long as the user
\* stays on one channel, no two messages share a millisecond, the row limit cut nothing
\* off while a page was under way and no page was asked for by a broadcast's stamp.
THEOREM NothingSkipped == Spec => []NoHoles
<1>1. ASSUME HistoryInv, HolesInv PROVE NoHoles
  <2> SUFFICES ASSUME switches = 0, DistinctlyStamped, ~cut, ~misdated, model # <<>>,
                      NEW i \in 1 .. Len(messages), messages[i].ch = loaded,
                      messages[i].id > model[1].id
               PROVE  messages[i].id \in ModelIds \cup Announced \cup late
    BY DEF NoHoles
  <2>1. messages[i].id = i /\ i \in Nat
    BY <1>1, SentTyped DEF HistoryInv
  <2>2. loaded # NoChannel
    <3>1. messages[i] \in Row
      BY <1>1, Members DEF HistoryInv, ServerInv
    <3>2. QED
      BY <3>1, ChatAssumption DEF Row
  <2>3. \/ Reaches(model, i) \/ Awaited(pushes, 0, i) \/ i \in late
        \/ i = lastId /\ posting # NoChannel
    <3>1. /\ Len(sent) = Told /\ Told \in Nat /\ Len(messages) <= lastId
          /\ i <= Told => sent[i] = loaded
      BY <1>1, SentTyped DEF HistoryInv
    <3>2. CASE i <= Told
      <4>1. i \in PostedTo(loaded, sent)
        BY <2>1, <3>1, <3>2 DEF PostedTo
      <4>2. QED
        BY <1>1, <2>2, <4>1 DEF HolesInv, ModelCovers, RowsCover
    <3>3. CASE ~(i <= Told)
      <4>1. lastId \in Nat
        BY <1>1, InvTyped DEF TypeOK
      <4>2. posting # NoChannel /\ i = lastId
        BY <2>1, <3>1, <3>3, <4>1 DEF Told
      <4>3. QED
        BY <4>2
    <3>4. QED
      BY <3>2, <3>3
  <2>4. model[1].id \in Nat
    <3>1. model[1] \in Row
      BY <1>1, Taken DEF HistoryInv, ViewInv
    <3>2. QED
      BY <3>1 DEF Row, Ids
  <2>5. ~(i < model[1].id)
    BY <2>1, <2>4
  <2>6. CASE HasRow(model, i)
    BY <2>1, <2>6 DEF HasRow, ModelIds
  <2>7. CASE Awaited(pushes, 0, i)
    <3>1. PICK j \in 1 .. Len(pushes) : pushes[j].type = "PUSH_CHAT" /\ pushes[j].row.id = i
      BY <2>7 DEF Awaited
    <3>2. i \in Announced
      BY <3>1 DEF Announced
    <3>3. QED
      BY <2>1, <3>2
  <2>8. CASE i = lastId /\ posting # NoChannel
    BY <2>1, <2>8 DEF Announced
  <2>9. QED
    BY <2>1, <2>3, <2>5, <2>6, <2>7, <2>8 DEF Reaches
<1>2. Init => HistoryInv /\ StampsInv /\ StayInv /\ HolesInv
  BY InitHistory, InitStay, InitHoles
<1>3. HistoryInv /\ StampsInv /\ StayInv /\ HolesInv /\ [Next]_vars
        => (HistoryInv /\ StampsInv /\ StayInv /\ HolesInv)'
  BY HistoryKept, StampsKept, StayKept, HolesKept
<1>4. Spec => [](HistoryInv /\ HolesInv)
  BY <1>2, <1>3, PTL DEF Spec
<1>5. QED
  BY <1>1, <1>4, PTL

-----------------------------------------------------------------------------
(* What is still to come.                                                  *)

LastIs(q, type, c) == \A i \in 1 .. Len(q) : IsLast(q, i, type) => q[i].ch = c

LEMMA LastAdded ==
  ASSUME NEW S, NEW q \in Seq(S), NEW x \in S, NEW type, NEW c
  PROVE  /\ x.type # type /\ LastIs(q, type, c) => LastIs(Append(q, x), type, c)
         /\ x.ch = c => LastIs(Append(q, x), type, c) \/ x.type # type
         /\ NoneOf(q, type) => LastIs(q, type, c)
<1> DEFINE longer == Append(q, x)
<1>1. /\ Len(q) \in Nat /\ Len(longer) = Len(q) + 1
      /\ \A i \in 1 .. Len(q) : longer[i] = q[i]
      /\ longer[Len(q) + 1] = x
      /\ \A i \in 1 .. Len(longer) : i \in 1 .. Len(q) \/ i = Len(q) + 1
  BY Added
<1> HIDE DEF longer
<1>2. ASSUME x.type # type, LastIs(q, type, c), NEW i \in 1 .. Len(longer), IsLast(longer, i, type)
      PROVE  longer[i].ch = c
  <2>1. i \in 1 .. Len(q) /\ longer[i] = q[i] /\ q[i].type = type
    BY <1>1, <1>2 DEF IsLast
  <2>2. \A j \in i + 1 .. Len(q) : j \in i + 1 .. Len(longer) /\ longer[j] = q[j]
    BY <1>1, <2>1
  <2>3. IsLast(q, i, type)
    BY <1>2, <2>1, <2>2 DEF IsLast
  <2>4. QED
    BY <1>2, <2>1, <2>3 DEF LastIs
<1>3. ASSUME x.ch = c, x.type = type, NEW i \in 1 .. Len(longer), IsLast(longer, i, type)
      PROVE  longer[i].ch = c
  <2>1. i \in 1 .. Len(q) => Len(q) + 1 \in i + 1 .. Len(longer)
    BY <1>1
  <2>2. i = Len(q) + 1
    BY <1>1, <1>3, <2>1 DEF IsLast
  <2>3. QED
    BY <1>1, <1>3, <2>2
<1>4. NoneOf(q, type) => LastIs(q, type, c)
  BY DEF NoneOf, LastIs, IsLast
<1>5. QED
  BY <1>2, <1>3, <1>4 DEF LastIs, longer

LEMMA LastTaken ==
  ASSUME NEW S, NEW q \in Seq(S), q # <<>>, NEW type, NEW c, LastIs(q, type, c)
  PROVE  /\ LastIs(Tail(q), type, c)
         /\ Head(q).type = type /\ NoneOf(Tail(q), type) => Head(q).ch = c
<1>1. /\ Head(q) = q[1] /\ 1 \in 1 .. Len(q)
      /\ Len(q) \in Nat /\ Len(Tail(q)) \in Nat /\ Len(Tail(q)) = Len(q) - 1
      /\ \A i \in 1 .. Len(Tail(q)) : Tail(q)[i] = q[i + 1] /\ i + 1 \in 1 .. Len(q)
  BY Taken
<1> DEFINE rest == Tail(q)
<1> HIDE DEF rest
<1>2. ASSUME NEW i \in 1 .. Len(rest), IsLast(rest, i, type)
      PROVE  rest[i].ch = c
  <2>1. i + 1 \in 1 .. Len(q) /\ rest[i] = q[i + 1]
    BY <1>1, <1>2 DEF rest
  <2>2. ASSUME NEW j \in (i + 1) + 1 .. Len(q)
        PROVE  q[j].type # type
    <3>1. j - 1 \in i + 1 .. Len(rest) /\ j - 1 \in 1 .. Len(rest) /\ (j - 1) + 1 = j
      BY <1>1, <1>2, <2>2 DEF rest
    <3>2. rest[j - 1] = q[j]
      BY <1>1, <3>1 DEF rest
    <3>3. QED
      BY <1>2, <3>1, <3>2 DEF IsLast
  <2>3. IsLast(q, i + 1, type)
    BY <1>2, <2>1, <2>2 DEF IsLast
  <2>4. QED
    BY <2>1, <2>3 DEF LastIs
<1>3. ASSUME Head(q).type = type, NoneOf(rest, type)
      PROVE  Head(q).ch = c
  <2>1. ASSUME NEW j \in 1 + 1 .. Len(q)
        PROVE  q[j].type # type
    <3>1. j - 1 \in 1 .. Len(rest) /\ (j - 1) + 1 = j
      BY <1>1, <2>1 DEF rest
    <3>2. rest[j - 1] = q[j]
      BY <1>1, <3>1 DEF rest
    <3>3. QED
      BY <1>3, <3>1, <3>2 DEF NoneOf
  <2>2. IsLast(q, 1, type)
    BY <1>1, <1>3, <2>1 DEF IsLast
  <2>3. QED
    BY <1>1, <2>2 DEF LastIs
<1>4. QED
  BY <1>2, <1>3 DEF LastIs, rest

\* What a step does to the two wires.
LEMMA WireSteps ==
  ASSUME HistoryInv, StampsInv, [Next]_vars
  PROVE  \/ UNCHANGED <<requests, pushes, current>>
         \/ (\E type : Receive(type)) /\ UNCHANGED <<requests, current>>
         \/ WakeTextChannel
         \/ /\ \E r \in Request : r.type # "REQ_CHAT_LOG" /\ requests' = Append(requests, r)
            /\ UNCHANGED <<pushes, current>>
         \/ /\ \E p \in Push : p.type = "PUSH_CHAT" /\ pushes' = Append(pushes, p)
            /\ UNCHANGED <<requests, current>>
         \/ Handle("CHAT") /\ UNCHANGED <<pushes, current>>
         \/ HandleLog \/ HandleBefore
<1>0. /\ requests \in Seq(Request) /\ control.ch \in TextChannels
      /\ pendingMessages \in Seq(TextChannels)
      /\ pendingHistory \in Seq([ch : TextChannels, before : Stamps])
  BY DEF HistoryInv, RequestsInv
<1>1. ASSUME WakeMessage
      PROVE  \/ UNCHANGED <<requests, pushes, current>>
             \/ /\ \E r \in Request : r.type # "REQ_CHAT_LOG" /\ requests' = Append(requests, r)
                /\ UNCHANGED <<pushes, current>>
  <2>1. CASE pendingMessages # <<>>
    <3> DEFINE r == Chat(control.ch, Head(pendingMessages))
    <3>1. Head(pendingMessages) \in TextChannels
      BY <1>0, <2>1, Taken
    <3>2. r \in Request /\ r.type # "REQ_CHAT_LOG"
      BY <1>0, <3>1 DEF Chat, Request
    <3>3. requests' = Append(requests, r) /\ UNCHANGED <<pushes, current>>
      BY <1>1, <2>1 DEF WakeMessage
    <3> HIDE DEF r
    <3>4. QED
      BY <3>2, <3>3
  <2>2. CASE pendingMessages = <<>>
    BY <1>1, <2>2 DEF WakeMessage
  <2>3. QED
    BY <2>1, <2>2
<1>2. ASSUME WakeHistory
      PROVE  \/ UNCHANGED <<requests, pushes, current>>
             \/ /\ \E r \in Request : r.type # "REQ_CHAT_LOG" /\ requests' = Append(requests, r)
                /\ UNCHANGED <<pushes, current>>
  <2>1. CASE pendingHistory # <<>>
    <3> DEFINE r == Before(Head(pendingHistory).ch, Head(pendingHistory).before)
    <3>1. Head(pendingHistory) \in [ch : TextChannels, before : Stamps]
      BY <1>0, <2>1, Taken
    <3>2. r \in Request /\ r.type # "REQ_CHAT_LOG"
      BY <3>1 DEF Before, Request
    <3>3. requests' = Append(requests, r) /\ UNCHANGED <<pushes, current>>
      BY <1>2, <2>1 DEF WakeHistory
    <3> HIDE DEF r
    <3>4. QED
      BY <3>2, <3>3
  <2>2. CASE pendingHistory = <<>>
    BY <1>2, <2>2 DEF WakeHistory
  <2>3. QED
    BY <2>1, <2>2
<1>3. ASSUME NEW c \in TextChannels, Broadcast(c)
      PROVE  /\ \E p \in Push : p.type = "PUSH_CHAT" /\ pushes' = Append(pushes, p)
             /\ UNCHANGED <<requests, current>>
  BY <1>3, Answered DEF Broadcast, controlVars
<1>4. HandleChat => Handle("CHAT") /\ UNCHANGED <<pushes, current>>
  BY DEF HandleChat, PostChat, controlVars
<1>5. ASSUME NEW c \in TextChannels, OtherChat(c)
      PROVE  UNCHANGED <<requests, pushes, current>>
  BY <1>5 DEF OtherChat, PostChat, controlVars
<1>6. (\E c \in TextChannels : Select(c)) \/ Type \/ RequestOlder \/ StoreMessage \/ Tick \/ UNCHANGED vars
        => UNCHANGED <<requests, pushes, current>>
  BY DEF Select, Type, RequestOlder, StoreMessage, Tick, vars, controlVars
<1>7. OnAppendMessage \/ OnSetHistory \/ OnPrependHistory
        => (\E type : Receive(type)) /\ UNCHANGED <<requests, current>>
  BY DEF OnAppendMessage, OnSetHistory, OnPrependHistory, Receive, controlVars
<1>8. QED
  BY <1>1, <1>2, <1>3, <1>4, <1>5, <1>6, <1>7, Zenon DEF Next, UserNext, SystemNext

LEMMA LastPageKept ==
  ASSUME HistoryInv, StampsInv, LastPageIsCurrent, [Next]_vars
  PROVE  LastPageIsCurrent'
<1> DEFINE asked == LastIs(requests, "REQ_CHAT_LOG", current)
           answered == LastIs(pushes, "CHAT_LOG", current)
           none == NoneOf(requests, "REQ_CHAT_LOG")
<1>0. /\ requests \in Seq(Request) /\ pushes \in Seq(Push)
      /\ current \in TextChannels /\ selected \in TextChannels
  BY DEF HistoryInv, RequestsInv, PushesInv, ViewInv
<1>1. asked /\ (none => answered)
  BY DEF LastPageIsCurrent, LastIs, NoneOf
<1> SUFFICES asked' /\ (none' => answered')
  BY DEF LastPageIsCurrent, LastIs, NoneOf
<1>2. ASSUME NEW type, Handle(type), current' = current
      PROVE  /\ asked'
             /\ type # "REQ_CHAT_LOG" => (none' => none)
             /\ type = "REQ_CHAT_LOG" /\ none' => Head(requests).ch = current
  <2>1. requests # <<>> /\ Head(requests).type = type /\ requests' = Tail(requests)
    BY <1>2 DEF Handle
  <2>2. /\ LastIs(Tail(requests), "REQ_CHAT_LOG", current)
        /\ Head(requests).type = "REQ_CHAT_LOG" /\ NoneOf(Tail(requests), "REQ_CHAT_LOG")
             => Head(requests).ch = current
    BY <1>0, <1>1, <2>1, LastTaken
  <2>3. Head(requests).type # "REQ_CHAT_LOG" /\ NoneOf(Tail(requests), "REQ_CHAT_LOG") => none
    BY <1>0, <2>1, KindsTaken
  <2>4. QED
    BY <1>2, <2>1, <2>2, <2>3
<1>3. CASE UNCHANGED <<requests, pushes, current>>
  BY <1>1, <1>3
<1>4. CASE (\E type : Receive(type)) /\ UNCHANGED <<requests, current>>
  <2>1. pushes # <<>> /\ pushes' = Tail(pushes)
    BY <1>4 DEF Receive
  <2>2. answered => LastIs(Tail(pushes), "CHAT_LOG", current)
    BY <1>0, <2>1, LastTaken
  <2>3. QED
    BY <1>1, <1>4, <2>1, <2>2
<1>5. CASE WakeTextChannel
  <2>1. /\ current' = selected /\ pushes' = pushes
        /\ requests' = IF selected # current THEN Append(requests, Log(selected)) ELSE requests
    BY <1>5 DEF WakeTextChannel
  <2>2. CASE selected = current
    BY <1>1, <2>1, <2>2
  <2>3. CASE selected # current
    <3> DEFINE r == Log(selected)
    <3>1. r \in Request /\ r.type = "REQ_CHAT_LOG" /\ r.ch = selected
      BY <1>0 DEF Log, Request
    <3>2. requests' = Append(requests, r)
      BY <2>1, <2>3
    <3> HIDE DEF r
    <3>3. LastIs(Append(requests, r), "REQ_CHAT_LOG", selected)
      BY <1>0, <3>1, LastAdded
    <3>4. ~NoneOf(Append(requests, r), "REQ_CHAT_LOG")
      BY <1>0, <3>1, KindsAdded
    <3>5. QED
      BY <2>1, <3>2, <3>3, <3>4
  <2>4. QED
    BY <2>2, <2>3
<1>6. CASE /\ \E r \in Request : r.type # "REQ_CHAT_LOG" /\ requests' = Append(requests, r)
           /\ UNCHANGED <<pushes, current>>
  <2>1. PICK r \in Request : r.type # "REQ_CHAT_LOG" /\ requests' = Append(requests, r)
    BY <1>6
  <2>2. LastIs(Append(requests, r), "REQ_CHAT_LOG", current)
    BY <1>0, <1>1, <2>1, LastAdded
  <2>3. NoneOf(Append(requests, r), "REQ_CHAT_LOG") => none
    BY <1>0, <2>1, KindsAdded
  <2>4. QED
    BY <1>1, <1>6, <2>1, <2>2, <2>3
<1>7. CASE /\ \E p \in Push : p.type = "PUSH_CHAT" /\ pushes' = Append(pushes, p)
           /\ UNCHANGED <<requests, current>>
  <2>1. PICK p \in Push : p.type = "PUSH_CHAT" /\ pushes' = Append(pushes, p)
    BY <1>7
  <2>2. answered => LastIs(Append(pushes, p), "CHAT_LOG", current)
    BY <1>0, <2>1, LastAdded
  <2>3. QED
    BY <1>1, <1>7, <2>1, <2>2
<1>8. CASE HandleLog
  <2>1. Handle("REQ_CHAT_LOG") /\ current' = current
    BY <1>8 DEF HandleLog, controlVars
  <2>2. asked' /\ (none' => Head(requests).ch = current)
    BY <1>2, <2>1
  <2>3. PICK p \in Push : p.type = "CHAT_LOG" /\ pushes' = Append(pushes, p) /\ p.ch = Head(requests).ch
    BY <1>8, Answered
  <2>4. p.ch = current => LastIs(Append(pushes, p), "CHAT_LOG", current)
    BY <1>0, <2>3, LastAdded
  <2>5. QED
    BY <2>1, <2>2, <2>3, <2>4
<1>9. CASE HandleBefore
  <2>1. Handle("REQ_CHAT_LOG_BEFORE") /\ current' = current
    BY <1>9 DEF HandleBefore, controlVars
  <2>2. asked' /\ (none' => none)
    BY <1>2, <2>1
  <2>3. PICK p \in Push : p.type = "CHAT_LOG_MORE" /\ pushes' = Append(pushes, p)
    BY <1>9, Answered
  <2>4. answered => LastIs(Append(pushes, p), "CHAT_LOG", current)
    BY <1>0, <2>3, LastAdded
  <2>5. QED
    BY <1>1, <2>1, <2>2, <2>3, <2>4
<1>10. CASE Handle("CHAT") /\ UNCHANGED <<pushes, current>>
  BY <1>1, <1>2, <1>10
<1>11. QED
  BY <1>3, <1>4, <1>5, <1>6, <1>7, <1>8, <1>9, <1>10, WireSteps

LEMMA InitLastPage == Init => LastPageIsCurrent
<1> SUFFICES ASSUME Init PROVE LastPageIsCurrent
  OBVIOUS
<1>1. requests = <<Log(selected)>> /\ pushes = <<>> /\ current = selected
  BY DEF Init
<1>2. Len(requests) = 1 /\ requests[1] = Log(selected) /\ Len(pushes) = 0
  BY <1>1
<1>3. \A i \in 1 .. Len(requests) : requests[i].ch = current
  BY <1>1, <1>2 DEF Log
<1>4. QED
  BY <1>2, <1>3 DEF LastPageIsCurrent

LEMMA LastPageAlways == Spec => [](HistoryInv /\ StampsInv /\ LastPageIsCurrent)
<1>1. Init => LastPageIsCurrent
  BY InitLastPage
<1>2. HistoryInv /\ StampsInv /\ LastPageIsCurrent /\ [Next]_vars => LastPageIsCurrent'
  BY LastPageKept
<1>3. QED
  BY <1>1, <1>2, StayAlways, PTL DEF Spec

\* However fast the user switches, the page that comes last is of the channel the
\* control loop last saw (Application.cpp:933): no answer that is still under way
\* takes that channel's page away for good.
THEOREM PagesComeInOrder == Spec => []LastPageIsCurrent
BY LastPageAlways, PTL

LogUnderWay == ~NoneOf(requests, "REQ_CHAT_LOG") \/ ~NoneOf(pushes, "CHAT_LOG")

\* Once the control loop has seen the selected channel, a page of it was shown since
\* it was selected, or its page is under way.
PageComes == selected = current => paged \/ LogUnderWay

\* The user selects no channel before the control loop has seen the one before.
Unhurried == (\E c \in TextChannels : Select(c)) => selected = current

LEMMA LogStays ==
  ASSUME HistoryInv, StampsInv, LastPageIsCurrent, LogUnderWay, [Next]_vars, selected' = current'
  PROVE  paged' \/ LogUnderWay'
<1> DEFINE asked == ~NoneOf(requests, "REQ_CHAT_LOG")
           answered == ~NoneOf(pushes, "CHAT_LOG")
<1>0. requests \in Seq(Request) /\ pushes \in Seq(Push)
  BY DEF HistoryInv, RequestsInv, PushesInv
<1>1. asked \/ answered
  BY DEF LogUnderWay
<1> SUFFICES paged' \/ asked' \/ answered'
  BY DEF LogUnderWay
<1>2. ASSUME NEW p \in Push, pushes' = Append(pushes, p), answered
      PROVE  answered'
  BY <1>0, <1>2, KindsAdded
<1>3. ASSUME NEW type, type # "REQ_CHAT_LOG", Handle(type), asked
      PROVE  asked'
  <2>1. requests # <<>> /\ Head(requests).type # "REQ_CHAT_LOG" /\ requests' = Tail(requests)
    BY <1>3 DEF Handle
  <2>2. QED
    BY <1>0, <1>3, <2>1, KindsTaken
<1>4. CASE UNCHANGED <<requests, pushes, current>>
  BY <1>1, <1>4
<1>5. CASE (\E type : Receive(type)) /\ UNCHANGED <<requests, current>>
  <2>1. pushes # <<>> /\ pushes' = Tail(pushes) /\ selected' = selected
    BY <1>5 DEF Receive
  <2>2. CASE asked
    BY <1>5, <2>2
  <2>3. CASE ~asked /\ Head(pushes).type # "CHAT_LOG"
    <3>1. NoneOf(Tail(pushes), "CHAT_LOG") => ~answered
      BY <1>0, <2>1, <2>3, KindsTaken
    <3>2. QED
      BY <1>1, <2>1, <2>3, <3>1
  <2>4. CASE ~asked /\ Head(pushes).type = "CHAT_LOG"
    <3>1. LastIs(pushes, "CHAT_LOG", current)
      BY <2>4 DEF LastPageIsCurrent, LastIs, NoneOf
    <3>2. NoneOf(Tail(pushes), "CHAT_LOG") => Head(pushes).ch = current
      BY <1>0, <2>1, <2>4, <3>1, LastTaken
    <3>3. Head(pushes).ch = selected => paged'
      <4>1. pushes' # pushes
        BY <1>0, <2>1, Taken
      <4>2. ~OnAppendMessage /\ ~OnPrependHistory
        BY <2>4 DEF OnAppendMessage, OnPrependHistory, Receive
      <4>3. ~HandleChat /\ ~HandleLog /\ ~HandleBefore
        <5>1. Handle("CHAT") \/ Handle("REQ_CHAT_LOG") \/ Handle("REQ_CHAT_LOG_BEFORE") => requests' # requests
          BY <1>0, Taken DEF Handle
        <5>2. QED
          BY <1>5, <5>1 DEF HandleChat, HandleLog, HandleBefore
      <4>4. \A c \in TextChannels : ~OtherChat(c) /\ ~Broadcast(c)
        <5>1. ASSUME NEW c \in TextChannels, Broadcast(c) PROVE Len(pushes') = Len(pushes) + 1
          BY <1>0, <5>1, Added, Answered
        <5>2. Len(pushes') # Len(pushes) + 1
          BY <1>0, <2>1, Taken
        <5>3. QED
          BY <4>1, <5>1, <5>2 DEF OtherChat, PostChat
      <4>5. OnSetHistory
        BY <4>1, <4>2, <4>3, <4>4 DEF Next, UserNext, SystemNext, vars, Select, Type,
           RequestOlder, WakeTextChannel, WakeMessage, WakeHistory, StoreMessage, Tick
      <4>6. QED
        BY <4>5 DEF OnSetHistory
    <3>4. QED
      BY <1>5, <2>1, <3>2, <3>3
  <2>5. QED
    BY <2>2, <2>3, <2>4
<1>6. CASE WakeTextChannel
  <2>1. /\ pushes' = pushes
        /\ requests' = requests \/ requests' = Append(requests, Log(selected))
    BY <1>6 DEF WakeTextChannel
  <2>2. Log(selected) \in Request /\ Log(selected).type = "REQ_CHAT_LOG"
    BY DEF HistoryInv, ViewInv, Log, Request
  <2>3. requests' = Append(requests, Log(selected)) => asked'
    BY <1>0, <2>2, KindsAdded
  <2>4. QED
    BY <1>1, <2>1, <2>3
<1>7. CASE /\ \E r \in Request : r.type # "REQ_CHAT_LOG" /\ requests' = Append(requests, r)
           /\ UNCHANGED <<pushes, current>>
  BY <1>0, <1>1, <1>7, KindsAdded
<1>8. CASE /\ \E p \in Push : p.type = "PUSH_CHAT" /\ pushes' = Append(pushes, p)
           /\ UNCHANGED <<requests, current>>
  BY <1>1, <1>2, <1>8
<1>9. CASE HandleLog
  <2>1. PICK p \in Push : p.type = "CHAT_LOG" /\ pushes' = Append(pushes, p)
    BY <1>9, Answered
  <2>2. QED
    BY <1>0, <2>1, KindsAdded
<1>10. CASE HandleBefore
  <2>1. Handle("REQ_CHAT_LOG_BEFORE")
    BY <1>10 DEF HandleBefore
  <2>2. PICK p \in Push : pushes' = Append(pushes, p)
    BY <1>10, Answered
  <2>3. QED
    BY <1>1, <1>2, <1>3, <2>1, <2>2
<1>11. CASE Handle("CHAT") /\ UNCHANGED <<pushes, current>>
  BY <1>1, <1>3, <1>11
<1>12. QED
  BY <1>4, <1>5, <1>6, <1>7, <1>8, <1>9, <1>10, <1>11, WireSteps

LEMMA PageComesKept ==
  ASSUME HistoryInv, StampsInv, LastPageIsCurrent, PageComes, [Next]_vars, [Unhurried]_vars
  PROVE  PageComes'
<1>0. requests \in Seq(Request) /\ selected \in TextChannels
  BY DEF HistoryInv, RequestsInv, ViewInv
<1> SUFFICES ASSUME selected' = current'
             PROVE  paged' \/ LogUnderWay'
  BY DEF PageComes
<1>1. CASE LogUnderWay
  BY <1>1, LogStays
<1>2. CASE ~LogUnderWay
  <2>1. CASE \E c \in TextChannels : Select(c)
    <3>1. PICK c \in TextChannels : Select(c)
      BY <2>1
    <3>2. selected' = c /\ c # selected /\ current' = current
      BY <3>1 DEF Select, controlVars
    <3>3. Unhurried \/ UNCHANGED vars
      OBVIOUS
    <3>4. selected = current
      BY <2>1, <3>2, <3>3 DEF Unhurried, vars, view
    <3>5. QED
      BY <3>2, <3>4
  <2>2. CASE WakeTextChannel /\ selected # current
    <3>1. requests' = Append(requests, Log(selected))
      BY <2>2 DEF WakeTextChannel
    <3>2. Log(selected) \in Request /\ Log(selected).type = "REQ_CHAT_LOG"
      BY <1>0 DEF Log, Request
    <3>3. ~NoneOf(requests', "REQ_CHAT_LOG")
      BY <1>0, <3>1, <3>2, KindsAdded
    <3>4. QED
      BY <3>3 DEF LogUnderWay
  <2>3. CASE OnSetHistory
    <3>1. pushes # <<>> /\ Head(pushes).type = "CHAT_LOG"
      BY <2>3 DEF OnSetHistory, Receive
    <3>2. Head(pushes) = pushes[1] /\ 1 \in 1 .. Len(pushes)
      BY <3>1, Taken DEF HistoryInv, PushesInv
    <3>3. QED
      BY <1>2, <3>1, <3>2 DEF LogUnderWay, NoneOf
  <2>4. CASE UNCHANGED <<selected, current, paged>>
    BY <1>2, <2>4 DEF PageComes
  <2>5. UserNext \/ Tick \/ UNCHANGED vars
          => (\E c \in TextChannels : Select(c)) \/ UNCHANGED <<selected, current, paged>>
    BY DEF UserNext, Type, RequestOlder, Tick, vars, view, controlVars
  <2>6. ASSUME SystemNext, ~OnSetHistory, ~WakeTextChannel
        PROVE  UNCHANGED <<selected, current, paged>>
    BY <2>6 DEF SystemNext, OnAppendMessage, OnPrependHistory, Receive, WakeMessage,
       WakeHistory, HandleChat, HandleLog, HandleBefore, PostChat, Broadcast, StoreMessage, view,
       controlVars
  <2>7. WakeTextChannel /\ selected = current => UNCHANGED <<selected, current, paged>>
    BY DEF WakeTextChannel, view
  <2>8. (\E c \in TextChannels : OtherChat(c)) => UNCHANGED <<selected, current, paged>>
    BY DEF OtherChat, PostChat, view, controlVars
  <2>9. QED
    BY <2>1, <2>2, <2>3, <2>4, <2>5, <2>6, <2>7, <2>8 DEF Next
<1>3. QED
  BY <1>1, <1>2

\* "The fresh page arrives via REQ_CHAT_LOG (sent by the control loop on the channel
\* change)" (DiscordBackend.cpp:423-424) is true of a user who does not select a
\* channel before the control loop has seen the one before: once the loop has seen the
\* selected channel, its page was shown since or is under way, whatever comes late.
THEOREM UnhurriedPageComes == Spec /\ [][Unhurried]_vars => []PageComes
<1>1. Init => PageComes
  <2> SUFFICES ASSUME Init PROVE PageComes
    OBVIOUS
  <2>1. requests = <<Log(selected)>>
    BY DEF Init
  <2>2. Len(requests) = 1 /\ requests[1].type = "REQ_CHAT_LOG"
    BY <2>1 DEF Log
  <2>3. QED
    BY <2>2 DEF PageComes, LogUnderWay, NoneOf
<1>2. HistoryInv /\ StampsInv /\ LastPageIsCurrent /\ PageComes /\ [Next]_vars /\ [Unhurried]_vars
        => PageComes'
  BY PageComesKept
<1>3. QED
  BY <1>1, <1>2, LastPageAlways, PTL DEF Spec

-----------------------------------------------------------------------------
(* The spinner.                                                            *)

OlderUnderWay ==
    \/ pendingHistory # <<>>
    \/ ~NoneOf(requests, "REQ_CHAT_LOG_BEFORE")
    \/ ~NoneOf(pushes, "CHAT_LOG_MORE")

SpinnerHasReason == inFlight => OlderUnderWay

LEMMA SpinnerKept ==
  ASSUME HistoryInv, StampsInv, SpinnerHasReason, [Next]_vars
  PROVE  SpinnerHasReason'
<1> DEFINE queued == pendingHistory # <<>>
           asked == ~NoneOf(requests, "REQ_CHAT_LOG_BEFORE")
           answered == ~NoneOf(pushes, "CHAT_LOG_MORE")
<1>0. /\ requests \in Seq(Request) /\ pushes \in Seq(Push)
      /\ pendingHistory \in Seq([ch : TextChannels, before : Stamps])
      /\ pendingMessages \in Seq(TextChannels)
      /\ selected \in TextChannels /\ control.ch \in TextChannels /\ model \in Seq(Row)
  BY DEF HistoryInv, RequestsInv, PushesInv, ViewInv
<1> SUFFICES ASSUME inFlight'
             PROVE  queued' \/ asked' \/ answered'
  BY DEF SpinnerHasReason, OlderUnderWay
<1>1. inFlight => queued \/ asked \/ answered
  BY DEF SpinnerHasReason, OlderUnderWay
<1>2. ASSUME NEW r \in Request, requests' = Append(requests, r), asked
      PROVE  asked'
  BY <1>0, <1>2, KindsAdded
<1>3. ASSUME NEW p \in Push, pushes' = Append(pushes, p), answered
      PROVE  answered'
  BY <1>0, <1>3, KindsAdded
<1>4. ASSUME NEW type, type # "REQ_CHAT_LOG_BEFORE", Handle(type), asked
      PROVE  asked'
  <2>1. requests # <<>> /\ Head(requests).type # "REQ_CHAT_LOG_BEFORE" /\ requests' = Tail(requests)
    BY <1>4 DEF Handle
  <2>2. QED
    BY <1>0, <1>4, <2>1, KindsTaken
<1>5. CASE RequestOlder
  <2>1. model # <<>>
        /\ pendingHistory' = Append(pendingHistory, [ch |-> selected, before |-> model[1].ts])
    BY <1>5 DEF RequestOlder
  <2>2. model[1] \in Row
    BY <1>0, <2>1, Taken
  <2>3. [ch |-> selected, before |-> model[1].ts] \in [ch : TextChannels, before : Stamps]
    BY <1>0, <2>2 DEF Row
  <2>4. Len(pendingHistory') # 0
    BY <1>0, <2>1, <2>3, Added
  <2>5. Len(<<>>) = 0
    OBVIOUS
  <2>6. QED
    BY <2>4, <2>5, Zenon
<1>6. CASE OnAppendMessage \/ OnSetHistory
  <2>1. PICK type \in {"PUSH_CHAT", "CHAT_LOG"} : Receive(type)
    BY <1>6 DEF OnAppendMessage, OnSetHistory
  <2>2. /\ pushes # <<>> /\ Head(pushes).type # "CHAT_LOG_MORE" /\ pushes' = Tail(pushes)
        /\ UNCHANGED <<requests, pendingHistory, inFlight>>
    BY <1>6, <2>1 DEF Receive, OnAppendMessage, OnSetHistory, queues
  <2>3. answered => answered'
    BY <1>0, <2>2, KindsTaken
  <2>4. QED
    BY <1>1, <2>2, <2>3
<1>7. CASE OnPrependHistory
  BY <1>7 DEF OnPrependHistory
<1>8. CASE WakeTextChannel
  <2>1. /\ UNCHANGED <<pushes, pendingHistory, inFlight>>
        /\ requests' = requests \/ requests' = Append(requests, Log(selected))
    BY <1>8 DEF WakeTextChannel, view, queues
  <2>2. Log(selected) \in Request
    BY <1>0 DEF Log, Request
  <2>3. QED
    BY <1>1, <1>2, <2>1, <2>2
<1>9. CASE WakeMessage
  <2>1. /\ UNCHANGED <<pushes, pendingHistory, inFlight>>
        /\ \/ requests' = requests
           \/ pendingMessages # <<>> /\ requests' = Append(requests, Chat(control.ch, Head(pendingMessages)))
    BY <1>9 DEF WakeMessage, view
  <2>2. pendingMessages # <<>> => Chat(control.ch, Head(pendingMessages)) \in Request
    BY <1>0, Taken DEF Chat, Request
  <2>3. QED
    BY <1>1, <1>2, <2>1, <2>2
<1>10. CASE WakeHistory
  <2>1. CASE pendingHistory = <<>>
    BY <1>1, <1>10, <2>1 DEF WakeHistory, view
  <2>2. CASE pendingHistory # <<>>
    <3> DEFINE r == Before(Head(pendingHistory).ch, Head(pendingHistory).before)
    <3>1. Head(pendingHistory) \in [ch : TextChannels, before : Stamps]
      BY <1>0, <2>2, Taken
    <3>2. r \in Request /\ r.type = "REQ_CHAT_LOG_BEFORE"
      BY <3>1 DEF Before, Request
    <3>3. requests' = Append(requests, r)
      BY <1>10, <2>2 DEF WakeHistory
    <3> HIDE DEF r
    <3>4. QED
      BY <1>0, <3>2, <3>3, KindsAdded
  <2>3. QED
    BY <2>1, <2>2
<1>11. CASE \E c \in TextChannels : Broadcast(c)
  <2>1. PICK p \in Push : pushes' = Append(pushes, p)
    BY <1>11, Answered
  <2>2. UNCHANGED <<inFlight, pendingHistory, requests>>
    BY <1>11 DEF Broadcast, view, queues
  <2>3. QED
    BY <1>1, <1>3, <2>1, <2>2
<1>12. CASE HandleChat
  <2>1. Handle("CHAT") /\ UNCHANGED <<inFlight, pendingHistory, pushes>>
    BY <1>12 DEF HandleChat, PostChat, view, queues
  <2>2. QED
    BY <1>1, <1>4, <2>1
<1>13. CASE HandleLog
  <2>1. Handle("REQ_CHAT_LOG") /\ UNCHANGED <<inFlight, pendingHistory>>
    BY <1>13 DEF HandleLog, view, queues
  <2>2. PICK p \in Push : pushes' = Append(pushes, p)
    BY <1>13, Answered
  <2>3. QED
    BY <1>1, <1>3, <1>4, <2>1, <2>2
<1>14. CASE HandleBefore
  <2>1. PICK p \in Push : p.type = "CHAT_LOG_MORE" /\ pushes' = Append(pushes, p)
    BY <1>14, Answered
  <2>2. QED
    BY <1>0, <2>1, KindsAdded
<1>15. (\E c \in TextChannels : OtherChat(c)) => UNCHANGED <<inFlight, requests, pushes, pendingHistory>>
  BY DEF OtherChat, PostChat, view, queues
<1>16. ASSUME NEW c \in TextChannels, Select(c)
       PROVE  inFlight /\ UNCHANGED <<requests, pushes, pendingHistory>>
  BY <1>16 DEF Select, queues
<1>17. Type \/ StoreMessage \/ Tick \/ UNCHANGED vars
         => UNCHANGED <<inFlight, requests, pushes, pendingHistory>>
  BY DEF Type, StoreMessage, Tick, vars, view, queues
<1>18. QED
  BY <1>1, <1>5, <1>6, <1>7, <1>8, <1>9, <1>10, <1>11, <1>12, <1>13, <1>14, <1>15, <1>16, <1>17
     DEF Next, UserNext, SystemNext

\* Only an answer (DiscordBackend.cpp:853) or a switch of channels ends a page, so as
\* long as the spinner turns an older page is queued, asked for or on its way, however
\* the user switches and whichever answer comes first.
THEOREM SpinnerStops == Spec => []SpinnerHasReason
<1>1. Init => SpinnerHasReason
  BY DEF Init, SpinnerHasReason
<1>2. HistoryInv /\ StampsInv /\ SpinnerHasReason /\ [Next]_vars => SpinnerHasReason'
  BY SpinnerKept
<1>3. QED
  BY <1>1, <1>2, StayAlways, PTL DEF Spec
=============================================================================
