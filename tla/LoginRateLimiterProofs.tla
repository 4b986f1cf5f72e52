------------------------ MODULE LoginRateLimiterProofs ------------------------
(***************************************************************************)
(* For every set of addresses and accounts and every choice of the limits: *)
(* no lockout exceeds the cap, none is cut short within its window, each   *)
(* is sat out before the next failure counts, so that few failures fit in  *)
(* a window, and no address creates more accounts in one than its budget.  *)
(***************************************************************************)
EXTENDS LoginRateLimiter, FiniteSetTheorems, TLAPS

\* A lockout is a number of seconds up to the cap.
LEMMA LockoutBound ==
    ASSUME NEW f \in Nat, f > MaxFailures
    PROVE  Lockout(f) \in Nat /\ Lockout(f) <= MaxLockout
<1> DEFINE over == f - MaxFailures - 1
           doublings == IF over < MaxDoublings THEN over ELSE MaxDoublings
<1>1. doublings \in 0 .. MaxDoublings
  BY LimiterAssumption
<1>2. 2 ^ doublings \in Nat
  BY <1>1, DoublingAssumption
<1> HIDE DEF doublings
<1>3. Lockout(f) = IF 2 ^ doublings < MaxLockout THEN 2 ^ doublings ELSE MaxLockout
  BY DEF Lockout, doublings
<1> DEFINE p == 2 ^ doublings
<1>4. p \in Nat
  BY <1>2
<1> HIDE DEF p
<1>5. Lockout(f) = IF p < MaxLockout THEN p ELSE MaxLockout
  BY <1>3 DEF p
<1> QED
  BY <1>4, <1>5, LimiterAssumption

\* What a sweep leaves of a record: all of it or nothing.
LEMMA SweptFacts ==
    ASSUME RecordsTyped, NEW k \in Keys
    PROVE  /\ SweptRecords[k] \in Record \cup {NoRecord}
           /\ SweptRecords[k] # NoRecord => SweptRecords[k] = records[k]
           /\ records[k] # NoRecord /\ ~WindowExpired(records[k])
                => SweptRecords[k] = records[k]
  BY DEF RecordsTyped, SweptRecords

\* Asking about a key keeps its record a record, and lengthens no lockout.
LEMMA AskedFacts ==
    ASSUME RecordsTyped, NEW k \in Keys, NEW asked
    PROVE  /\ Asked(asked)[k] \in Record \cup {NoRecord}
           /\ Asked(asked)[k] # NoRecord
                => /\ records[k] # NoRecord
                   /\ Asked(asked)[k].until <= records[k].until
           /\ k \in asked /\ ~Locked(k) /\ Asked(asked)[k] # NoRecord
                => Asked(asked)[k].until <= now
           /\ records[k] # NoRecord /\ ~WindowExpired(records[k])
                => Asked(asked)[k] = records[k]
<1>1. Asked(asked)[k] = IF k \in asked /\ SweptRecords[k] # NoRecord
                          THEN Voided(SweptRecords[k]) ELSE SweptRecords[k]
  BY DEF Asked
<1>2. now \in Nat
  BY DEF RecordsTyped
<1>3. ASSUME NEW r \in Record
      PROVE  /\ Voided(r) \in Record
             /\ Voided(r).until <= r.until
             /\ ~WindowExpired(r) => Voided(r) = r
  BY <1>2 DEF Voided, Record
<1>4. CASE SweptRecords[k] = NoRecord
  BY <1>1, <1>4, SweptFacts
<1>5. CASE SweptRecords[k] # NoRecord
  <2>1. SweptRecords[k] \in Record /\ SweptRecords[k] = records[k]
    BY <1>5, SweptFacts
  <2>2. Asked(asked)[k] \in Record /\ Asked(asked)[k].until <= records[k].until
    BY <1>1, <1>3, <2>1 DEF Record
  <2>3. k \in asked /\ ~Locked(k) => Asked(asked)[k].until <= now
    BY <1>1, <1>2, <1>3, <1>5, <2>1 DEF Locked, Record
  <2>4. ~WindowExpired(records[k]) => Asked(asked)[k] = records[k]
    BY <1>1, <1>3, <2>1
  <2> QED
    BY <1>5, <2>1, <2>2, <2>3, <2>4, NoRecordAssumption
<1> QED
  BY <1>4, <1>5

\* A failure of a key that is not locked is a record locked up to the cap.
LEMMA FailedFacts ==
    ASSUME now \in Nat, NEW old \in Record \cup {NoRecord},
           old # NoRecord => old.until <= now
    PROVE  Failed(old) \in Record /\ Failed(old).until <= now + MaxLockout
<1> DEFINE o == Opened(old)
           r == IF WindowExpired(o) THEN [o EXCEPT !.start = now, !.failures = 1]
                ELSE [o EXCEPT !.failures = @ + 1]
<1>1. o \in Record /\ o.until <= now
  BY DEF Opened, Record
<1>2. r \in Record /\ r.until <= now
  <2>1. [o EXCEPT !.start = now, !.failures = 1] \in Record
    BY <1>1 DEF Record
  <2>2. [o EXCEPT !.failures = @ + 1] \in Record
    BY <1>1 DEF Record
  <2>3. r.until = o.until
    BY <1>1 DEF Record
  <2> QED
    BY <1>1, <2>1, <2>2, <2>3
<1> DEFINE from == IF r.until > now THEN r.until ELSE now
<1>3. Failed(old) = IF r.failures <= MaxFailures THEN r
                    ELSE [r EXCEPT !.until = from + Lockout(r.failures)]
  BY DEF Failed
<1> HIDE DEF r
<1>4. from = now
  BY <1>2 DEF Record
<1> HIDE DEF from
<1>5. CASE r.failures <= MaxFailures
  BY <1>2, <1>3, <1>5, LimiterAssumption DEF Record
<1>6. CASE r.failures > MaxFailures
  <2>1. r.failures \in Nat
    BY <1>2 DEF Record
  <2>2. Lockout(r.failures) \in Nat /\ Lockout(r.failures) <= MaxLockout
    BY <1>6, <2>1, LockoutBound
  <2>3. Failed(old) = [r EXCEPT !.until = now + Lockout(r.failures)]
    BY <1>3, <1>4, <1>6, <2>1, LimiterAssumption
  <2> QED
    BY <1>2, <2>2, <2>3, LimiterAssumption DEF Record
<1> QED
  BY <1>2, <1>5, <1>6, LimiterAssumption DEF Record

Inv == RecordsTyped /\ LockoutIsCapped

\* Handlers that pass the throttle keep every record a capped record.
LEMMA AnswerRecords ==
    ASSUME Inv, NEW asked, NEW failing \in SUBSET asked, NEW cleared \in SUBSET asked,
           Answer(asked, failing, cleared)
    PROVE  /\ records' \in [Keys -> Record \cup {NoRecord}]
           /\ LockoutIsCapped'
           /\ \A k \in Keys : Running(k) /\ ~WindowExpired(records[k])
                => records'[k] = records[k]
<1>1. now \in Nat /\ now' = now
  BY DEF Inv, RecordsTyped, Answer
<1>2. ASSUME NEW k \in Keys
      PROVE  /\ records'[k] \in Record \cup {NoRecord}
             /\ records'[k] # NoRecord => records'[k].until <= now + MaxLockout
             /\ Running(k) /\ ~WindowExpired(records[k]) => records'[k] = records[k]
  <2> DEFINE a == Asked(asked)[k]
  <2>1. records'[k] = IF k \in failing THEN Failed(a)
                      ELSE IF k \in cleared THEN NoRecord ELSE a
    BY DEF Answer
  <2>2. /\ a \in Record \cup {NoRecord}
        /\ a # NoRecord => records[k] # NoRecord /\ a.until <= records[k].until
        /\ k \in asked /\ a # NoRecord => a.until <= now
        /\ records[k] # NoRecord /\ ~WindowExpired(records[k]) => a = records[k]
    BY AskedFacts DEF Inv, Answer
  <2> HIDE DEF a
  <2>3. CASE k \in failing
    <3>1. Failed(a) \in Record /\ Failed(a).until <= now + MaxLockout
      BY <1>1, <2>2, <2>3, FailedFacts
    <3>2. ~(Running(k) /\ ~WindowExpired(records[k]))
      BY <1>1, <2>2, <2>3 DEF Running, Inv, RecordsTyped, Record
    <3> QED
      BY <2>1, <2>3, <3>1, <3>2
  <2>4. CASE k \notin failing /\ k \in cleared
    <3>1. ~(Running(k) /\ ~WindowExpired(records[k]))
      BY <1>1, <2>2, <2>4 DEF Running, Inv, RecordsTyped, Record
    <3> QED
      BY <2>1, <2>4, <3>1
  <2>5. CASE k \notin failing /\ k \notin cleared
    <3>1. records'[k] = a
      BY <2>1, <2>5
    <3>2. a # NoRecord => a.until <= now + MaxLockout
      BY <1>1, <2>2, LimiterAssumption DEF Inv, RecordsTyped, LockoutIsCapped, Record
    <3> QED
      BY <2>2, <3>1, <3>2 DEF Running
  <2> QED
    BY <2>3, <2>4, <2>5
<1>3. records' = [k \in Keys |-> records'[k]]
  BY DEF Answer
<1> QED
  BY <1>1, <1>2, <1>3 DEF LockoutIsCapped

\* So does a request that is refused.
LEMMA AskedRecords ==
    ASSUME Inv, NEW asked, records' = Asked(asked), now' = now
    PROVE  /\ records' \in [Keys -> Record \cup {NoRecord}]
           /\ LockoutIsCapped'
           /\ \A k \in Keys : Running(k) /\ ~WindowExpired(records[k])
                => records'[k] = records[k]
<1>1. ASSUME NEW k \in Keys
      PROVE  /\ records'[k] \in Record \cup {NoRecord}
             /\ records'[k] # NoRecord => records'[k].until <= now + MaxLockout
             /\ Running(k) /\ ~WindowExpired(records[k]) => records'[k] = records[k]
  BY AskedFacts, LimiterAssumption DEF Inv, RecordsTyped, LockoutIsCapped, Running, Record
<1>2. records' = [k \in Keys |-> records'[k]]
  BY DEF Asked
<1> QED
  BY <1>1, <1>2 DEF LockoutIsCapped

\* A handler answers one way or the other.
LEMMA HandlerStep ==
    ASSUME \/ \E a \in Addresses, u \in Accounts :
                 \/ Throttle(a, u) \/ Login(a, u) \/ RegisterRejected(a, u)
                 \/ Register(a, u) \/ ResetPassword(a, u)
           \/ \E u \in Accounts : ChangePassword(u) \/ ChangeThrottled(u)
    PROVE  /\ now' = now
           /\ \/ \E asked : records' = Asked(asked)
              \/ \E asked : \E failing, cleared \in SUBSET asked :
                    Answer(asked, failing, cleared)
<1>1. ASSUME NEW a \in Addresses, NEW u \in Accounts, Throttle(a, u)
      PROVE  now' = now /\ \E asked : records' = Asked(asked)
  BY <1>1 DEF Throttle
<1>2. ASSUME NEW u \in Accounts, ChangeThrottled(u)
      PROVE  now' = now /\ \E asked : records' = Asked(asked)
  BY <1>2 DEF ChangeThrottled
<1>3. ASSUME NEW a \in Addresses, NEW u \in Accounts,
             Login(a, u) \/ RegisterRejected(a, u) \/ Register(a, u) \/ ResetPassword(a, u)
      PROVE  \E asked : \E failing, cleared \in SUBSET asked : Answer(asked, failing, cleared)
  <2>1. \E failing, cleared \in SUBSET {a, u} : Answer({a, u}, failing, cleared)
    BY <1>3 DEF Login, RegisterRejected, Register, ResetPassword
  <2> QED
    BY <2>1
<1>4. ASSUME NEW u \in Accounts, ChangePassword(u)
      PROVE  \E asked : \E failing, cleared \in SUBSET asked : Answer(asked, failing, cleared)
  <2>1. \E failing, cleared \in SUBSET {u} : Answer({u}, failing, cleared)
    BY <1>4 DEF ChangePassword
  <2> QED
    BY <2>1
<1>5. ASSUME NEW asked, NEW failing, NEW cleared, Answer(asked, failing, cleared)
      PROVE  now' = now
  BY <1>5 DEF Answer
<1> QED
  BY <1>1, <1>2, <1>3, <1>4, <1>5

LEMMA InitInv == Init => Inv
  BY DEF Init, Inv, RecordsTyped, LockoutIsCapped

\* The clock ticking keeps both; so does a stutter.
LEMMA IdleInv ==
    ASSUME Inv, Tick \/ UNCHANGED vars
    PROVE  Inv' /\ records' = records
<1>1. records' = records
  BY DEF Tick, vars
<1>2. now \in Nat /\ now' \in Nat /\ now' >= now
  BY DEF Tick, vars, Inv, RecordsTyped
<1> QED
  BY <1>1, <1>2, LimiterAssumption DEF Inv, RecordsTyped, LockoutIsCapped, Record

\* Every step keeps the invariant and the lockouts of unexpired windows.
LEMMA InvStep ==
    ASSUME Inv, [Next]_vars
    PROVE  /\ Inv'
           /\ \A k \in Keys : Running(k) /\ ~WindowExpired(records[k])
                => records'[k] = records[k]
<1>1. CASE Tick \/ UNCHANGED vars
  BY <1>1, IdleInv
<1>2. CASE \/ \E a \in Addresses, u \in Accounts :
                 \/ Throttle(a, u) \/ Login(a, u) \/ RegisterRejected(a, u)
                 \/ Register(a, u) \/ ResetPassword(a, u)
           \/ \E u \in Accounts : ChangePassword(u) \/ ChangeThrottled(u)
  <2>1. /\ records' \in [Keys -> Record \cup {NoRecord}]
        /\ LockoutIsCapped'
        /\ \A k \in Keys : Running(k) /\ ~WindowExpired(records[k])
             => records'[k] = records[k]
    BY <1>2, HandlerStep, AskedRecords, AnswerRecords
  <2> QED
    BY <1>2, <2>1, HandlerStep DEF Inv, RecordsTyped
<1> QED
  BY <1>1, <1>2 DEF Next

LEMMA Invariance == Spec => []Inv
<1>1. Inv /\ [Next]_vars => Inv'
  BY InvStep
<1> QED
  BY <1>1, InitInv, PTL DEF Spec

\* No key is ever locked for longer than the cap, although a failure recorded
\* for a locked key would extend its lockout: no handler records one.
THEOREM LockoutsAreCapped == Spec => []LockoutIsCapped
<1>1. Inv => LockoutIsCapped
  BY DEF Inv
<1> QED
  BY <1>1, Invariance, PTL

\* Nothing ends or shortens a running lockout before its failure window ends.
THEOREM LockoutsStandInWindow == Spec => LockoutStandsInWindow
<1>1. ASSUME Inv, [Next]_vars
      PROVE  [\A k \in Keys : Running(k) /\ ~WindowExpired(records[k])
                 => records'[k] # NoRecord /\ records'[k].until >= records[k].until]_vars
  <2>1. \A k \in Keys : Running(k) => records[k] # NoRecord /\ records[k].until \in Nat
    BY <1>1 DEF Running, Inv, RecordsTyped, Record
  <2> QED
    BY <1>1, <2>1, InvStep
<1> QED
  BY <1>1, Invariance, PTL DEF Spec, LockoutStandsInWindow

-----------------------------------------------------------------------------
(* The registration budget.                                                *)

TimesTyped == lastSweep \in 0 .. now /\ created \in [Addresses -> SUBSET Registration]

\* What is forgotten is no longer recent; so the recent ones among those remembered are
\* the recent ones among all.
Remembered(a, timestamps) ==
    timestamps \subseteq created[a] /\ Recent(created[a]) \subseteq timestamps

BudgetInv ==
    /\ RecordsTyped /\ TimesTyped
    /\ registrations \in [Addresses -> SUBSET Registration]
    /\ \A a \in Addresses : /\ IsFiniteSet(created[a])
                            /\ Remembered(a, registrations[a])
                            /\ Cardinality(Recent(created[a])) <= MaxRegistrations

\* Sweeping and pruning forget what is not recent.
LEMMA Forgotten ==
    ASSUME BudgetInv, NEW a \in Addresses
    PROVE  /\ Remembered(a, SweptRegistrations[a])
           /\ Remembered(a, Recent(SweptRegistrations[a]))
           /\ Recent(SweptRegistrations[a]) = Recent(created[a])
<1>1. Remembered(a, registrations[a])
  BY DEF BudgetInv
<1>2. Remembered(a, SweptRegistrations[a])
  BY <1>1 DEF SweptRegistrations, Remembered, Recent
<1> QED
  BY <1>2 DEF Remembered, Recent

\* A sweep notes its time, and takes none.
LEMMA Swept ==
    ASSUME now \in Nat, lastSweep \in 0 .. now, now' = now, Sweep
    PROVE  lastSweep' \in 0 .. now'
  BY DEF Sweep

\* Whatever a handler forgets that is not recent, the budget of the others stands.
LEMMA BudgetUnchanged ==
    ASSUME BudgetInv, RecordsTyped', now' = now, Sweep, created' = created,
           registrations' \in [Addresses -> SUBSET Registration],
           \A a \in Addresses : Remembered(a, registrations'[a])
    PROVE  BudgetInv'
<1>1. lastSweep' \in 0 .. now'
  BY Swept DEF BudgetInv, RecordsTyped, TimesTyped
<1>2. \A S : Recent(S)' = Recent(S)
  BY DEF Recent
<1>3. ASSUME NEW a \in Addresses
      PROVE  /\ IsFiniteSet(created'[a])
             /\ Remembered(a, registrations[a])'
             /\ Cardinality(Recent(created[a]))' <= MaxRegistrations
  <2>1. Recent(created[a])' = Recent(created[a])
    BY DEF Recent
  <2>2. Remembered(a, registrations[a])'
    BY <2>1 DEF Remembered
  <2> QED
    BY <2>1, <2>2 DEF BudgetInv
<1> QED
  BY <1>1, <1>3 DEF BudgetInv, TimesTyped

\* An address within its budget creates one more account.
LEMMA BudgetSpent ==
    ASSUME BudgetInv, RecordsTyped', NEW a \in Addresses, NEW u \in Accounts, Register(a, u)
    PROVE  BudgetInv'
<1> DEFINE r == Registered(a)
           R == Recent(created[a])
<1>1. now' = now /\ Sweep /\ now \in Nat
  BY DEF Register, Answer, BudgetInv, RecordsTyped
<1>2. lastSweep' \in 0 .. now'
  BY <1>1, Swept DEF BudgetInv, TimesTyped
<1>3. /\ created \in [Addresses -> SUBSET Registration] /\ IsFiniteSet(created[a])
      /\ SweptRegistrations \in [Addresses -> SUBSET Registration]
  BY DEF BudgetInv, TimesTyped, SweptRegistrations, Recent
<1>4. r \in Registration /\ r.at = now
  BY <1>1, <1>3, FS_CardinalityType DEF Registered, Registration
<1>5. IsFiniteSet(created[a] \cup {r})
  BY <1>3, FS_AddElement
<1>6. IsFiniteSet(R) /\ Cardinality(R) < MaxRegistrations /\ Cardinality(R) \in Nat
  <2>1. R \in SUBSET created[a]
    BY DEF Recent
  <2>2. IsFiniteSet(R)
    BY <1>3, <2>1, FS_Subset
  <2>3. Cardinality(R) < MaxRegistrations
    BY Forgotten DEF Register, MayRegister
  <2> QED
    BY <2>2, <2>3, FS_CardinalityType
<1>7. Cardinality(R \cup {r}) <= MaxRegistrations
  <2>1. Cardinality(R \cup {r}) = IF r \in R THEN Cardinality(R) ELSE Cardinality(R) + 1
    BY <1>6, FS_AddElement
  <2> QED
    BY <1>6, <2>1, LimiterAssumption
<1>8. /\ created' = [created EXCEPT ![a] = @ \cup {r}]
      /\ registrations' = [SweptRegistrations EXCEPT ![a] = Recent(@) \cup {r}]
  BY DEF Register
<1> HIDE DEF r
<1>9. Recent(created[a] \cup {r}) = R \cup {r}
  BY <1>1, <1>4, LimiterAssumption DEF Recent
<1>10. ASSUME NEW b \in Addresses
       PROVE  /\ IsFiniteSet(created'[b]) /\ created'[b] \subseteq Registration
              /\ registrations'[b] \subseteq Registration
              /\ Remembered(b, registrations[b])'
              /\ Cardinality(Recent(created[b]))' <= MaxRegistrations
  <2>1. CASE b = a
    <3>1. created'[b] = created[a] \cup {r}
      BY <1>3, <1>8, <2>1
    <3>2. registrations'[b] = R \cup {r}
      BY <1>3, <1>8, <2>1, Forgotten
    <3>3. Recent(created[b])' = R \cup {r}
      BY <1>1, <1>9, <3>1 DEF Recent
    <3>4. R \subseteq created[a] /\ created[a] \subseteq Registration
      BY <1>3 DEF Recent
    <3> QED
      BY <1>4, <1>5, <1>7, <3>1, <3>2, <3>3, <3>4 DEF Remembered
  <2>2. CASE b # a
    <3>1. created'[b] = created[b] /\ registrations'[b] = SweptRegistrations[b]
      BY <1>3, <1>8, <2>2
    <3>2. Recent(created[b])' = Recent(created[b])
      BY <1>1, <3>1 DEF Recent
    <3>3. Remembered(b, SweptRegistrations[b])
      BY Forgotten
    <3> QED
      BY <1>3, <3>1, <3>2, <3>3 DEF Remembered, BudgetInv
  <2> QED
    BY <2>1, <2>2
<1>11. created' \in [Addresses -> SUBSET Registration]
       /\ registrations' \in [Addresses -> SUBSET Registration]
  <2>1. /\ created' = [b \in Addresses |-> created'[b]]
        /\ registrations' = [b \in Addresses |-> registrations'[b]]
    BY <1>3, <1>8
  <2> QED
    BY <1>10, <2>1
<1> QED
  BY <1>2, <1>10, <1>11 DEF BudgetInv, TimesTyped

\* Time makes accounts less recent.
LEMMA BudgetIdle ==
    ASSUME BudgetInv, RecordsTyped', Tick \/ UNCHANGED vars
    PROVE  BudgetInv'
<1>1. /\ now \in Nat /\ now' \in Nat /\ now' >= now
      /\ UNCHANGED <<registrations, lastSweep, created>>
  BY DEF Tick, vars, BudgetInv, RecordsTyped
<1>2. ASSUME NEW a \in Addresses
      PROVE  /\ IsFiniteSet(created'[a])
             /\ Remembered(a, registrations[a])'
             /\ Cardinality(Recent(created[a]))' <= MaxRegistrations
  <2>1. /\ created[a] \subseteq Registration /\ IsFiniteSet(created[a])
        /\ Remembered(a, registrations[a])
        /\ Cardinality(Recent(created[a])) <= MaxRegistrations
    BY DEF BudgetInv, TimesTyped
  <2>2. Recent(created[a])' \subseteq Recent(created[a])
    BY <1>1, <2>1, LimiterAssumption DEF Recent, Registration
  <2>3. IsFiniteSet(Recent(created[a])) /\ Cardinality(Recent(created[a])) \in Nat
    <3>1. Recent(created[a]) \in SUBSET created[a]
      BY DEF Recent
    <3> QED
      BY <2>1, <3>1, FS_Subset, FS_CardinalityType
  <2> DEFINE later == Recent(created[a])'
  <2>4. later \in SUBSET Recent(created[a])
    BY <2>2
  <2> HIDE DEF later
  <2>5. IsFiniteSet(later) /\ Cardinality(later) <= Cardinality(Recent(created[a]))
    BY <2>3, <2>4, FS_Subset
  <2>6. Cardinality(later) \in Nat
    BY <2>5, FS_CardinalityType
  <2>7. Cardinality(Recent(created[a]))' <= MaxRegistrations
    BY <2>1, <2>3, <2>5, <2>6, LimiterAssumption DEF later
  <2> QED
    BY <1>1, <2>1, <2>2, <2>7 DEF Remembered
<1> QED
  BY <1>1, <1>2 DEF BudgetInv, TimesTyped

\* Every step keeps the budget.
LEMMA BudgetStep ==
    ASSUME BudgetInv, RecordsTyped', [Next]_vars
    PROVE  BudgetInv'
<1>1. SweptRegistrations \in [Addresses -> SUBSET Registration]
  BY DEF BudgetInv, SweptRegistrations, Recent
<1>2. ASSUME now' = now, Sweep, created' = created, registrations' = SweptRegistrations
      PROVE  BudgetInv'
  BY <1>1, <1>2, Forgotten, BudgetUnchanged
<1>3. ASSUME NEW a \in Addresses, now' = now, Sweep, created' = created,
             registrations' = [SweptRegistrations EXCEPT ![a] = Recent(@)]
      PROVE  BudgetInv'
  <2>1. \A b \in Addresses : Remembered(b, registrations'[b])
    BY <1>1, <1>3, Forgotten
  <2>2. Recent(SweptRegistrations[a]) \in SUBSET Registration
    BY <1>1 DEF Recent
  <2>3. registrations' \in [Addresses -> SUBSET Registration]
    BY <1>1, <1>3, <2>2
  <2> QED
    BY <1>3, <2>1, <2>3, BudgetUnchanged
<1>4. ASSUME NEW a \in Addresses, NEW u \in Accounts,
             Throttle(a, u) \/ Login(a, u) \/ ResetPassword(a, u)
      PROVE  BudgetInv'
  BY <1>2, <1>4 DEF Throttle, Login, ResetPassword, Answer
<1>5. ASSUME NEW a \in Addresses, NEW u \in Accounts, RegisterRejected(a, u)
      PROVE  BudgetInv'
  BY <1>2, <1>3, <1>5 DEF RegisterRejected, Answer
<1>6. ASSUME NEW u \in Accounts, ChangePassword(u) \/ ChangeThrottled(u)
      PROVE  BudgetInv'
  BY <1>2, <1>6 DEF ChangePassword, ChangeThrottled, Answer
<1> QED
  BY <1>4, <1>5, <1>6, BudgetSpent, BudgetIdle DEF Next

LEMMA BudgetInit == Init => BudgetInv
<1> SUFFICES ASSUME Init PROVE BudgetInv
  OBVIOUS
<1>1. RecordsTyped /\ lastSweep \in 0 .. now
  BY LimiterAssumption DEF Init, RecordsTyped
<1>2. \A a \in Addresses : created[a] = {} /\ registrations[a] = {} /\ Recent(created[a]) = {}
  BY DEF Init, Recent
<1>3. IsFiniteSet({}) /\ Cardinality({}) = 0
  BY FS_EmptySet
<1>4. \A a \in Addresses : /\ IsFiniteSet(created[a])
                           /\ Remembered(a, registrations[a])
                           /\ Cardinality(Recent(created[a])) <= MaxRegistrations
  BY <1>2, <1>3, LimiterAssumption DEF Remembered
<1> QED
  BY <1>1, <1>4 DEF BudgetInv, TimesTyped, Init

LEMMA BudgetInvariance == Spec => []BudgetInv
<1>1. Inv /\ BudgetInv /\ [Next]_vars => BudgetInv'
  BY InvStep, BudgetStep DEF Inv
<1> QED
  BY <1>1, Invariance, BudgetInit, PTL DEF Spec

\* The records, the registrations and the sweep keep their types; the last sweep is
\* never later than now.
THEOREM TypeCorrect == Spec => []TypeOK
<1>1. BudgetInv => TypeOK
  BY DEF BudgetInv, TimesTyped, TypeOK
<1> QED
  BY <1>1, BudgetInvariance, PTL

\* No address creates more accounts in a window than its budget, however its requests
\* and the sweeps that forget registrations alternate (isAllowedToRegister,
\* recordRegistration, sweepStaleEntriesLocked).
THEOREM BudgetHolds == Spec => []RegistrationBudget
<1>1. BudgetInv => RegistrationBudget
  BY DEF BudgetInv, RegistrationBudget
<1> QED
  BY <1>1, BudgetInvariance, PTL

-----------------------------------------------------------------------------
(* The spacing of failures.                                                *)

\* What the lockouts make of a record at time t: the failures counted so far took
\* their time and had it within one window; and while the window lasts the next
\* failure is as far off as it must be.
SpacedAt(t, r, n) ==
    r # NoRecord /\ r.failures > MaxFailures + n /\ 2 ^ n <= MaxLockout
        => /\ t - r.start >= Served(r.failures, n)
           /\ FailureWindow >= Served(r.failures, n)
           /\ t - r.start <= FailureWindow => r.until - r.start >= Served(r.failures + 1, n)

SpacedInv ==
    /\ RecordsTyped
    /\ \A k \in Keys : records[k] # NoRecord => records[k].start <= now
    /\ \A k \in Keys, n \in 0 .. MaxDoublings : SpacedAt(now, records[k], n)

\* One more failure is served by one more lockout of 2^n; the first one over the
\* limit and n by the n lockouts that doubled.
LEMMA ServedFacts ==
    ASSUME NEW n \in 0 .. MaxDoublings, NEW f \in Nat
    PROVE  /\ Served(f, n) \in Int
           /\ Served(f + 1, n) = Served(f, n) + 2 ^ n
           /\ f = MaxFailures + n => Served(f + 1, n) = 2 ^ n - 1
           /\ f = MaxFailures + n /\ n > 0 => Served(f + 1, n - 1) = 2 ^ n - 1
<1> DEFINE p == 2 ^ n
           q == 2 ^ (n - 1)
           x == f - MaxFailures - n
<1>1. p \in Nat /\ x \in Int
  BY LimiterAssumption, DoublingAssumption
<1>2. n > 0 => q \in Nat /\ p = 2 * q
  <2>1. n > 0 => n - 1 \in 0 .. MaxDoublings
    BY LimiterAssumption
  <2> QED
    BY <2>1, DoublingAssumption
<1>3. Served(f, n) = x * p - 1 /\ (f + 1) - MaxFailures - n = x + 1
  BY LimiterAssumption DEF Served
<1>4. Served(f + 1, n) = (x + 1) * p - 1
  <2>1. Served(f + 1, n) = ((f + 1) - MaxFailures - n) * p - 1
    BY DEF Served
  <2> QED
    BY <1>3, <2>1
<1>5. f = MaxFailures + n /\ n > 0 => Served(f + 1, n - 1) = 2 * q - 1
  <2> DEFINE y == (f + 1) - MaxFailures - (n - 1)
  <2>1. Served(f + 1, n - 1) = y * q - 1
    BY DEF Served
  <2>2. f = MaxFailures + n => y = 2
    BY LimiterAssumption
  <2> HIDE DEF y, q
  <2> QED
    BY <2>1, <2>2
<1>6. f = MaxFailures + n => x = 0
  BY LimiterAssumption
<1> HIDE DEF p, q, x
<1>7. x * p \in Int /\ (x + 1) * p = x * p + p
  BY <1>1
<1>8. x = 0 => x * p = 0
  BY <1>1
<1>9. Served(f, n) \in Int /\ Served(f + 1, n) = Served(f, n) + p
  BY <1>1, <1>3, <1>4, <1>7
<1>10. f = MaxFailures + n => Served(f + 1, n) = p - 1
  BY <1>1, <1>4, <1>6, <1>7, <1>8
<1> QED
  BY <1>2, <1>5, <1>9, <1>10 DEF p

\* Beyond the limit and n a lockout is no shorter than 2^n.
LEMMA LockoutLeast ==
    ASSUME NEW n \in 0 .. MaxDoublings, 2 ^ n <= MaxLockout,
           NEW f \in Nat, f > MaxFailures + n
    PROVE  Lockout(f) >= 2 ^ n
<1> DEFINE over == f - MaxFailures - 1
           doublings == IF over < MaxDoublings THEN over ELSE MaxDoublings
           p == 2 ^ doublings
<1>1. doublings \in 0 .. MaxDoublings /\ n \in 0 .. doublings
  BY LimiterAssumption
<1> HIDE DEF doublings
<1>2. p \in Nat /\ 2 ^ n \in Nat /\ 2 ^ n <= p
  BY <1>1, DoublingAssumption
<1>3. Lockout(f) = IF p < MaxLockout THEN p ELSE MaxLockout
  BY DEF Lockout, doublings
<1> HIDE DEF p
<1> QED
  BY <1>2, <1>3, LimiterAssumption

\* Asking about a key changes neither its count nor its window.
LEMMA AskedSpaced ==
    ASSUME SpacedInv, NEW k \in Keys, NEW asked, Asked(asked)[k] # NoRecord
    PROVE  /\ Asked(asked)[k].start <= now
           /\ \A n \in 0 .. MaxDoublings : SpacedAt(now, Asked(asked)[k], n)
<1> DEFINE a == Asked(asked)[k]
           r == records[k]
<1>1. /\ r \in Record /\ r # NoRecord /\ r.start <= now /\ now \in Nat
      /\ a \in Record
  BY AskedFacts DEF SpacedInv, RecordsTyped
<1>2. a = r \/ (WindowExpired(r) /\ a.failures = r.failures /\ a.start = r.start)
  <2>1. SweptRecords[k] = r /\ (a = r \/ a = Voided(r))
    BY SweptFacts DEF Asked, SpacedInv
  <2>2. Voided(r) = r \/ (WindowExpired(r) /\ Voided(r) = [r EXCEPT !.until = now])
    BY DEF Voided
  <2> QED
    BY <1>1, <2>1, <2>2 DEF Record
<1> HIDE DEF a, r
<1>3. CASE a = r
  BY <1>1, <1>3 DEF SpacedInv, a, r
<1>4. CASE WindowExpired(r) /\ a.failures = r.failures /\ a.start = r.start
  <2>1. ~(now - a.start <= FailureWindow)
    BY <1>1, <1>4, LimiterAssumption DEF WindowExpired, Record
  <2>2. \A n \in 0 .. MaxDoublings : SpacedAt(now, r, n)
    BY DEF SpacedInv, r
  <2>3. \A n \in 0 .. MaxDoublings : SpacedAt(now, a, n)
    BY <1>1, <1>4, <2>1, <2>2 DEF SpacedAt
  <2> QED
    BY <1>1, <1>4, <2>3 DEF a
<1> QED
  BY <1>2, <1>3, <1>4

\* A failure that follows another within the window comes when that one's lockout is
\* over, and the lockout it gets is the next.
LEMMA CountedSpaced ==
    ASSUME now \in Nat, NEW o \in Record, o.start <= now, o.until <= now,
           ~WindowExpired(o), \A n \in 0 .. MaxDoublings : SpacedAt(now, o, n),
           NEW n \in 0 .. MaxDoublings, o.failures + 1 > MaxFailures + n, 2 ^ n <= MaxLockout
    PROVE  /\ now - o.start >= Served(o.failures + 1, n)
           /\ now + Lockout(o.failures + 1) - o.start >= Served(o.failures + 2, n)
<1> DEFINE f == o.failures
           s == o.start
           w == o.until
<1>1. f \in Nat /\ s \in Nat /\ w \in Nat /\ w <= now /\ s <= now
  BY DEF Record
<1>2. now - s <= FailureWindow
  BY <1>1, LimiterAssumption DEF WindowExpired
<1>3. 2 ^ n \in Nat
  BY DoublingAssumption
<1>4. now - s >= Served(f + 1, n)
  <2>1. CASE f > MaxFailures + n
    <3>1. o # NoRecord
      BY NoRecordAssumption
    <3>2. w - s >= Served(f + 1, n)
      BY <1>2, <2>1, <3>1 DEF SpacedAt
    <3>3. Served(f + 1, n) \in Int
      BY <1>1, ServedFacts
    <3> QED
      BY <1>1, <3>2, <3>3
  <2>2. CASE f = MaxFailures + n /\ n = 0
    <3>1. Served(f + 1, n) = 2 ^ n - 1
      BY <1>1, <2>2, ServedFacts
    <3>2. 2 ^ n = 1
      BY <2>2, DoublingAssumption
    <3> QED
      BY <1>1, <3>1, <3>2
  <2>3. CASE f = MaxFailures + n /\ n > 0
    <3>1. /\ Served(f + 1, n) = 2 ^ n - 1
          /\ Served(f + 1, n - 1) = 2 ^ n - 1
      BY <1>1, <2>3, ServedFacts
    <3>2. n - 1 \in 0 .. MaxDoublings /\ f > MaxFailures + (n - 1)
      BY <1>1, <2>3, LimiterAssumption
    <3>3. 2 ^ (n - 1) <= MaxLockout
      <4>1. 2 ^ (n - 1) \in Nat /\ 2 ^ (n - 1) <= 2 ^ n
        BY <2>3, <3>2, DoublingAssumption
      <4> QED
        BY <1>3, <4>1, LimiterAssumption
    <3>4. o # NoRecord
      BY NoRecordAssumption
    <3>5. w - s >= Served(f + 1, n - 1)
      BY <1>2, <3>2, <3>3, <3>4 DEF SpacedAt
    <3> QED
      BY <1>1, <1>3, <3>1, <3>5
  <2> QED
    BY <1>1, <2>1, <2>2, <2>3, LimiterAssumption
<1>5. Lockout(f + 1) >= 2 ^ n /\ Lockout(f + 1) \in Nat
  <2>1. f + 1 \in Nat /\ f + 1 > MaxFailures
    BY <1>1, LimiterAssumption
  <2> QED
    BY <2>1, LockoutLeast, LockoutBound
<1>6. /\ Served(f + 2, n) = Served(f + 1, n) + 2 ^ n
      /\ Served(f + 1, n) \in Int
  <2>1. f + 1 \in Nat /\ (f + 1) + 1 = f + 2
    BY <1>1
  <2> QED
    BY <2>1, ServedFacts
<1> HIDE DEF f, s, w
<1>7. now + Lockout(f + 1) - s >= Served(f + 2, n)
  BY <1>1, <1>3, <1>4, <1>5, <1>6
<1> QED
  BY <1>4, <1>7 DEF f, s

\* A failure of a key that is not locked is spaced from those before it.
LEMMA FailedSpaced ==
    ASSUME now \in Nat, NEW old \in Record \cup {NoRecord},
           old # NoRecord => /\ old.until <= now /\ old.start <= now
                             /\ \A n \in 0 .. MaxDoublings : SpacedAt(now, old, n)
    PROVE  /\ Failed(old).start <= now
           /\ \A n \in 0 .. MaxDoublings : SpacedAt(now, Failed(old), n)
<1> DEFINE o == Opened(old)
           r == IF WindowExpired(o) THEN [o EXCEPT !.start = now, !.failures = 1]
                ELSE [o EXCEPT !.failures = @ + 1]
           from == IF r.until > now THEN r.until ELSE now
           new == Failed(old)
<1>1. /\ o \in Record /\ o.until <= now /\ o.start <= now
      /\ o.failures \in Nat /\ o.start \in Nat /\ o.until \in Nat
      /\ \A n \in 0 .. MaxDoublings : SpacedAt(now, o, n)
  <2>1. CASE old = NoRecord
    <3>1. o = [failures |-> 0, start |-> 0, until |-> 0]
      BY <2>1 DEF Opened
    <3>2. o \in Record /\ o.failures = 0 /\ o.start = 0 /\ o.until = 0
      BY <3>1 DEF Record
    <3>3. \A n \in 0 .. MaxDoublings : ~(o.failures > MaxFailures + n)
      BY <3>2, LimiterAssumption
    <3> HIDE DEF o
    <3> QED
      BY <3>2, <3>3 DEF SpacedAt
  <2>2. CASE old # NoRecord
    BY <2>2 DEF Opened, Record
  <2> QED
    BY <2>1, <2>2
<1>2. new = IF r.failures <= MaxFailures THEN r
            ELSE [r EXCEPT !.until = from + Lockout(r.failures)]
  BY DEF Failed
<1> HIDE DEF o
<1>3. /\ r.start = IF WindowExpired(o) THEN now ELSE o.start
      /\ r.failures = IF WindowExpired(o) THEN 1 ELSE o.failures + 1
      /\ r.until = o.until
      /\ r \in Record
  <2>1. [o EXCEPT !.start = now, !.failures = 1] \in Record
    BY <1>1 DEF Record
  <2>2. [o EXCEPT !.failures = @ + 1] \in Record
    BY <1>1 DEF Record
  <2>3. CASE WindowExpired(o)
    BY <1>1, <2>1, <2>3 DEF Record, r
  <2>4. CASE ~WindowExpired(o)
    BY <1>1, <2>2, <2>4 DEF Record, r
  <2> QED
    BY <2>3, <2>4
<1> HIDE DEF r
<1>4. from = now
  BY <1>1, <1>3
<1> HIDE DEF from
<1>5. /\ new.start = r.start /\ new.failures = r.failures
      /\ r.failures > MaxFailures => new.until = now + Lockout(r.failures)
  BY <1>2, <1>3, <1>4, LimiterAssumption DEF Record
<1> HIDE DEF new
<1>6. new.start <= now /\ new.start \in Nat
  BY <1>1, <1>3, <1>5
<1>7. ASSUME NEW n \in 0 .. MaxDoublings, new.failures > MaxFailures + n, 2 ^ n <= MaxLockout
      PROVE  /\ now - new.start >= Served(new.failures, n)
             /\ FailureWindow >= Served(new.failures, n)
             /\ new.until - new.start >= Served(new.failures + 1, n)
  <2>1. new.failures > MaxFailures
    BY <1>3, <1>5, <1>7, LimiterAssumption DEF Record
  <2>2. CASE WindowExpired(o)
    <3>1. new.failures = 1 /\ new.start = now /\ n = 0 /\ MaxFailures = 0
      BY <1>1, <1>3, <1>5, <1>7, <2>2, LimiterAssumption
    <3>2. 2 ^ n = 1
      BY <3>1, DoublingAssumption
    <3>3. Served(0 + 1, n) = 0 /\ Served(1 + 1, n) = 1
      <4>1. Served(0 + 1, n) = 2 ^ n - 1
        <5>1. 0 \in Nat /\ 0 = MaxFailures + n
          BY <3>1
        <5> QED
          BY <5>1, ServedFacts
      <4>2. Served(1 + 1, n) = Served(1, n) + 2 ^ n
        BY ServedFacts
      <4> QED
        BY <3>2, <4>1, <4>2
    <3>4. new.until = now + Lockout(1) /\ Lockout(1) >= 2 ^ n /\ Lockout(1) \in Nat
      BY <1>5, <1>7, <2>1, <3>1, LockoutLeast, LockoutBound
    <3> QED
      BY <1>1, <3>1, <3>2, <3>3, <3>4, LimiterAssumption
  <2>3. CASE ~WindowExpired(o)
    <3>1. new.failures = o.failures + 1 /\ new.start = o.start
      BY <1>3, <1>5, <2>3
    <3>2. /\ now - o.start >= Served(o.failures + 1, n)
          /\ now + Lockout(o.failures + 1) - o.start >= Served(o.failures + 2, n)
      BY <1>1, <1>7, <2>3, <3>1, CountedSpaced
    <3>3. new.until = now + Lockout(o.failures + 1)
      BY <1>5, <2>1, <3>1
    <3>4. now - o.start <= FailureWindow
      BY <1>1, <2>3, LimiterAssumption DEF WindowExpired
    <3>5. Served(o.failures + 1, n) \in Int
      BY <1>1, ServedFacts
    <3>6. Lockout(o.failures + 1) \in Nat
      BY <1>1, <2>1, <3>1, LockoutBound
    <3>7. new.until - new.start >= Served(o.failures + 2, n) /\ new.failures + 1 = o.failures + 2
      BY <1>1, <3>1, <3>2, <3>3, <3>6
    <3> QED
      BY <1>1, <3>1, <3>2, <3>4, <3>5, <3>7, LimiterAssumption
  <2> QED
    BY <2>2, <2>3
<1> QED
  BY <1>6, <1>7 DEF SpacedAt, new

\* What the handlers leave of a record is spaced as before.
LEMMA HandledSpaced ==
    ASSUME Inv, SpacedInv, Inv', now' = now,
           \/ \E asked : records' = Asked(asked)
           \/ \E asked : \E failing, cleared \in SUBSET asked : Answer(asked, failing, cleared)
    PROVE  SpacedInv'
<1> SUFFICES ASSUME NEW k \in Keys, records'[k] # NoRecord
             PROVE  /\ records'[k].start <= now
                    /\ \A n \in 0 .. MaxDoublings : SpacedAt(now, records'[k], n)
  BY DEF SpacedInv, Inv, SpacedAt
<1>1. ASSUME NEW asked, records'[k] = Asked(asked)[k]
      PROVE  /\ records'[k].start <= now
             /\ \A n \in 0 .. MaxDoublings : SpacedAt(now, records'[k], n)
  BY <1>1, AskedSpaced
<1>2. ASSUME NEW asked, NEW failing \in SUBSET asked, NEW cleared \in SUBSET asked,
             Answer(asked, failing, cleared)
      PROVE  /\ records'[k].start <= now
             /\ \A n \in 0 .. MaxDoublings : SpacedAt(now, records'[k], n)
  <2> DEFINE a == Asked(asked)[k]
  <2>1. records'[k] = IF k \in failing THEN Failed(a)
                      ELSE IF k \in cleared THEN NoRecord ELSE a
    BY <1>2 DEF Answer
  <2>2. CASE k \in failing
    <3>1. /\ a \in Record \cup {NoRecord}
          /\ a # NoRecord => a.until <= now
      BY <1>2, <2>2, AskedFacts DEF Inv, Answer
    <3>2. a # NoRecord => /\ a.start <= now
                          /\ \A n \in 0 .. MaxDoublings : SpacedAt(now, a, n)
      BY AskedSpaced
    <3>3. now \in Nat
      BY DEF Inv, RecordsTyped
    <3> HIDE DEF a
    <3>4. /\ Failed(a).start <= now
          /\ \A n \in 0 .. MaxDoublings : SpacedAt(now, Failed(a), n)
      BY <3>1, <3>2, <3>3, FailedSpaced
    <3> QED
      BY <2>1, <2>2, <3>4
  <2>3. CASE k \notin failing
    <3>1. records'[k] = a
      BY <2>1, <2>3
    <3> QED
      BY <1>1, <3>1
  <2> QED
    BY <2>2, <2>3
<1> QED
  BY <1>1, <1>2

\* Time only adds to the distance, and ends windows.
LEMMA IdleSpaced ==
    ASSUME Inv, SpacedInv, Inv', Tick \/ UNCHANGED vars
    PROVE  SpacedInv'
<1>1. /\ records' = records
      /\ now \in Nat /\ now' \in Nat /\ now' >= now
  BY DEF Tick, vars, Inv, RecordsTyped
<1> SUFFICES ASSUME NEW k \in Keys, records[k] # NoRecord
             PROVE  /\ records[k].start <= now'
                    /\ \A n \in 0 .. MaxDoublings : SpacedAt(now', records[k], n)
  BY <1>1 DEF SpacedInv, Inv, SpacedAt
<1>2. /\ records[k] \in Record /\ records[k].start <= now
      /\ \A n \in 0 .. MaxDoublings : SpacedAt(now, records[k], n)
  BY DEF SpacedInv, RecordsTyped
<1>3. records[k].start \in Nat /\ records[k].failures \in Nat
  BY <1>2 DEF Record
<1>4. ASSUME NEW n \in 0 .. MaxDoublings
      PROVE  SpacedAt(now', records[k], n)
  <2>1. Served(records[k].failures, n) \in Int
    BY <1>3, ServedFacts
  <2> QED
    BY <1>1, <1>2, <1>3, <2>1, LimiterAssumption DEF SpacedAt
<1> QED
  BY <1>1, <1>2, <1>3, <1>4

LEMMA SpacedInvariance == Spec => []SpacedInv
<1>1. Init => SpacedInv
  BY InitInv DEF Init, Inv, SpacedInv, SpacedAt
<1>2. Inv /\ SpacedInv /\ [Next]_vars => SpacedInv'
  <2> SUFFICES ASSUME Inv, SpacedInv, [Next]_vars PROVE SpacedInv'
    OBVIOUS
  <2>1. Inv'
    BY InvStep
  <2>2. CASE Tick \/ UNCHANGED vars
    BY <2>1, <2>2, IdleSpaced
  <2>3. CASE \/ \E a \in Addresses, u \in Accounts :
                   \/ Throttle(a, u) \/ Login(a, u) \/ RegisterRejected(a, u)
                   \/ Register(a, u) \/ ResetPassword(a, u)
             \/ \E u \in Accounts : ChangePassword(u) \/ ChangeThrottled(u)
    BY <2>1, <2>3, HandlerStep, HandledSpaced
  <2> QED
    BY <2>2, <2>3 DEF Next
<1> QED
  BY <1>1, <1>2, Invariance, PTL DEF Spec

\* However handlers that share a key alternate, no failure over the limit is counted
\* before the lockouts of those before it were sat out (secondsUntilAllowed asked before
\* every recordFailure).
THEOREM LockoutsAreServed == Spec => []FailuresAreSpaced
<1>1. SpacedInv => FailuresAreSpaced
  BY DEF SpacedInv, SpacedAt, FailuresAreSpaced
<1> QED
  BY <1>1, SpacedInvariance, PTL

\* So a window has room for few of them, whoever asks and however fast: with the shipped
\* limits (n = 9, 5 failures, 600 seconds) for 15.
FailureBudget ==
    \A k \in Keys, n \in 0 .. MaxDoublings :
        records[k] # NoRecord /\ records[k].failures > MaxFailures + n /\ 2 ^ n <= MaxLockout
            => Served(records[k].failures, n) <= FailureWindow

\* "so brute-forcing a password is impractical" (LoginRateLimiter.hpp:12): the failures a
\* key counts within a window are bounded by what its lockouts leave room for.
THEOREM FailuresAreFew == Spec => []FailureBudget
<1>1. SpacedInv => FailureBudget
  <2> SUFFICES ASSUME SpacedInv, NEW k \in Keys, NEW n \in 0 .. MaxDoublings,
                      records[k] # NoRecord, records[k].failures > MaxFailures + n,
                      2 ^ n <= MaxLockout
               PROVE  Served(records[k].failures, n) <= FailureWindow
    BY DEF FailureBudget
  <2>1. records[k].failures \in Nat
    BY DEF SpacedInv, RecordsTyped, Record
  <2>2. Served(records[k].failures, n) \in Int
    BY <2>1, ServedFacts
  <2>3. FailureWindow >= Served(records[k].failures, n)
    BY DEF SpacedInv, SpacedAt
  <2> QED
    BY <2>2, <2>3, LimiterAssumption
<1> QED
  BY <1>1, SpacedInvariance, PTL
=============================================================================
