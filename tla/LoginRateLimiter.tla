-------------------------- MODULE LoginRateLimiter --------------------------
(***************************************************************************)
(* Throttling of authentication attempts on the server.                    *)
(*                                                                         *)
(* LoginRateLimiter keeps a failure record per key, a source address or an *)
(* account name, and the registrations made from each address.  Nothing in *)
(* the class makes a caller ask secondsUntilAllowed before it records a    *)
(* failure or a success: the four handlers of Application that throttle do *)
(* that by convention.  So the class is modelled inside the handlers, one  *)
(* step each (they run on the one TCP thread), the password hashing taking *)
(* no time.                                                                *)
(***************************************************************************)
EXTENDS Integers, FiniteSets

CONSTANTS
    Addresses,          \* source addresses
    Accounts,           \* "account:<username>" keys
    NoRecord,           \* not a key of m_attemptRecords
    MaxFailures,        \* kMaxFailuresPerWindow
    FailureWindow,      \* kFailureWindow, in seconds like all times here
    MaxLockout,         \* kMaxLockout
    MaxDoublings,       \* kMaxDoublings
    MaxRegistrations,   \* kMaxRegistrationsPerWindow
    RegistrationWindow, \* kRegistrationWindow
    SweepInterval,      \* kSweepInterval
    MaxTime             \* bound: seconds on the clock

ASSUME LimiterAssumption ==
    /\ Addresses \cap Accounts = {}
    /\ MaxFailures \in Nat /\ FailureWindow \in Nat /\ MaxLockout \in Nat
    /\ MaxDoublings \in Nat /\ MaxRegistrations \in Nat
    /\ RegistrationWindow \in Nat /\ SweepInterval \in Nat /\ MaxTime \in Nat

Keys == Addresses \cup Accounts
Record == [failures : Nat, start : Nat, until : Nat]

\* Numbered, so that two of a second are two.
Registration == [at : Nat, number : Nat]

ASSUME NoRecordAssumption == NoRecord \notin Record

\* Powers of two (1 << exponent) are numbers that double.
ASSUME DoublingAssumption ==
    /\ 2 ^ 0 = 1
    /\ \A n \in 0 .. MaxDoublings :
          /\ 2 ^ n \in Nat
          /\ n > 0 => 2 ^ n = 2 * 2 ^ (n - 1)
          /\ \A m \in 0 .. n : 2 ^ m <= 2 ^ n

VARIABLES
    now,            \* steady_clock, which counts from the host's start
    records,        \* m_attemptRecords
    registrations,  \* m_registrationTimestamps
    lastSweep,      \* m_lastSweepTime
    created         \* history: all accounts each address created

vars == <<now, records, registrations, lastSweep, created>>

RecordsTyped == now \in Nat /\ records \in [Keys -> Record \cup {NoRecord}]

TypeOK ==
    /\ RecordsTyped
    /\ lastSweep \in 0 .. now
    /\ registrations \in [Addresses -> SUBSET Registration]
    /\ created \in [Addresses -> SUBSET Registration]

\* The server may start at any time after its host.
Init ==
    /\ now \in 0 .. MaxTime
    /\ records = [k \in Keys |-> NoRecord]
    /\ registrations = [a \in Addresses |-> {}]
    /\ lastSweep = 0
    /\ created = [a \in Addresses |-> {}]

-----------------------------------------------------------------------------
(* The class.                                                              *)

WindowExpired(record) == now - record.start > FailureWindow

\* sweepStaleEntriesLocked: a record whose window expired has its lockout
\* voided, and then nothing keeps it.
SweepDue == now - lastSweep >= SweepInterval

SweptRecords ==
    [k \in Keys |-> IF SweepDue /\ records[k] # NoRecord /\ WindowExpired(records[k])
                      THEN NoRecord ELSE records[k]]

Recent(timestamps) == {r \in timestamps : now - r.at <= RegistrationWindow}

SweptRegistrations ==
    [a \in Addresses |-> IF SweepDue THEN Recent(registrations[a]) ELSE registrations[a]]

\* dropExpiredLockoutsLocked
Voided(record) ==
    IF WindowExpired(record) /\ record.until > now
      THEN [record EXCEPT !.until = now] ELSE record

\* Mutant: a remainder of less than a second is rounded down to none.
LockedTruncated(k) ==
    /\ SweptRecords[k] # NoRecord
    /\ Voided(SweptRecords[k]).until > now + 1

\* secondsUntilAllowed(k) > 0
Locked(k) ==
    /\ SweptRecords[k] # NoRecord
    /\ Voided(SweptRecords[k]).until > now

\* The records after secondsUntilAllowed was asked about each key of asked.
Asked(asked) ==
    [k \in Keys |-> IF k \in asked /\ SweptRecords[k] # NoRecord
                      THEN Voided(SweptRecords[k]) ELSE SweptRecords[k]]

\* A record that operator[] creates dates from the clock's origin.
Opened(record) ==
    IF record = NoRecord THEN [failures |-> 0, start |-> 0, until |-> 0] ELSE record

\* Mutant: the doubling is not capped.
LockoutUncapped(failures) ==
    LET over == failures - MaxFailures - 1
    IN  2 ^ (IF over < MaxDoublings THEN over ELSE MaxDoublings)

Lockout(failures) ==
    LET over == failures - MaxFailures - 1
        doublings == IF over < MaxDoublings THEN over ELSE MaxDoublings
    IN  IF 2 ^ doublings < MaxLockout THEN 2 ^ doublings ELSE MaxLockout

\* recordFailure
Failed(old) ==
    LET record == IF WindowExpired(Opened(old))
                    THEN [Opened(old) EXCEPT !.start = now, !.failures = 1]
                    ELSE [Opened(old) EXCEPT !.failures = @ + 1]
        from == IF record.until > now THEN record.until ELSE now
    IN  IF record.failures <= MaxFailures THEN record
        ELSE [record EXCEPT !.until = from + Lockout(record.failures)]

-----------------------------------------------------------------------------
(* The handlers.                                                           *)

\* Mutant: one registration too many.
MayRegisterOnceMore(a) == Cardinality(Recent(SweptRegistrations[a])) <= MaxRegistrations

\* isAllowedToRegister
MayRegister(a) == Cardinality(Recent(SweptRegistrations[a])) < MaxRegistrations

Sweep == lastSweep' = IF SweepDue THEN now ELSE lastSweep

\* A locked key answers the request; the keys after it are not asked.
Throttle(address, account) ==
    /\ \/ Locked(address) /\ records' = Asked({address})
       \/ ~Locked(address) /\ Locked(account) /\ records' = Asked({address, account})
    /\ Sweep
    /\ registrations' = SweptRegistrations
    /\ UNCHANGED <<now, created>>

\* What a handler does with the keys once none of them is locked.
Answer(asked, failing, cleared) ==
    /\ \A k \in asked : ~Locked(k)
    /\ Sweep
    /\ records' = [k \in Keys |-> IF k \in failing THEN Failed(Asked(asked)[k])
                                  ELSE IF k \in cleared THEN NoRecord
                                  ELSE Asked(asked)[k]]
    /\ UNCHANGED <<now>>

\* LOGIN, REGISTER and RESET_PASSWORD ask about the address, then the account.
Login(address, account) ==
    LET keys == {address, account}
    IN  /\ \/ Answer(keys, keys, {})
           \/ Answer(keys, {}, keys)
        /\ registrations' = SweptRegistrations
        /\ UNCHANGED created

\* A bad name or a taken one is a failure of the address alone; a used up
\* budget and a database error are not counted.
RegisterRejected(address, account) ==
    LET keys == {address, account}
    IN  /\ \/ /\ Answer(keys, {address}, {})
              /\ registrations' = SweptRegistrations
           \/ /\ Answer(keys, {}, {})
              /\ registrations' = [SweptRegistrations EXCEPT ![address] = Recent(@)]
        /\ UNCHANGED created

\* recordRegistration
Registered(a) == [at |-> now, number |-> Cardinality(created[a])]

Register(address, account) ==
    /\ MayRegister(address)
    /\ Answer({address, account}, {}, {address})
    /\ registrations' = [SweptRegistrations EXCEPT ![address] = Recent(@) \cup {Registered(address)}]
    /\ created' = [created EXCEPT ![address] = @ \cup {Registered(address)}]

ResetPassword(address, account) ==
    LET keys == {address, account}
    IN  /\ \/ Answer(keys, {address}, {})
           \/ Answer(keys, {}, {})
           \/ Answer(keys, {}, keys)
        /\ registrations' = SweptRegistrations
        /\ UNCHANGED created

\* Mutant: does not ask whether the account is locked.
ChangePasswordUnasked(account) ==
    /\ \/ Answer({}, {account}, {})
       \/ Answer({}, {}, {account})
    /\ registrations' = SweptRegistrations
    /\ UNCHANGED created

\* CHANGE_PASSWORD asks about the account of the signed-in user only.
ChangePassword(account) ==
    /\ \/ Answer({account}, {account}, {})
       \/ Answer({account}, {}, {})
       \/ Answer({account}, {}, {account})
    /\ registrations' = SweptRegistrations
    /\ UNCHANGED created

ChangeThrottled(account) ==
    /\ Locked(account)
    /\ records' = Asked({account})
    /\ Sweep
    /\ registrations' = SweptRegistrations
    /\ UNCHANGED <<now, created>>

Tick ==
    /\ now < MaxTime
    /\ now' = now + 1
    /\ UNCHANGED <<records, registrations, lastSweep, created>>

Next ==
    \/ \E a \in Addresses, u \in Accounts :
          \/ Throttle(a, u)
          \/ Login(a, u)
          \/ RegisterRejected(a, u)
          \/ Register(a, u)
          \/ ResetPassword(a, u)
    \/ \E u \in Accounts : ChangePassword(u) \/ ChangeThrottled(u)
    \/ Tick

Spec == Init /\ [][Next]_vars

-----------------------------------------------------------------------------
(* Properties.                                                             *)

\* "capped at kMaxLockout so lockouts always expire on their own"
\* (LoginRateLimiter.cpp:74): although a failure of a locked key would extend
\* its lockout, no key is ever locked for longer than the cap.
LockoutIsCapped ==
    \A k \in Keys : records[k] # NoRecord => records[k].until <= now + MaxLockout

\* "so brute-forcing a password is impractical" (LoginRateLimiter.hpp:12): the
\* doubled lockouts are really sat out.  Whatever handlers record failures of a key,
\* f failures over the limit since the window began took at least the lockouts of
\* all but the last of them: 1, 2, 4 ... seconds up to any 2^n within the cap, and
\* 2^n for each one after that.
Served(failures, n) == (failures - MaxFailures - n) * 2 ^ n - 1

FailuresAreSpaced ==
    \A k \in Keys, n \in 0 .. MaxDoublings :
        records[k] # NoRecord /\ records[k].failures > MaxFailures + n /\ 2 ^ n <= MaxLockout
            => now - records[k].start >= Served(records[k].failures, n)

Running(k) == records[k] # NoRecord /\ records[k].until > now

\* While the window of its failures lasts nothing ends or shortens a key's
\* lockout: no sweep, no success with another key, no password change.
LockoutStandsInWindow ==
    [][\A k \in Keys :
          Running(k) /\ ~WindowExpired(records[k])
            => records'[k] # NoRecord /\ records'[k].until >= records[k].until]_vars

\* However requests, sweeps and the clock alternate, an address never creates
\* more accounts in a window than its budget.
RegistrationBudget == \A a \in Addresses : Cardinality(Recent(created[a])) <= MaxRegistrations
=============================================================================
