------------------------------ MODULE Lockout -------------------------------
(***************************************************************************)
(* The head of Login (internal/handlers/auth.go:211-254) with the failure  *)
(* counter of internal/redis_db/lockout.go: a login asks for the counter,  *)
(* looks the user up, checks the password, and counts the failure or       *)
(* clears the counter.  The counter is one Redis key per account, read,    *)
(* incremented and given its expiry by separate commands, so logins for    *)
(* one account interleave between any two of them.                         *)
(*                                                                         *)
(* What an accepted login does next is Sessions.                           *)
(***************************************************************************)
EXTENDS Integers, FiniteSets

CONSTANTS
    Emails,      \* emails as a client may spell them
    Registered,  \* those that match a row of users exactly
    Keys,        \* loginlock:<normalized email>
    KeyOf,       \* LockoutKey: spelling -> key
    Reqs,        \* logins in flight at a time
    MaxLoginFailures,
    LockoutWindow,  \* in seconds, as EXPIRE takes it
    Second,      \* ticks per second: Redis counts time finer than TTL tells it
    GuessCap,    \* the history variable guesses stops here
    CountCap,    \* no login slips past the lock by a Redis error above this count
    Faults,      \* may Redis, Postgres, the clients and the replicas fail?
    NoTTL, NoEmail

ASSUME LockoutAssumption ==
    /\ Registered \subseteq Emails
    /\ KeyOf \in [Emails -> Keys]
    /\ MaxLoginFailures \in Nat \ {0}
    /\ LockoutWindow \in Nat \ {0}
    /\ Second \in Nat \ {0}
    /\ GuessCap \in Nat /\ CountCap \in Nat
    /\ Faults \in BOOLEAN
    /\ NoTTL \notin Int
    /\ IsFiniteSet(Reqs)
    /\ NoEmail \notin Emails

VARIABLES
    count,    \* key -> the counter; 0 when the key does not exist
    ttl,      \* key -> ticks until Redis drops the key, or NoTTL
    login,    \* request -> the handler's local state
    guesses   \* history: credentials refused since the key last did not exist

vars == <<count, ttl, login, guesses>>

Window == LockoutWindow * Second  \* in ticks

PCs   == {"idle", "ttl", "lookup", "incr", "expire", "reset", "reply"}
Statuses == {0, 201, 401, 429, 500}
Login == [pc : PCs,
          email  : Emails \cup {NoEmail},
          good   : BOOLEAN,             \* is the password the account's?
          status : Statuses,
          retry  : 0 .. LockoutWindow]  \* Retry-After, in seconds

Idle == [pc |-> "idle", email |-> NoEmail, good |-> FALSE, status |-> 0, retry |-> 0]

Init == /\ count = [k \in Keys |-> 0]
        /\ ttl = [k \in Keys |-> NoTTL]
        /\ login = [r \in Reqs |-> Idle]
        /\ guesses = [k \in Keys |-> 0]

-----------------------------------------------------------------------------
Key(r)      == KeyOf[login[r].email]
At(r, pc)   == login[r].pc = pc
Goto(r, pc) == login' = [login EXCEPT ![r].pc = pc]
Answer(r, status) ==
    login' = [login EXCEPT ![r].pc = "reply", ![r].status = status]

\* INCR creates the key without an expiry, or keeps the one it has.
Incremented(k, by) == count' = [count EXCEPT ![k] = @ + by] /\ UNCHANGED ttl

\* The keys in gone do not exist any more.
Dropped(gone) ==
    /\ count' = [k \in Keys |-> IF k \in gone THEN 0 ELSE count[k]]
    /\ guesses' = [k \in Keys |-> IF k \in gone THEN 0 ELSE guesses[k]]

-----------------------------------------------------------------------------
\* Faulty variant: the comparison lets one failure too many through.
IsLockedGetOffByOne(r, e, good) ==
    /\ At(r, "idle")
    /\ login' = [login EXCEPT ![r] =
                   [Idle EXCEPT !.pc = IF count[KeyOf[e]] <= MaxLoginFailures
                                       THEN "lookup" ELSE "ttl",
                                !.email = e, !.good = good]]
    /\ UNCHANGED <<count, ttl, guesses>>

\* A login arrives and GETs the counter; an error reads as "not locked".
IsLockedGet(r, e, good) ==
    /\ At(r, "idle")
    /\ \E pc \in {"ttl", "lookup"} :
          /\ pc = (IF count[KeyOf[e]] < MaxLoginFailures THEN "lookup" ELSE "ttl")
             \/ (Faults /\ count[KeyOf[e]] < CountCap /\ pc = "lookup")
          /\ login' = [login EXCEPT ![r] =
                         [Idle EXCEPT !.pc = pc, !.email = e, !.good = good]]
    /\ UNCHANGED <<count, ttl, guesses>>

\* The reply to TTL: whole seconds, rounded to the nearest.
SecondsLeft(ticks) == (ticks + (Second \div 2)) \div Second

\* Faulty variant: a failing TTL leaves the zero time it was declared with.
IsLockedTTLZero(r) ==
    /\ At(r, "ttl")
    /\ \E left \in 0 .. LockoutWindow :
          /\ left = (IF ttl[Key(r)] = NoTTL THEN LockoutWindow ELSE SecondsLeft(ttl[Key(r)]))
             \/ (Faults /\ left = 0)
          /\ login' = [login EXCEPT ![r].pc = "reply", ![r].status = 429,
                                    ![r].retry = left]
    /\ UNCHANGED <<count, ttl, guesses>>

\* It is locked: TTL says for how long.  An error, a key without expiry and a key
\* that is gone all read as a full window; the last half second may read as none.
IsLockedTTL(r) ==
    /\ At(r, "ttl")
    /\ \E left \in 0 .. LockoutWindow :
          /\ left = (IF ttl[Key(r)] = NoTTL THEN LockoutWindow ELSE SecondsLeft(ttl[Key(r)]))
             \/ (Faults /\ left = LockoutWindow)
          /\ login' = [login EXCEPT ![r].pc = "reply", ![r].status = 429,
                                    ![r].retry = left]
    /\ UNCHANGED <<count, ttl, guesses>>

\* Faulty variant: the counter is cleared for an account that exists, whatever
\* the password.
LookupClearsEarly(r) ==
    /\ At(r, "lookup")
    /\ Goto(r, IF login[r].email \in Registered THEN "reset" ELSE "incr")
    /\ UNCHANGED <<count, ttl, guesses>>

\* The user is looked up by the spelling sent, and the password verified.
Lookup(r) ==
    /\ At(r, "lookup")
    /\ IF login[r].email \in Registered /\ login[r].good
       THEN Goto(r, "reset") /\ UNCHANGED guesses
       ELSE /\ Goto(r, "incr")
            /\ guesses' = [guesses EXCEPT
                             ![Key(r)] = IF @ < GuessCap THEN @ + 1 ELSE @]
    /\ UNCHANGED <<count, ttl>>

LookupFails(r) ==
    /\ Faults /\ At(r, "lookup")
    /\ Answer(r, 500)
    /\ UNCHANGED <<count, ttl, guesses>>

\* RecordFailure: INCR, and only the first failure goes on to EXPIRE.
RecordFailureIncr(r) ==
    /\ At(r, "incr")
    /\ Incremented(Key(r), 1)
    /\ IF count[Key(r)] + 1 = 1 THEN Goto(r, "expire") ELSE Answer(r, 401)
    /\ UNCHANGED guesses

\* The reply to INCR is lost.  Redis applied it or not, and go-redis gives up or
\* sends it again, in which case Login sees the second result.
RecordFailureIncrFails(r) ==
    /\ Faults /\ At(r, "incr")
    /\ \/ UNCHANGED <<count, ttl>> /\ Answer(r, 401)
       \/ Incremented(Key(r), 1) /\ Answer(r, 401)
       \/ Incremented(Key(r), 2) /\ Answer(r, 401)
    /\ UNCHANGED guesses

\* Faulty variant: the window is passed in seconds where milliseconds are meant.
RecordFailureExpireWrongUnit(r) ==
    /\ At(r, "expire")
    /\ ttl' = [ttl EXCEPT ![Key(r)] = IF count[Key(r)] > 0 THEN Window * 1000 ELSE @]
    /\ Answer(r, 401)
    /\ UNCHANGED <<count, guesses>>

\* Faulty variant: EXPIRE ... XX, which only renews an expiry the key already has.
RecordFailureExpireXX(r) ==
    /\ At(r, "expire")
    /\ ttl' = [ttl EXCEPT ![Key(r)] = IF @ # NoTTL THEN Window ELSE @]
    /\ Answer(r, 401)
    /\ UNCHANGED <<count, guesses>>

\* RecordFailure: EXPIRE, which does nothing to a key that is gone.
RecordFailureExpire(r) ==
    /\ At(r, "expire")
    /\ ttl' = [ttl EXCEPT ![Key(r)] = IF count[Key(r)] > 0 THEN Window ELSE @]
    /\ Answer(r, 401)
    /\ UNCHANGED <<count, guesses>>

\* Login ignores the error of RecordFailure.
RecordFailureExpireFails(r) ==
    /\ Faults /\ At(r, "expire")
    /\ Answer(r, 401)
    /\ UNCHANGED <<count, ttl, guesses>>

\* The credentials are right: DEL, then the tail of Login (Sessions).
ResetFailures(r) ==
    /\ At(r, "reset")
    /\ Dropped({Key(r)})
    /\ ttl' = [ttl EXCEPT ![Key(r)] = NoTTL]
    /\ Answer(r, 201)

\* Login ignores the error of ResetFailures.
ResetFailuresFails(r) ==
    /\ Faults /\ At(r, "reset")
    /\ Answer(r, 201)
    /\ UNCHANGED <<count, ttl, guesses>>

Reply(r) ==
    /\ At(r, "reply")
    /\ login' = [login EXCEPT ![r] = Idle]
    /\ UNCHANGED <<count, ttl, guesses>>

\* A replica dies, or the client is gone and its context with it.
Crash(r) ==
    /\ Faults
    /\ ~ At(r, "idle")
    /\ login' = [login EXCEPT ![r] = Idle]
    /\ UNCHANGED <<count, ttl, guesses>>

\* Time passes; Redis drops the keys whose time is over.
Tick ==
    LET gone == {k \in Keys : ttl[k] = 1} IN
    /\ \E k \in Keys : ttl[k] # NoTTL
    /\ Dropped(gone)
    /\ ttl' = [k \in Keys |-> IF k \in gone \/ ttl[k] = NoTTL THEN NoTTL ELSE ttl[k] - 1]
    /\ UNCHANGED login

-----------------------------------------------------------------------------
Arrive(r) == \E e \in Emails, good \in BOOLEAN : IsLockedGet(r, e, good)

Serve(r) ==
    \/ IsLockedTTL(r)
    \/ Lookup(r) \/ LookupFails(r)
    \/ RecordFailureIncr(r) \/ RecordFailureIncrFails(r)
    \/ RecordFailureExpire(r) \/ RecordFailureExpireFails(r)
    \/ ResetFailures(r) \/ ResetFailuresFails(r)
    \/ Reply(r)

Next == \/ Tick
        \/ \E r \in Reqs : Arrive(r) \/ Serve(r) \/ Crash(r)

Spec == Init /\ [][Next]_vars

-----------------------------------------------------------------------------
TypeOK ==
    /\ count \in [Keys -> Nat]
    /\ ttl \in [Keys -> (1 .. Window) \cup {NoTTL}]
    /\ login \in [Reqs -> Login]
    /\ guesses \in [Keys -> 0 .. GuessCap]

Locked(k)      == count[k] >= MaxLoginFailures
Pending(k, pc) == {r \in Reqs : At(r, pc) /\ Key(r) = k}

\* A failure counter always has its window, or the login that created it is about
\* to start it (lockout.go:28: "starts the expiry window on the first failure").
\* Without it a counter, and a lock, last for ever.
CounterHasWindow ==
    \A k \in Keys : count[k] > 0 => ttl[k] # NoTTL \/ Pending(k, "expire") # {}

\* The lock is a check before the act: a counter stops at one short of the limit
\* plus the logins that passed the check together (lockout.go:50, auth.go:211-248).
CounterBounded == \A k \in Keys : count[k] < MaxLoginFailures + Cardinality(Reqs)

\* So does the number of passwords an account can be tried with, over all the
\* spellings of its email, before its window is over or its owner logs in.
GuessesBounded == \A k \in Keys : guesses[k] < MaxLoginFailures + Cardinality(Reqs)

\* Where the bounds come from: a login that has passed the check holds a place of
\* the budget until its failure is counted, and every guess is one of the two.
Past(k) == {r \in Reqs : login[r].pc \in {"lookup", "incr"} /\ Key(r) = k}
BudgetInv ==
    \A k \in Keys :
        /\ count[k] + Cardinality(Past(k)) < MaxLoginFailures + Cardinality(Reqs)
        /\ guesses[k] <= count[k] + Cardinality(Pending(k, "incr"))

\* A login told to come back later is told when: Retry-After is off the end of the
\* counter's window by no more than the half second that TTL rounds away, to either
\* side, unless it is a full window, which is never too short (lockout.go:55, auth.go:213).
RetryAfterIsClose ==
    [][\A r \in Reqs :
          At(r, "ttl") /\ At(r, "reply")' /\ ttl[Key(r)] # NoTTL =>
             LET told == login'[r].retry * Second IN
             /\ ttl[Key(r)] <= told + (Second \div 2)
             /\ told <= ttl[Key(r)] + (Second \div 2) \/ told = Window]_vars

\* Only the account's owner or the end of the window gives guesses back: no refused
\* login, of any spelling and at any point of its handler, lowers the counter.
OnlyOwnerOrTimeClears ==
    [][\A k \in Keys : count'[k] < count[k] =>
          \/ ttl[k] = 1
          \/ \E r \in Pending(k, "reset") :
                login[r].good /\ login[r].email \in Registered]_vars

\* A lock ends: with running handlers and passing time a locked account is
\* unlocked again, whatever logins keep arriving meanwhile.
LocksEnd == \A k \in Keys : Locked(k) ~> ~ Locked(k)
=============================================================================
