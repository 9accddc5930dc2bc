# A TLA+ model of secure-auth-gateway

The gateway issues tokens: an Ed25519-signed PASETO *access token* (15 minutes, checked by
anybody with the public key) and an encrypted *refresh token* (30 days, a cookie, one row of
Redis, single use). Three identical replicas stand behind nginx and share one Postgres and one
Redis, and nothing else. What is hard in it is what happens *between* two calls to those two
stores, on several replicas at once. That is what these modules model, check and prove.

Beside the service the repository holds a load generator whose reports back the README's
throughput and timing claims: a concurrent program of its own, with statistics, a CPU collector and
a report on top. Whether its figures mean what they say is modelled too.

## 1. The system

| Component (source) | State it keeps | Operations | What is hard | What makes it correct |
|---|---|---|---|---|
| Sessions (`handlers/auth.go` Login's tail, Refresh, Logout; `auth/paseto.go`; `redis_db/refresh.go`) | `refresh[id]` records with a TTL in Redis; the token's own `expired_at` | SET, GETDEL, mint, verify | two requests with one cookie, failures between GETDEL and SET, two notions of expiry | one holder per session, single use, a logout is final, the deadline moves by the gap between a rotation's two clock readings and by nothing else |
| Lockout (`handlers/auth.go` Login's head, `redis_db/lockout.go`) | one counter with an expiry per normalized email | GET, TTL, INCR, EXPIRE, DEL | check-then-act, two commands where one is meant, ignored errors, times rounded to seconds | bounded guesses, only the owner or time gives guesses back, locks end, Retry-After is off by a rounding at most |
| Accounts (`handlers/auth.go` Register, `db/migrations`) | the `users` table | SELECT, hash, INSERT | the gap between SELECT and INSERT, lost replies | one account per email, every answer truthful |
| Lifecycle (`cmd/api/main.go`, `database_connection.go`, `migrate.go`, `redis.go`) | goroutines of a replica; schema version, dirty flag and advisory lock in Postgres | connect, migrate, serve, signal, drain, close, exit | replicas that start together, die, or are told to stop at any point | the drain is complete, nobody serves an older schema, starting and stopping end |
| Load generator, open loop (`cmd/loadtest/main.go` runOpenLoop) | queue, in-flight counter, samples | dispatch, drop, send, watch, abort, drain | three kinds of goroutine, a bounded queue, abort against deadline against interrupt | no slot lost, the counter tells the truth, the phase returns |
| Access tokens and gate (`paseto.go`, `pasetoauth/`, `authorize_role.go`) | none but the key; a token's role and expiry | look up, mint, deliver, verify, compare role | a role that is stale for a token's life, clocks of several machines, a slow response | nobody is admitted with a role not held recently |
| Login timing (`auth/timing.go`, `padFailure`, `cmd/loadtest/timing.go`) | the cost calibrated by each replica, lockout counters | calibrate, pad; clear, attempt, measure | replicas calibrated apart, the check locking itself out | both ways to fail take equally long, the check is never throttled |
| Load generator, closed loop (`cmd/loadtest/main.go` run, runPhase; `seed.go`) | users, their samples, two contexts; the gateway's limiter | seed, ramp, send, think, deadline, interrupt, pause | a user can leave its loop in four places, two contexts, a sliding window | no sample lost, nothing cut by the deadline, the compute phase not throttled |
| Statistics and report (`stats.go`, `summary.go`, `cmd/loadreport`, `scripts/loadtest.sh`) | samples, summaries, CPU rows | sum up, rank, stamp, align | phases cut short, slots never sent, rows dropped, a collector killed in mid-reading, a host clock that is not the generator's | figures add up, neither waiting nor time-outs flatter, CPU figures were read when the report says, up to the drift |
| Argon2id, key generation, static handlers, nginx, Compose, scripts, examples | | | | not modelled, see section 7 |

**Interaction.** A request arrives at any replica. `Login` runs Lockout's commands, then, if the
credentials are right, Sessions' two; `Refresh` and `Logout` run Sessions only; `Register` runs
Accounts only. They meet in Redis keys and in the `users` table. Lifecycle says when a replica
runs requests at all, and its `lost` requests are the `Crash` of the other three modules. `AccessGate`
takes over where Login and Refresh have read a role. The load generator meets the gateway in the IP
limiter (`ClosedLoop`) and in the lockout counters (`TimingCheck`); its samples go into `Report`.

## 2. Modules

| Module | Models | Shown by |
|---|---|---|
| `Sessions` | the life of refresh tokens, call by call | runs, `SessionsProofs` |
| `SessionLife` | the abstract promise: a session is begun, open, claimed by one rotation, open again, closed for good | refined by `Sessions` |
| `Lockout` | the failure counter, command by command | runs, `LockoutProofs` |
| `Accounts` | registration, statement by statement | runs, `AccountsProofs` |
| `AtomicRegister` | the abstract promise: a registration happens at one instant | refined by `Accounts` |
| `Lifecycle` | replicas from start to exit | run, `LifecycleProofs` |
| `AccessGate` | roles, access tokens, the two middlewares and clocks that differ | run, `AccessGateProofs` |
| `RoleLease` | the abstract promise: an admission names a role held within a bound | refined by `AccessGate` |
| `OpenLoop` | one open-loop phase | runs, `OpenLoopProofs` |
| `ClosedLoop` | seeding, the two closed-loop phases, the pause, the gateway's limiter | run, `LoadTestProofs` |
| `TimingCheck` | failing logins and their padding, and the check of it | run, `LoadTestProofs` |
| `LoadTest` | the program: one of the three above per run, on its own fairness | run, `LoadTestProofs` |
| `Percentile` | the nearest rank, computed in floating point, and the value at it | run, `ReportProofs` |
| `Report` | samples, summaries, the CPU collector, the report | run, `ReportProofs` |
| `MC*` | instances for TLC: symmetry sets, the spellings of `Lockout`, `Lockout` with and without failures in one run (`MCLockoutModes`) | |

### How state and actions correspond to the code

*A step is one call that leaves the process* (a Redis command, an SQL statement, a channel
operation) with the local computation up to the next one. A request is a record with a program
counter `pc`, the handler's locals and, once it is decided, its status. The time that passes *between*
steps is a step of its own (`Tick`), so it may pass between any two calls. Where code reads the clock twice and
the difference matters, that is two steps as well (a rotation's measuring and minting, an open-loop
phase's deadline and its `start`); other readings in one step are one instant.

*Sessions.* `redis[t]` is `refresh[id]` with the instant Redis evicts it, `payload[t]` what is
sealed in the token (with `root`, the login it descends from, which the code does not store and the
properties need). `LoginSeal`/`StoreOk`/`StoreFails` are auth.go:256-288, `RefreshVerify`,
`RefreshClaim`/`RefreshMiss`, `RefreshMeasure` (`time.Until`, auth.go:396), `RefreshMint` (`time.Now().Add`,
paseto.go:105), `StoreOk` are Refresh's five stages, `LogoutVerify` and `LogoutClaim`/`LogoutMiss` Logout's two.
`Set` is go-redis' SET: no expiry when it is not positive, otherwise whole milliseconds, the rest cut off and one at
least (`Px`). Redis reads the clock in milliseconds (`RedisNow`), a token's `exp` is in ticks, `Milli` to one.
`sent` holds the cookies a client can present, at any time and as often as it likes; `stored`, `wins`,
`ended` and `gaps` (how long a session's rotations stood between measuring and minting) are history variables.

*Lockout.* `count` and `ttl` are the key's value and remaining ticks, `Second` of them to a second. `IsLockedGet` and
`IsLockedTTL` are IsLocked's two commands; what TTL answers is `SecondsLeft`, Redis' rounding to the nearest
second. `RecordFailureIncr` and `RecordFailureExpire` are
RecordFailure's, `ResetFailures` is the DEL. An error of GET reads as "not locked" and the errors of
the others are ignored, as the code does. `RecordFailureIncrFails` has the outcome in which go-redis
resends an INCR whose reply was lost. `guesses` is a history variable.

*Accounts.* `users` are the rows, reduced to id and email; `InsertDuplicate` is SQLSTATE 23505.
`InsertFails` may leave the row behind: the reply was lost.

*Lifecycle.* `main[a]` is where a replica's main goroutine is, `server[a]` its server goroutine.
golang-migrate's lock and dirty flag, pgxpool's closing and net/http's Shutdown are modelled from
how main.go relies on them and marked external in the map. A connection counts as a request from
when it is accepted, as Shutdown counts it.

*OpenLoop.* The dispatcher's select has one action per ready channel; a slot is queued
(`Enqueue`) and counted (`Count`) in two steps because the code does them in two. The clock's unit
is one period of the schedule. It runs from where the phase's context is armed (main.go:484); up to `Setup`
periods pass before `start` is read (:522), while the queue is made (`Allocate`, `Begin`), and `Due(n) = start + n`.

*AccessGate.* `req[q]` is what a Login or Refresh knows between its SELECT and its response: the
user, the role read, when (`asOf`, history) and, once the token is sealed, the expiry. `Reply` needs the
server's write timeout not to have passed; `lapsed` and `answer` are the abstract module's, shared with it.
Every reading of the clock by a replica or verifier is off by up to `Skew` either way. A token is good
at its `ExpiredAt` itself (verifier.go: `After`), so a role lasts `TTL + WriteTimeout + 2 * Skew`.

*ClosedLoop.* `user[u].pc` is where a user's goroutine is, `until` the phase's deadline. The clock moves only
when nobody can run, as timers of milliseconds do against phases of seconds. `sent` (history) counts a user's
requests. `hits` is httprate's counter, a key per address it has counted, which ends two windows later;
`Used` is its sliding-window estimate. Both are external.

*TimingCheck.* `took` is the time since a login's start. `RecordFailure` is a step of the login, for its
Redis call is inside what is padded. `order` holds what is left of the shuffle: any shuffle is taken.

*LoadTest.* `way` chooses the module that moves; the other two stay in one initial state. The variables of
all three are those of one process, and `RunSpec` carries the fairness of all.

*Report.* A sample is entered when it is sent, with its outcome. What stats.go copies out of the samples
are here functions on the places of those it copies (`windowed`), and what input.go picks out of the rows are sets of places in the file.
The slices are sorted only for `percentile` to index: `AtPlace` is the value a sorted slice has at a place,
the one with fewer values below it than the place and at least as many not above it. `Stamped` writes one timestamp per
N rows, as the script's loop does; the field `reading` (history) says of which of docker's readings a row
is, and `readings` (history) when that was taken and what it adds up to. The generator's `clock` is the VM's; a timestamp is
the host's, off by up to `Drift` either way and by another amount each time it is read, and it may be the
same for two readings. `aggregate`
sums what input.go sums; averages are kept as sums and counts.

Definitions named *faulty variant* in a comment are not part of any specification: each is what a
plausible bug would make of the action below it, and every property of a passing run is known to
fail when its variant stands in for the action.

### Assumptions about the outside

- A Redis or Postgres command takes effect no later than its call returns, or not at all; Redis does
  not roll back. (With `Faults` the *reply* may be lost either way.)
- A request is a goroutine that keeps running unless its replica dies or its client goes away.
- In `Sessions` and `Lockout` replicas and Redis read one clock, Redis in whole milliseconds and TTL in whole
  seconds; a token's expiry and its record's eviction are two mechanisms, compared at different instants.
  `AccessGate` and `Report` have clocks that differ.
- A token that was not minted does not decrypt (`NoCookie`), and token ids do not repeat.

## 3. Runs

| Run | Question | Size |
|---|---|---|
| `Sessions_faults` | do sessions stay single, single-use and final when revoked, do deadlines move by the gaps alone, with every failure? Is it all of `SessionLife`? | 1 user, 3 tokens, 2 requests, TTL 1, a tick to the millisecond, clock to 2; about 256,000 states |
| `Sessions_fair` | when nothing fails, is a session ever lost, does a good cookie ever stop working more than a fraction of a millisecond early, does every rotation settle? | 2 tokens, TTL 4, two ticks to the millisecond, clock to 5, no symmetry; about 61,700 |
| `Sessions_logout_race` | does a logout that found its session end it? **No** | |
| `Sessions_immortal_record` | does every record have a TTL? **No** | |
| `Lockout` | windows, budget and locks that end when nothing fails; who clears, and how far off is Retry-After, whatever fails? | limit 2, window of one second of 3 ticks, 2 requests; two accounts, one in two spellings, without failures, one account with them; about 527,000 |
| `Lockout_no_window` | with failures, does every counter have a window? **No** | |
| `Accounts` | one 201 per email ever, atomic registration | 2 emails, 3 ids, 3 requests; about 2,000 with symmetry |
| `Lifecycle` | complete drain, schema, no cut statement, starting and stopping end | 2 replicas, 2 requests, 2 retries, 2 migrations; about 38,000 |
| `AccessGate` | is every admission one `RoleLease` allows? | 1 user, 2 roles, 1 request, 1 client; life, write timeout and skew of 1, clock to 5; about 364,000 |
| `LoadTest` | slots and samples conserved, the monitor's aborts, the window, nothing cut, the compute phase unthrottled, equal times, no lock of its own, and does it end? | open loop: 2 workers, queue of 1, up to 1 to set up, warmup 1, duration 2; closed loop: 2 users, 1 address, limit 2, window 4, pause 6; check: 2 replicas, 2 + 2 attempts; about 461,000 |
| `Report` | do figures add up, does waiting or a time-out flatter, were the CPU figures read when they are said to be, are ranks nearest? | 2 samples in windows or readings of 2 containers and a cut one, clocks 1 apart, 4 plans of phases, ranks for n up to 1100; about 2,830,000 |
| `OpenLoop_verdict` | does the verdict count only what was sent? **No** | the open loop alone, clock to 4 |

**Why the bounds are enough.** Two requests are enough for every race between two calls; the
proofs of section 5 remove the bound. Three tokens make two rotations of one session, or a session
and its neighbour. A TTL of one tick puts the clock before, at and after a deadline, and a rotation's two readings on
both sides of it. Two ticks to the millisecond make a remaining life of less than one, of one, and of one and a
half; `Sessions_fair` has two tokens, for a cookie that works needs one rotation, and a TTL of four for
one to come late in it. Three ticks to the second have a TTL that rounds down to none, up to one, and that is exact. One user is
enough because no code compares two users except `RefreshClaim`, whose mismatch branch no reachable
state takes (`LiveIsUnspent`, proved for any number of users). `Room` keeps a
request that may mint from arriving when no token id would be left for it: the code never runs out. A
limit of two failures has the states below, at and above it. `GuessCap` and `CountCap` bound the
history and the number of errors that slip past a lock. Two migrations have a first, a middle and a
last; two retries a first and a last. A queue of one is full and empty often. `OpenLoop`'s clock stops at the
deadline in the passing run, so a send at the deadline itself, which is outside the window, happens;
it stops one later in the other. One client and one request at a time are enough for `AccessGate`, for
admissions look at one token each; its theorem removes the bound. In `ClosedLoop` limit, window and pause
keep the inequality of the real ones (there and elsewhere a limiter's request is one step, as it is in
httprate's mutex in one replica; replicas that share a Redis counter may each admit one more at the limit): 65 s is more than the 60 + 60/20 = 63 s after which a window used
up at its very end rounds down below the limit, 60 s is not; here 6 is enough and 5 is not. In `TimingCheck`
a target is 10 (calibrated) or 12 (the fallback), and a login's work is 2, 9 or 14, which fits always, always,
and only with the largest jitter of the second; an account may be locked when the check begins. In `Report` two samples suffice for any two outcomes to
meet, and two readings to share an instant or a stamp, or for one to be stamped into a window it was not in;
`MaxEvents` counts both (the two only meet in the window). A drift of one is as long as the window, more than any real one; 1100 values pass the first
whole share of 99.9. The theorems of `ReportProofs` remove the bounds on samples, containers, readings and values.

**Deadlock** is checked in all runs but `LoadTest`, `OpenLoop_verdict` and `Report`: these programs end.

**Symmetry** is used only in runs without liveness: tokens, requests, emails, ids are
interchangeable there.

### Fairness

- `Sessions`, `Lockout`: `WF(Serve(r))`, for net/http gives each request a goroutine; nothing
  forces a client to send one, so arrivals have no fairness. `ModesSpec` adds `WF(Tick)`, time passes; both
  are asked for only in behaviours in which nothing fails.
- `Lifecycle`: startup, server and stop code run (`WF`), and a query Postgres was sent is answered
  (`WF(QueryDone)`). No fairness for `Boot`, signals, kills, arriving requests, nor for a handler's
  own end: `StopsWhenTold` holds although handlers may run for ever, thanks to the ten seconds.
  `StartupSettles` needs no fairness of another replica: one that cannot have the lock fails in the end
  (`StartFails` is the lock's timeout).
- `LoadTest`: goroutines run, timers fire, a request ends at its timeout at the latest, and
  `SF(SelectDone)`: Go's select picks uniformly among ready channels, so it does not pass over
  `phaseCtx.Done` for ever. No fairness for interrupts and aborts: every run ends without them.

## 4. What the runs show

When every property of section 3 holds the design is what the repository says it is, and mostly it
is: GETDEL before SET makes rotation single-use under any interleaving and any failure; a
claim that fails afterwards costs the session and never duplicates it; UNIQUE makes registration
atomic in spite of the SELECT; a complete drain really is complete even if the signal comes before
the listener opens. A role that was taken away outlives its loss by a token's life, a write timeout
and twice the skew, and no longer. The load generator loses no slot and no sample however a run ends,
a deadline cuts no request, and neither the wait for a slot nor a time-out makes a percentile better. (A request that
fails fast does; slots never sent are kept out, which is `SummaryAddsUp`'s matter. The CPU figures were read when the
report says, give or take the drift of two clocks.)

Where a property stops: `ExitCutsNoQuery` is about Postgres statements, which closing the pool awaits; nothing
awaits a Redis command. `EverySlotOnce` counts the slots that were issued, not those still to come when the phase
ended. `OnlyOwnerOrTimeClears` does not speak of a failure counted twice when go-redis resends an INCR, which the model
allows (`RecordFailureIncrFails`), nor of two registered accounts that share a counter. `NeverStoppedByALock` has no
resent INCR.

Four statements of the repository are not what the code does:

1. *Logout against rotation.* README.md:310 says logout ends the session whose cookie is presented.
   If a Refresh claims the record between Logout's verification and its GETDEL, Logout answers 200 and
   the session goes on under the next token (`Sessions_logout_race`).
2. *Immortal records.* README.md:241 gives refresh tokens a 30-day TTL. A rotation at its token's
   deadline, or past it after slow calls, computes a remaining time that is not positive, and go-redis
   sends a SET without expiry (`Sessions_immortal_record`). The damage is bounded: such a record is
   of a token nobody can redeem (`ImmortalRecordIsDead`, proved).
3. *No window.* lockout.go:28-29 says the first failure starts the window. If its EXPIRE fails, or
   the replica dies before it, no later failure repairs it, and at the limit the account is locked with
   no end (`Lockout_no_window`).
4. *Achieved rate.* main.go:444-447 of the load generator says a dropped slot must not be counted as
   anything but never sent. The verdict's `achieved` counts it (`OpenLoop_verdict`).

Further disagreements seen while modelling, without a run of their own.

- *Budget.* README.md:247 says 5 failures in 15 minutes. Logins that overlap all pass the check: the bound
  is the limit plus the overlapping logins, less one (`GuessesBounded`, proved; the run checks it as `BudgetWithoutFaults`).
- *Cookie of a 500.* Login sets the cookie header before the SET, so a 500 can carry a cookie that is not
  on record (auth.go:273; docs/TOKEN_CONTRACT.md:135).
- *Retry-After.* IsLocked answers a full window when the key vanishes between GET and TTL (lockout.go:55-57
  against its comment), which is too long and never too short. Otherwise Redis rounds to the nearest second, so
  Retry-After may send a client back half a second early, and is 0 in a lock's last half second
  (`RetryAfterIsClose`).
- *Deadline.* README.md:241 gives refresh tokens 30 days, and auth.go:395-397 mints a rotated one for the time the old one
  has left. The clock is read again for the minting, so every rotation moves the deadline later by what passed
  in between (`DeadlineMovesByGaps`).
- *Last millisecond.* Redis is sent whole milliseconds, so a rotated record may be gone a fraction of one before
  its token expires; the cookie is then refused though it verifies (`CookieWorks`).
- *Asked for and got.* docs/LOADTEST.md:69 says asking for 30s of data gets 30s. An open-loop phase gets less by the
  time its queue takes to be made, while its deadline already runs (`FullRunMissesOnlySetup`).
- *Spellings.* Accounts are keyed by the email as sent and the counter by the normalized one, so two
  registered spellings share a counter.
- *SIGTERM.* One that comes while the server already listens but before `NotifyContext` kills without
  draining (cmd/api/main.go:124 and 132; README.md:167).
- *Token life.* docs/TOKEN_CONTRACT.md:121-122 calls the 15-minute TTL the only bound on a stale role. The
  life starts at minting, after the role was read; the bound is `RoleLease`'s.
- *Padding.* README.md:229 and 248 speak of a dummy hash for an unknown email; the code pads to a calibrated
  target and verifies nothing.
- *Timing check.* It seeds before it clears (timing.go:42-48), where the throughput run clears first
  (main.go:187-189): an account locked before the check makes its seeding fail.
- *Cap.* `-max-inflight` says "abort if this many requests are outstanding" (cmd/loadtest/main.go:94), but the
  abort needs five looks above 90% of it, and queue and senders together may hold more.
- *Completed.* docs/LOADTEST.md:142 and report.go:108 count requests "completed" in the window, the code
  those sent in it.
- *Interrupted.* An interrupted closed loop is still divided by the full `-duration` (main.go:759; the
  open loop clips it, 640-642).
- *p99.9.* 99.9/100 times a multiple of 1000 mostly comes out above the whole number, so the rank is one
  too high there: p99.9 of 1000 samples is the maximum (stats.go:213-217; `RankIsNearest`).
- *Dropped rows.* scripts/loadtest.sh:222-223 says a group of rows is exactly one reading. Once the grep has dropped
  a `--` row, later groups mix readings and may count a container twice (`skipped` in `CpuFiguresWereRead`).
- *Shared stamps.* Nor need it be one otherwise: nothing keeps two readings from the same millisecond, and the clock
  they are stamped with may be set back. Their rows are then summed into one group.
- *Drift.* A report labels its CPU figures with the phase's window (report.go:249-263). The window is the VM's and the
  stamps are the host's; input.go:164-166 says that they drift and drops the window only when nothing or almost
  nothing is left of it. A windowed figure may be of readings just outside it.
- *Averages.* input.go:152-153 says "same for the average", which is wrong when a container misses a poll; the
  fallback of `len(in) < 3` counts rows, its warning (report.go:254) polls.

## 5. Proofs

TLAPS checks these for every value of the constants, under the named assumption of each module
(`SessionsAssumption`, `LockoutAssumption`, `AccountsAssumption`, `LifecycleAssumption`,
`AccessGateAssumption`, `OpenLoopAssumption`, `LoadTestAssumption`, `ReportAssumption`), which type
the constants, keep the null values apart and have at least one worker, user, address and attempt (the
lockout's threshold is above two in the timing check; in the code it is five). Beyond that, `Report`'s bounds are
at most 2^30, for so many values the floating-point product of a rank is described. A think time, a drift, a setup of 0 are
among the values. The five theorems about
what holds while nothing fails assume `~ Faults`, as the runs that check them do; `PauseIsEnough` assumes
`PauseForgets`, of which more below.

| Module | Theorems |
|---|---|
| `SessionsProofs` | `Invariance`, `TypeCorrect`, `AtMostOneHolder`, `TokensAreSingleUse`, `LogoutIsFinal`, `DeadlineIsBounded`, `ImmortalIsDead`, `SuccessBacked`; `RefinesSessionLife` (of `SessionLife`), `NeverReopened`; `CookiesWork` when nothing fails |
| `LockoutProofs` | `TypeCorrect`, `OnlyOwnersClear`, `RetryAfterIsHonest`; when nothing fails `CountersExpire` and `BudgetHolds`, and the same of the run's specification, `CleanWindows` and `CleanBudget` |
| `AccountsProofs` | `Invariance`, `TypeCorrect`, `NoEmailWelcomedTwice`, `RegisterIsAtomic` (the refinement of `AtomicRegister`), `AnswersAreTrue` |
| `LifecycleProofs` | `Invariance`, `TypeCorrect`, `DrainsCompletely`, `ServesOnItsSchema`, `ExitAwaitsQueries` |
| `AccessGateProofs` | `Invariance`, `TypeCorrect`, `Refinement` (of `RoleLease`), `RolesRunOut` |
| `OpenLoopProofs` | `TypeCorrect`, `SlotsConserved`, `CounterTrue`, `MeasuredButForSetup`, `AbortJustified` |
| `LoadTestProofs` | `WaysWellTyped`, `EverySampleKept`, `DeadlineCuts`, `PauseIsEnough`, `FailuresAlike`, `ChecksMeetNoLock` |
| `ReportProofs` | `ReportWellTyped`, `FiguresAgree`, `NothingIsFlattered`, `SaturationWasRead`; `RankIsNearest`, `RanksNearest`, `PercentileIsSmallest` |

**Sessions.** `OneHolder` alone is not inductive. Its strengthening `IInv` adds that every token
descends from a login (`Lineages`), that nothing is recorded of an unminted token (`OnlyMinted`), what
a request knows at each point (`RequestsSound`: the token it is about to store is minted, unspent and of the
lineage it holds), and that a live token has never been redeemed (`LiveIsUnspent`). The argument: a
lineage is *held* by a live record or by a request between its GETDEL and its SET; a claim moves the
one hold from the record to the request, the SET moves it back under a fresh token, everything else
only drops it. So a dropped lineage stays dropped, which is `LogoutFinal`, and a redeemed token
cannot be live again, which is `SingleRedemption`. One lemma per action.

*Refinement of `SessionLife`.* A session's phase there is a function of what holds its lineage here: a live
record (open), a request between GETDEL and SET (claimed), nothing (closed). Most steps leave every phase
alone; the lemmas show for each of the others which one session it moves and that nothing else holds that
lineage, which is `OneHolder` again. The fairness `SessionLife` is given in `Sessions_fair` stays with TLC.

*The deadline.* `MeasuredRight` says of a rotation that has measured that its remaining time, counted from now, ends no
earlier than the login's deadline and later by no more than `gaps`: while it stands between its two readings both grow
together.

*`CookiesWork`.* A token's expiry and its record's eviction are set from readings of the clock at different
instants and in different units, so `CookieWorks` needs to know that the second is never the earlier: `RecordsOutlive` says of a request about to write
that the lifetime it computed reaches its token's expiry, `StoredWork` the same of the record, and
`DisclosedStored` that no client has a cookie that was never on record.

**Lockout.** `BudgetInv` is the argument for `GuessesBounded`: a login that passed the check holds a
place of the budget until its failure is counted, so the counter plus the logins past the check stays
below the limit plus all logins; every guess is counted or about to be. The step lemmas are about the
cardinality of the set of such logins.

`OnlyOwnerOrTimeClears` is a property of steps: a counter falls in `Tick` when its window ends, or in
`ResetFailures`; there `OwnersReset` says that a login that is about to reset had the right password of a
registered account. `RetryAfterIsClose` is one too: what TTL answers, read as the code reads it, is within the
rounded half second of what the key has left, or a full window.

**Accounts.** `OneWelcome` needs: one row per email, a request's email and outcome at each point,
a row behind each 201, and behind each email that was welcomed. Refinement: each step of a
handler maps to the abstract step its outcome names, or stutters.

**Lifecycle.** `ServerFollowsMain` (a listener is open only while main is before its drain) makes
`DrainIsComplete` inductive; `DirtyIsPending` (a dirty version is not the last) makes the typing of
`schema` so; `SchemaReady` is inductive beside them because a replica past its migrations forbids a
further one.

**AccessGate.** A role that was read at `asOf` was held then, so it is held now or lapsed no earlier
(`HeldSince`). The invariant carries this through the three places a role can be: looked up, sealed (with an
expiry at most `TTL + Skew` after sealing) and delivered (within `WriteTimeout` of the lookup). An
admission then has `asOf >= clock - Bound`, which is the guard of `RoleLease`'s `Admit`; every other step maps to the
abstract step of the same name, a refusal, or a stutter.

**OpenLoop.** `EverySlotOnce` is not inductive: it counts slots and does not say that they differ. `IInv`
adds that every slot below `issued`, and no other, is in the queue, with a worker or a sample
(`AllAccounted`), and never in two of them (`SlotsApart`), so that each move changes each cardinality by one;
that workers leave only a closed and empty queue (`EndInOrder`), which makes the count at the end that of
the samples; and that a phase that expired had its time since its context was armed (`ExpiredInTime`), so that measured from `start`
it lacks no more than `start`. `InFlightIsBacklog` bounds what
the monitor reads by the backlog; with `MonitorWaits` (the monitor stops at its last strike) an abort follows
from the look that gave that strike.

**LoadTest.** The steps of one way leave the variables of the other two alone (`StepsApart`), so each way has an
invariant of its own; the open loop's is that of `OpenLoopProofs`.

*Closed loop.* `EverySendKept` speaks of the end only. `SamplesKept` says at every moment that what a user sent
is what it keeps and, while it sends, one more; that a user that is done has published what it kept; and that one
that waits in the ramp has nothing, which is why leaving there unpublished loses nothing.

*The pause.* `ComputeUnthrottled` holds for a reason of arithmetic. The limiter counts an address up to `Limit` per
window (`AdmittedBounded`). In the pause nobody sends, so a window that begins in it has counted nothing, and so has the
one before a window that began later still (`PauseQuiet`). When the pause is over, at most `Limit` of a window that began no
later than the pause remain, weighed by a part of a window at most `2 * Window - Cooldown` long, and
`PauseForgets` (`2 * Limit * (Cooldown - Window) > Window`) is exactly what makes that round down below
`Limit`: for the code's 10 a minute and 65 seconds it is 100 > 60, for the run's 2, 4 and 6 it is 8 > 4, and a pause of
one window, 0, is the mutant. In the compute phase no two requests share an address and no address comes back
(`AddressesFree`), so each of them finds at most that.

*Timing check.* `TookTheTarget` says what `PathsTakeTheSameTime` compares: every login whose work fits took what its
replica was calibrated to and the jitter. For `NeverStoppedByALock` the invariant says who can have failures at all
(`CountersLow`): an account whose lock the check found, and names it has tried, one each, but not the name of a
login that has not failed yet nor one still to come. `GroupsCounted` bounds the samples by the attempts, which
types the rest.

**By way of the abstract specifications.** Three theorems are about their few actions and hold of the code's
models because those implement them; `RevokedRunsOut`, `AnswersTrue` and `ClosedForGood` are defined beside the
proofs. `RolesRunOut`: a role's last loss is recorded once, so an admission of a user who lost it and has it no more names
that one instant, which lies within the bound. `AnswersAreTrue`: who is told that the email has an account asked
when it had, and accounts stay. `NeverReopened`: no action of `SessionLife` leaves `closed`; of `Sessions`, where a
phase is computed from the records and from what requests hold, that says that nothing under way can
bring a session back.

**Percentile.** A ceiling lies between a share and one more; clamping never moves it, and rounding up by a
unit in the last place moves it by one at most. Which products come out too high is described for the percentages in use (`InUse`) and up
to 2^30 values, and the theorems speak of those only: 55/100 times 100, say, is too high as well. For a p and n
that are not rounded up the rank is the nearest
(`RankExact`); those that are have p = 99.9 and n a multiple of 1000 (`RankOfWhole`). That there is a value
at every place (`PlaceIsTaken`): the greatest value has all others not above it, and of the values that have enough not above
them the least has fewer than that below it, for the next one down would have served otherwise. So `percentile`
returns what the comment at stats.go:213 says (`PercentileIsSmallest`).

**Report.** Sums and greatest elements of sets of any size take an induction. It is made with a least counterexample:
a set of naturals that is not empty has a least member (`LeastNatural`, from the well-foundedness of `<`), so of
the sets that would be a counterexample there is one of least cardinality, and one without an element of it is
none. That gives that finite sets are bounded (so `Max` is what its name says), that the recursive function
behind `SumFunction` exists (`FoldExists`), without which its value would be unknown, that sums of naturals are
naturals, that a sum may begin with any element (`FoldAnyFirst`; the definition takes a chosen one) and, from this,
that a sum is that of the sums of its groups (`SumByGroups`).

*A phase's figures.* `SummaryAddsUp` and `NothingFlatters` need of the state only that samples are well typed and that those that
timed out have the timeout for latency (`SamplesSound`). Counts are cardinalities of disjoint sets (`AllCounted`).
If every value is as great or greater, so is the value at a place (`SlowerIsNotFaster`); adding
values that none exceeds does not lower the value at a place or at a higher one, and of more values the rank is
no lower (`SlowestCount`, `RankGrows`).

*The saturation.* `CpuFiguresWereRead` speaks of the end; `ReportInv` says what makes it so while the files are written. Every row is of a
reading there was, a reading shows a container once (`OneRowEach`), and a reading's total is the sum of its rows
(`TotalsTrue`). As long as no row was dropped the file has N rows per reading while the generator runs
(`WholeReadings`), so a timestamp is taken with a reading's first row and serves all its rows, and is
off the reading's instant by the drift at most (`StampsTrue`); the reading that was cut short when the collector was
killed is the last and changes none of that. So the rows of one stamp are whole readings, and what they add up to is
their totals together (`AtIsTotal`, which groups a sum by reading); there are no more stamps than readings
(`StampsAreFew`), nor more rows of a container, one in each. What is counted is all rows or those stamped in a
window, in both cases whole readings again. `ReportMade` carries the files to the report: nothing happens after it.

**Only model-checked:** all liveness and what needs fairness (`LocksEndWithoutFaults`, `StopsWhenTold`,
`StartupSettles`, `EveryRunEnds`, `ImplementsFairSessionLife`), which is out of the prover's reach. Every other property of
a passing run is a theorem.

## 6. Plan

Done: every module of section 2, its runs and theorems. Open:

- `LoginFlow`: Lockout, Accounts and Sessions composed over the shared keys, two registered spellings of one
  key included; which properties of the parts survive. The parts share no variable but the counter of
  two spellings, which `Lockout` already has.

The runs are at the number that stays quick to check; new questions share configurations (`LoadTest` and
`Lockout` do) rather than add up.

## 7. Not modelled

- Argon2id and PASETO cryptography: a verdict is an input; a forged token does not verify.
- The IP limiter is third-party code (httprate). `ClosedLoop` has its sliding window; elsewhere a rejected
  request reaches no handler, and in the models a request may always not arrive.
- Token and password encodings; JSON, headers and cookie attributes, apart from which token a response
  discloses; logging; the pprof listener; key generation; static handlers; the examples.
- nginx, Compose and scripts, which only fix that several replicas share one Redis and one Postgres;
  of scripts/loadtest.sh the collector and the order of its steps are in `Report`.
- Of the load tools: the text of reports, CSV and JSON, rates as fractions, the limiter phase's own report,
  the statistics of reportTiming (bootstrap, Mann-Whitney, its verdict), headroom and nines in report.go.
  They are arithmetic on what is modelled, with no state.
