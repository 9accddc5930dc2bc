------------------------------ MODULE Sessions ------------------------------
(***************************************************************************)
(* The life of refresh tokens: the tail of Login, Refresh and Logout of    *)
(* internal/handlers/auth.go, the refresh tokens of internal/auth/paseto.go *)
(* and the Redis records refresh[id] that make a token redeemable once.    *)
(*                                                                         *)
(* Every request is a process of its own: the three replicas serve them    *)
(* concurrently and share nothing but Redis and Postgres.  One step of a   *)
(* request is one Redis or Postgres call together with the local           *)
(* computation up to the next call, so requests interleave exactly where   *)
(* the code leaves the process, and where it reads the clock once more:    *)
(* a rotation measures what is left and mints with it at a later instant.  *)
(* Redis keeps time in whole milliseconds, the tokens in finer ticks.      *)
(***************************************************************************)
EXTENDS Integers, FiniteSets

CONSTANTS
    Users,       \* user ids
    Tokens,      \* refresh tokens the service can mint (their token_id)
    Reqs,        \* requests in flight at a time
    RefreshTTL,  \* 30*24*time.Hour, in ticks of the clock
    Milli,       \* ticks per millisecond, the unit of an expiry in Redis
    MaxTime,     \* the clock stops here: the bound on a behaviour's length
    Faults,      \* may Redis, Postgres, the clients and the replicas fail?
    NoToken, NoPayload, NoRecord, Forever

ASSUME SessionsAssumption ==
    /\ RefreshTTL \in Nat \ {0}
    /\ Milli \in Nat \ {0}
    /\ MaxTime \in Nat
    /\ Faults \in BOOLEAN
    /\ NoToken \notin Tokens
    /\ NoPayload \notin [user : Users, exp : Int, root : Tokens]
    /\ Forever \notin Int
    /\ NoRecord \notin [user : Users, until : Int \cup {Forever}]

VARIABLES
    now,      \* the clock the replicas and Redis share
    redis,    \* token -> its record: the owner, and when Redis evicts it
    payload,  \* token -> what is encrypted in it; root is the login it descends from
    req,      \* request -> the handler's local state
    sent,     \* tokens some response has disclosed in a Set-Cookie header
    stored,   \* history: tokens whose record was written
    wins,     \* history: how many redemptions of a token Redis granted
    ended,    \* history: logins a Logout has deleted the record of
    gaps      \* history: login -> time its rotations stood between measuring and minting

vars == <<now, redis, payload, req, sent, stored, wins, ended, gaps>>

Payload == [user : Users, exp : Int, root : Tokens]
Record  == [user : Users, until : Int \cup {Forever}]  \* in milliseconds
PCs     == {"idle", "login_set", "refresh_claim", "refresh_role",
            "refresh_mint", "refresh_set", "logout_claim", "reply"}
Request == [pc     : PCs,
            cookie : Tokens \cup {NoToken},  \* the token presented
            fresh  : Tokens \cup {NoToken},  \* the token being minted
            rem    : Int,                    \* remaining_time_refresh_token
            header : Tokens \cup {NoToken},  \* Set-Cookie of the response so far
            status : {0, 200, 201, 401, 500},
            aim    : Tokens \cup {NoToken}]  \* history: the session a Logout found live

Idle == [pc |-> "idle", cookie |-> NoToken, fresh |-> NoToken, rem |-> 0,
         header |-> NoToken, status |-> 0, aim |-> NoToken]

Init ==
    /\ now = 0
    /\ redis = [t \in Tokens |-> NoRecord]
    /\ payload = [t \in Tokens |-> NoPayload]
    /\ req = [r \in Reqs |-> Idle]
    /\ sent = {} /\ stored = {} /\ ended = {}
    /\ wins = [t \in Tokens |-> 0]
    /\ gaps = [t \in Tokens |-> 0]

-----------------------------------------------------------------------------
Minted(t) == payload[t] # NoPayload
Live(t)   == redis[t] # NoRecord

\* TokenMeta.Valid: a token is still valid at the instant it expires.
Valid(t) == ~ (now > payload[t].exp)

\* CreateRefreshToken: a new token_id, expiring `duration` from now.
Create(t, u, duration, root) ==
    /\ ~ Minted(t)
    /\ payload' = [payload EXCEPT
                     ![t] = [user |-> u, exp |-> now + duration, root |-> root]]

\* The clock as Redis reads it.
RedisNow == now \div Milli

\* go-redis' formatMs: whole milliseconds, and at least one.
Px(ttl) == IF ttl < Milli THEN 1 ELSE ttl \div Milli

\* Faulty variant: the record goes a whole millisecond before its expiry is over.
SetShort(t, u, ttl) ==
    redis' = [redis EXCEPT ![t] =
                [user |-> u, until |-> IF ttl > 0 THEN RedisNow + Px(ttl) - 1 ELSE Forever]]

\* Redis SET through go-redis: an expiration that is not positive is not sent.
Set(t, u, ttl) ==
    redis' = [redis EXCEPT ![t] =
                [user |-> u, until |-> IF ttl > 0 THEN RedisNow + Px(ttl) ELSE Forever]]

\* Faulty variant: a GET, the delete being left to a later call.
GetDelLeaky(t) == Live(t) /\ UNCHANGED redis

\* Redis GETDEL of a record that exists: it is read and gone in one step.
GetDel(t) == /\ Live(t)
             /\ redis' = [redis EXCEPT ![t] = NoRecord]

\* The bound on Tokens: a request that may mint arrives only while every rotation
\* already under way still finds a token_id to use.
Room == Cardinality({t \in Tokens : ~ Minted(t)}) >
        Cardinality({r \in Reqs : 
            req[r].pc \in {"refresh_claim", "refresh_role", "refresh_mint"}})

Goto(r, pc)     == req' = [req EXCEPT ![r] = [@ EXCEPT !.pc = pc]]
\* A status is written: the handler's locals are done with, the headers are not.
Answered(q, st) == [Idle EXCEPT !.pc = "reply", !.status = st,
                                !.header = q.header]
Answer(r, st)   == req' = [req EXCEPT ![r] = Answered(@, st)]

-----------------------------------------------------------------------------
(* Login, once the credentials are accepted (Lockout models what precedes).*)

\* Both tokens are minted and the cookie header is set before Redis is asked.
LoginSeal(r, u, t) ==
    /\ req[r].pc = "idle" /\ Room
    /\ Create(t, u, RefreshTTL, t)
    /\ req' = [req EXCEPT ![r] = [Idle EXCEPT !.pc = "login_set", !.fresh = t,
                                              !.rem = RefreshTTL, !.header = t]]
    /\ UNCHANGED <<now, redis, sent, stored, wins, ended, gaps>>

\* Signing or encrypting failed: 500, and no header has been set yet.
LoginSealFails(r) ==
    /\ Faults
    /\ req[r].pc = "idle"
    /\ Answer(r, 500)
    /\ UNCHANGED <<now, redis, payload, sent, stored, wins, ended, gaps>>

-----------------------------------------------------------------------------
(* The Redis SET that ends both Login and Refresh.                         *)

Storing(r) == req[r].pc \in {"login_set", "refresh_set"}

\* Faulty variant: nothing is stored, or answered, once the remaining time is over.
StoreOkWhileTimeRemains(r) ==
    /\ Storing(r)
    /\ req[r].rem > 0
    /\ Set(req[r].fresh, payload[req[r].fresh].user, req[r].rem)
    /\ stored' = stored \cup {req[r].fresh}
    /\ req' = [req EXCEPT ![r] = Answered([@ EXCEPT !.header = req[r].fresh], 201)]
    /\ UNCHANGED <<now, payload, sent, wins, ended, gaps>>

\* The SET succeeds; Refresh sets the cookie header only now.
StoreOk(r) ==
    /\ Storing(r)
    /\ Set(req[r].fresh, payload[req[r].fresh].user, req[r].rem)
    /\ stored' = stored \cup {req[r].fresh}
    /\ req' = [req EXCEPT ![r] = Answered([@ EXCEPT !.header = req[r].fresh], 201)]
    /\ UNCHANGED <<now, payload, sent, wins, ended, gaps>>

\* The SET fails, before or after Redis applied it: 500 with the header as it is.
StoreFails(r) ==
    /\ Faults
    /\ Storing(r)
    /\ \/ /\ Set(req[r].fresh, payload[req[r].fresh].user, req[r].rem)
          /\ stored' = stored \cup {req[r].fresh}
       \/ UNCHANGED <<redis, stored>>
    /\ Answer(r, 500)
    /\ UNCHANGED <<now, payload, sent, wins, ended, gaps>>

-----------------------------------------------------------------------------
(* Refresh.                                                                *)

\* The cookie is read and verified.  Any token ever disclosed may be presented,
\* again or late; an expired one is refused before Redis is asked.
RefreshVerify(r, c) ==
    /\ req[r].pc = "idle" /\ Room
    /\ req' = [req EXCEPT ![r] =
                 IF Valid(c) THEN [Idle EXCEPT !.pc = "refresh_claim", !.cookie = c]
                             ELSE Answered(@, 401)]
    /\ UNCHANGED <<now, redis, payload, sent, stored, wins, ended, gaps>>

\* GETDEL returned the owner; it is compared with the one in the token.
RefreshClaim(r) ==
    LET c == req[r].cookie IN
    /\ req[r].pc = "refresh_claim"
    /\ GetDel(c)
    /\ wins' = [wins EXCEPT ![c] = @ + 1]
    /\ IF redis[c].user = payload[c].user THEN Goto(r, "refresh_role")
                                          ELSE Answer(r, 401)
    /\ UNCHANGED <<now, payload, sent, stored, ended, gaps>>

\* GETDEL found nothing: already redeemed, revoked or evicted.
RefreshMiss(r) ==
    /\ req[r].pc = "refresh_claim"
    /\ ~ Live(req[r].cookie)
    /\ Answer(r, 401)
    /\ UNCHANGED <<now, redis, payload, sent, stored, wins, ended, gaps>>

\* The role is read and the access token made; the remaining time is measured.
RefreshMeasure(r) ==
    /\ req[r].pc = "refresh_role"
    /\ req' = [req EXCEPT ![r] = [@ EXCEPT !.pc = "refresh_mint",
                                           !.rem = payload[req[r].cookie].exp - now]]
    /\ UNCHANGED <<now, redis, payload, sent, stored, wins, ended, gaps>>

\* Faulty variant: the rotated token starts over with the full lifetime.
RefreshMintFullTTL(r, t) ==
    LET p == payload[req[r].cookie] IN
    /\ req[r].pc = "refresh_mint"
    /\ Create(t, p.user, RefreshTTL, p.root)
    /\ req' = [req EXCEPT ![r] = [@ EXCEPT !.pc = "refresh_set", !.fresh = t]]
    /\ UNCHANGED <<now, redis, sent, stored, wins, ended, gaps>>

\* The next token is minted with it, from a clock that has moved on.
RefreshMint(r, t) ==
    LET p == payload[req[r].cookie] IN
    /\ req[r].pc = "refresh_mint"
    /\ Create(t, p.user, req[r].rem, p.root)
    /\ req' = [req EXCEPT ![r] = [@ EXCEPT !.pc = "refresh_set", !.fresh = t]]
    /\ UNCHANGED <<now, redis, sent, stored, wins, ended, gaps>>

\* The role lookup or the creation of a token failed: the claim is not undone.
RefreshRotateFails(r) ==
    /\ Faults
    /\ req[r].pc \in {"refresh_role", "refresh_mint"}
    /\ Answer(r, 500)
    /\ UNCHANGED <<now, redis, payload, sent, stored, wins, ended, gaps>>

-----------------------------------------------------------------------------
(* Logout, which answers 200 whatever it finds.                            *)

LogoutVerify(r, c) ==
    /\ req[r].pc = "idle"
    /\ req' = [req EXCEPT ![r] =
                 IF Valid(c)
                 THEN [Idle EXCEPT !.pc = "logout_claim", !.cookie = c,
                                   !.aim = IF Live(c) THEN payload[c].root ELSE NoToken]
                 ELSE Answered(@, 200)]
    /\ UNCHANGED <<now, redis, payload, sent, stored, wins, ended, gaps>>

\* Faulty variant: the record is read, but stays.
LogoutClaimKeeps(r) ==
    LET c == req[r].cookie IN
    /\ req[r].pc = "logout_claim"
    /\ Live(c)
    /\ ended' = ended \cup {payload[c].root}
    /\ Answer(r, 200)
    /\ UNCHANGED <<now, redis, payload, sent, stored, wins, gaps>>

\* GETDEL returned the owner; a mismatch would only be logged.
LogoutClaim(r) ==
    LET c == req[r].cookie IN
    /\ req[r].pc = "logout_claim"
    /\ GetDel(c)
    /\ ended' = ended \cup {payload[c].root}
    /\ Answer(r, 200)
    /\ UNCHANGED <<now, payload, sent, stored, wins, gaps>>

\* Faulty variant: Logout tells whether the token was still live.
LogoutMissTells(r) ==
    /\ req[r].pc = "logout_claim"
    /\ ~ Live(req[r].cookie)
    /\ Answer(r, 404)
    /\ UNCHANGED <<now, redis, payload, sent, stored, wins, ended, gaps>>

\* GETDEL found nothing, which is no reason not to agree.
LogoutMiss(r) ==
    /\ req[r].pc = "logout_claim"
    /\ ~ Live(req[r].cookie)
    /\ Answer(r, 200)
    /\ UNCHANGED <<now, redis, payload, sent, stored, wins, ended, gaps>>

-----------------------------------------------------------------------------
\* No cookie, or one that does not decrypt: Refresh refuses, Logout agrees.
NoCookie(r) ==
    /\ req[r].pc = "idle"
    /\ \E st \in {401, 200} : Answer(r, st)
    /\ UNCHANGED <<now, redis, payload, sent, stored, wins, ended, gaps>>

\* GETDEL fails, before or after Redis applied it: Refresh refuses, Logout agrees.
ClaimError(r) ==
    LET c == req[r].cookie IN
    /\ Faults
    /\ req[r].pc \in {"refresh_claim", "logout_claim"}
    /\ \/ GetDel(c)
       \/ UNCHANGED redis
    /\ Answer(r, IF req[r].pc = "refresh_claim" THEN 401 ELSE 200)
    /\ UNCHANGED <<now, payload, sent, stored, wins, ended, gaps>>

\* The response leaves: its cookie is disclosed, and the request is over.
Reply(r) ==
    /\ req[r].pc = "reply"
    /\ sent' = sent \cup ({req[r].header} \ {NoToken})
    /\ req' = [req EXCEPT ![r] = Idle]
    /\ UNCHANGED <<now, redis, payload, stored, wins, ended, gaps>>

\* A replica dies, or the client is gone: the request is never answered.
Crash(r) ==
    /\ Faults
    /\ req[r].pc # "idle"
    /\ req' = [req EXCEPT ![r] = Idle]
    /\ UNCHANGED <<now, redis, payload, sent, stored, wins, ended, gaps>>

\* A rotation of the session s has measured what is left and not minted yet.
BetweenReadings(s) ==
    \E r \in Reqs : req[r].pc = "refresh_mint" /\ payload[req[r].cookie].root = s

\* Time passes; Redis evicts the records whose time is over.
Tick ==
    /\ now < MaxTime
    /\ now' = now + 1
    /\ redis' = [t \in Tokens |->
                   IF /\ Live(t)
                      /\ redis[t].until # Forever
                      /\ redis[t].until < RedisNow'
                   THEN NoRecord ELSE redis[t]]
    /\ gaps' = [s \in Tokens |-> IF BetweenReadings(s) THEN gaps[s] + 1 ELSE gaps[s]]
    /\ UNCHANGED <<payload, req, sent, stored, wins, ended>>

-----------------------------------------------------------------------------
\* Steps of the client: a request arrives.
Arrive(r) ==
    \/ \E u \in Users, t \in Tokens : LoginSeal(r, u, t)
    \/ LoginSealFails(r)
    \/ NoCookie(r)
    \/ \E c \in sent : RefreshVerify(r, c) \/ LogoutVerify(r, c)

\* Steps of the handler: what it does next of its own accord.
Serve(r) ==
    \/ StoreOk(r)
    \/ StoreFails(r)
    \/ RefreshClaim(r)
    \/ RefreshMiss(r)
    \/ RefreshMeasure(r)
    \/ \E t \in Tokens : RefreshMint(r, t)
    \/ RefreshRotateFails(r)
    \/ LogoutClaim(r)
    \/ LogoutMiss(r)
    \/ ClaimError(r)
    \/ Reply(r)

Next ==
    \/ Tick
    \/ \E r \in Reqs : Arrive(r) \/ Serve(r) \/ Crash(r)

Spec == Init /\ [][Next]_vars

\* A handler that is running goes on: net/http gives each request a goroutine.
FairSpec == Spec /\ \A r \in Reqs : WF_vars(Serve(r))
-----------------------------------------------------------------------------
(* Properties.  A login's token and all it is rotated into are one lineage, *)
(* named by the login's token.  A lineage is held by the records that can  *)
(* be redeemed and by the requests that are about to write one.            *)

Root(t) == payload[t].root

Holding(r) == req[r].pc \in {"login_set", "refresh_role", "refresh_mint", "refresh_set"}
HeldRoot(r) == IF req[r].pc = "login_set" THEN req[r].fresh
                                          ELSE Root(req[r].cookie)

LiveOf(s)    == {t \in Tokens : Live(t) /\ Root(t) = s}
HoldersOf(s) == {r \in Reqs : Holding(r) /\ HeldRoot(r) = s}
Began(s)     == Minted(s) /\ Root(s) = s
Held(s)      == LiveOf(s) \cup HoldersOf(s) # {}

TypeOK ==
    /\ now \in 0 .. MaxTime
    /\ redis \in [Tokens -> Record \cup {NoRecord}]
    /\ payload \in [Tokens -> Payload \cup {NoPayload}]
    /\ req \in [Reqs -> Request]
    /\ sent \subseteq Tokens /\ stored \subseteq Tokens
    /\ ended \subseteq Tokens
    /\ wins \in [Tokens -> Nat] /\ gaps \in [Tokens -> Nat]

\* A session has at most one holder: rotations that overlap, a replayed cookie or
\* a failure halfway never leave two tokens of one login redeemable, nor a
\* redeemable token beside a rotation that is about to write another
\* (auth.go:358 claims before auth.go:405 stores).
OneHolder ==
    /\ \A t1, t2 \in Tokens :
          Live(t1) /\ Live(t2) /\ Root(t1) = Root(t2) => t1 = t2
    /\ \A t \in Tokens, r \in Reqs :
          Live(t) /\ Holding(r) => Root(t) # HeldRoot(r)
    /\ \A r1, r2 \in Reqs :
          Holding(r1) /\ Holding(r2) /\ HeldRoot(r1) = HeldRoot(r2) => r1 = r2

\* "Two concurrent redemptions cannot both win", nor two at any distance in time.
SingleRedemption == \A t \in Tokens : wins[t] <= 1

\* A logout that deleted a session's record ended the session: no token of its
\* lineage is redeemable or about to become so, ever after (auth.go:313).
LogoutFinal == \A s \in ended : ~ Held(s)

\* What moves a session's deadline is the time its rotations stand between their
\* two readings of the clock, and nothing else: however often it is rotated, a token
\* expires no earlier than the login's own, and later by no more than that time
\* (auth.go:396 measures, paseto.go:105 mints).
DeadlineMovesByGaps ==
    \A t \in Tokens : Minted(t) =>
        payload[t].exp \in payload[Root(t)].exp .. payload[Root(t)].exp + gaps[Root(t)]

\* What a record without a TTL costs is memory and no more: its token was minted at
\* its own deadline or past it, whatever the clock did between the two readings, so
\* nobody can redeem it at any later instant.
ImmortalRecordIsDead ==
    \A t \in Tokens : Live(t) /\ redis[t].until = Forever => payload[t].exp <= now

\* Only a failure hands out a token that is not on record: a response with status
\* 201 carries one that was stored (auth.go:276-280, 405-409 return on an error).
SuccessIsBacked ==
    \A r \in Reqs : req[r].status = 201 => req[r].header \in stored

\* When nothing fails, a cookie a client was given works until it is spent, but for
\* less than a millisecond at its end: Redis holds its record as long as the token
\* verifies, up to the fraction that an expiry in milliseconds drops (auth.go:405).
CookieWorks ==
    \A t \in sent :
        /\ now + (Milli - 1) <= payload[t].exp
        /\ wins[t] = 0 /\ Root(t) \notin ended
        => Live(t)

\* Logout "revokes the refresh token presented in the cookie" and ends the
\* session: when a Logout that found its record live on arrival answers, the
\* session has no token left.  A rotation that claims the record first breaks it.
LogoutEndsSession ==
    [][\A r \in Reqs, s \in Tokens :
          req[r].aim = s /\ req'[r].pc = "reply" => ~ Held(s)']_vars

\* Every record of a refresh token has a TTL.  A rotation at the token's last
\* instant computes a remaining time that is not positive (auth.go:396, 405).
EveryRecordExpires == \A t \in Tokens : Live(t) => redis[t].until # Forever

-----------------------------------------------------------------------------
(* The invariant the proofs of SessionsProofs carry from step to step.     *)

\* Every token descends from a login, whose token names the lineage.
Lineages == \A t \in Tokens : Minted(t) => Minted(Root(t)) /\ Root(Root(t)) = Root(t)

\* Nothing is recorded of a token that has not been minted.
OnlyMinted ==
    /\ \A t \in Tokens : Live(t) \/ wins[t] > 0 => Minted(t)
    /\ \A t \in sent \cup ended : Minted(t)
    /\ \A r \in Reqs : req[r].header # NoToken => Minted(req[r].header)

\* What a request knows at each point of its handler.
RequestsSound ==
    \A r \in Reqs :
        /\ req[r].pc # "reply" => req[r].status = 0
        /\ req[r].pc \in {"refresh_claim", "refresh_role", "refresh_mint", "refresh_set",
                          "logout_claim"}
              => req[r].cookie \in Tokens /\ Minted(req[r].cookie)
        /\ Storing(r)
              => /\ req[r].fresh \in Tokens /\ Minted(req[r].fresh)
                 /\ wins[req[r].fresh] = 0
                 /\ Root(req[r].fresh) = HeldRoot(r)
                 /\ req[r].rem <= 0 => payload[req[r].fresh].exp <= now

\* Minted now, the token of a rotation that has measured would keep to the bounds.
MeasuredRight ==
    \A r \in Reqs : req[r].pc = "refresh_mint" =>
        LET s == Root(req[r].cookie) IN
        now + req[r].rem \in payload[s].exp .. payload[s].exp + gaps[s]

\* A token that can be redeemed has never been redeemed, and is its owner's.
LiveIsUnspent ==
    \A t \in Tokens : Live(t) => wins[t] = 0 /\ redis[t].user = payload[t].user

IInv ==
    /\ TypeOK /\ Lineages /\ OnlyMinted /\ RequestsSound /\ LiveIsUnspent
    /\ OneHolder /\ SingleRedemption /\ LogoutFinal
    /\ DeadlineMovesByGaps /\ MeasuredRight /\ ImmortalRecordIsDead /\ SuccessIsBacked

-----------------------------------------------------------------------------
(* Sessions implements SessionLife.                                        *)

PhaseOf(s) ==
    LET live == LiveOf(s)
        at   == {req[r].pc : r \in HoldersOf(s)}
        one  == Cardinality(live) + Cardinality(HoldersOf(s)) = 1
    IN  CASE ~ Began(s)                            -> "none"
          [] Began(s) /\ ~ Held(s)                 -> "closed"
          [] one /\ live # {}                      -> "open"
          [] one /\ "login_set" \in at             -> "pending"
          [] one /\ live = {} /\ "login_set" \notin at -> "claimed"
          [] OTHER                                 -> "forked"

Life == INSTANCE SessionLife WITH
            Ids <- Tokens, phase <- [s \in Tokens |-> PhaseOf(s)]

\* Seen from its session, every step of every handler is a step of SessionLife:
\* in particular a session is never forked and never leaves "closed".
ImplementsSessionLife == Life!Spec

\* With handlers that go on running, no login or rotation stays half done.
ImplementsFairSessionLife == Life!FairSpec
=============================================================================
