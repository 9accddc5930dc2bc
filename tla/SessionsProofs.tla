--------------------------- MODULE SessionsProofs ---------------------------
(***************************************************************************)
(* For every number of users, tokens, requests and every TTL, with and     *)
(* without failures: IInv is an invariant of Sessions, hence the safety    *)
(* properties that are its parts, and Sessions implements SessionLife.  As *)
(* long as nothing fails, every cookie that was handed out works.          *)
(***************************************************************************)
EXTENDS Sessions, FiniteSetTheorems, TLAPS

USE DEF Minted, Live, Root

\* Whole milliseconds: what dividing drops is less than one.
LEMMA Whole ==
  ASSUME NEW n \in Int
  PROVE  /\ n \div Milli \in Int
         /\ (n \div Milli) * Milli <= n /\ n < (n \div Milli) * Milli + Milli
BY SessionsAssumption

\* An expiry is a number of milliseconds.
LEMMA ExpiryType ==
  ASSUME now \in Int, NEW ttl \in Int
  PROVE  RedisNow \in Int /\ Px(ttl) \in Int /\ RedisNow + Px(ttl) \in Int
<1>1. now \div Milli \in Int /\ ttl \div Milli \in Int
  BY Whole
<1>2. QED
  BY <1>1 DEF RedisNow, Px

\* The initial state satisfies the invariant: nothing has happened yet.
LEMMA InitIInv == Init => IInv
<1> SUFFICES ASSUME Init PROVE IInv
  OBVIOUS
<1> USE SessionsAssumption DEF Init, Idle
<1>1. TypeOK
  BY DEF TypeOK, Request, PCs
<1>2. /\ Lineages /\ OnlyMinted /\ RequestsSound /\ LiveIsUnspent
      /\ SingleRedemption /\ LogoutFinal /\ DeadlineMovesByGaps /\ MeasuredRight
      /\ ImmortalRecordIsDead /\ SuccessIsBacked
  BY DEF Lineages, OnlyMinted, RequestsSound, LiveIsUnspent, Storing,
         SingleRedemption, LogoutFinal, DeadlineMovesByGaps, MeasuredRight,
         ImmortalRecordIsDead, SuccessIsBacked
<1>3. OneHolder
  BY DEF OneHolder, Holding
<1>4. QED
  BY <1>1, <1>2, <1>3 DEF IInv

\* A step of a request that does not measure keeps what others have measured.
LEMMA MeasuredStays ==
  ASSUME TypeOK, MeasuredRight, NEW r \in Reqs, NEW q, req' = [req EXCEPT ![r] = q],
         q.pc # "refresh_mint", UNCHANGED <<now, payload, gaps>>
  PROVE  MeasuredRight'
<1>1. req'[r] = q /\ \A r1 \in Reqs : r1 # r => req'[r1] = req[r1]
  BY DEF TypeOK
<1>2. QED
  BY <1>1 DEF MeasuredRight

\* So does minting a token, which changes nothing of those that are minted.
LEMMA MeasuredStaysMinting ==
  ASSUME TypeOK, Lineages, RequestsSound, MeasuredRight,
         NEW r \in Reqs, NEW q, req' = [req EXCEPT ![r] = q], q.pc # "refresh_mint",
         NEW t \in Tokens, ~ Minted(t), UNCHANGED <<now, gaps>>,
         \A s \in Tokens : s # t => payload'[s] = payload[s]
  PROVE  MeasuredRight'
<1>1. req'[r] = q /\ \A r1 \in Reqs : r1 # r => req'[r1] = req[r1]
  BY DEF TypeOK
<1>2. ASSUME NEW r1 \in Reqs, req'[r1].pc = "refresh_mint"
      PROVE  /\ req'[r1] = req[r1]
             /\ payload'[req[r1].cookie] = payload[req[r1].cookie]
             /\ payload'[Root(req[r1].cookie)] = payload[Root(req[r1].cookie)]
  <2>1. req'[r1] = req[r1] /\ req[r1].pc = "refresh_mint"
    BY <1>1, <1>2
  <2>2. req[r1].cookie \in Tokens /\ Minted(req[r1].cookie)
    BY <2>1 DEF RequestsSound
  <2>3. Root(req[r1].cookie) \in Tokens /\ Minted(Root(req[r1].cookie))
    BY <2>2 DEF Lineages, TypeOK, Payload
  <2>4. QED
    BY <2>1, <2>2, <2>3
<1>3. QED
  BY <1>2 DEF MeasuredRight

-----------------------------------------------------------------------------
(* Steps that end a request, and at most remove records.                   *)

\* Records only disappear.
Removes == /\ redis' \in [Tokens -> Record \cup {NoRecord}]
           /\ \A t \in Tokens : redis'[t] \in {redis[t], NoRecord}

\* Request r becomes q, which holds nothing; records may only disappear.
Retires(r, q) ==
    /\ q \in Request /\ q.pc \in {"idle", "reply"}
    /\ q.pc = "idle" => q.status = 0
    /\ q.header # NoToken => Minted(q.header)
    /\ q.status = 201 => q.header \in stored
    /\ req' = [req EXCEPT ![r] = q]
    /\ Removes
    /\ sent' \subseteq Tokens /\ \A t \in sent' : Minted(t)
    /\ UNCHANGED <<stored, payload, wins, ended, now, gaps>>

\* A request that stops holding anything preserves the invariant.
LEMMA RetireStep ==
  ASSUME IInv, NEW r \in Reqs, NEW q, Retires(r, q)
  PROVE  IInv'
<1> USE DEF IInv, Retires, Removes
<1>1. TypeOK'
  BY DEF TypeOK
<1>2. Lineages' /\ LiveIsUnspent' /\ SingleRedemption'
      /\ DeadlineMovesByGaps' /\ ImmortalRecordIsDead'
  BY DEF TypeOK, Lineages, LiveIsUnspent, SingleRedemption,
         DeadlineMovesByGaps, ImmortalRecordIsDead
<1>3. OnlyMinted'
  BY DEF TypeOK, OnlyMinted
<1>4. RequestsSound'
  BY DEF TypeOK, RequestsSound, Storing, HeldRoot
<1>5. OneHolder'
  BY DEF TypeOK, OneHolder, Holding, HeldRoot
<1>6. LogoutFinal'
  BY DEF TypeOK, LogoutFinal, Held, LiveOf, HoldersOf, Holding, HeldRoot
<1>7. SuccessIsBacked' /\ MeasuredRight'
  <2>1. SuccessIsBacked'
    BY DEF TypeOK, SuccessIsBacked
  <2>2. MeasuredRight'
    BY MeasuredStays
  <2>3. QED
    BY <2>1, <2>2
<1>8. QED
  BY <1>1, <1>2, <1>3, <1>4, <1>5, <1>6, <1>7

\* Every answer that is given without a token of its own is such a step.
LEMMA AnswerStep ==
  ASSUME IInv, NEW r \in Reqs, NEW st \in {200, 401, 500},
         Answer(r, st), Removes,
         UNCHANGED <<sent, stored, payload, wins, ended, now, gaps>>
  PROVE  IInv'
<1>1. PICK q : q = Answered(req[r], st)
  OBVIOUS
<1>2. q = [pc |-> "reply", cookie |-> NoToken, fresh |-> NoToken, rem |-> 0,
           header |-> req[r].header, status |-> st, aim |-> NoToken]
  BY <1>1 DEF Answered, Idle
<1>3. q \in Request /\ q.pc \in {"idle", "reply"} /\ q.status # 201
  BY <1>2 DEF IInv, TypeOK, Request, PCs
<1>4. q.header # NoToken => Minted(q.header)
  BY <1>2 DEF IInv, OnlyMinted
<1>5. req' = [req EXCEPT ![r] = q]
  BY <1>1 DEF Answer
<1>6. sent' \subseteq Tokens /\ \A t \in sent' : Minted(t)
  BY DEF IInv, TypeOK, OnlyMinted
<1>7. Retires(r, q)
  BY <1>2, <1>3, <1>4, <1>5, <1>6 DEF Retires
<1>8. QED
  BY <1>7, RetireStep

\* Request r, about to store, becomes q, and its token has its record.
StoresAs(r, q) ==
    /\ Storing(r)
    /\ q \in Request /\ q.pc = "reply"
    /\ q.header # NoToken => Minted(q.header)
    /\ q.status = 201 => q.header \in stored'
    /\ req' = [req EXCEPT ![r] = q]
    /\ Set(req[r].fresh, payload[req[r].fresh].user, req[r].rem)
    /\ stored' = stored \cup {req[r].fresh}
    /\ UNCHANGED <<sent, payload, wins, ended, now, gaps>>

\* Storing the token a request has minted passes the session on to its record.
LEMMA StoreStep ==
  ASSUME IInv, NEW r \in Reqs, NEW q, StoresAs(r, q)
  PROVE  IInv'
<1> DEFINE f == req[r].fresh
           rec == [user |-> payload[f].user,
                   until |-> IF req[r].rem > 0 THEN RedisNow + Px(req[r].rem) ELSE Forever]
<1> USE DEF IInv, StoresAs
<1>1. /\ f \in Tokens /\ Minted(f) /\ wins[f] = 0 /\ Root(f) = HeldRoot(r)
      /\ Holding(r)
      /\ req[r].rem <= 0 => payload[f].exp <= now
  BY DEF RequestsSound, Storing, Holding
<1>2. rec \in Record /\ rec # NoRecord /\ (rec.until = Forever => req[r].rem <= 0)
      /\ rec.user = payload[f].user
  <2>1. now \in Int /\ req[r].rem \in Int /\ payload[f].user \in Users
    BY <1>1, SessionsAssumption DEF TypeOK, Payload, Request
  <2>2. PICK m \in Int : m = RedisNow + Px(req[r].rem)
    BY <2>1, ExpiryType
  <2>3. QED
    BY <2>1, <2>2, SessionsAssumption DEF Record
<1>3. redis' = [redis EXCEPT ![f] = rec]
  BY DEF Set
<1> HIDE DEF rec
<1>4. TypeOK'
  BY <1>1, <1>2, <1>3 DEF TypeOK
<1>5. Lineages' /\ SingleRedemption' /\ DeadlineMovesByGaps'
  BY DEF Lineages, SingleRedemption, DeadlineMovesByGaps
<1>6. OnlyMinted' /\ LiveIsUnspent' /\ ImmortalRecordIsDead'
  BY <1>1, <1>2, <1>3 DEF TypeOK, OnlyMinted, LiveIsUnspent, ImmortalRecordIsDead
<1>7. RequestsSound'
  BY DEF TypeOK, RequestsSound, Storing, HeldRoot
<1>8. OneHolder'
  BY <1>1, <1>3 DEF TypeOK, OneHolder, Holding, HeldRoot
<1>9. LogoutFinal'
  BY <1>1, <1>3 DEF TypeOK, LogoutFinal, Held, LiveOf, HoldersOf, Holding, HeldRoot
<1>10. SuccessIsBacked' /\ MeasuredRight'
  <2>1. SuccessIsBacked'
    BY DEF TypeOK, SuccessIsBacked
  <2>2. MeasuredRight'
    BY MeasuredStays
  <2>3. QED
    BY <2>1, <2>2
<1>11. QED
  BY <1>4, <1>5, <1>6, <1>7, <1>8, <1>9, <1>10

-----------------------------------------------------------------------------
(* Login.                                                                  *)

\* A login begins a lineage of its own, held by the request that will store it.
LEMMA LoginSealStep ==
  ASSUME IInv, NEW r \in Reqs, NEW u \in Users, NEW t \in Tokens, LoginSeal(r, u, t)
  PROVE  IInv'
<1> DEFINE p == [user |-> u, exp |-> now + RefreshTTL, root |-> t]
<1> USE DEF IInv
<1>0. PICK q : q = [Idle EXCEPT !.pc = "login_set", !.fresh = t,
                                !.rem = RefreshTTL, !.header = t]
  OBVIOUS
<1>1. /\ req[r].pc = "idle" /\ ~ Minted(t)
      /\ payload' = [payload EXCEPT ![t] = p]
      /\ req' = [req EXCEPT ![r] = q]
      /\ UNCHANGED <<now, redis, sent, stored, wins, ended, gaps>>
  BY <1>0 DEF LoginSeal, Create
<1>2. p \in Payload /\ p # NoPayload
  BY SessionsAssumption DEF TypeOK, Payload
<1>3. /\ q \in Request /\ q.pc = "login_set" /\ q.fresh = t /\ q.header = t
      /\ q.rem > 0 /\ q.status = 0
  <2>1. RefreshTTL \in Int /\ RefreshTTL > 0
    BY SessionsAssumption
  <2>2. q = [pc |-> "login_set", cookie |-> NoToken, fresh |-> t, rem |-> RefreshTTL,
             header |-> t, status |-> 0, aim |-> NoToken]
    BY <1>0 DEF Idle
  <2>3. QED
    BY <2>1, <2>2 DEF Request, PCs
<1>4. \A s \in Tokens : Minted(s) => Root(s) \in Tokens /\ Root(s) # t /\ s # t
  BY <1>1 DEF TypeOK, Payload, Lineages
<1>5. /\ \A r1 \in Reqs : Holding(r1) => HeldRoot(r1) \in Tokens /\ HeldRoot(r1) # t
      /\ \A s \in Tokens : Live(s) => Root(s) # t
      /\ t \notin ended /\ t \notin sent /\ ~ Live(t) /\ wins[t] = 0
  BY <1>1, <1>4 DEF OnlyMinted, RequestsSound, Holding, HeldRoot, Storing, TypeOK
<1>6. \A r1 \in Reqs : r1 # r /\ Holding(r1)' => Holding(r1) /\ HeldRoot(r1)' = HeldRoot(r1)
  BY <1>1, <1>4 DEF TypeOK, Holding, HeldRoot, RequestsSound, Storing
<1>7. Holding(r)' /\ HeldRoot(r)' = t /\ Root(t)' = t /\ Minted(t)'
  BY <1>1, <1>2, <1>3 DEF TypeOK, Holding, HeldRoot
<1>8. \A s \in Tokens : s # t => Root(s)' = Root(s) /\ (Minted(s)' <=> Minted(s))
  BY <1>1 DEF TypeOK
<1>19. p.exp \in Int /\ p.root = t
  BY SessionsAssumption DEF TypeOK
<1> HIDE DEF p
<1>9. TypeOK'
  BY <1>1, <1>2, <1>3 DEF TypeOK
<1>10. Lineages'
  BY <1>4, <1>7, <1>8 DEF Lineages
<1>11. OnlyMinted' /\ SingleRedemption'
  BY <1>1, <1>3, <1>7, <1>8 DEF TypeOK, OnlyMinted, SingleRedemption
<1>12. LiveIsUnspent' /\ ImmortalRecordIsDead'
  BY <1>1, <1>5 DEF TypeOK, LiveIsUnspent, ImmortalRecordIsDead
<1>13. OneHolder'
  <2>1. \A t1, t2 \in Tokens : (Live(t1) /\ Live(t2) /\ Root(t1) = Root(t2))' => t1 = t2
    BY <1>1, <1>5, <1>8 DEF OneHolder
  <2>2. \A t1 \in Tokens, r1 \in Reqs : (Live(t1) /\ Holding(r1))' => (Root(t1) # HeldRoot(r1))'
    BY <1>1, <1>5, <1>6, <1>7, <1>8 DEF OneHolder
  <2>3. \A r1, r2 \in Reqs :
           (Holding(r1) /\ Holding(r2) /\ HeldRoot(r1) = HeldRoot(r2))' => r1 = r2
    BY <1>5, <1>6, <1>7 DEF OneHolder
  <2>4. QED
    BY <2>1, <2>2, <2>3 DEF OneHolder
<1>14. LogoutFinal'
  BY <1>1, <1>5, <1>6, <1>7, <1>8 DEF LogoutFinal, Held, LiveOf, HoldersOf
<1>15. DeadlineMovesByGaps' /\ MeasuredRight'
  <2>1. payload'[t] = p /\ p.exp \in Int /\ p.root = t /\ gaps[t] \in Nat
    BY <1>1, <1>19 DEF TypeOK
  <2>2. \A s \in Tokens : s # t => payload'[s] = payload[s]
    BY <1>1 DEF TypeOK
  <2>3. DeadlineMovesByGaps'
    BY <1>1, <1>4, <1>8, <2>1, <2>2 DEF DeadlineMovesByGaps
  <2>4. MeasuredRight'
    BY <1>1, <1>3, <2>2, MeasuredStaysMinting
  <2>5. QED
    BY <2>3, <2>4
<1>16. RequestsSound'
  <2> SUFFICES ASSUME NEW r1 \in Reqs
               PROVE  /\ req'[r1].pc # "reply" => req'[r1].status = 0
                      /\ req'[r1].pc \in {"refresh_claim", "refresh_role", "refresh_mint",
                                          "refresh_set", "logout_claim"}
                         => req'[r1].cookie \in Tokens /\ Minted(req[r1].cookie)'
                      /\ Storing(r1)'
                         => /\ req'[r1].fresh \in Tokens /\ Minted(req[r1].fresh)'
                            /\ wins'[req'[r1].fresh] = 0
                            /\ Root(req[r1].fresh)' = HeldRoot(r1)'
                            /\ req'[r1].rem <= 0 => payload'[req'[r1].fresh].exp <= now'
    BY DEF RequestsSound
  <2>1. CASE r1 = r
    <3>1. req'[r1] = q /\ wins' = wins
      BY <2>1, <1>1 DEF TypeOK
    <3>2. QED
      BY <2>1, <3>1, <1>3, <1>5, <1>7 DEF Storing, Request
  <2>2. CASE r1 # r
    BY <2>2, <1>1, <1>4, <1>6, <1>8 DEF TypeOK, RequestsSound, Storing, Holding
  <2>3. QED
    BY <2>1, <2>2
<1>17. SuccessIsBacked'
  BY <1>1, <1>3 DEF TypeOK, SuccessIsBacked
<1>18. QED
  BY <1>9, <1>10, <1>11, <1>12, <1>13, <1>14, <1>15, <1>16, <1>17

-----------------------------------------------------------------------------
(* Refresh and Logout.                                                     *)

\* A request that has verified a cookie holds nothing yet.
Presents(r, q) ==
    /\ q \in Request /\ q.pc \in {"refresh_claim", "logout_claim"}
    /\ q.cookie \in Tokens /\ Minted(q.cookie)
    /\ q.header = NoToken /\ q.status = 0
    /\ req' = [req EXCEPT ![r] = q]
    /\ UNCHANGED <<now, redis, payload, sent, stored, wins, ended, gaps>>

LEMMA PresentStep ==
  ASSUME IInv, NEW r \in Reqs, NEW q, Presents(r, q)
  PROVE  IInv'
<1> USE DEF IInv, Presents
<1>1. TypeOK'
  BY DEF TypeOK
<1>2. /\ Lineages' /\ LiveIsUnspent' /\ SingleRedemption' /\ OnlyMinted'
      /\ DeadlineMovesByGaps' /\ ImmortalRecordIsDead'
  BY DEF TypeOK, Lineages, LiveIsUnspent, SingleRedemption, OnlyMinted,
         DeadlineMovesByGaps, ImmortalRecordIsDead
<1>3. RequestsSound'
  BY DEF TypeOK, RequestsSound, Storing, HeldRoot
<1>4. OneHolder'
  BY DEF TypeOK, OneHolder, Holding, HeldRoot
<1>5. LogoutFinal'
  BY DEF TypeOK, LogoutFinal, Held, LiveOf, HoldersOf, Holding, HeldRoot
<1>6. SuccessIsBacked' /\ MeasuredRight'
  <2>1. SuccessIsBacked'
    BY DEF TypeOK, SuccessIsBacked
  <2>2. MeasuredRight'
    BY MeasuredStays
  <2>3. QED
    BY <2>1, <2>2
<1>7. QED
  BY <1>1, <1>2, <1>3, <1>4, <1>5, <1>6

\* A cookie is verified, or refused before Redis is asked.
LEMMA RefreshVerifyStep ==
  ASSUME IInv, NEW r \in Reqs, NEW c \in sent, RefreshVerify(r, c)
  PROVE  IInv'
<1>1. c \in Tokens /\ Minted(c)
  BY DEF IInv, TypeOK, OnlyMinted
<1>2. CASE Valid(c)
  <2>1. PICK q : q = [Idle EXCEPT !.pc = "refresh_claim", !.cookie = c]
    OBVIOUS
  <2>2. q = [pc |-> "refresh_claim", cookie |-> c, fresh |-> NoToken, rem |-> 0,
             header |-> NoToken, status |-> 0, aim |-> NoToken]
    BY <2>1 DEF Idle
  <2>3. req' = [req EXCEPT ![r] = q]
    BY <1>2, <2>1 DEF RefreshVerify
  <2>4. q \in Request
    BY <1>1, <2>2 DEF Request, PCs
  <2>5. UNCHANGED <<now, redis, payload, sent, stored, wins, ended, gaps>>
    BY DEF RefreshVerify
  <2>6. Presents(r, q)
    BY <1>1, <2>2, <2>3, <2>4, <2>5 DEF Presents
  <2>7. QED
    BY <2>6, PresentStep
<1>3. CASE ~ Valid(c)
  <2>1. PICK q : q = Answered(req[r], 401)
    OBVIOUS
  <2>2. req' = [req EXCEPT ![r] = q]
    BY <1>3, <2>1 DEF RefreshVerify
  <2>3. Answer(r, 401)
    BY <2>1, <2>2 DEF Answer
  <2>4. Removes /\ UNCHANGED <<sent, stored, payload, wins, ended, now, gaps>>
    BY DEF RefreshVerify, Removes, IInv, TypeOK
  <2>5. QED
    BY <2>3, <2>4, AnswerStep
<1>4. QED
  BY <1>2, <1>3

LEMMA LogoutVerifyStep ==
  ASSUME IInv, NEW r \in Reqs, NEW c \in sent, LogoutVerify(r, c)
  PROVE  IInv'
<1>1. c \in Tokens /\ Minted(c)
  BY DEF IInv, TypeOK, OnlyMinted
<1>2. CASE Valid(c)
  <2>1. PICK a : a = IF Live(c) THEN payload[c].root ELSE NoToken
    OBVIOUS
  <2>2. a \in Tokens \cup {NoToken}
    BY <1>1, <2>1 DEF IInv, TypeOK, Payload
  <2>3. PICK q : q = [Idle EXCEPT !.pc = "logout_claim", !.cookie = c, !.aim = a]
    OBVIOUS
  <2>4. q = [pc |-> "logout_claim", cookie |-> c, fresh |-> NoToken, rem |-> 0,
             header |-> NoToken, status |-> 0, aim |-> a]
    BY <2>3 DEF Idle
  <2>5. req' = [req EXCEPT ![r] = q]
    BY <1>2, <2>1, <2>3 DEF LogoutVerify
  <2>6. q \in Request
    BY <1>1, <2>2, <2>4 DEF Request, PCs
  <2>7. UNCHANGED <<now, redis, payload, sent, stored, wins, ended, gaps>>
    BY DEF LogoutVerify
  <2>8. Presents(r, q)
    BY <1>1, <2>4, <2>5, <2>6, <2>7 DEF Presents
  <2>9. QED
    BY <2>8, PresentStep
<1>3. CASE ~ Valid(c)
  <2>1. PICK q : q = Answered(req[r], 200)
    OBVIOUS
  <2>2. req' = [req EXCEPT ![r] = q]
    BY <1>3, <2>1 DEF LogoutVerify
  <2>3. Answer(r, 200)
    BY <2>1, <2>2 DEF Answer
  <2>4. Removes /\ UNCHANGED <<sent, stored, payload, wins, ended, now, gaps>>
    BY DEF LogoutVerify, Removes, IInv, TypeOK
  <2>5. QED
    BY <2>3, <2>4, AnswerStep
<1>4. QED
  BY <1>2, <1>3

\* A redemption takes the record away and leaves the session to the request.
LEMMA RefreshClaimStep ==
  ASSUME IInv, NEW r \in Reqs, RefreshClaim(r)
  PROVE  IInv'
<1> DEFINE c == req[r].cookie
<1> USE DEF IInv
<1>1. /\ req[r].pc = "refresh_claim" /\ Live(c)
      /\ redis' = [redis EXCEPT ![c] = NoRecord]
      /\ wins' = [wins EXCEPT ![c] = @ + 1]
      /\ UNCHANGED <<now, payload, sent, stored, ended, gaps>>
  BY DEF RefreshClaim, GetDel
<1>2. c \in Tokens /\ Minted(c) /\ wins[c] = 0 /\ redis[c].user = payload[c].user
  BY <1>1 DEF RequestsSound, LiveIsUnspent
<1>3. PICK q : q = [req[r] EXCEPT !.pc = "refresh_role"]
  OBVIOUS
<1>4. req' = [req EXCEPT ![r] = q]
  BY <1>2, <1>3 DEF RefreshClaim, Goto
<1>5. /\ q \in Request /\ q.pc = "refresh_role" /\ q.cookie = c
      /\ q.header = req[r].header /\ q.status = 0
  BY <1>1, <1>3 DEF TypeOK, Request, PCs, RequestsSound
<1>6. \A r1 \in Reqs : r1 # r => req'[r1] = req[r1]
  BY <1>4 DEF TypeOK
<1>7. req'[r] = q
  BY <1>4 DEF TypeOK
<1>8. \A r1 \in Reqs : Storing(r1) => r1 # r /\ req[r1].fresh # c
  BY <1>1 DEF OneHolder, RequestsSound, Storing, Holding
<1> HIDE DEF c
<1>9. TypeOK'
  BY <1>1, <1>2, <1>4, <1>5 DEF TypeOK
<1>10. Lineages' /\ DeadlineMovesByGaps'
  BY <1>1 DEF Lineages, DeadlineMovesByGaps
<1>11. OnlyMinted' /\ LiveIsUnspent' /\ SingleRedemption' /\ ImmortalRecordIsDead'
  BY <1>1, <1>2, <1>5, <1>6, <1>7
     DEF TypeOK, OnlyMinted, LiveIsUnspent, SingleRedemption, ImmortalRecordIsDead
<1>12. RequestsSound'
  BY <1>1, <1>2, <1>5, <1>6, <1>7, <1>8 DEF TypeOK, RequestsSound, Storing, HeldRoot
<1>13. Holding(r)' /\ HeldRoot(r)' = Root(c)
  BY <1>1, <1>5, <1>7 DEF Holding, HeldRoot
<1>14. /\ \A r1 \in Reqs : r1 # r => /\ Holding(r1)' = Holding(r1)
                                    /\ HeldRoot(r1)' = HeldRoot(r1)
       /\ \A t \in Tokens : Live(t)' => Live(t) /\ t # c /\ Root(t)' = Root(t)
  BY <1>1, <1>2, <1>6 DEF TypeOK, Holding, HeldRoot
<1>15. OneHolder'
  BY <1>1, <1>2, <1>13, <1>14 DEF OneHolder
<1>16. LogoutFinal'
  BY <1>1, <1>2, <1>13, <1>14 DEF TypeOK, LogoutFinal, Held, LiveOf, HoldersOf
<1>17. SuccessIsBacked' /\ MeasuredRight'
  <2>1. SuccessIsBacked'
    BY <1>1, <1>4, <1>5, <1>6, <1>7 DEF SuccessIsBacked
  <2>2. MeasuredRight'
    BY <1>1, <1>4, <1>5, <1>6, <1>7, MeasuredStays
  <2>3. QED
    BY <2>1, <2>2
<1>18. QED
  BY <1>9, <1>10, <1>11, <1>12, <1>15, <1>16, <1>17

\* A request stays a request when a rotation fills in what it has measured, and
\* what it has minted.
LEMMA RotatedRequest ==
  ASSUME NEW q \in Request, NEW t \in Tokens, NEW n \in Int
  PROVE  /\ [q EXCEPT !.pc = "refresh_mint", !.rem = n] \in Request
         /\ [q EXCEPT !.pc = "refresh_set", !.fresh = t] \in Request
<1>1. "refresh_mint" \in PCs /\ "refresh_set" \in PCs
  BY DEF PCs
<1>2. PICK q1, q2 : q1 = [q EXCEPT !.pc = "refresh_mint"] /\ q2 = [q EXCEPT !.pc = "refresh_set"]
  OBVIOUS
<1>3. q1 \in Request /\ q2 \in Request
  BY <1>1, <1>2 DEF Request
<1>4. [q1 EXCEPT !.rem = n] \in Request /\ [q2 EXCEPT !.fresh = t] \in Request
  BY <1>3 DEF Request
<1>5. QED
  BY <1>2, <1>4

\* What a rotation measures of its token's deadline is within the session's bounds.
LEMMA RefreshMeasureStep ==
  ASSUME IInv, NEW r \in Reqs, RefreshMeasure(r)
  PROVE  IInv'
<1> DEFINE c == req[r].cookie
<1> USE DEF IInv
<1>1. /\ req[r].pc = "refresh_role"
      /\ UNCHANGED <<now, redis, payload, sent, stored, wins, ended, gaps>>
  BY DEF RefreshMeasure
<1>2. /\ c \in Tokens /\ Minted(c) /\ req[r] \in Request /\ req[r].status = 0
      /\ payload[c].exp \in Int /\ now \in Int
  BY <1>1, SessionsAssumption DEF RequestsSound, TypeOK, Payload
<1>3. PICK n \in Int : n = payload[c].exp - now
  BY <1>2
<1>4. PICK q : q = [req[r] EXCEPT !.pc = "refresh_mint", !.rem = n]
  OBVIOUS
<1>5. req' = [req EXCEPT ![r] = q]
  BY <1>3, <1>4 DEF RefreshMeasure
<1>6. q \in Request
  BY <1>2, <1>4, RotatedRequest
<1>7. /\ q.pc = "refresh_mint" /\ q.cookie = c /\ q.rem = n
      /\ q.header = req[r].header /\ q.status = 0
  BY <1>2, <1>4 DEF Request
<1>8. req'[r] = q /\ \A r1 \in Reqs : r1 # r => req'[r1] = req[r1]
  BY <1>5 DEF TypeOK
<1> HIDE DEF c
<1>9. TypeOK'
  BY <1>1, <1>5, <1>6 DEF TypeOK
<1>10. /\ Lineages' /\ DeadlineMovesByGaps' /\ OnlyMinted' /\ LiveIsUnspent'
       /\ SingleRedemption' /\ ImmortalRecordIsDead'
  BY <1>1, <1>7, <1>8
     DEF Lineages, DeadlineMovesByGaps, OnlyMinted, LiveIsUnspent, SingleRedemption,
         ImmortalRecordIsDead
<1>11. \A r1 \in Reqs : Holding(r1)' = Holding(r1) /\ HeldRoot(r1)' = HeldRoot(r1)
  <2>1. Holding(r) /\ HeldRoot(r) = Root(c) /\ Holding(r)' /\ HeldRoot(r)' = Root(c)
    BY <1>1, <1>7, <1>8 DEF Holding, HeldRoot, c
  <2>2. QED
    BY <1>1, <1>8, <2>1 DEF Holding, HeldRoot
<1>12. RequestsSound'
  BY <1>1, <1>2, <1>7, <1>8, <1>11 DEF RequestsSound, Storing
<1>13. OneHolder'
  BY <1>1, <1>11 DEF OneHolder
<1>14. LogoutFinal'
  BY <1>1, <1>11 DEF LogoutFinal, Held, LiveOf, HoldersOf
<1>15. SuccessIsBacked'
  BY <1>1, <1>7, <1>8 DEF SuccessIsBacked
<1>16. MeasuredRight'
  <2>1. now + n = payload[c].exp
    BY <1>2, <1>3
  <2>2. payload[c].exp \in payload[Root(c)].exp .. payload[Root(c)].exp + gaps[Root(c)]
    BY <1>2 DEF DeadlineMovesByGaps
  <2>3. QED
    BY <1>1, <1>7, <1>8, <2>1, <2>2 DEF MeasuredRight
<1>17. QED
  BY <1>9, <1>10, <1>12, <1>13, <1>14, <1>15, <1>16

\* The rotated token joins the lineage of the one it replaces, and keeps its bounds.
LEMMA RefreshMintStep ==
  ASSUME IInv, NEW r \in Reqs, NEW t \in Tokens, RefreshMint(r, t)
  PROVE  IInv'
<1> DEFINE c == req[r].cookie
           p == [user |-> payload[c].user, exp |-> now + req[r].rem,
                 root |-> payload[c].root]
<1> USE DEF IInv
<1>1. /\ req[r].pc = "refresh_mint" /\ ~ Minted(t)
      /\ payload' = [payload EXCEPT ![t] = p]
      /\ UNCHANGED <<now, redis, sent, stored, wins, ended, gaps>>
  BY DEF RefreshMint, Create
<1>2. /\ req[r].cookie = c /\ c \in Tokens /\ Minted(c) /\ c # t
      /\ payload[c] \in Payload /\ req[r] \in Request /\ req[r].rem \in Int
      /\ now \in Int
  BY <1>1 DEF RequestsSound, TypeOK, Request
<1>3. /\ p \in Payload /\ p # NoPayload /\ p.exp = now + req[r].rem /\ p.exp \in Int
      /\ p.root = Root(c)
  BY <1>2, SessionsAssumption DEF Payload
<1>4. PICK q : q = [req[r] EXCEPT !.pc = "refresh_set", !.fresh = t]
  OBVIOUS
<1>5. req' = [req EXCEPT ![r] = q]
  BY <1>4 DEF RefreshMint
<1>6. /\ q \in Request /\ q.pc = "refresh_set" /\ q.cookie = c /\ q.fresh = t
      /\ q.rem = req[r].rem /\ q.header = req[r].header /\ q.status = 0
  <2>1. q \in Request
    BY <1>2, <1>4, RotatedRequest
  <2>2. req[r].status = 0
    BY <1>1 DEF RequestsSound
  <2>3. QED
    BY <1>2, <1>4, <2>1, <2>2 DEF Request
<1>7. req'[r] = q /\ \A r1 \in Reqs : r1 # r => req'[r1] = req[r1]
  BY <1>5 DEF TypeOK
<1>8. /\ payload'[t] = p
      /\ \A s \in Tokens : s # t => payload'[s] = payload[s]
      /\ \A s \in Tokens : Minted(s) => s # t /\ Root(s) \in Tokens /\ Root(s) # t
      /\ ~ Live(t) /\ wins[t] = 0 /\ t \notin sent /\ t \notin ended
  BY <1>1 DEF TypeOK, Payload, Lineages, OnlyMinted
<1>9. p.exp \in payload[Root(c)].exp .. payload[Root(c)].exp + gaps[Root(c)]
  BY <1>1, <1>3 DEF MeasuredRight
<1> HIDE DEF c, p
<1>10. TypeOK'
  BY <1>1, <1>3, <1>5, <1>6 DEF TypeOK
<1>11. Lineages' /\ DeadlineMovesByGaps'
  BY <1>1, <1>2, <1>3, <1>8, <1>9 DEF Lineages, DeadlineMovesByGaps
<1>12. OnlyMinted' /\ LiveIsUnspent' /\ SingleRedemption' /\ ImmortalRecordIsDead'
  BY <1>1, <1>3, <1>6, <1>7, <1>8
     DEF TypeOK, OnlyMinted, LiveIsUnspent, SingleRedemption, ImmortalRecordIsDead
<1>13. Holding(r) /\ HeldRoot(r) = Root(c) /\ Holding(r)' /\ HeldRoot(r)' = Root(c)
  BY <1>1, <1>2, <1>6, <1>7, <1>8 DEF Holding, HeldRoot
<1>14. /\ \A r1 \in Reqs : Holding(r1)' = Holding(r1)
       /\ \A r1 \in Reqs : Holding(r1) => HeldRoot(r1)' = HeldRoot(r1)
       /\ \A s \in Tokens : Live(s)' => Live(s) /\ Root(s)' = Root(s)
  BY <1>1, <1>2, <1>7, <1>8, <1>13 DEF Holding, HeldRoot, RequestsSound, OnlyMinted
<1>15. RequestsSound'
  <2> SUFFICES ASSUME NEW r1 \in Reqs
               PROVE  /\ req'[r1].pc # "reply" => req'[r1].status = 0
                      /\ req'[r1].pc \in {"refresh_claim", "refresh_role", "refresh_mint",
                                          "refresh_set", "logout_claim"}
                         => req'[r1].cookie \in Tokens /\ Minted(req[r1].cookie)'
                      /\ Storing(r1)'
                         => /\ req'[r1].fresh \in Tokens /\ Minted(req[r1].fresh)'
                            /\ wins'[req'[r1].fresh] = 0
                            /\ Root(req[r1].fresh)' = HeldRoot(r1)'
                            /\ req'[r1].rem <= 0 => payload'[req'[r1].fresh].exp <= now'
    BY DEF RequestsSound
  <2>1. CASE r1 = r
    BY <2>1, <1>1, <1>2, <1>3, <1>6, <1>7, <1>8, <1>13 DEF Storing, Payload
  <2>2. CASE r1 # r
    BY <2>2, <1>1, <1>7, <1>8, <1>14 DEF RequestsSound, Storing, Holding
  <2>3. QED
    BY <2>1, <2>2
<1>16. OneHolder'
  BY <1>14 DEF OneHolder
<1>17. LogoutFinal'
  BY <1>1, <1>14 DEF TypeOK, LogoutFinal, Held, LiveOf, HoldersOf
<1>18. SuccessIsBacked'
  BY <1>1, <1>6, <1>7 DEF SuccessIsBacked
<1>19. MeasuredRight'
  BY <1>1, <1>5, <1>6, <1>8, MeasuredStaysMinting
<1>20. QED
  BY <1>10, <1>11, <1>12, <1>15, <1>16, <1>17, <1>18, <1>19

\* A revocation removes the record, and with it the session's only holder.
LEMMA LogoutClaimStep ==
  ASSUME IInv, NEW r \in Reqs, LogoutClaim(r)
  PROVE  IInv'
<1> DEFINE c == req[r].cookie
<1> USE DEF IInv
<1>1. /\ req[r].pc = "logout_claim" /\ Live(c)
      /\ redis' = [redis EXCEPT ![c] = NoRecord]
      /\ ended' = ended \cup {payload[c].root}
      /\ UNCHANGED <<now, payload, sent, stored, wins, gaps>>
  BY DEF LogoutClaim, GetDel
<1>2. c \in Tokens /\ Minted(c) /\ Root(c) \in Tokens /\ Minted(Root(c))
  BY <1>1 DEF RequestsSound, Lineages, TypeOK, Payload
<1>3. PICK q : q = Answered(req[r], 200)
  OBVIOUS
<1>4. q = [pc |-> "reply", cookie |-> NoToken, fresh |-> NoToken, rem |-> 0,
           header |-> req[r].header, status |-> 200, aim |-> NoToken]
  BY <1>3 DEF Answered, Idle
<1>5. req' = [req EXCEPT ![r] = q]
  BY <1>3 DEF LogoutClaim, Answer
<1>6. q \in Request
  BY <1>4 DEF TypeOK, Request, PCs
<1>7. req'[r] = q /\ \A r1 \in Reqs : r1 # r => req'[r1] = req[r1]
  BY <1>5 DEF TypeOK
<1> HIDE DEF c
<1>8. TypeOK'
  BY <1>1, <1>2, <1>5, <1>6 DEF TypeOK
<1>9. Lineages' /\ DeadlineMovesByGaps' /\ SingleRedemption'
  BY <1>1 DEF Lineages, DeadlineMovesByGaps, SingleRedemption
<1>10. OnlyMinted' /\ LiveIsUnspent' /\ ImmortalRecordIsDead'
  BY <1>1, <1>2, <1>4, <1>7
     DEF TypeOK, OnlyMinted, LiveIsUnspent, ImmortalRecordIsDead
<1>11. RequestsSound'
  BY <1>1, <1>4, <1>7 DEF RequestsSound, Storing, HeldRoot
<1>12. /\ ~ Holding(r)'
       /\ \A r1 \in Reqs : Holding(r1)' => Holding(r1) /\ HeldRoot(r1)' = HeldRoot(r1)
       /\ \A t \in Tokens : Live(t)' => Live(t) /\ t # c /\ Root(t)' = Root(t)
  BY <1>1, <1>2, <1>4, <1>7 DEF TypeOK, Holding, HeldRoot
<1>13. OneHolder'
  BY <1>12 DEF OneHolder
<1>14. LogoutFinal'
  <2>1. \A t \in Tokens : Live(t)' => Root(t)' # Root(c)
    BY <1>1, <1>2, <1>12 DEF OneHolder
  <2>2. \A r1 \in Reqs : Holding(r1)' => HeldRoot(r1)' # Root(c)
    BY <1>1, <1>2, <1>12 DEF OneHolder
  <2>3. QED
    BY <1>1, <1>12, <2>1, <2>2 DEF LogoutFinal, Held, LiveOf, HoldersOf
<1>15. SuccessIsBacked' /\ MeasuredRight'
  <2>1. SuccessIsBacked'
    BY <1>1, <1>4, <1>5, <1>7 DEF SuccessIsBacked
  <2>2. MeasuredRight'
    BY <1>1, <1>4, <1>5, <1>7, MeasuredStays
  <2>3. QED
    BY <2>1, <2>2
<1>16. QED
  BY <1>8, <1>9, <1>10, <1>11, <1>13, <1>14, <1>15

-----------------------------------------------------------------------------
(* Time, and the steps that are instances of the lemmas above.             *)

\* Time only removes records and moves deadlines into the past; where a rotation
\* waits to mint, it is counted.
LEMMA TickStep ==
  ASSUME IInv, Tick
  PROVE  IInv'
<1> USE DEF IInv
<1>1. /\ now' = now + 1 /\ now < MaxTime
      /\ redis' \in [Tokens -> Record \cup {NoRecord}]
      /\ \A t \in Tokens : redis'[t] \in {redis[t], NoRecord}
      /\ UNCHANGED <<payload, req, sent, stored, wins, ended>>
  BY DEF Tick, TypeOK
<1>2. /\ gaps' \in [Tokens -> Nat]
      /\ \A s \in Tokens : gaps[s] \in Nat /\ gaps'[s] \in {gaps[s], gaps[s] + 1}
      /\ \A s \in Tokens : BetweenReadings(s) => gaps'[s] = gaps[s] + 1
  BY DEF Tick, TypeOK
<1>3. now \in Int /\ TypeOK'
  BY <1>1, <1>2, SessionsAssumption DEF TypeOK
<1>4. Lineages' /\ OnlyMinted' /\ LiveIsUnspent' /\ SingleRedemption' /\ SuccessIsBacked'
  BY <1>1 DEF Lineages, OnlyMinted, LiveIsUnspent, SingleRedemption, SuccessIsBacked
<1>5. \A t \in Tokens : Minted(t) =>
         payload[t].exp \in Int /\ Root(t) \in Tokens /\ payload[Root(t)].exp \in Int
  BY DEF TypeOK, Payload, Lineages
<1>6. DeadlineMovesByGaps'
  BY <1>1, <1>2, <1>5 DEF DeadlineMovesByGaps
<1>7. MeasuredRight'
  <2> SUFFICES ASSUME NEW r \in Reqs, req[r].pc = "refresh_mint", NEW s, s = Root(req[r].cookie)
               PROVE  now + 1 + req[r].rem \in payload[s].exp .. payload[s].exp + gaps'[s]
    BY <1>1 DEF MeasuredRight
  <2>1. s \in Tokens /\ payload[s].exp \in Int /\ req[r].rem \in Int
    BY <1>5 DEF RequestsSound, TypeOK, Request
  <2>2. gaps'[s] = gaps[s] + 1 /\ gaps[s] \in Nat
    BY <1>2, <2>1 DEF BetweenReadings
  <2>3. now + req[r].rem \in payload[s].exp .. payload[s].exp + gaps[s]
    BY DEF MeasuredRight
  <2>4. QED
    BY <1>3, <2>1, <2>2, <2>3
<1>8. RequestsSound'
  BY <1>1, <1>3, <1>5 DEF RequestsSound, Storing, HeldRoot
<1>9. ImmortalRecordIsDead'
  BY <1>1, <1>3, <1>5 DEF ImmortalRecordIsDead, OnlyMinted
<1>10. OneHolder' /\ LogoutFinal'
  BY <1>1 DEF OneHolder, LogoutFinal, Held, LiveOf, HoldersOf, Holding, HeldRoot
<1>11. QED
  BY <1>3, <1>4, <1>6, <1>7, <1>8, <1>9, <1>10

\* The response leaves, or the request dies.
LEMMA EndStep ==
  ASSUME IInv, NEW r \in Reqs, Reply(r) \/ Crash(r)
  PROVE  IInv'
<1>1. Idle \in Request /\ Idle.pc = "idle" /\ Idle.status = 0 /\ Idle.header = NoToken
  BY DEF Idle, Request, PCs
<1>2. req[r].header \in Tokens \cup {NoToken}
  BY DEF IInv, TypeOK, Request
<1>3. Retires(r, Idle)
  <2>1. req' = [req EXCEPT ![r] = Idle] /\ UNCHANGED <<now, redis, payload, stored, wins, ended, gaps>>
    BY DEF Reply, Crash
  <2>2. sent' \subseteq Tokens /\ \A t \in sent' : Minted(t)
    BY <1>2 DEF Reply, Crash, IInv, TypeOK, OnlyMinted
  <2>3. Removes
    BY <2>1 DEF Removes, IInv, TypeOK
  <2>4. QED
    BY <1>1, <2>1, <2>2, <2>3 DEF Retires
<1>4. QED
  BY <1>3, RetireStep

\* Every answer that discloses nothing new.
LEMMA RefusalStep ==
  ASSUME IInv, NEW r \in Reqs,
         \/ LoginSealFails(r) \/ NoCookie(r) \/ RefreshMiss(r)
         \/ RefreshRotateFails(r) \/ LogoutMiss(r) \/ ClaimError(r)
  PROVE  IInv'
<1>1. PICK st \in {200, 401, 500} : Answer(r, st)
  BY DEF LoginSealFails, NoCookie, RefreshMiss, RefreshRotateFails, LogoutMiss, ClaimError
<1>2. UNCHANGED <<sent, stored, payload, wins, ended, now, gaps>>
  BY DEF LoginSealFails, NoCookie, RefreshMiss, RefreshRotateFails, LogoutMiss, ClaimError
<1>3. UNCHANGED redis \/ redis' = [redis EXCEPT ![req[r].cookie] = NoRecord]
  BY DEF LoginSealFails, NoCookie, RefreshMiss, RefreshRotateFails, LogoutMiss,
         ClaimError, GetDel
<1>4. Removes
  BY <1>3 DEF Removes, IInv, TypeOK
<1>5. QED
  BY <1>1, <1>2, <1>4, AnswerStep

\* Login and Refresh store what they have minted, and answer with it.
LEMMA StoreOkStep ==
  ASSUME IInv, NEW r \in Reqs, StoreOk(r)
  PROVE  IInv'
<1> DEFINE f == req[r].fresh
<1>1. f \in Tokens /\ Minted(f)
  BY DEF StoreOk, IInv, RequestsSound
<1>2. PICK q : q = Answered([req[r] EXCEPT !.header = f], 201)
  OBVIOUS
<1>3. [req[r] EXCEPT !.header = f].header = f
  BY DEF IInv, TypeOK, Request
<1>4. q = [pc |-> "reply", cookie |-> NoToken, fresh |-> NoToken, rem |-> 0,
           header |-> f, status |-> 201, aim |-> NoToken]
  BY <1>2, <1>3 DEF Answered, Idle
<1>5. req' = [req EXCEPT ![r] = q]
  BY <1>2 DEF StoreOk
<1>6. q \in Request
  BY <1>1, <1>4 DEF Request, PCs
<1>7. /\ Storing(r) /\ Set(f, payload[f].user, req[r].rem)
      /\ stored' = stored \cup {f}
      /\ UNCHANGED <<sent, payload, wins, ended, now, gaps>>
  BY DEF StoreOk
<1>8. StoresAs(r, q)
  BY <1>1, <1>4, <1>5, <1>6, <1>7 DEF StoresAs
<1>9. QED
  BY <1>8, StoreStep

\* A failing SET is answered 500 whether or not Redis applied it.
LEMMA StoreFailsStep ==
  ASSUME IInv, NEW r \in Reqs, StoreFails(r)
  PROVE  IInv'
<1> DEFINE f == req[r].fresh
<1>1. CASE UNCHANGED <<redis, stored>>
  <2>1. Answer(r, 500) /\ UNCHANGED <<sent, payload, wins, ended, now, gaps>>
    BY DEF StoreFails
  <2>2. Removes
    BY <1>1 DEF Removes, IInv, TypeOK
  <2>3. UNCHANGED <<sent, stored, payload, wins, ended, now, gaps>>
    BY <1>1, <2>1
  <2>4. QED
    BY <2>1, <2>2, <2>3, AnswerStep
<1>2. CASE Set(f, payload[f].user, req[r].rem) /\ stored' = stored \cup {f}
  <2>1. PICK q : q = Answered(req[r], 500)
    OBVIOUS
  <2>2. q = [pc |-> "reply", cookie |-> NoToken, fresh |-> NoToken, rem |-> 0,
             header |-> req[r].header, status |-> 500, aim |-> NoToken]
    BY <2>1, ZenonT(40) DEF Answered, Idle
  <2>3. req' = [req EXCEPT ![r] = q]
    BY <2>1 DEF StoreFails, Answer
  <2>4. q \in Request /\ (q.header # NoToken => Minted(q.header))
    BY <2>2 DEF IInv, TypeOK, OnlyMinted, Request, PCs
  <2>5. Storing(r) /\ UNCHANGED <<sent, payload, wins, ended, now, gaps>>
    BY DEF StoreFails
  <2>6. StoresAs(r, q)
    BY <1>2, <2>2, <2>3, <2>4, <2>5 DEF StoresAs
  <2>7. QED
    BY <2>6, StoreStep
<1>3. QED
  BY <1>1, <1>2 DEF StoreFails

-----------------------------------------------------------------------------
(* The theorems.                                                           *)

\* Every step, of a handler, of a client or of time, preserves the invariant.
LEMMA NextIInv == IInv /\ [Next]_vars => IInv'
<1> SUFFICES ASSUME IInv, [Next]_vars PROVE IInv'
  OBVIOUS
<1>1. CASE Tick
  BY <1>1, TickStep
<1>2. ASSUME NEW r \in Reqs, Arrive(r) PROVE IInv'
  <2>1. ASSUME NEW u \in Users, NEW t \in Tokens, LoginSeal(r, u, t) PROVE IInv'
    BY <2>1, LoginSealStep
  <2>2. CASE LoginSealFails(r) \/ NoCookie(r)
    BY <2>2, RefusalStep
  <2>3. ASSUME NEW c \in sent, RefreshVerify(r, c) PROVE IInv'
    BY <2>3, RefreshVerifyStep
  <2>4. ASSUME NEW c \in sent, LogoutVerify(r, c) PROVE IInv'
    BY <2>4, LogoutVerifyStep
  <2>5. QED
    BY <1>2, <2>1, <2>2, <2>3, <2>4 DEF Arrive
<1>3. ASSUME NEW r \in Reqs, Serve(r) PROVE IInv'
  <2>1. CASE StoreOk(r)
    BY <2>1, StoreOkStep
  <2>2. CASE StoreFails(r)
    BY <2>2, StoreFailsStep
  <2>3. CASE RefreshClaim(r)
    BY <2>3, RefreshClaimStep
  <2>9. CASE RefreshMeasure(r)
    BY <2>9, RefreshMeasureStep
  <2>4. ASSUME NEW t \in Tokens, RefreshMint(r, t) PROVE IInv'
    BY <2>4, RefreshMintStep
  <2>5. CASE LogoutClaim(r)
    BY <2>5, LogoutClaimStep
  <2>6. CASE RefreshMiss(r) \/ RefreshRotateFails(r) \/ LogoutMiss(r) \/ ClaimError(r)
    BY <2>6, RefusalStep
  <2>7. CASE Reply(r)
    BY <2>7, EndStep
  <2>8. QED
    BY <1>3, <2>1, <2>2, <2>3, <2>4, <2>5, <2>6, <2>7, <2>9 DEF Serve
<1>4. ASSUME NEW r \in Reqs, Crash(r) PROVE IInv'
  BY <1>4, EndStep
<1>5. CASE UNCHANGED vars
  BY <1>5 DEF vars, IInv, TypeOK, Lineages, OnlyMinted, RequestsSound, LiveIsUnspent,
              OneHolder, SingleRedemption, LogoutFinal, DeadlineMovesByGaps,
              MeasuredRight, ImmortalRecordIsDead, SuccessIsBacked, Storing, Holding, HeldRoot,
              Held, LiveOf, HoldersOf
<1>6. QED
  BY <1>1, <1>2, <1>3, <1>4, <1>5 DEF Next

\* The invariant of all the others: it holds in every reachable state.
THEOREM Invariance == Spec => []IInv
<1>1. Init => IInv
  BY InitIInv
<1>2. IInv /\ [Next]_vars => IInv'
  BY NextIInv
<1>3. QED
  BY <1>1, <1>2, PTL DEF Spec

\* Every variable keeps its type, whatever fails and however requests interleave.
THEOREM TypeCorrect == Spec => []TypeOK
<1>1. IInv => TypeOK
  BY DEF IInv
<1>2. QED
  BY <1>1, Invariance, PTL

\* However many requests present however many tokens however often, a login never
\* has two redeemable tokens, nor one beside a rotation that will write another.
THEOREM AtMostOneHolder == Spec => []OneHolder
<1>1. IInv => OneHolder
  BY DEF IInv
<1>2. QED
  BY <1>1, Invariance, PTL

\* Two redemptions of one token never both win (README: single-use refresh tokens).
THEOREM TokensAreSingleUse == Spec => []SingleRedemption
<1>1. IInv => SingleRedemption
  BY DEF IInv
<1>2. QED
  BY <1>1, Invariance, PTL

\* A session whose record a Logout deleted never comes back.
THEOREM LogoutIsFinal == Spec => []LogoutFinal
<1>1. IInv => LogoutFinal
  BY DEF IInv
<1>2. QED
  BY <1>1, Invariance, PTL

\* However many rotations a session goes through, its deadline never moves earlier,
\* and moves later by no more than the time they stood between their two readings.
THEOREM DeadlineIsBounded == Spec => []DeadlineMovesByGaps
<1>1. IInv => DeadlineMovesByGaps
  BY DEF IInv
<1>2. QED
  BY <1>1, Invariance, PTL

\* The one record that never expires is of a token nobody can redeem any more.
THEOREM ImmortalIsDead == Spec => []ImmortalRecordIsDead
<1>1. IInv => ImmortalRecordIsDead
  BY DEF IInv
<1>2. QED
  BY <1>1, Invariance, PTL

\* A response of status 201 carries a token that was stored.
THEOREM SuccessBacked == Spec => []SuccessIsBacked
<1>1. IInv => SuccessIsBacked
  BY DEF IInv
<1>2. QED
  BY <1>1, Invariance, PTL

-----------------------------------------------------------------------------
(* A cookie a client was given works, as long as nothing fails.            *)

\* The first instant at which Redis reads a clock past the millisecond u.
GoneAt(u) == (u + 1) * Milli

\* A record is on time for its token: it goes less than a millisecond before it.
Outlives(rec, p) == rec.until = Forever \/ p.exp + 1 < GoneAt(rec.until) + Milli

\* The token has a millisecond left.
Lasts(t) == now + (Milli - 1) <= payload[t].exp

\* A token that is on record, or was, and has neither been spent nor revoked is on
\* record up to its last millisecond.
StoredWork ==
    \A t \in stored :
        /\ Minted(t)
        /\ Lasts(t) /\ wins[t] = 0 /\ Root(t) \notin ended =>
              Live(t) /\ Outlives(redis[t], payload[t])

\* What was disclosed, or will be with the next response, is on record or was.
DisclosedStored ==
    /\ sent \subseteq stored
    /\ \A r \in Reqs : req[r].header # NoToken /\ req[r].pc # "login_set" =>
                          req[r].header \in stored

\* The record a request is about to write will outlive its token.
RecordsOutlive ==
    \A r \in Reqs : Storing(r) => payload[req[r].fresh].exp <= now + req[r].rem

WorksInv == StoredWork /\ DisclosedStored /\ RecordsOutlive

\* Together they say what is wanted.
LEMMA WorksIsWorks == IInv /\ WorksInv => CookieWorks
BY DEF WorksInv, StoredWork, DisclosedStored, CookieWorks, Lasts

\* A record written now, for what is left or less than it was, is on time.
LEMMA SetIsOnTime ==
  ASSUME now \in Int, NEW ttl \in Int, ttl > 0, NEW e \in Int, e <= now + ttl
  PROVE  e + 1 < GoneAt(RedisNow + Px(ttl)) + Milli
<1>1. PICK a \in Int, M \in Nat \ {0} : a = now \div Milli /\ M = Milli
  BY Whole, SessionsAssumption
<1>2. now < a * M + M
  BY <1>1, Whole
<1>3. PICK b \in Int : b = Px(ttl)
  BY ExpiryType
<1>4. ttl < b * M + M
  <2>1. CASE ttl < Milli
    <3>1. b = 1 /\ b * M = M
      BY <1>1, <1>3, <2>1 DEF Px
    <3>2. QED
      BY <1>1, <2>1, <3>1
  <2>2. CASE ~ (ttl < Milli)
    BY <1>1, <1>3, <2>2, Whole DEF Px
  <2>3. QED
    BY <2>1, <2>2
<1>5. GoneAt(RedisNow + Px(ttl)) = a * M + b * M + M
  BY <1>1, <1>3 DEF GoneAt, RedisNow
<1>6. PICK x \in Int, y \in Int : x = a * M /\ y = b * M
  BY <1>1, <1>3
<1>7. e + 1 < x + y + M + M
  BY <1>1, <1>2, <1>4, <1>6
<1>8. QED
  BY <1>1, <1>5, <1>6, <1>7

\* Redis evicts a record at the instant GoneAt names, and not before.
LEMMA EvictedThen ==
  ASSUME NEW u \in Int, NEW n \in Int, u < n \div Milli
  PROVE  GoneAt(u) <= n
<1>1. PICK a \in Int, M \in Nat \ {0} : a = n \div Milli /\ M = Milli
  BY Whole, SessionsAssumption
<1>2. a * M <= n /\ u + 1 <= a
  BY <1>1, Whole
<1>3. (u + 1) * M <= a * M
  BY <1>1, <1>2
<1>4. PICK x \in Int, y \in Int : x = (u + 1) * M /\ y = a * M
  BY <1>1
<1>5. QED
  BY <1>1, <1>2, <1>3, <1>4 DEF GoneAt

\* A step that neither stores, mints, spends nor lets time pass.
LEMMA QuietWorks ==
  ASSUME IInv, WorksInv, NEW r \in Reqs, NEW q, req' = [req EXCEPT ![r] = q],
         q.header # NoToken => q.header \in stored,
         q.pc \notin {"login_set", "refresh_set"},
         sent' \subseteq stored,
         UNCHANGED <<now, redis, payload, stored, wins, ended, gaps>>
  PROVE  WorksInv'
<1>1. req'[r] = q /\ \A r1 \in Reqs : r1 # r => req'[r1] = req[r1]
  BY DEF IInv, TypeOK
<1>2. StoredWork' /\ DisclosedStored'
  BY <1>1 DEF WorksInv, StoredWork, DisclosedStored, Lasts
<1>3. RecordsOutlive'
  BY <1>1 DEF WorksInv, RecordsOutlive, Storing
<1>4. QED
  BY <1>2, <1>3 DEF WorksInv

\* Minting a token touches no token that was stored.
LEMMA MintWorks ==
  ASSUME IInv, WorksInv, NEW r \in Reqs, NEW q, NEW t \in Tokens, NEW p,
         req' = [req EXCEPT ![r] = q], ~ Minted(t), payload' = [payload EXCEPT ![t] = p],
         p # NoPayload, q.pc \in {"login_set", "refresh_set"}, q.fresh = t,
         q.pc = "refresh_set" => q.header = req[r].header /\ req[r].pc = "refresh_mint",
         p.exp <= now + q.rem,
         UNCHANGED <<now, redis, sent, stored, wins, ended, gaps>>
  PROVE  WorksInv'
<1>1. req'[r] = q /\ \A r1 \in Reqs : r1 # r => req'[r1] = req[r1]
  BY DEF IInv, TypeOK
<1>2. payload'[t] = p /\ \A s \in Tokens : s # t => payload'[s] = payload[s]
  BY DEF IInv, TypeOK
<1>3. \A s \in stored : s \in Tokens /\ Minted(s) /\ s # t
  BY DEF WorksInv, StoredWork, IInv, TypeOK
<1>4. StoredWork'
  BY <1>2, <1>3 DEF WorksInv, StoredWork, Lasts
<1>5. DisclosedStored'
  BY <1>1 DEF WorksInv, DisclosedStored
<1>6. RecordsOutlive'
  <2> SUFFICES ASSUME NEW r1 \in Reqs, Storing(r1)'
               PROVE  payload'[req'[r1].fresh].exp <= now' + req'[r1].rem
    BY DEF RecordsOutlive
  <2>1. CASE r1 = r
    BY <1>1, <1>2, <2>1
  <2>2. CASE r1 # r
    <3>1. req'[r1] = req[r1] /\ Storing(r1)
      BY <1>1, <2>2 DEF Storing
    <3>2. req[r1].fresh \in Tokens /\ req[r1].fresh # t
      BY <3>1 DEF IInv, RequestsSound
    <3>3. QED
      BY <1>2, <3>1, <3>2 DEF WorksInv, RecordsOutlive
  <2>3. QED
    BY <2>1, <2>2
<1>7. QED
  BY <1>4, <1>5, <1>6 DEF WorksInv

\* A login's token is minted with the lifetime its record will get.
LEMMA LoginSealWorks ==
  ASSUME IInv, WorksInv, NEW r \in Reqs, NEW u \in Users, NEW t \in Tokens, LoginSeal(r, u, t)
  PROVE  WorksInv'
<1>1. PICK q : q = [Idle EXCEPT !.pc = "login_set", !.fresh = t, !.rem = RefreshTTL, !.header = t]
  OBVIOUS
<1>2. q.pc = "login_set" /\ q.fresh = t /\ q.rem = RefreshTTL
  BY <1>1 DEF Idle
<1>3. PICK p : p = [user |-> u, exp |-> now + RefreshTTL, root |-> t]
  OBVIOUS
<1>4. p # NoPayload /\ p.exp <= now + q.rem
  BY <1>2, <1>3, SessionsAssumption DEF IInv, TypeOK
<1>5. /\ req' = [req EXCEPT ![r] = q] /\ ~ Minted(t) /\ payload' = [payload EXCEPT ![t] = p]
      /\ UNCHANGED <<now, redis, sent, stored, wins, ended, gaps>>
  BY <1>1, <1>3 DEF LoginSeal, Create
<1>6. QED
  BY <1>2, <1>4, <1>5, MintWorks

\* A rotated token is minted with the time its record will get.
LEMMA MintedWorks ==
  ASSUME IInv, WorksInv, NEW r \in Reqs, NEW t \in Tokens, RefreshMint(r, t)
  PROVE  WorksInv'
<1>1. PICK c : c = req[r].cookie
  OBVIOUS
<1>2. /\ req[r].pc = "refresh_mint" /\ c \in Tokens /\ Minted(c) /\ payload[c] \in Payload
      /\ now \in Int /\ req[r] \in Request /\ req[r].rem \in Int
  BY <1>1 DEF RefreshMint, IInv, RequestsSound, TypeOK, Request
<1>3. PICK q : q = [req[r] EXCEPT !.pc = "refresh_set", !.fresh = t]
  OBVIOUS
<1>4. q.pc = "refresh_set" /\ q.fresh = t /\ q.rem = req[r].rem /\ q.header = req[r].header
  BY <1>2, <1>3 DEF Request
<1>5. PICK p : p = [user |-> payload[c].user, exp |-> now + req[r].rem,
                    root |-> payload[c].root]
  OBVIOUS
<1>6. p # NoPayload /\ p.exp <= now + q.rem
  BY <1>2, <1>4, <1>5, SessionsAssumption DEF Payload
<1>7. /\ req' = [req EXCEPT ![r] = q] /\ ~ Minted(t) /\ payload' = [payload EXCEPT ![t] = p]
      /\ UNCHANGED <<now, redis, sent, stored, wins, ended, gaps>>
  BY <1>1, <1>3, <1>5 DEF RefreshMint, Create
<1>8. QED
  BY <1>2, <1>4, <1>6, <1>7, MintWorks

\* Measuring what is left discloses, stores and mints nothing.
LEMMA MeasureWorks ==
  ASSUME IInv, WorksInv, NEW r \in Reqs, RefreshMeasure(r)
  PROVE  WorksInv'
<1>1. PICK n : n = payload[req[r].cookie].exp - now
  OBVIOUS
<1>2. PICK q : q = [req[r] EXCEPT !.pc = "refresh_mint", !.rem = n]
  OBVIOUS
<1>3. req' = [req EXCEPT ![r] = q] /\ UNCHANGED <<now, redis, payload, sent, stored, wins, ended, gaps>>
  BY <1>1, <1>2 DEF RefreshMeasure
<1>4. q.pc = "refresh_mint" /\ q.header = req[r].header /\ req[r].pc = "refresh_role"
  BY <1>2 DEF IInv, TypeOK, Request, RefreshMeasure
<1>5. (q.header # NoToken => q.header \in stored) /\ sent' \subseteq stored
  BY <1>3, <1>4 DEF WorksInv, DisclosedStored
<1>6. QED
  BY <1>3, <1>4, <1>5, QuietWorks

\* The record is written for as long as its token stays valid, in whole milliseconds.
LEMMA StoreOkWorks ==
  ASSUME IInv, WorksInv, NEW r \in Reqs, StoreOk(r)
  PROVE  WorksInv'
<1>1. PICK f, rec : /\ f = req[r].fresh
                    /\ rec = [user |-> payload[f].user,
                              until |-> IF req[r].rem > 0 THEN RedisNow + Px(req[r].rem)
                                        ELSE Forever]
  OBVIOUS
<1>2. f \in Tokens /\ Minted(f) /\ payload[f] \in Payload /\ req[r].rem \in Int /\ now \in Int
  BY <1>1 DEF StoreOk, IInv, RequestsSound, TypeOK, Request
<1>3. /\ redis' = [redis EXCEPT ![f] = rec] /\ stored' = stored \cup {f}
      /\ UNCHANGED <<now, payload, sent, wins, ended, gaps>>
  BY <1>1 DEF StoreOk, Set
<1>4. rec \in Record /\ rec # NoRecord
  <2>1. PICK m \in Int : m = RedisNow + Px(req[r].rem)
    BY <1>2, ExpiryType
  <2>2. QED
    BY <1>1, <1>2, <2>1, SessionsAssumption DEF Payload, Record
<1>5. Outlives(rec, payload[f])
  <2>1. payload[f].exp <= now + req[r].rem /\ payload[f].exp \in Int
    BY <1>1, <1>2 DEF StoreOk, WorksInv, RecordsOutlive, Payload
  <2>2. CASE req[r].rem > 0
    <3>1. rec.until = RedisNow + Px(req[r].rem)
      BY <1>1, <2>2
    <3>2. payload[f].exp + 1 < GoneAt(RedisNow + Px(req[r].rem)) + Milli
      BY <1>2, <2>1, <2>2, SetIsOnTime
    <3>3. QED
      BY <3>1, <3>2 DEF Outlives
  <2>3. CASE ~ (req[r].rem > 0)
    BY <1>1, <2>3 DEF Outlives
  <2>4. QED
    BY <2>2, <2>3
<1>6. PICK q : /\ q = Answered([req[r] EXCEPT !.header = f], 201)
               /\ req' = [req EXCEPT ![r] = q]
  BY <1>1 DEF StoreOk
<1>7. q.pc = "reply" /\ q.header = f
  <2>1. [req[r] EXCEPT !.header = f].header = f
    BY DEF IInv, TypeOK, Request
  <2>2. q = [pc |-> "reply", cookie |-> NoToken, fresh |-> NoToken, rem |-> 0,
             header |-> f, status |-> 201, aim |-> NoToken]
    BY <1>6, <2>1 DEF Answered, Idle
  <2>3. QED
    BY <2>2
<1>8. req'[r] = q /\ \A r1 \in Reqs : r1 # r => req'[r1] = req[r1]
  BY <1>6 DEF IInv, TypeOK
<1>9. redis'[f] = rec /\ \A s \in Tokens : s # f => redis'[s] = redis[s]
  BY <1>2, <1>3 DEF IInv, TypeOK
<1>10. StoredWork'
  <2> SUFFICES ASSUME NEW t \in stored'
               PROVE  /\ Minted(t)'
                      /\ (Lasts(t) /\ wins[t] = 0 /\ Root(t) \notin ended)' =>
                            Live(t)' /\ Outlives(redis'[t], payload'[t])
    BY DEF StoredWork
  <2>1. CASE t = f
    BY <1>2, <1>3, <1>4, <1>5, <1>9, <2>1
  <2>2. CASE t # f
    BY <1>3, <1>9, <2>2 DEF WorksInv, StoredWork, Lasts, IInv, TypeOK
  <2>3. QED
    BY <2>1, <2>2
<1>11. DisclosedStored'
  BY <1>3, <1>7, <1>8 DEF WorksInv, DisclosedStored
<1>12. RecordsOutlive'
  BY <1>3, <1>7, <1>8 DEF WorksInv, RecordsOutlive, Storing
<1>13. QED
  BY <1>10, <1>11, <1>12 DEF WorksInv

\* A token that is taken away was spent, or its session is revoked.
LEMMA ClaimWorks ==
  ASSUME IInv, WorksInv, NEW r \in Reqs, RefreshClaim(r) \/ LogoutClaim(r)
  PROVE  WorksInv'
<1>1. PICK c : c = req[r].cookie
  OBVIOUS
<1>2. c \in Tokens /\ redis' = [redis EXCEPT ![c] = NoRecord] /\ wins[c] = 0
      /\ UNCHANGED <<now, payload, sent, stored>>
  BY <1>1 DEF RefreshClaim, LogoutClaim, GetDel, IInv, RequestsSound, LiveIsUnspent
<1>3. /\ ended \subseteq ended' /\ \A t \in Tokens : wins'[t] = 0 => wins[t] = 0
      /\ wins'[c] # 0 \/ Root(c) \in ended'
  BY <1>1, <1>2 DEF RefreshClaim, LogoutClaim, IInv, TypeOK
<1>4. StoredWork'
  BY <1>2, <1>3 DEF WorksInv, StoredWork, Lasts, IInv, TypeOK
<1>5. \E q : /\ req' = [req EXCEPT ![r] = q] /\ q.header = req[r].header
             /\ q.pc \in {"reply", "refresh_role"}
  <2>1. ASSUME NEW st, Answer(r, st)
        PROVE  \E q : /\ req' = [req EXCEPT ![r] = q] /\ q.header = req[r].header
                      /\ q.pc \in {"reply", "refresh_role"}
    <3>1. PICK q1 : q1 = Answered(req[r], st)
      OBVIOUS
    <3>2. q1.pc = "reply" /\ q1.header = req[r].header
      BY <3>1 DEF Answered, Idle
    <3>3. req' = [req EXCEPT ![r] = q1]
      BY <2>1, <3>1 DEF Answer
    <3>4. QED
      BY <3>2, <3>3
  <2>2. CASE Goto(r, "refresh_role")
    <3>1. PICK q1 : q1 = [req[r] EXCEPT !.pc = "refresh_role"]
      OBVIOUS
    <3>2. q1.pc = "refresh_role" /\ q1.header = req[r].header
      BY <3>1 DEF IInv, TypeOK, Request
    <3>3. req' = [req EXCEPT ![r] = q1]
      BY <2>2, <3>1 DEF Goto
    <3>4. QED
      BY <3>2, <3>3
  <2>3. QED
    BY <2>1, <2>2 DEF RefreshClaim, LogoutClaim
<1>6. req[r].pc # "login_set"
  BY DEF RefreshClaim, LogoutClaim
<1>7. DisclosedStored' /\ RecordsOutlive'
  BY <1>2, <1>5, <1>6 DEF WorksInv, DisclosedStored, RecordsOutlive, Storing, IInv, TypeOK
<1>8. QED
  BY <1>4, <1>7 DEF WorksInv

\* Redis evicts no record whose token has a millisecond left.
LEMMA TickWorks ==
  ASSUME IInv, WorksInv, Tick
  PROVE  WorksInv'
<1>1. now \in Int /\ now' = now + 1 /\ UNCHANGED <<payload, req, sent, stored, wins, ended>>
  BY SessionsAssumption DEF Tick, IInv, TypeOK
<1>2. \A t \in Tokens : redis'[t] = IF /\ Live(t) /\ redis[t].until # Forever
                                       /\ redis[t].until < now' \div Milli
                                    THEN NoRecord ELSE redis[t]
  BY DEF Tick, RedisNow
<1>3. \A t \in Tokens : /\ Minted(t) => payload[t].exp \in Int
                        /\ Live(t) => redis[t].until \in Int \cup {Forever}
  BY DEF IInv, TypeOK, Payload, Record
<1>4. StoredWork'
  <2> SUFFICES ASSUME NEW t \in stored, Lasts(t)', wins[t] = 0, Root(t) \notin ended
               PROVE  Live(t)' /\ Outlives(redis'[t], payload[t])
    BY <1>1 DEF StoredWork, WorksInv
  <2>1. t \in Tokens /\ Minted(t)
    BY DEF IInv, TypeOK, WorksInv, StoredWork
  <2>2. now' + (Milli - 1) <= payload[t].exp /\ Lasts(t)
    BY <1>1, <1>3, <2>1, SessionsAssumption DEF Lasts
  <2>3. Live(t) /\ Outlives(redis[t], payload[t])
    BY <2>2 DEF WorksInv, StoredWork
  <2>4. redis'[t] = redis[t]
    <3> SUFFICES ASSUME redis[t].until # Forever, redis[t].until < now' \div Milli
                 PROVE  FALSE
      BY <1>2, <2>1
    <3>1. PICK g \in Int, u \in Int : g = GoneAt(u) /\ u = redis[t].until
      BY <1>3, <2>1, <2>3, SessionsAssumption DEF GoneAt
    <3>2. g <= now'
      BY <1>1, <3>1, EvictedThen
    <3>3. payload[t].exp + 1 < g + Milli
      BY <2>3, <3>1 DEF Outlives
    <3>4. QED
      BY <1>1, <1>3, <2>1, <2>2, <3>1, <3>2, <3>3, SessionsAssumption
  <2>5. QED
    BY <2>3, <2>4
<1>5. DisclosedStored'
  BY <1>1 DEF WorksInv, DisclosedStored
<1>6. RecordsOutlive'
  <2> SUFFICES ASSUME NEW r \in Reqs, Storing(r)
               PROVE  payload[req[r].fresh].exp <= now + 1 + req[r].rem
    BY <1>1 DEF RecordsOutlive, Storing
  <2>1. payload[req[r].fresh].exp \in Int /\ req[r].rem \in Int
    BY <1>3 DEF IInv, RequestsSound, TypeOK, Request
  <2>2. QED
    BY <1>1, <2>1 DEF WorksInv, RecordsOutlive
<1>7. QED
  BY <1>4, <1>5, <1>6 DEF WorksInv

\* An answer carries the header the request had.
LEMMA AnswerWorks ==
  ASSUME IInv, WorksInv, NEW r \in Reqs, NEW st, Answer(r, st), req[r].pc # "login_set",
         UNCHANGED <<now, redis, payload, sent, stored, wins, ended, gaps>>
  PROVE  WorksInv'
<1>1. PICK q : q = Answered(req[r], st)
  OBVIOUS
<1>2. q.pc = "reply" /\ q.header = req[r].header
  BY <1>1 DEF Answered, Idle
<1>3. req' = [req EXCEPT ![r] = q]
  BY <1>1 DEF Answer
<1>4. q.header # NoToken => q.header \in stored
  BY <1>2 DEF WorksInv, DisclosedStored
<1>5. sent' \subseteq stored
  BY DEF WorksInv, DisclosedStored
<1>6. QED
  BY <1>2, <1>3, <1>4, <1>5, QuietWorks

\* A cookie is looked at.
LEMMA VerifyWorks ==
  ASSUME IInv, WorksInv, NEW r \in Reqs, NEW c \in sent, RefreshVerify(r, c) \/ LogoutVerify(r, c)
  PROVE  WorksInv'
<1>1. /\ req[r].pc = "idle" /\ UNCHANGED <<now, redis, payload, sent, stored, wins, ended, gaps>>
  BY DEF RefreshVerify, LogoutVerify
<1>2. CASE ~ Valid(c)
  <2>1. Answer(r, 401) \/ Answer(r, 200)
    BY <1>2 DEF RefreshVerify, LogoutVerify, Answer
  <2>2. QED
    BY <1>1, <2>1, AnswerWorks
<1>3. CASE Valid(c)
  <2>1. PICK a, q1, q2 : /\ a = IF Live(c) THEN payload[c].root ELSE NoToken
                         /\ q1 = [Idle EXCEPT !.pc = "refresh_claim", !.cookie = c]
                         /\ q2 = [Idle EXCEPT !.pc = "logout_claim", !.cookie = c, !.aim = a]
    OBVIOUS
  <2>2. /\ q1.pc = "refresh_claim" /\ q1.header = NoToken
        /\ q2.pc = "logout_claim" /\ q2.header = NoToken
    BY <2>1 DEF Idle
  <2>3. req' = [req EXCEPT ![r] = q1] \/ req' = [req EXCEPT ![r] = q2]
    BY <1>3, <2>1 DEF RefreshVerify, LogoutVerify
  <2>4. sent' \subseteq stored
    BY <1>1 DEF WorksInv, DisclosedStored
  <2>5. QED
    BY <1>1, <2>2, <2>3, <2>4, QuietWorks
<1>4. QED
  BY <1>2, <1>3

\* The response leaves: what it discloses was stored.
LEMMA ReplyWorks ==
  ASSUME IInv, WorksInv, NEW r \in Reqs, Reply(r)
  PROVE  WorksInv'
<1>1. Idle.pc = "idle" /\ Idle.header = NoToken
  BY DEF Idle
<1>2. sent' \subseteq stored
  BY DEF Reply, WorksInv, DisclosedStored
<1>3. req' = [req EXCEPT ![r] = Idle] /\ UNCHANGED <<now, redis, payload, stored, wins, ended, gaps>>
  BY DEF Reply
<1>4. QED
  BY <1>1, <1>2, <1>3, QuietWorks

\* Every step of a fault-free behaviour preserves it.
LEMMA NextWorks == ~ Faults /\ IInv /\ WorksInv /\ [Next]_vars => WorksInv'
<1> SUFFICES ASSUME ~ Faults, IInv, WorksInv, [Next]_vars PROVE WorksInv'
  OBVIOUS
<1>1. CASE Tick
  BY <1>1, TickWorks
<1>2. ASSUME NEW r \in Reqs, Arrive(r) PROVE WorksInv'
  <2>1. ASSUME NEW u \in Users, NEW t \in Tokens, LoginSeal(r, u, t) PROVE WorksInv'
    BY <2>1, LoginSealWorks
  <2>2. CASE NoCookie(r)
    BY <2>2, AnswerWorks DEF NoCookie
  <2>3. QED
    BY <1>2, <2>1, <2>2, VerifyWorks DEF Arrive, LoginSealFails
<1>3. ASSUME NEW r \in Reqs, Serve(r) PROVE WorksInv'
  <2>1. CASE StoreOk(r)
    BY <2>1, StoreOkWorks
  <2>2. CASE RefreshClaim(r) \/ LogoutClaim(r)
    BY <2>2, ClaimWorks
  <2>3. CASE RefreshMiss(r) \/ LogoutMiss(r)
    BY <2>3, AnswerWorks DEF RefreshMiss, LogoutMiss
  <2>4. CASE RefreshMeasure(r) \/ \E t \in Tokens : RefreshMint(r, t)
    BY <2>4, MeasureWorks, MintedWorks
  <2>5. CASE Reply(r)
    BY <2>5, ReplyWorks
  <2>6. QED
    BY <1>3, <2>1, <2>2, <2>3, <2>4, <2>5 DEF Serve, StoreFails, RefreshRotateFails, ClaimError
<1>4. ASSUME NEW r \in Reqs, Crash(r) PROVE WorksInv'
  BY <1>4 DEF Crash
<1>5. CASE UNCHANGED vars
  BY <1>5 DEF vars, WorksInv, StoredWork, DisclosedStored, RecordsOutlive, Lasts, Storing
<1>6. QED
  BY <1>1, <1>2, <1>3, <1>4, <1>5 DEF Next

\* When nothing fails, a cookie a client was given works until it is spent, revoked or
\* in its last millisecond: until then Redis holds its record.
THEOREM CookiesWork == ASSUME ~ Faults PROVE Spec => []CookieWorks
<1>1. Init => WorksInv
  BY DEF Init, Idle, WorksInv, StoredWork, DisclosedStored, RecordsOutlive, Storing
<1>2. IInv /\ WorksInv /\ [Next]_vars => WorksInv'
  BY NextWorks
<1>3. QED
  BY <1>1, <1>2, WorksIsWorks, Invariance, PTL DEF Spec

-----------------------------------------------------------------------------
(* Sessions implements SessionLife: the initial states map to its initial  *)
(* states, and every step to a step of it or to none.                      *)

\* Where a session is, said without counting: what OneHolder makes of PhaseOf.
Phase(s) ==
    IF ~ Began(s) THEN "none"
    ELSE IF LiveOf(s) # {} THEN "open"
    ELSE IF \E r \in HoldersOf(s) : req[r].pc = "login_set" THEN "pending"
    ELSE IF HoldersOf(s) # {} THEN "claimed"
    ELSE "closed"

PhasesAgree == \A s \in Tokens : PhaseOf(s) = Phase(s)

\* A session that is held has begun: its login's token was minted.
LEMMA HeldBegan ==
  ASSUME IInv
  PROVE  /\ \A t \in Tokens : Live(t) => Root(t) \in Tokens /\ Began(Root(t))
         /\ \A r \in Reqs : Holding(r) => HeldRoot(r) \in Tokens /\ Began(HeldRoot(r))
<1>1. \A t \in Tokens : Minted(t) => Root(t) \in Tokens /\ Began(Root(t))
  BY DEF IInv, TypeOK, Payload, Lineages, Began
<1>2. QED
  BY <1>1 DEF IInv, OnlyMinted, RequestsSound, Holding, HeldRoot, Storing

\* A session has one holder, so the two readings of its phase agree: no session is
\* ever forked.
LEMMA PhaseIs == IInv => PhasesAgree
<1> SUFFICES ASSUME IInv, NEW s \in Tokens PROVE PhaseOf(s) = Phase(s)
  BY DEF PhasesAgree
<1>1. OneHolder
  BY DEF IInv
<1>2. Cardinality({}) = 0 /\ \A x : Cardinality({x}) = 1
  BY FS_EmptySet, FS_Singleton
<1>3. CASE ~ Began(s) \/ ~ Held(s)
  <2>1. LiveOf(s) = {} /\ HoldersOf(s) = {}
    BY <1>3, HeldBegan DEF Held, LiveOf, HoldersOf
  <2>2. Cardinality(LiveOf(s)) + Cardinality(HoldersOf(s)) # 1
    BY <1>2, <2>1
  <2>3. QED
    BY <2>1, <2>2 DEF PhaseOf, Phase, Held
<1>4. CASE Began(s) /\ LiveOf(s) # {}
  <2>1. PICK t : LiveOf(s) = {t}
    BY <1>1, <1>4 DEF OneHolder, LiveOf
  <2>2. HoldersOf(s) = {}
    BY <1>1, <1>4 DEF OneHolder, LiveOf, HoldersOf
  <2>3. Cardinality(LiveOf(s)) + Cardinality(HoldersOf(s)) = 1
    BY <1>2, <2>1, <2>2
  <2>4. QED
    BY <1>4, <2>2, <2>3 DEF PhaseOf, Phase, Held
<1>5. CASE Began(s) /\ LiveOf(s) = {} /\ HoldersOf(s) # {}
  <2>1. PICK r : HoldersOf(s) = {r}
    BY <1>1, <1>5 DEF OneHolder, HoldersOf
  <2>2. Cardinality(LiveOf(s)) + Cardinality(HoldersOf(s)) = 1
    BY <1>2, <1>5, <2>1
  <2>3. CASE req[r].pc = "login_set"
    BY <1>5, <2>1, <2>2, <2>3 DEF PhaseOf, Phase, Held
  <2>4. CASE req[r].pc # "login_set"
    BY <1>5, <2>1, <2>2, <2>4 DEF PhaseOf, Phase, Held
  <2>5. QED
    BY <2>3, <2>4
<1>6. QED
  BY <1>3, <1>4, <1>5 DEF Held

\* The same of the next state, which satisfies the invariant too.
LEMMA PhaseWillBe == IInv' => PhasesAgree'
BY PhaseIs, PTL

\* A step of the session of s alone, read off Phase.
LEMMA MoveOf ==
  ASSUME PhasesAgree, PhasesAgree', NEW s \in Tokens, NEW from, NEW to,
         Phase(s) \in from, Phase(s)' = to,
         \A s1 \in Tokens : s1 # s => Phase(s1)' = Phase(s1)
  PROVE  Life!Move(s, from, to)
BY DEF PhasesAgree, Life!Move

-----------------------------------------------------------------------------
\* Records and holders only disappear, and what stays is where it was.
Forgets ==
    /\ UNCHANGED <<payload, ended>>
    /\ \A t \in Tokens : Live(t)' => Live(t)
    /\ \A r \in Reqs : Holding(r)' =>
          Holding(r) /\ HeldRoot(r)' = HeldRoot(r)
          /\ (req'[r].pc = "login_set" <=> req[r].pc = "login_set")

\* Such a step closes the sessions it took the last holder of, if any.
LEMMA ForgetMaps ==
  ASSUME IInv, IInv', Forgets
  PROVE  [Life!Next]_Life!vars
<1> DEFINE S == {s \in Tokens : Held(s) /\ ~ Held(s)'}
<1>1. PhasesAgree /\ PhasesAgree'
  BY PhaseIs, PhaseWillBe
<1>2. \A s \in Tokens : Began(s)' <=> Began(s)
  BY DEF Forgets, Began
<1>3. \A s \in Tokens :
         /\ LiveOf(s)' \subseteq LiveOf(s)
         /\ HoldersOf(s)' \subseteq HoldersOf(s)
         /\ \A r \in HoldersOf(s)' : req'[r].pc = "login_set" <=> req[r].pc = "login_set"
  BY DEF Forgets, LiveOf, HoldersOf
<1>4. OneHolder
  BY DEF IInv
<1>5. \A s \in S : Began(s) /\ Phase(s) \in {"pending", "open", "claimed"} /\ Phase(s)' = "closed"
  <2> SUFFICES ASSUME NEW s \in S
               PROVE  /\ Began(s) /\ Phase(s) \in {"pending", "open", "claimed"}
                      /\ Phase(s)' = "closed"
    OBVIOUS
  <2>1. Began(s)
    BY HeldBegan DEF Held, LiveOf, HoldersOf
  <2>2. QED
    BY <1>2, <2>1 DEF Phase, Held
<1>6. \A s \in Tokens \ S : Phase(s)' = Phase(s)
  <2> SUFFICES ASSUME NEW s \in Tokens, s \notin S PROVE Phase(s)' = Phase(s)
    OBVIOUS
  <2>1. CASE ~ Held(s)
    BY <1>2, <1>3, <2>1 DEF Phase, Held
  <2>2. CASE Held(s)' /\ LiveOf(s) # {}
    <3>1. HoldersOf(s) = {}
      BY <1>4, <2>2 DEF OneHolder, LiveOf, HoldersOf
    <3>2. LiveOf(s)' # {}
      BY <1>3, <2>2, <3>1 DEF Held
    <3>3. QED
      BY <1>2, <2>2, <3>2 DEF Phase
  <2>3. CASE Held(s)' /\ LiveOf(s) = {}
    <3>1. HoldersOf(s)' # {} /\ LiveOf(s)' = {}
      BY <1>3, <2>3 DEF Held
    <3>2. PICK r : r \in HoldersOf(s)
      BY <1>3, <3>1
    <3>3. HoldersOf(s) = {r}
      BY <1>4, <3>2 DEF OneHolder, HoldersOf
    <3>4. HoldersOf(s)' = {r}
      BY <1>3, <3>1, <3>3
    <3>5. QED
      BY <1>2, <1>3, <2>3, <3>1, <3>3, <3>4 DEF Phase
  <2>4. QED
    BY <2>1, <2>2, <2>3
<1> HIDE DEF S
<1>7. CASE S = {}
  BY <1>1, <1>6, <1>7 DEF PhasesAgree, Life!vars, Forgets
<1>8. CASE S # {}
  <2>1. S \in SUBSET Tokens
    BY DEF S
  <2>2. Life!Lose(S)
    BY <1>1, <1>5, <1>6, <1>8, <2>1 DEF PhasesAgree, Life!Lose, Forgets
  <2>3. QED
    BY <2>1, <2>2 DEF Life!Next
<1>9. QED
  BY <1>7, <1>8

\* A login begins the session named by its token.
LEMMA LoginMaps ==
  ASSUME IInv, IInv', NEW r \in Reqs, NEW u \in Users, NEW t \in Tokens, LoginSeal(r, u, t)
  PROVE  Life!Begin(t)
<1>1. PhasesAgree /\ PhasesAgree'
  BY PhaseIs, PhaseWillBe
<1>2. /\ req[r].pc = "idle" /\ ~ Minted(t)
      /\ payload' = [payload EXCEPT ![t] = [user |-> u, exp |-> now + RefreshTTL, root |-> t]]
      /\ UNCHANGED <<redis, ended>>
  BY DEF LoginSeal, Create
<1>3. PICK q : /\ q = [Idle EXCEPT !.pc = "login_set", !.fresh = t, !.rem = RefreshTTL,
                                   !.header = t]
               /\ req' = [req EXCEPT ![r] = q]
  BY DEF LoginSeal
<1>4. q.pc = "login_set" /\ q.fresh = t
  BY <1>3 DEF Idle
<1>5. req'[r] = q /\ \A r1 \in Reqs : r1 # r => req'[r1] = req[r1]
  BY <1>3 DEF IInv, TypeOK
<1>6. /\ \A s \in Tokens : s # t => payload'[s] = payload[s]
      /\ Root(t)' = t /\ Minted(t)'
  <2>1. payload' \in [Tokens -> Payload \cup {NoPayload}] /\ payload \in [Tokens -> Payload \cup {NoPayload}]
    BY DEF IInv, TypeOK
  <2>2. [user |-> u, exp |-> now + RefreshTTL, root |-> t] \in [user : Users, exp : Int, root : Tokens]
    BY SessionsAssumption DEF IInv, TypeOK
  <2>3. QED
    BY <1>2, <2>1, <2>2, SessionsAssumption
<1>7. \A s \in Tokens : Minted(s) => s # t /\ Root(s) # t
  BY <1>2 DEF IInv, Lineages
<1>8. \A r1 \in Reqs : Holding(r1) => r1 # r /\ HeldRoot(r1) # t
  BY <1>2, HeldBegan DEF Began, Holding
<1>9. \A r1 \in Reqs : r1 # r =>
         Holding(r1)' = Holding(r1) /\ (Holding(r1) => HeldRoot(r1)' = HeldRoot(r1))
  BY <1>5, <1>6, <1>7 DEF Holding, HeldRoot, IInv, RequestsSound
<1>10. Holding(r)' /\ HeldRoot(r)' = t
  BY <1>4, <1>5 DEF Holding, HeldRoot
<1>11. \A s \in Tokens : Live(s)' = Live(s) /\ (Live(s) => Root(s) # t /\ Root(s)' = Root(s))
  BY <1>2, <1>6, <1>7 DEF IInv, OnlyMinted
<1>12. \A s \in Tokens : s # t => LiveOf(s)' = LiveOf(s) /\ HoldersOf(s)' = HoldersOf(s)
  BY <1>8, <1>9, <1>10, <1>11 DEF LiveOf, HoldersOf, Holding
<1>13. LiveOf(t)' = {} /\ HoldersOf(t)' = {r}
  BY <1>8, <1>9, <1>10, <1>11 DEF LiveOf, HoldersOf
<1>14. Phase(t) = "none"
  BY <1>2 DEF Phase, Began
<1>15. Phase(t)' = "pending"
  BY <1>4, <1>5, <1>6, <1>13 DEF Phase, Began
<1>16. \A s \in Tokens : s # t => Phase(s)' = Phase(s)
  <2> SUFFICES ASSUME NEW s \in Tokens, s # t PROVE Phase(s)' = Phase(s)
    OBVIOUS
  <2>1. Began(s)' = Began(s)
    BY <1>6 DEF Began
  <2>2. \A r1 \in HoldersOf(s) : req'[r1] = req[r1]
    BY <1>5, <1>8 DEF HoldersOf
  <2>3. QED
    BY <1>12, <2>1, <2>2 DEF Phase
<1>17. QED
  BY <1>1, <1>2, <1>14, <1>15, <1>16, MoveOf DEF Life!Begin

\* What the session of one request is left with when the request gives it up to a
\* record, or takes it from one.
LEMMA StoreMaps ==
  ASSUME IInv, IInv', NEW r \in Reqs, Storing(r),
         Set(req[r].fresh, payload[req[r].fresh].user, req[r].rem),
         ~ Holding(r)', \A r1 \in Reqs : r1 # r => req'[r1] = req[r1],
         UNCHANGED <<payload, ended>>
  PROVE  Life!Open(HeldRoot(r))
<1>0. PICK f, s0 : f = req[r].fresh /\ s0 = HeldRoot(r)
  OBVIOUS
<1>1. PhasesAgree /\ PhasesAgree'
  BY PhaseIs, PhaseWillBe
<1>2. Holding(r) /\ f \in Tokens /\ Minted(f) /\ Root(f) = s0 /\ s0 \in Tokens /\ Began(s0)
  BY <1>0, HeldBegan DEF Storing, Holding, IInv, RequestsSound
<1>3. Live(f)' /\ \A t \in Tokens : t # f => Live(t)' = Live(t)
  <2>1. PICK u, ttl : redis' = [redis EXCEPT ![f] = [user |-> u, until |-> ttl]]
                      /\ u = payload[f].user
                      /\ ttl = IF req[r].rem > 0 THEN RedisNow + Px(req[r].rem) ELSE Forever
    BY <1>0 DEF Set
  <2>2. u \in Users /\ ttl \in Int \cup {Forever}
    <3>1. u \in Users /\ now \in Int /\ req[r].rem \in Int
      BY <1>0, <1>2, <2>1, SessionsAssumption DEF IInv, TypeOK, Payload, Request
    <3>2. QED
      BY <2>1, <3>1, ExpiryType
  <2>3. [user |-> u, until |-> ttl] # NoRecord
    BY <2>2, SessionsAssumption
  <2>4. QED
    BY <1>2, <2>1, <2>3 DEF IInv, TypeOK
<1>4. \A t \in Tokens : Root(t)' = Root(t) /\ Began(t)' = Began(t)
  BY DEF Began
<1>5. \A r1 \in Reqs : r1 # r => Holding(r1)' = Holding(r1) /\ HeldRoot(r1)' = HeldRoot(r1)
  BY DEF Holding, HeldRoot
<1>6. LiveOf(s0) = {} /\ HoldersOf(s0) = {r}
  BY <1>0, <1>2 DEF IInv, OneHolder, LiveOf, HoldersOf
<1>7. LiveOf(s0)' # {}
  BY <1>2, <1>3, <1>4 DEF LiveOf
<1>8. Phase(s0) \in {"pending", "claimed"} /\ Phase(s0)' = "open"
  BY <1>2, <1>4, <1>6, <1>7 DEF Phase
<1>9. \A s \in Tokens : s # s0 => Phase(s)' = Phase(s)
  <2> SUFFICES ASSUME NEW s \in Tokens, s # s0 PROVE Phase(s)' = Phase(s)
    OBVIOUS
  <2>1. LiveOf(s)' = LiveOf(s)
    BY <1>2, <1>3, <1>4 DEF LiveOf
  <2>2. HoldersOf(s)' = HoldersOf(s) /\ r \notin HoldersOf(s)
    BY <1>0, <1>5 DEF HoldersOf
  <2>3. \A r1 \in HoldersOf(s) : req'[r1] = req[r1]
    BY <2>2 DEF HoldersOf
  <2>4. QED
    BY <1>4, <2>1, <2>2, <2>3 DEF Phase
<1>10. Life!Move(s0, {"pending", "claimed"}, "open")
  BY <1>1, <1>2, <1>8, <1>9, MoveOf
<1>11. QED
  BY <1>0, <1>10 DEF Life!Open

\* The record of c, the one holder of its session, is taken away by request r.
Takes(r, c) ==
    /\ c \in Tokens /\ Live(c)
    /\ redis' = [redis EXCEPT ![c] = NoRecord]
    /\ ~ Holding(r)
    /\ \A r1 \in Reqs : r1 # r => req'[r1] = req[r1]
    /\ UNCHANGED payload

\* Only the session of that record changes, and it was open.
LEMMA TakeMoves ==
  ASSUME IInv, NEW r \in Reqs, NEW c, NEW s, Takes(r, c), s = Root(c),
         Holding(r)' => HeldRoot(r)' = s
  PROVE  /\ s \in Tokens /\ Began(s)'
         /\ Phase(s) = "open"
         /\ LiveOf(s)' = {}
         /\ HoldersOf(s)' = IF Holding(r)' THEN {r} ELSE {}
         /\ \A s1 \in Tokens : s1 # s => Phase(s1)' = Phase(s1)
<1>1. s \in Tokens /\ Began(s)
  BY HeldBegan DEF Takes
<1>2. \A t \in Tokens : Root(t)' = Root(t) /\ Began(t)' = Began(t)
  BY DEF Takes, Began
<1>3. ~ Live(c)' /\ \A t \in Tokens : t # c => Live(t)' = Live(t)
  BY DEF Takes, IInv, TypeOK
<1>4. LiveOf(s) = {c} /\ HoldersOf(s) = {}
  BY DEF Takes, IInv, OneHolder, LiveOf, HoldersOf
<1>5. \A r1 \in Reqs : r1 # r => Holding(r1)' = Holding(r1) /\ HeldRoot(r1)' = HeldRoot(r1)
  BY DEF Takes, Holding, HeldRoot
<1>6. Phase(s) = "open"
  BY <1>1, <1>4 DEF Phase
<1>7. LiveOf(s)' = {}
  BY <1>2, <1>3, <1>4 DEF LiveOf, Takes
<1>8. HoldersOf(s)' = IF Holding(r)' THEN {r} ELSE {}
  BY <1>2, <1>4, <1>5 DEF HoldersOf, Takes
<1>9. \A s1 \in Tokens : s1 # s => Phase(s1)' = Phase(s1)
  <2> SUFFICES ASSUME NEW s1 \in Tokens, s1 # s PROVE Phase(s1)' = Phase(s1)
    OBVIOUS
  <2>1. LiveOf(s1)' = LiveOf(s1)
    BY <1>2, <1>3 DEF LiveOf, Takes
  <2>2. HoldersOf(s1)' = HoldersOf(s1) /\ r \notin HoldersOf(s1)
    BY <1>2, <1>5 DEF HoldersOf, Takes
  <2>3. \A r1 \in HoldersOf(s1) : req'[r1] = req[r1]
    BY <2>2 DEF HoldersOf, Takes
  <2>4. QED
    BY <1>2, <2>1, <2>2, <2>3 DEF Phase
<1>10. QED
  BY <1>1, <1>2, <1>6, <1>7, <1>8, <1>9

\* A redemption claims the session; its request is the holder from now on.
LEMMA ClaimMaps ==
  ASSUME IInv, IInv', NEW r \in Reqs, RefreshClaim(r)
  PROVE  \E s \in Tokens : Life!Claim(s)
<1>0. PICK c, s : c = req[r].cookie /\ s = Root(c)
  OBVIOUS
<1>1. PhasesAgree /\ PhasesAgree'
  BY PhaseIs, PhaseWillBe
<1>2. /\ req[r].pc = "refresh_claim" /\ c \in Tokens /\ Live(c)
      /\ redis' = [redis EXCEPT ![c] = NoRecord] /\ UNCHANGED <<payload, ended>>
  BY <1>0 DEF RefreshClaim, GetDel, IInv, RequestsSound
<1>3. req' = [req EXCEPT ![r] = [@ EXCEPT !.pc = "refresh_role"]]
  BY <1>0, <1>2 DEF RefreshClaim, Goto, IInv, LiveIsUnspent
<1>4. /\ req'[r].pc = "refresh_role" /\ req'[r].cookie = c
      /\ \A r1 \in Reqs : r1 # r => req'[r1] = req[r1]
  BY <1>0, <1>3 DEF IInv, TypeOK, Request
<1>5. Takes(r, c)
  BY <1>2, <1>4 DEF Takes, Holding
<1>6. Holding(r)' /\ HeldRoot(r)' = s
  BY <1>0, <1>2, <1>4 DEF Holding, HeldRoot
<1>7. /\ s \in Tokens /\ Began(s)' /\ Phase(s) = "open"
      /\ LiveOf(s)' = {} /\ HoldersOf(s)' = {r}
      /\ \A s1 \in Tokens : s1 # s => Phase(s1)' = Phase(s1)
  BY <1>0, <1>5, <1>6, TakeMoves
<1>8. Phase(s)' = "claimed"
  BY <1>4, <1>7 DEF Phase
<1>9. Life!Move(s, {"open"}, "claimed")
  BY <1>1, <1>7, <1>8, MoveOf
<1>10. QED
  BY <1>2, <1>7, <1>9 DEF Life!Claim

\* A logout that finds the record revokes the session.
LEMMA RevokeMaps ==
  ASSUME IInv, IInv', NEW r \in Reqs, LogoutClaim(r)
  PROVE  \E s \in Tokens : Life!Revoke(s)
<1>0. PICK c, s : c = req[r].cookie /\ s = Root(c)
  OBVIOUS
<1>1. PhasesAgree /\ PhasesAgree'
  BY PhaseIs, PhaseWillBe
<1>2. /\ req[r].pc = "logout_claim" /\ c \in Tokens /\ Live(c)
      /\ redis' = [redis EXCEPT ![c] = NoRecord] /\ UNCHANGED payload
      /\ ended' = ended \cup {s}
  BY <1>0 DEF LogoutClaim, GetDel, IInv, RequestsSound
<1>3. PICK q : q = Answered(req[r], 200) /\ req' = [req EXCEPT ![r] = q]
  BY DEF LogoutClaim, Answer
<1>4. q.pc = "reply"
  BY <1>3 DEF Answered, Idle
<1>5. req'[r].pc = "reply" /\ \A r1 \in Reqs : r1 # r => req'[r1] = req[r1]
  BY <1>3, <1>4 DEF IInv, TypeOK
<1>6. Takes(r, c) /\ ~ Holding(r)'
  BY <1>2, <1>5 DEF Takes, Holding
<1>7. /\ s \in Tokens /\ Began(s)' /\ Phase(s) = "open"
      /\ LiveOf(s)' = {} /\ HoldersOf(s)' = {}
      /\ \A s1 \in Tokens : s1 # s => Phase(s1)' = Phase(s1)
  BY <1>0, <1>6, TakeMoves
<1>8. Phase(s)' = "closed"
  BY <1>7 DEF Phase
<1>9. Life!Move(s, {"open"}, "closed")
  BY <1>1, <1>7, <1>8, MoveOf
<1>10. QED
  BY <1>2, <1>7, <1>9 DEF Life!Revoke

-----------------------------------------------------------------------------
\* Steps that at most lose a holder: time, answers, arrivals, crashes.
LEMMA AnswerForgets ==
  ASSUME IInv, NEW r \in Reqs, NEW q, q.pc \notin {"login_set", "refresh_role", "refresh_mint", "refresh_set"},
         req' = [req EXCEPT ![r] = q],
         \A t \in Tokens : redis'[t] \in {redis[t], NoRecord},
         UNCHANGED <<payload, ended>>
  PROVE  Forgets
<1>1. req'[r] = q /\ \A r1 \in Reqs : r1 # r => req'[r1] = req[r1]
  BY DEF IInv, TypeOK
<1>2. QED
  BY <1>1 DEF Forgets, Holding, HeldRoot

\* Time forgets records.
LEMMA TickForgets ==
  ASSUME IInv, Tick
  PROVE  Forgets
BY DEF Tick, Forgets, Holding, HeldRoot

\* A request that answers is left with its answer.
LEMMA AnswerReplies ==
  ASSUME NEW r, NEW st, Answer(r, st)
  PROVE  \E q : q.pc = "reply" /\ req' = [req EXCEPT ![r] = q]
<1>1. PICK q : q = Answered(req[r], st)
  OBVIOUS
<1>2. q.pc = "reply"
  BY <1>1 DEF Answered, Idle
<1>3. req' = [req EXCEPT ![r] = q]
  BY <1>1 DEF Answer
<1>4. QED
  BY <1>2, <1>3

\* Whatever a request does of these, it goes on holding nothing.
LEMMA RequestForgets ==
  ASSUME IInv, NEW r \in Reqs,
         \/ LoginSealFails(r) \/ NoCookie(r) \/ RefreshMiss(r) \/ RefreshRotateFails(r)
         \/ LogoutMiss(r) \/ ClaimError(r) \/ Reply(r) \/ Crash(r)
         \/ \E c \in sent : RefreshVerify(r, c) \/ LogoutVerify(r, c)
  PROVE  Forgets
<1>1. UNCHANGED <<payload, ended>>
  BY DEF LoginSealFails, NoCookie, RefreshMiss, RefreshRotateFails, LogoutMiss,
         ClaimError, Reply, Crash, RefreshVerify, LogoutVerify
<1>2. UNCHANGED redis \/ redis' = [redis EXCEPT ![req[r].cookie] = NoRecord]
  BY DEF LoginSealFails, NoCookie, RefreshMiss, RefreshRotateFails, LogoutMiss,
         ClaimError, GetDel, Reply, Crash, RefreshVerify, LogoutVerify
<1>3. \A t \in Tokens : redis'[t] \in {redis[t], NoRecord}
  BY <1>2 DEF IInv, TypeOK
<1>4. \A st : Answered(req[r], st).pc = "reply"
  BY DEF Answered, Idle
<1>5. \E q : /\ q.pc \in {"idle", "reply", "refresh_claim", "logout_claim"}
             /\ req' = [req EXCEPT ![r] = q]
  <2>2. CASE \/ LoginSealFails(r) \/ NoCookie(r) \/ RefreshMiss(r) \/ RefreshRotateFails(r)
             \/ LogoutMiss(r) \/ ClaimError(r)
    <3>1. PICK st : Answer(r, st)
      BY <2>2 DEF LoginSealFails, NoCookie, RefreshMiss, RefreshRotateFails, LogoutMiss,
                  ClaimError
    <3>2. QED
      BY <3>1, AnswerReplies
  <2>3. CASE Reply(r) \/ Crash(r)
    <3>1. Idle.pc = "idle"
      BY DEF Idle
    <3>2. QED
      BY <2>3, <3>1 DEF Reply, Crash
  <2>4. ASSUME NEW c \in sent, RefreshVerify(r, c)
        PROVE  \E q : q.pc \in {"idle", "reply", "refresh_claim", "logout_claim"}
                      /\ req' = [req EXCEPT ![r] = q]
    <3>1. PICK q1, q2 : /\ q1 = [Idle EXCEPT !.pc = "refresh_claim", !.cookie = c]
                        /\ q2 = Answered(req[r], 401)
      OBVIOUS
    <3>2. q1.pc = "refresh_claim" /\ q2.pc = "reply"
      BY <1>4, <3>1 DEF Idle
    <3>3. req' = [req EXCEPT ![r] = q1] \/ req' = [req EXCEPT ![r] = q2]
      BY <2>4, <3>1 DEF RefreshVerify
    <3>4. QED
      BY <3>2, <3>3
  <2>5. ASSUME NEW c \in sent, LogoutVerify(r, c)
        PROVE  \E q : q.pc \in {"idle", "reply", "refresh_claim", "logout_claim"}
                      /\ req' = [req EXCEPT ![r] = q]
    <3>1. PICK a : a = IF Live(c) THEN payload[c].root ELSE NoToken
      OBVIOUS
    <3>2. PICK q1, q2 : /\ q1 = [Idle EXCEPT !.pc = "logout_claim", !.cookie = c, !.aim = a]
                        /\ q2 = Answered(req[r], 200)
      OBVIOUS
    <3>3. q1.pc = "logout_claim" /\ q2.pc = "reply"
      BY <1>4, <3>2 DEF Idle
    <3>4. req' = [req EXCEPT ![r] = q1] \/ req' = [req EXCEPT ![r] = q2]
      BY <2>5, <3>1, <3>2 DEF LogoutVerify
    <3>5. QED
      BY <3>3, <3>4
  <2>6. QED
    BY <2>2, <2>3, <2>4, <2>5
<1>6. QED
  BY <1>1, <1>3, <1>5, AnswerForgets

\* A failing SET is a store, or forgets the session.
LEMMA StoreFailsMaps ==
  ASSUME IInv, IInv', NEW r \in Reqs, StoreFails(r)
  PROVE  [Life!Next]_Life!vars
<1>1. PICK q : q = Answered(req[r], 500) /\ req' = [req EXCEPT ![r] = q]
  BY DEF StoreFails, Answer
<1>2. q.pc = "reply"
  BY <1>1 DEF Answered, Idle
<1>3. UNCHANGED <<payload, ended>> /\ Storing(r)
  BY DEF StoreFails
<1>4. CASE UNCHANGED redis
  BY <1>1, <1>2, <1>3, <1>4, AnswerForgets, ForgetMaps
<1>5. CASE Set(req[r].fresh, payload[req[r].fresh].user, req[r].rem)
  <2>1. ~ Holding(r)' /\ \A r1 \in Reqs : r1 # r => req'[r1] = req[r1]
    BY <1>1, <1>2 DEF IInv, TypeOK, Holding
  <2>2. PICK s : s = HeldRoot(r)
    OBVIOUS
  <2>3. Life!Open(s) /\ s \in Tokens
    BY <1>3, <1>5, <2>1, <2>2, StoreMaps, HeldBegan DEF Storing, Holding
  <2>4. QED
    BY <2>3 DEF Life!Next
<1>6. QED
  BY <1>4, <1>5 DEF StoreFails

\* A successful SET opens the session.
LEMMA StoreOkMaps ==
  ASSUME IInv, IInv', NEW r \in Reqs, StoreOk(r)
  PROVE  Life!Next
<1>1. PICK q : /\ q = Answered([req[r] EXCEPT !.header = req[r].fresh], 201)
               /\ req' = [req EXCEPT ![r] = q]
  BY DEF StoreOk
<1>2. q.pc = "reply"
  BY <1>1 DEF Answered, Idle
<1>3. ~ Holding(r)' /\ \A r1 \in Reqs : r1 # r => req'[r1] = req[r1]
  BY <1>1, <1>2 DEF IInv, TypeOK, Holding
<1>4. /\ Storing(r) /\ UNCHANGED <<payload, ended>>
      /\ Set(req[r].fresh, payload[req[r].fresh].user, req[r].rem)
  BY DEF StoreOk
<1>5. PICK s : s = HeldRoot(r)
  OBVIOUS
<1>6. Life!Open(s) /\ s \in Tokens
  BY <1>3, <1>4, <1>5, StoreMaps, HeldBegan DEF Storing, Holding
<1>7. QED
  BY <1>6 DEF Life!Next

\* Measuring what is left changes nothing the session's user could see,
LEMMA MeasureForgets ==
  ASSUME IInv, NEW r \in Reqs, RefreshMeasure(r)
  PROVE  Forgets
<1>1. PICK q : /\ q = [req[r] EXCEPT !.pc = "refresh_mint",
                                    !.rem = payload[req[r].cookie].exp - now]
               /\ req' = [req EXCEPT ![r] = q]
  BY DEF RefreshMeasure
<1>2. q.pc = "refresh_mint" /\ q.cookie = req[r].cookie
  BY <1>1 DEF IInv, TypeOK, Request
<1>3. req'[r] = q /\ \A r1 \in Reqs : r1 # r => req'[r1] = req[r1]
  BY <1>1 DEF IInv, TypeOK
<1>4. req[r].pc = "refresh_role" /\ UNCHANGED <<payload, redis, ended>>
  BY DEF RefreshMeasure
<1>5. QED
  BY <1>2, <1>3, <1>4 DEF Forgets, Holding, HeldRoot

\* and neither does minting the next token.
LEMMA RotateMaps ==
  ASSUME IInv, IInv', NEW r \in Reqs, NEW t \in Tokens, RefreshMint(r, t)
  PROVE  UNCHANGED Life!vars
<1>1. PhasesAgree /\ PhasesAgree'
  BY PhaseIs, PhaseWillBe
<1>2. PICK c : c = req[r].cookie
  OBVIOUS
<1>3. /\ req[r].pc = "refresh_mint" /\ ~ Minted(t) /\ c \in Tokens /\ Minted(c) /\ c # t
      /\ UNCHANGED <<redis, ended>>
  BY <1>2 DEF RefreshMint, Create, IInv, RequestsSound
<1>4. PICK q : /\ q = [req[r] EXCEPT !.pc = "refresh_set", !.fresh = t]
               /\ req' = [req EXCEPT ![r] = q]
  BY <1>2 DEF RefreshMint
<1>5. q.pc = "refresh_set" /\ q.cookie = c
  BY <1>2, <1>4 DEF IInv, TypeOK, Request
<1>6. req'[r] = q /\ \A r1 \in Reqs : r1 # r => req'[r1] = req[r1]
  BY <1>4 DEF IInv, TypeOK
<1>7. PICK p : /\ p = [user |-> payload[c].user, exp |-> now + req[r].rem,
                       root |-> payload[c].root]
               /\ payload' = [payload EXCEPT ![t] = p]
  BY <1>2 DEF RefreshMint, Create
<1>8. p.root = Root(c)
  BY <1>7
<1>9. payload'[t] = p /\ \A s \in Tokens : s # t => payload'[s] = payload[s]
  BY <1>7 DEF IInv, TypeOK
<1>10. Root(c) # t /\ \A s \in Tokens : Minted(s) => Root(s) # t
  BY <1>3 DEF IInv, Lineages
<1>11. \A s \in Tokens : Began(s)' <=> Began(s)
  BY <1>3, <1>8, <1>9, <1>10 DEF Began
<1>12. \A s \in Tokens : LiveOf(s)' = LiveOf(s)
  BY <1>3, <1>9 DEF LiveOf, IInv, OnlyMinted
<1>13. \A r1 \in Reqs :
          /\ Holding(r1)' = Holding(r1)
          /\ Holding(r1) => HeldRoot(r1)' = HeldRoot(r1)
          /\ req'[r1].pc = "login_set" <=> req[r1].pc = "login_set"
  BY <1>2, <1>3, <1>5, <1>6, <1>9 DEF Holding, HeldRoot, IInv, RequestsSound
<1>14. \A s \in Tokens : HoldersOf(s)' = HoldersOf(s)
  BY <1>13 DEF HoldersOf
<1>15. \A s \in Tokens : Phase(s)' = Phase(s)
  <2> SUFFICES ASSUME NEW s \in Tokens PROVE Phase(s)' = Phase(s)
    OBVIOUS
  <2>1. \A r1 \in HoldersOf(s) : req'[r1].pc = "login_set" <=> req[r1].pc = "login_set"
    BY <1>13 DEF HoldersOf
  <2>2. QED
    BY <1>11, <1>12, <1>14, <2>1 DEF Phase
<1>16. QED
  BY <1>1, <1>3, <1>15 DEF PhasesAgree, Life!vars

\* Every step maps to a step of SessionLife or to none.
LEMMA NextMaps ==
  ASSUME IInv, IInv', [Next]_vars
  PROVE  [Life!Next]_Life!vars
<1>1. CASE Tick
  BY <1>1, TickForgets, ForgetMaps
<1>2. ASSUME NEW r \in Reqs, Arrive(r) PROVE [Life!Next]_Life!vars
  <2>1. ASSUME NEW u \in Users, NEW t \in Tokens, LoginSeal(r, u, t)
        PROVE  [Life!Next]_Life!vars
    BY <2>1, LoginMaps DEF Life!Next
  <2>2. QED
    BY <1>2, <2>1, RequestForgets, ForgetMaps DEF Arrive
<1>3. ASSUME NEW r \in Reqs, Serve(r) PROVE [Life!Next]_Life!vars
  <2>1. CASE StoreOk(r) \/ StoreFails(r)
    BY <2>1, StoreOkMaps, StoreFailsMaps
  <2>2. CASE RefreshClaim(r)
    BY <2>2, ClaimMaps DEF Life!Next
  <2>3. CASE LogoutClaim(r)
    BY <2>3, RevokeMaps DEF Life!Next
  <2>4. CASE RefreshMeasure(r) \/ \E t \in Tokens : RefreshMint(r, t)
    BY <2>4, RotateMaps, MeasureForgets, ForgetMaps
  <2>5. QED
    BY <1>3, <2>1, <2>2, <2>3, <2>4, RequestForgets, ForgetMaps DEF Serve
<1>4. ASSUME NEW r \in Reqs, Crash(r) PROVE [Life!Next]_Life!vars
  BY <1>4, RequestForgets, ForgetMaps
<1>5. CASE UNCHANGED vars
  BY <1>5, ForgetMaps DEF vars, Forgets, Holding, HeldRoot
<1>6. QED
  BY <1>1, <1>2, <1>3, <1>4, <1>5 DEF Next

\* Nothing has begun.
LEMMA InitMaps == Init => Life!Init
BY InitIInv, PhaseIs DEF Init, PhasesAgree, Phase, Began, Life!Init

\* Sessions implements SessionLife: seen from its session, whatever fails and however
\* requests interleave, every step of every handler begins, opens, claims, revokes or
\* loses sessions that are in the phase for it.  No session is ever forked or reopened.
THEOREM RefinesSessionLife == Spec => ImplementsSessionLife
<1>1. IInv /\ IInv' /\ [Next]_vars => [Life!Next]_Life!vars
  BY NextMaps
<1>2. QED
  BY <1>1, InitMaps, Invariance, PTL DEF Spec, ImplementsSessionLife, Life!Spec

\* A session that was closed, by a logout, by time or by a failure, is not opened again: none
\* of its tokens can be redeemed any more, whatever requests that know one are under way.
ClosedForGood == [][\A s \in Tokens : PhaseOf(s) = "closed" => PhaseOf(s)' = "closed"]_vars

\* It is so of every step of SessionLife.
LEMMA LifeStaysClosed ==
    ASSUME [Life!Next]_Life!vars, NEW t \in Tokens, PhaseOf(t) = "closed"
    PROVE  PhaseOf(t)' = "closed"
<1>1. PICK old : old = [s \in Tokens |-> PhaseOf(s)]
  OBVIOUS
<1>2. PICK new : new = [s \in Tokens |-> PhaseOf(s)]'
  OBVIOUS
<1>3. old[t] = "closed" /\ new[t] = PhaseOf(t)'
  BY <1>1, <1>2
<1>4. ASSUME NEW s \in Tokens, NEW from, NEW to, Life!Move(s, from, to), "closed" \notin from
      PROVE  new[t] = "closed"
  <2>1. old[s] \in from /\ new = [old EXCEPT ![s] = to]
    BY <1>1, <1>2, <1>4 DEF Life!Move
  <2> QED
    BY <1>1, <1>3, <1>4, <2>1
<1>5. ASSUME NEW S \in SUBSET Tokens, Life!Lose(S) PROVE new[t] = "closed"
  <2>1. new = [s \in Tokens |-> IF s \in S THEN "closed" ELSE old[s]]
    BY <1>1, <1>2, <1>5 DEF Life!Lose
  <2> QED
    BY <1>3, <2>1
<1>6. ASSUME UNCHANGED Life!vars PROVE new[t] = "closed"
  BY <1>1, <1>2, <1>3, <1>6 DEF Life!vars
<1> QED
  BY <1>3, <1>4, <1>5, <1>6 DEF Life!Next, Life!Begin, Life!Open, Life!Claim, Life!Revoke

\* However requests that know one of its tokens interleave and fail, a session that was closed
\* stays so.
THEOREM NeverReopened == Spec => ClosedForGood
<1>1. [Life!Next]_Life!vars
        => [\A s \in Tokens : PhaseOf(s) = "closed" => PhaseOf(s)' = "closed"]_vars
  BY LifeStaysClosed
<1> QED
  BY <1>1, RefinesSessionLife, PTL DEF ImplementsSessionLife, Life!Spec, ClosedForGood
=============================================================================
