------------------------------ MODULE Accounts ------------------------------
(***************************************************************************)
(* POST /register (internal/handlers/auth.go:113-193) and the users table  *)
(* it writes (internal/db/migrations).  Register looks the email up, hashes *)
(* the password, which takes tens of milliseconds, and inserts: another    *)
(* registration of the same email fits in between, and only the UNIQUE     *)
(* constraint of the table, reported as SQLSTATE 23505, tells them apart.  *)
(***************************************************************************)
EXTENDS Naturals, FiniteSets

CONSTANTS
    Emails,
    Ids,       \* values gen_random_uuid can return
    Reqs,      \* registrations in flight at a time
    Faults,    \* may Postgres, hashing, the clients and the replicas fail?
    NoEmail, NoId

ASSUME AccountsAssumption ==
    /\ Faults \in BOOLEAN
    /\ NoEmail \notin Emails
    /\ NoId \notin Ids

VARIABLES
    users,     \* the rows of the users table
    reg,       \* registration -> the handler's local state
    welcomed   \* history: emails somebody was answered 201 for

vars == <<users, reg, welcomed>>

Row      == [id : Ids, email : Emails]
PCs      == {"idle", "select", "hash", "insert", "reply"}
Statuses == {0, 201, 400, 409, 422, 500}
Register == [pc     : PCs,
             email  : Emails \cup {NoEmail},
             id     : Ids \cup {NoId},      \* of the UserResponse
             status : Statuses]

Idle == [pc |-> "idle", email |-> NoEmail, id |-> NoId, status |-> 0]

Init == /\ users = {}
        /\ reg = [r \in Reqs |-> Idle]
        /\ welcomed = {}

-----------------------------------------------------------------------------
At(r, pc)      == reg[r].pc = pc
Taken(e)       == \E u \in users : u.email = e
Goto(r, pc)    == reg' = [reg EXCEPT ![r] = [@ EXCEPT !.pc = pc]]
Answer(r, status, id) ==
    reg' = [reg EXCEPT ![r] = [@ EXCEPT !.pc = "reply", !.status = status, !.id = id]]

\* The body decodes and validates.
Arrive(r, e) == /\ At(r, "idle")
                /\ reg' = [reg EXCEPT ![r] = [Idle EXCEPT !.pc = "select", !.email = e]]
                /\ UNCHANGED <<users, welcomed>>

\* It does not.
Reject(r, status) == /\ At(r, "idle")
                     /\ status \in {400, 422}
                     /\ Answer(r, status, NoId)
                     /\ UNCHANGED <<users, welcomed>>

\* A taken email is answered before any hashing is done for it.
Select(r) == /\ At(r, "select")
             /\ IF Taken(reg[r].email) THEN Answer(r, 409, NoId) ELSE Goto(r, "hash")
             /\ UNCHANGED <<users, welcomed>>

Hash(r) == /\ At(r, "hash")
           /\ Goto(r, "insert")
           /\ UNCHANGED <<users, welcomed>>

\* The lookup or the hashing fails.
Fails(r) == /\ Faults
            /\ At(r, "select") \/ At(r, "hash")
            /\ Answer(r, 500, NoId)
            /\ UNCHANGED <<users, welcomed>>

\* The row the INSERT adds: its id is new.
Inserted(e, id) == /\ \A u \in users : u.id # id
                   /\ users' = users \cup {[id |-> id, email |-> e]}

\* Faulty variant: a table without UNIQUE, the SELECT being trusted.
InsertUnconstrained(r, id) ==
    /\ At(r, "insert")
    /\ Inserted(reg[r].email, id)
    /\ Answer(r, 201, id)
    /\ UNCHANGED welcomed

\* Faulty variant: the row gets the id of the Go struct, which is not set yet.
InsertBlankId(r, id) ==
    /\ At(r, "insert")
    /\ ~ Taken(reg[r].email)
    /\ users' = users \cup {[id |-> NoId, email |-> reg[r].email]}
    /\ Answer(r, 201, id)
    /\ UNCHANGED welcomed

\* The email is free: the row is there and the account answered.
Insert(r, id) == /\ At(r, "insert")
                 /\ ~ Taken(reg[r].email)
                 /\ Inserted(reg[r].email, id)
                 /\ Answer(r, 201, id)
                 /\ UNCHANGED welcomed

\* SQLSTATE 23505: somebody else inserted the email since the SELECT.
InsertDuplicate(r) == /\ At(r, "insert")
                      /\ Taken(reg[r].email)
                      /\ Answer(r, 409, NoId)
                      /\ UNCHANGED <<users, welcomed>>

\* Any other error, the row being there or not.
InsertFails(r) == /\ Faults /\ At(r, "insert")
                  /\ \/ UNCHANGED users
                     \/ /\ ~ Taken(reg[r].email)
                        /\ \E id \in Ids : Inserted(reg[r].email, id)
                  /\ Answer(r, 500, NoId)
                  /\ UNCHANGED welcomed

Reply(r) == /\ At(r, "reply")
            /\ welcomed' = IF reg[r].status = 201
                           THEN welcomed \cup {reg[r].email} ELSE welcomed
            /\ reg' = [reg EXCEPT ![r] = Idle]
            /\ UNCHANGED users

\* A replica dies, or the client is gone and its context with it.
Crash(r) == /\ Faults
            /\ ~ At(r, "idle")
            /\ reg' = [reg EXCEPT ![r] = Idle]
            /\ UNCHANGED <<users, welcomed>>

Serve(r) == \/ Select(r) \/ Hash(r) \/ Fails(r)
            \/ \E id \in Ids : Insert(r, id)
            \/ InsertDuplicate(r) \/ InsertFails(r)
            \/ Reply(r)

Next == \E r \in Reqs :
           \/ \E e \in Emails : Arrive(r, e)
           \/ \E status \in {400, 422} : Reject(r, status)
           \/ Serve(r)
           \/ Crash(r)

Spec == Init /\ [][Next]_vars

-----------------------------------------------------------------------------
TypeOK == /\ users \subseteq Row
          /\ reg \in [Reqs -> Register]
          /\ welcomed \subseteq Emails

\* No email is answered 201 twice, at once or ever after, although two registrations
\* may both have found it free (auth.go:139) before either inserts (auth.go:170).
OneWelcome ==
    /\ \A r \in Reqs : reg[r].status = 201 => reg[r].email \notin welcomed
    /\ \A r1, r2 \in Reqs :
          reg[r1].status = 201 /\ reg[r2].status = 201 /\ reg[r1].email = reg[r2].email
             => r1 = r2

\* What the proofs carry along: an email has one row, a request has an email once
\* it is past decoding and an outcome only at its end, and a 201 its row.
EmailsUnique == \A u1, u2 \in users : u1.email = u2.email => u1 = u2
Sound(q, rows) ==
    /\ q.pc \in {"select", "hash", "insert"} => q.email \in Emails
    /\ q.pc # "reply" <=> q.status = 0
    /\ q.pc = "idle" <=> q = Idle
    /\ q.status \in {400, 422} => q.email = NoEmail
    /\ q.status \in {201, 409, 500} => q.email \in Emails
    /\ q.status = 201 => [id |-> q.id, email |-> q.email] \in rows
RequestsSound    == \A r \in Reqs : Sound(reg[r], users)
WelcomedHaveRows == \A e \in welcomed : Taken(e)

IInv == TypeOK /\ OneWelcome /\ EmailsUnique /\ RequestsSound /\ WelcomedHaveRows

-----------------------------------------------------------------------------
(* Accounts implements AtomicRegister.                                     *)

Outcome(status) == CASE status = 201 -> "created"
                     [] status = 409 -> "conflict"
                     [] status = 500 -> "failed"
                     [] OTHER        -> "none"

CallOf(r) == [email |-> reg[r].email, outcome |-> Outcome(reg[r].status)]

Atomic == INSTANCE AtomicRegister WITH
              Calls <- Reqs,
              taken <- {u.email : u \in users},
              call  <- [r \in Reqs |-> CallOf(r)]

\* SELECT, hashing and INSERT look like one instant to every client: the first
\* step that decides the answer is the one that creates, or finds, the account.
ImplementsAtomicRegister == Atomic!Spec
=============================================================================
