------------------------------ MODULE AccessGate ------------------------------
(***************************************************************************)
(* Access tokens and the routes they open.  Login and Refresh read a       *)
(* user's role, seal it in a token some calls later and hand the token out *)
(* if their response still can be written; AuthenticateToken and           *)
(* RequireRole look at nothing but the token and their own clock.  Roles   *)
(* change and users are deleted in between (an operator's UPDATE or DELETE;*)
(* the gateway has no operation for either).                               *)
(***************************************************************************)
EXTENDS Integers

CONSTANTS
    Users, Roles,
    Gone,          \* in place of a role: the user has no row
    Requests,      \* Logins and Refreshes
    Clients,       \* each keeps the last access token it was given
    Idle, NoToken,
    TTL,           \* of an access token: 15 minutes
    WriteTimeout,  \* of the server: a later response is not written
    Skew,          \* how far the clocks of replicas and verifiers are off
    MaxTime

Pending == [user : Users, role : Roles, asOf : Int]
Sealed  == [user : Users, role : Roles, asOf : Int, exp : Int]
Token   == [user : Users, role : Roles, exp : Int]

ASSUME AccessGateAssumption ==
    /\ TTL \in Nat /\ WriteTimeout \in Nat /\ Skew \in Nat /\ MaxTime \in Nat
    /\ Gone \notin Roles
    /\ Idle \notin Pending \cup Sealed
    /\ NoToken \notin Token

VARIABLES
    clock,
    role,      \* users.role
    lapsed,    \* the roles users had, with the instant they last lost them
    req,       \* request -> what its handler knows
    token,     \* client -> the access token it holds
    answer     \* of the last call to a gated route since time or a role changed

vars == <<clock, role, lapsed, req, token, answer>>

\* The longest a role outlives its holder's claim to it.
Bound == TTL + WriteTimeout + 2 * Skew

Lease == INSTANCE RoleLease

Init == /\ Lease!Init
        /\ req = [q \in Requests |-> Idle]
        /\ token = [c \in Clients |-> NoToken]

\* What a machine may read on its clock now.
Readings == clock - Skew .. clock + Skew

Tick == /\ Lease!Tick
        /\ UNCHANGED <<req, token>>

ChangeRole(u) ==
    /\ Lease!ChangeRole(u)
    /\ UNCHANGED <<req, token>>

-----------------------------------------------------------------------------
(* Login and Refresh.                                                      *)

\* Login's SELECT with the password that goes with it, or Refresh's after GETDEL.
LookUp(q, u) ==
    /\ req[q] = Idle /\ role[u] \in Roles
    /\ req' = [req EXCEPT ![q] = [user |-> u, role |-> role[u], asOf |-> clock]]
    /\ UNCHANGED <<clock, role, lapsed, token, answer>>

\* CreateAccessToken, after the password check and the DEL in Login.
CreateAccessToken(q) ==
    /\ req[q] \in Pending
    /\ \E now \in Readings :
         req' = [req EXCEPT ![q] = [user |-> req[q].user, role |-> req[q].role,
                                    asOf |-> req[q].asOf, exp |-> now + TTL]]
    /\ UNCHANGED <<clock, role, lapsed, token, answer>>

\* Faulty variant: everything the handler knows goes into the token.
PayloadWhole(r) == r

Payload(r) == [user |-> r.user, role |-> r.role, exp |-> r.exp]

\* The refresh token is stored and the response written; the server's deadline for it
\* started before the lookup.
Reply(q) ==
    /\ req[q] \in Sealed /\ clock <= req[q].asOf + WriteTimeout
    /\ \E c \in Clients : token' = [token EXCEPT ![c] = Payload(req[q])]
    /\ req' = [req EXCEPT ![q] = Idle]
    /\ UNCHANGED <<clock, role, lapsed, answer>>

\* A wrong password, a failing call, a response that comes too late, a crash.
Abandon(q) ==
    /\ req[q] # Idle
    /\ req' = [req EXCEPT ![q] = Idle]
    /\ UNCHANGED <<clock, role, lapsed, token, answer>>

-----------------------------------------------------------------------------
(* A call to a gated route.                                                *)

\* Faulty variant: the signature is good for ever.
ValidForEver(t, now) == t \in Token

\* VerifyAccessToken of a token the gateway signed; ExpiredAt itself is still valid.
Valid(t, now) == now <= t.exp

Answer(a) ==
    /\ answer' = a
    /\ UNCHANGED <<clock, role, lapsed, req, token>>

\* AuthenticateToken: no token, no Bearer, or nothing the gateway signed.
NothingToVerify == Answer([status |-> 401])

Expired(t, now) ==
    /\ ~ Valid(t, now)
    /\ Answer([status |-> 401])

\* RequireRole compares the role in the token, exactly.
Forbidden(t, gate, now) ==
    /\ Valid(t, now) /\ t.role # gate
    /\ Answer([status |-> 403])

Admit(t, gate, now) ==
    /\ Valid(t, now) /\ t.role = gate
    /\ Answer(Lease!Admission(t.user, gate))

-----------------------------------------------------------------------------
Handle(q) == \/ \E u \in Users : LookUp(q, u)
             \/ CreateAccessToken(q) \/ Reply(q) \/ Abandon(q)

Held == {token[c] : c \in Clients} \ {NoToken}

\* Every gated route asks for one role.
Gate(t, gate, now) == Expired(t, now) \/ Forbidden(t, gate, now) \/ Admit(t, gate, now)

Next == \/ Tick \/ NothingToVerify
        \/ \E u \in Users : ChangeRole(u)
        \/ \E q \in Requests : Handle(q)
        \/ \E t \in Held, gate \in Roles, now \in Readings : Gate(t, gate, now)

Spec == Init /\ [][Next]_vars

-----------------------------------------------------------------------------
TypeOK ==
    /\ clock \in 0 .. MaxTime
    /\ role \in [Users -> Roles \cup {Gone}]
    /\ lapsed \subseteq [user : Users, role : Roles, at : 0 .. MaxTime]
    /\ req \in [Requests -> {Idle} \cup Pending \cup Sealed]
    /\ token \in [Clients -> Token \cup {NoToken}]
    /\ answer \in {Lease!None} \cup Lease!Refusals
                  \cup [status : {200}, user : Users, gate : Roles]

\* Whoever a gated route lets in had that role within the life of a token, the time a
\* response may take and the clocks' difference (auth.go:229-257 and 380-388 against
\* middleware.go:35): a role taken away is good for that long at most, whatever is in
\* flight when it is taken.
ImplementsRoleLease == Lease!Spec
=============================================================================
