------------------------------ MODULE Lifecycle ------------------------------
(***************************************************************************)
(* The life of the replicas (cmd/api/main.go): each connects to Postgres,  *)
(* brings the schema they share up to date, connects to Redis, starts its  *)
(* server on a goroutine of its own, waits for a signal, drains for ten    *)
(* seconds, closes the pool and exits.  Requests run on it meanwhile, and  *)
(* a replica may be killed at any point and started again.                 *)
(*                                                                         *)
(* Postgres' schema_migrations row and advisory lock are golang-migrate's; *)
(* the pool is pgxpool, the server net/http.                               *)
(***************************************************************************)
EXTENDS Naturals

CONSTANTS
    Replicas,
    Reqs,      \* requests, each made once
    Retries,   \* connectRetries
    Versions,  \* migrations embedded in the binary
    Nobody

ASSUME LifecycleAssumption ==
    /\ Retries \in Nat \ {0}
    /\ Versions \in Nat
    /\ Nobody \notin Replicas

VARIABLES
    main,      \* replica -> where its main goroutine is
    tries,     \* replica -> attempts of the connection it is making
    server,    \* replica -> its server goroutine
    told,      \* replicas whose signal context is done
    drained,   \* replicas whose Shutdown returned nil
    schema,    \* migrations applied to the database
    dirty,     \* is one of them half done?
    lock,      \* the replica that holds the migration lock
    req,       \* request -> what became of it
    host       \* request -> the replica that accepted it

vars == <<main, tries, server, told, drained, schema, dirty, lock, req, host>>

Starting == {"postgres", "migrate", "migrating", "redis", "calibrate"}
Running  == {"notify", "wait", "drain", "close"}
Gone     == {"down", "exited", "failed", "killed"}
Servers  == {"none", "starting", "accepting", "stopped"}
Active   == {"handler", "query"}   \* in the handler; in it, holding a connection
Outcomes == {"answered", "pool_closed", "lost"}

Init == /\ main = [a \in Replicas |-> "down"]
        /\ tries = [a \in Replicas |-> 0]
        /\ server = [a \in Replicas |-> "none"]
        /\ told = {} /\ drained = {}
        /\ schema = 0 /\ dirty = FALSE /\ lock = Nobody
        /\ req = [q \in Reqs |-> "unsent"]
        /\ host = [q \in Reqs |-> Nobody]

-----------------------------------------------------------------------------
Busy(a, pcs) == {q \in Reqs : host[q] = a /\ req[q] \in pcs}
Goto(a, pc)  == main' = [main EXCEPT ![a] = pc]

\* The process ends: its handlers end with it, and Postgres frees its lock.
Dies(a, pc) ==
    /\ Goto(a, pc)
    /\ server' = [server EXCEPT ![a] = "none"]
    /\ req' = [q \in Reqs |-> IF q \in Busy(a, Active) THEN "lost" ELSE req[q]]
    /\ lock' = IF lock = a THEN Nobody ELSE lock
    /\ told' = told \ {a}
    /\ UNCHANGED <<tries, drained, schema, dirty, host>>

\* Compose, or an operator, starts a replica that is not running.
Boot(a) ==
    /\ main[a] \in Gone
    /\ Goto(a, "postgres")
    /\ tries' = [tries EXCEPT ![a] = 1]
    /\ drained' = drained \ {a}
    /\ UNCHANGED <<server, told, schema, dirty, lock, req, host>>

-----------------------------------------------------------------------------
(* Startup.                                                                *)

\* Postgres, or Redis, answers the ping.
Connected(a, from, to) ==
    /\ main[a] = from
    /\ Goto(a, to)
    /\ tries' = [tries EXCEPT ![a] = 1]
    /\ UNCHANGED <<server, told, drained, schema, dirty, lock, req, host>>

\* Faulty variant: the attempts are not counted.
TryAgainForever(a) ==
    /\ main[a] \in {"postgres", "redis"}
    /\ tries' = [tries EXCEPT ![a] = IF @ < Retries THEN @ + 1 ELSE 1]
    /\ UNCHANGED <<main, server, told, drained, schema, dirty, lock, req, host>>

\* Faulty variant: one attempt too many is made.
TryAgainOnceMore(a) ==
    /\ main[a] \in {"postgres", "redis"} /\ tries[a] =< Retries
    /\ tries' = [tries EXCEPT ![a] = @ + 1]
    /\ UNCHANGED <<main, server, told, drained, schema, dirty, lock, req, host>>

\* It does not, and the next attempt is made after connectBackoff.
TryAgain(a) ==
    /\ main[a] \in {"postgres", "redis"} /\ tries[a] < Retries
    /\ tries' = [tries EXCEPT ![a] = @ + 1]
    /\ UNCHANGED <<main, server, told, drained, schema, dirty, lock, req, host>>

\* log.Fatalf: the last attempt, the lock or a migration failed.
StartFails(a) ==
    /\ \/ main[a] \in {"postgres", "redis"} /\ tries[a] = Retries
       \/ main[a] \in {"migrate", "migrating"}
    /\ Dies(a, "failed")

\* Faulty variant: a lock somebody else holds counts as nothing to do.
MigrateLockOptional(a) ==
    /\ main[a] = "migrate"
    /\ IF lock = Nobody /\ ~ dirty
       THEN lock' = a /\ Goto(a, "migrating")
       ELSE lock' = lock /\ Goto(a, "redis")
    /\ UNCHANGED <<tries, server, told, drained, schema, dirty, req, host>>

\* m.Up takes the lock, and goes on if no migration was left half done.
MigrateLock(a) ==
    /\ main[a] = "migrate"
    /\ lock = Nobody /\ ~ dirty
    /\ lock' = a
    /\ Goto(a, "migrating")
    /\ UNCHANGED <<tries, server, told, drained, schema, dirty, req, host>>

\* The next version is recorded as dirty before its statements run, and as clean after.
MigrateBegin(a) ==
    /\ main[a] = "migrating"
    /\ schema < Versions /\ ~ dirty
    /\ dirty' = TRUE
    /\ UNCHANGED <<main, tries, server, told, drained, schema, lock, req, host>>

MigrateApply(a) ==
    /\ main[a] = "migrating" /\ dirty
    /\ schema' = schema + 1
    /\ dirty' = FALSE
    /\ UNCHANGED <<main, tries, server, told, drained, lock, req, host>>

\* Done, or ErrNoChange.
MigrateDone(a) ==
    /\ main[a] = "migrating"
    /\ schema = Versions /\ ~ dirty
    /\ lock' = Nobody
    /\ tries' = [tries EXCEPT ![a] = 1]
    /\ Goto(a, "redis")
    /\ UNCHANGED <<server, told, drained, schema, dirty, req, host>>

\* The verify cost is calibrated, the routes registered and the server launched.
Launch(a) ==
    /\ main[a] = "calibrate"
    /\ Goto(a, "notify")
    /\ server' = [server EXCEPT ![a] = "starting"]
    /\ UNCHANGED <<tries, told, drained, schema, dirty, lock, req, host>>

\* From here on SIGINT and SIGTERM are caught.
Notify(a) ==
    /\ main[a] = "notify"
    /\ Goto(a, "wait")
    /\ UNCHANGED <<tries, server, told, drained, schema, dirty, lock, req, host>>

-----------------------------------------------------------------------------
(* The server goroutine.                                                   *)

\* Faulty variant: the listener opens even though Shutdown has been called.
ListenLate(a) ==
    /\ server[a] = "starting"
    /\ server' = [server EXCEPT ![a] = "accepting"]
    /\ UNCHANGED <<main, tries, told, drained, schema, dirty, lock, req, host>>

\* ListenAndServe returns at once when Shutdown has been called before it.
Listen(a) ==
    /\ server[a] = "starting"
    /\ server' = [server EXCEPT
                    ![a] = IF main[a] \in {"notify", "wait"} THEN "accepting" ELSE "stopped"]
    /\ UNCHANGED <<main, tries, told, drained, schema, dirty, lock, req, host>>

\* The listener fails and main, waiting, reads its error: log.Fatalf.
ServerFails(a) ==
    /\ main[a] = "wait" /\ server[a] \in {"starting", "accepting"}
    /\ Dies(a, "failed")

-----------------------------------------------------------------------------
(* Requests.                                                               *)

\* A request counts from when its connection is accepted, as Shutdown counts it.
Accept(q, a) ==
    /\ req[q] = "unsent" /\ server[a] = "accepting"
    /\ req' = [req EXCEPT ![q] = "handler"]
    /\ host' = [host EXCEPT ![q] = a]
    /\ UNCHANGED <<main, tries, server, told, drained, schema, dirty, lock>>

Becomes(q, from, to) ==
    /\ req[q] = from
    /\ req' = [req EXCEPT ![q] = to]
    /\ UNCHANGED <<main, tries, server, told, drained, schema, dirty, lock, host>>

\* Acquire: a pool that is being closed refuses, and the handler answers 500.
Query(q) == /\ req[q] = "handler"
            /\ Becomes(q, "handler", IF main[host[q]] = "close" THEN "pool_closed"
                                                              ELSE "query")
QueryDone(q) == Becomes(q, "query", "handler")
Respond(q)   == Becomes(q, "handler", "answered")

-----------------------------------------------------------------------------
(* The end.                                                                *)

\* A signal that is caught cancels the context; before that it kills the process.
Signal(a) ==
    \/ /\ main[a] = "wait" /\ a \notin told
       /\ told' = told \cup {a}
       /\ UNCHANGED <<main, tries, server, drained, schema, dirty, lock, req, host>>
    \/ main[a] \in Starting \cup {"notify"} /\ Dies(a, "killed")

\* srv.Shutdown closes the listener and starts to wait.
Shutdown(a) ==
    /\ main[a] = "wait" /\ a \in told
    /\ Goto(a, "drain")
    /\ server' = [server EXCEPT ![a] = IF @ = "accepting" THEN "stopped" ELSE @]
    /\ UNCHANGED <<tries, told, drained, schema, dirty, lock, req, host>>

\* Every connection is idle: Shutdown returns nil and the pool is being closed.
DrainDone(a) ==
    /\ main[a] = "drain" /\ Busy(a, Active) = {}
    /\ Goto(a, "close")
    /\ drained' = drained \cup {a}
    /\ UNCHANGED <<tries, server, told, schema, dirty, lock, req, host>>

\* Faulty variant: Shutdown is given a context without a deadline.
DrainNoTimeout(a) ==
    /\ main[a] = "drain" /\ Busy(a, Active) = {}
    /\ Goto(a, "close")
    /\ UNCHANGED <<tries, server, told, drained, schema, dirty, lock, req, host>>

\* Ten seconds are over: the error is logged, and the pool is being closed.
DrainTimeout(a) ==
    /\ main[a] = "drain" /\ Busy(a, Active) # {}
    /\ Goto(a, "close")
    /\ UNCHANGED <<tries, server, told, drained, schema, dirty, lock, req, host>>

\* Faulty variant: the pool is dropped, not closed.
ExitWithoutClose(a) ==
    /\ main[a] = "close"
    /\ Dies(a, "exited")

\* Pool.Close returns once no handler holds a connection, and main returns.
Exit(a) ==
    /\ main[a] = "close" /\ Busy(a, {"query"}) = {}
    /\ Dies(a, "exited")

\* SIGKILL, the machine, a panic outside a handler.
Kill(a) == main[a] \notin Gone /\ Dies(a, "killed")

-----------------------------------------------------------------------------
Startup(a) ==
    \/ Connected(a, "postgres", "migrate") \/ Connected(a, "redis", "calibrate")
    \/ TryAgain(a) \/ StartFails(a)
    \/ MigrateLock(a) \/ MigrateBegin(a) \/ MigrateApply(a) \/ MigrateDone(a)
    \/ Launch(a) \/ Notify(a)

Stop(a) == Shutdown(a) \/ DrainDone(a) \/ DrainTimeout(a) \/ Exit(a)

Handle(q) == Query(q) \/ QueryDone(q) \/ Respond(q)

Next ==
    \/ \E a \in Replicas :
          \/ Boot(a) \/ Startup(a) \/ Listen(a) \/ ServerFails(a)
          \/ Signal(a) \/ Stop(a) \/ Kill(a)
    \/ \E q \in Reqs : Handle(q) \/ \E a \in Replicas : Accept(q, a)

Spec == Init /\ [][Next]_vars

\* The goroutines run on and Postgres answers the queries it was sent.
FairSpec ==
    /\ Spec
    /\ \A a \in Replicas : WF_vars(Startup(a)) /\ WF_vars(Stop(a)) /\ WF_vars(Listen(a))
    /\ \A q \in Reqs : WF_vars(QueryDone(q))

-----------------------------------------------------------------------------
TypeOK ==
    /\ main \in [Replicas -> Starting \cup Running \cup Gone]
    /\ tries \in [Replicas -> 0 .. Retries]
    /\ server \in [Replicas -> Servers]
    /\ told \subseteq Replicas /\ drained \subseteq Replicas
    /\ schema \in 0 .. Versions /\ dirty \in BOOLEAN
    /\ lock \in Replicas \cup {Nobody}
    /\ req \in [Reqs -> {"unsent"} \cup Active \cup Outcomes]
    /\ host \in [Reqs -> Replicas \cup {Nobody}]

\* Once Shutdown has returned nil nothing runs on the replica, whatever the server
\* goroutine was doing when the signal came: the pool that is closed next is used by
\* nobody, and the exit cuts nobody off (main.go:145-149).
DrainIsComplete ==
    \A a \in drained : /\ server[a] # "accepting"
                       /\ Busy(a, Active) = {}

\* A replica past its migrations serves the schema it was built for, although the
\* others migrate the same database, fail at it or die in the middle of it.
SchemaReady ==
    \A a \in Replicas :
        main[a] \in {"redis", "calibrate"} \cup Running => schema = Versions /\ ~ dirty

\* What the proofs carry along beside these.
ServerFollowsMain ==
    \A a \in Replicas : /\ server[a] = "accepting" => main[a] \in {"notify", "wait"}
                        /\ a \in drained => main[a] \in {"close"} \cup Gone

DirtyIsPending == dirty => schema < Versions

IInv == TypeOK /\ DrainIsComplete /\ SchemaReady /\ ServerFollowsMain /\ DirtyIsPending

\* A replica that returns from main cuts no statement in two: it loses a request
\* only between two of its calls (main.go:149).
ExitCutsNoQuery ==
    [][\A q \in Reqs :
          req[q] = "query" /\ req'[q] = "lost" => main'[host[q]] # "exited"]_vars

\* A replica that has begun to stop stops, however long its handlers would run.
StopsWhenTold == \A a \in Replicas : main[a] \in {"drain", "close"} ~> main[a] \in Gone

\* Starting ends, well or badly: no replica waits for ever for another's migrations.
StartupSettles ==
    \A a \in Replicas : main[a] \in Starting ~> main[a] \in {"wait"} \cup Gone
=============================================================================
