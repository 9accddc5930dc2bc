-------------------------- MODULE LifecycleProofs ---------------------------
(***************************************************************************)
(* For any number of replicas, requests, retries and migrations, and with  *)
(* kills at any point: a drained replica has nothing left to lose, and a   *)
(* replica past its migrations has the schema it needs.                    *)
(***************************************************************************)
EXTENDS Lifecycle, TLAPS

MainPCs  == Starting \cup Running \cup Gone
Requests == {"unsent"} \cup Active \cup Outcomes

\* The steps of a main goroutine stay among its points.
LEMMA MainPoints ==
  /\ \A pc \in {"postgres", "migrate", "migrating", "redis", "calibrate", "notify", "wait",
                "drain", "close", "down", "exited", "failed", "killed"} : pc \in MainPCs
  /\ \A s \in {"none", "starting", "accepting", "stopped"} : s \in Servers
  /\ \A q \in {"unsent", "handler", "query", "answered", "pool_closed", "lost"} : q \in Requests
BY DEF MainPCs, Starting, Running, Gone, Servers, Requests, Active, Outcomes

\* The invariant holds initially.
LEMMA InitInv == Init => IInv
<1> SUFFICES ASSUME Init PROVE IInv
  OBVIOUS
<1>1. TypeOK
  <2>1. main \in [Replicas -> MainPCs] /\ server \in [Replicas -> Servers] /\ req \in [Reqs -> Requests]
    BY MainPoints DEF Init
  <2>2. 0 \in 0 .. Retries /\ 0 \in 0 .. Versions
    BY LifecycleAssumption
  <2>3. QED
    BY <2>1, <2>2 DEF Init, TypeOK, MainPCs, Requests
<1>2. DrainIsComplete /\ SchemaReady /\ ServerFollowsMain /\ DirtyIsPending
  BY DEF Init, DrainIsComplete, SchemaReady, ServerFollowsMain, DirtyIsPending, Running, Gone
<1>3. QED
  BY <1>1, <1>2 DEF IInv

\* A process that ends keeps the invariant.
LEMMA DiesKeepsInv ==
  ASSUME IInv, NEW a \in Replicas, NEW pc \in {"exited", "failed", "killed"}, Dies(a, pc)
  PROVE  IInv'
<1>1. TypeOK'
  <2>1. main' \in [Replicas -> MainPCs] /\ server' \in [Replicas -> Servers]
    BY MainPoints DEF Dies, Goto, IInv, TypeOK, MainPCs
  <2>2. req' \in [Reqs -> Requests]
    BY MainPoints DEF Dies, IInv, TypeOK, Requests
  <2>3. QED
    BY <2>1, <2>2 DEF Dies, IInv, TypeOK, MainPCs, Requests
<1>2. DrainIsComplete'
  <2>1. \A b \in Replicas : Busy(b, Active)' \subseteq Busy(b, Active)
    BY DEF Dies, Busy, Active, IInv, TypeOK
  <2>2. \A b \in Replicas : server'[b] = "accepting" => server[b] = "accepting"
    BY DEF Dies, IInv, TypeOK
  <2>3. QED
    BY <2>1, <2>2 DEF Dies, IInv, TypeOK, DrainIsComplete
<1>3. SchemaReady'
  BY DEF Dies, Goto, IInv, TypeOK, SchemaReady, Running
<1>4. ServerFollowsMain'
  BY DEF Dies, Goto, IInv, TypeOK, ServerFollowsMain, Gone
<1>5. QED
  BY <1>1, <1>2, <1>3, <1>4 DEF Dies, IInv, DirtyIsPending

\* A step of one replica that leaves the requests and the database alone: where
\* its main and server goroutines may go.
LEMMA MainStepKeepsInv ==
  ASSUME IInv, NEW a \in Replicas, NEW pc \in MainPCs, NEW s \in Servers,
         main' = [main EXCEPT ![a] = pc], server' = [server EXCEPT ![a] = s],
         s = "accepting" => pc \in {"notify", "wait"},
         pc \in {"redis", "calibrate"} \cup Running => schema = Versions /\ ~ dirty,
         tries' \in [Replicas -> 0 .. Retries], told' \subseteq Replicas,
         drained' \subseteq Replicas,
         a \in drained' => pc \in {"close"} \cup Gone /\ Busy(a, Active) = {},
         \A b \in Replicas \ {a} : b \in drained' => b \in drained,
         lock' \in Replicas \cup {Nobody}, UNCHANGED <<schema, dirty, req, host>>
  PROVE  IInv'
<1>1. TypeOK'
  BY DEF IInv, TypeOK, MainPCs
<1>2. DrainIsComplete'
  <2>1. \A b \in Replicas : Busy(b, Active)' = Busy(b, Active)
    BY DEF Busy
  <2>2. a \in drained' => s # "accepting"
    BY DEF Gone
  <2>3. QED
    BY <2>1, <2>2 DEF IInv, TypeOK, DrainIsComplete
<1>3. SchemaReady'
  BY DEF IInv, TypeOK, SchemaReady
<1>4. ServerFollowsMain'
  BY DEF IInv, TypeOK, ServerFollowsMain
<1>5. QED
  BY <1>1, <1>2, <1>3, <1>4 DEF IInv, DirtyIsPending

\* A step of one request that stays where it is.
LEMMA RequestStepKeepsInv ==
  ASSUME IInv, NEW q \in Reqs, NEW from \in Active, NEW to \in Requests, Becomes(q, from, to)
  PROVE  IInv'
<1>1. TypeOK'
  BY DEF Becomes, IInv, TypeOK, Requests
<1>2. \A a \in Replicas : Busy(a, Active) = {} => Busy(a, Active)' = {}
  BY DEF Becomes, IInv, TypeOK, Busy
<1>3. UNCHANGED <<main, server, drained, schema, dirty>>
  BY DEF Becomes
<1>4. DrainIsComplete'
  BY <1>2, <1>3 DEF IInv, TypeOK, DrainIsComplete
<1>5. SchemaReady' /\ ServerFollowsMain' /\ DirtyIsPending'
  BY <1>3 DEF IInv, SchemaReady, ServerFollowsMain, DirtyIsPending
<1>6. QED
  BY <1>1, <1>4, <1>5 DEF IInv

\* Every step preserves the invariant.
LEMMA NextInv == IInv /\ [Next]_vars => IInv'
<1> SUFFICES ASSUME IInv, [Next]_vars PROVE IInv'
  OBVIOUS
<1>0. TypeOK /\ DrainIsComplete /\ SchemaReady /\ ServerFollowsMain /\ DirtyIsPending
  BY DEF IInv
<1>1. ASSUME NEW a \in Replicas, Boot(a) PROVE IInv'
  <2>1. tries' \in [Replicas -> 0 .. Retries] /\ a \notin drained'
    BY <1>0, <1>1, LifecycleAssumption DEF Boot, TypeOK
  <2>2. server[a] # "accepting" /\ server[a] \in Servers /\ server' = [server EXCEPT ![a] = server[a]]
    BY <1>0, <1>1 DEF Boot, TypeOK, ServerFollowsMain, Gone
  <2>3. "postgres" \in MainPCs /\ "postgres" \notin Running
    BY MainPoints DEF Running
  <2>4. QED
    BY <1>0, <1>1, <2>1, <2>2, <2>3, MainStepKeepsInv DEF Boot, Goto, TypeOK
<1>2. ASSUME NEW a \in Replicas, Startup(a) PROVE IInv'
  <2>1. CASE Connected(a, "postgres", "migrate") \/ Connected(a, "redis", "calibrate")
    <3>1. PICK pc \in {"migrate", "calibrate"} : /\ main' = [main EXCEPT ![a] = pc]
                                                 /\ pc = "calibrate" => main[a] = "redis"
      BY <2>1 DEF Connected, Goto
    <3>2. main[a] \in {"postgres", "redis"} /\ tries' = [tries EXCEPT ![a] = 1]
          /\ UNCHANGED <<server, told, drained, schema, dirty, lock, req, host>>
      BY <2>1 DEF Connected
    <3>3. a \notin drained /\ server[a] # "accepting" /\ server[a] \in Servers
          /\ server' = [server EXCEPT ![a] = server[a]]
      BY <1>0, <3>2 DEF TypeOK, ServerFollowsMain, Gone
    <3>4. tries' \in [Replicas -> 0 .. Retries]
      BY <1>0, <3>2, LifecycleAssumption DEF TypeOK
    <3>5. pc \in MainPCs /\ (pc \in {"redis", "calibrate"} \cup Running => schema = Versions /\ ~ dirty)
      BY <1>0, <3>1, MainPoints DEF SchemaReady, Running
    <3>6. QED
      BY <1>0, <3>1, <3>2, <3>3, <3>4, <3>5, MainStepKeepsInv DEF TypeOK
  <2>2. CASE TryAgain(a)
    <3>1. tries' \in [Replicas -> 0 .. Retries]
      <4>1. tries[a] \in 0 .. Retries /\ tries[a] < Retries
        BY <1>0, <2>2 DEF TryAgain, TypeOK
      <4>2. tries[a] + 1 \in 0 .. Retries
        BY <4>1, LifecycleAssumption
      <4>3. QED
        BY <1>0, <2>2, <4>2 DEF TryAgain, TypeOK
    <3>2. \A b \in Replicas : Busy(b, Active)' = Busy(b, Active)
      BY <2>2 DEF TryAgain, Busy
    <3>3. QED
      BY <1>0, <2>2, <3>1, <3>2 DEF TryAgain, IInv, TypeOK, DrainIsComplete, SchemaReady, ServerFollowsMain, DirtyIsPending
  <2>3. CASE StartFails(a)
    BY <2>3, DiesKeepsInv DEF StartFails
  <2>4. CASE MigrateLock(a)
    <3>1. a \notin drained /\ server[a] # "accepting" /\ server[a] \in Servers
          /\ server' = [server EXCEPT ![a] = server[a]]
      BY <1>0, <2>4 DEF MigrateLock, TypeOK, ServerFollowsMain, Gone
    <3>2. "migrating" \in MainPCs /\ "migrating" \notin {"redis", "calibrate"} \cup Running
      BY MainPoints DEF Running
    <3>3. QED
      BY <1>0, <2>4, <3>1, <3>2, MainStepKeepsInv DEF MigrateLock, Goto, TypeOK
  <2>5. CASE MigrateBegin(a) \/ MigrateApply(a)
    <3>1. ~ (\E b \in Replicas : main[b] \in {"redis", "calibrate"} \cup Running)
      BY <1>0, <2>5 DEF MigrateBegin, MigrateApply, SchemaReady, TypeOK
    <3>2. schema' \in 0 .. Versions /\ dirty' \in BOOLEAN /\ DirtyIsPending'
      <4>1. schema \in 0 .. Versions /\ dirty \in BOOLEAN
        BY <1>0 DEF TypeOK
      <4>2. CASE MigrateBegin(a)
        BY <4>1, <4>2 DEF MigrateBegin, DirtyIsPending
      <4>3. CASE MigrateApply(a)
        <5>1. schema < Versions
          BY <1>0, <4>3 DEF MigrateApply, DirtyIsPending
        <5>2. schema + 1 \in 0 .. Versions
          BY <4>1, <5>1, LifecycleAssumption
        <5>3. schema' = schema + 1 /\ dirty' = FALSE
          BY <4>3 DEF MigrateApply
        <5>4. QED
          BY <5>2, <5>3 DEF DirtyIsPending
      <4>4. QED
        BY <2>5, <4>2, <4>3
    <3>3. UNCHANGED <<main, tries, server, told, drained, lock, req, host>>
      BY <2>5 DEF MigrateBegin, MigrateApply
    <3>4. QED
      BY <1>0, <3>1, <3>2, <3>3 DEF IInv, TypeOK, DrainIsComplete, SchemaReady, ServerFollowsMain, Busy
  <2>6. CASE MigrateDone(a)
    <3>1. a \notin drained /\ server[a] # "accepting" /\ server[a] \in Servers
          /\ server' = [server EXCEPT ![a] = server[a]]
      BY <1>0, <2>6 DEF MigrateDone, TypeOK, ServerFollowsMain, Gone
    <3>2. "redis" \in MainPCs /\ tries' \in [Replicas -> 0 .. Retries]
      BY <1>0, <2>6, MainPoints, LifecycleAssumption DEF MigrateDone, TypeOK
    <3>3. QED
      BY <1>0, <2>6, <3>1, <3>2, MainStepKeepsInv DEF MigrateDone, Goto, TypeOK
  <2>7. CASE Launch(a)
    <3>1. a \notin drained /\ schema = Versions /\ ~ dirty
      BY <1>0, <2>7 DEF Launch, ServerFollowsMain, SchemaReady, Gone
    <3>2. "notify" \in MainPCs /\ "starting" \in Servers
      BY MainPoints
    <3>3. QED
      BY <1>0, <2>7, <3>1, <3>2, MainStepKeepsInv DEF Launch, Goto, TypeOK
  <2>8. CASE Notify(a)
    <3>1. a \notin drained /\ schema = Versions /\ ~ dirty
      BY <1>0, <2>8 DEF Notify, ServerFollowsMain, SchemaReady, Running, Gone
    <3>2. "wait" \in MainPCs /\ server[a] \in Servers /\ server' = [server EXCEPT ![a] = server[a]]
      BY <1>0, <2>8, MainPoints DEF Notify, TypeOK
    <3>3. QED
      BY <1>0, <2>8, <3>1, <3>2, MainStepKeepsInv DEF Notify, Goto, TypeOK
  <2>9. QED
    BY <1>2, <2>1, <2>2, <2>3, <2>4, <2>5, <2>6, <2>7, <2>8 DEF Startup
<1>3. ASSUME NEW a \in Replicas, Listen(a) PROVE IInv'
  <2>1. PICK s \in {"accepting", "stopped"} :
           /\ server' = [server EXCEPT ![a] = s]
           /\ s = "accepting" => main[a] \in {"notify", "wait"}
    BY <1>3 DEF Listen
  <2>2. s \in Servers /\ main[a] \in MainPCs /\ main' = [main EXCEPT ![a] = main[a]]
    BY <1>0, <1>3, MainPoints DEF Listen, TypeOK, MainPCs
  <2>3. /\ main[a] \in {"redis", "calibrate"} \cup Running => schema = Versions /\ ~ dirty
        /\ a \in drained => main[a] \in {"close"} \cup Gone /\ Busy(a, Active) = {}
    BY <1>0 DEF SchemaReady, ServerFollowsMain, DrainIsComplete
  <2>4. QED
    BY <1>0, <1>3, <2>1, <2>2, <2>3, MainStepKeepsInv DEF Listen, TypeOK
<1>4. ASSUME NEW a \in Replicas, ServerFails(a) \/ Kill(a) PROVE IInv'
  BY <1>4, DiesKeepsInv DEF ServerFails, Kill
<1>5. ASSUME NEW a \in Replicas, Signal(a) PROVE IInv'
  <2>1. CASE Dies(a, "killed")
    BY <2>1, DiesKeepsInv
  <2>2. CASE told' = told \cup {a} /\ UNCHANGED <<main, tries, server, drained, schema, dirty, lock, req, host>>
    BY <1>0, <2>2 DEF IInv, TypeOK, DrainIsComplete, SchemaReady, ServerFollowsMain, DirtyIsPending, Busy
  <2>3. QED
    BY <1>5, <2>1, <2>2 DEF Signal
<1>6. ASSUME NEW a \in Replicas, Stop(a) PROVE IInv'
  <2>1. CASE Shutdown(a)
    <3>1. PICK s : s = IF server[a] = "accepting" THEN "stopped" ELSE server[a]
      OBVIOUS
    <3>2. s \in Servers /\ s # "accepting" /\ server' = [server EXCEPT ![a] = s]
      BY <1>0, <2>1, <3>1, MainPoints DEF Shutdown, TypeOK
    <3>3. a \notin drained /\ schema = Versions /\ ~ dirty /\ "drain" \in MainPCs
      BY <1>0, <2>1, MainPoints DEF Shutdown, ServerFollowsMain, SchemaReady, Running, Gone
    <3>4. QED
      BY <1>0, <2>1, <3>2, <3>3, MainStepKeepsInv DEF Shutdown, Goto, TypeOK
  <2>2. CASE DrainDone(a) \/ DrainTimeout(a)
    <3>1. /\ main[a] = "drain" /\ main' = [main EXCEPT ![a] = "close"]
          /\ UNCHANGED <<tries, server, told, schema, dirty, lock, req, host>>
      BY <2>2 DEF DrainDone, DrainTimeout, Goto
    <3>2. /\ drained' \subseteq Replicas
          /\ \A b \in Replicas \ {a} : b \in drained' => b \in drained
          /\ a \in drained' => Busy(a, Active) = {}
      BY <1>0, <2>2 DEF DrainDone, DrainTimeout, TypeOK, DrainIsComplete
    <3>3. server[a] # "accepting" /\ server[a] \in Servers /\ server' = [server EXCEPT ![a] = server[a]]
      BY <1>0, <3>1 DEF TypeOK, ServerFollowsMain
    <3>4. schema = Versions /\ ~ dirty /\ "close" \in MainPCs
      BY <1>0, <3>1, MainPoints DEF SchemaReady, Running
    <3>5. QED
      BY <1>0, <3>1, <3>2, <3>3, <3>4, MainStepKeepsInv DEF TypeOK
  <2>3. CASE Exit(a)
    BY <2>3, DiesKeepsInv DEF Exit
  <2>4. QED
    BY <1>6, <2>1, <2>2, <2>3 DEF Stop
<1>7. ASSUME NEW q \in Reqs, Handle(q) PROVE IInv'
  <2>1. PICK from \in Active, to \in Requests : Becomes(q, from, to)
    BY <1>7 DEF Handle, Query, QueryDone, Respond, Active, Requests, Outcomes
  <2>2. QED
    BY <2>1, RequestStepKeepsInv
<1>8. ASSUME NEW q \in Reqs, NEW a \in Replicas, Accept(q, a) PROVE IInv'
  <2>1. TypeOK'
    BY <1>0, <1>8 DEF Accept, TypeOK, Active
  <2>2. a \notin drained
    BY <1>0, <1>8 DEF Accept, DrainIsComplete
  <2>3. \A b \in Replicas \ {a} : Busy(b, Active) = {} => Busy(b, Active)' = {}
    BY <1>0, <1>8 DEF Accept, Busy, TypeOK
  <2>4. UNCHANGED <<main, server, drained, schema, dirty>>
    BY <1>8 DEF Accept
  <2>5. DrainIsComplete'
    BY <1>0, <2>2, <2>3, <2>4 DEF TypeOK, DrainIsComplete
  <2>6. SchemaReady' /\ ServerFollowsMain' /\ DirtyIsPending'
    BY <1>0, <2>4 DEF SchemaReady, ServerFollowsMain, DirtyIsPending
  <2>7. QED
    BY <2>1, <2>5, <2>6 DEF IInv
<1>9. CASE UNCHANGED vars
  BY <1>0, <1>9 DEF vars, IInv, TypeOK, DrainIsComplete, SchemaReady, ServerFollowsMain, DirtyIsPending, Busy
<1>10. QED
  BY <1>1, <1>2, <1>3, <1>4, <1>5, <1>6, <1>7, <1>8, <1>9 DEF Next

-----------------------------------------------------------------------------
\* The invariant holds in every reachable state.
THEOREM Invariance == Spec => []IInv
<1>1. QED
  BY InitInv, NextInv, PTL DEF Spec

\* Every reachable state is well typed.
THEOREM TypeCorrect == Spec => []TypeOK
<1>1. IInv => TypeOK
  BY DEF IInv
<1>2. QED
  BY Invariance, <1>1, PTL

\* A replica whose Shutdown returned nil has no request left (main.go:145-149).
THEOREM DrainsCompletely == Spec => []DrainIsComplete
<1>1. IInv => DrainIsComplete
  BY DEF IInv
<1>2. QED
  BY Invariance, <1>1, PTL

\* No replica serves on a schema that is behind or half migrated (main.go:79).
THEOREM ServesOnItsSchema == Spec => []SchemaReady
<1>1. IInv => SchemaReady
  BY DEF IInv
<1>2. QED
  BY Invariance, <1>1, PTL

\* A replica that exits waits for the queries its handlers have begun (main.go:149).
THEOREM ExitAwaitsQueries == Spec => ExitCutsNoQuery
<1>1. IInv /\ [Next]_vars =>
        [\A q \in Reqs : req[q] = "query" /\ req'[q] = "lost" => main'[host[q]] # "exited"]_vars
  <2> SUFFICES ASSUME IInv, Next, NEW q \in Reqs, req[q] = "query", req'[q] = "lost",
                      main'[host[q]] = "exited"
               PROVE  FALSE
    OBVIOUS
  <2>1. TypeOK
    BY DEF IInv
  <2>2. ASSUME NEW a \in Replicas, NEW pc \in {"exited", "failed", "killed"}, Dies(a, pc)
        PROVE  host[q] = a /\ pc = "exited"
    BY <2>1, <2>2 DEF Dies, Goto, Busy, TypeOK
  <2>3. ASSUME NEW a \in Replicas, Exit(a) PROVE FALSE
    <3>1. host[q] = a
      BY <2>2, <2>3 DEF Exit
    <3>2. q \in Busy(a, {"query"})
      BY <3>1 DEF Busy
    <3>3. QED
      BY <2>3, <3>2 DEF Exit
  <2>4. ASSUME NEW a \in Replicas, StartFails(a) \/ ServerFails(a) \/ Signal(a) \/ Kill(a) PROVE FALSE
    <3>1. CASE \E pc \in {"failed", "killed"} : Dies(a, pc)
      BY <2>2, <3>1
    <3>2. CASE UNCHANGED req
      BY <3>2
    <3>3. QED
      BY <2>4, <3>1, <3>2 DEF StartFails, ServerFails, Signal, Kill
  <2>5. ASSUME NEW s \in Reqs, Handle(s) \/ \E a \in Replicas : Accept(s, a) PROVE FALSE
    BY <2>1, <2>5 DEF Handle, Query, QueryDone, Respond, Becomes, Accept, TypeOK
  <2>6. ASSUME NEW a \in Replicas, UNCHANGED req PROVE FALSE
    BY <2>6
  <2>7. QED
    BY <2>3, <2>4, <2>5, <2>6
       DEF Next, Startup, Stop, Boot, Connected, TryAgain, MigrateLock, MigrateBegin, MigrateApply,
           MigrateDone, Launch, Notify, Listen, Shutdown, DrainDone, DrainTimeout
<1>2. QED
  BY <1>1, Invariance, PTL DEF Spec, ExitCutsNoQuery
=============================================================================
