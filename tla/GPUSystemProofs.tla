-------------------------- MODULE GPUSystemProofs --------------------------
(***************************************************************************)
(* Theorems about GPUSystem, for any requests, services, containers and    *)
(* budgets.  Every step of the composition is a step of GPUDispatcher or   *)
(* leaves it alone, so that what was proved of it holds here too;          *)
(* the rest ties the call in progress and the containers to the owner.     *)
(***************************************************************************)
EXTENDS GPUSystem, GPUDispatcherSteps

-----------------------------------------------------------------------------
(* The inductive invariant.                                                *)

\* has_service was asked before a record was made.
KnownServices ==
  \A r \in Requests : records[r].state # "absent" => records[r].service \in Services

\* The call in progress is the one the worker waits for, and is for the
\* service of the owner, whatever the handlers do meanwhile.
CallOfWorker ==
  /\ worker \in {"loop", "returned"} => call.op = "none"
  /\ worker = "reconcile" => call.op = "reconcile"
  /\ worker \in {"start", "stop"} =>
       /\ call.op = worker
       /\ call.service = records[current].service

CleanupSteps == {"stop_inspect", "stop", "verify"}

\* The containers a call may touch.
Scope ==
  IF call.op \in {"start", "stop"} THEN Elements(Components[call.service])
  ELSE Containers

\* Where a call may be.  A start that has not failed has no errors; a
\* cleanup after one that has remembers so; stop and reconcile are cleanups
\* only.  A command is for a container of the call's scope.
CallShape ==
  /\ call.op = "none" <=> call.step = "idle"
  /\ call.op \in {"stop", "reconcile"} =>
       call.step \in CleanupSteps \cup {"return"} /\ call.startup = "ok"
  /\ call.op = "start" =>
       /\ call.service \in Services
       /\ call.step \in CleanupSteps => call.startup # "ok"
       /\ call.startup # "ok" => call.step \in CleanupSteps \cup {"return"}
  /\ call.op = "stop" => call.service \in Services
  /\ call.step \notin {"idle", "return"} => call.todo # <<>>
  /\ call.step = "return" => call.todo = <<>>
  /\ Elements(call.todo) \subseteq Scope

\* What holds whatever the daemon does.
ShapeInv ==
  /\ IInv
  /\ SystemTypeOK
  /\ KnownServices
  /\ CallOfWorker
  /\ CallShape

\* A cleanup on its way, or at its end.
Cleaning ==
  /\ call.step \in CleanupSteps \cup {"return"}
  /\ ~(call.op = "start" /\ call.startup = "ok")

\* An engine that runs during a cleanup is still to be dealt with, could not
\* be, or may be the work of an ambiguous start.
Accounted ==
  Cleaning =>
    \A c \in Containers :
      docker[c] = "running" =>
        \/ c \in Elements(call.todo)
        \/ c \in call.errors
        \/ call.startup = "ambiguous"

\* A docker start that was given up is known to the call that gave it up,
\* or the dispatcher is degraded.
NoStrayStart ==
  \/ pending = {}
  \/ system_state = "degraded"
  \/ worker = "start" /\ call.startup = "ambiguous"

SystemInv ==
  /\ ShapeInv
  /\ ExclusiveGPU
  /\ Accounted
  /\ NoStrayStart

-----------------------------------------------------------------------------
(* Sequences of containers.                                                *)

LEMMA NoElements == Elements(<<>>) = {}
  BY DEF Elements

\* Dealing with the head of a sequence leaves the elements of its tail.
LEMMA HeadAndTail ==
  ASSUME NEW S, NEW seq \in Seq(S), seq # <<>>
  PROVE  /\ Head(seq) \in S
         /\ Tail(seq) \in Seq(S)
         /\ Head(seq) \in Elements(seq)
         /\ Elements(Tail(seq)) \subseteq Elements(seq)
         /\ Elements(seq) \subseteq {Head(seq)} \cup Elements(Tail(seq))
         /\ Len(seq) = 1 <=> Tail(seq) = <<>>
<1>1. Len(seq) \in Nat \ {0} /\ seq[1] = Head(seq) /\ seq[1] \in S
  OBVIOUS
<1>2. /\ Tail(seq) \in Seq(S)
      /\ DOMAIN Tail(seq) = 1..(Len(seq) - 1)
      /\ \A i \in 1..(Len(seq) - 1) : Tail(seq)[i] = seq[i + 1]
      /\ Len(Tail(seq)) = Len(seq) - 1
  BY <1>1
<1>3. DOMAIN seq = 1..Len(seq)
  OBVIOUS
<1>4. Elements(Tail(seq)) \subseteq Elements(seq)
  <2>1. ASSUME NEW i \in 1..(Len(seq) - 1)
        PROVE  Tail(seq)[i] \in Elements(seq)
    BY <1>1, <1>2, <1>3, i + 1 \in DOMAIN seq DEF Elements
  <2> QED BY <1>2, <2>1 DEF Elements
<1>5. Elements(seq) \subseteq {Head(seq)} \cup Elements(Tail(seq))
  <2>1. ASSUME NEW i \in 1..Len(seq), i # 1
        PROVE  seq[i] \in Elements(Tail(seq))
    <3>1. i - 1 \in 1..(Len(seq) - 1) /\ (i - 1) + 1 = i
      BY <1>1, <2>1
    <3>2. Tail(seq)[i - 1] = seq[i]
      BY <1>2, <3>1
    <3> QED BY <1>2, <3>1, <3>2 DEF Elements
  <2> QED BY <1>1, <1>3, <2>1 DEF Elements
<1>6. Len(seq) = 1 <=> Tail(seq) = <<>>
  BY <1>1, <1>2
<1>7. Head(seq) \in Elements(seq)
  BY <1>1, <1>3 DEF Elements
<1> QED BY <1>1, <1>2, <1>4, <1>5, <1>6, <1>7

\* reversed() yields the same containers.
LEMMA ReversedFacts ==
  ASSUME NEW S, NEW seq \in Seq(S)
  PROVE  /\ Reversed(seq) \in Seq(S)
         /\ Elements(Reversed(seq)) = Elements(seq)
         /\ Reversed(seq) = <<>> <=> seq = <<>>
<1>1. Len(seq) \in Nat /\ DOMAIN seq = 1..Len(seq)
  OBVIOUS
<1>2. ASSUME NEW i \in 1..Len(seq)
      PROVE  Len(seq) + 1 - i \in 1..Len(seq) /\ Len(seq) + 1 - (Len(seq) + 1 - i) = i
  BY <1>1
<1>3. /\ Reversed(seq) \in Seq(S)
      /\ Len(Reversed(seq)) = Len(seq)
      /\ DOMAIN Reversed(seq) = 1..Len(seq)
      /\ \A i \in 1..Len(seq) : Reversed(seq)[i] = seq[Len(seq) + 1 - i]
  BY <1>1, <1>2 DEF Reversed
<1>4. Elements(Reversed(seq)) \subseteq Elements(seq)
  BY <1>1, <1>2, <1>3 DEF Elements
<1>5. Elements(seq) \subseteq Elements(Reversed(seq))
  <2>1. ASSUME NEW i \in 1..Len(seq)
        PROVE  seq[i] = Reversed(seq)[Len(seq) + 1 - i]
    BY <1>1, <1>2, <1>3
  <2> QED BY <1>1, <1>2, <1>3, <2>1 DEF Elements
<1>6. Reversed(seq) = <<>> <=> seq = <<>>
  BY <1>1, <1>3
<1> QED BY <1>3, <1>4, <1>5, <1>6

\* The tables of the manager.
LEMMA TableFacts ==
  /\ Managed \in Seq(Containers) /\ Managed # <<>>
  /\ \A s \in Services :
       /\ Components[s] \in Seq(Containers)
       /\ Components[s] # <<>>
       /\ Elements(Components[s]) \subseteq Containers
<1> USE EngineAssumption, SystemAssumption DEF EngineAssumption, SystemAssumption
<1>1. ASSUME NEW s \in Services
      PROVE  /\ Components[s] \in Seq(Containers)
             /\ Components[s] # <<>>
             /\ Elements(Components[s]) \subseteq Containers
  OBVIOUS
<1>2. PICK s \in Services : TRUE
  OBVIOUS
<1>3. Head(Components[s]) \in Containers
  BY <1>1, <1>2, HeadAndTail
<1> QED BY <1>1, <1>3, NoElements DEF Containers

-----------------------------------------------------------------------------
(* The dispatcher in the composition.                                      *)

\* Every step is a step of GPUDispatcher or leaves it alone.
LEMMA DispatcherStep == [SystemNext]_systemVars => [Next]_vars
<1>1. CASE HandlersAndWaits
  BY <1>1 DEF HandlersAndWaits, Next, WorkerTurn
<1>2. CASE PerformStart
  BY <1>2 DEF PerformStart, Next, WorkerTurn
<1>3. CASE PerformStop
  BY <1>3 DEF PerformStop, Next, WorkerTurn
<1>4. CASE CallReturns
  BY <1>4 DEF CallReturns, Next, EngineReturns
<1>5. CASE Engine
  BY <1>5 DEF Engine
<1>6. CASE Crash
  BY <1>6 DEF Crash, Next
<1>7. CASE UNCHANGED systemVars
  BY <1>7 DEF systemVars
<1> QED BY <1>1, <1>2, <1>3, <1>4, <1>5, <1>6, <1>7 DEF SystemNext

\* A record keeps its service, and a new one has a service of the manager.
ServiceStep(r) ==
  \/ records'[r].state = "absent"
  \/ records'[r].service = records[r].service /\ records[r].state # "absent"
  \/ records'[r].service \in Services /\ records[r].state = "absent"

LEMMA HousekeptService ==
  ASSUME TypeOK, NEW r \in Requests
  PROVE  \/ Housekept[r].state = "absent"
         \/ /\ Housekept[r].service = records[r].service
            /\ Housekept[r].state = "absent" <=> records[r].state = "absent"
<1>1. /\ MarkTerminal(records[r], "expired").service = records[r].service
      /\ MarkTerminal(records[r], "expired").state = "expired"
  BY DEF TypeOK, MarkTerminal, LeaseRecord
<1>2. NoLease.state = "absent"
  BY DEF NoLease
<1> QED BY <1>1, <1>2, HousekeptPointwise

LEMMA PrunedService ==
  ASSUME TypeOK, NEW r \in Requests
  PROVE  \/ Pruned(records)[r].state = "absent"
         \/ Pruned(records)[r] = records[r]
  BY PrunedPointwise DEF NoLease

LEMMA CommandService ==
  ASSUME IInv, Command, NEW r \in Requests
  PROVE  ServiceStep(r)
<1>0. TypeOK
  BY DEF IInv
<1> PICK q \in Requests, service \in Services \cup {UnknownService}, e \in 0..epoch :
           \/ \E wait \in 0..(MaxQueueWait + 1) : Submit(service, q, e, wait)
           \/ Release(service, q, e)
           \/ Cancel(service, q, e)
           \/ CancelUnknown(service, q, e)
  BY DEF Command
<1>1. CASE records' = Pruned(records)
  BY <1>0, <1>1, PrunedService DEF ServiceStep
<1>2. ASSUME NEW lease, lease.service = service, HasService(service),
             records[q].state = "absent",
             records' = [Pruned(records) EXCEPT ![q] = lease]
      PROVE  ServiceStep(r)
  <2>1. CASE r = q
    BY <1>0, <1>2, <2>1, PrunedPointwise DEF ServiceStep, HasService
  <2>2. CASE r # q
    BY <1>0, <1>2, <2>2, PrunedService, PrunedPointwise DEF ServiceStep
  <2> QED BY <2>1, <2>2
<1>3. ASSUME NEW wait \in 0..(MaxQueueWait + 1), Submit(service, q, e, wait)
      PROVE  ServiceStep(r)
  <2>1. QueuedLease(service, wait).service = service
    BY DEF QueuedLease
  <2> QED BY <1>1, <1>2, <1>3, <2>1 DEF Submit
<1>4. ASSUME CancelUnknown(service, q, e)
      PROVE  ServiceStep(r)
  <2>1. Tombstone(service).service = service
    BY DEF Tombstone
  <2> QED BY <1>1, <1>2, <1>4, <2>1 DEF CancelUnknown
<1>5. ASSUME NEW target, RequestStop(service, q, e, target)
      PROVE  ServiceStep(r)
  <2>1. records[q] \in LeaseRecord /\ records[q].state # "absent"
    BY <1>0, <1>5 DEF RequestStop, TypeOK
  <2>2. StopRequested(records[q], target).service = records[q].service
    BY <2>1 DEF StopRequested, MarkTerminal, LeaseRecord
  <2> QED
    BY <1>0, <1>5, <2>1, <2>2 DEF RequestStop, TypeOK, ServiceStep
<1> QED BY <1>3, <1>4, <1>5 DEF Release, Cancel

LEMMA TurnService ==
  ASSUME IInv, WorkerTurn, NEW r \in Requests
  PROVE  ServiceStep(r)
<1>0. TypeOK /\ Housekept \in [Requests -> LeaseRecord]
  BY HousekeptPointwise DEF IInv
<1>1. \/ Housekept[r].state = "absent"
      \/ /\ Housekept[r].service = records[r].service
         /\ Housekept[r].state = "absent" <=> records[r].state = "absent"
  BY <1>0, HousekeptService
<1>2. CASE WorkerReturns
  BY <1>2, IInv DEF WorkerReturns, ServiceStep
<1>3. CASE WorkerWaits
  BY <1>1, <1>3 DEF WorkerWaits, ServiceStep
<1>4. CASE BeginStart
  <2>1. PICK i \in DOMAIN queue :
          /\ IsNextQueued(Housekept, i)
          /\ records' = [Housekept EXCEPT ![queue[i]].state = "starting",
                                          ![queue[i]].left = 0]
    BY <1>4 DEF BeginStart
  <2>2. queue[i] \in Requests /\ Housekept[queue[i]].state = "queued"
    BY <1>0, <2>1 DEF TypeOK, IsNextQueued
  <2>3. CASE r = queue[i]
    BY <1>0, <1>1, <2>1, <2>2, <2>3 DEF ServiceStep, LeaseRecord
  <2>4. CASE r # queue[i]
    BY <1>0, <1>1, <2>1, <2>2, <2>4 DEF ServiceStep
  <2> QED BY <2>3, <2>4
<1>5. CASE BeginStop
  <2>1. current \in Requests
    BY <1>0, <1>5 DEF BeginStop, TypeOK
  <2>2. records'[r].service = Housekept[r].service
    BY <1>0, <1>5, <2>1 DEF BeginStop, LeaseRecord
  <2>3. records'[r].state = "absent" <=> Housekept[r].state = "absent"
    BY <1>0, <1>5, <2>1 DEF BeginStop, DeadlinePassed, LeaseRecord
  <2> QED BY <1>1, <2>2, <2>3 DEF ServiceStep
<1> QED BY <1>2, <1>3, <1>4, <1>5 DEF WorkerTurn

LEMMA EngineReturnsService ==
  ASSUME IInv, EngineReturns, NEW r \in Requests
  PROVE  ServiceStep(r)
<1> USE DEF IInv
<1>1. /\ records \in [Requests -> LeaseRecord]
      /\ worker \in {"start", "stop"} => current \in Requests
  BY DEF TypeOK, WorkerPhase
<1>2. CASE UNCHANGED records
  BY <1>2 DEF ServiceStep
<1>3. ASSUME NEW lease, records' = [records EXCEPT ![current] = lease],
             current \in Requests, records[current].state # "absent",
             lease.service = records[current].service
      PROVE  ServiceStep(r)
  BY <1>1, <1>3 DEF ServiceStep
<1>4. /\ worker = "start" => records[current].state # "absent"
      /\ worker = "stop" => records[current].state # "absent"
  BY DEF WorkerPhase
<1>5. ASSUME current \in Requests
      PROVE  /\ Started(records[current]).service = records[current].service
             /\ \A state : MarkTerminal(records[current], state).service = records[current].service
  BY <1>1, <1>5 DEF Started, MarkTerminal, LeaseRecord
<1>6. CASE StartSucceeded
  BY <1>1, <1>3, <1>4, <1>5, <1>6 DEF StartSucceeded
<1>7. CASE StartFailed \/ StartUncertain
  BY <1>1, <1>3, <1>4, <1>5, <1>7 DEF StartFailed, StartUncertain
<1>8. CASE StopSucceeded
  BY <1>1, <1>3, <1>4, <1>5, <1>8 DEF StopSucceeded
<1> QED
  BY <1>2, <1>6, <1>7, <1>8
  DEF EngineReturns, ReconcileSucceeded, ReconcileFailed, StopFailed

LEMMA ServiceSteps ==
  ASSUME IInv, [Next]_vars, NEW r \in Requests
  PROVE  ServiceStep(r)
<1>1. CASE Restart
  BY <1>1 DEF Restart, NoLease, ServiceStep
<1>2. CASE Tick
  <2>1. records[r] \in LeaseRecord
    BY DEF IInv, TypeOK
  <2> QED BY <1>2, <2>1 DEF Tick, Aged, LeaseRecord, ServiceStep
<1>3. CASE Close \/ UNCHANGED vars
  BY <1>3 DEF Close, vars, ServiceStep
<1> QED
  BY <1>1, <1>2, <1>3, CommandService, TurnService, EngineReturnsService DEF Next

\* The services of records stay in the table of the manager, and the owner's
\* service does not change while it owns the GPU.
LEMMA KnownServicesStep ==
  ASSUME IInv, KnownServices, [Next]_vars
  PROVE  /\ KnownServices'
         /\ current # NoRequest /\ current' = current =>
              records'[current].service = records[current].service
<1>1. IInv'
  BY StepInvariant
<1>2. KnownServices'
  BY ServiceSteps DEF KnownServices, ServiceStep
<1>3. ASSUME current # NoRequest, current' = current
      PROVE  records'[current].service = records[current].service
  <2>1. current \in Requests /\ records[current].state # "absent"
    BY <1>3 DEF IInv, TypeOK, OwnerPhase, OwningStates
  <2>2. records'[current].state # "absent"
    BY <1>1, <1>3 DEF IInv, OwnerPhase, OwningStates
  <2> QED BY <2>1, <2>2, ServiceSteps DEF ServiceStep
<1> QED BY <1>2, <1>3

-----------------------------------------------------------------------------
(* Calls.                                                                  *)

\* Calls begin with something to do.
LEMMA NewCalls ==
  /\ ReconcileCall \in CallType /\ NoCall \in CallType
  /\ Reversed(Managed) # <<>> /\ Elements(Reversed(Managed)) = Containers
  /\ \A s \in Services :
       /\ StartCall(s) \in CallType /\ StopCall(s) \in CallType
       /\ Reversed(Components[s]) \in Seq(Containers)
       /\ Reversed(Components[s]) # <<>>
       /\ Elements(Reversed(Components[s])) = Elements(Components[s])
<1> USE EngineAssumption DEF EngineAssumption, CallType
<1>1. /\ Reversed(Managed) \in Seq(Containers)
      /\ Reversed(Managed) # <<>>
      /\ Elements(Reversed(Managed)) = Containers
  BY TableFacts, ReversedFacts DEF Containers
<1>2. ASSUME NEW s \in Services
      PROVE  /\ Components[s] \in Seq(Containers)
             /\ Reversed(Components[s]) \in Seq(Containers)
             /\ Reversed(Components[s]) # <<>>
             /\ Elements(Reversed(Components[s])) = Elements(Components[s])
  BY TableFacts, ReversedFacts
<1>3. HealthAttempts \in 1..HealthAttempts
  OBVIOUS
<1>4. ReconcileCall \in CallType
  BY <1>1, <1>3 DEF ReconcileCall, Call
<1>5. NoCall \in CallType
  BY <1>3 DEF NoCall, Call
<1>6. ASSUME NEW s \in Services
      PROVE  StartCall(s) \in CallType /\ StopCall(s) \in CallType
  BY <1>2, <1>3 DEF StartCall, StopCall, Call
<1> QED BY <1>1, <1>2, <1>4, <1>5, <1>6

\* A command is for a container of the call.
LEMMA CommandContainer ==
  ASSUME ShapeInv, call.step \notin {"idle", "return"}
  PROVE  /\ Container \in Containers
         /\ Container \in Scope
         /\ Container \in Elements(call.todo)
         /\ Tail(call.todo) \in Seq(Containers)
         /\ Elements(Tail(call.todo)) \subseteq Elements(call.todo)
         /\ Elements(call.todo) \subseteq {Container} \cup Elements(Tail(call.todo))
         /\ Len(call.todo) = 1 <=> Tail(call.todo) = <<>>
<1>1. call.todo \in Seq(Containers) /\ call.todo # <<>> /\ Elements(call.todo) \subseteq Scope
  BY DEF ShapeInv, SystemTypeOK, CallType, CallShape
<1> QED BY <1>1, HeadAndTail DEF Container

\* A start that has failed is cleaned up: all of its service.
LEMMA FailedStart ==
  ASSUME ShapeInv, call.op = "start", NEW kind \in {"failed", "ambiguous"},
         StartupFails(kind)
  PROVE  /\ call' \in CallType
         /\ CallShape'
         /\ call'.op = call.op /\ call'.service = call.service
         /\ call'.step = "stop_inspect" /\ call'.startup = kind
         /\ Elements(call'.todo) = Elements(Components[call.service])
<1>1. call \in CallType /\ call.service \in Services
  BY DEF ShapeInv, SystemTypeOK, CallShape
<1>2. /\ Reversed(Components[call.service]) \in Seq(Containers)
      /\ Reversed(Components[call.service]) # <<>>
      /\ Elements(Reversed(Components[call.service])) = Elements(Components[call.service])
  BY <1>1, NewCalls
<1>3. /\ call' \in CallType
      /\ call'.op = "start" /\ call'.service = call.service
      /\ call'.step = "stop_inspect" /\ call'.startup = kind
      /\ call'.todo = Reversed(Components[call.service])
  BY <1>1, <1>2 DEF StartupFails, CallType
<1>4. CallShape'
  BY <1>1, <1>2, <1>3 DEF CallShape, CleanupSteps, Scope
<1> QED BY <1>2, <1>3, <1>4

\* The cleanup goes on with the next container.
LEMMA NextToStop ==
  ASSUME ShapeInv, call.step \in CleanupSteps,
         NEW errors \in SUBSET Containers, StopNext(errors)
  PROVE  /\ call' \in CallType
         /\ CallShape'
         /\ call'.op = call.op /\ call'.service = call.service
         /\ call'.startup = call.startup
         /\ call'.step \in {"stop_inspect", "return"}
         /\ call'.errors = errors
         /\ call'.todo = Tail(call.todo)
<1>1. call \in CallType
  BY DEF ShapeInv, SystemTypeOK
<1>2. CallShape /\ call.step \notin {"idle", "return"}
  BY DEF ShapeInv, CleanupSteps
<1>3. /\ Tail(call.todo) \in Seq(Containers)
      /\ Elements(Tail(call.todo)) \subseteq Scope
      /\ Len(call.todo) = 1 <=> Tail(call.todo) = <<>>
  BY <1>2, CommandContainer DEF CallShape
<1>4. /\ call' \in CallType
      /\ call'.op = call.op /\ call'.service = call.service
      /\ call'.startup = call.startup
      /\ call'.step = IF Len(call.todo) = 1 THEN "return" ELSE "stop_inspect"
      /\ call'.errors = errors
      /\ call'.todo = Tail(call.todo)
  BY <1>1, <1>3 DEF StopNext, CallType
<1>5. Scope' = Scope
  BY <1>4 DEF Scope
<1>6. CallShape'
  BY <1>2, <1>3, <1>4, <1>5 DEF CallShape, CleanupSteps
<1> QED BY <1>4, <1>6

\* A step of a call within the same loop.
LEMMA SameContainer ==
  ASSUME ShapeInv, NEW step, call' = [call EXCEPT !.step = step],
         \/ /\ call.step \in {"inspect", "start", "health", "recheck"}
            /\ step \in {"inspect", "start", "health", "recheck"}
         \/ call.step \in CleanupSteps /\ step \in CleanupSteps
  PROVE  /\ call' \in CallType
         /\ CallShape'
         /\ call'.op = call.op /\ call'.service = call.service
         /\ call'.startup = call.startup
         /\ call'.step = step
         /\ call'.errors = call.errors
         /\ call'.todo = call.todo
<1>1. call \in CallType /\ CallShape
  BY DEF ShapeInv, SystemTypeOK
<1>2. /\ call' \in CallType
      /\ call'.op = call.op /\ call'.service = call.service
      /\ call'.startup = call.startup
      /\ call'.step = step
      /\ call'.errors = call.errors
      /\ call'.todo = call.todo
  BY <1>1 DEF CallType, CleanupSteps
<1>3. Scope' = Scope
  BY <1>2 DEF Scope
<1>4. CallShape'
  BY <1>1, <1>2, <1>3 DEF CallShape, CleanupSteps
<1> QED BY <1>2, <1>4

\* What a command may do: a start goes on, a start fails and its cleanup
\* begins, or a cleanup goes on, with the same container or with the next.
StartGoesOn ==
  /\ call.op = "start" /\ call.startup = "ok" /\ call'.startup = "ok"
  /\ docker' \in {docker, [docker EXCEPT ![Container] = "running"]}
  /\ pending' = pending

CleanupBegins ==
  /\ call.op = "start" /\ call.startup = "ok"
  /\ call'.step = "stop_inspect"
  /\ Elements(call'.todo) = Elements(Components[call.service])
  /\ docker' \in {docker, [docker EXCEPT ![Container] = "running"]}
  /\ \/ call'.startup = "failed" /\ pending' = pending
     \/ call'.startup = "ambiguous" /\ pending' = pending \cup {Container}

CleanupGoesOn ==
  /\ Cleaning
  /\ call'.startup = call.startup
  /\ docker' \in {docker, [docker EXCEPT ![Container] = "stopped"]}
  /\ pending' = pending
  /\ \/ call'.todo = call.todo /\ call'.errors = call.errors
     \/ /\ call'.todo = Tail(call.todo)
        /\ call'.errors \in {call.errors, call.errors \cup {Container}}
        /\ Container \in call'.errors \/ docker'[Container] # "running"

\* Whatever a command does, the call remains one of the worker's.
CommandEffect ==
  /\ call.step \notin {"idle", "return"}
  /\ docker' \in [Containers -> {"running", "stopped", "missing"}]
  /\ call' \in CallType
  /\ CallShape'
  /\ call'.op = call.op /\ call'.service = call.service
  /\ StartGoesOn \/ CleanupBegins \/ CleanupGoesOn

LEMMA StartCommands ==
  ASSUME ShapeInv,
         \/ InspectBeforeStart
         \/ DockerStartSucceeds \/ DockerStartFails \/ DockerStartTimesOut
         \/ HealthCheckSucceeds \/ HealthCheckFails \/ InspectAfterHealth
  PROVE  CommandEffect
<1>1. /\ call \in CallType /\ CallShape
      /\ docker \in [Containers -> {"running", "stopped", "missing"}]
  BY DEF ShapeInv, SystemTypeOK
<1>2. call.step \in {"inspect", "start", "health", "recheck"}
  BY DEF InspectBeforeStart, DockerStartSucceeds, DockerStartFails, DockerStartTimesOut,
         HealthCheckSucceeds, HealthCheckFails, InspectAfterHealth
<1>3. call.op = "start" /\ call.startup = "ok" /\ call.step \notin {"idle", "return"}
  BY <1>1, <1>2 DEF CallShape, CallType, CleanupSteps
<1>4. Container \in Containers
  BY <1>3, CommandContainer
<1>0. HealthAttempts \in Nat \ {0} /\ HealthAttempts \in 1..HealthAttempts
  BY EngineAssumption DEF EngineAssumption
<1>5. ASSUME NEW step \in {"start", "health", "recheck"},
             call' = [call EXCEPT !.step = step], pending' = pending,
             docker' \in {docker, [docker EXCEPT ![Container] = "running"]}
      PROVE  CommandEffect
  <2>1. /\ call' \in CallType
        /\ CallShape'
        /\ call'.op = call.op /\ call'.service = call.service
        /\ call'.startup = call.startup
    BY <1>2, <1>5, SameContainer
  <2>2. docker' \in [Containers -> {"running", "stopped", "missing"}]
    BY <1>1, <1>4, <1>5
  <2> QED BY <1>3, <1>5, <2>1, <2>2 DEF CommandEffect, StartGoesOn
<1>6. ASSUME NEW kind \in {"failed", "ambiguous"}, StartupFails(kind),
             docker' \in {docker, [docker EXCEPT ![Container] = "running"]},
             pending' = IF kind = "failed" THEN pending ELSE pending \cup {Container}
      PROVE  CommandEffect
  <2>1. /\ call' \in CallType
        /\ CallShape'
        /\ call'.op = call.op /\ call'.service = call.service
        /\ call'.step = "stop_inspect" /\ call'.startup = kind
        /\ Elements(call'.todo) = Elements(Components[call.service])
    BY <1>3, <1>6, FailedStart
  <2>2. docker' \in [Containers -> {"running", "stopped", "missing"}]
    BY <1>1, <1>4, <1>6
  <2> QED BY <1>3, <1>6, <2>1, <2>2 DEF CommandEffect, CleanupBegins
<1>7. CASE InspectBeforeStart
  BY <1>5, <1>6, <1>7 DEF InspectBeforeStart
<1>8. CASE DockerStartSucceeds
  BY <1>5, <1>8 DEF DockerStartSucceeds
<1>9. CASE DockerStartFails
  BY <1>6, <1>9 DEF DockerStartFails
<1>10. CASE DockerStartTimesOut
  BY <1>6, <1>10 DEF DockerStartTimesOut
<1>11. CASE HealthCheckFails
  BY <1>5, <1>11 DEF HealthCheckFails
<1>12. CASE HealthCheckSucceeds
  <2>1. /\ Tail(call.todo) \in Seq(Containers)
        /\ Elements(Tail(call.todo)) \subseteq Scope
        /\ Len(call.todo) = 1 <=> Tail(call.todo) = <<>>
    BY <1>1, <1>3, CommandContainer DEF CallShape
  <2>2. docker' = docker /\ pending' = pending /\ NextComponent
    BY <1>12 DEF HealthCheckSucceeds
  <2>3. /\ call' \in CallType
        /\ call'.op = call.op /\ call'.service = call.service
        /\ call'.startup = call.startup
        /\ \/ call'.step = "return" /\ call'.todo = <<>>
           \/ /\ call'.step = "inspect" /\ call'.todo = Tail(call.todo)
              /\ Tail(call.todo) # <<>>
    <3>1. CASE Len(call.todo) = 1
      <4>1. call' = [call EXCEPT !.step = "return", !.todo = <<>>]
        BY <2>2, <3>1 DEF NextComponent
      <4>2. <<>> \in Seq(Containers)
        OBVIOUS
      <4> QED BY <1>1, <4>1, <4>2 DEF CallType
    <3>2. CASE Len(call.todo) # 1
      <4>1. call' = [call EXCEPT !.step = "inspect", !.todo = Tail(call.todo),
                                 !.attempts = HealthAttempts]
        BY <2>2, <3>2 DEF NextComponent
      <4> QED BY <1>1, <1>0, <2>1, <3>2, <4>1 DEF CallType
    <3> QED BY <3>1, <3>2
  <2>4. Scope' = Scope
    BY <2>3 DEF Scope
  <2>5. CallShape'
    BY <1>1, <1>3, <2>1, <2>3, <2>4, NoElements DEF CallShape, CleanupSteps
  <2> QED BY <1>1, <1>3, <2>2, <2>3, <2>5 DEF CommandEffect, StartGoesOn
<1>13. CASE InspectAfterHealth
  <2>1. CASE StartupFails("failed")
    BY <1>6, <1>13, <2>1 DEF InspectAfterHealth
  <2>2. CASE AnotherAttempt(call) /\ call' = NextAttempt(call)
    <3>1. /\ call' \in CallType
          /\ call'.op = call.op /\ call'.service = call.service
          /\ call'.startup = call.startup
          /\ call'.step = "health" /\ call'.todo = call.todo
      <4>1. call' = [call EXCEPT !.step = "health", !.attempts = call.attempts - 1]
        BY <2>2 DEF NextAttempt
      <4>2. call.attempts - 1 \in 1..HealthAttempts
        BY <1>1, <1>0, <2>2 DEF AnotherAttempt, CallType
      <4> QED BY <1>1, <4>1, <4>2 DEF CallType
    <3>2. Scope' = Scope
      BY <3>1 DEF Scope
    <3>3. CallShape'
      BY <1>1, <1>3, <3>1, <3>2 DEF CallShape, CleanupSteps
    <3> QED
      BY <1>1, <1>3, <1>13, <3>1, <3>3 DEF InspectAfterHealth, CommandEffect, StartGoesOn
  <2> QED BY <1>13, <2>1, <2>2 DEF InspectAfterHealth
<1> QED BY <1>7, <1>8, <1>9, <1>10, <1>11, <1>12, <1>13

LEMMA CleanupCommands ==
  ASSUME ShapeInv,
         InspectBeforeStop \/ DockerStopSucceeds \/ DockerStopFails \/ InspectAfterStop
  PROVE  CommandEffect
<1>1. /\ call \in CallType /\ CallShape
      /\ docker \in [Containers -> {"running", "stopped", "missing"}]
  BY DEF ShapeInv, SystemTypeOK
<1>2. call.step \in CleanupSteps
  BY DEF InspectBeforeStop, DockerStopSucceeds, DockerStopFails, InspectAfterStop, CleanupSteps
<1>3. Cleaning /\ call.step \notin {"idle", "return"}
  BY <1>1, <1>2 DEF CallShape, CleanupSteps, Cleaning
<1>4. Container \in Containers
  BY <1>3, CommandContainer
<1>5. ASSUME NEW step \in {"stop", "verify"},
             call' = [call EXCEPT !.step = step], pending' = pending,
             docker' \in {docker, [docker EXCEPT ![Container] = "stopped"]}
      PROVE  CommandEffect
  <2>1. /\ call' \in CallType
        /\ CallShape'
        /\ call'.op = call.op /\ call'.service = call.service
        /\ call'.startup = call.startup
        /\ call'.errors = call.errors
        /\ call'.todo = call.todo
    BY <1>2, <1>5, SameContainer DEF CleanupSteps
  <2>2. docker' \in [Containers -> {"running", "stopped", "missing"}]
    BY <1>1, <1>4, <1>5
  <2> QED BY <1>3, <1>5, <2>1, <2>2 DEF CommandEffect, CleanupGoesOn
<1>6. ASSUME NEW errors \in {call.errors, call.errors \cup {Container}},
             StopNext(errors), pending' = pending,
             docker' \in {docker, [docker EXCEPT ![Container] = "stopped"]},
             Container \in errors \/ docker'[Container] # "running"
      PROVE  CommandEffect
  <2>0. errors \in SUBSET Containers
    BY <1>1, <1>4 DEF CallType
  <2>1. /\ call' \in CallType
        /\ CallShape'
        /\ call'.op = call.op /\ call'.service = call.service
        /\ call'.startup = call.startup
        /\ call'.errors = errors
        /\ call'.todo = Tail(call.todo)
    BY <1>2, <1>6, <2>0, NextToStop
  <2>2. docker' \in [Containers -> {"running", "stopped", "missing"}]
    BY <1>1, <1>4, <1>6
  <2> QED BY <1>3, <1>6, <2>1, <2>2 DEF CommandEffect, CleanupGoesOn
<1>7. CASE InspectBeforeStop
  BY <1>4, <1>5, <1>6, <1>7 DEF InspectBeforeStop, Inspections
<1>8. CASE DockerStopSucceeds
  BY <1>5, <1>8 DEF DockerStopSucceeds
<1>9. CASE DockerStopFails
  BY <1>6, <1>9 DEF DockerStopFails
<1>10. CASE InspectAfterStop
  BY <1>4, <1>6, <1>10 DEF InspectAfterStop, Inspections
<1> QED BY <1>7, <1>8, <1>9, <1>10

LEMMA CommandEffects ==
  ASSUME ShapeInv, CommandStep
  PROVE  CommandEffect
  BY StartCommands, CleanupCommands DEF CommandStep

-----------------------------------------------------------------------------
(* The shape of the system is invariant.                                   *)

LEMMA ShapeInit == SystemInit => ShapeInv
<1> SUFFICES ASSUME SystemInit PROVE ShapeInv
  OBVIOUS
<1>1. IInv
  BY InitInvariant DEF SystemInit
<1>2. SystemTypeOK
  BY <1>1, NewCalls DEF IInv, SystemInit, SystemTypeOK
<1>3. KnownServices
  BY DEF SystemInit, Init, KnownServices, NoLease
<1>4. /\ call.op = "reconcile" /\ call.step = "stop_inspect"
      /\ call.todo = Reversed(Managed) /\ call.startup = "ok"
  BY DEF SystemInit, ReconcileCall, Call
<1>5. CallOfWorker
  BY <1>4 DEF SystemInit, Init, CallOfWorker
<1>6. CallShape
  BY <1>4, NewCalls DEF CallShape, CleanupSteps, Scope
<1> QED BY <1>1, <1>2, <1>3, <1>5, <1>6 DEF ShapeInv

\* A call that was just made.
LEMMA NewCallShape ==
  /\ call' = ReconcileCall => CallShape' /\ call'.op = "reconcile"
  /\ call' = NoCall => CallShape' /\ call'.op = "none"
  /\ \A s \in Services :
       /\ call' = StartCall(s) => CallShape' /\ call'.op = "start" /\ call'.service = s
       /\ call' = StopCall(s) => CallShape' /\ call'.op = "stop" /\ call'.service = s
<1> USE DEF CallShape, CleanupSteps, Scope, Call
<1>1. ASSUME call' = ReconcileCall
      PROVE  CallShape' /\ call'.op = "reconcile"
  BY <1>1, NewCalls DEF ReconcileCall
<1>2. ASSUME call' = NoCall
      PROVE  CallShape' /\ call'.op = "none"
  BY <1>2, NoElements DEF NoCall
<1>3. ASSUME NEW s \in Services, call' = StartCall(s)
      PROVE  CallShape' /\ call'.op = "start" /\ call'.service = s
  BY <1>3, TableFacts DEF StartCall
<1>4. ASSUME NEW s \in Services, call' = StopCall(s)
      PROVE  CallShape' /\ call'.op = "stop" /\ call'.service = s
  BY <1>4, NewCalls DEF StopCall
<1> QED BY <1>1, <1>2, <1>3, <1>4

LEMMA ShapeStep == ShapeInv /\ [SystemNext]_systemVars => ShapeInv'
<1> SUFFICES ASSUME ShapeInv, [SystemNext]_systemVars
             PROVE  ShapeInv'
  OBVIOUS
<1> USE DEF ShapeInv
<1>1. IInv' /\ [Next]_vars
  BY DispatcherStep, StepInvariant
<1>2. /\ KnownServices'
      /\ current # NoRequest /\ current' = current =>
           records'[current].service = records[current].service
  BY <1>1, KnownServicesStep
<1>3. TypeOK /\ TypeOK'
  BY <1>1 DEF IInv
<1>4. ASSUME UNCHANGED engineVars, current' = current, worker' = worker
      PROVE  ShapeInv'
  <2>1. SystemTypeOK'
    BY <1>3, <1>4 DEF SystemTypeOK, engineVars
  <2>2. CallOfWorker'
    BY <1>2, <1>4 DEF CallOfWorker, engineVars, IInv, WorkerPhase
  <2>3. CallShape'
    BY <1>4 DEF CallShape, Scope, engineVars
  <2> QED BY <1>1, <1>2, <2>1, <2>2, <2>3
<1>5. CASE HandlersAndWaits
  BY <1>4, <1>5 DEF HandlersAndWaits, Command, Submit, Release, Cancel, RequestStop,
                    CancelUnknown, WorkerWaits, Tick
<1>6. CASE UNCHANGED systemVars
  BY <1>4, <1>6 DEF systemVars, vars
<1>7. CASE PerformStart
  <2>1. worker' = "start" /\ call' = StartCall(records'[current'].service)
    BY <1>7 DEF PerformStart, BeginStart
  <2>2. current' \in Requests /\ records'[current'].state # "absent"
    BY <1>1, <1>3, <2>1 DEF IInv, WorkerPhase, TypeOK
  <2>3. records'[current'].service \in Services
    BY <1>2, <2>2 DEF KnownServices
  <2>4. SystemTypeOK'
    BY <1>3, <1>7, <2>1, <2>3, NewCalls DEF SystemTypeOK, PerformStart
  <2>5. CallShape' /\ CallOfWorker'
    BY <2>1, <2>3, NewCallShape DEF CallOfWorker
  <2> QED BY <1>1, <1>2, <2>4, <2>5
<1>8. CASE PerformStop
  <2>1. /\ worker' = "stop" /\ call' = StopCall(records[current].service)
        /\ current' = current /\ current # NoRequest
    BY <1>8 DEF PerformStop, BeginStop
  <2>2. current \in Requests /\ records[current].state # "absent"
    BY <1>3, <2>1 DEF IInv, OwnerPhase, OwningStates, TypeOK
  <2>3. records[current].service \in Services
    BY <2>2 DEF KnownServices
  <2>4. SystemTypeOK'
    BY <1>3, <1>8, <2>1, <2>3, NewCalls DEF SystemTypeOK, PerformStop
  <2>5. CallShape' /\ CallOfWorker'
    BY <1>2, <2>1, <2>3, NewCallShape DEF CallOfWorker
  <2> QED BY <1>1, <1>2, <2>4, <2>5
<1>9. CASE CallReturns
  <2>1. /\ call' = NoCall /\ docker' = docker /\ pending' = pending
        /\ worker' \in {"loop", "returned"}
    BY <1>9 DEF CallReturns, Returns, ReconcileSucceeded, ReconcileFailed, StartSucceeded,
                StartFailed, StartUncertain, StopSucceeded, StopFailed
  <2>2. SystemTypeOK'
    BY <1>3, <2>1, NewCalls DEF SystemTypeOK
  <2>3. CallShape' /\ CallOfWorker'
    BY <2>1, NewCallShape DEF CallOfWorker
  <2> QED BY <1>1, <1>2, <2>2, <2>3
<1>10. CASE Engine
  <2>0. UNCHANGED vars
    BY <1>10 DEF Engine
  <2>1. CASE CommandStep
    <3>1. CommandEffect
      BY <2>1, CommandEffects
    <3>2. pending' \subseteq Containers
      BY <3>1, CommandContainer
      DEF CommandEffect, StartGoesOn, CleanupBegins, CleanupGoesOn, SystemTypeOK
    <3>3. SystemTypeOK'
      BY <1>3, <3>1, <3>2 DEF CommandEffect, SystemTypeOK
    <3>4. CallOfWorker'
      BY <2>0, <3>1 DEF CommandEffect, CallOfWorker, vars
    <3> QED BY <1>1, <1>2, <3>1, <3>3, <3>4 DEF CommandEffect
  <2>2. ASSUME NEW c \in Containers, EngineExits(c) \/ LateStart(c)
        PROVE  ShapeInv'
    <3>1. call' = call
      BY <2>2 DEF EngineExits, LateStart
    <3>2. SystemTypeOK'
      BY <1>3, <2>2 DEF EngineExits, LateStart, SystemTypeOK
    <3>3. CallOfWorker' /\ CallShape'
      BY <2>0, <3>1 DEF CallOfWorker, CallShape, Scope, vars
    <3> QED BY <1>1, <1>2, <3>2, <3>3
  <2> QED BY <1>10, <2>1, <2>2 DEF Engine
<1>11. CASE Crash
  <2>1. worker' = "reconcile" /\ call' = ReconcileCall
    BY <1>11 DEF Crash, Restart
  <2>2. pending' \subseteq Containers
    <3>1. call.step = "start" => Container \in Containers
      BY CommandContainer
    <3> QED BY <1>11, <3>1 DEF Crash, SystemTypeOK
  <2>3. docker' \in [Containers -> {"running", "stopped", "missing"}]
    BY <1>11 DEF Crash, SystemTypeOK
  <2>4. SystemTypeOK'
    BY <1>3, <2>1, <2>2, <2>3, NewCalls DEF SystemTypeOK
  <2>5. CallShape' /\ CallOfWorker'
    BY <2>1, NewCallShape DEF CallOfWorker
  <2> QED BY <1>1, <1>2, <2>4, <2>5
<1> QED
  BY <1>5, <1>6, <1>7, <1>8, <1>9, <1>10, <1>11 DEF SystemNext

-----------------------------------------------------------------------------
(* One service has the GPU.                                                *)

LEMMA ExclusiveInit == SystemInit => SystemInv
<1> SUFFICES ASSUME SystemInit PROVE SystemInv
  OBVIOUS
<1>1. ShapeInv
  BY ShapeInit
<1>2. ExclusiveGPU
  BY DEF SystemInit, Init, ExclusiveGPU
<1>3. call.todo = Reversed(Managed)
  BY DEF SystemInit, ReconcileCall, Call
<1>4. Accounted
  BY <1>3, NewCalls DEF Accounted
<1>5. NoStrayStart
  BY DEF SystemInit, NoStrayStart
<1> QED BY <1>1, <1>2, <1>4, <1>5 DEF SystemInv

\* While the owner stays, so do its containers.
LEMMA OwnerContainersStay ==
  ASSUME ShapeInv, [SystemNext]_systemVars, current' = current
  PROVE  OwnerContainers' = OwnerContainers
<1>1. current # NoRequest => records'[current].service = records[current].service
  BY DispatcherStep, KnownServicesStep DEF ShapeInv
<1> QED BY <1>1 DEF OwnerContainers

\* The containers a call of the owner touches are the owner's.
LEMMA ScopeOfOwner ==
  ASSUME ShapeInv, worker \in {"start", "stop"}
  PROVE  Scope = OwnerContainers /\ system_state = "ready"
<1>1. current # NoRequest /\ system_state = "ready"
  BY DEF ShapeInv, IInv, WorkerPhase
<1> QED BY <1>1 DEF ShapeInv, CallOfWorker, Scope, OwnerContainers

\* Which call it is tells what the worker does.
LEMMA WorkerOfCall ==
  ASSUME ShapeInv
  PROVE  /\ call.op = "start" => worker = "start"
         /\ call.op = "stop" => worker = "stop"
         /\ call.op = "reconcile" => worker = "reconcile"
         /\ call.op = "none" => worker \in {"loop", "returned"}
  BY DEF ShapeInv, IInv, TypeOK, CallOfWorker

LEMMA CommandExclusive ==
  ASSUME SystemInv, CommandStep, UNCHANGED vars
  PROVE  ExclusiveGPU' /\ Accounted' /\ NoStrayStart'
<1> USE DEF SystemInv
<1>1. CommandEffect
  BY CommandEffects
<1>2. /\ docker \in [Containers -> {"running", "stopped", "missing"}]
      /\ call.step \notin {"idle", "return"}
      /\ Container \in Containers /\ Container \in Scope
  BY <1>1, CommandContainer DEF CommandEffect, ShapeInv, SystemTypeOK
<1>3. OwnerContainers' = OwnerContainers /\ system_state' = system_state /\ current' = current
  BY DEF vars, OwnerContainers
<1>4. call.op = "start" =>
        worker = "start" /\ Container \in OwnerContainers /\ system_state = "ready"
  BY <1>2, WorkerOfCall, ScopeOfOwner
<1>5. CASE StartGoesOn
  <2>1. ExclusiveGPU'
    BY <1>2, <1>3, <1>4, <1>5 DEF StartGoesOn, ExclusiveGPU
  <2>2. Accounted'
    BY <1>1, <1>5 DEF StartGoesOn, Accounted, Cleaning, CommandEffect
  <2>3. NoStrayStart'
    BY <1>4, <1>5 DEF StartGoesOn, NoStrayStart, vars
  <2> QED BY <2>1, <2>2, <2>3
<1>6. CASE CleanupBegins
  <2>1. ExclusiveGPU'
    BY <1>2, <1>3, <1>4, <1>6 DEF CleanupBegins, ExclusiveGPU
  <2>2. Elements(call'.todo) = OwnerContainers
    BY <1>4, <1>6, ScopeOfOwner DEF CleanupBegins, Scope
  <2>3. Accounted'
    BY <1>3, <1>4, <1>6, <2>1, <2>2 DEF CleanupBegins, Accounted, ExclusiveGPU
  <2>4. NoStrayStart'
    BY <1>4, <1>6 DEF CleanupBegins, NoStrayStart, vars
  <2> QED BY <2>1, <2>3, <2>4
<1>7. CASE CleanupGoesOn
  <2>1. \A c \in Containers : docker'[c] = "running" => docker[c] = "running"
    BY <1>2, <1>7 DEF CleanupGoesOn
  <2>2. ExclusiveGPU'
    BY <1>3, <1>7, <2>1 DEF CleanupGoesOn, ExclusiveGPU
  <2>3. ASSUME NEW c \in Containers, docker'[c] = "running"
        PROVE  \/ c \in Elements(call'.todo)
               \/ c \in call'.errors
               \/ call'.startup = "ambiguous"
    <3>1. \/ c \in Elements(call.todo)
          \/ c \in call.errors
          \/ call.startup = "ambiguous"
      BY <1>7, <2>1, <2>3 DEF CleanupGoesOn, Accounted
    <3>2. Elements(call.todo) \subseteq {Container} \cup Elements(Tail(call.todo))
      BY <1>2, CommandContainer
    <3> QED BY <1>7, <2>3, <3>1, <3>2 DEF CleanupGoesOn
  <2>4. Accounted'
    BY <2>3 DEF Accounted
  <2>5. NoStrayStart'
    BY <1>7 DEF CleanupGoesOn, NoStrayStart, vars
  <2> QED BY <2>2, <2>4, <2>5
<1> QED BY <1>1, <1>5, <1>6, <1>7 DEF CommandEffect

\* A cleanup that reports success has left nothing, and neither has a start
\* that reports a plain failure.
LEMMA NothingLeft ==
  ASSUME SystemInv, call.step = "return", call.errors = {}, Cleaning,
         call.startup # "ambiguous", system_state # "degraded"
  PROVE  pending = {} /\ \A c \in Containers : docker[c] # "running"
<1>1. call.todo = <<>>
  BY DEF SystemInv, ShapeInv, CallShape
<1> QED BY <1>1, NoElements DEF SystemInv, Accounted, NoStrayStart

LEMMA ReturnExclusive ==
  ASSUME SystemInv, CallReturns
  PROVE  ExclusiveGPU' /\ Accounted' /\ NoStrayStart'
<1> USE DEF SystemInv
<1>1. /\ call' = NoCall /\ docker' = docker /\ pending' = pending
      /\ call.step = "return"
  BY DEF CallReturns, Returns
<1>2. Accounted'
  BY <1>1, NoElements DEF Accounted, Cleaning, NoCall, Call, CleanupSteps
<1>3. CASE (ReconcileSucceeded \/ StopSucceeded) /\ Returns("ok")
  <2>1. worker \in {"reconcile", "stop"} /\ system_state # "degraded"
    BY <1>3 DEF ReconcileSucceeded, StopSucceeded, ShapeInv, IInv, WorkerPhase
  <2>2. call.op \in {"reconcile", "stop"} /\ call.startup = "ok"
    BY <2>1 DEF ShapeInv, CallOfWorker, CallShape
  <2>3. call.errors = {} /\ Cleaning
    BY <1>1, <1>3, <2>2 DEF Returns, Outcome, Cleaning
  <2>4. pending = {} /\ \A c \in Containers : docker[c] # "running"
    BY <1>1, <2>1, <2>2, <2>3, NothingLeft
  <2> QED BY <1>1, <1>2, <2>4 DEF ExclusiveGPU, NoStrayStart
<1>4. CASE StartFailed /\ Returns("failed")
  <2>1. worker = "start" /\ system_state # "degraded"
    BY <1>4 DEF StartFailed, ShapeInv, IInv, WorkerPhase
  <2>2. call.op = "start"
    BY <2>1 DEF ShapeInv, CallOfWorker
  <2>3. call.errors = {} /\ call.startup \notin {"ok", "ambiguous"}
    BY <1>4, <2>2 DEF Returns, Outcome, StartOutcome
  <2>4. pending = {} /\ \A c \in Containers : docker[c] # "running"
    BY <1>1, <2>1, <2>3, NothingLeft DEF Cleaning
  <2> QED BY <1>1, <1>2, <2>4 DEF ExclusiveGPU, NoStrayStart
<1>5. ASSUME current' = current, OwnerContainers' = OwnerContainers,
             system_state = "ready" \/ current = NoRequest
      PROVE  system_state' # "ready" \/ system_state = "ready" => ExclusiveGPU'
  BY <1>1, <1>5 DEF ExclusiveGPU
<1>6. CASE StartSucceeded /\ Returns("ok")
  <2>1. /\ worker = "start" /\ system_state = "ready"
        /\ current' = current /\ system_state' = system_state
    BY <1>6 DEF StartSucceeded, ShapeInv, IInv, WorkerPhase
  <2>2. call.op = "start"
    BY <2>1 DEF ShapeInv, CallOfWorker
  <2>3. call.startup = "ok"
    BY <1>6, <2>2 DEF Returns, Outcome, StartOutcome
  <2>4. ExclusiveGPU'
    BY <1>5, <2>1, OwnerContainersStay DEF SystemNext
  <2>5. NoStrayStart'
    BY <1>1, <2>1, <2>3 DEF NoStrayStart
  <2> QED BY <1>2, <2>4, <2>5
<1>7. CASE (StartUncertain \/ StopFailed \/ ReconcileFailed) /\ Returns("cleanup_error")
  <2>1. /\ system_state = "ready" \/ current = NoRequest
        /\ current' = current /\ system_state' = "degraded"
    BY <1>7 DEF StartUncertain, StopFailed, ReconcileFailed, ShapeInv, IInv, WorkerPhase
  <2>2. ExclusiveGPU'
    BY <1>5, <2>1, OwnerContainersStay DEF SystemNext
  <2> QED BY <1>2, <2>1, <2>2 DEF NoStrayStart
<1> QED BY <1>3, <1>4, <1>6, <1>7 DEF CallReturns

\* While no call is made or ends, the engines and the owner stay as they are.
LEMMA QuietExclusive ==
  ASSUME SystemInv, [SystemNext]_systemVars, UNCHANGED engineVars,
         current' = current, worker' = worker, system_state' = system_state
  PROVE  ExclusiveGPU' /\ Accounted' /\ NoStrayStart'
<1> USE DEF SystemInv
<1>1. OwnerContainers' = OwnerContainers
  BY OwnerContainersStay
<1> QED
  BY <1>1 DEF engineVars, ExclusiveGPU, Accounted, Cleaning, NoStrayStart

\* A start or a stop begins: no engine runs before a start but for those
\* LateStart may bring, of which there are none, and before a stop only the
\* owner's do.
LEMMA BeginExclusive ==
  ASSUME SystemInv, PerformStart \/ PerformStop
  PROVE  ExclusiveGPU' /\ Accounted' /\ NoStrayStart'
<1> USE DEF SystemInv
<1>1. /\ worker = "loop" /\ system_state = "ready" /\ system_state' = "ready"
      /\ docker' = docker /\ pending' = pending
  BY DEF PerformStart, PerformStop, BeginStart, BeginStop
<1>2. pending = {}
  BY <1>1 DEF NoStrayStart
<1>3. NoStrayStart'
  BY <1>1, <1>2 DEF NoStrayStart
<1>4. CASE PerformStart
  <2>1. current = NoRequest
    BY <1>4 DEF PerformStart, BeginStart
  <2>2. \A c \in Containers : docker[c] # "running"
    BY <1>1, <2>1 DEF ExclusiveGPU, OwnerContainers
  <2> QED BY <1>1, <1>2, <1>3, <2>2 DEF ExclusiveGPU, Accounted
<1>5. CASE PerformStop
  <2>1. /\ current # NoRequest /\ current' = current
        /\ call' = StopCall(records[current].service)
    BY <1>5 DEF PerformStop, BeginStop
  <2>2. OwnerContainers' = OwnerContainers
    BY <1>5, <2>1, OwnerContainersStay DEF SystemNext
  <2>3. ExclusiveGPU'
    BY <1>1, <2>1, <2>2 DEF ExclusiveGPU
  <2>4. records[current].service \in Services
    BY <2>1 DEF ShapeInv, IInv, TypeOK, OwnerPhase, OwningStates, KnownServices
  <2>5. Elements(call'.todo) = OwnerContainers
    BY <2>1, <2>4, NewCalls DEF StopCall, Call, OwnerContainers
  <2>6. Accounted'
    BY <1>1, <2>2, <2>3, <2>5 DEF Accounted, ExclusiveGPU
  <2> QED BY <1>3, <2>3, <2>6
<1> QED BY <1>4, <1>5

\* Engines exit, and the daemon carries out a start that was given up: one
\* of the owner, known to the call or to a degraded dispatcher.
LEMMA DaemonExclusive ==
  ASSUME SystemInv, NEW c \in Containers, EngineExits(c) \/ LateStart(c), UNCHANGED vars
  PROVE  ExclusiveGPU' /\ Accounted' /\ NoStrayStart'
<1> USE DEF SystemInv
<1>1. /\ docker \in [Containers -> {"running", "stopped", "missing"}]
      /\ call' = call /\ OwnerContainers' = OwnerContainers
  BY DEF ShapeInv, SystemTypeOK, EngineExits, LateStart, vars, OwnerContainers
<1>2. CASE EngineExits(c)
  BY <1>1, <1>2 DEF EngineExits, ExclusiveGPU, Accounted, Cleaning, NoStrayStart, vars
<1>3. CASE LateStart(c)
  <2>1. /\ c \in pending /\ pending' = pending \ {c}
        /\ \A d \in Containers : docker'[d] = "running" => docker[d] = "running" \/ d = c
    BY <1>1, <1>3 DEF LateStart
  <2>2. ExclusiveGPU'
    BY <1>1, <2>1 DEF ExclusiveGPU, vars
  <2>3. NoStrayStart'
    BY <1>1, <2>1 DEF NoStrayStart, vars
  <2>4. (worker = "start" /\ call.startup = "ambiguous") \/ system_state = "degraded"
    BY <2>1 DEF NoStrayStart
  <2>5. system_state = "degraded" => call.step = "idle"
    <3>1. system_state = "degraded" => worker \in {"loop", "returned"}
      BY DEF ShapeInv, IInv, TypeOK, WorkerPhase
    <3> QED BY <3>1 DEF ShapeInv, CallOfWorker, CallShape
  <2>6. Accounted'
    BY <1>1, <2>4, <2>5 DEF Accounted, Cleaning, CleanupSteps
  <2> QED BY <2>2, <2>3, <2>6
<1> QED BY <1>2, <1>3

\* The new process reconciles everything, and nothing can come up behind it.
LEMMA CrashExclusive ==
  ASSUME SystemInv, Crash, ~StartsOutliveProcess
  PROVE  ExclusiveGPU' /\ Accounted' /\ NoStrayStart'
<1>1. /\ system_state' = "reconciling" /\ current' = NoRequest
      /\ call' = ReconcileCall /\ pending' = {}
  BY DEF Crash, Restart
<1>2. call'.todo = Reversed(Managed)
  BY <1>1 DEF ReconcileCall, Call
<1> QED
  BY <1>1, <1>2, NewCalls DEF ExclusiveGPU, Accounted, NoStrayStart

LEMMA ExclusiveStep ==
  ASSUME ~StartsOutliveProcess
  PROVE  SystemInv /\ [SystemNext]_systemVars => SystemInv'
<1> SUFFICES ASSUME SystemInv, [SystemNext]_systemVars
             PROVE  SystemInv'
  OBVIOUS
<1>1. ShapeInv'
  BY ShapeStep DEF SystemInv
<1>2. CASE HandlersAndWaits
  <2>1. /\ UNCHANGED engineVars
        /\ current' = current /\ worker' = worker /\ system_state' = system_state
    BY <1>2 DEF HandlersAndWaits, Command, Submit, Release, Cancel, RequestStop,
                CancelUnknown, WorkerWaits, Tick
  <2> QED BY <1>1, <2>1, QuietExclusive DEF SystemInv
<1>3. CASE UNCHANGED systemVars
  BY <1>1, <1>3, QuietExclusive DEF SystemInv, systemVars, vars
<1>4. CASE Engine
  BY <1>1, <1>4, CommandExclusive, DaemonExclusive DEF Engine, SystemInv
<1> QED
  BY <1>1, <1>2, <1>3, <1>4, BeginExclusive, ReturnExclusive, CrashExclusive
  DEF SystemNext, SystemInv

-----------------------------------------------------------------------------
(* Calls come to an end.                                                   *)

\* The commands a call may still make for its container, this attempt.
Rank ==
  [inspect |-> 4, start |-> 3, health |-> 2, recheck |-> 1,
   stop_inspect |-> 3, stop |-> 2, verify |-> 1, return |-> 0, idle |-> 0]

Winding(c) == c.step \in CleanupSteps \cup {"return"}

\* The call is nearer to its end: it has turned to its cleanup or, in the same
\* loop, has fewer containers to deal with, or fewer attempts left, or fewer
\* commands before the next attempt.
CallShrinks ==
  \/ ~Winding(call) /\ Winding(call')
  \/ /\ Winding(call) <=> Winding(call')
     /\ \/ Len(call'.todo) < Len(call.todo)
        \/ /\ call'.todo = call.todo
           /\ \/ call'.attempts < call.attempts
              \/ /\ call'.attempts = call.attempts
                 /\ Rank[call'.step] < Rank[call.step]

\* A call in progress is moved on by its own commands, each of which brings
\* it nearer to its end, and returns; only a new process drops it.
CallsMoveOn ==
  [][call.op # "none" /\ call' # call =>
       \/ CallShrinks
       \/ call.step = "return" /\ call' = NoCall
       \/ epoch' # epoch]_systemVars

LEMMA CommandShrinks ==
  ASSUME ShapeInv, CommandStep
  PROVE  CallShrinks
<1>1. call \in CallType /\ call.step \notin {"idle", "return"} /\ call.todo # <<>>
  BY CommandEffects DEF ShapeInv, SystemTypeOK, CommandEffect, CallShape
<1>2. /\ Len(Tail(call.todo)) < Len(call.todo)
      /\ Len(call.todo) = 1 => Len(<<>>) < Len(call.todo)
  BY <1>1 DEF CallType
<1>3. ASSUME NEW kind, StartupFails(kind), ~Winding(call)
      PROVE  CallShrinks
  BY <1>1, <1>3 DEF StartupFails, CallShrinks, Winding, CleanupSteps, CallType
<1>4. ASSUME NEW errors, StopNext(errors), call.step \in CleanupSteps
      PROVE  CallShrinks
  <2>1. /\ call'.todo = Tail(call.todo)
        /\ call'.step \in {"return", "stop_inspect"}
    BY <1>1, <1>4 DEF StopNext, CallType
  <2> QED BY <1>2, <1>4, <2>1 DEF CallShrinks, Winding, CleanupSteps
<1>5. ASSUME NEW step \in {"start", "health", "recheck", "stop", "verify"},
             call' = [call EXCEPT !.step = step],
             Rank[step] < Rank[call.step],
             step \in CleanupSteps <=> call.step \in CleanupSteps
      PROVE  CallShrinks
  <2>1. /\ call'.step = step /\ call'.todo = call.todo
        /\ call'.attempts = call.attempts
    BY <1>1, <1>5 DEF CallType
  <2> QED BY <1>1, <1>5, <2>1 DEF CallShrinks, Winding, CleanupSteps
<1>6. CASE InspectBeforeStart
  BY <1>3, <1>5, <1>6 DEF InspectBeforeStart, Rank, Winding, CleanupSteps
<1>7. CASE DockerStartSucceeds \/ DockerStartFails \/ DockerStartTimesOut
  BY <1>3, <1>5, <1>7
  DEF DockerStartSucceeds, DockerStartFails, DockerStartTimesOut, Rank, Winding, CleanupSteps
<1>8. CASE HealthCheckSucceeds
  <2>1. call.step = "health" /\ NextComponent
    BY <1>8 DEF HealthCheckSucceeds
  <2>2. CASE Len(call.todo) = 1
    <3>1. call'.step = "return"
      BY <1>1, <2>1, <2>2 DEF NextComponent, CallType
    <3> QED BY <2>1, <3>1 DEF CallShrinks, Winding, CleanupSteps
  <2>3. CASE Len(call.todo) # 1
    <3>1. call'.step = "inspect" /\ call'.todo = Tail(call.todo)
      BY <1>1, <2>1, <2>3 DEF NextComponent, CallType
    <3> QED BY <1>2, <2>1, <3>1 DEF CallShrinks, Winding, CleanupSteps
  <2> QED BY <2>2, <2>3
<1>9. CASE HealthCheckFails
  BY <1>5, <1>9 DEF HealthCheckFails, Rank, CleanupSteps
<1>10. CASE InspectAfterHealth
  <2>1. CASE StartupFails("failed")
    BY <1>3, <1>10, <2>1 DEF InspectAfterHealth, Winding, CleanupSteps
  <2>2. CASE call' = NextAttempt(call)
    <3>1. /\ call'.step = "health" /\ call'.todo = call.todo
          /\ call'.attempts = call.attempts - 1 /\ call.attempts \in Nat
      BY <1>1, <2>2, EngineAssumption DEF NextAttempt, CallType, EngineAssumption
    <3> QED BY <1>10, <3>1 DEF InspectAfterHealth, CallShrinks, Winding, CleanupSteps
  <2> QED BY <1>10, <2>1, <2>2 DEF InspectAfterHealth
<1>11. CASE InspectBeforeStop
  BY <1>4, <1>5, <1>11 DEF InspectBeforeStop, Rank, CleanupSteps
<1>12. CASE DockerStopSucceeds \/ DockerStopFails
  BY <1>4, <1>5, <1>12 DEF DockerStopSucceeds, DockerStopFails, Rank, CleanupSteps
<1>13. CASE InspectAfterStop
  BY <1>4, <1>13 DEF InspectAfterStop, CleanupSteps
<1> QED
  BY <1>6, <1>7, <1>8, <1>9, <1>10, <1>11, <1>12, <1>13 DEF CommandStep

-----------------------------------------------------------------------------
(* Theorems.                                                               *)

\* The composition is a lease machine: what GPUDispatcherProofs shows of the
\* dispatcher holds of it on top of the engine manager too.
THEOREM SystemIsDispatcher == SystemSpec => Spec
<1>1. SystemInit => Init
  BY DEF SystemInit
<1> QED BY <1>1, DispatcherStep, PTL DEF SystemSpec, Spec

\* So the service as deployed, engines and daemon included, implements the
\* lock with one holder that the Dispatcher promises its clients.
THEOREM SystemImplementsLease == SystemSpec => ImplementsLease
  BY SystemIsDispatcher, Refinement, PTL

\* Calls and containers keep their types, also the attempts of the health
\* loop, and also when a docker start outlives the process that gave it up.
THEOREM SystemTypes == SystemSpec => []SystemTypeOK
<1>1. ShapeInv => SystemTypeOK
  BY DEF ShapeInv
<1> QED BY <1>1, ShapeInit, ShapeStep, PTL DEF SystemSpec

\* A call of the worker ends: however the commands of start, stop and reconcile
\* turn out, each takes the call a step down a well-founded order, and nothing
\* else touches it but a new process.  What ReconcileEnds and OwnerLetsGo say
\* of a small instance rests on this, for any services and attempts.
THEOREM CallsAreFinite == SystemSpec => CallsMoveOn
<1> DEFINE MovesOn ==
      call.op # "none" /\ call' # call =>
        \/ CallShrinks
        \/ call.step = "return" /\ call' = NoCall
        \/ epoch' # epoch
<1>1. ShapeInv /\ [SystemNext]_systemVars => [MovesOn]_systemVars
  <2> SUFFICES ASSUME ShapeInv, SystemNext, call.op # "none", call' # call
               PROVE  \/ CallShrinks
                      \/ call.step = "return" /\ call' = NoCall
                      \/ epoch' # epoch
    BY DEF MovesOn
  <2>1. ~HandlersAndWaits
    BY DEF HandlersAndWaits, engineVars
  <2>2. ~PerformStart /\ ~PerformStop
    BY DEF PerformStart, PerformStop, BeginStart, BeginStop, ShapeInv, CallOfWorker
  <2>3. CallReturns => call.step = "return" /\ call' = NoCall
    BY DEF CallReturns, Returns
  <2>4. Engine => CallShrinks
    BY CommandShrinks DEF Engine, EngineExits, LateStart
  <2>5. Crash => epoch' # epoch
    BY DEF Crash, Restart, ShapeInv, IInv, TypeOK
  <2> QED BY <2>1, <2>2, <2>3, <2>4, <2>5 DEF SystemNext
<1> QED BY <1>1, ShapeInit, ShapeStep, PTL DEF SystemSpec, CallsMoveOn, MovesOn

\* The inductive invariant holds in every reachable state, if no docker start
\* takes effect after the process that gave it up.
THEOREM SystemInvariance ==
  ASSUME ~StartsOutliveProcess
  PROVE  SystemSpec => []SystemInv
  BY ExclusiveInit, ExclusiveStep, PTL DEF SystemSpec

\* One logical service has the GPU: start, stop, reconcile and the cleanup of
\* a failed start, interleaved with handlers, engines that exit, commands that
\* fail or time out and processes that die, let no container run, or be
\* started later, that is not the owner's.
THEOREM OneServiceHasTheGPU ==
  ASSUME ~StartsOutliveProcess
  PROVE  SystemSpec => []ExclusiveGPU
<1>1. SystemInv => ExclusiveGPU
  BY DEF SystemInv
<1> QED BY <1>1, SystemInvariance, PTL

\* _stop_components accounts for every container it leaves running.
THEOREM CleanupsAccount ==
  ASSUME ~StartsOutliveProcess
  PROVE  SystemSpec => []CleanupAccountsForAll
<1>1. SystemInv => CleanupAccountsForAll
  BY NoElements
  DEF SystemInv, ShapeInv, CallShape, Accounted, Cleaning, CleanupAccountsForAll
<1> QED BY <1>1, SystemInvariance, PTL

\* What late_start_overlap refutes for starts that outlive their process holds
\* without them: a dispatcher that reports ready never has engines of two
\* services running, through any number of restarts.
THEOREM NoOverlapOtherwise ==
  ASSUME ~StartsOutliveProcess
  PROVE  SystemSpec => []NoOverlap
<1>1. SystemInv => NoOverlap
  <2> SUFFICES ASSUME SystemInv, system_state = "ready"
               PROVE  \E s \in Services : \A c \in Containers :
                        docker[c] = "running" => c \in Elements(Components[s])
    BY DEF NoOverlap
  <2>1. \A c \in Containers : docker[c] = "running" => c \in OwnerContainers
    BY DEF SystemInv, ExclusiveGPU
  <2>2. CASE current = NoRequest
    <3>1. PICK s \in Services : TRUE
      BY EngineAssumption, SystemAssumption DEF EngineAssumption, SystemAssumption
    <3> QED BY <2>1, <2>2 DEF OwnerContainers
  <2>3. CASE current # NoRequest
    <3>1. records[current].service \in Services
      BY <2>3 DEF SystemInv, ShapeInv, IInv, TypeOK, OwnerPhase, OwningStates, KnownServices
    <3> QED BY <2>1, <2>3, <3>1 DEF OwnerContainers
  <2> QED BY <2>2, <2>3
<1> QED BY <1>1, SystemInvariance, PTL

=============================================================================
