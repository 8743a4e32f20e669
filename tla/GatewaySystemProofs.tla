------------------------ MODULE GatewaySystemProofs ------------------------
(***************************************************************************)
(* Theorems about GatewaySystem, for any requests and services and for any *)
(* budgets that satisfy GatewayAssumption.                                 *)
(***************************************************************************)
EXTENDS GatewaySystem, GPUDispatcherSteps, FiniteSetTheorems

-----------------------------------------------------------------------------
(* The inductive invariant.                                                *)

UnderWay(kind, r) == \E m \in net : m.kind = kind /\ m.req = r

\* The commands of a request on the network: one of a kind, no older than
\* CommandLifetime, and sent by a task that has not gone back since.  A task
\* that was answered has no command of that kind left there.
Messages(r) ==
  /\ \A m, n \in net : m.req = r /\ n.req = r /\ m.kind = n.kind => m = n
  /\ \A m \in net : m.req = r => m.ttl <= CommandLifetime
  /\ UnderWay("acquire", r) =>
       /\ task[r].pc \in {"acquiring", "cancelling", "ended"}
       /\ task[r].pc = "acquiring" => task[r].reply = "none"
       /\ ~UnderWay("release", r)
  /\ UnderWay("cancel", r) =>
       task[r].pc \in {"cancelling", "ended"} /\ task[r].reply # "ok"
  /\ UnderWay("release", r) =>
       task[r].pc \in {"releasing", "ended"} /\ task[r].reply # "ok"

\* Timeouts count down from their budgets, a task has its epoch from the
\* Dispatcher, and a result is only ever given by a release.
TaskShape(r) ==
  /\ task[r].pc \in {"acquiring", "polling", "cancelling", "releasing"} =>
       task[r].left <= RequestTimeout
  /\ task[r].pc = "inferring" => task[r].left <= InferenceTimeout
  /\ task[r].epoch <= epoch
  /\ task[r].status = "ok" =>
       task[r].pc = "releasing" \/ (task[r].pc = "ended" /\ task[r].reply = "ok")

\* Nobody but its task asks for a lease: none before the admission was sent,
\* and as long as it is under way at most the refusal its cancel has left.
\* The refusal a cancel was acknowledged with outlives the admission.
NotAdmitted(r) ==
  /\ task[r].pc \in {"new", "receiving", "admitted"} => records[r].state = "absent"
  /\ UnderWay("acquire", r) /\ Current(r) =>
       /\ records[r].state \in {"absent", "cancelled"}
       /\ task[r].pc = "acquiring" \/ UnderWay("cancel", r) => records[r].state = "absent"
       /\ task[r].reply = "ok" =>
            /\ records[r].state = "cancelled"
            /\ \A m \in net : m.kind = "acquire" /\ m.req = r => m.ttl < records[r].left

\* A lease that is active outlives the wait of its task and the inference.
\* One that a poll found waiting was activated after that poll was served,
\* so it has the time of one more poll as well.
Held(r) ==
  Current(r) =>
    /\ task[r].pc = "inferring" =>
         records[r].state = "active" /\ records[r].left > task[r].left
    /\ task[r].pc \in {"acquiring", "polling"} =>
         /\ task[r].reply = "active" => records[r].state = "active"
         /\ records[r].state = "active" =>
              records[r].left > InferenceTimeout + task[r].left
         /\ records[r].state = "active" /\ task[r].reply \in {"queued", "starting", "stopping"} =>
              records[r].left > InferenceTimeout + RequestTimeout + task[r].left

\* What an acknowledged cancel or release leaves of a lease.
Acknowledged(r) ==
  Current(r) /\ task[r].reply = "ok" /\ task[r].pc \in {"cancelling", "releasing", "ended"} =>
    /\ records[r].state \notin {"queued", "active"}
    /\ records[r].state = "starting" => records[r].cancel_requested

\* A lease that was used does not start again.
Used(r) ==
  Current(r) /\ (task[r].pc = "releasing" \/ (task[r].pc = "ended" /\ task[r].status = "ok")) =>
    /\ records[r].state \notin {"queued", "starting"}
    /\ ~UnderWay("acquire", r)

RequestInv(r) ==
  /\ Messages(r)
  /\ TaskShape(r)
  /\ NotAdmitted(r)
  /\ Held(r)
  /\ Acknowledged(r)
  /\ Used(r)

GatewayInv ==
  /\ IInv
  /\ GatewayTypeOK
  /\ SlotsMatchTasks
  /\ \A r \in Requests : RequestInv(r)

-----------------------------------------------------------------------------
(* The dispatcher in the composition.                                      *)

\* What happens to the lease of r when no command of r is carried out.
Drift(r) ==
  \/ records'[r] = records[r]
  \/ /\ records[r].state \in TerminalStates
     /\ records[r].left = 0
     /\ records'[r].state = "absent"
  \/ /\ records[r].state = "queued"
     /\ records'[r].state \in {"expired", "starting"}
  \/ /\ records[r].state = "starting"
     /\ ~records[r].cancel_requested
     /\ records'[r].state = "active"
     /\ records'[r].left = ActiveTimeout
  \/ /\ records[r].state = "starting"
     /\ records'[r].state \in {"stopping", "failed"}
  \/ /\ records[r].state = "active"
     /\ records[r].left = 0
     /\ records'[r].state = "stopping"
  \/ /\ records[r].state = "stopping"
     /\ records'[r].state \in TerminalStates

LEMMA PrunedDrift ==
  ASSUME TypeOK, NEW r \in Requests, records'[r] = Pruned(records)[r]
  PROVE  Drift(r)
  BY PrunedPointwise DEF Drift, NoLease

LEMMA HousekeptDrift ==
  ASSUME TypeOK, NEW r \in Requests, records'[r] = Housekept[r]
  PROVE  Drift(r)
<1>1. MarkTerminal(records[r], "expired").state = "expired"
  BY DEF TypeOK, MarkTerminal, LeaseRecord
<1> QED BY <1>1, HousekeptPointwise DEF Drift, NoLease

LEMMA TurnDrift ==
  ASSUME IInv, WorkerTurn, NEW r \in Requests
  PROVE  Drift(r)
<1> USE DEF IInv
<1>0. TypeOK /\ Housekept \in [Requests -> LeaseRecord]
  BY HousekeptPointwise
<1>1. CASE WorkerReturns
  BY <1>1 DEF WorkerReturns, Drift
<1>2. CASE WorkerWaits
  BY <1>0, <1>2, HousekeptDrift DEF WorkerWaits
<1>3. CASE BeginStart
  <2>1. PICK i \in DOMAIN queue :
          /\ IsNextQueued(Housekept, i)
          /\ records' = [Housekept EXCEPT ![queue[i]].state = "starting",
                                          ![queue[i]].left = 0]
    BY <1>3 DEF BeginStart
  <2>2. queue[i] \in Requests
    BY <1>0 DEF TypeOK
  <2>3. CASE r = queue[i]
    <3>1. Housekept[r].state = "queued" /\ records'[r].state = "starting"
      BY <1>0, <2>1, <2>2, <2>3 DEF IsNextQueued, LeaseRecord
    <3>2. records[r].state = "queued"
      BY <1>0, <3>1, HousekeptStates
    <3> QED BY <3>1, <3>2 DEF Drift
  <2>4. CASE r # queue[i]
    BY <1>0, <2>1, <2>2, <2>4, HousekeptDrift
  <2> QED BY <2>3, <2>4
<1>4. CASE BeginStop
  <2>1. /\ current \in Requests /\ records[current].state \in OwningStates
        /\ Housekept[current] = records[current] /\ MustStop(Housekept[current])
    BY <1>0, <1>4, HousekeptStates DEF BeginStop, TypeOK, OwnerPhase
  <2>2. CASE r = current
    <3>1. CASE DeadlinePassed(records[r])
      <4>1. records'[r].state = "stopping"
        BY <1>0, <1>4, <2>1, <2>2, <3>1 DEF BeginStop, LeaseRecord
      <4> QED BY <3>1, <4>1 DEF DeadlinePassed, Drift
    <3>2. CASE ~DeadlinePassed(records[r])
      BY <1>0, <1>4, <2>1, <2>2, <3>2 DEF BeginStop, Drift
    <3> QED BY <3>1, <3>2
  <2>3. CASE r # current
    BY <1>0, <1>4, <2>1, <2>3, HousekeptDrift DEF BeginStop
  <2> QED BY <2>2, <2>3
<1> QED BY <1>1, <1>2, <1>3, <1>4 DEF WorkerTurn

LEMMA EngineReturnsDrift ==
  ASSUME IInv, EngineReturns, NEW r \in Requests
  PROVE  Drift(r)
<1> USE DEF IInv
<1>1. /\ records \in [Requests -> LeaseRecord]
      /\ worker \in {"start", "stop"} => current \in Requests
  BY DEF TypeOK, WorkerPhase
<1>2. CASE UNCHANGED records
  BY <1>2 DEF Drift
<1>3. CASE StartSucceeded
  <2>1. current \in Requests /\ records[current].state = "starting"
    BY <1>1, <1>3 DEF StartSucceeded, WorkerPhase
  <2>2. /\ records[current].cancel_requested => Started(records[current]).state = "stopping"
        /\ ~records[current].cancel_requested =>
             /\ Started(records[current]).state = "active"
             /\ Started(records[current]).left = ActiveTimeout
    BY <1>1, <2>1 DEF Started, LeaseRecord
  <2>3. records' = [records EXCEPT ![current] = Started(records[current])]
    BY <1>3 DEF StartSucceeded
  <2> QED BY <1>1, <2>1, <2>2, <2>3 DEF Drift
<1>4. CASE StartFailed \/ StartUncertain
  <2>1. current \in Requests /\ records[current].state = "starting"
    BY <1>1, <1>4 DEF StartFailed, StartUncertain, WorkerPhase
  <2>2. MarkTerminal(records[current], "failed").state = "failed"
    BY <1>1, <2>1 DEF MarkTerminal, LeaseRecord
  <2>3. records' = [records EXCEPT ![current] = MarkTerminal(records[current], "failed")]
    BY <1>4 DEF StartFailed, StartUncertain
  <2> QED BY <1>1, <2>1, <2>2, <2>3 DEF Drift
<1>5. CASE StopSucceeded
  <2>1. current \in Requests /\ records[current].state = "stopping"
    BY <1>1, <1>5 DEF StopSucceeded, WorkerPhase
  <2>2. PICK state \in TerminalStates :
          records' = [records EXCEPT ![current] = MarkTerminal(records[current], state)]
    BY <1>1, <1>5, <2>1 DEF StopSucceeded, LeaseRecord, TerminalStates
  <2>3. MarkTerminal(records[current], state).state = state
    BY <1>1, <2>1 DEF MarkTerminal, LeaseRecord
  <2> QED BY <1>1, <2>1, <2>2, <2>3 DEF Drift
<1> QED
  BY <1>2, <1>3, <1>4, <1>5
  DEF EngineReturns, ReconcileSucceeded, ReconcileFailed, StopFailed

\* A command of one request does not touch the lease of another.
LEMMA OthersDrift ==
  ASSUME IInv, NEW r \in Requests, NEW q \in Requests, q # r, NEW service, NEW e,
         \/ \E wait : Submit(service, r, e, wait)
         \/ Release(service, r, e)
         \/ Cancel(service, r, e)
         \/ CancelUnknown(service, r, e)
  PROVE  Drift(q)
<1>0. TypeOK
  BY DEF IInv
<1>1. ASSUME NEW lease, \/ records' = Pruned(records)
                        \/ records' = [Pruned(records) EXCEPT ![r] = lease]
      PROVE  Drift(q)
  <2>1. records'[q] = Pruned(records)[q]
    BY <1>0, <1>1, PrunedPointwise
  <2> QED BY <1>0, <2>1, PrunedDrift
<1>2. ASSUME NEW lease, records' = [records EXCEPT ![r] = lease]
      PROVE  Drift(q)
  BY <1>0, <1>2 DEF TypeOK, Drift
<1> QED
  BY <1>1, <1>2 DEF Submit, Release, Cancel, RequestStop, CancelUnknown

\* Every step is a step of GPUDispatcher or leaves it alone.
LEMMA DispatcherStep ==
  ASSUME IInv, [GatewayNext]_gatewayVars
  PROVE  [Next]_vars
<1>0. epoch \in Nat /\ records \in [Requests -> LeaseRecord]
  BY DEF IInv, TypeOK
<1>1. CASE ClientStep
  BY <1>1 DEF ClientStep
<1>2. ASSUME NEW r \in Requests, AskReady(r) \/ ServePoll(r)
      PROVE  UNCHANGED vars
  BY <1>2 DEF AskReady, ServePoll
<1>3. ASSUME NEW r \in Requests, ServeAcquire(r) \/ ServeCancel(r) \/ ServeRelease(r),
             ~UNCHANGED vars
      PROVE  Command
  <2>1. /\ ServiceOf[r] \in Services \cup {UnknownService}
        /\ QueueWait \in 0..(MaxQueueWait + 1)
    BY GatewayAssumption, DispatcherAssumption DEF GatewayAssumption, DispatcherAssumption
  <2>2. \/ Submit(ServiceOf[r], r, task[r].epoch, QueueWait)
        \/ Cancel(ServiceOf[r], r, task[r].epoch)
        \/ CancelUnknown(ServiceOf[r], r, task[r].epoch)
        \/ Release(ServiceOf[r], r, task[r].epoch)
    BY <1>3 DEF ServeAcquire, ServeCancel, ServeRelease
  <2>3. task[r].epoch \in 0..epoch
    BY <1>0, <2>2 DEF Submit, Cancel, Release, RequestStop, CancelUnknown, ValidEpoch
  <2> QED BY <2>1, <2>2, <2>3 DEF Command
<1>4. CASE Lifecycle
  BY <1>4 DEF Lifecycle, Next
<1>5. CASE GatewayTick
  <2>1. CASE \E r \in Requests : records[r].left > 0
    BY <1>5, <2>1 DEF GatewayTick, Tick, Next
  <2>2. CASE ~\E r \in Requests : records[r].left > 0
    <3>1. \A r \in Requests : Aged(records[r]) = records[r]
      BY <1>0, <2>2 DEF Aged, LeaseRecord
    <3>2. records' = records
      BY <1>0, <1>5, <3>1 DEF GatewayTick
    <3> QED BY <1>5, <3>2 DEF GatewayTick, vars
  <2> QED BY <2>1, <2>2
<1>6. CASE UNCHANGED gatewayVars
  BY <1>6 DEF gatewayVars
<1> QED
  BY <1>1, <1>2, <1>3, <1>4, <1>5, <1>6 DEF GatewayNext, Serve, Next

-----------------------------------------------------------------------------
(* The network.                                                            *)

\* A command of r is sent: it is the only one of its kind.
LEMMA SendFacts ==
  ASSUME NEW r \in Requests, Messages(r), NEW k \in Commands, ~UnderWay(k, r),
         net' = net \cup {Sent(k, r)}
  PROVE  /\ \A kind : UnderWay(kind, r)' <=> UnderWay(kind, r) \/ kind = k
         /\ \A m, n \in net' : m.req = r /\ n.req = r /\ m.kind = n.kind => m = n
         /\ \A m \in net' : m.req = r => m.ttl <= CommandLifetime
         /\ \A m \in net' : m.req # r => m \in net
         /\ \A m \in net' : m.kind # k => m \in net
<1>1. Sent(k, r).kind = k /\ Sent(k, r).req = r /\ Sent(k, r).ttl = CommandLifetime
  BY DEF Sent
<1>2. CommandLifetime <= CommandLifetime
  BY ClientAssumption DEF ClientAssumption
<1> QED BY <1>1, <1>2 DEF Messages, UnderWay

\* A command of r is taken off: there is no other of its kind.
LEMMA TakeFacts ==
  ASSUME NEW r \in Requests, Messages(r), NEW k, Take(k, r)
  PROVE  /\ \A kind : UnderWay(kind, r)' <=> UnderWay(kind, r) /\ kind # k
         /\ UnderWay(k, r)
         /\ \A m, n \in net' : m.req = r /\ n.req = r /\ m.kind = n.kind => m = n
         /\ \A m \in net' : m.req = r => m.ttl <= CommandLifetime
         /\ \A m \in net' : m \in net
<1>1. PICK m \in net : m.kind = k /\ m.req = r /\ net' = net \ {m}
  BY DEF Take
<1> QED BY <1>1 DEF Messages, UnderWay

-----------------------------------------------------------------------------
(* The other requests of a step.                                           *)

\* A request whose task and commands are left alone keeps its invariant,
\* also when commands of it are lost, and whatever the worker and the
\* commands of others do to its lease.
LEMMA DriftKeeps ==
  ASSUME GatewayInv, NEW r \in Requests, task'[r] = task[r], epoch' = epoch,
         Drift(r), \A m \in net' : m.req = r => m \in net
  PROVE  RequestInv(r)'
<1> USE DEF GatewayInv
<1>1. /\ task[r] \in TaskType /\ records[r] \in LeaseRecord
      /\ net \subseteq [kind : Commands, req : Requests, ttl : Nat]
  BY DEF GatewayTypeOK, TypeOK
<1>2. /\ Messages(r) /\ TaskShape(r) /\ NotAdmitted(r)
      /\ Held(r) /\ Acknowledged(r) /\ Used(r)
  BY DEF RequestInv
<1>3. \A kind : UnderWay(kind, r)' => UnderWay(kind, r)
  BY DEF UnderWay
<1>4. Current(r)' <=> Current(r)
  BY DEF Current, ValidEpoch
<1>5. Messages(r)'
  BY <1>2, <1>3 DEF Messages
<1>6. TaskShape(r)'
  BY <1>2 DEF TaskShape
<1>7. NotAdmitted(r)'
  <2>1. task[r].pc \in {"new", "receiving", "admitted"} => records'[r].state = "absent"
    BY <1>2 DEF NotAdmitted, Drift, TerminalStates
  <2>2. ASSUME UnderWay("acquire", r)', Current(r)
        PROVE  /\ records'[r].state \in {"absent", "cancelled"}
               /\ task[r].pc = "acquiring" \/ UnderWay("cancel", r)' =>
                    records'[r].state = "absent"
               /\ task[r].reply = "ok" =>
                    /\ records'[r].state = "cancelled"
                    /\ \A m \in net' :
                         m.kind = "acquire" /\ m.req = r => m.ttl < records'[r].left
    <3>1. PICK m \in net : m.kind = "acquire" /\ m.req = r /\ m.ttl >= 0
      BY <1>1, <2>2 DEF UnderWay
    <3>2. UnderWay("acquire", r)
      BY <3>1 DEF UnderWay
    <3>3. \/ records'[r] = records[r]
          \/ records[r].left = 0 /\ records'[r].state = "absent" /\ records[r].state = "cancelled"
      BY <1>2, <2>2, <3>2 DEF NotAdmitted, Drift, TerminalStates
    <3>4. CASE records'[r] = records[r]
      BY <1>2, <1>3, <2>2, <3>2, <3>4 DEF NotAdmitted
    <3>5. CASE records[r].left = 0 /\ records'[r].state = "absent"
      BY <1>1, <1>2, <2>2, <3>1, <3>2, <3>5 DEF NotAdmitted
    <3> QED BY <3>3, <3>4, <3>5
  <2> QED BY <1>4, <2>1, <2>2 DEF NotAdmitted
<1>8. Held(r)'
  <2> USE GatewayAssumption, ClientAssumption DEF GatewayAssumption, ClientAssumption
  <2> SUFFICES ASSUME Current(r)
               PROVE  /\ task[r].pc = "inferring" =>
                           records'[r].state = "active" /\ records'[r].left > task[r].left
                      /\ task[r].pc \in {"acquiring", "polling"} =>
                           /\ task[r].reply = "active" => records'[r].state = "active"
                           /\ records'[r].state = "active" =>
                                records'[r].left > InferenceTimeout + task[r].left
                           /\ records'[r].state = "active"
                              /\ task[r].reply \in {"queued", "starting", "stopping"} =>
                                records'[r].left > InferenceTimeout + RequestTimeout + task[r].left
    BY <1>4 DEF Held
  <2>1. task[r].left \in Nat /\ records[r].left \in Nat
    BY <1>1 DEF TaskType, LeaseRecord
  <2>2. CASE records'[r] = records[r]
    BY <1>2, <2>2 DEF Held
  <2>3. CASE records[r].state = "starting"
    <3>1. ActiveTimeout > InferenceTimeout + RequestTimeout + task[r].left
          \/ ~task[r].pc \in {"acquiring", "polling"}
      BY <1>2, <2>1, DispatcherAssumption DEF TaskShape, DispatcherAssumption
    <3>2. \/ records'[r].state # "active"
          \/ records'[r].state = "active" /\ records'[r].left = ActiveTimeout
      BY <2>3 DEF Drift, TerminalStates
    <3> QED BY <1>2, <2>1, <2>3, <3>1, <3>2, DispatcherAssumption DEF Held, DispatcherAssumption
  <2>4. CASE records'[r] # records[r] /\ records[r].state # "starting"
    BY <1>2, <2>1, <2>4 DEF Held, Drift, TerminalStates
  <2> QED BY <2>2, <2>3, <2>4
<1>9. Acknowledged(r)'
  BY <1>2, <1>4 DEF Acknowledged, Drift, TerminalStates
<1>10. Used(r)'
  BY <1>2, <1>3, <1>4 DEF Used, Drift, TerminalStates
<1> QED BY <1>5, <1>6, <1>7, <1>8, <1>9, <1>10 DEF RequestInv

\* A step of one request: what is left to show is about that request.
LEMMA OneRequest ==
  ASSUME GatewayInv, NEW r \in Requests, epoch' = epoch, RequestInv(r)',
         \A q \in Requests : q # r => task'[q] = task[q] /\ Drift(q),
         \A m \in net' : m.req # r => m \in net
  PROVE  \A q \in Requests : RequestInv(q)'
<1> SUFFICES ASSUME NEW q \in Requests, q # r
             PROVE  RequestInv(q)'
  OBVIOUS
<1> QED BY DriftKeeps

-----------------------------------------------------------------------------
(* The task of a request.                                                  *)

\* The task of r, and nobody else's, goes on.
TaskBecomes(r, pc, e, reply, left, status) ==
  /\ \A q \in Requests : q # r => task'[q] = task[q]
  /\ task'[r] = [pc |-> pc, epoch |-> e, reply |-> reply, left |-> left, status |-> status]
  /\ task' \in [Requests -> TaskType]

\* What the invariant says of one request, with its parts in sight.
RequestParts(r) ==
  /\ task[r] \in TaskType /\ records[r] \in LeaseRecord
  /\ Messages(r) /\ TaskShape(r) /\ NotAdmitted(r)
  /\ Held(r) /\ Acknowledged(r) /\ Used(r)

LEMMA Parts ==
  ASSUME GatewayInv, NEW r \in Requests
  PROVE  RequestParts(r)
  BY DEF GatewayInv, GatewayTypeOK, TypeOK, RequestInv, RequestParts

\* The code of a task only changes that task.
LEMMA Becomes ==
  ASSUME GatewayInv, NEW r \in Requests, NEW t \in TaskType,
         task' = [task EXCEPT ![r] = t]
  PROVE  TaskBecomes(r, t.pc, t.epoch, t.reply, t.left, t.status)
<1>1. task \in [Requests -> TaskType]
  BY DEF GatewayInv, GatewayTypeOK
<1>2. t = [pc |-> t.pc, epoch |-> t.epoch, reply |-> t.reply, left |-> t.left, status |-> t.status]
  BY DEF TaskType
<1> QED BY <1>1, <1>2 DEF TaskBecomes

\* The request comes, or is turned away.
LEMMA ArriveOwn ==
  ASSUME GatewayInv, NEW r \in Requests, UNCHANGED <<vars, net>>,
         task[r].pc \in {"new", "receiving", "admitted"},
         NEW pc \in {"receiving", "admitted", "ended"}, NEW reply, NEW left,
         TaskBecomes(r, pc, task[r].epoch, reply, left, "error")
  PROVE  RequestInv(r)'
<1>1. RequestParts(r)
  BY Parts
<1>2. /\ \A kind : UnderWay(kind, r)' <=> UnderWay(kind, r)
      /\ records' = records /\ epoch' = epoch /\ net' = net
  BY DEF UnderWay, vars
<1>3. ~UnderWay("acquire", r) /\ ~UnderWay("cancel", r) /\ ~UnderWay("release", r)
  BY <1>1 DEF RequestParts, Messages
<1>4. /\ task'[r].pc = pc /\ task'[r].epoch = task[r].epoch /\ task'[r].status = "error"
      /\ records[r].state = "absent"
  BY <1>1 DEF TaskBecomes, RequestParts, NotAdmitted
<1>5. Messages(r)'
  BY <1>1, <1>2, <1>3 DEF Messages, RequestParts
<1>6. TaskShape(r)'
  BY <1>1, <1>2, <1>4 DEF TaskShape, RequestParts
<1>7. NotAdmitted(r)' /\ Held(r)' /\ Acknowledged(r)' /\ Used(r)'
  BY <1>2, <1>3, <1>4 DEF NotAdmitted, Held, Acknowledged, Used
<1> QED BY <1>5, <1>6, <1>7 DEF RequestInv

\* The admission is sent.
LEMMA AcquireOwn ==
  ASSUME GatewayInv, NEW r \in Requests, AskReady(r)
  PROVE  RequestInv(r)' /\ TaskBecomes(r, "acquiring", epoch, "none", RequestTimeout, "error")
<1>1. RequestParts(r) /\ epoch \in Nat /\ RequestTimeout \in Nat
  BY Parts, ClientAssumption DEF GatewayInv, IInv, TypeOK, ClientAssumption
<1>2. TaskBecomes(r, "acquiring", epoch, "none", RequestTimeout, "error")
  <2>1. Task("acquiring", epoch, RequestTimeout) \in TaskType
    BY <1>1 DEF Task, TaskType, Awaits
  <2> QED BY <2>1, Becomes DEF AskReady, SendAcquire, Task
<1>3. ~UnderWay("acquire", r) /\ ~UnderWay("cancel", r) /\ ~UnderWay("release", r)
  BY <1>1 DEF RequestParts, Messages, AskReady, SendAcquire
<1>4. records' = records /\ epoch' = epoch /\ records[r].state = "absent"
  BY <1>1 DEF AskReady, SendAcquire, vars, RequestParts, NotAdmitted
<1>5. /\ \A kind : UnderWay(kind, r)' <=> UnderWay(kind, r) \/ kind = "acquire"
      /\ \A m, n \in net' : m.req = r /\ n.req = r /\ m.kind = n.kind => m = n
      /\ \A m \in net' : m.req = r => m.ttl <= CommandLifetime
  BY <1>1, <1>3, SendFacts DEF AskReady, SendAcquire, RequestParts, Commands
<1>6. Messages(r)'
  BY <1>2, <1>3, <1>5 DEF Messages, TaskBecomes
<1>7. TaskShape(r)'
  BY <1>1, <1>2, <1>4 DEF TaskShape, TaskBecomes
<1>8. NotAdmitted(r)' /\ Held(r)' /\ Acknowledged(r)' /\ Used(r)'
  BY <1>2, <1>3, <1>4, <1>5 DEF NotAdmitted, Held, Acknowledged, Used, TaskBecomes
<1> QED BY <1>2, <1>6, <1>7, <1>8 DEF RequestInv

\* The best-effort cancel is sent.
LEMMA CancelOwn ==
  ASSUME GatewayInv, NEW r \in Requests, UNCHANGED vars,
         task[r].pc \in {"acquiring", "polling"}, SendCancel(r)
  PROVE  /\ RequestInv(r)'
         /\ TaskBecomes(r, "cancelling", task[r].epoch, "none", RequestTimeout, "error")
         /\ \A m \in net' : m.req # r => m \in net
<1>1. RequestParts(r) /\ RequestTimeout \in Nat
  BY Parts, ClientAssumption DEF ClientAssumption
<1>2. TaskBecomes(r, "cancelling", task[r].epoch, "none", RequestTimeout, "error")
  <2>1. Task("cancelling", task[r].epoch, RequestTimeout) \in TaskType
    BY <1>1 DEF Task, TaskType, Awaits, RequestParts
  <2> QED BY <2>1, Becomes DEF SendCancel, Task
<1>3. ~UnderWay("cancel", r) /\ ~UnderWay("release", r)
  BY <1>1 DEF RequestParts, Messages
<1>4. records' = records /\ epoch' = epoch
  BY DEF vars
<1>5. /\ \A kind : UnderWay(kind, r)' <=> UnderWay(kind, r) \/ kind = "cancel"
      /\ \A m, n \in net' : m.req = r /\ n.req = r /\ m.kind = n.kind => m = n
      /\ \A m \in net' : m.req = r => m.ttl <= CommandLifetime
      /\ \A m \in net' : m.req # r => m \in net
  BY <1>1, <1>3, SendFacts DEF SendCancel, RequestParts, Commands
<1>6. Messages(r)'
  BY <1>2, <1>3, <1>5 DEF Messages, TaskBecomes
<1>7. TaskShape(r)'
  BY <1>1, <1>2, <1>4 DEF TaskShape, TaskBecomes, RequestParts
<1>8. NotAdmitted(r)'
  <2>1. UnderWay("acquire", r) => task[r].pc = "acquiring"
    BY <1>1 DEF RequestParts, Messages
  <2>2. UnderWay("acquire", r) /\ Current(r) => records[r].state = "absent"
    BY <1>1, <2>1 DEF RequestParts, NotAdmitted
  <2> QED BY <1>2, <1>4, <1>5, <2>2 DEF NotAdmitted, TaskBecomes, Current, ValidEpoch
<1>9. Held(r)' /\ Acknowledged(r)' /\ Used(r)'
  BY <1>2 DEF Held, Acknowledged, Used, TaskBecomes
<1> QED BY <1>2, <1>5, <1>6, <1>7, <1>8, <1>9 DEF RequestInv

\* The lease is active and the task uses it: what it has left covers the
\* whole inference.
LEMMA InferOwn ==
  ASSUME GatewayInv, NEW r \in Requests, UNCHANGED <<vars, net>>,
         task[r].pc \in {"acquiring", "polling"}, task[r].reply = "active",
         task' = [task EXCEPT ![r] = Task("inferring", task[r].epoch, InferenceTimeout)]
  PROVE  /\ RequestInv(r)'
         /\ TaskBecomes(r, "inferring", task[r].epoch, "none", InferenceTimeout, "error")
<1>1. RequestParts(r) /\ InferenceTimeout \in Nat
  BY Parts, ClientAssumption DEF ClientAssumption
<1>2. TaskBecomes(r, "inferring", task[r].epoch, "none", InferenceTimeout, "error")
  <2>1. Task("inferring", task[r].epoch, InferenceTimeout) \in TaskType
    BY <1>1 DEF Task, TaskType, Awaits, RequestParts
  <2> QED BY <2>1, Becomes DEF Task
<1>3. ~UnderWay("acquire", r) /\ ~UnderWay("cancel", r) /\ ~UnderWay("release", r)
  BY <1>1 DEF RequestParts, Messages
<1>4. /\ records' = records /\ epoch' = epoch /\ net' = net
      /\ \A kind : UnderWay(kind, r)' <=> UnderWay(kind, r)
  BY DEF vars, UnderWay
<1>5. Messages(r)'
  BY <1>1, <1>3, <1>4 DEF Messages, RequestParts
<1>6. TaskShape(r)'
  BY <1>1, <1>2, <1>4 DEF TaskShape, TaskBecomes, RequestParts
<1>7. Held(r)'
  <2>1. Current(r) => records[r].state = "active" /\ records[r].left > InferenceTimeout
    <3>1. task[r].left \in Nat /\ records[r].left \in Nat
      BY <1>1 DEF RequestParts, TaskType, LeaseRecord
    <3> QED BY <1>1, <3>1 DEF RequestParts, Held
  <2> QED BY <1>2, <1>4, <2>1 DEF Held, TaskBecomes, Current, ValidEpoch
<1>8. NotAdmitted(r)' /\ Acknowledged(r)' /\ Used(r)'
  BY <1>2, <1>3, <1>4 DEF NotAdmitted, Acknowledged, Used, TaskBecomes
<1> QED BY <1>2, <1>5, <1>6, <1>7, <1>8 DEF RequestInv

\* The lease is not active yet and the task polls: if it has become active
\* since the answer was made, the next answer comes in time.
LEMMA PollOwn ==
  ASSUME GatewayInv, NEW r \in Requests, UNCHANGED <<vars, net>>,
         task[r].pc \in {"acquiring", "polling"},
         task[r].reply \in {"queued", "starting", "stopping"},
         task' = [task EXCEPT ![r] = Task("polling", task[r].epoch, RequestTimeout)]
  PROVE  /\ RequestInv(r)'
         /\ TaskBecomes(r, "polling", task[r].epoch, "none", RequestTimeout, "error")
<1>1. RequestParts(r) /\ RequestTimeout \in Nat /\ InferenceTimeout \in Nat
  BY Parts, ClientAssumption DEF ClientAssumption
<1>2. TaskBecomes(r, "polling", task[r].epoch, "none", RequestTimeout, "error")
  <2>1. Task("polling", task[r].epoch, RequestTimeout) \in TaskType
    BY <1>1 DEF Task, TaskType, Awaits, RequestParts
  <2> QED BY <2>1, Becomes DEF Task
<1>3. ~UnderWay("acquire", r) /\ ~UnderWay("cancel", r) /\ ~UnderWay("release", r)
  BY <1>1 DEF RequestParts, Messages
<1>4. /\ records' = records /\ epoch' = epoch /\ net' = net
      /\ \A kind : UnderWay(kind, r)' <=> UnderWay(kind, r)
  BY DEF vars, UnderWay
<1>5. Messages(r)'
  BY <1>1, <1>3, <1>4 DEF Messages, RequestParts
<1>6. TaskShape(r)'
  BY <1>1, <1>2, <1>4 DEF TaskShape, TaskBecomes, RequestParts
<1>7. Held(r)'
  <2>1. Current(r) /\ records[r].state = "active" =>
          records[r].left > InferenceTimeout + RequestTimeout
    <3>1. task[r].left \in Nat /\ records[r].left \in Nat
      BY <1>1 DEF RequestParts, TaskType, LeaseRecord
    <3> QED BY <1>1, <3>1 DEF RequestParts, Held
  <2> QED BY <1>2, <1>4, <2>1 DEF Held, TaskBecomes, Current, ValidEpoch
<1>8. NotAdmitted(r)' /\ Acknowledged(r)' /\ Used(r)'
  BY <1>2, <1>3, <1>4 DEF NotAdmitted, Acknowledged, Used, TaskBecomes
<1> QED BY <1>2, <1>5, <1>6, <1>7, <1>8 DEF RequestInv

\* The inference is over and the release is sent.
LEMMA ReleaseOwn ==
  ASSUME GatewayInv, NEW r \in Requests, UNCHANGED vars, InferenceEnds(r)
  PROVE  /\ RequestInv(r)'
         /\ \E status : TaskBecomes(r, "releasing", task[r].epoch, "none", RequestTimeout, status)
         /\ \A m \in net' : m.req # r => m \in net
<1>1. RequestParts(r) /\ RequestTimeout \in Nat /\ task[r].pc = "inferring"
  BY Parts, ClientAssumption DEF ClientAssumption, InferenceEnds
<1>2. PICK status \in {"ok", "error"} :
        TaskBecomes(r, "releasing", task[r].epoch, "none", RequestTimeout, status)
  <2>1. PICK status \in {"ok", "error"} :
          task' = [task EXCEPT ![r] = [Task("releasing", task[r].epoch, RequestTimeout)
                                         EXCEPT !.status = status]]
    BY DEF InferenceEnds
  <2>2. [Task("releasing", task[r].epoch, RequestTimeout) EXCEPT !.status = status] =
          [pc |-> "releasing", epoch |-> task[r].epoch, reply |-> "none",
           left |-> RequestTimeout, status |-> status]
    BY DEF Task
  <2>3. [Task("releasing", task[r].epoch, RequestTimeout) EXCEPT !.status = status] \in TaskType
    BY <1>1, <2>2 DEF TaskType, Awaits, RequestParts
  <2> QED BY <2>1, <2>2, <2>3, Becomes
<1>3. ~UnderWay("acquire", r) /\ ~UnderWay("cancel", r) /\ ~UnderWay("release", r)
  BY <1>1 DEF RequestParts, Messages
<1>4. records' = records /\ epoch' = epoch
  BY DEF vars
<1>5. /\ \A kind : UnderWay(kind, r)' <=> UnderWay(kind, r) \/ kind = "release"
      /\ \A m, n \in net' : m.req = r /\ n.req = r /\ m.kind = n.kind => m = n
      /\ \A m \in net' : m.req = r => m.ttl <= CommandLifetime
      /\ \A m \in net' : m.req # r => m \in net
  BY <1>1, <1>3, SendFacts DEF InferenceEnds, RequestParts, Commands
<1>6. Messages(r)'
  BY <1>2, <1>3, <1>5 DEF Messages, TaskBecomes
<1>7. TaskShape(r)'
  BY <1>1, <1>2, <1>4 DEF TaskShape, TaskBecomes, RequestParts
<1>8. NotAdmitted(r)' /\ Held(r)' /\ Acknowledged(r)'
  BY <1>2, <1>3, <1>5 DEF NotAdmitted, Held, Acknowledged, TaskBecomes
<1>9. Used(r)'
  <2>1. Current(r) => records[r].state = "active"
    BY <1>1 DEF RequestParts, Held
  <2> QED BY <1>2, <1>3, <1>4, <1>5, <2>1 DEF Used, TaskBecomes, Current, ValidEpoch
<1> QED BY <1>2, <1>5, <1>6, <1>7, <1>8, <1>9 DEF RequestInv

\* A handler that returns or raises.
LEMMA EndsTask ==
  ASSUME GatewayInv, NEW r \in Requests, NEW reply \in {"none", task[r].reply},
         NEW status \in {"ok", "error"}, Ends(r, reply, status)
  PROVE  TaskBecomes(r, "ended", task[r].epoch, reply, 0, status)
<1>1. RequestParts(r)
  BY Parts
<1> DEFINE t == [pc |-> "ended", epoch |-> task[r].epoch, reply |-> reply,
                 left |-> 0, status |-> status]
<1>2. [Task("ended", task[r].epoch, 0) EXCEPT !.reply = reply, !.status = status] = t
  <2> DEFINE u == [Task("ended", task[r].epoch, 0) EXCEPT !.reply = reply]
  <2>1. u = [pc |-> "ended", epoch |-> task[r].epoch, reply |-> reply,
             left |-> 0, status |-> "error"]
    BY DEF Task
  <2>2. [Task("ended", task[r].epoch, 0) EXCEPT !.reply = reply, !.status = status] =
          [u EXCEPT !.status = status]
    OBVIOUS
  <2> HIDE DEF u
  <2>3. [u EXCEPT !.status = status] = t
    BY <2>1
  <2> QED BY <2>2, <2>3
<1>3. t \in TaskType
  BY <1>1 DEF TaskType, RequestParts
<1> QED BY <1>2, <1>3, Becomes DEF Ends

\* The handler is through with its lease.
LEMMA CleanupOwn ==
  ASSUME GatewayInv, NEW r \in Requests, UNCHANGED vars, CleanupEnds(r)
  PROVE  /\ RequestInv(r)'
         /\ \E status : TaskBecomes(r, "ended", task[r].epoch, task[r].reply, 0, status)
<1>1. RequestParts(r) /\ task[r].pc \in {"cancelling", "releasing"}
  BY Parts DEF CleanupEnds
<1>2. PICK status \in {"ok", "error"} :
        /\ Ends(r, task[r].reply, status)
        /\ status = "ok" => task[r].reply = "ok" /\ task[r].status = "ok"
  <2>1. CASE task[r].reply = "ok"
    <3>1. task[r].status \in {"ok", "error"} /\ Ends(r, task[r].reply, task[r].status)
      BY <1>1, <2>1 DEF CleanupEnds, RequestParts, TaskType
    <3> QED BY <2>1, <3>1
  <2>2. CASE task[r].reply # "ok"
    BY <2>2 DEF CleanupEnds
  <2> QED BY <2>1, <2>2
<1>3. TaskBecomes(r, "ended", task[r].epoch, task[r].reply, 0, status)
  BY <1>2, EndsTask
<1>4. /\ records' = records /\ epoch' = epoch /\ net' = net
      /\ \A kind : UnderWay(kind, r)' <=> UnderWay(kind, r)
  BY DEF CleanupEnds, vars, UnderWay
<1>5. /\ task'[r].pc = "ended" /\ task'[r].epoch = task[r].epoch
      /\ task'[r].reply = task[r].reply
      /\ task'[r].status = "ok" => task[r].pc = "releasing" /\ task[r].reply = "ok"
  BY <1>1, <1>2, <1>3 DEF TaskBecomes, RequestParts, TaskShape
<1>6. Messages(r)'
  BY <1>1, <1>4, <1>5 DEF Messages, RequestParts
<1>7. TaskShape(r)'
  BY <1>1, <1>4, <1>5 DEF TaskShape, RequestParts
<1>8. NotAdmitted(r)'
  BY <1>1, <1>4, <1>5 DEF NotAdmitted, RequestParts, Current, ValidEpoch
<1>9. Held(r)' /\ Acknowledged(r)'
  BY <1>1, <1>4, <1>5 DEF Held, Acknowledged, RequestParts, Current, ValidEpoch
<1>10. Used(r)'
  BY <1>1, <1>4, <1>5 DEF Used, RequestParts, Current, ValidEpoch
<1> QED BY <1>3, <1>6, <1>7, <1>8, <1>9, <1>10 DEF RequestInv

-----------------------------------------------------------------------------
(* The steps of the tasks.                                                 *)

\* The part of the invariant that is not about the dispatcher alone.
ClientInv ==
  /\ task \in [Requests -> TaskType]
  /\ net \subseteq [kind : Commands, req : Requests, ttl : Nat]
  /\ SlotsMatchTasks
  /\ \A r \in Requests : RequestInv(r)

Served == {r \in Requests : task[r].pc \in Awaits}

\* One task goes on and the slot is taken, kept or given back.
LEMMA SlotsFollow ==
  ASSUME GatewayInv, NEW r \in Requests,
         \A q \in Requests : q # r => task'[q] = task[q],
         \/ (task'[r].pc \in Awaits <=> task[r].pc \in Awaits) /\ active' = active
         \/ task[r].pc \notin Awaits /\ task'[r].pc \in Awaits /\ active' = active + 1
         \/ task[r].pc \in Awaits /\ task'[r].pc \notin Awaits /\ active' = active - 1
  PROVE  SlotsMatchTasks'
<1>1. IsFiniteSet(Served)
  BY RequestsAssumption, FS_Subset DEF Served, RequestsAssumption
<1>2. active = Cardinality(Served) /\ active \in Nat
  BY DEF GatewayInv, GatewayTypeOK, SlotsMatchTasks, Served
<1>3. CASE (task'[r].pc \in Awaits <=> task[r].pc \in Awaits) /\ active' = active
  <2>1. Served' = Served
    BY <1>3 DEF Served
  <2> QED BY <1>2, <1>3, <2>1 DEF SlotsMatchTasks, Served
<1>4. CASE task[r].pc \notin Awaits /\ task'[r].pc \in Awaits /\ active' = active + 1
  <2>1. Served' = Served \cup {r} /\ r \notin Served
    BY <1>4 DEF Served
  <2>2. Cardinality(Served') = Cardinality(Served) + 1
    BY <1>1, <2>1, FS_AddElement
  <2> QED BY <1>2, <1>4, <2>2 DEF SlotsMatchTasks, Served
<1>5. CASE task[r].pc \in Awaits /\ task'[r].pc \notin Awaits /\ active' = active - 1
  <2>1. Served' = Served \ {r} /\ r \in Served
    BY <1>5 DEF Served
  <2>2. Cardinality(Served') = Cardinality(Served) - 1
    BY <1>1, <2>1, FS_RemoveElement
  <2> QED BY <1>2, <1>5, <2>2 DEF SlotsMatchTasks, Served
<1> QED BY <1>3, <1>4, <1>5

\* A step of one task, of which the network and the slots are left to see.
LEMMA TaskStepKeeps ==
  ASSUME GatewayInv, NEW r \in Requests, UNCHANGED vars,
         NEW pc, NEW e, NEW reply, NEW left, NEW status,
         TaskBecomes(r, pc, e, reply, left, status), RequestInv(r)',
         net' = net \/ \E k \in Commands : net' = net \cup {Sent(k, r)},
         \/ (pc \in Awaits <=> task[r].pc \in Awaits) /\ active' = active
         \/ task[r].pc \notin Awaits /\ pc \in Awaits /\ active' = active + 1
         \/ task[r].pc \in Awaits /\ pc \notin Awaits /\ active' = active - 1
  PROVE  ClientInv'
<1>1. \A k \in Commands : /\ Sent(k, r) \in [kind : Commands, req : Requests, ttl : Nat]
                          /\ Sent(k, r).req = r
  BY ClientAssumption DEF Sent, ClientAssumption
<1>2. net' \subseteq [kind : Commands, req : Requests, ttl : Nat]
  BY <1>1 DEF GatewayInv, GatewayTypeOK
<1>3. \A m \in net' : m.req # r => m \in net
  BY <1>1
<1>4. task'[r].pc = pc /\ \A q \in Requests : q # r => task'[q] = task[q]
  BY DEF TaskBecomes
<1>5. SlotsMatchTasks'
  BY <1>4, SlotsFollow
<1>6. epoch' = epoch /\ \A q \in Requests : Drift(q)
  BY DEF vars, Drift
<1>7. \A q \in Requests : RequestInv(q)'
  BY <1>3, <1>4, <1>6, OneRequest
<1> QED BY <1>2, <1>5, <1>7 DEF ClientInv, TaskBecomes

LEMMA ArriveKeeps ==
  ASSUME GatewayInv, NEW r \in Requests, UNCHANGED vars,
         Arrive(r) \/ Receive(r) \/ ReceiveFails(r) \/ Reject(r)
  PROVE  ClientInv'
<1>1. RequestParts(r)
  BY Parts
<1>2. /\ task[r].pc \in {"new", "receiving", "admitted"} /\ UNCHANGED net
      /\ task[r].status = "error"
  BY <1>1 DEF Arrive, Receive, ReceiveFails, Reject, RequestParts, TaskShape, TaskType
<1>3. ASSUME NEW pc \in {"receiving", "admitted", "ended"},
             task' = [task EXCEPT ![r].pc = pc]
      PROVE  /\ TaskBecomes(r, pc, task[r].epoch, task[r].reply, task[r].left, "error")
             /\ RequestInv(r)'
  <2>1. [task[r] EXCEPT !.pc = pc] =
          [pc |-> pc, epoch |-> task[r].epoch, reply |-> task[r].reply,
           left |-> task[r].left, status |-> "error"]
    BY <1>1, <1>2 DEF RequestParts, TaskType
  <2>2. [task[r] EXCEPT !.pc = pc] \in TaskType
    BY <1>1, <2>1 DEF RequestParts, TaskType, Awaits
  <2>3. TaskBecomes(r, pc, task[r].epoch, task[r].reply, task[r].left, "error")
    BY <1>3, <2>1, <2>2, Becomes
  <2> QED BY <1>2, <2>3, ArriveOwn
<1>4. ASSUME Ends(r, "none", "error")
      PROVE  /\ TaskBecomes(r, "ended", task[r].epoch, "none", 0, "error")
             /\ RequestInv(r)'
  BY <1>2, <1>4, EndsTask, ArriveOwn
<1>5. CASE Arrive(r)
  <2>1. CASE active >= MaxInflight /\ task' = [task EXCEPT ![r].pc = "ended"] /\ UNCHANGED active
    <3>1. TaskBecomes(r, "ended", task[r].epoch, task[r].reply, task[r].left, "error")
      BY <1>3, <2>1
    <3> QED BY <1>2, <1>3, <1>5, <2>1, <3>1, TaskStepKeeps DEF Arrive, Awaits
  <2>2. CASE task' = [task EXCEPT ![r].pc = "receiving"] /\ active' = active + 1
    <3>1. TaskBecomes(r, "receiving", task[r].epoch, task[r].reply, task[r].left, "error")
      BY <1>3, <2>2
    <3> QED BY <1>2, <1>3, <1>5, <2>2, <3>1, TaskStepKeeps DEF Arrive, Awaits
  <2> QED BY <1>5, <2>1, <2>2 DEF Arrive
<1>6. CASE Receive(r)
  <2>1. TaskBecomes(r, "admitted", task[r].epoch, task[r].reply, task[r].left, "error")
    BY <1>3, <1>6 DEF Receive
  <2> QED BY <1>2, <1>3, <1>6, <2>1, TaskStepKeeps DEF Receive, Awaits
<1>7. CASE ReceiveFails(r) \/ Reject(r)
  BY <1>2, <1>4, <1>7, TaskStepKeeps DEF ReceiveFails, Reject, Ends, Awaits
<1> QED BY <1>5, <1>6, <1>7

LEMMA LeaseTaskKeeps ==
  ASSUME GatewayInv, NEW r \in Requests, UNCHANGED vars,
         Answered(r) \/ GiveUp(r) \/ InferenceEnds(r) \/ CleanupEnds(r)
  PROVE  ClientInv'
<1>1. ASSUME SendCancel(r), task[r].pc \in {"acquiring", "polling"}, UNCHANGED active
      PROVE  ClientInv'
  <2>1. TaskBecomes(r, "cancelling", task[r].epoch, "none", RequestTimeout, "error")
        /\ RequestInv(r)'
    BY <1>1, CancelOwn
  <2> QED BY <1>1, <2>1, TaskStepKeeps DEF SendCancel, Commands, Awaits
<1>2. CASE Answered(r)
  <2>0. task[r].pc \in {"acquiring", "polling"} /\ UNCHANGED active
    BY <1>2 DEF Answered
  <2>1. CASE /\ task[r].reply = "active" /\ UNCHANGED net
             /\ task' = [task EXCEPT ![r] = Task("inferring", task[r].epoch, InferenceTimeout)]
    <3>1. TaskBecomes(r, "inferring", task[r].epoch, "none", InferenceTimeout, "error")
          /\ RequestInv(r)'
      BY <2>0, <2>1, InferOwn
    <3> QED BY <2>0, <2>1, <3>1, TaskStepKeeps DEF Awaits
  <2>2. CASE /\ task[r].reply \in {"queued", "starting", "stopping"} /\ UNCHANGED net
             /\ task' = [task EXCEPT ![r] = Task("polling", task[r].epoch, RequestTimeout)]
    <3>1. TaskBecomes(r, "polling", task[r].epoch, "none", RequestTimeout, "error")
          /\ RequestInv(r)'
      BY <2>0, <2>2, PollOwn
    <3> QED BY <2>0, <2>2, <3>1, TaskStepKeeps DEF Awaits
  <2>3. CASE SendCancel(r)
    BY <1>1, <2>0, <2>3
  <2> QED BY <1>2, <2>1, <2>2, <2>3 DEF Answered
<1>3. CASE GiveUp(r)
  BY <1>1, <1>3 DEF GiveUp
<1>4. CASE InferenceEnds(r)
  <2>1. PICK status :
          TaskBecomes(r, "releasing", task[r].epoch, "none", RequestTimeout, status)
    BY <1>4, ReleaseOwn
  <2>2. RequestInv(r)'
    BY <1>4, ReleaseOwn
  <2> QED BY <1>4, <2>1, <2>2, TaskStepKeeps DEF InferenceEnds, Commands, Awaits
<1>5. CASE CleanupEnds(r)
  <2>1. PICK status : TaskBecomes(r, "ended", task[r].epoch, task[r].reply, 0, status)
    BY <1>5, CleanupOwn
  <2>2. RequestInv(r)'
    BY <1>5, CleanupOwn
  <2> QED BY <1>5, <2>1, <2>2, TaskStepKeeps DEF CleanupEnds, Ends, Awaits
<1> QED BY <1>2, <1>3, <1>4, <1>5

LEMMA AskReadyKeeps ==
  ASSUME GatewayInv, NEW r \in Requests, AskReady(r)
  PROVE  ClientInv'
<1>1. RequestInv(r)' /\ TaskBecomes(r, "acquiring", epoch, "none", RequestTimeout, "error")
  BY AcquireOwn
<1> QED BY <1>1, TaskStepKeeps DEF AskReady, SendAcquire, Commands, Awaits

LEMMA GatewayCrashKeeps ==
  ASSUME GatewayInv, GatewayCrash, UNCHANGED vars
  PROVE  ClientInv'
<1>1. /\ task \in [Requests -> TaskType] /\ net' = net /\ records' = records /\ epoch' = epoch
      /\ net \subseteq [kind : Commands, req : Requests, ttl : Nat]
  BY DEF GatewayInv, GatewayTypeOK, GatewayCrash, vars
<1>2. \A r \in Requests : Task("ended", task[r].epoch, 0) \in TaskType
  BY <1>1 DEF Task, TaskType
<1>3. task' \in [Requests -> TaskType]
  BY <1>1, <1>2 DEF GatewayCrash
<1>4. SlotsMatchTasks'
  <2>1. Served' = {}
    BY DEF GatewayCrash, Served, Task, Awaits
  <2> QED BY <2>1, FS_EmptySet DEF SlotsMatchTasks, Served, GatewayCrash
<1>5. ASSUME NEW r \in Requests, task[r].pc \in Awaits
      PROVE  RequestInv(r)'
  <2>1. /\ task'[r].pc = "ended" /\ task'[r].epoch = task[r].epoch
        /\ task'[r].reply = "none" /\ task'[r].status = "error"
    BY <1>5 DEF GatewayCrash, Task
  <2>2. RequestParts(r)
    BY Parts
  <2>3. \A kind : UnderWay(kind, r)' <=> UnderWay(kind, r)
    BY <1>1 DEF UnderWay
  <2>4. Messages(r)'
    BY <1>1, <2>1, <2>2, <2>3 DEF Messages, RequestParts
  <2>5. TaskShape(r)'
    BY <1>1, <2>1, <2>2 DEF TaskShape, RequestParts
  <2>6. NotAdmitted(r)'
    BY <1>1, <2>1, <2>2, <2>3 DEF NotAdmitted, RequestParts, Current, ValidEpoch
  <2>7. Held(r)' /\ Acknowledged(r)' /\ Used(r)'
    BY <2>1 DEF Held, Acknowledged, Used
  <2> QED BY <2>4, <2>5, <2>6, <2>7 DEF RequestInv
<1>6. ASSUME NEW r \in Requests, task[r].pc \notin Awaits
      PROVE  RequestInv(r)'
  BY <1>1, <1>6, DriftKeeps DEF GatewayCrash, Drift
<1> QED BY <1>1, <1>3, <1>4, <1>5, <1>6 DEF ClientInv

\* Commands are lost, or the worker goes on: the tasks see nothing of it.
LEMMA DriftOnlyKeeps ==
  ASSUME GatewayInv, UNCHANGED <<task, active, epoch>>, net' \subseteq net,
         \A r \in Requests : Drift(r)
  PROVE  ClientInv'
<1>1. /\ task' \in [Requests -> TaskType] /\ SlotsMatchTasks'
      /\ net' \subseteq [kind : Commands, req : Requests, ttl : Nat]
  BY DEF GatewayInv, GatewayTypeOK, SlotsMatchTasks
<1>2. \A r \in Requests : RequestInv(r)'
  BY DriftKeeps
<1> QED BY <1>1, <1>2 DEF ClientInv

LEMMA ClientStepKeeps ==
  ASSUME GatewayInv, ClientStep
  PROVE  ClientInv'
<1>1. ASSUME NEW m \in net, Lose(m)
      PROVE  ClientInv'
  BY <1>1, DriftOnlyKeeps DEF ClientStep, Lose, vars, Drift
<1> QED
  BY <1>1, ArriveKeeps, LeaseTaskKeeps, GatewayCrashKeeps DEF ClientStep, TaskStep

LEMMA LifecycleKeeps ==
  ASSUME GatewayInv, Lifecycle
  PROVE  ClientInv'
<1>1. CASE WorkerTurn
  <2>1. epoch' = epoch
    BY <1>1 DEF WorkerTurn, WorkerReturns, WorkerWaits, BeginStart, BeginStop
  <2> QED BY <1>1, <2>1, TurnDrift, DriftOnlyKeeps DEF GatewayInv, Lifecycle, clientVars
<1>2. CASE EngineReturns
  <2>1. epoch' = epoch
    BY <1>2 DEF EngineReturns, ReconcileSucceeded, ReconcileFailed, StartSucceeded,
                StartFailed, StartUncertain, StopSucceeded, StopFailed
  <2> QED BY <1>2, <2>1, EngineReturnsDrift, DriftOnlyKeeps DEF GatewayInv, Lifecycle, clientVars
<1>3. CASE Restart
  <2>1. /\ task' = task /\ net' = net /\ active' = active
        /\ epoch \in Nat /\ epoch' = epoch + 1
        /\ \A r \in Requests : records'[r].state = "absent"
    BY <1>3 DEF Lifecycle, clientVars, GatewayInv, IInv, TypeOK, Restart, NoLease
  <2>2. /\ task' \in [Requests -> TaskType] /\ SlotsMatchTasks'
        /\ net' \subseteq [kind : Commands, req : Requests, ttl : Nat]
    BY <2>1 DEF GatewayInv, GatewayTypeOK, SlotsMatchTasks
  <2>3. ASSUME NEW r \in Requests
        PROVE  RequestInv(r)'
    <3>1. RequestParts(r) /\ \A kind : UnderWay(kind, r)' <=> UnderWay(kind, r)
      BY <2>1, Parts DEF UnderWay
    <3>2. task[r].epoch \in Nat /\ task[r].epoch <= epoch
      BY <3>1 DEF RequestParts, TaskType, TaskShape
    <3>3. ~Current(r)' /\ task[r].epoch <= epoch'
      BY <2>1, <3>2 DEF Current, ValidEpoch
    <3>4. Messages(r)'
      BY <2>1, <3>1 DEF Messages, RequestParts
    <3>5. TaskShape(r)'
      BY <2>1, <3>1, <3>3 DEF TaskShape, RequestParts
    <3>6. NotAdmitted(r)' /\ Held(r)' /\ Acknowledged(r)' /\ Used(r)'
      BY <2>1, <3>3 DEF NotAdmitted, Held, Acknowledged, Used
    <3> QED BY <3>4, <3>5, <3>6 DEF RequestInv
  <2> QED BY <2>2, <2>3 DEF ClientInv
<1> QED BY <1>1, <1>2, <1>3 DEF Lifecycle

-----------------------------------------------------------------------------
(* Time.                                                                   *)

\* Leases, timeouts and commands all get older by the same amount: the
\* distances between them, which the invariant is about, stay.
LEMMA TickOwn ==
  ASSUME GatewayInv, GatewayTick, NEW r \in Requests
  PROVE  RequestInv(r)' /\ task'[r] \in TaskType /\ task'[r].pc = task[r].pc
<1>1. /\ RequestParts(r) /\ epoch' = epoch
      /\ net \subseteq [kind : Commands, req : Requests, ttl : Nat]
  BY Parts DEF GatewayInv, GatewayTypeOK, GatewayTick
<1>2. /\ records'[r].state = records[r].state
      /\ records'[r].cancel_requested = records[r].cancel_requested
      /\ records[r].left \in Nat /\ records'[r].left \in Nat
      /\ records[r].left > 0 => records'[r].left = records[r].left - 1
  BY <1>1 DEF GatewayTick, Aged, RequestParts, LeaseRecord
<1>3. /\ task'[r].pc = task[r].pc /\ task'[r].epoch = task[r].epoch
      /\ task'[r].reply = task[r].reply /\ task'[r].status = task[r].status
      /\ task[r].left \in Nat /\ task'[r].left \in Nat
      /\ task'[r].left <= task[r].left
      /\ HasTimeout(task[r]) => task'[r].left = task[r].left - 1
  <2>1. task'[r] = IF HasTimeout(task[r]) THEN [task[r] EXCEPT !.left = @ - 1] ELSE task[r]
    BY DEF GatewayTick, ClientTick
  <2>2. /\ task[r].left \in Nat
        /\ HasTimeout(task[r]) => task[r].left > 0
    BY <1>1 DEF RequestParts, TaskType, GatewayTick, ClientTick, MayPass
  <2>3. CASE HasTimeout(task[r])
    <3>1. task'[r] = [task[r] EXCEPT !.left = task[r].left - 1]
      BY <2>1, <2>3
    <3>2. task[r].left - 1 \in Nat /\ task[r].left - 1 <= task[r].left
      BY <2>2, <2>3
    <3> QED BY <1>1, <2>2, <2>3, <3>1, <3>2 DEF RequestParts, TaskType
  <2>4. CASE ~HasTimeout(task[r])
    BY <2>1, <2>2, <2>4
  <2> QED BY <2>3, <2>4
<1>4. task'[r] \in TaskType
  <2>1. CASE HasTimeout(task[r])
    <3>1. task'[r] = [task[r] EXCEPT !.left = task[r].left - 1]
      BY <2>1 DEF GatewayTick, ClientTick
    <3> QED BY <1>1, <1>3, <2>1, <3>1 DEF RequestParts, TaskType
  <2>2. CASE ~HasTimeout(task[r])
    BY <1>1, <2>2 DEF GatewayTick, ClientTick, RequestParts
  <2> QED BY <2>1, <2>2
<1>5. \A m \in net' : \E n \in net :
         m.kind = n.kind /\ m.req = n.req /\ m.ttl = n.ttl - 1 /\ n.ttl > 0
         /\ m = [n EXCEPT !.ttl = n.ttl - 1]
  <2>1. net' = {[m EXCEPT !.ttl = m.ttl - 1] : m \in {n \in net : n.ttl > 0}}
    BY DEF GatewayTick, ClientTick
  <2> QED BY <1>1, <2>1
<1>6. \A kind : UnderWay(kind, r)' => UnderWay(kind, r)
  BY <1>5 DEF UnderWay
<1>7. Current(r)' <=> Current(r)
  BY <1>1, <1>3 DEF Current, ValidEpoch
<1>8. Messages(r)'
  <2>1. ASSUME NEW m \in net', NEW n \in net', m.req = r, n.req = r, m.kind = n.kind
        PROVE  m = n
    <3>1. PICK m0 \in net : m.kind = m0.kind /\ m.req = m0.req /\ m = [m0 EXCEPT !.ttl = m0.ttl - 1]
      BY <1>5
    <3>2. PICK n0 \in net : n.kind = n0.kind /\ n.req = n0.req /\ n = [n0 EXCEPT !.ttl = n0.ttl - 1]
      BY <1>5
    <3>3. m0 = n0
      BY <1>1, <2>1, <3>1, <3>2 DEF RequestParts, Messages
    <3> QED BY <3>1, <3>2, <3>3
  <2>2. ASSUME NEW m \in net', m.req = r
        PROVE  m.ttl <= CommandLifetime
    <3>1. PICK n \in net : n.req = r /\ m.ttl = n.ttl - 1 /\ n.ttl \in Nat
      BY <1>1, <1>5, <2>2
    <3>2. n.ttl <= CommandLifetime
      BY <1>1, <3>1 DEF RequestParts, Messages
    <3> QED BY <3>1, <3>2, ClientAssumption DEF ClientAssumption
  <2> QED BY <1>1, <1>3, <1>6, <2>1, <2>2 DEF RequestParts, Messages
<1>9. TaskShape(r)'
  BY <1>1, <1>3, ClientAssumption DEF RequestParts, TaskShape, ClientAssumption
<1>10. NotAdmitted(r)'
  <2>1. ASSUME UnderWay("acquire", r)', Current(r), task[r].reply = "ok", NEW m \in net',
               m.kind = "acquire", m.req = r
        PROVE  m.ttl < records'[r].left
    <3>1. PICK n \in net : n.kind = "acquire" /\ n.req = r /\ m.ttl = n.ttl - 1
                           /\ n.ttl > 0 /\ n.ttl \in Nat
      BY <1>1, <1>5, <2>1
    <3>2. n.ttl < records[r].left
      BY <1>1, <1>6, <2>1, <3>1 DEF RequestParts, NotAdmitted
    <3> QED BY <1>2, <3>1, <3>2
  <2> QED BY <1>1, <1>2, <1>3, <1>6, <1>7, <2>1 DEF RequestParts, NotAdmitted
<1>11. Held(r)'
  <2>1. task[r].pc \in {"inferring", "acquiring", "polling"} =>
          task'[r].left = task[r].left - 1 /\ task[r].left > 0
    <3>1. task[r].pc \in {"inferring", "acquiring", "polling"} => HasTimeout(task[r])
      BY DEF HasTimeout, Awaits
    <3> QED BY <1>3, <3>1 DEF GatewayTick, ClientTick, MayPass
  <2> QED
    BY <1>1, <1>2, <1>3, <1>7, <2>1, ClientAssumption
    DEF RequestParts, Held, ClientAssumption
<1>12. Acknowledged(r)' /\ Used(r)'
  BY <1>1, <1>2, <1>3, <1>6, <1>7 DEF RequestParts, Acknowledged, Used
<1> QED BY <1>3, <1>4, <1>8, <1>9, <1>10, <1>11, <1>12 DEF RequestInv

LEMMA TickKeeps ==
  ASSUME GatewayInv, GatewayTick
  PROVE  ClientInv'
<1>1. task' \in [Requests -> TaskType]
  <2>1. DOMAIN task' = Requests /\ task' = [r \in Requests |-> task'[r]]
    BY DEF GatewayTick, ClientTick
  <2> QED BY <2>1, TickOwn
<1>2. net' \subseteq [kind : Commands, req : Requests, ttl : Nat]
  <2>1. net' = {[m EXCEPT !.ttl = m.ttl - 1] : m \in {n \in net : n.ttl > 0}}
    BY DEF GatewayTick, ClientTick
  <2>2. ASSUME NEW m \in net, m.ttl > 0
        PROVE  [m EXCEPT !.ttl = m.ttl - 1] \in [kind : Commands, req : Requests, ttl : Nat]
    BY <2>2 DEF GatewayInv, GatewayTypeOK
  <2> QED BY <2>1, <2>2
<1>3. SlotsMatchTasks'
  <2>1. Served' = Served
    BY TickOwn DEF Served
  <2> QED BY <2>1 DEF SlotsMatchTasks, Served, GatewayInv, GatewayTick, ClientTick
<1> QED BY <1>1, <1>2, <1>3, TickOwn DEF ClientInv

-----------------------------------------------------------------------------
(* The commands, as the dispatcher carries them out.                       *)

Replies == {"none", "ok", "error", "queued"} \cup OwningStates \cup EndedStates

\* The task of r is answered if it waits for that answer.
AnsweredAs(r, pc, reply) ==
  /\ task' \in [Requests -> TaskType]
  /\ \A q \in Requests : q # r => task'[q] = task[q]
  /\ task'[r].pc = task[r].pc /\ task'[r].epoch = task[r].epoch
  /\ task'[r].left = task[r].left /\ task'[r].status = task[r].status
  /\ task[r].pc = pc => task'[r].reply = reply
  /\ task[r].pc # pc => task'[r].reply = task[r].reply

LEMMA ReplyFacts ==
  ASSUME GatewayInv, NEW r \in Requests, NEW pc, NEW reply \in Replies, Replied(r, pc, reply)
  PROVE  AnsweredAs(r, pc, reply)
<1>1. task \in [Requests -> TaskType] /\ task[r] \in TaskType
  BY DEF GatewayInv, GatewayTypeOK
<1>2. CASE task[r].pc = pc
  <2>1. task' = [task EXCEPT ![r] = [task[r] EXCEPT !.reply = reply]]
    BY <1>1, <1>2 DEF Replied
  <2>2. /\ [task[r] EXCEPT !.reply = reply] \in TaskType
        /\ [task[r] EXCEPT !.reply = reply].reply = reply
        /\ [task[r] EXCEPT !.reply = reply].pc = task[r].pc
        /\ [task[r] EXCEPT !.reply = reply].epoch = task[r].epoch
        /\ [task[r] EXCEPT !.reply = reply].left = task[r].left
        /\ [task[r] EXCEPT !.reply = reply].status = task[r].status
    BY <1>1 DEF TaskType, Replies
  <2> QED BY <1>1, <1>2, <2>1, <2>2 DEF AnsweredAs
<1>3. CASE task[r].pc # pc
  BY <1>1, <1>3 DEF Replied, AnsweredAs
<1> QED BY <1>2, <1>3

\* What is left to show of a command is about its own request.
LEMMA ServeKeeps ==
  ASSUME GatewayInv, NEW r \in Requests, NEW pc, NEW reply, AnsweredAs(r, pc, reply),
         RequestInv(r)', net' \subseteq net, UNCHANGED <<active, epoch>>,
         \A q \in Requests : q # r => Drift(q)
  PROVE  ClientInv'
<1>1. /\ task' \in [Requests -> TaskType]
      /\ net' \subseteq [kind : Commands, req : Requests, ttl : Nat]
      /\ task'[r].pc = task[r].pc
      /\ \A q \in Requests : q # r => task'[q] = task[q]
  BY DEF GatewayInv, GatewayTypeOK, AnsweredAs
<1>2. SlotsMatchTasks'
  BY <1>1, SlotsFollow
<1>3. \A q \in Requests : RequestInv(q)'
  BY <1>1, OneRequest
<1> QED BY <1>1, <1>2, <1>3 DEF ClientInv

\* A read: a lease that it finds waiting is not active yet.
LEMMA PollKeeps ==
  ASSUME GatewayInv, NEW r \in Requests, ServePoll(r)
  PROVE  ClientInv'
<1>1. RequestParts(r) /\ task[r].pc = "polling"
  BY Parts DEF ServePoll
<1>2. /\ records' = records /\ epoch' = epoch /\ net' = net /\ active' = active
      /\ \A kind : UnderWay(kind, r)' <=> UnderWay(kind, r)
  BY DEF ServePoll, vars, UnderWay
<1>3. PICK reply \in Replies :
        /\ AnsweredAs(r, "polling", reply)
        /\ reply = "error" \/ (Current(r) /\ reply = records[r].state)
  <2>1. CASE Current(r) /\ records[r].state # "absent"
    <3>1. Replied(r, "polling", records[r].state)
      BY <2>1 DEF ServePoll
    <3>2. records[r].state \in Replies
      BY <1>1, <2>1 DEF RequestParts, LeaseRecord, Replies, TerminalStates, EndedStates
    <3> QED BY <2>1, <3>1, <3>2, ReplyFacts
  <2>2. CASE ~(Current(r) /\ records[r].state # "absent")
    <3>1. Replied(r, "polling", "error") /\ "error" \in Replies
      BY <2>2 DEF ServePoll, Replies
    <3> QED BY <3>1, ReplyFacts
  <2> QED BY <2>1, <2>2
<1>4. ~UnderWay("acquire", r) /\ ~UnderWay("cancel", r) /\ ~UnderWay("release", r)
  BY <1>1 DEF RequestParts, Messages
<1>5. Current(r)' <=> Current(r)
  BY <1>2, <1>3 DEF Current, ValidEpoch, AnsweredAs
<1>6. Messages(r)'
  BY <1>1, <1>2, <1>4 DEF RequestParts, Messages
<1>7. TaskShape(r)'
  BY <1>1, <1>2, <1>3 DEF RequestParts, TaskShape, AnsweredAs
<1>8. Held(r)'
  BY <1>1, <1>2, <1>3, <1>5 DEF RequestParts, Held, AnsweredAs
<1>9. NotAdmitted(r)' /\ Acknowledged(r)' /\ Used(r)'
  BY <1>1, <1>2, <1>3, <1>4 DEF NotAdmitted, Acknowledged, Used, AnsweredAs
<1>10. \A q \in Requests : Drift(q)
  BY <1>2 DEF Drift
<1> QED
  BY <1>2, <1>3, <1>6, <1>7, <1>8, <1>9, <1>10, ServeKeeps DEF RequestInv

\* The admission: it finds no lease, or the refusal that its cancel has left.
LEMMA AdmissionKeeps ==
  ASSUME GatewayInv, NEW r \in Requests, ServeAcquire(r)
  PROVE  ClientInv'
<1>1. RequestParts(r) /\ TypeOK /\ IInv
  BY Parts DEF GatewayInv, IInv
<1>2. /\ \A kind : UnderWay(kind, r)' <=> UnderWay(kind, r) /\ kind # "acquire"
      /\ UnderWay("acquire", r)
      /\ \A m, n \in net' : m.req = r /\ n.req = r /\ m.kind = n.kind => m = n
      /\ \A m \in net' : m.req = r => m.ttl <= CommandLifetime
      /\ net' \subseteq net /\ active' = active
  <2>1. Take("acquire", r) /\ Messages(r)
    BY <1>1 DEF ServeAcquire, RequestParts
  <2> QED BY <2>1, TakeFacts DEF ServeAcquire
<1>3. PICK reply \in Replies :
        /\ AnsweredAs(r, "acquiring", reply)
        /\ epoch' = epoch
        /\ \A q \in Requests : q # r => Drift(q)
        /\ \/ /\ Current(r) /\ records[r].state = "absent"
              /\ records'[r].state = "queued" /\ reply = "queued"
           \/ /\ Current(r) /\ records[r].state = "absent"
              /\ records'[r].state = "absent" /\ reply = "error"
           \/ records' = records /\ Current(r) /\ records[r].state # "absent"
           \/ records' = records /\ reply = "error"
  <2>1. CASE /\ Submit(ServiceOf[r], r, task[r].epoch, QueueWait)
             /\ Replied(r, "acquiring", IF records'[r].state = "absent" THEN "error"
                                        ELSE records'[r].state)
    <3>1. Current(r) /\ records[r].state = "absent" /\ epoch' = epoch
      BY <2>1 DEF Submit, Current
    <3>2. /\ Pruned(records) \in [Requests -> LeaseRecord]
          /\ Pruned(records)[r].state = "absent"
      BY <1>1, <3>1, PrunedPointwise DEF NoLease
    <3>3. records'[r].state \in {"absent", "queued"}
      BY <2>1, <3>2 DEF Submit, QueuedLease
    <3>4. \A q \in Requests : q # r => Drift(q)
      BY <1>1, <2>1, OthersDrift
    <3>5. CASE records'[r].state = "absent"
      <4>1. Replied(r, "acquiring", "error") /\ "error" \in Replies
        BY <2>1, <3>5 DEF Replies
      <4> QED BY <3>1, <3>4, <3>5, <4>1, ReplyFacts
    <3>6. CASE records'[r].state = "queued"
      <4>1. Replied(r, "acquiring", "queued") /\ "queued" \in Replies
        BY <2>1, <3>6 DEF Replies
      <4> QED BY <3>1, <3>4, <3>6, <4>1, ReplyFacts
    <3> QED BY <3>3, <3>5, <3>6
  <2>2. CASE /\ Current(r) /\ records[r].state # "absent"
             /\ Replied(r, "acquiring", records[r].state)
             /\ UNCHANGED vars
    <3>1. records[r].state \in Replies
      BY <1>1, <2>2 DEF RequestParts, LeaseRecord, Replies, TerminalStates, EndedStates
    <3>2. epoch' = epoch /\ records' = records
      BY <2>2 DEF vars
    <3> QED BY <2>2, <3>1, <3>2, ReplyFacts DEF Drift
  <2>3. CASE Replied(r, "acquiring", "error") /\ UNCHANGED vars
    <3>1. epoch' = epoch /\ records' = records /\ "error" \in Replies
      BY <2>3 DEF vars, Replies
    <3> QED BY <2>3, <3>1, ReplyFacts DEF Drift
  <2> QED BY <2>1, <2>2, <2>3 DEF ServeAcquire
<1>4. Current(r)' <=> Current(r)
  BY <1>3 DEF Current, ValidEpoch, AnsweredAs
<1>5. /\ task[r].pc \in {"acquiring", "cancelling", "ended"}
      /\ task[r].pc = "acquiring" => ~UnderWay("cancel", r) /\ ~UnderWay("release", r)
      /\ task[r].pc = "acquiring" => task[r].status # "ok"
      /\ Current(r) /\ task[r].pc = "acquiring" => records[r].state = "absent"
      /\ Current(r) /\ task[r].reply = "ok" => records[r].state = "cancelled"
      /\ Current(r) => ~(task[r].pc = "ended" /\ task[r].status = "ok")
  BY <1>1, <1>2 DEF RequestParts, Messages, TaskShape, NotAdmitted, Used
<1>6. Messages(r)'
  BY <1>1, <1>2, <1>3, <1>5 DEF RequestParts, Messages, AnsweredAs
<1>7. TaskShape(r)'
  BY <1>1, <1>3, <1>5 DEF RequestParts, TaskShape, AnsweredAs
<1>8. NotAdmitted(r)'
  BY <1>2, <1>3, <1>5 DEF NotAdmitted, AnsweredAs
<1>9. Held(r)'
  BY <1>3, <1>4, <1>5 DEF Held, AnsweredAs
<1>10. Acknowledged(r)'
  BY <1>1, <1>3, <1>4, <1>5 DEF RequestParts, Acknowledged, AnsweredAs
<1>11. Used(r)'
  BY <1>3, <1>4, <1>5 DEF Used, AnsweredAs
<1> QED
  BY <1>2, <1>3, <1>6, <1>7, <1>8, <1>9, <1>10, <1>11, ServeKeeps DEF RequestInv

\* What a release or a cancel makes of a lease that has not ended.
LEMMA StopFacts ==
  ASSUME TypeOK, NEW r \in Requests, NEW service, NEW e, NEW target \in {"released", "cancelled"},
         RequestStop(service, r, e, target)
  PROVE  /\ records[r].state \in {"queued", "starting", "active", "stopping"}
         /\ records[r].state = "queued" => records'[r].state = target
         /\ records[r].state = "starting" =>
              records'[r].state = "starting" /\ records'[r].cancel_requested
         /\ records[r].state \in {"active", "stopping"} => records'[r].state = "stopping"
         /\ epoch' = epoch /\ ValidEpoch(e)
<1>1. /\ records[r] \in LeaseRecord /\ records'[r] = StopRequested(records[r], target)
      /\ epoch' = epoch /\ ValidEpoch(e)
  BY DEF TypeOK, RequestStop
<1>2. records[r].state \in {"queued", "starting", "active", "stopping"}
  BY <1>1 DEF RequestStop, LeaseRecord, OwningStates
<1>3. CASE records[r].state = "queued"
  <2>1. records'[r] = [records[r] EXCEPT !.state = target, !.left = TerminalRetention]
    BY <1>1, <1>3 DEF StopRequested, MarkTerminal
  <2> QED BY <1>1, <1>3, <2>1 DEF LeaseRecord
<1>4. CASE records[r].state = "starting"
  <2>1. records'[r] = [records[r] EXCEPT !.cancel_requested = TRUE, !.terminal_target = target]
    BY <1>1, <1>4 DEF StopRequested
  <2> QED BY <1>1, <1>4, <2>1 DEF LeaseRecord
<1>5. CASE records[r].state = "active"
  <2>1. records'[r] = [records[r] EXCEPT !.state = "stopping", !.terminal_target = target,
                                         !.left = 0]
    BY <1>1, <1>5 DEF StopRequested
  <2> QED BY <1>1, <1>5, <2>1 DEF LeaseRecord
<1>6. CASE records[r].state = "stopping"
  BY <1>1, <1>6 DEF StopRequested, LeaseRecord
<1> QED BY <1>1, <1>2, <1>3, <1>4, <1>5, <1>6

\* The cancel: it ends the lease, or leaves a refusal that outlives an
\* admission still on its way.
LEMMA CancellationKeeps ==
  ASSUME GatewayInv, NEW r \in Requests, ServeCancel(r)
  PROVE  ClientInv'
<1>1. RequestParts(r) /\ TypeOK /\ IInv
  BY Parts DEF GatewayInv, IInv
<1>2. /\ \A kind : UnderWay(kind, r)' <=> UnderWay(kind, r) /\ kind # "cancel"
      /\ UnderWay("cancel", r)
      /\ \A m, n \in net' : m.req = r /\ n.req = r /\ m.kind = n.kind => m = n
      /\ \A m \in net' : m.req = r => m.ttl <= CommandLifetime
      /\ net' \subseteq net /\ active' = active
  <2>1. Take("cancel", r) /\ Messages(r)
    BY <1>1 DEF ServeCancel, RequestParts
  <2> QED BY <2>1, TakeFacts DEF ServeCancel
<1>3. PICK reply \in {"ok", "error"} :
        /\ AnsweredAs(r, "cancelling", reply)
        /\ epoch' = epoch
        /\ \A q \in Requests : q # r => Drift(q)
        /\ \/ /\ records[r].state \notin {"absent"} \cup TerminalStates
              /\ records'[r].state \notin {"queued", "active"}
              /\ records'[r].state = "starting" => records'[r].cancel_requested
           \/ /\ records'[r].state = "absent" /\ reply = "error"
           \/ /\ records[r].state = "absent"
              /\ records'[r].state = "cancelled" /\ records'[r].left = TerminalRetention
           \/ records' = records /\ records[r].state \in TerminalStates
           \/ records' = records /\ ~Current(r)
  <2>0. {"ok", "error"} \subseteq Replies
    BY DEF Replies
  <2>1. CASE /\ Cancel(ServiceOf[r], r, task[r].epoch)
             /\ Replied(r, "cancelling", "ok")
    <3>1. RequestStop(ServiceOf[r], r, task[r].epoch, "cancelled")
      BY <2>1 DEF Cancel
    <3>2. \A q \in Requests : q # r => Drift(q)
      BY <1>1, <2>1, OthersDrift
    <3>3. /\ records[r].state \in {"queued", "starting", "active", "stopping"}
          /\ records[r].state = "queued" => records'[r].state = "cancelled"
          /\ records[r].state = "starting" =>
               records'[r].state = "starting" /\ records'[r].cancel_requested
          /\ records[r].state \in {"active", "stopping"} => records'[r].state = "stopping"
          /\ epoch' = epoch
      BY <1>1, <3>1, StopFacts
    <3>4. AnsweredAs(r, "cancelling", "ok")
      BY <2>0, <2>1, ReplyFacts
    <3> QED BY <3>2, <3>3, <3>4 DEF TerminalStates
  <2>2. CASE /\ CancelUnknown(ServiceOf[r], r, task[r].epoch)
             /\ Replied(r, "cancelling", IF records'[r].state = "absent" THEN "error" ELSE "ok")
    <3>1. records[r].state = "absent" /\ epoch' = epoch
      BY <2>2 DEF CancelUnknown
    <3>2. /\ Pruned(records) \in [Requests -> LeaseRecord]
          /\ Pruned(records)[r].state = "absent"
      BY <1>1, <3>1, PrunedPointwise DEF NoLease
    <3>3. \/ records'[r].state = "absent"
          \/ records'[r].state = "cancelled" /\ records'[r].left = TerminalRetention
      BY <2>2, <3>2 DEF CancelUnknown, Tombstone
    <3>4. \A q \in Requests : q # r => Drift(q)
      BY <1>1, <2>2, OthersDrift
    <3>5. CASE records'[r].state = "absent"
      BY <2>0, <2>2, <3>1, <3>4, <3>5, ReplyFacts
    <3>6. CASE records'[r].state = "cancelled" /\ records'[r].left = TerminalRetention
      <4>1. AnsweredAs(r, "cancelling", "ok")
        BY <2>0, <2>2, <3>6, ReplyFacts
      <4> QED BY <3>1, <3>4, <3>6, <4>1
    <3> QED BY <3>3, <3>5, <3>6
  <2>3. CASE /\ records[r].state \in EndedStates
             /\ Replied(r, "cancelling", "ok") /\ UNCHANGED vars
    <3>1. epoch' = epoch /\ records' = records /\ records[r].state \in TerminalStates
      BY <2>3 DEF vars, EndedStates, TerminalStates
    <3> QED BY <2>0, <2>3, <3>1, ReplyFacts DEF Drift
  <2>4. CASE ~Current(r) /\ Replied(r, "cancelling", "error") /\ UNCHANGED vars
    <3>1. epoch' = epoch /\ records' = records
      BY <2>4 DEF vars
    <3> QED BY <2>0, <2>4, <3>1, ReplyFacts DEF Drift
  <2> QED BY <2>1, <2>2, <2>3, <2>4 DEF ServeCancel
<1>4. Current(r)' <=> Current(r)
  BY <1>3 DEF Current, ValidEpoch, AnsweredAs
<1>5. /\ task[r].pc \in {"cancelling", "ended"} /\ task[r].reply # "ok"
      /\ task[r].status # "ok"
      /\ task[r].pc = "cancelling" => ~UnderWay("release", r)
      /\ Current(r) /\ UnderWay("acquire", r) => records[r].state = "absent"
  BY <1>1, <1>2 DEF RequestParts, Messages, TaskShape, NotAdmitted
<1>6. Messages(r)'
  BY <1>1, <1>2, <1>3, <1>5 DEF RequestParts, Messages, AnsweredAs
<1>7. TaskShape(r)'
  BY <1>1, <1>3, <1>5 DEF RequestParts, TaskShape, AnsweredAs
<1>8. NotAdmitted(r)'
  <2>1. ASSUME UnderWay("acquire", r), Current(r)
        PROVE  /\ records'[r].state \in {"absent", "cancelled"}
               /\ task'[r].reply = "ok" =>
                    /\ records'[r].state = "cancelled"
                    /\ records'[r].left = TerminalRetention
    BY <1>3, <1>5, <2>1 DEF AnsweredAs, TerminalStates
  <2>2. \A m \in net' : m.req = r => m.ttl < TerminalRetention
    <3>1. net' \subseteq [kind : Commands, req : Requests, ttl : Nat]
      BY <1>2 DEF GatewayInv, GatewayTypeOK
    <3> QED
      BY <1>2, <3>1, GatewayAssumption, ClientAssumption, DispatcherAssumption
      DEF GatewayAssumption, ClientAssumption, DispatcherAssumption
  <2> QED BY <1>2, <1>3, <1>4, <1>5, <2>1, <2>2 DEF NotAdmitted, AnsweredAs
<1>9. Held(r)' /\ Used(r)'
  BY <1>3, <1>5 DEF Held, Used, AnsweredAs
<1>10. Acknowledged(r)'
  BY <1>3, <1>4, <1>5 DEF Acknowledged, AnsweredAs, TerminalStates
<1> QED
  BY <1>2, <1>3, <1>6, <1>7, <1>8, <1>9, <1>10, ServeKeeps DEF RequestInv

\* The release.
LEMMA ReleaseKeeps ==
  ASSUME GatewayInv, NEW r \in Requests, ServeRelease(r)
  PROVE  ClientInv'
<1>1. RequestParts(r) /\ TypeOK /\ IInv
  BY Parts DEF GatewayInv, IInv
<1>2. /\ \A kind : UnderWay(kind, r)' <=> UnderWay(kind, r) /\ kind # "release"
      /\ UnderWay("release", r)
      /\ \A m, n \in net' : m.req = r /\ n.req = r /\ m.kind = n.kind => m = n
      /\ \A m \in net' : m.req = r => m.ttl <= CommandLifetime
      /\ net' \subseteq net /\ active' = active
  <2>1. Take("release", r) /\ Messages(r)
    BY <1>1 DEF ServeRelease, RequestParts
  <2> QED BY <2>1, TakeFacts DEF ServeRelease
<1>3. PICK reply \in {"ok", "error"} :
        /\ AnsweredAs(r, "releasing", reply)
        /\ epoch' = epoch
        /\ \A q \in Requests : q # r => Drift(q)
        /\ \/ /\ records'[r].state \notin {"queued", "active"}
              /\ records'[r].state = "starting" =>
                   records'[r].cancel_requested /\ records[r].state = "starting"
           \/ records' = records /\ reply = "error"
  <2>0. {"ok", "error"} \subseteq Replies
    BY DEF Replies
  <2>1. CASE /\ Release(ServiceOf[r], r, task[r].epoch)
             /\ Replied(r, "releasing", "ok")
    <3>1. RequestStop(ServiceOf[r], r, task[r].epoch, "released")
      BY <2>1 DEF Release
    <3>2. \A q \in Requests : q # r => Drift(q)
      BY <1>1, <2>1, OthersDrift
    <3>3. /\ records[r].state \in {"queued", "starting", "active", "stopping"}
          /\ records[r].state = "queued" => records'[r].state = "released"
          /\ records[r].state = "starting" =>
               records'[r].state = "starting" /\ records'[r].cancel_requested
          /\ records[r].state \in {"active", "stopping"} => records'[r].state = "stopping"
          /\ epoch' = epoch
      BY <1>1, <3>1, StopFacts
    <3>4. AnsweredAs(r, "releasing", "ok")
      BY <2>0, <2>1, ReplyFacts
    <3> QED BY <3>2, <3>3, <3>4
  <2>2. CASE /\ records[r].state \in EndedStates
             /\ Replied(r, "releasing", "ok") /\ UNCHANGED vars
    <3>1. epoch' = epoch /\ records' = records
      BY <2>2 DEF vars
    <3> QED BY <2>0, <2>2, <3>1, ReplyFacts DEF Drift, EndedStates
  <2>3. CASE Replied(r, "releasing", "error") /\ UNCHANGED vars
    <3>1. epoch' = epoch /\ records' = records
      BY <2>3 DEF vars
    <3> QED BY <2>0, <2>3, <3>1, ReplyFacts DEF Drift
  <2> QED BY <2>1, <2>2, <2>3 DEF ServeRelease
<1>4. Current(r)' <=> Current(r)
  BY <1>3 DEF Current, ValidEpoch, AnsweredAs
<1>5. /\ task[r].pc \in {"releasing", "ended"} /\ task[r].reply # "ok"
      /\ task[r].pc = "ended" => task[r].status # "ok"
      /\ task[r].pc = "releasing" => ~UnderWay("cancel", r)
      /\ ~UnderWay("acquire", r)
  BY <1>1, <1>2 DEF RequestParts, Messages, TaskShape
<1>6. Messages(r)'
  BY <1>1, <1>2, <1>3, <1>5 DEF RequestParts, Messages, AnsweredAs
<1>7. TaskShape(r)'
  BY <1>1, <1>3, <1>5 DEF RequestParts, TaskShape, AnsweredAs
<1>8. NotAdmitted(r)' /\ Held(r)'
  BY <1>2, <1>3, <1>5 DEF NotAdmitted, Held, AnsweredAs
<1>9. Used(r)'
  BY <1>1, <1>2, <1>3, <1>4, <1>5 DEF RequestParts, Used, AnsweredAs
<1>10. Acknowledged(r)'
  BY <1>3, <1>4, <1>5 DEF Acknowledged, AnsweredAs
<1> QED
  BY <1>2, <1>3, <1>6, <1>7, <1>8, <1>9, <1>10, ServeKeeps DEF RequestInv

-----------------------------------------------------------------------------
(* The invariant is inductive.                                             *)

LEMMA GatewayInitInvariant == GatewayInit => GatewayInv
<1> SUFFICES ASSUME GatewayInit
             PROVE  GatewayInv
  OBVIOUS
<1>1. IInv /\ TypeOK
  BY InitInvariant DEF GatewayInit, IInv
<1>2. /\ \A r \in Requests : task[r] = Task("new", 0, 0)
      /\ task \in [Requests -> {Task("new", 0, 0)}]
      /\ net = {} /\ active = 0 /\ epoch = 0
      /\ \A r \in Requests : records[r].state = "absent"
  BY DEF GatewayInit, ClientInit, Init, NoLease
<1>3. Task("new", 0, 0) \in TaskType
  BY DEF Task, TaskType
<1>4. GatewayTypeOK
  BY <1>1, <1>2, <1>3 DEF GatewayTypeOK
<1>5. SlotsMatchTasks
  <2>1. Served = {}
    BY <1>2 DEF Served, Task, Awaits
  <2> QED BY <1>2, <2>1, FS_EmptySet DEF SlotsMatchTasks, Served
<1>6. ASSUME NEW r \in Requests
      PROVE  RequestInv(r)
  <2>1. \A kind : ~UnderWay(kind, r)
    BY <1>2 DEF UnderWay
  <2>2. /\ task[r].pc = "new" /\ task[r].epoch = 0
        /\ task[r].reply = "none" /\ task[r].status = "error"
    BY <1>2 DEF Task
  <2>3. Messages(r) /\ TaskShape(r) /\ NotAdmitted(r)
    BY <1>2, <2>1, <2>2 DEF Messages, TaskShape, NotAdmitted
  <2>4. Held(r) /\ Acknowledged(r) /\ Used(r)
    BY <2>2 DEF Held, Acknowledged, Used
  <2> QED BY <2>3, <2>4 DEF RequestInv
<1> QED BY <1>1, <1>4, <1>5, <1>6 DEF GatewayInv

LEMMA GatewayStepInvariant == GatewayInv /\ [GatewayNext]_gatewayVars => GatewayInv'
<1> SUFFICES ASSUME GatewayInv, [GatewayNext]_gatewayVars
             PROVE  GatewayInv'
  OBVIOUS
<1>1. IInv'
  BY DispatcherStep, StepInvariant DEF GatewayInv
<1>2. ClientInv'
  <2>1. CASE UNCHANGED gatewayVars
    BY <2>1, DriftOnlyKeeps DEF gatewayVars, vars, clientVars, Drift
  <2>2. CASE GatewayNext
    BY <2>2, ClientStepKeeps, AskReadyKeeps, AdmissionKeeps, PollKeeps, CancellationKeeps,
       ReleaseKeeps, LifecycleKeeps, TickKeeps
    DEF GatewayNext, Serve
  <2> QED BY <2>1, <2>2
<1>3. active' \in Nat
  <2>1. IsFiniteSet(Served')
    BY RequestsAssumption, FS_Subset DEF Served, RequestsAssumption
  <2> QED BY <1>2, <2>1, FS_CardinalityType DEF ClientInv, SlotsMatchTasks, Served
<1> QED BY <1>1, <1>2, <1>3 DEF GatewayInv, ClientInv, GatewayTypeOK, IInv

-----------------------------------------------------------------------------
(* The theorems.                                                           *)

\* The inductive invariant holds in every reachable state.
THEOREM GatewayInvariance == GatewaySpec => []GatewayInv
  BY GatewayInitInvariant, GatewayStepInvariant, PTL DEF GatewaySpec

\* Seen from the dispatcher, the Gateway is some client: the composition
\* behaves as module GPUDispatcher, and all that was proved there holds here.
THEOREM GatewayIsDispatcher == GatewaySpec => Spec
<1>1. GatewayInit => Init
  BY DEF GatewayInit
<1>2. GatewayInv /\ [GatewayNext]_gatewayVars => [Next]_vars
  BY DispatcherStep DEF GatewayInv
<1> QED BY <1>1, <1>2, GatewayInvariance, PTL DEF GatewaySpec, Spec

\* With lost and late commands, timeouts of the client and crashes of either
\* side, the leases still behave as a lock with one holder.
THEOREM GatewayImplementsLease == GatewaySpec => ImplementsLease
  BY GatewayIsDispatcher, Refinement, PTL

\* Tasks and commands keep their types and no timeout counts below zero.
THEOREM GatewayTypes == GatewaySpec => []GatewayTypeOK
<1>1. GatewayInv => GatewayTypeOK
  BY DEF GatewayInv
<1> QED BY <1>1, GatewayInvariance, PTL

\* An inference runs under an active lease to its end: with ActiveTimeout
\* above InferenceTimeout and two calls of the dispatcher, no interleaving of
\* polls, lost replies and a late activation lets the deadline come first.
THEOREM InferencesHoldTheLease == GatewaySpec => []InferenceHoldsLease
<1>1. GatewayInv => InferenceHoldsLease
  BY Parts DEF GatewayInv, IInv, SingleOwner, OwningStates, RequestParts, Held, Current,
               ValidEpoch, InferenceHoldsLease
<1> QED BY <1>1, GatewayInvariance, PTL

\* No two handlers run an inference at the same time on the word of the same
\* Dispatcher process: the GPU is shared by taking turns.
THEOREM OneInferenceAtATime ==
  GatewaySpec =>
    [](\A q, r \in Requests :
         /\ task[q].pc = "inferring" /\ task[q].epoch = epoch
         /\ task[r].pc = "inferring" /\ task[r].epoch = epoch
         => q = r)
<1> DEFINE OneInference ==
      \A q, r \in Requests :
        /\ task[q].pc = "inferring" /\ task[q].epoch = epoch
        /\ task[r].pc = "inferring" /\ task[r].epoch = epoch
        => q = r
<1>1. InferenceHoldsLease => OneInference
  BY DEF InferenceHoldsLease
<1> QED BY <1>1, InferencesHoldTheLease, PTL

\* A cancel that was acknowledged holds: the admission that arrives after it
\* is refused, for as long as it can still arrive.
THEOREM CancelsHold == GatewaySpec => []AcknowledgedCancelHolds
<1>1. GatewayInv => AcknowledgedCancelHolds
  BY Parts DEF RequestParts, Acknowledged, Current, ValidEpoch, AcknowledgedCancelHolds
<1> QED BY <1>1, GatewayInvariance, PTL

\* A client that was given a result has let go of the GPU.
THEOREM ReleasesComeFirst == GatewaySpec => []ReleasedBeforeAnswer
<1>1. GatewayInv => ReleasedBeforeAnswer
  <2> SUFFICES ASSUME GatewayInv, NEW r \in Requests, task[r].pc = "ended",
                      task[r].status = "ok", task[r].epoch = epoch
               PROVE  records[r].state \in {"stopping", "absent"} \cup TerminalStates
    BY DEF ReleasedBeforeAnswer
  <2>1. RequestParts(r) /\ Current(r)
    BY Parts DEF Current, ValidEpoch
  <2>2. records[r].state \notin {"queued", "active", "starting"}
    BY <2>1 DEF RequestParts, TaskShape, Acknowledged, Used
  <2> QED BY <2>1, <2>2 DEF RequestParts, LeaseRecord, OwningStates
<1> QED BY <1>1, GatewayInvariance, PTL

\* Through every path of a handler, and a crash of the Gateway, the limiter
\* counts the requests that are being served.
THEOREM SlotsAreCounted == GatewaySpec => []SlotsMatchTasks
<1>1. GatewayInv => SlotsMatchTasks
  BY DEF GatewayInv
<1> QED BY <1>1, GatewayInvariance, PTL

\* A lease in use ends by its deadline or by a command of its own task.
THEOREM OthersCannotEnd == GatewaySpec => OnlyOwnCommandsEnd
<1> DEFINE Own ==
      epoch' = epoch => \A r \in Requests :
        records[r].state = "active" /\ records'[r].state # "active" =>
          records[r].left = 0 \/ task[r].pc \in {"cancelling", "releasing", "ended"}
<1>1. GatewayInv /\ [GatewayNext]_gatewayVars => [Own]_gatewayVars
  <2> SUFFICES ASSUME GatewayInv, GatewayNext, epoch' = epoch, NEW r \in Requests,
                      records[r].state = "active", records'[r].state # "active"
               PROVE  records[r].left = 0 \/ task[r].pc \in {"cancelling", "releasing", "ended"}
    BY DEF Own
  <2>0. /\ IInv /\ RequestParts(r) /\ epoch \in Nat
        /\ records'[r] # records[r] /\ ~UNCHANGED vars
    BY Parts DEF GatewayInv, IInv, TypeOK, vars
  <2>1. Drift(r) => records[r].left = 0
    BY <2>0 DEF Drift, TerminalStates
  <2>2. CASE ClientStep \/ \E q \in Requests : AskReady(q) \/ ServePoll(q)
    BY <2>0, <2>2 DEF ClientStep, AskReady, ServePoll
  <2>3. CASE Lifecycle
    <3>1. ~Restart
      BY <2>0 DEF Restart
    <3> QED BY <2>0, <2>1, <2>3, <3>1, TurnDrift, EngineReturnsDrift DEF Lifecycle
  <2>4. CASE GatewayTick
    <3>1. records'[r].state = records[r].state
      BY <2>0, <2>4 DEF GatewayTick, Aged, RequestParts, LeaseRecord
    <3> QED BY <3>1
  <2>5. ASSUME NEW q \in Requests, ServeAcquire(q) \/ ServeCancel(q) \/ ServeRelease(q)
        PROVE  records[r].left = 0 \/ task[r].pc \in {"cancelling", "releasing", "ended"}
    <3>1. \/ Submit(ServiceOf[q], q, task[q].epoch, QueueWait)
          \/ Cancel(ServiceOf[q], q, task[q].epoch)
          \/ CancelUnknown(ServiceOf[q], q, task[q].epoch)
          \/ Release(ServiceOf[q], q, task[q].epoch)
      BY <2>0, <2>5 DEF ServeAcquire, ServeCancel, ServeRelease
    <3>2. CASE q # r
      BY <2>0, <2>1, <3>1, <3>2, OthersDrift
    <3>3. CASE q = r
      <4>1. ServeCancel(r) \/ ServeRelease(r)
        <5>1. ~Submit(ServiceOf[r], r, task[r].epoch, QueueWait)
          BY DEF Submit
        <5> QED BY <2>0, <2>5, <3>3, <5>1 DEF ServeAcquire
      <4>2. UnderWay("cancel", r) \/ UnderWay("release", r)
        BY <4>1 DEF ServeCancel, ServeRelease, Take, UnderWay
      <4> QED BY <2>0, <4>2 DEF RequestParts, Messages
    <3> QED BY <3>2, <3>3
  <2> QED BY <2>2, <2>3, <2>4, <2>5 DEF GatewayNext, Serve
<1> QED BY <1>1, GatewayInvariance, PTL DEF GatewaySpec, OnlyOwnCommandsEnd, Own

=============================================================================
