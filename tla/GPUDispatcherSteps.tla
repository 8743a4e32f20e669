------------------------- MODULE GPUDispatcherSteps -------------------------
(***************************************************************************)
(* What a step of GPUDispatcher may do: its action properties, the bound   *)
(* of its registry, and that it implements GPULease, for any requests,     *)
(* services and budgets.  All rest on the inductive invariant IInv of      *)
(* GPUDispatcherProofs and on one description of a step, LeaseStep.        *)
(***************************************************************************)
EXTENDS GPUDispatcherProofs, FiniteSetTheorems

-----------------------------------------------------------------------------
(* The life of a lease.                                                    *)

Moves(r, from, to) == records[r].state \in from /\ records'[r].state \in to

\* What one step of a process may do to the lease of r.
LeaseStep(r) ==
  \/ records'[r].state = records[r].state
  \/ Moves(r, {"absent"}, {"queued"}) /\ Command /\ system_state = "ready"
  \/ Moves(r, {"absent"}, {"cancelled"}) /\ Command
  \/ Moves(r, {"queued"}, TerminalStates)
  \/ /\ Moves(r, {"queued"}, {"starting"})
     /\ records[r].left # 0
     /\ BeginStart
     /\ system_state = "ready"
  \/ /\ Moves(r, {"starting"}, {"active"})
     /\ ~records[r].cancel_requested
     /\ system_state = "ready"
  \/ Moves(r, {"starting"}, {"stopping", "failed"})
  \/ Moves(r, {"active"}, {"stopping"})
  \/ Moves(r, {"stopping"}, TerminalStates)
  \/ Moves(r, TerminalStates, {"absent"}) /\ records[r].left = 0

\* A prune forgets ended leases whose retention is over.
LEMMA PrunedStep ==
  ASSUME TypeOK, NEW r \in Requests, records'[r] = Pruned(records)[r]
  PROVE  LeaseStep(r)
  BY PrunedPointwise DEF LeaseStep, Moves, NoLease

\* A pass of expiry and prune ends queued leases and forgets ended ones.
LEMMA HousekeptStep ==
  ASSUME TypeOK, NEW r \in Requests, records'[r] = Housekept[r]
  PROVE  LeaseStep(r)
<1>1. MarkTerminal(records[r], "expired").state = "expired"
  BY DEF TypeOK, MarkTerminal, LeaseRecord
<1> QED
  BY <1>1, HousekeptPointwise DEF LeaseStep, Moves, NoLease, TerminalStates

LEMMA CommandLeaseStep ==
  ASSUME IInv, Command, NEW r \in Requests
  PROVE  LeaseStep(r)
<1> USE DEF IInv
<1>0. TypeOK
  OBVIOUS
<1> PICK q \in Requests, service \in Services \cup {UnknownService}, e \in 0..epoch :
           \/ \E wait \in 0..(MaxQueueWait + 1) : Submit(service, q, e, wait)
           \/ Release(service, q, e)
           \/ Cancel(service, q, e)
           \/ CancelUnknown(service, q, e)
  BY DEF Command
<1>1. ASSUME NEW wait \in 0..(MaxQueueWait + 1), Submit(service, q, e, wait)
      PROVE  LeaseStep(r)
  <2>1. CASE records' = Pruned(records)
    BY <1>0, <2>1, PrunedStep
  <2>2. CASE records' = [Pruned(records) EXCEPT ![q] = QueuedLease(service, wait)]
    <3>1. CASE r = q
      BY <1>0, <1>1, <2>2, <3>1, PrunedPointwise
      DEF Submit, RequireReady, QueuedLease, LeaseStep, Moves
    <3>2. CASE r # q
      BY <1>0, <2>2, <3>2, PrunedStep, PrunedPointwise
    <3> QED BY <3>1, <3>2
  <2> QED BY <1>1, <2>1, <2>2 DEF Submit
<1>2. ASSUME NEW target \in TerminalStates, RequestStop(service, q, e, target)
      PROVE  LeaseStep(r)
  <2>1. /\ records' = [records EXCEPT ![q] = StopRequested(records[q], target)]
        /\ records[q] \in LeaseRecord
        /\ records[q].state \in {"queued"} \cup OwningStates
    BY <1>2 DEF RequestStop, TypeOK, LeaseRecord
  <2>2. CASE r = q
    <3>1. records'[r] = StopRequested(records[r], target)
      BY <2>1, <2>2 DEF TypeOK
    <3> QED
      BY <2>1, <2>2, <3>1, StopRequestedFacts DEF LeaseStep, Moves, OwningStates
  <2>3. CASE r # q
    BY <2>1, <2>3 DEF LeaseStep, TypeOK
  <2> QED BY <2>2, <2>3
<1>3. ASSUME CancelUnknown(service, q, e)
      PROVE  LeaseStep(r)
  <2>1. CASE records' = Pruned(records)
    BY <1>0, <2>1, PrunedStep
  <2>2. CASE records' = [Pruned(records) EXCEPT ![q] = Tombstone(service)]
    <3>1. CASE r = q
      BY <1>0, <1>3, <2>2, <3>1, PrunedPointwise
      DEF CancelUnknown, Tombstone, LeaseStep, Moves
    <3>2. CASE r # q
      BY <1>0, <2>2, <3>2, PrunedStep, PrunedPointwise
    <3> QED BY <3>1, <3>2
  <2> QED BY <1>3, <2>1, <2>2 DEF CancelUnknown
<1> QED
  BY <1>1, <1>2, <1>3 DEF Release, Cancel, TerminalStates

\* The lease that is handed the GPU is queued, and its deadline has not
\* passed: expiry has just gone through the queue it was found in.
LEMMA BeginStartStep ==
  ASSUME IInv, BeginStart, NEW r \in Requests
  PROVE  LeaseStep(r)
<1> USE DEF IInv
<1>0. TypeOK
  OBVIOUS
<1>1. PICK i \in DOMAIN queue :
        /\ IsNextQueued(Housekept, i)
        /\ records' = [Housekept EXCEPT ![queue[i]].state = "starting",
                                        ![queue[i]].left = 0]
  BY DEF BeginStart
<1>2. Housekept \in [Requests -> LeaseRecord] /\ queue[i] \in Requests
  BY <1>0, HousekeptPointwise DEF TypeOK
<1>3. CASE r = queue[i]
  <2>1. Housekept[r].state = "queued" /\ records'[r].state = "starting"
    BY <1>1, <1>2, <1>3 DEF IsNextQueued, LeaseRecord
  <2>2. Housekept[r] = records[r]
    BY <1>0, <2>1, HousekeptStates
  <2>3. MarkTerminal(records[r], "expired").state = "expired" /\ NoLease.state = "absent"
    BY DEF TypeOK, MarkTerminal, LeaseRecord, NoLease
  <2>4. ~(records[r].state = "queued" /\ records[r].left = 0)
    BY <1>0, <1>3, <2>1, <2>2, <2>3, HousekeptPointwise
  <2> QED BY <2>1, <2>2, <2>4 DEF BeginStart, LeaseStep, Moves
<1>4. CASE r # queue[i]
  BY <1>0, <1>1, <1>2, <1>4, HousekeptStep
<1> QED BY <1>3, <1>4

LEMMA BeginStopStep ==
  ASSUME IInv, BeginStop, NEW r \in Requests
  PROVE  LeaseStep(r)
<1> USE DEF IInv
<1>0. TypeOK /\ current \in Requests /\ Housekept \in [Requests -> LeaseRecord]
  BY HousekeptPointwise DEF BeginStop, TypeOK
<1>1. CASE r = current
  <2>1. records[r].state \in OwningStates
    BY <1>0, <1>1, DispatcherAssumption DEF OwnerPhase, BeginStop, DispatcherAssumption
  <2>2. Housekept[r] = records[r]
    BY <1>0, <2>1, HousekeptStates
  <2>3. records[r] \in LeaseRecord
    BY <1>0 DEF TypeOK
  <2>4. /\ records'[r].state = "stopping"
        /\ records[r].state \in {"active", "stopping"}
    BY <1>0, <1>1, <2>2, <2>3
    DEF BeginStop, MustStop, DeadlinePassed, LeaseRecord
  <2> QED BY <2>4 DEF LeaseStep, Moves
<1>2. CASE r # current
  <2>1. records'[r] = Housekept[r]
    BY <1>0, <1>2 DEF BeginStop
  <2> QED BY <1>0, <2>1, HousekeptStep
<1> QED BY <1>1, <1>2

LEMMA EngineReturnsStep ==
  ASSUME IInv, EngineReturns, NEW r \in Requests
  PROVE  LeaseStep(r)
<1> USE DEF IInv
<1>1. CASE ReconcileSucceeded \/ ReconcileFailed \/ StopFailed
  BY <1>1 DEF ReconcileSucceeded, ReconcileFailed, StopFailed, LeaseStep
<1>2. CASE StartSucceeded \/ StartFailed \/ StartUncertain \/ StopSucceeded
  <2>0. current \in Requests /\ records[current] \in LeaseRecord
    BY <1>2 DEF StartSucceeded, StartFailed, StartUncertain, StopSucceeded,
                WorkerPhase, TypeOK
  <2>1. CASE r # current
    BY <1>2, <2>0, <2>1
    DEF StartSucceeded, StartFailed, StartUncertain, StopSucceeded, LeaseStep, TypeOK
  <2>2. CASE r = current /\ StartSucceeded
    <3>1. /\ records'[r] = Started(records[r])
          /\ records[r].state = "starting"
          /\ system_state = "ready"
      BY <2>0, <2>2 DEF StartSucceeded, WorkerPhase, TypeOK
    <3> QED BY <2>0, <2>2, <3>1, StartedFacts DEF LeaseStep, Moves, LeaseRecord
  <2>3. CASE r = current /\ (StartFailed \/ StartUncertain)
    <3>1. /\ records'[r] = MarkTerminal(records[r], "failed")
          /\ records[r].state = "starting"
      BY <2>0, <2>3 DEF StartFailed, StartUncertain, WorkerPhase, TypeOK
    <3>2. records'[r].state = "failed"
      BY <2>0, <2>3, <3>1 DEF MarkTerminal, LeaseRecord
    <3> QED BY <3>1, <3>2 DEF LeaseStep, Moves
  <2>4. CASE r = current /\ StopSucceeded
    <3> DEFINE state == IF records[r].terminal_target = "none"
                        THEN "released" ELSE records[r].terminal_target
    <3>1. /\ records'[r] = MarkTerminal(records[r], state)
          /\ records[r].state = "stopping"
      BY <2>0, <2>4 DEF StopSucceeded, WorkerPhase, TypeOK
    <3>2. state \in TerminalStates
      BY <2>0, <2>4 DEF LeaseRecord, TerminalStates
    <3>3. records'[r].state = state
      BY <2>0, <2>4, <3>1 DEF MarkTerminal, LeaseRecord
    <3> QED BY <3>1, <3>2, <3>3 DEF LeaseStep, Moves
  <2> QED BY <1>2, <2>1, <2>2, <2>3, <2>4
<1> QED BY <1>1, <1>2 DEF EngineReturns

\* Time moves no lease.
LEMMA TickStep ==
  ASSUME IInv, Tick, NEW r \in Requests
  PROVE  records'[r].state = records[r].state
  BY DEF IInv, Tick, Aged, TypeOK, LeaseRecord

\* Whatever happens in one process, each lease goes one way through its life.
LEMMA LeaseLife ==
  ASSUME IInv, [Next]_vars, SameProcess, NEW r \in Requests
  PROVE  LeaseStep(r)
<1>1. CASE WorkerWaits
  BY <1>1, HousekeptStep DEF WorkerWaits, IInv
<1>2. CASE WorkerReturns \/ Close \/ UNCHANGED vars
  BY <1>2 DEF WorkerReturns, Close, vars, LeaseStep
<1>3. ~Restart
  BY DEF Restart, SameProcess, IInv, TypeOK
<1>4. CASE Tick
  BY <1>4, TickStep DEF LeaseStep
<1> QED
  BY <1>1, <1>2, <1>3, <1>4, CommandLeaseStep, BeginStartStep, BeginStopStep,
     EngineReturnsStep
  DEF Next, WorkerTurn

\* A new process is another process, and everything else stays in one.
LEMMA OtherProcess ==
  ASSUME TypeOK, [Next]_vars
  PROVE  SameProcess <=> ~Restart
<1>1. Restart => ~SameProcess
  BY DEF Restart, SameProcess, TypeOK
<1>2. ~Restart => SameProcess
  BY DEF SameProcess, Next, vars, Command, Submit, Release, Cancel, RequestStop,
         CancelUnknown, Close, WorkerTurn, WorkerReturns, WorkerWaits, BeginStart,
         BeginStop, EngineReturns, ReconcileSucceeded, ReconcileFailed,
         StartSucceeded, StartFailed, StartUncertain, StopSucceeded, StopFailed, Tick
<1> QED BY <1>1, <1>2

\* Only a new process leaves the degraded state.
LEMMA DegradedStays ==
  ASSUME IInv, [Next]_vars, SameProcess, system_state = "degraded"
  PROVE  system_state' = "degraded"
<1>1. worker # "reconcile" /\ ~Restart
  BY DEF IInv, WorkerPhase, Restart, SameProcess, TypeOK
<1>2. CASE Command
  BY <1>2 DEF Command, Submit, Release, Cancel, RequestStop, CancelUnknown
<1>3. CASE WorkerTurn \/ Close \/ Tick \/ UNCHANGED vars
  BY <1>3 DEF WorkerTurn, WorkerReturns, WorkerWaits, BeginStart, BeginStop,
              Close, Tick, vars
<1>4. CASE EngineReturns
  BY <1>1, <1>4
  DEF EngineReturns, ReconcileSucceeded, ReconcileFailed, StartSucceeded,
      StartFailed, StartUncertain, StopSucceeded, StopFailed
<1> QED BY <1>1, <1>2, <1>3, <1>4 DEF Next

-----------------------------------------------------------------------------
(* The action properties.                                                  *)

\* Late or repeated commands never change how a lease ended, and its record
\* is kept for the whole retention.
THEOREM EndIsFinal == Spec => EndedIsFinal
<1>1. IInv /\ [Next]_vars =>
        [SameProcess => \A r \in Requests :
           records[r].state \in TerminalStates =>
             \/ records'[r].state = records[r].state
             \/ records[r].left = 0 /\ records'[r].state = "absent"]_vars
  BY LeaseLife DEF LeaseStep, Moves, TerminalStates
<1> QED BY <1>1, Invariance, PTL DEF Spec, EndedIsFinal

\* A release or cancel that arrives while docker start runs wins: the lease
\* is never active, however the start ends.
THEOREM CancelWins == Spec => CancelBeatsStart
<1>1. IInv /\ [Next]_vars =>
        [SameProcess => \A r \in Requests :
           records[r].state = "starting" /\ records[r].cancel_requested =>
             records'[r].state \in {"starting", "stopping", "failed"}]_vars
  BY LeaseLife DEF LeaseStep, Moves, TerminalStates
<1> QED BY <1>1, Invariance, PTL DEF Spec, CancelBeatsStart

\* A lease whose queue deadline has passed is expired, never started, however
\* long the worker was busy.
THEOREM LateIsNotStarted == Spec => NoLateStart
<1>1. IInv /\ [Next]_vars =>
        [\A r \in Requests :
           records[r].state = "queued" /\ records[r].left = 0 =>
             records'[r].state # "starting"]_vars
  <2> SUFFICES ASSUME IInv, [Next]_vars, NEW r \in Requests,
                      records[r].state = "queued", records[r].left = 0
               PROVE  records'[r].state # "starting"
    OBVIOUS
  <2>1. CASE SameProcess
    BY <2>1, LeaseLife DEF LeaseStep, Moves, TerminalStates
  <2>2. CASE ~SameProcess
    <3>1. Restart
      BY <2>2, OtherProcess DEF IInv
    <3> QED BY <3>1 DEF Restart, NoLease
  <2> QED BY <2>1, <2>2
<1> QED BY <1>1, Invariance, PTL DEF Spec, NoLateStart

\* Once the engines are in doubt the dispatcher stays degraded, admits nobody,
\* starts nothing and makes no lease active, until a new process.
THEOREM DegradedIsInert == Spec => DegradedGrantsNothing
<1>1. IInv /\ [Next]_vars =>
        [SameProcess /\ system_state = "degraded" =>
           /\ system_state' = "degraded"
           /\ \A r \in Requests : records'[r].state \in {"queued", "starting", "active"} =>
                records'[r].state = records[r].state]_vars
  BY LeaseLife, DegradedStays DEF LeaseStep, Moves, TerminalStates
<1> QED BY <1>1, Invariance, PTL DEF Spec, DegradedGrantsNothing

\* First come, first served: the worker takes the first entry of _queue that
\* is still queued after the expiry.
THEOREM FirstComeFirstServed == Spec => NoOvertaking
<1>1. IInv /\ [Next]_vars =>
        [(\A i, j \in DOMAIN queue : queue[i] = queue[j] => i = j) =>
           \A i \in DOMAIN queue :
             records[queue[i]].state = "queued" /\ records'[queue[i]].state = "starting" =>
               \A j \in 1..(i - 1) : records'[queue[j]].state # "queued"]_vars
  <2> SUFFICES ASSUME IInv, [Next]_vars,
                      \A i, j \in DOMAIN queue : queue[i] = queue[j] => i = j,
                      NEW i \in DOMAIN queue,
                      records[queue[i]].state = "queued",
                      records'[queue[i]].state = "starting",
                      NEW j \in 1..(i - 1)
               PROVE  records'[queue[j]].state # "queued"
    OBVIOUS
  <2>0. /\ TypeOK
        /\ Housekept \in [Requests -> LeaseRecord]
        /\ i \in 1..Len(queue) /\ j \in 1..Len(queue)
        /\ queue[i] \in Requests /\ queue[j] \in Requests
    BY HousekeptPointwise DEF IInv, TypeOK
  <2>1. BeginStart
    <3>1. Restart => records'[queue[i]].state = "absent"
      BY <2>0 DEF Restart, NoLease
    <3>2. SameProcess
      BY <2>0, <3>1, OtherProcess
    <3> QED BY <2>0, <3>2, LeaseLife DEF LeaseStep, Moves, TerminalStates
  <2>2. PICK k \in DOMAIN queue :
          /\ IsNextQueued(Housekept, k)
          /\ records' = [Housekept EXCEPT ![queue[k]].state = "starting",
                                          ![queue[k]].left = 0]
    BY <2>1 DEF BeginStart
  <2>3. k \in 1..Len(queue) /\ queue[k] \in Requests
    BY <2>0 DEF TypeOK
  <2>4. queue[i] = queue[k]
    <3> SUFFICES ASSUME queue[i] # queue[k] PROVE FALSE
      OBVIOUS
    <3>1. Housekept[queue[i]].state = "starting"
      BY <2>0, <2>2, <2>3
    <3> QED BY <2>0, <3>1, HousekeptStates DEF OwningStates
  <2>5. i = k
    BY <2>4
  <2>6. Housekept[queue[j]].state # "queued"
    BY <2>2, <2>5 DEF IsNextQueued
  <2> QED BY <2>0, <2>2, <2>3, <2>6 DEF LeaseRecord
<1> QED BY <1>1, Invariance, PTL DEF Spec, NoOvertaking

-----------------------------------------------------------------------------
(* The registry is bounded.                                                *)

LEMMA KnownIsFinite ==
  ASSUME NEW recs
  PROVE  IsFiniteSet(Known(recs)) /\ Cardinality(Known(recs)) \in Nat
<1>1. IsFiniteSet(Requests)
  BY RequestsAssumption DEF RequestsAssumption
<1>2. Known(recs) \in SUBSET Requests
  BY DEF Known
<1> QED BY <1>1, <1>2, FS_Subset, FS_CardinalityType

\* A step that makes no record keeps the bound.
LEMMA NoNewRecord ==
  ASSUME RegistryIsBounded, Known(records') \subseteq Known(records)
  PROVE  RegistryIsBounded'
<1>1. Cardinality(Known(records')) <= Cardinality(Known(records))
  BY KnownIsFinite, FS_Subset
<1> QED
  BY <1>1, KnownIsFinite, DispatcherAssumption
  DEF RegistryIsBounded, DispatcherAssumption

\* submit and cancel make one, after the prune has left room for it.
LEMMA OneNewRecord ==
  ASSUME NEW recs, NEW r, HasRoom(recs), Known(records') \subseteq Known(recs) \cup {r}
  PROVE  RegistryIsBounded'
<1>1. /\ IsFiniteSet(Known(recs) \cup {r})
      /\ Cardinality(Known(recs) \cup {r}) <= Cardinality(Known(recs)) + 1
      /\ Cardinality(Known(recs) \cup {r}) \in Nat
  BY KnownIsFinite, FS_AddElement, FS_CardinalityType
<1>2. Cardinality(Known(records')) <= Cardinality(Known(recs) \cup {r})
  BY <1>1, FS_Subset
<1> QED
  BY <1>1, <1>2, KnownIsFinite, DispatcherAssumption
  DEF RegistryIsBounded, HasRoom, DispatcherAssumption

LEMMA BoundStep == IInv /\ RegistryIsBounded /\ [Next]_vars => RegistryIsBounded'
<1> SUFFICES ASSUME IInv, RegistryIsBounded, [Next]_vars
             PROVE  RegistryIsBounded'
  OBVIOUS
<1>0. TypeOK
  BY DEF IInv
<1>1. CASE Command
  <2> PICK q \in Requests, service \in Services \cup {UnknownService}, e \in 0..epoch :
             \/ \E wait \in 0..(MaxQueueWait + 1) : Submit(service, q, e, wait)
             \/ Release(service, q, e)
             \/ Cancel(service, q, e)
             \/ CancelUnknown(service, q, e)
    BY <1>1 DEF Command
  <2>1. Known(Pruned(records)) \subseteq Known(records)
    BY <1>0, PrunedPointwise DEF Known, NoLease
  <2>2. CASE records' = Pruned(records)
    BY <2>1, <2>2, NoNewRecord
  <2>3. ASSUME NEW new, HasRoom(Pruned(records)),
               records' = [Pruned(records) EXCEPT ![q] = new]
        PROVE  RegistryIsBounded'
    <3>1. Known(records') \subseteq Known(Pruned(records)) \cup {q}
      BY <1>0, <2>3, PrunedPointwise DEF Known
    <3> QED BY <2>3, <3>1, OneNewRecord
  <2>4. CASE Release(service, q, e) \/ Cancel(service, q, e)
    <3>1. records[q].state # "absent"
      BY <2>4 DEF Release, Cancel, RequestStop
    <3>2. \A r \in Requests \ {q} : records'[r] = records[r]
      BY <1>0, <2>4 DEF Release, Cancel, RequestStop, TypeOK
    <3>3. Known(records') \subseteq Known(records)
      BY <3>1, <3>2 DEF Known
    <3> QED BY <3>3, NoNewRecord
  <2> QED BY <2>2, <2>3, <2>4 DEF Submit, CancelUnknown
<1>2. CASE Restart
  <2>1. Known(records') \subseteq Known(records)
    BY <1>2 DEF Restart, Known, NoLease
  <2> QED BY <2>1, NoNewRecord
<1>3. CASE ~Command /\ ~Restart
  <2>1. ASSUME NEW r \in Requests, records[r].state = "absent"
        PROVE  records'[r].state = "absent"
    BY <1>0, <1>3, <2>1, OtherProcess, LeaseLife DEF LeaseStep, Moves, TerminalStates
  <2>2. Known(records') \subseteq Known(records)
    BY <2>1 DEF Known
  <2> QED BY <2>2, NoNewRecord
<1> QED BY <1>1, <1>2, <1>3

\* max_records bounds the registry, with the refusals of unknown ids in it.
THEOREM RegistryStaysBounded == Spec => []RegistryIsBounded
<1>1. Init => RegistryIsBounded
  <2> SUFFICES ASSUME Init PROVE RegistryIsBounded
    OBVIOUS
  <2>1. Known(records) = {}
    BY DEF Init, Known, NoLease
  <2> QED
    BY <2>1, FS_EmptySet, DispatcherAssumption
    DEF RegistryIsBounded, DispatcherAssumption
<1> QED BY <1>1, BoundStep, Invariance, PTL DEF Spec

-----------------------------------------------------------------------------
(* The refinement of GPULease.                                             *)

\* The refinement mapping, on records and on the system state.
LEMMA PhaseFacts ==
  ASSUME NEW lease \in LeaseRecord
  PROVE  /\ PhaseOf(lease) = "unknown" <=> lease.state = "absent"
         /\ PhaseOf(lease) = "waiting" <=> lease.state = "queued"
         /\ PhaseOf(lease) = "holding" <=> lease.state \in OwningStates
         /\ PhaseOf(lease) = "ended" <=> lease.state \in TerminalStates
         /\ PhaseOf(lease) \in {"unknown", "waiting", "holding", "ended"}
  BY DEF PhaseOf, LeaseRecord, OwningStates, TerminalStates

LEMMA NoLeaseIsUnknown == PhaseOf(NoLease) = "unknown"
<1>1. NoLease \in LeaseRecord
  BY RecordTypes
<1>2. NoLease.state = "absent"
  BY DEF NoLease
<1> QED BY <1>1, <1>2, PhaseFacts

LEMMA GPUFacts ==
  ASSUME TypeOK
  PROVE  /\ GPUState = "checking" <=> system_state = "reconciling"
         /\ GPUState = "usable" <=> system_state = "ready"
         /\ GPUState = "lost" <=> system_state = "degraded"
  BY DEF TypeOK, GPUState

LEMMA SamePhases ==
  ASSUME UNCHANGED records
  PROVE  UNCHANGED [r \in Requests |-> PhaseOf(records[r])]
<1>1. \A r \in Requests : PhaseOf(records[r])' = PhaseOf(records[r])
  BY DEF PhaseOf
<1> QED BY <1>1

\* What clients see of a lease that a step neither admits nor serves: it stays
\* in its phase, ends while it waits, or is forgotten.
LEMMA Tidied ==
  ASSUME TypeOK, TypeOK', NEW r \in Requests,
         \/ records'[r].state = records[r].state
         \/ Moves(r, OwningStates, OwningStates)
         \/ Moves(r, {"queued"}, TerminalStates)
         \/ Moves(r, TerminalStates, {"absent"}) /\ r # current
  PROVE  Lease!Tidied(r, PhaseOf(records[r]), PhaseOf(records[r])')
<1>1. records[r] \in LeaseRecord /\ records'[r] \in LeaseRecord
  BY DEF TypeOK
<1>2. PhaseOf(records[r])' = PhaseOf(records'[r])
  BY DEF PhaseOf
<1> QED
  BY <1>1, <1>2, PhaseFacts DEF Lease!Tidied, Moves, PhaseOf

LEMMA PrunedIsTidy ==
  ASSUME TypeOK, TypeOK', NEW r \in Requests, records'[r] = Pruned(records)[r]
  PROVE  Lease!Tidied(r, PhaseOf(records[r]), PhaseOf(records[r])')
  BY Tidied, PrunedPointwise DEF Moves, NoLease

LEMMA HousekeptIsTidy ==
  ASSUME TypeOK, TypeOK', NEW r \in Requests, records'[r] = Housekept[r]
  PROVE  Lease!Tidied(r, PhaseOf(records[r]), PhaseOf(records[r])')
<1>1. MarkTerminal(records[r], "expired").state = "expired"
  BY DEF TypeOK, MarkTerminal, LeaseRecord
<1> QED
  BY <1>1, Tidied, HousekeptPointwise DEF Moves, NoLease, TerminalStates

\* The mapped phases, request by request.
LEMMA PhasesOfStep ==
  ASSUME TypeOK, TypeOK', NEW Others \in SUBSET Requests,
         \A r \in Others :
           Lease!Tidied(r, PhaseOf(records[r]), PhaseOf(records[r])')
  PROVE  Lease!PhaseIsTotal /\ Lease!Tidy(Others)
<1>1. \A r \in Requests :
        PhaseOf(records[r])' \in {"unknown", "waiting", "holding", "ended"}
  <2> TAKE r \in Requests
  <2>1. records'[r] \in LeaseRecord
    BY DEF TypeOK
  <2> QED BY <2>1, PhaseFacts DEF PhaseOf
<1> QED
  BY <1>1 DEF Lease!PhaseIsTotal, Lease!Tidy

\* A step in which everybody is tidied is one of the abstract housekeeping.
LEMMA Housekeeping ==
  ASSUME TypeOK, TypeOK', UNCHANGED <<current, system_state>>,
         \A r \in Requests :
           Lease!Tidied(r, PhaseOf(records[r]), PhaseOf(records[r])')
  PROVE  Lease!Housekeeping
<1>1. Lease!PhaseIsTotal /\ Lease!Tidy(Requests)
  BY PhasesOfStep
<1> QED BY <1>1 DEF Lease!Housekeeping, GPUState

LEMMA CommandRefines ==
  ASSUME IInv, TypeOK', Command
  PROVE  Lease!Next
<1>0. TypeOK
  BY DEF IInv
<1> PICK q \in Requests, service \in Services \cup {UnknownService}, e \in 0..epoch :
           \/ \E wait \in 0..(MaxQueueWait + 1) : Submit(service, q, e, wait)
           \/ Release(service, q, e)
           \/ Cancel(service, q, e)
           \/ CancelUnknown(service, q, e)
  BY DEF Command
<1>1. UNCHANGED <<current, system_state>>
  BY DEF Submit, Release, Cancel, RequestStop, CancelUnknown
<1>2. CASE records' = Pruned(records)
  BY <1>0, <1>1, <1>2, PrunedIsTidy, Housekeeping DEF Lease!Next
<1>3. ASSUME NEW new, records[q].state = "absent",
             records' = [Pruned(records) EXCEPT ![q] = new],
             \/ new.state = "queued" /\ system_state = "ready"
             \/ new.state = "cancelled"
      PROVE  Lease!Next
  <2>1. \A r \in Requests \ {q} :
          Lease!Tidied(r, PhaseOf(records[r]), PhaseOf(records[r])')
    BY <1>0, <1>3, PrunedIsTidy, PrunedPointwise
  <2>2. Lease!PhaseIsTotal /\ Lease!Tidy(Requests \ {q})
    BY <1>0, <2>1, PhasesOfStep
  <2>3. records'[q] = new /\ records'[q] \in LeaseRecord /\ records[q] \in LeaseRecord
    BY <1>0, <1>3, PrunedPointwise DEF TypeOK
  <2>4. /\ PhaseOf(records[q]) = "unknown"
        /\ PhaseOf(records'[q]) \in {"waiting", "ended"}
        /\ PhaseOf(records'[q]) = "waiting" => system_state = "ready"
    BY <1>3, <2>3, PhaseFacts DEF TerminalStates
  <2>5. PhaseOf(records[q])' = PhaseOf(records'[q])
    BY DEF PhaseOf
  <2>6. GPUState' = GPUState
    BY <1>1 DEF GPUState
  <2>7. Lease!Admit(q) \/ Lease!Refuse(q)
    BY <1>0, <1>1, <2>2, <2>4, <2>5, <2>6, GPUFacts DEF Lease!Admit, Lease!Refuse
  <2> QED BY <2>7 DEF Lease!Next
<1>4. ASSUME NEW target \in TerminalStates, RequestStop(service, q, e, target)
      PROVE  Lease!Next
  <2>1. /\ records' = [records EXCEPT ![q] = StopRequested(records[q], target)]
        /\ records[q] \in LeaseRecord
        /\ records[q].state \in {"queued"} \cup OwningStates
    BY <1>0, <1>4 DEF RequestStop, TypeOK, LeaseRecord
  <2>2. ASSUME NEW r \in Requests
        PROVE  Lease!Tidied(r, PhaseOf(records[r]), PhaseOf(records[r])')
    <3>1. CASE r = q
      <4>1. records'[r] = StopRequested(records[r], target)
        BY <1>0, <2>1, <3>1 DEF TypeOK
      <4> QED
        BY <1>0, <2>1, <3>1, <4>1, StopRequestedFacts, Tidied DEF Moves, OwningStates
    <3>2. CASE r # q
      BY <1>0, <2>1, <3>2, Tidied DEF TypeOK
    <3> QED BY <3>1, <3>2
  <2> QED BY <1>0, <1>1, <2>2, Housekeeping DEF Lease!Next
<1>5. CASE Release(service, q, e) \/ Cancel(service, q, e)
  BY <1>4, <1>5 DEF Release, Cancel, TerminalStates
<1>6. ASSUME NEW wait \in 0..(MaxQueueWait + 1), Submit(service, q, e, wait)
      PROVE  Lease!Next
  BY <1>2, <1>3, <1>6 DEF Submit, QueuedLease, RequireReady
<1>7. CASE CancelUnknown(service, q, e)
  BY <1>2, <1>3, <1>7 DEF CancelUnknown, Tombstone
<1> QED BY <1>5, <1>6, <1>7

LEMMA WorkerTurnRefines ==
  ASSUME IInv, TypeOK', WorkerTurn
  PROVE  [Lease!Next]_(Lease!vars)
<1>0. TypeOK
  BY DEF IInv
<1>1. CASE WorkerReturns
  BY <1>1 DEF WorkerReturns, Lease!vars, PhaseOf, GPUState
<1>2. CASE WorkerWaits
  <2>1. UNCHANGED <<current, system_state>> /\ records' = Housekept
    BY <1>2 DEF WorkerWaits
  <2> QED BY <1>0, <2>1, HousekeptIsTidy, Housekeeping DEF Lease!Next
<1>3. CASE BeginStart
  <2>1. PICK i \in DOMAIN queue :
          /\ IsNextQueued(Housekept, i)
          /\ records' = [Housekept EXCEPT ![queue[i]].state = "starting",
                                          ![queue[i]].left = 0]
          /\ current' = queue[i]
    BY <1>3 DEF BeginStart
  <2> DEFINE q == queue[i]
  <2>2. q \in Requests /\ Housekept \in [Requests -> LeaseRecord]
    BY <1>0, HousekeptPointwise DEF TypeOK
  <2>3. Housekept[q].state = "queued" /\ records'[q].state = "starting"
    BY <2>1, <2>2 DEF IsNextQueued, LeaseRecord
  <2>4. Housekept[q] = records[q]
    BY <1>0, <2>2, <2>3, HousekeptStates
  <2>5. \A r \in Requests \ {q} :
          Lease!Tidied(r, PhaseOf(records[r]), PhaseOf(records[r])')
    BY <1>0, <2>1, <2>2, HousekeptIsTidy
  <2>6. Lease!PhaseIsTotal /\ Lease!Tidy(Requests \ {q})
    BY <1>0, <2>5, PhasesOfStep
  <2>7. PhaseOf(records[q]) = "waiting" /\ PhaseOf(records'[q]) = "holding"
    <3>1. records[q] \in LeaseRecord /\ records'[q] \in LeaseRecord
      BY <1>0, <2>2 DEF TypeOK
    <3> QED BY <2>3, <2>4, <3>1, PhaseFacts DEF OwningStates
  <2>8. PhaseOf(records[q])' = PhaseOf(records[q]') /\ GPUState = "usable" /\ GPUState' = GPUState
    BY <1>3 DEF PhaseOf, BeginStart, GPUState
  <2>9. Lease!Grant(q)
    BY <1>3, <2>1, <2>2, <2>6, <2>7, <2>8 DEF Lease!Grant, BeginStart, PhaseOf
  <2> QED BY <2>2, <2>9 DEF Lease!Next
<1>4. CASE BeginStop
  <2>1. /\ UNCHANGED <<current, system_state>>
        /\ current \in Requests
        /\ Housekept \in [Requests -> LeaseRecord]
    BY <1>0, <1>4, HousekeptPointwise DEF BeginStop, TypeOK
  <2>2. ASSUME NEW r \in Requests
        PROVE  Lease!Tidied(r, PhaseOf(records[r]), PhaseOf(records[r])')
    <3>1. CASE r = current
      <4>1. records[r].state \in OwningStates
        BY <1>4, <3>1 DEF OwnerPhase, BeginStop, IInv
      <4>2. records'[r].state = "stopping"
        BY <1>0, <1>4, <2>1, <3>1, <4>1, HousekeptStates
        DEF BeginStop, MustStop, DeadlinePassed, LeaseRecord, TypeOK
      <4> QED BY <1>0, <4>1, <4>2, Tidied DEF Moves, OwningStates
    <3>2. CASE r # current
      <4>1. records'[r] = Housekept[r]
        BY <1>4, <2>1, <3>2 DEF BeginStop
      <4> QED BY <1>0, <4>1, HousekeptIsTidy
    <3> QED BY <3>1, <3>2
  <2> QED BY <1>0, <2>1, <2>2, Housekeeping DEF Lease!Next
<1> QED BY <1>1, <1>2, <1>3, <1>4 DEF WorkerTurn

\* When the engine call returns, the owner keeps the GPU, gives it back, or
\* takes it along into the degraded state.
LEMMA EngineReturnsRefines ==
  ASSUME IInv, TypeOK', EngineReturns
  PROVE  Lease!Next
<1>0. TypeOK /\ WorkerPhase
  BY DEF IInv
<1>1. CASE ReconcileSucceeded \/ ReconcileFailed
  <2>1. Lease!Checked
    BY <1>0, <1>1, SamePhases
    DEF ReconcileSucceeded, ReconcileFailed, WorkerPhase, Lease!Checked, GPUState
  <2> QED BY <2>1 DEF Lease!Next
<1>2. ASSUME worker \in {"start", "stop"}
      PROVE  /\ current \in Requests /\ current # NoRequest
             /\ records[current] \in LeaseRecord
             /\ records[current].state \in {"starting", "stopping"}
             /\ system_state = "ready"
             /\ PhaseOf(records[current]) = "holding"
  <2>1. /\ current \in Requests /\ current # NoRequest
        /\ records[current] \in LeaseRecord
        /\ records[current].state \in {"starting", "stopping"}
        /\ system_state = "ready"
    BY <1>0, <1>2 DEF WorkerPhase, TypeOK
  <2> QED BY <2>1, PhaseFacts DEF OwningStates
<1>3. CASE StartSucceeded
  <2>1. worker \in {"start", "stop"} /\ UNCHANGED <<current, system_state>>
    BY <1>3 DEF StartSucceeded
  <2>2. ASSUME NEW r \in Requests
        PROVE  Lease!Tidied(r, PhaseOf(records[r]), PhaseOf(records[r])')
    <3>1. CASE r = current
      <4>1. records'[r] = Started(records[r])
        BY <1>0, <1>3, <3>1 DEF StartSucceeded, TypeOK
      <4>2. records'[r].state \in {"stopping", "active"}
        BY <1>2, <2>1, <3>1, <4>1, StartedFacts
      <4> QED BY <1>0, <1>2, <2>1, <3>1, <4>2, Tidied DEF Moves, OwningStates
    <3>2. CASE r # current
      BY <1>0, <1>3, <3>2, Tidied DEF StartSucceeded, TypeOK
    <3> QED BY <3>1, <3>2
  <2> QED BY <1>0, <2>1, <2>2, Housekeeping DEF Lease!Next
<1>4. ASSUME NEW state \in TerminalStates, worker \in {"start", "stop"},
             records' = [records EXCEPT ![current] = MarkTerminal(@, state)]
      PROVE  [r \in Requests |-> PhaseOf(records[r])]' =
               [[r \in Requests |-> PhaseOf(records[r])] EXCEPT ![current] = "ended"]
  <2>1. \A r \in Requests : records'[r] =
          IF r = current THEN MarkTerminal(records[r], state) ELSE records[r]
    BY <1>0, <1>4 DEF TypeOK
  <2>2. records'[current].state \in TerminalStates /\ records'[current] \in LeaseRecord
    BY <1>0, <1>2, <1>4, <2>1 DEF TypeOK, MarkTerminal, LeaseRecord
  <2>3. PhaseOf(records'[current]) = "ended"
    BY <2>2, PhaseFacts
  <2>4. \A r \in Requests :
          PhaseOf(records'[r]) = IF r = current THEN "ended" ELSE PhaseOf(records[r])
    BY <2>1, <2>3
  <2>5. \A r \in Requests : PhaseOf(records[r])' = PhaseOf(records'[r])
    BY DEF PhaseOf
  <2> QED BY <1>2, <1>4, <2>4, <2>5
<1>5. CASE StartFailed
  <2>1. Lease!GiveBack
    BY <1>2, <1>4, <1>5 DEF StartFailed, TerminalStates, Lease!GiveBack, GPUState
  <2> QED BY <2>1 DEF Lease!Next
<1>6. CASE StartUncertain
  <2>1. Lease!Lose
    BY <1>2, <1>4, <1>6 DEF StartUncertain, TerminalStates, Lease!Lose, GPUState
  <2> QED BY <2>1 DEF Lease!Next
<1>7. CASE StopSucceeded
  <2> DEFINE state == IF records[current].terminal_target = "none"
                      THEN "released" ELSE records[current].terminal_target
  <2>1. worker \in {"start", "stop"} /\ UNCHANGED system_state /\ current' = NoRequest
    BY <1>7 DEF StopSucceeded
  <2>2. state \in TerminalStates
    BY <1>2, <2>1 DEF LeaseRecord, TerminalStates
  <2>3. records' = [records EXCEPT ![current] = MarkTerminal(@, state)]
    BY <1>7 DEF StopSucceeded
  <2> HIDE DEF state
  <2>4. Lease!GiveBack
    BY <1>2, <1>4, <2>1, <2>2, <2>3 DEF Lease!GiveBack, GPUState
  <2> QED BY <2>4 DEF Lease!Next
<1>8. CASE StopFailed
  <2>1. Lease!Lose
    BY <1>2, <1>8, SamePhases DEF StopFailed, Lease!Lose, GPUState
  <2> QED BY <2>1 DEF Lease!Next
<1> QED BY <1>1, <1>3, <1>5, <1>6, <1>7, <1>8 DEF EngineReturns

\* A new process resets the lock; time and Close are not seen by it.
LEMMA ProcessRefines ==
  ASSUME IInv, TypeOK', Restart \/ Tick \/ Close \/ UNCHANGED vars
  PROVE  [Lease!Next]_(Lease!vars)
<1>0. TypeOK
  BY DEF IInv
<1>1. CASE Restart
  <2>0. \A r \in Requests : PhaseOf(records[r])' = PhaseOf(records'[r])
    BY DEF PhaseOf
  <2>1. \A r \in Requests : PhaseOf(records[r])' = "unknown"
    BY <1>1, <2>0, NoLeaseIsUnknown DEF Restart
  <2>2. Lease!Reset
    BY <1>1, <2>1 DEF Restart, Lease!Reset, GPUState
  <2> QED BY <2>2 DEF Lease!Next
<1>2. CASE Tick
  <2>1. UNCHANGED <<current, system_state>>
    BY <1>2 DEF Tick
  <2>2. \A r \in Requests : records'[r].state = records[r].state
    BY <1>2, TickStep
  <2> QED BY <1>0, <2>1, <2>2, Tidied, Housekeeping DEF Lease!Next
<1>3. CASE Close \/ UNCHANGED vars
  BY <1>3, SamePhases DEF Close, vars, Lease!vars, GPUState
<1> QED BY <1>1, <1>2, <1>3

\* Every behaviour of the lease machine, seen through the phases of the leases,
\* is one of the lock with a single holder: handlers, queue, deadlines, the
\* worker that lets go of the lock around engine calls and new processes add
\* nothing a client could tell apart from it.
THEOREM Refinement == Spec => ImplementsLease
<1>1. Init => Lease!Init
  <2> SUFFICES ASSUME Init PROVE Lease!Init
    OBVIOUS
  <2>1. \A r \in Requests : PhaseOf(records[r]) = "unknown"
    BY NoLeaseIsUnknown DEF Init
  <2> QED BY <2>1 DEF Init, Lease!Init, GPUState
<1>2. IInv /\ IInv' /\ [Next]_vars => [Lease!Next]_(Lease!vars)
  <2> SUFFICES ASSUME IInv, IInv', [Next]_vars PROVE [Lease!Next]_(Lease!vars)
    OBVIOUS
  <2>1. TypeOK'
    BY DEF IInv
  <2> QED
    BY <2>1, CommandRefines, WorkerTurnRefines, EngineReturnsRefines, ProcessRefines
    DEF Next
<1> QED BY <1>1, <1>2, Invariance, PTL DEF Spec, ImplementsLease, Lease!Spec

=============================================================================
