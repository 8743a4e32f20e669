------------------------ MODULE GPUDispatcherProofs ------------------------
(***************************************************************************)
(* Theorems about GPUDispatcher, for any set of requests and services and  *)
(* any values of the budgets.                                              *)
(***************************************************************************)
EXTENDS GPUDispatcher, TLAPS

-----------------------------------------------------------------------------
(* The inductive invariant.                                                *)

\* An owner is on its way from starting to stopped, or it is the failed
\* start of a degraded dispatcher.
OwnerPhase ==
  current # NoRequest =>
    \/ records[current].state \in OwningStates
    \/ system_state = "degraded" /\ records[current].state = "failed"

\* What the worker does agrees with the owner and with the system state.
WorkerPhase ==
  /\ worker = "reconcile" => current = NoRequest /\ system_state = "reconciling"
  /\ worker = "start" => current # NoRequest /\ records[current].state = "starting"
  /\ worker = "stop"  => current # NoRequest /\ records[current].state = "stopping"
  /\ worker \in {"start", "stop"} => system_state = "ready"

IInv ==
  /\ TypeOK
  /\ SingleOwner
  /\ OwnerPhase
  /\ WorkerPhase
  /\ QueuedIsReachable

-----------------------------------------------------------------------------
(* Records and housekeeping.                                               *)

\* Every record the code creates or updates is a well-formed LeaseRecord.
LEMMA RecordTypes ==
  /\ NoLease \in LeaseRecord
  /\ \A service \in Services, wait \in 0..MaxQueueWait :
       QueuedLease(service, wait) \in LeaseRecord
  /\ \A service \in Services : Tombstone(service) \in LeaseRecord
  /\ \A lease \in LeaseRecord, state \in TerminalStates :
       MarkTerminal(lease, state) \in LeaseRecord
<1> USE DEF LeaseRecord, OwningStates, TerminalStates
<1>1. NoLease \in LeaseRecord
  BY DispatcherAssumption DEF DispatcherAssumption, NoLease
<1>2. ASSUME NEW service \in Services, NEW wait \in 0..MaxQueueWait
      PROVE  QueuedLease(service, wait) \in LeaseRecord
  BY DispatcherAssumption DEF DispatcherAssumption, QueuedLease
<1>3. ASSUME NEW service \in Services
      PROVE  Tombstone(service) \in LeaseRecord
  BY DispatcherAssumption DEF DispatcherAssumption, Tombstone
<1>4. ASSUME NEW lease \in LeaseRecord, NEW state \in TerminalStates
      PROVE  MarkTerminal(lease, state) \in LeaseRecord
  BY DispatcherAssumption DEF DispatcherAssumption, MarkTerminal
<1> QED BY <1>1, <1>2, <1>3, <1>4

\* _prune_terminal_locked keeps a record or, once its retention is over and
\* unless it owns the GPU, forgets it.
LEMMA PrunedPointwise ==
  ASSUME TypeOK
  PROVE  /\ Pruned(records) \in [Requests -> LeaseRecord]
         /\ \A r \in Requests :
              \/ Pruned(records)[r] = records[r]
              \/ /\ records[r].state \in TerminalStates
                 /\ records[r].left = 0
                 /\ r # current
                 /\ Pruned(records)[r] = NoLease
  BY RecordTypes DEF TypeOK, Pruned

\* One pass of expiry and pruning: a lease stays as it is, a queued one past
\* its deadline is now expired, or a terminal one past its retention is
\* forgotten unless it owns the GPU.  An expired lease is not pruned at once.
LEMMA HousekeptPointwise ==
  ASSUME TypeOK
  PROVE  /\ Housekept \in [Requests -> LeaseRecord]
         /\ \A r \in Requests :
              \/ /\ Housekept[r] = records[r]
                 /\ (\E i \in DOMAIN queue : queue[i] = r) =>
                       ~(records[r].state = "queued" /\ records[r].left = 0)
              \/ /\ records[r].state = "queued"
                 /\ records[r].left = 0
                 /\ Housekept[r] = MarkTerminal(records[r], "expired")
              \/ /\ records[r].state \in TerminalStates
                 /\ records[r].left = 0
                 /\ r # current
                 /\ Housekept[r] = NoLease
<1>1. /\ Expired(records) \in [Requests -> LeaseRecord]
      /\ \A r \in Requests :
           \/ /\ Expired(records)[r] = records[r]
              /\ (\E i \in DOMAIN queue : queue[i] = r) =>
                    ~(records[r].state = "queued" /\ records[r].left = 0)
           \/ /\ records[r].state = "queued"
              /\ records[r].left = 0
              /\ Expired(records)[r] = MarkTerminal(records[r], "expired")
  BY RecordTypes DEF TypeOK, Expired, TerminalStates
<1>2. \A r \in Requests : MarkTerminal(records[r], "expired").left # 0
  BY DispatcherAssumption DEF DispatcherAssumption, TypeOK, MarkTerminal, LeaseRecord
<1>3. \A r \in Requests :
        Housekept[r] = IF /\ Expired(records)[r].state \in TerminalStates
                          /\ Expired(records)[r].left = 0
                          /\ r # current
                       THEN NoLease ELSE Expired(records)[r]
  BY DEF Housekept, Pruned
<1>4. Housekept \in [Requests -> LeaseRecord]
  BY <1>1, RecordTypes DEF Housekept, Pruned
<1>5. ASSUME NEW r \in Requests
      PROVE  \/ /\ Housekept[r] = records[r]
                /\ (\E i \in DOMAIN queue : queue[i] = r) =>
                      ~(records[r].state = "queued" /\ records[r].left = 0)
             \/ /\ records[r].state = "queued"
                /\ records[r].left = 0
                /\ Housekept[r] = MarkTerminal(records[r], "expired")
             \/ /\ records[r].state \in TerminalStates
                /\ records[r].left = 0
                /\ r # current
                /\ Housekept[r] = NoLease
  <2>1. CASE Expired(records)[r] = records[r]
    BY <1>1, <1>3, <2>1 DEF TerminalStates
  <2>2. CASE Expired(records)[r] # records[r]
    BY <1>1, <1>2, <1>3, <2>2
  <2> QED BY <2>1, <2>2
<1> QED BY <1>4, <1>5

\* What the invariant needs of a pass: owners are left alone, and no lease
\* becomes queued or an owner by it.
LEMMA HousekeptStates ==
  ASSUME TypeOK
  PROVE  /\ Housekept \in [Requests -> LeaseRecord]
         /\ \A r \in Requests :
              /\ records[r].state \in OwningStates => Housekept[r] = records[r]
              /\ r = current /\ records[r].state = "failed" =>
                   Housekept[r] = records[r]
              /\ Housekept[r].state \in OwningStates \cup {"queued"} =>
                   Housekept[r] = records[r]
<1>1. \A r \in Requests : MarkTerminal(records[r], "expired").state = "expired"
  BY DEF TypeOK, MarkTerminal, LeaseRecord
<1>2. NoLease.state = "absent"
  BY DEF NoLease
<1> QED
  BY <1>1, <1>2, HousekeptPointwise DEF OwningStates, TerminalStates

\* release and cancel end a queued lease, note the wish of one whose engine
\* starts, and make an active one stop.
LEMMA StopRequestedFacts ==
  ASSUME NEW lease \in LeaseRecord, NEW target \in TerminalStates,
         lease.state \in {"queued"} \cup OwningStates
  PROVE  /\ StopRequested(lease, target) \in LeaseRecord
         /\ lease.state = "queued" =>
              StopRequested(lease, target).state = target
         /\ lease.state = "starting" =>
              StopRequested(lease, target).state = "starting"
         /\ lease.state \in {"active", "stopping"} =>
              StopRequested(lease, target).state = "stopping"
<1> USE DEF LeaseRecord, OwningStates, TerminalStates
<1>1. CASE lease.state = "queued"
  <2>1. StopRequested(lease, target) = MarkTerminal(lease, target)
    BY <1>1 DEF StopRequested
  <2>2. MarkTerminal(lease, target).state = target
    BY DEF MarkTerminal
  <2> QED BY <1>1, <2>1, <2>2, RecordTypes
<1>2. CASE lease.state = "starting"
  BY <1>2 DEF StopRequested
<1>3. CASE lease.state = "active"
  BY <1>3 DEF StopRequested
<1>4. CASE lease.state = "stopping"
  BY <1>4 DEF StopRequested
<1> QED BY <1>1, <1>2, <1>3, <1>4

\* After a successful start the lease is active, or stopping when a release
\* or a cancel arrived meanwhile.
LEMMA StartedFacts ==
  ASSUME NEW lease \in LeaseRecord
  PROVE  /\ Started(lease) \in LeaseRecord
         /\ Started(lease).state =
              IF lease.cancel_requested THEN "stopping" ELSE "active"
  BY DispatcherAssumption
  DEF DispatcherAssumption, Started, LeaseRecord, OwningStates, TerminalStates

-----------------------------------------------------------------------------
(* The invariant holds initially and every action preserves it.            *)

LEMMA InitInvariant == Init => IInv
<1> SUFFICES ASSUME Init PROVE IInv
  OBVIOUS
<1>1. TypeOK
  <2>1. NoLease \in LeaseRecord
    BY RecordTypes
  <2>2. <<>> \in Seq(Requests)
    OBVIOUS
  <2> QED BY <2>1, <2>2 DEF Init, TypeOK
<1>2. \A r \in Requests : records[r].state = "absent"
  BY DEF Init, NoLease
<1> QED
  BY <1>1, <1>2 DEF Init, IInv, SingleOwner, OwnerPhase, WorkerPhase,
                   QueuedIsReachable, OwningStates

\* Handlers: the owner's record changes only through _request_stop, and the
\* queue only grows, by the id that was just admitted.
LEMMA CommandInvariant == IInv /\ Command => IInv'
<1> SUFFICES ASSUME IInv,
                    NEW r \in Requests,
                    NEW service \in Services \cup {UnknownService},
                    NEW e \in 0..epoch,
                    \/ \E wait \in 0..(MaxQueueWait + 1) : Submit(service, r, e, wait)
                    \/ Release(service, r, e)
                    \/ Cancel(service, r, e)
                    \/ CancelUnknown(service, r, e)
             PROVE  IInv'
  BY DEF Command
<1> USE DEF IInv
<1>0. TypeOK
  OBVIOUS
<1>1. ASSUME NEW wait \in 0..(MaxQueueWait + 1), Submit(service, r, e, wait)
      PROVE  IInv'
  <2>1. /\ service \in Services
        /\ wait \in 0..MaxQueueWait
        /\ records[r].state = "absent"
        /\ UNCHANGED <<epoch, current, system_state, closed, worker>>
    BY <1>1, DispatcherAssumption
    DEF Submit, HasService, AcceptsWait, DispatcherAssumption
  <2>2. CASE records' = Pruned(records) /\ queue' = queue
    <3>1. TypeOK'
      BY <1>0, <2>1, <2>2, PrunedPointwise DEF TypeOK
    <3>2. (SingleOwner /\ OwnerPhase /\ WorkerPhase /\ QueuedIsReachable)'
      BY <1>0, <2>1, <2>2, PrunedPointwise
      DEF SingleOwner, OwnerPhase, WorkerPhase, QueuedIsReachable,
          NoLease, OwningStates, TerminalStates, TypeOK
    <3> QED BY <3>1, <3>2
  <2>3. CASE /\ records' = [Pruned(records) EXCEPT ![r] = QueuedLease(service, wait)]
             /\ queue' = Append(queue, r)
    <3>1. TypeOK'
      BY <1>0, <2>1, <2>3, PrunedPointwise, RecordTypes DEF TypeOK
    <3>2. /\ records'[r].state = "queued"
          /\ \A s \in Requests \ {r} : records'[s] = Pruned(records)[s]
      BY <1>0, <2>3, PrunedPointwise DEF QueuedLease
    <3>3. r # current
      BY <2>1, DispatcherAssumption DEF OwnerPhase, OwningStates, DispatcherAssumption
    <3>4. (SingleOwner /\ OwnerPhase /\ WorkerPhase)'
      BY <1>0, <2>1, <3>2, <3>3, PrunedPointwise
      DEF SingleOwner, OwnerPhase, WorkerPhase, NoLease, OwningStates,
          TerminalStates, TypeOK
    <3>5. QueuedIsReachable'
      <4> SUFFICES ASSUME NEW s \in Requests, records'[s].state = "queued"
                   PROVE  \E i \in DOMAIN queue' : queue'[i] = s
        BY DEF QueuedIsReachable
      <4>1. CASE s = r
        BY <2>3, <4>1 DEF TypeOK
      <4>2. CASE s # r
        <5>1. records[s].state = "queued"
          BY <1>0, <3>2, <4>2, PrunedPointwise DEF NoLease
        <5>2. PICK i \in DOMAIN queue : queue[i] = s
          BY <5>1 DEF QueuedIsReachable
        <5> QED BY <2>3, <5>2 DEF TypeOK
      <4> QED BY <4>1, <4>2
    <3> QED BY <3>1, <3>4, <3>5
  <2> QED BY <1>1, <2>2, <2>3 DEF Submit
<1>2. ASSUME NEW target \in TerminalStates, RequestStop(service, r, e, target)
      PROVE  IInv'
  <2>1. /\ records' = [records EXCEPT ![r] = StopRequested(records[r], target)]
        /\ UNCHANGED <<epoch, queue, current, system_state, closed, worker>>
        /\ records[r] \in LeaseRecord
        /\ records[r].state \in {"queued"} \cup OwningStates
    BY <1>2 DEF RequestStop, TypeOK, LeaseRecord
  <2>2. TypeOK'
    BY <2>1, StopRequestedFacts DEF TypeOK
  <2>3. /\ \A s \in Requests \ {r} : records'[s] = records[s]
        /\ records[r].state = "queued" => records'[r].state = target
        /\ records[r].state = "starting" => records'[r].state = "starting"
        /\ records[r].state \in {"active", "stopping"} =>
             records'[r].state = "stopping"
    BY <2>1, StopRequestedFacts DEF TypeOK
  <2> QED
    BY <2>1, <2>2, <2>3
    DEF SingleOwner, OwnerPhase, WorkerPhase, QueuedIsReachable,
        OwningStates, TerminalStates, TypeOK
<1>3. ASSUME CancelUnknown(service, r, e)
      PROVE  IInv'
  <2>1. /\ service \in Services
        /\ records[r].state = "absent"
        /\ UNCHANGED <<epoch, queue, current, system_state, closed, worker>>
    BY <1>3 DEF CancelUnknown, HasService
  <2>2. PICK tomb \in LeaseRecord :
          /\ tomb.state \in {"absent", "cancelled"}
          /\ records' = [Pruned(records) EXCEPT ![r] = tomb]
    <3>1. CASE records' = Pruned(records)
      <4>1. Pruned(records)[r].state = "absent"
        BY <1>0, <2>1, PrunedPointwise DEF NoLease
      <4> QED BY <1>0, <3>1, <4>1, PrunedPointwise
    <3>2. CASE records' = [Pruned(records) EXCEPT ![r] = Tombstone(service)]
      BY <2>1, <3>2, RecordTypes DEF Tombstone
    <3> QED BY <1>3, <3>1, <3>2 DEF CancelUnknown
  <2>3. TypeOK'
    BY <1>0, <2>1, <2>2, PrunedPointwise DEF TypeOK
  <2>4. /\ records'[r].state \in {"absent", "cancelled"}
        /\ \A s \in Requests \ {r} : records'[s] = Pruned(records)[s]
    BY <1>0, <2>2, PrunedPointwise
  <2>5. r # current
    BY <2>1, DispatcherAssumption DEF OwnerPhase, OwningStates, DispatcherAssumption
  <2> QED
    BY <1>0, <2>1, <2>3, <2>4, <2>5, PrunedPointwise
    DEF SingleOwner, OwnerPhase, WorkerPhase, QueuedIsReachable, NoLease,
        OwningStates, TerminalStates, TypeOK
<1> QED
  BY <1>1, <1>2, <1>3 DEF Release, Cancel, TerminalStates

\* Turns of the worker that make no engine call.
LEMMA WaitInvariant == IInv /\ (WorkerWaits \/ WorkerReturns) => IInv'
<1> SUFFICES ASSUME IInv, WorkerWaits \/ WorkerReturns PROVE IInv'
  OBVIOUS
<1> USE DEF IInv
<1>0. TypeOK
  OBVIOUS
<1>1. CASE WorkerWaits
  <2>1. /\ records' = Housekept
        /\ UNCHANGED <<epoch, current, system_state, closed, worker>>
    BY <1>1 DEF WorkerWaits
  <2>2. TypeOK'
    <3>1. queue' \in Seq(Requests)
      <4>1. <<>> \in Seq(Requests)
        OBVIOUS
      <4> QED BY <1>1, <4>1 DEF TypeOK, WorkerWaits
    <3> QED BY <1>0, <2>1, <3>1, HousekeptStates DEF TypeOK
  <2>3. (SingleOwner /\ OwnerPhase /\ WorkerPhase)'
    BY <1>0, <2>1, HousekeptStates
    DEF SingleOwner, OwnerPhase, WorkerPhase, OwningStates, TypeOK
  <2>4. QueuedIsReachable'
    <3> SUFFICES ASSUME NEW s \in Requests, Housekept[s].state = "queued"
                 PROVE  \E i \in DOMAIN queue' : queue'[i] = s
      BY <2>1 DEF QueuedIsReachable
    <3>1. records[s].state = "queued"
      BY <1>0, HousekeptStates
    <3>2. PICK i \in DOMAIN queue : queue[i] = s
      BY <3>1 DEF QueuedIsReachable
    <3>3. queue' = queue
      BY <1>1, <3>2 DEF WorkerWaits
    <3> QED BY <3>2, <3>3
  <2> QED BY <2>2, <2>3, <2>4
<1>2. CASE WorkerReturns
  BY <1>2 DEF WorkerReturns, TypeOK, SingleOwner, OwnerPhase, WorkerPhase,
              QueuedIsReachable
<1> QED BY <1>1, <1>2

\* The GPU goes to the next queued lease: nobody owned it, and the entries
\* that leave the queue with it are not queued any more.
LEMMA BeginStartInvariant == IInv /\ BeginStart => IInv'
<1> SUFFICES ASSUME IInv, BeginStart PROVE IInv'
  OBVIOUS
<1> USE DEF IInv
<1>0. TypeOK
  OBVIOUS
<1>1. PICK i \in DOMAIN queue :
        /\ IsNextQueued(Housekept, i)
        /\ records' = [Housekept EXCEPT ![queue[i]].state = "starting",
                                        ![queue[i]].left = 0]
        /\ current' = queue[i]
        /\ queue' = RestOfQueue(i)
  BY DEF BeginStart
<1>2. /\ current = NoRequest
      /\ system_state = "ready"
      /\ worker' = "start"
      /\ UNCHANGED <<epoch, system_state, closed>>
  BY DEF BeginStart
<1> DEFINE r == queue[i]
<1>3. r \in Requests /\ r # NoRequest /\ i \in 1..Len(queue)
  BY DispatcherAssumption DEF DispatcherAssumption, TypeOK
<1>4. Housekept \in [Requests -> LeaseRecord] /\ Housekept[r] \in LeaseRecord
  BY <1>0, <1>3, HousekeptPointwise
<1>5. records' = [Housekept EXCEPT
                    ![r] = [Housekept[r] EXCEPT !.state = "starting", !.left = 0]]
  BY <1>1, <1>4
<1>6. [Housekept[r] EXCEPT !.state = "starting", !.left = 0] \in LeaseRecord
  BY <1>4 DEF LeaseRecord, OwningStates
<1>7. /\ records' \in [Requests -> LeaseRecord]
      /\ records'[r].state = "starting"
      /\ \A s \in Requests \ {r} : records'[s] = Housekept[s]
  BY <1>3, <1>4, <1>5, <1>6 DEF LeaseRecord
<1>8. TypeOK'
  BY <1>1, <1>2, <1>3, <1>7 DEF TypeOK, RestOfQueue
<1>9. \A s \in Requests : Housekept[s].state \notin OwningStates
  BY <1>0, <1>2, HousekeptStates, DispatcherAssumption
  DEF SingleOwner, DispatcherAssumption
<1>10. (SingleOwner /\ OwnerPhase /\ WorkerPhase)'
  BY <1>1, <1>2, <1>3, <1>7, <1>9
  DEF SingleOwner, OwnerPhase, WorkerPhase, OwningStates
<1>11. QueuedIsReachable'
  <2> SUFFICES ASSUME NEW s \in Requests, records'[s].state = "queued"
               PROVE  \E j \in DOMAIN queue' : queue'[j] = s
    BY DEF QueuedIsReachable
  <2>1. s # r /\ Housekept[s].state = "queued"
    BY <1>7
  <2>2. records[s].state = "queued"
    BY <1>0, <2>1, HousekeptStates
  <2>3. PICK j \in DOMAIN queue : queue[j] = s
    BY <2>2 DEF QueuedIsReachable
  <2>4. j \in (i + 1)..Len(queue)
    BY <1>0, <1>1, <1>3, <2>1, <2>3 DEF IsNextQueued, TypeOK
  <2>5. j - i \in DOMAIN queue' /\ queue'[j - i] = s
    BY <1>0, <1>1, <1>3, <2>3, <2>4 DEF RestOfQueue, TypeOK
  <2> QED BY <2>5
<1> QED BY <1>8, <1>10, <1>11

\* The owner that must stop becomes, or stays, stopping.
LEMMA BeginStopInvariant == IInv /\ BeginStop => IInv'
<1> SUFFICES ASSUME IInv, BeginStop PROVE IInv'
  OBVIOUS
<1> USE DEF IInv
<1>0. TypeOK
  OBVIOUS
<1>1. /\ current \in Requests
      /\ worker' = "stop"
      /\ system_state = "ready"
      /\ UNCHANGED <<epoch, queue, current, system_state, closed>>
  BY DEF BeginStop, TypeOK
<1>2. Housekept \in [Requests -> LeaseRecord] /\ Housekept[current] \in LeaseRecord
  BY <1>0, <1>1, HousekeptPointwise
<1>3. PICK lease \in LeaseRecord :
        /\ lease.state = "stopping"
        /\ records' = [Housekept EXCEPT ![current] = lease]
  <2>1. CASE DeadlinePassed(Housekept[current])
    <3> DEFINE lease == [Housekept[current] EXCEPT !.state = "stopping",
                                                  !.terminal_target = "expired"]
    <3>1. lease \in LeaseRecord /\ lease.state = "stopping"
      BY <1>2 DEF LeaseRecord, OwningStates, TerminalStates
    <3>2. records' = [Housekept EXCEPT ![current] = lease]
      BY <1>2, <2>1 DEF BeginStop
    <3> QED BY <3>1, <3>2
  <2>2. CASE ~DeadlinePassed(Housekept[current])
    <3>1. Housekept[current].state = "stopping"
      BY <2>2 DEF BeginStop, MustStop
    <3>2. records' = [Housekept EXCEPT ![current] = Housekept[current]]
      BY <1>2, <2>2 DEF BeginStop
    <3> QED BY <1>2, <3>1, <3>2
  <2> QED BY <2>1, <2>2
<1>4. /\ records' \in [Requests -> LeaseRecord]
      /\ records'[current].state = "stopping"
      /\ \A s \in Requests \ {current} : records'[s] = Housekept[s]
  BY <1>1, <1>2, <1>3
<1>5. TypeOK'
  BY <1>1, <1>4 DEF TypeOK
<1>6. \A s \in Requests \ {current} :
        /\ Housekept[s].state \notin OwningStates
        /\ Housekept[s].state = "queued" => records[s].state = "queued"
  BY <1>0, HousekeptStates DEF SingleOwner
<1> QED
  BY <1>1, <1>4, <1>5, <1>6, DispatcherAssumption
  DEF SingleOwner, OwnerPhase, WorkerPhase, QueuedIsReachable, OwningStates,
      DispatcherAssumption

\* The worker records what an engine call returned.  Only the owner's record
\* changes, and it is in the phase of the call, whatever the handlers did
\* while the lock was free.
LEMMA EngineReturnsInvariant == IInv /\ EngineReturns => IInv'
<1> SUFFICES ASSUME IInv, EngineReturns PROVE IInv'
  OBVIOUS
<1> USE DEF IInv
<1>1. CASE ReconcileSucceeded \/ ReconcileFailed
  BY <1>1 DEF ReconcileSucceeded, ReconcileFailed, TypeOK, SingleOwner,
              OwnerPhase, WorkerPhase, QueuedIsReachable
<1>2. CASE StopFailed
  BY <1>2 DEF StopFailed, TypeOK, SingleOwner, OwnerPhase, WorkerPhase,
              QueuedIsReachable, OwningStates
<1>3. ASSUME worker \in {"start", "stop"}
      PROVE  /\ current \in Requests
             /\ records[current] \in LeaseRecord
             /\ records[current].state \in OwningStates
             /\ \A s \in Requests \ {current} :
                  records[s].state \notin OwningStates
  BY <1>3 DEF WorkerPhase, SingleOwner, TypeOK, OwningStates
<1>4. CASE StartSucceeded
  <2>1. /\ worker = "start" /\ worker' = "loop"
        /\ records' = [records EXCEPT ![current] = Started(records[current])]
        /\ UNCHANGED <<epoch, queue, current, system_state, closed>>
    BY <1>4 DEF StartSucceeded
  <2>2. /\ records' \in [Requests -> LeaseRecord]
        /\ records'[current].state \in {"stopping", "active"}
        /\ \A s \in Requests \ {current} : records'[s] = records[s]
    BY <1>3, <2>1, StartedFacts DEF TypeOK
  <2> QED
    BY <1>3, <2>1, <2>2 DEF TypeOK, SingleOwner, OwnerPhase, WorkerPhase,
                            QueuedIsReachable, OwningStates
<1>5. CASE StartFailed \/ StartUncertain \/ StopSucceeded
  <2>1. /\ worker \in {"start", "stop"} /\ worker' = "loop"
        /\ UNCHANGED <<epoch, queue, closed>>
    BY <1>5 DEF StartFailed, StartUncertain, StopSucceeded
  <2>2. PICK state \in TerminalStates :
          /\ records' = [records EXCEPT
                           ![current] = MarkTerminal(records[current], state)]
          /\ \/ current' = NoRequest /\ system_state' = system_state
             \/ /\ current' = current /\ system_state' = "degraded"
                /\ state = "failed"
    <3>1. CASE StartFailed \/ StartUncertain
      BY <3>1 DEF StartFailed, StartUncertain, TerminalStates
    <3>2. CASE StopSucceeded
      <4> DEFINE state == IF records[current].terminal_target = "none"
                          THEN "released" ELSE records[current].terminal_target
      <4>1. state \in TerminalStates
        BY <1>3, <2>1 DEF LeaseRecord, TerminalStates
      <4> QED BY <3>2, <4>1 DEF StopSucceeded
    <3> QED BY <1>5, <3>1, <3>2
  <2>3. /\ records' \in [Requests -> LeaseRecord]
        /\ records'[current].state = state
        /\ \A s \in Requests \ {current} : records'[s] = records[s]
    <3>1. MarkTerminal(records[current], state) \in LeaseRecord
      BY <1>3, <2>1, RecordTypes
    <3>2. MarkTerminal(records[current], state).state = state
      BY <1>3, <2>1 DEF MarkTerminal, LeaseRecord
    <3> QED BY <1>3, <2>1, <2>2, <3>1, <3>2 DEF TypeOK
  <2>4. TypeOK'
    BY <2>1, <2>2, <2>3 DEF TypeOK
  <2>5. QueuedIsReachable'
    BY <1>3, <2>1, <2>3 DEF QueuedIsReachable, TerminalStates
  <2> QED
    BY <1>3, <2>1, <2>2, <2>3, <2>4, <2>5
    DEF SingleOwner, OwnerPhase, WorkerPhase, OwningStates, TerminalStates
<1> QED BY <1>1, <1>2, <1>4, <1>5 DEF EngineReturns

LEMMA ProcessInvariant == IInv /\ (Restart \/ Tick \/ Close) => IInv'
<1> SUFFICES ASSUME IInv, Restart \/ Tick \/ Close PROVE IInv'
  OBVIOUS
<1> USE DEF IInv
<1>1. CASE Restart
  <2>1. /\ NoLease \in LeaseRecord
        /\ NoLease.state = "absent"
    BY RecordTypes DEF NoLease
  <2>2. /\ records' = [r \in Requests |-> NoLease]
        /\ queue' = <<>> /\ current' = NoRequest /\ epoch' = epoch + 1
        /\ system_state' = "reconciling" /\ closed' = FALSE
        /\ worker' = "reconcile"
    BY <1>1 DEF Restart
  <2>3. TypeOK'
    <3>1. <<>> \in Seq(Requests)
      OBVIOUS
    <3>2. records' \in [Requests -> LeaseRecord]
      BY <2>1, <2>2
    <3>3. epoch' \in Nat
      BY <2>2 DEF TypeOK
    <3> QED BY <2>2, <3>1, <3>2, <3>3 DEF TypeOK
  <2> QED
    BY <2>1, <2>2, <2>3
    DEF SingleOwner, OwnerPhase, WorkerPhase, QueuedIsReachable, OwningStates
<1>2. CASE Tick
  <2>1. UNCHANGED <<epoch, queue, current, system_state, closed, worker>>
    BY <1>2 DEF Tick
  <2>2. ASSUME NEW lease \in LeaseRecord
        PROVE  Aged(lease) \in LeaseRecord /\ Aged(lease).state = lease.state
    BY DEF Aged, LeaseRecord
  <2>3. /\ records' \in [Requests -> LeaseRecord]
        /\ \A r \in Requests : records'[r].state = records[r].state
    BY <1>2, <2>2 DEF Tick, TypeOK
  <2> QED
    BY <2>1, <2>3
    DEF TypeOK, SingleOwner, OwnerPhase, WorkerPhase, QueuedIsReachable
<1>3. CASE Close
  BY <1>3 DEF Close, TypeOK, SingleOwner, OwnerPhase, WorkerPhase,
              QueuedIsReachable
<1> QED BY <1>1, <1>2, <1>3

LEMMA StepInvariant == IInv /\ [Next]_vars => IInv'
<1>1. IInv /\ UNCHANGED vars => IInv'
  BY DEF vars, IInv, TypeOK, SingleOwner, OwnerPhase, WorkerPhase,
         QueuedIsReachable
<1> QED
  BY <1>1, CommandInvariant, WaitInvariant, BeginStartInvariant,
     BeginStopInvariant, EngineReturnsInvariant, ProcessInvariant
  DEF Next, WorkerTurn

-----------------------------------------------------------------------------
(* Theorems.                                                               *)

\* The inductive invariant holds in every reachable state.
THEOREM Invariance == Spec => []IInv
<1>1. Init => IInv
  BY InitInvariant
<1>2. IInv /\ [Next]_vars => IInv'
  BY StepInvariant
<1> QED BY <1>1, <1>2, PTL DEF Spec

\* Every variable keeps its type, for any number of requests and services.
THEOREM TypeCorrect == Spec => []TypeOK
<1>1. IInv => TypeOK
  BY DEF IInv
<1> QED BY <1>1, Invariance, PTL

\* At most one lease owns the GPU, and _current_request_id names it, however
\* handlers, worker and engine calls interleave.
THEOREM MutualExclusion == Spec => []SingleOwner
<1>1. IInv => SingleOwner
  BY DEF IInv
<1> QED BY <1>1, Invariance, PTL

\* The worker never finds the record of its owner gone, or in another phase
\* than the one it works on.
THEOREM OwnerStaysRecorded == Spec => []OwnerIsRecorded
<1>1. IInv => OwnerIsRecorded
  BY DEF IInv, OwnerIsRecorded, OwnerPhase, WorkerPhase, OwningStates
<1> QED BY <1>1, Invariance, PTL

\* While the dispatcher is ready its owner has not ended.
THEOREM OwnerKeepsMoving == Spec => []OwnerMovesOn
<1>1. IInv => OwnerMovesOn
  BY DEF IInv, OwnerMovesOn, OwnerPhase
<1> QED BY <1>1, Invariance, PTL

\* A queued lease always has an entry in _queue, where the worker and the
\* expiry look for it.
THEOREM QueuedStaysReachable == Spec => []QueuedIsReachable
<1>1. IInv => QueuedIsReachable
  BY DEF IInv
<1> QED BY <1>1, Invariance, PTL

=============================================================================
