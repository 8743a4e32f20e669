--------------------------- MODULE GPUDispatcher ---------------------------
(***************************************************************************)
(* The lease machine of dispatcher/dispatcher.py: class GPUDispatcher.     *)
(*                                                                         *)
(* HTTP handler threads call submit, release, cancel and close; one        *)
(* lifecycle worker thread (_run) takes queued leases one at a time,       *)
(* starts the engine, waits for the lease to end and stops the engine.     *)
(* Everything a thread does while it holds self._condition is one action   *)
(* here.  The calls to the engine manager run without the lock, so each is *)
(* a phase of the worker during which every other action may happen; what  *)
(* the call returns is chosen by the action that ends the phase (module    *)
(* EngineManager models the calls themselves).                             *)
(*                                                                         *)
(* Time.  self._clock() is compared only with queue_deadline,              *)
(* active_deadline and terminal_at + terminal_retention, and a record's    *)
(* state says which of the three can matter.  A lease therefore carries    *)
(* one countdown, left, the time to that deadline: queued compares it with *)
(* queue_deadline, active with active_deadline, a terminal state with the  *)
(* end of its retention, and starting and stopping with none.  left = 0    *)
(* means the deadline has passed, and Tick lets time pass.                 *)
(*                                                                         *)
(* A command that raises an exception, or that repeats what was already    *)
(* done, changes nothing and is a stuttering step.                         *)
(***************************************************************************)
EXTENDS LeaseIds, Integers, Sequences

CONSTANTS
  Services,          \* services the engine manager knows
  UnknownService,    \* a service name it does not know
  NoRequest,         \* Python's None for _current_request_id
  MaxRecords,        \* max_records
  MaxQueueWait,      \* max_queue_wait
  ActiveTimeout,     \* active_timeout
  TerminalRetention, \* terminal_retention
  QueueBound,        \* bound of the model on the length of _queue
  MaxEpoch           \* bound of the model on the number of restarts

\* The constructor refuses budgets that are not positive.
ASSUME DispatcherAssumption ==
  /\ NoRequest \notin Requests
  /\ UnknownService \notin Services
  /\ MaxRecords \in Nat \ {0}
  /\ MaxQueueWait \in Nat \ {0}
  /\ ActiveTimeout \in Nat \ {0}
  /\ TerminalRetention \in Nat \ {0}
  /\ QueueBound \in Nat
  /\ MaxEpoch \in Nat

VARIABLES
  epoch,         \* self.epoch: a fresh uuid for every process, here a counter
  records,       \* self._records, total: a missing key is NoLease
  queue,         \* self._queue
  current,       \* self._current_request_id
  system_state,  \* self._system_state
  closed,        \* self._closed
  worker         \* what the worker thread is doing

vars == <<epoch, records, queue, current, system_state, closed, worker>>

-----------------------------------------------------------------------------
(* Lease records.                                                          *)

TerminalStates == {"released", "cancelled", "expired", "failed"}

\* The states in which a lease owns the GPU.
OwningStates == {"starting", "active", "stopping"}

NoService == "no service"

LeaseRecord ==
  [state            : {"absent", "queued"} \cup OwningStates \cup TerminalStates,
   service          : Services \cup {NoService},
   wait_timeout     : 0..MaxQueueWait,
   cancel_requested : BOOLEAN,
   terminal_target  : {"none"} \cup TerminalStates,
   left             : Nat]

NoLease ==
  [state |-> "absent", service |-> NoService, wait_timeout |-> 0,
   cancel_requested |-> FALSE, terminal_target |-> "none", left |-> 0]

\* The record submit creates: queue_deadline = now + wait_timeout.
QueuedLease(service, wait) ==
  [state |-> "queued", service |-> service, wait_timeout |-> wait,
   cancel_requested |-> FALSE, terminal_target |-> "none", left |-> wait]

\* The record cancel leaves for a request id it has never seen.
Tombstone(service) ==
  [state |-> "cancelled", service |-> service, wait_timeout |-> 0,
   cancel_requested |-> FALSE, terminal_target |-> "none",
   left |-> TerminalRetention]

\* _mark_terminal_locked.
MarkTerminal(lease, state) ==
  [lease EXCEPT !.state = state, !.left = TerminalRetention]

Known(recs) == {r \in Requests : recs[r].state # "absent"}

-----------------------------------------------------------------------------
(* Housekeeping, as functions from the registry to the registry.           *)

\* Mutant of Pruned: the owner of the GPU is forgotten like any other.
PrunedOwnerToo(recs) ==
  [r \in Requests |->
     IF recs[r].state \in TerminalStates /\ recs[r].left = 0
     THEN NoLease ELSE recs[r]]

\* Mutant of Pruned: terminal records are not retained.
PrunedAtOnce(recs) ==
  [r \in Requests |->
     IF recs[r].state \in TerminalStates /\ r # current
     THEN NoLease ELSE recs[r]]

\* _prune_terminal_locked: forget the terminal records whose retention is
\* over, except the one that still holds the GPU of a degraded process.
Pruned(recs) ==
  [r \in Requests |->
     IF recs[r].state \in TerminalStates /\ recs[r].left = 0 /\ r # current
     THEN NoLease ELSE recs[r]]

\* Mutant of Expired: the queue deadline is not enforced.
ExpiredNever(recs) == recs

\* _expire_queued_locked walks the queue, so a queued record that is not in
\* the queue would never expire.
Expired(recs) ==
  [r \in Requests |->
     IF /\ \E i \in DOMAIN queue : queue[i] = r
        /\ recs[r].state = "queued"
        /\ recs[r].left = 0
     THEN MarkTerminal(recs[r], "expired") ELSE recs[r]]

Housekept == Pruned(Expired(records))

-----------------------------------------------------------------------------
(* Commands of the HTTP handlers.                                          *)

\* _validate_epoch: commands meant for an earlier process are refused.
ValidEpoch(e) == e = epoch

\* has_service.
HasService(service) == service \in Services

\* Mutant of RequireReady: admits while degraded.
RequireReconciled == system_state # "reconciling"

\* _require_ready.
RequireReady == system_state = "ready"

\* Mutant of AcceptsWait: any positive wait_timeout is accepted.
AcceptsAnyWait(wait) == wait > 0

\* wait_timeout must be positive and at most max_queue_wait.
AcceptsWait(wait) == wait > 0 /\ wait <= MaxQueueWait

\* Mutant of HasRoom: off by one.
HasRoomForOneMore(recs) == Cardinality(Known(recs)) <= MaxRecords

\* The capacity check, made after the prune.
HasRoom(recs) == Cardinality(Known(recs)) < MaxRecords

\* submit, for a request id that has no record.  The prune takes effect even
\* when the registry is still full and the admission is refused.  A request
\* id that has a record is answered from the record (or refused for a
\* different service or wait_timeout) and nothing changes.
Submit(service, r, e, wait) ==
  /\ ValidEpoch(e)
  /\ RequireReady
  /\ HasService(service)
  /\ AcceptsWait(wait)
  /\ records[r].state = "absent"
  /\ \/ /\ ~HasRoom(Pruned(records))
        /\ records' = Pruned(records)
        /\ UNCHANGED queue
     \/ /\ HasRoom(Pruned(records))
        /\ Len(queue) < QueueBound
        /\ records' = [Pruned(records) EXCEPT ![r] = QueuedLease(service, wait)]
        /\ queue' = Append(queue, r)
  /\ UNCHANGED <<epoch, current, system_state, closed, worker>>

\* Mutant of StopRequested: a lease that is starting ends at once.
StopRequestedEndsStart(lease, target) ==
  CASE lease.state \in {"queued", "starting"} -> MarkTerminal(lease, target)
    [] lease.state = "active" -> [lease EXCEPT !.state = "stopping",
                                               !.terminal_target = target,
                                               !.left = 0]
    [] OTHER                  -> lease

\* What _request_stop does to a lease that is not terminal yet.  While the
\* engine starts, the last command decides the outcome; once it stops, the
\* first one does.
StopRequested(lease, target) ==
  CASE lease.state = "queued"   -> MarkTerminal(lease, target)
    [] lease.state = "starting" -> [lease EXCEPT !.cancel_requested = TRUE,
                                                 !.terminal_target = target]
    [] lease.state = "active"   -> [lease EXCEPT !.state = "stopping",
                                                 !.terminal_target = target,
                                                 !.left = 0]
    [] OTHER                    -> [lease EXCEPT !.terminal_target =
                                      IF @ = "none" THEN target ELSE @]

\* Mutant of RequestStop: commands go to whoever owns the GPU.
RequestStopOfOwner(service, r, e, target) ==
  /\ ValidEpoch(e)
  /\ current # NoRequest
  /\ records[current].state \notin TerminalStates
  /\ records[current].service = service
  /\ records' = [records EXCEPT ![current] = StopRequested(@, target)]
  /\ UNCHANGED <<epoch, queue, current, system_state, closed, worker>>

\* _request_stop for a known request id: release and cancel differ only in
\* the terminal state they aim at.
RequestStop(service, r, e, target) ==
  /\ ValidEpoch(e)
  /\ records[r].state \notin TerminalStates \cup {"absent"}
  /\ records[r].service = service
  /\ records' = [records EXCEPT ![r] = StopRequested(@, target)]
  /\ UNCHANGED <<epoch, queue, current, system_state, closed, worker>>

Release(service, r, e) == RequestStop(service, r, e, "released")

Cancel(service, r, e) == RequestStop(service, r, e, "cancelled")

\* cancel for a request id that has no record: the acquire it cancels may
\* still be on its way, so the refusal is registered ahead of it.  Unlike
\* submit this works in every system state.
CancelUnknown(service, r, e) ==
  /\ ValidEpoch(e)
  /\ records[r].state = "absent"
  /\ HasService(service)
  /\ \/ /\ ~HasRoom(Pruned(records))
        /\ records' = Pruned(records)
     \/ /\ HasRoom(Pruned(records))
        /\ records' = [Pruned(records) EXCEPT ![r] = Tombstone(service)]
  /\ UNCHANGED <<epoch, queue, current, system_state, closed, worker>>

Close ==
  /\ ~closed
  /\ closed' = TRUE
  /\ UNCHANGED <<epoch, records, queue, current, system_state, worker>>

-----------------------------------------------------------------------------
(* The lifecycle worker (_run).                                            *)

ReconcileSucceeded ==
  /\ worker = "reconcile"
  /\ system_state' = "ready"
  /\ worker' = "loop"
  /\ UNCHANGED <<epoch, records, queue, current, closed>>

\* The worker thread ends: only a new process can leave this state.
ReconcileFailed ==
  /\ worker = "reconcile"
  /\ system_state' = "degraded"
  /\ worker' = "returned"
  /\ UNCHANGED <<epoch, records, queue, current, closed>>

WorkerReturns ==
  /\ worker = "loop"
  /\ closed
  /\ worker' = "returned"
  /\ UNCHANGED <<epoch, records, queue, current, system_state, closed>>

\* Mutant of DeadlinePassed: active leases have no deadline.
DeadlineNever(lease) == FALSE

\* The active lease whose deadline has passed loses the GPU.
DeadlinePassed(lease) == lease.state = "active" /\ lease.left = 0

\* Does the owner, in the registry recs, have to give the GPU back?
MustStop(lease) == lease.state = "stopping" \/ DeadlinePassed(lease)

\* Mutant of IsNextQueued: any queued entry will do.
IsAnyQueued(recs, i) == recs[queue[i]].state = "queued"

\* _next_queued_locked returns the first entry that is still queued.  (Its
\* own expiry test never succeeds: _expire_queued_locked has just run with
\* the same reading of the clock.)
IsNextQueued(recs, i) ==
  /\ recs[queue[i]].state = "queued"
  /\ \A j \in 1..(i - 1) : recs[queue[j]].state # "queued"

\* Mutant of RestOfQueue: one entry too many is taken off.
RestOfQueueButOne(i) == SubSeq(queue, i + 2, Len(queue))

\* What the search has left of the queue when it returns entry i.
RestOfQueue(i) == SubSeq(queue, i + 1, Len(queue))

\* One turn of the loop that ends in wait(): housekeeping only.  When nobody
\* owns the GPU the search for the next lease has emptied the queue of
\* entries that are not queued any more.
WorkerWaits ==
  /\ worker = "loop"
  /\ ~closed
  /\ records' = Housekept
  /\ \/ /\ system_state # "ready"
        /\ UNCHANGED queue
     \/ /\ system_state = "ready"
        /\ current # NoRequest
        /\ ~MustStop(Housekept[current])
        /\ UNCHANGED queue
     \/ /\ system_state = "ready"
        /\ current = NoRequest
        /\ \A i \in DOMAIN queue : Housekept[queue[i]].state # "queued"
        /\ queue' = <<>>
  /\ UNCHANGED <<epoch, current, system_state, closed, worker>>

\* One turn of the loop that hands the GPU to the next queued lease.
BeginStart ==
  /\ worker = "loop"
  /\ ~closed
  /\ system_state = "ready"
  /\ current = NoRequest
  /\ \E i \in DOMAIN queue :
       /\ IsNextQueued(Housekept, i)
       /\ records' = [Housekept EXCEPT ![queue[i]].state = "starting",
                                       ![queue[i]].left = 0]
       /\ current' = queue[i]
       /\ queue' = RestOfQueue(i)
  /\ worker' = "start"
  /\ UNCHANGED <<epoch, system_state, closed>>

\* One turn of the loop that takes the GPU back from its owner.
BeginStop ==
  /\ worker = "loop"
  /\ ~closed
  /\ system_state = "ready"
  /\ current # NoRequest
  /\ MustStop(Housekept[current])
  /\ records' = [Housekept EXCEPT
                   ![current] = IF DeadlinePassed(@)
                                THEN [@ EXCEPT !.state = "stopping",
                                               !.terminal_target = "expired"]
                                ELSE @]
  /\ worker' = "stop"
  /\ UNCHANGED <<epoch, queue, current, system_state, closed>>

\* Mutant of Started: a cancel that arrived meanwhile is overlooked.
StartedRegardless(lease) ==
  [lease EXCEPT !.state = "active", !.left = ActiveTimeout]

\* The end of _perform_start when the engine is up: a release or a cancel
\* that arrived meanwhile is honoured before the lease is ever active.
Started(lease) ==
  IF lease.cancel_requested
  THEN [lease EXCEPT !.state = "stopping",
                     !.terminal_target = IF @ = "none" THEN "cancelled" ELSE @]
  ELSE [lease EXCEPT !.state = "active", !.left = ActiveTimeout]

StartSucceeded ==
  /\ worker = "start"
  /\ records' = [records EXCEPT ![current] = Started(@)]
  /\ worker' = "loop"
  /\ UNCHANGED <<epoch, queue, current, system_state, closed>>

\* Mutant of StartFailed: _current_request_id is not reset.
StartFailedKeepsOwner ==
  /\ worker = "start"
  /\ records' = [records EXCEPT ![current] = MarkTerminal(@, "failed")]
  /\ worker' = "loop"
  /\ UNCHANGED <<epoch, queue, current, system_state, closed>>

\* The engine did not start and the manager has verified that it is down.
StartFailed ==
  /\ worker = "start"
  /\ records' = [records EXCEPT ![current] = MarkTerminal(@, "failed")]
  /\ current' = NoRequest
  /\ worker' = "loop"
  /\ UNCHANGED <<epoch, queue, system_state, closed>>

\* EngineCleanupError: the engine may be up, so the GPU stays taken.
StartUncertain ==
  /\ worker = "start"
  /\ records' = [records EXCEPT ![current] = MarkTerminal(@, "failed")]
  /\ system_state' = "degraded"
  /\ worker' = "loop"
  /\ UNCHANGED <<epoch, queue, current, closed>>

StopSucceeded ==
  /\ worker = "stop"
  /\ records' = [records EXCEPT ![current] =
                   MarkTerminal(@, IF @.terminal_target = "none"
                                   THEN "released" ELSE @.terminal_target)]
  /\ current' = NoRequest
  /\ worker' = "loop"
  /\ UNCHANGED <<epoch, queue, system_state, closed>>

\* Mutant of StopFailed: the GPU is given up although the engine may run.
StopFailedFreesGPU ==
  /\ worker = "stop"
  /\ system_state' = "degraded"
  /\ current' = NoRequest
  /\ worker' = "loop"
  /\ UNCHANGED <<epoch, records, queue, closed>>

\* The lease stays stopping and the GPU stays taken.
StopFailed ==
  /\ worker = "stop"
  /\ system_state' = "degraded"
  /\ worker' = "loop"
  /\ UNCHANGED <<epoch, records, queue, current, closed>>

-----------------------------------------------------------------------------
(* The process and its clock.                                              *)

\* Container ai-dispatcher has restart: unless-stopped.  A new process has a
\* new epoch, an empty registry, and reconciles first.
Restart ==
  /\ epoch < MaxEpoch
  /\ epoch' = epoch + 1
  /\ records' = [r \in Requests |-> NoLease]
  /\ queue' = <<>>
  /\ current' = NoRequest
  /\ system_state' = "reconciling"
  /\ closed' = FALSE
  /\ worker' = "reconcile"

Aged(lease) == [lease EXCEPT !.left = IF @ > 0 THEN @ - 1 ELSE 0]

Tick ==
  /\ \E r \in Requests : records[r].left > 0
  /\ records' = [r \in Requests |-> Aged(records[r])]
  /\ UNCHANGED <<epoch, queue, current, system_state, closed, worker>>

Init ==
  /\ epoch = 0
  /\ records = [r \in Requests |-> NoLease]
  /\ queue = <<>>
  /\ current = NoRequest
  /\ system_state = "reconciling"
  /\ closed = FALSE
  /\ worker = "reconcile"

\* Commands arrive with any service name and any epoch seen so far, and
\* submit with wait_timeouts on both sides of what it accepts.
Command ==
  \E r \in Requests, service \in Services \cup {UnknownService}, e \in 0..epoch :
    \/ \E wait \in 0..(MaxQueueWait + 1) : Submit(service, r, e, wait)
    \/ Release(service, r, e)
    \/ Cancel(service, r, e)
    \/ CancelUnknown(service, r, e)

WorkerTurn == WorkerReturns \/ WorkerWaits \/ BeginStart \/ BeginStop

EngineReturns ==
  \/ ReconcileSucceeded \/ ReconcileFailed
  \/ StartSucceeded \/ StartFailed \/ StartUncertain
  \/ StopSucceeded \/ StopFailed

Next == Command \/ Close \/ WorkerTurn \/ EngineReturns \/ Restart \/ Tick

Spec == Init /\ [][Next]_vars

-----------------------------------------------------------------------------
(* Properties.                                                             *)

TypeOK ==
  /\ epoch \in Nat
  /\ records \in [Requests -> LeaseRecord]
  /\ queue \in Seq(Requests)
  /\ current \in Requests \cup {NoRequest}
  /\ system_state \in {"reconciling", "ready", "degraded"}
  /\ closed \in BOOLEAN
  /\ worker \in {"reconcile", "loop", "start", "stop", "returned"}

\* One logical GPU: every lease in starting, active or stopping is the one
\* _current_request_id names, so there is at most one.  Handlers and worker
\* both move leases between these states, in separate critical sections.
SingleOwner ==
  \A r \in Requests : records[r].state \in OwningStates => r = current

\* The worker subscripts self._records with _current_request_id without a
\* test: a prune that dropped that record would kill the thread.  The record
\* the worker works on is always there, and is in the phase the worker is in.
OwnerIsRecorded ==
  /\ current # NoRequest => records[current].state # "absent"
  /\ worker = "start" => current # NoRequest /\ records[current].state = "starting"
  /\ worker = "stop"  => current # NoRequest /\ records[current].state = "stopping"

\* Only a degraded dispatcher keeps an owner that can never give the GPU back
\* (a failed start it could not clean up): while it is ready, the owner is on
\* its way from starting to stopped.
OwnerMovesOn ==
  system_state = "ready" /\ current # NoRequest =>
    records[current].state \in OwningStates

\* Expiry and service both go through _queue: a queued lease that is not in
\* it would hang until the client gives up.  A terminal id may leave a stale
\* entry behind and be admitted again after its retention.
QueuedIsReachable ==
  \A r \in Requests : records[r].state = "queued" =>
    \E i \in DOMAIN queue : queue[i] = r

\* max_records bounds the registry, tombstones of unknown ids included.
RegistryIsBounded == Cardinality(Known(records)) <= MaxRecords

\* The same process still runs after the step.
SameProcess == epoch' = epoch

\* A lease that ended never comes back: as long as its record is kept, late
\* or repeated commands find the same outcome; it is forgotten only once the
\* retention is over.
EndedIsFinal ==
  [][SameProcess => \A r \in Requests :
       records[r].state \in TerminalStates =>
         \/ records'[r].state = records[r].state
         \/ records[r].left = 0 /\ records'[r].state = "absent"]_vars

\* A lease that was cancelled or released while its engine was starting is
\* never handed to the client as active.
CancelBeatsStart ==
  [][SameProcess => \A r \in Requests :
       records[r].state = "starting" /\ records[r].cancel_requested =>
         records'[r].state \in {"starting", "stopping", "failed"}]_vars

\* An admission whose queue deadline has passed never starts an engine.
NoLateStart ==
  [][\A r \in Requests :
       records[r].state = "queued" /\ records[r].left = 0 =>
         records'[r].state # "starting"]_vars

\* First come, first served: when the worker takes a lease, no lease that
\* was in the queue before it is left waiting.  The order is that of _queue,
\* so this is claimed while no request id has two entries there: an id that
\* is admitted again after its retention, with its old entry still queued,
\* inherits the place of the old entry.
NoOvertaking ==
  [][(\A i, j \in DOMAIN queue : queue[i] = queue[j] => i = j) =>
     \A i \in DOMAIN queue :
       records[queue[i]].state = "queued" /\ records'[queue[i]].state = "starting" =>
         \A j \in 1..(i - 1) : records'[queue[j]].state # "queued"]_vars

\* Once the state of the engines is in doubt no engine is started and no
\* lease is granted until a new process has reconciled.
DegradedGrantsNothing ==
  [][SameProcess /\ system_state = "degraded" =>
       /\ system_state' = "degraded"
       /\ \A r \in Requests : records'[r].state \in {"queued", "starting", "active"} =>
            records'[r].state = records[r].state]_vars

\* How clients see a lease, and the GPU.
PhaseOf(lease) ==
  CASE lease.state = "absent"           -> "unknown"
    [] lease.state = "queued"           -> "waiting"
    [] lease.state \in OwningStates     -> "holding"
    [] lease.state \in TerminalStates   -> "ended"

GPUState ==
  CASE system_state = "reconciling" -> "checking"
    [] system_state = "ready"       -> "usable"
    [] system_state = "degraded"    -> "lost"

Lease == INSTANCE GPULease WITH
  phase  <- [r \in Requests |-> PhaseOf(records[r])],
  holder <- current,
  gpu    <- GPUState

\* The lease machine, with its queue, its deadlines and a worker that lets go
\* of the lock around every engine call, is an implementation of the lock
\* with one holder that GPULease describes.
ImplementsLease == Lease!Spec

\* No request waits forever: it is started, or it expires, even when the
\* owner never ends and even when the dispatcher is degraded.
QueueDrains ==
  \A r \in Requests :
    records[r].state = "queued" ~> (records[r].state # "queued" \/ closed)

\* The GPU is never kept by a lost client: whoever owns it gives it back, or
\* the dispatcher is degraded and says so.
OwnerLetsGo ==
  \A r \in Requests :
    current = r ~> (current # r \/ system_state = "degraded" \/ closed)

=============================================================================
