--------------------------- MODULE GatewaySystem ---------------------------
(***************************************************************************)
(* The Gateway's lease client and the Dispatcher's lease machine, joined   *)
(* by HTTP.  A command is carried out by the Dispatcher when it is taken   *)
(* off the network, and answered to the task if it still waits.  Requests  *)
(* reach the Dispatcher only through the client, so what a lease id means  *)
(* to the two sides can be compared.                                       *)
(*                                                                         *)
(* What an engine call returns is a choice of module GPUDispatcher here;   *)
(* GPUSystem has the calls.                                                *)
(***************************************************************************)
EXTENDS GPUDispatcher, LeaseClient

CONSTANTS
  ServiceOf,   \* the service each request is for
  QueueWait    \* queue_wait, the client's wait_timeout

\* The relations between the budgets of the two programs.
ASSUME GatewayAssumption ==
  /\ ServiceOf \in [Requests -> Services]
  /\ QueueWait \in 1..MaxQueueWait
  /\ ActiveTimeout > InferenceTimeout + 2 * RequestTimeout
  /\ TerminalRetention > CommandLifetime

gatewayVars == <<vars, clientVars>>

-----------------------------------------------------------------------------
(* The Dispatcher's HTTP handlers (dispatcher/app.py).  A handler answers   *)
(* with the state of the lease, or with an error status.                   *)

GatewayInit == Init /\ ClientInit

\* /ready, then the admission is sent to the epoch it named.
AskReady(r) ==
  /\ system_state = "ready"
  /\ SendAcquire(r, epoch)
  /\ UNCHANGED vars

Take(kind, r) ==
  \E m \in net :
    /\ m.kind = kind /\ m.req = r
    /\ net' = net \ {m}

Current(r) == ValidEpoch(task[r].epoch)

ServeAcquire(r) ==
  /\ Take("acquire", r)
  /\ \/ /\ Submit(ServiceOf[r], r, task[r].epoch, QueueWait)
        /\ Replied(r, "acquiring", IF records'[r].state = "absent" THEN "error"
                                   ELSE records'[r].state)
     \/ /\ Current(r) /\ RequireReady
        /\ records[r].state # "absent"
        /\ Replied(r, "acquiring", records[r].state)
        /\ UNCHANGED vars
     \/ /\ ~(Current(r) /\ RequireReady)
        /\ Replied(r, "acquiring", "error")
        /\ UNCHANGED vars
  /\ UNCHANGED active

\* /leases/{request_id}: a read, whose answer the task sees later.
ServePoll(r) ==
  /\ task[r].pc = "polling"
  /\ task[r].reply = "none"
  /\ Replied(r, "polling", IF Current(r) /\ records[r].state # "absent"
                           THEN records[r].state ELSE "error")
  /\ UNCHANGED <<net, active, vars>>

ServeCancel(r) ==
  /\ Take("cancel", r)
  /\ \/ /\ Cancel(ServiceOf[r], r, task[r].epoch)
        /\ Replied(r, "cancelling", "ok")
     \/ /\ CancelUnknown(ServiceOf[r], r, task[r].epoch)
        /\ Replied(r, "cancelling", IF records'[r].state = "absent" THEN "error" ELSE "ok")
     \/ /\ Current(r)
        /\ records[r].state \in EndedStates
        /\ Replied(r, "cancelling", "ok")
        /\ UNCHANGED vars
     \/ /\ ~Current(r)
        /\ Replied(r, "cancelling", "error")
        /\ UNCHANGED vars
  /\ UNCHANGED active

ServeRelease(r) ==
  /\ Take("release", r)
  /\ \/ /\ Release(ServiceOf[r], r, task[r].epoch)
        /\ Replied(r, "releasing", "ok")
     \/ /\ Current(r)
        /\ records[r].state \in EndedStates
        /\ Replied(r, "releasing", "ok")
        /\ UNCHANGED vars
     \/ /\ Current(r) => records[r].state = "absent"
        /\ Replied(r, "releasing", "error")
        /\ UNCHANGED vars
  /\ UNCHANGED active

Serve(r) == ServeAcquire(r) \/ ServePoll(r) \/ ServeCancel(r) \/ ServeRelease(r)

-----------------------------------------------------------------------------

ClientStep ==
  /\ \/ \E r \in Requests : Arrive(r) \/ Receive(r) \/ ReceiveFails(r) \/ TaskStep(r)
     \/ \E m \in net : Lose(m)
     \/ GatewayCrash
  /\ UNCHANGED vars

Lifecycle ==
  /\ WorkerTurn \/ EngineReturns \/ Restart
  /\ UNCHANGED clientVars

\* One clock for both programs.
GatewayTick ==
  /\ ClientTick
  /\ records' = [r \in Requests |-> Aged(records[r])]
  /\ UNCHANGED <<epoch, queue, current, system_state, closed, worker>>

GatewayNext ==
  \/ ClientStep
  \/ \E r \in Requests : AskReady(r) \/ Serve(r)
  \/ Lifecycle
  \/ GatewayTick

GatewaySpec == GatewayInit /\ [][GatewayNext]_gatewayVars

\* Tasks run and are woken by their timeouts, the worker polls, every engine
\* call returns and time passes.  Commands may be lost, and no client need
\* ever send a request, or the rest of one.
Fairness ==
  /\ \A r \in Requests : WF_gatewayVars(TaskStep(r) /\ UNCHANGED vars)
  /\ WF_gatewayVars(WorkerTurn /\ UNCHANGED clientVars)
  /\ WF_gatewayVars(EngineReturns /\ UNCHANGED clientVars)
  /\ WF_gatewayVars(GatewayTick)

FairSpec == GatewaySpec /\ Fairness

-----------------------------------------------------------------------------
(* Properties.                                                             *)

TaskType ==
  [pc     : {"new", "ended"} \cup Awaits,
   epoch  : Nat,
   reply  : {"none", "ok", "error", "queued"} \cup OwningStates \cup EndedStates,
   left   : Nat,
   status : {"ok", "error"}]

GatewayTypeOK ==
  /\ TypeOK
  /\ task \in [Requests -> TaskType]
  /\ net \subseteq [kind : Commands, req : Requests, ttl : Nat]
  /\ active \in Nat

\* A handler that runs an inference has the GPU: its lease is active, and the
\* Dispatcher will not take it away before the inference has timed out.  Only
\* a Dispatcher that was restarted stops an engine under its client.
InferenceHoldsLease ==
  \A r \in Requests :
    task[r].pc = "inferring" /\ task[r].epoch = epoch =>
      current = r /\ records[r].state = "active"

\* Once the Dispatcher has acknowledged a cancel, the lease is never handed
\* out: an admission that arrives after its cancel finds the refusal.
AcknowledgedCancelHolds ==
  \A r \in Requests :
    task[r].pc = "ended" /\ task[r].reply = "ok" /\ task[r].epoch = epoch =>
      /\ records[r].state \notin {"queued", "active"}
      /\ records[r].state = "starting" => records[r].cancel_requested

\* "its lease is released before emitting" (chat_stream.py): the client that
\* gets a result no longer has the GPU, so that its next request can.
ReleasedBeforeAnswer ==
  \A r \in Requests :
    task[r].pc = "ended" /\ task[r].status = "ok" /\ task[r].epoch = epoch =>
      records[r].state \in {"stopping", "absent"} \cup TerminalStates

\* An active lease ends only by its own client or by its deadline: commands
\* that belong to another lease, or to an earlier process, never touch it.
OnlyOwnCommandsEnd ==
  [][epoch' = epoch => \A r \in Requests :
       records[r].state = "active" /\ records'[r].state # "active" =>
         records[r].left = 0 \/ task[r].pc \in {"cancelling", "releasing", "ended"}]_gatewayVars

\* The limiter counts the requests being served: no path through a handler
\* leaks a slot or gives one back twice.
SlotsMatchTasks ==
  active = Cardinality({r \in Requests : task[r].pc \in Awaits})

\* Every request whose body has come is answered.
RequestsEnd ==
  \A r \in Requests : task[r].pc = "admitted" ~> task[r].pc = "ended"

\* When its request is over, however it ended and whatever was lost, a lease
\* does not stay: it is gone, or the dispatcher is degraded.
LeasesEnd ==
  \A r \in Requests :
    task[r].pc = "ended" ~>
      \/ records[r].state \in TerminalStates \cup {"absent"}
      \/ system_state = "degraded"

=============================================================================
