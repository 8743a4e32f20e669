----------------------------- MODULE GPUSystem -----------------------------
(***************************************************************************)
(* The Dispatcher service: dispatcher/app.py puts a GPUDispatcher on top   *)
(* of an EngineManager.  The worker of GPUDispatcher calls the manager;    *)
(* while a call is in progress its commands interleave with the HTTP       *)
(* handlers, with engines that exit and with the Docker daemon, and the    *)
(* process may die at any point and be started again.                      *)
(*                                                                         *)
(* app.py never calls close(), so closed stays FALSE here.                 *)
(***************************************************************************)
EXTENDS GPUDispatcher, EngineManager

CONSTANT
  StartsOutliveProcess  \* may a docker start given up by its client take
                        \* effect after the next process has looked?

\* has_service asks the manager: the services are the keys of SERVICES.
ASSUME SystemAssumption ==
  /\ DOMAIN Components = Services
  /\ StartsOutliveProcess \in BOOLEAN

systemVars == <<vars, engineVars>>

-----------------------------------------------------------------------------

\* A new deployment, or a host that was rebooted: any engine may be up, and
\* some containers may never have been created.
SystemInit ==
  /\ Init
  /\ docker \in [Containers -> {"running", "stopped", "missing"}]
  /\ pending = {}
  /\ call = ReconcileCall

\* Handlers and turns of the worker that make no call.
HandlersAndWaits ==
  /\ Command \/ WorkerWaits \/ Tick
  /\ UNCHANGED engineVars

PerformStart ==
  /\ BeginStart
  /\ call' = StartCall(records'[current'].service)
  /\ UNCHANGED <<docker, pending>>

PerformStop ==
  /\ BeginStop
  /\ call' = StopCall(records[current].service)
  /\ UNCHANGED <<docker, pending>>

\* The call ends and the worker, back under the lock, records the outcome.
CallReturns ==
  \/ ReconcileSucceeded /\ Returns("ok")
  \/ ReconcileFailed    /\ Returns("cleanup_error")
  \/ StartSucceeded     /\ Returns("ok")
  \/ StartFailed        /\ Returns("failed")
  \/ StartUncertain     /\ Returns("cleanup_error")
  \/ StopSucceeded      /\ Returns("ok")
  \/ StopFailed         /\ Returns("cleanup_error")

Engine ==
  /\ \/ CommandStep
     \/ \E c \in Containers : EngineExits(c) \/ LateStart(c)
  /\ UNCHANGED vars

\* The process dies and is started again.  A docker start that was being
\* run is given up too.  Unless StartsOutliveProcess, the daemon has carried
\* out or dropped every such start before the new process inspects anything.
Crash ==
  /\ Restart
  /\ call' = ReconcileCall
  /\ LET orphans == pending \cup (IF call.step = "start" THEN {Container} ELSE {})
     IN  IF StartsOutliveProcess
         THEN pending' = orphans /\ UNCHANGED docker
         ELSE /\ pending' = {}
              /\ \E done \in SUBSET orphans :
                   docker' = [c \in Containers |->
                                IF c \in done /\ docker[c] = "stopped"
                                THEN "running" ELSE docker[c]]

SystemNext == HandlersAndWaits \/ PerformStart \/ PerformStop \/ CallReturns \/ Engine \/ Crash

SystemSpec == SystemInit /\ [][SystemNext]_systemVars

\* Every command runs under a timeout and the worker loop polls; time passes.
Fairness ==
  /\ WF_systemVars(WorkerWaits /\ UNCHANGED engineVars)
  /\ WF_systemVars(PerformStart)
  /\ WF_systemVars(PerformStop)
  /\ WF_systemVars(CallReturns)
  /\ WF_systemVars(CommandStep /\ UNCHANGED vars)
  /\ WF_systemVars(Tick /\ UNCHANGED engineVars)

FairSpec == SystemSpec /\ Fairness

-----------------------------------------------------------------------------
(* Properties.                                                             *)

CallType ==
  [op : {"none", "start", "stop", "reconcile"},
   service : Services \cup {NoArgument},
   step : {"idle", "inspect", "start", "health", "recheck",
           "stop_inspect", "stop", "verify", "return"},
   todo : Seq(Containers),
   attempts : 1..HealthAttempts,
   errors : SUBSET Containers,
   startup : {"ok", "failed", "ambiguous"}]

SystemTypeOK ==
  /\ TypeOK
  /\ docker \in [Containers -> {"running", "stopped", "missing"}]
  /\ pending \subseteq Containers
  /\ call \in CallType

OwnerContainers ==
  IF current = NoRequest THEN {}
  ELSE Elements(Components[records[current].service])

\* One logical service has the GPU: while the dispatcher is ready, and for as
\* long as it keeps an owner after it was degraded, every engine that runs
\* or that the daemon may still start belongs to the owner's service; with no
\* owner, none does.
ExclusiveGPU ==
  system_state = "ready" \/ current # NoRequest =>
    \A c \in Containers :
      docker[c] = "running" \/ c \in pending => c \in OwnerContainers

\* Engines of two services never run at the same time in a dispatcher that
\* reports ready: "Reinicio cambia epoch y reconcilia sin solapar engines".
\* It follows from ExclusiveGPU; with StartsOutliveProcess it is refuted.
NoOverlap ==
  system_state = "ready" =>
    \E s \in Services : \A c \in Containers :
      docker[c] = "running" => c \in Elements(Components[s])

\* A cleanup tries every component even after one has failed: when it ends,
\* an engine that still runs is one it reported, or one whose docker start
\* was left ambiguous.
CleanupAccountsForAll ==
  call.step = "return" /\ ~(call.op = "start" /\ call.startup = "ok") =>
    \A c \in Containers :
      docker[c] = "running" =>
        \/ c \in call.errors
        \/ call.startup = "ambiguous"

\* Reconciliation ends, whatever the daemon answers.
ReconcileEnds ==
  system_state = "reconciling" ~> system_state # "reconciling"

=============================================================================
