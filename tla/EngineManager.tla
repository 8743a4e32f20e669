--------------------------- MODULE EngineManager ---------------------------
(***************************************************************************)
(* dispatcher/engine_manager.py: class EngineManager, and the Docker       *)
(* daemon as its commands see it.                                          *)
(*                                                                         *)
(* The manager has one caller, the dispatcher's worker thread, and so at   *)
(* most one call in progress: start(service), stop(service) or reconcile.  *)
(* A call is a sequence of external commands (docker inspect, docker       *)
(* start, docker stop, curl); each command is one action, because engines  *)
(* may exit and the daemon may act between two of them.  Module GPUSystem  *)
(* composes the calls with the dispatcher that makes them.                 *)
(*                                                                         *)
(* Every command may fail, be killed by its timeout, or not be run at all  *)
(* because the call's deadline has passed (_remaining raises).  Those      *)
(* outcomes are choices here, and only what the code makes of them counts: *)
(* an inspect that does not answer is "unknown", and only a docker start   *)
(* that was killed by its timeout is ambiguous.                            *)
(***************************************************************************)
EXTENDS Integers, Sequences, FiniteSets

CONSTANTS
  Components,      \* SERVICES: for each service its containers, in start order
  Managed,         \* every managed container once, in the order of SERVICES
  HealthAttempts   \* health_attempts

Elements(seq) == {seq[i] : i \in DOMAIN seq}

Containers == Elements(Managed)

\* reversed(components).
Reversed(seq) == [i \in 1..Len(seq) |-> seq[Len(seq) + 1 - i]]

\* SERVICES is not empty, shares no container between services, and no
\* service is empty.
ASSUME EngineAssumption ==
  /\ DOMAIN Components # {}
  /\ Managed \in Seq(Containers)
  /\ Components \in [DOMAIN Components -> Seq(Containers)]
  /\ \A s \in DOMAIN Components : Components[s] # <<>>
  /\ Containers = UNION {Elements(Components[s]) : s \in DOMAIN Components}
  /\ \A s, t \in DOMAIN Components :
       s # t => Elements(Components[s]) \cap Elements(Components[t]) = {}
  /\ HealthAttempts \in Nat \ {0}

VARIABLES
  docker,   \* what each container is: running, stopped, or missing
  pending,  \* containers whose docker start was given up by its client while
            \* the daemon may still carry it out
  call      \* the call in progress

engineVars == <<docker, pending, call>>

-----------------------------------------------------------------------------
(* Calls.  todo holds the containers still to be dealt with, errors those  *)
(* _stop_components could not verify, startup how the start went.          *)

Call(op, service, step, todo) ==
  [op |-> op, service |-> service, step |-> step, todo |-> todo,
   attempts |-> HealthAttempts, errors |-> {}, startup |-> "ok"]

\* reconcile has no service for an argument.
NoArgument == "no argument"

NoCall == Call("none", NoArgument, "idle", <<>>)

StartCall(service) == Call("start", service, "inspect", Components[service])

StopCall(service) ==
  Call("stop", service, "stop_inspect", Reversed(Components[service]))

ReconcileCall == Call("reconcile", NoArgument, "stop_inspect", Reversed(Managed))

Container == Head(call.todo)

\* _inspect_state: the state of the container now, or no usable answer.
Inspections(c) == {docker[c], "unknown"}

\* start's except clause: clean up the whole service, whichever component
\* failed; startup remembers whether the failure was ambiguous.
StartupFails(kind) ==
  call' = [call EXCEPT !.step = "stop_inspect", !.startup = kind,
                       !.todo = Reversed(Components[call.service])]

\* The for loop of start, after a component is healthy.
NextComponent ==
  call' = IF Len(call.todo) = 1
          THEN [call EXCEPT !.step = "return", !.todo = <<>>]
          ELSE [call EXCEPT !.step = "inspect", !.todo = Tail(@),
                            !.attempts = HealthAttempts]

\* Mutant of StopNext: the first container that cannot be dealt with ends
\* the loop.
StopNextUntilError(errors) ==
  call' = [call EXCEPT !.step = IF Len(call.todo) = 1 \/ errors # {}
                                THEN "return" ELSE "stop_inspect",
                       !.todo = Tail(@), !.errors = errors]

\* Mutant of StopNext: a container that cannot be dealt with is tried again.
StopNextRetries(errors) ==
  call' = [call EXCEPT
             !.step = IF Len(call.todo) = 1 /\ errors = call.errors
                      THEN "return" ELSE "stop_inspect",
             !.todo = IF errors = call.errors THEN Tail(@) ELSE @]

\* The for loop of _stop_components: it goes on whether or not this
\* container could be dealt with.
StopNext(errors) ==
  call' = [call EXCEPT !.step = IF Len(call.todo) = 1 THEN "return" ELSE "stop_inspect",
                       !.todo = Tail(@), !.errors = errors]

-----------------------------------------------------------------------------
(* start.                                                                  *)

InspectBeforeStart ==
  /\ call.step = "inspect"
  /\ \E answer \in Inspections(Container) :
       \/ /\ answer = "running"
          /\ call' = [call EXCEPT !.step = "health"]
       \/ /\ answer = "stopped"
          /\ call' = [call EXCEPT !.step = "start"]
       \/ /\ answer \in {"missing", "unknown"}
          /\ StartupFails("failed")
  /\ UNCHANGED <<docker, pending>>

DockerStartSucceeds ==
  /\ call.step = "start"
  /\ docker' = [docker EXCEPT ![Container] = "running"]
  /\ call' = [call EXCEPT !.step = "health"]
  /\ UNCHANGED pending

\* The command failed, or the deadline passed before it was run.  The
\* container may have been started all the same: the cleanup looks again.
DockerStartFails ==
  /\ call.step = "start"
  /\ \/ UNCHANGED docker
     \/ docker' = [docker EXCEPT ![Container] = "running"]
  /\ StartupFails("failed")
  /\ UNCHANGED pending

\* CommandTimeout: the client is gone, the daemon may still do it.
DockerStartTimesOut ==
  /\ call.step = "start"
  /\ StartupFails("ambiguous")
  /\ pending' = pending \cup {Container}
  /\ UNCHANGED docker

HealthCheckSucceeds ==
  /\ call.step = "health"
  /\ docker[Container] = "running"
  /\ NextComponent
  /\ UNCHANGED <<docker, pending>>

HealthCheckFails ==
  /\ call.step = "health"
  /\ call' = [call EXCEPT !.step = "recheck"]
  /\ UNCHANGED <<docker, pending>>

\* Mutant of AnotherAttempt: off by one.
AnotherAttemptAtZero(c) == c.attempts >= 1

\* Does range(health_attempts) have another turn?
AnotherAttempt(c) == c.attempts > 1

\* Mutant of NextAttempt: the attempts are not counted.
NextAttemptUncounted(c) == [c EXCEPT !.step = "health"]

NextAttempt(c) == [c EXCEPT !.step = "health", !.attempts = @ - 1]

\* After a failed health check: give up when the engine is gone or its state
\* is unknown, when the deadline has passed, and after the last attempt.
InspectAfterHealth ==
  /\ call.step = "recheck"
  /\ \/ StartupFails("failed")
     \/ /\ docker[Container] = "running"
        /\ AnotherAttempt(call)
        /\ call' = NextAttempt(call)
  /\ UNCHANGED <<docker, pending>>

-----------------------------------------------------------------------------
(* _stop_components: stop, reconcile and the cleanup of a failed start.    *)

InspectBeforeStop ==
  /\ call.step = "stop_inspect"
  /\ \E answer \in Inspections(Container) :
       \/ /\ answer = "unknown"
          /\ StopNext(call.errors \cup {Container})
       \/ /\ answer \in {"missing", "stopped"}
          /\ StopNext(call.errors)
       \/ /\ answer = "running"
          /\ call' = [call EXCEPT !.step = "stop"]
  /\ UNCHANGED <<docker, pending>>

DockerStopSucceeds ==
  /\ call.step = "stop"
  /\ docker' = [docker EXCEPT ![Container] = "stopped"]
  /\ call' = [call EXCEPT !.step = "verify"]
  /\ UNCHANGED pending

\* The container may have been stopped all the same.
DockerStopFails ==
  /\ call.step = "stop"
  /\ \/ UNCHANGED docker
     \/ docker' = [docker EXCEPT ![Container] = "stopped"]
  /\ StopNext(call.errors \cup {Container})
  /\ UNCHANGED pending

InspectAfterStop ==
  /\ call.step = "verify"
  /\ \E answer \in Inspections(Container) :
       StopNext(IF answer \in {"stopped", "missing"}
                THEN call.errors ELSE call.errors \cup {Container})
  /\ UNCHANGED <<docker, pending>>

-----------------------------------------------------------------------------
(* What the call returns or raises.                                        *)

\* Mutant of StartOutcome: a clean cleanup settles an ambiguous start.
StartOutcomeTrusting(c) ==
  CASE c.startup = "ok" -> "ok"
    [] c.errors # {}    -> "cleanup_error"
    [] OTHER            -> "failed"

\* start raises EngineCleanupError when its cleanup failed, and also when it
\* succeeded but a docker start was left ambiguous; other failures are known
\* to have left nothing behind.
StartOutcome(c) ==
  CASE c.startup = "ok"                              -> "ok"
    [] c.startup = "ambiguous" \/ c.errors # {}      -> "cleanup_error"
    [] OTHER                                         -> "failed"

Outcome(c) ==
  IF c.op = "start" THEN StartOutcome(c)
  ELSE IF c.errors = {} THEN "ok" ELSE "cleanup_error"

Returns(outcome) ==
  /\ call.step = "return"
  /\ Outcome(call) = outcome
  /\ call' = NoCall
  /\ UNCHANGED <<docker, pending>>

CommandStep ==
  \/ InspectBeforeStart
  \/ DockerStartSucceeds \/ DockerStartFails \/ DockerStartTimesOut
  \/ HealthCheckSucceeds \/ HealthCheckFails \/ InspectAfterHealth
  \/ InspectBeforeStop
  \/ DockerStopSucceeds \/ DockerStopFails
  \/ InspectAfterStop

-----------------------------------------------------------------------------
(* The daemon and the engines.                                             *)

\* Engines have restart: "no"; one that exits stays down.
EngineExits(c) ==
  /\ docker[c] = "running"
  /\ docker' = [docker EXCEPT ![c] = "stopped"]
  /\ UNCHANGED <<pending, call>>

\* The daemon carries out a docker start whose client has given up.
LateStart(c) ==
  /\ c \in pending
  /\ pending' = pending \ {c}
  /\ docker' = [docker EXCEPT ![c] = IF @ = "missing" THEN @ ELSE "running"]
  /\ UNCHANGED call

=============================================================================
