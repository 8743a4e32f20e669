---------------------------- MODULE LeaseClient ----------------------------
(***************************************************************************)
(* The Gateway's side of a lease: gateway/app/dispatcher_client.py, and    *)
(* the route handlers of gateway/app/main.py that wrap an inference in it. *)
(*                                                                         *)
(* Every request served has a handler task of its own.  The six routes of  *)
(* main.py that use the GPU have the same shape: validate, acquire a       *)
(* lease, run the inference inside try, release in finally.  acquire()     *)
(* posts the admission, polls until the lease is active, and on any        *)
(* exception sends one best-effort cancel before it lets it through.       *)
(*                                                                         *)
(* At an await a task waits for a reply, and may instead be woken by a     *)
(* timeout, a connection error or the cancellation of the task; the code   *)
(* treats them alike, so one action stands for the three.  A command that  *)
(* was sent is then still on its way: net holds the commands that may yet  *)
(* take effect, late, out of order, or never.  Module GatewaySystem puts   *)
(* the Dispatcher at the other end.                                        *)
(*                                                                         *)
(* Time: left is what remains of the timeout of the current await.  The    *)
(* event loop fires timeouts, so time does not pass beyond them.           *)
(***************************************************************************)
EXTENDS LeaseIds, Integers

CONSTANTS
  MaxInflight,       \* MAX_INFLIGHT_REQUESTS
  RequestTimeout,    \* request_timeout of a call to the Dispatcher
  InferenceTimeout,  \* INFERENCE_TIMEOUT_SECONDS
  CommandLifetime    \* how long a command can be under way before it takes
                     \* effect or is lost

ASSUME ClientAssumption ==
  /\ MaxInflight \in Nat \ {0}
  /\ RequestTimeout \in Nat \ {0}
  /\ InferenceTimeout \in Nat \ {0}
  /\ CommandLifetime \in Nat

VARIABLES
  task,    \* the handler task of each request
  net,     \* commands sent and not yet carried out
  active   \* _active of the RequestCapacityLimiter

clientVars == <<task, net, active>>

-----------------------------------------------------------------------------

\* The awaits of a handler that is being served.
Awaits == {"receiving", "admitted", "acquiring", "polling", "inferring",
           "cancelling", "releasing"}

\* status is what the client will be answered, as far as it is decided: "ok"
\* is a result of the inference.
Task(pc, epoch, left) ==
  [pc |-> pc, epoch |-> epoch, reply |-> "none", left |-> left, status |-> "error"]

Commands == {"acquire", "cancel", "release"}

Sent(kind, r) == [kind |-> kind, req |-> r, ttl |-> CommandLifetime]

\* A reply reaches the task only while it still waits for it.
Replied(r, pc, reply) ==
  task' = IF task[r].pc = pc THEN [task EXCEPT ![r].reply = reply] ELSE task

EndedStates == {"released", "cancelled", "expired", "failed"}

-----------------------------------------------------------------------------
(* The middleware, and acquire().                                          *)

\* The middleware admits a request or answers 429.  The slot is taken before
\* the body has come.
Arrive(r) ==
  /\ task[r].pc = "new"
  /\ \/ /\ active >= MaxInflight
        /\ task' = [task EXCEPT ![r].pc = "ended"]
        /\ UNCHANGED active
     \/ /\ active < MaxInflight
        /\ task' = [task EXCEPT ![r].pc = "receiving"]
        /\ active' = active + 1
  /\ UNCHANGED net

\* The last byte of the body arrives: when is up to the client.
Receive(r) ==
  /\ task[r].pc = "receiving"
  /\ task' = [task EXCEPT ![r].pc = "admitted"]
  /\ UNCHANGED <<net, active>>

\* Mutant of Ends: the slot is not given back.
EndsKeepingSlot(r, reply, status) ==
  /\ task' = [task EXCEPT ![r] = [Task("ended", @.epoch, 0) EXCEPT
                                   !.reply = reply, !.status = status]]
  /\ UNCHANGED active

\* Mutant of Ends: the slot is given back twice.
EndsGivingTwice(r, reply, status) ==
  /\ task' = [task EXCEPT ![r] = [Task("ended", @.epoch, 0) EXCEPT
                                   !.reply = reply, !.status = status]]
  /\ active' = active - 2

\* The handler returns or raises, and the middleware's finally gives the slot
\* back.
Ends(r, reply, status) ==
  /\ task' = [task EXCEPT ![r] = [Task("ended", @.epoch, 0) EXCEPT
                                   !.reply = reply, !.status = status]]
  /\ active' = active - 1

\* The client goes away, or has sent too much.
ReceiveFails(r) ==
  /\ task[r].pc = "receiving"
  /\ Ends(r, "none", "error")
  /\ UNCHANGED net

\* Nothing was sent yet: the payload is invalid, the Dispatcher is not ready
\* or does not answer, or the task is cancelled.
Reject(r) ==
  /\ task[r].pc = "admitted"
  /\ Ends(r, "none", "error")
  /\ UNCHANGED net

\* /ready has answered with an epoch: send the admission.
SendAcquire(r, epoch) ==
  /\ task[r].pc = "admitted"
  /\ task' = [task EXCEPT ![r] = Task("acquiring", epoch, RequestTimeout)]
  /\ net' = net \cup {Sent("acquire", r)}
  /\ UNCHANGED active

\* except BaseException: cancel the same lease, once, and raise.
SendCancel(r) ==
  /\ task' = [task EXCEPT ![r] = Task("cancelling", @.epoch, RequestTimeout)]
  /\ net' = net \cup {Sent("cancel", r)}

\* Mutant of Answered: error statuses are taken for "not yet".
AnsweredIgnoringErrors(r) ==
  /\ task[r].pc \in {"acquiring", "polling"}
  /\ task[r].reply # "none"
  /\ \/ /\ task[r].reply = "active"
        /\ task' = [task EXCEPT ![r] = Task("inferring", @.epoch, InferenceTimeout)]
        /\ UNCHANGED net
     \/ /\ task[r].reply \in {"queued", "starting", "stopping", "error"}
        /\ task' = [task EXCEPT ![r] = Task("polling", @.epoch, RequestTimeout)]
        /\ UNCHANGED net
     \/ /\ task[r].reply \in EndedStates
        /\ SendCancel(r)
  /\ UNCHANGED active

\* The reply to the admission or to a poll says what to do next: use the
\* lease, poll (again), or give up on a lease that has ended or on an error.
Answered(r) ==
  /\ task[r].pc \in {"acquiring", "polling"}
  /\ task[r].reply # "none"
  /\ \/ /\ task[r].reply = "active"
        /\ task' = [task EXCEPT ![r] = Task("inferring", @.epoch, InferenceTimeout)]
        /\ UNCHANGED net
     \/ /\ task[r].reply \in {"queued", "starting", "stopping"}
        /\ task' = [task EXCEPT ![r] = Task("polling", @.epoch, RequestTimeout)]
        /\ UNCHANGED net
     \/ /\ task[r].reply \in EndedStates \cup {"error"}
        /\ SendCancel(r)
  /\ UNCHANGED active

\* The call fails, the acquisition deadline passes or the task is cancelled.
GiveUp(r) ==
  /\ task[r].pc \in {"acquiring", "polling"}
  /\ SendCancel(r)
  /\ UNCHANGED active

-----------------------------------------------------------------------------
(* The body of the handler.                                                *)

\* The inference has succeeded, or has failed, timed out, been cancelled or
\* returned what it should not; finally releases the lease.  The release is
\* shielded from the task's cancellation.
InferenceEnds(r) ==
  /\ task[r].pc = "inferring"
  /\ \E status \in {"ok", "error"} :
       task' = [task EXCEPT ![r] =
                  [Task("releasing", @.epoch, RequestTimeout) EXCEPT !.status = status]]
  /\ net' = net \cup {Sent("release", r)}
  /\ UNCHANGED active

\* Mutant of CleanupEnds: an error of the release is swallowed.
CleanupEndsQuietly(r) ==
  /\ task[r].pc \in {"cancelling", "releasing"}
  /\ Ends(r, task[r].reply, task[r].status)
  /\ UNCHANGED net

\* The release or the cancel was answered, or its call failed: either way
\* the handler ends, and nothing is sent again.  An error of the release
\* takes the place of the answer.
CleanupEnds(r) ==
  /\ task[r].pc \in {"cancelling", "releasing"}
  /\ Ends(r, task[r].reply, IF task[r].reply = "ok" THEN task[r].status ELSE "error")
  /\ UNCHANGED net

-----------------------------------------------------------------------------
(* The Gateway process and the network.                                    *)

\* The process dies with all its tasks; nobody cancels their leases.
GatewayCrash ==
  /\ active > 0
  /\ task' = [r \in Requests |->
                IF task[r].pc \in Awaits
                THEN Task("ended", task[r].epoch, 0) ELSE task[r]]
  /\ active' = 0
  /\ UNCHANGED net

Lose(m) ==
  /\ m \in net
  /\ net' = net \ {m}
  /\ UNCHANGED <<task, active>>

\* Mutant of HasTimeout: the inference is not under a timeout.
HasTimeoutButInference(t) == t.pc \in Awaits \ {"receiving", "admitted", "inferring"}

\* The awaits under a timeout: calls to the Dispatcher (its httpx client has
\* request_timeout, into which the pause between polls is counted) and the
\* inference.
HasTimeout(t) == t.pc \in Awaits \ {"receiving", "admitted"}

MayPass == \A r \in Requests : HasTimeout(task[r]) => task[r].left > 0

ClientTick ==
  /\ MayPass
  /\ task' = [r \in Requests |->
                IF HasTimeout(task[r]) THEN [task[r] EXCEPT !.left = @ - 1] ELSE task[r]]
  /\ net' = {[m EXCEPT !.ttl = @ - 1] : m \in {n \in net : n.ttl > 0}}
  /\ UNCHANGED active

\* Steps of the tasks themselves, once they are at work.
TaskStep(r) == Reject(r) \/ Answered(r) \/ GiveUp(r) \/ InferenceEnds(r) \/ CleanupEnds(r)

ClientInit ==
  /\ task = [r \in Requests |-> Task("new", 0, 0)]
  /\ net = {}
  /\ active = 0

=============================================================================
