# Formal models of single-gpu-ai-services

TLA+ models of the services that share one GPU, TLC configurations that check
them on small instances, and TLAPS proofs, for instances of any size, of the safety
properties of the lease machine, of the programs above and below it, of the client
registry, of who is admitted, of model provisioning and of the streams sent to clients.
Source paths are relative to the root of the repository; `PROJECT.json` maps every definition to the lines it models.

## 1. The system

Clients call the **Gateway** (or the **MCP** server, which forwards to it). For
every inference the Gateway takes a lease on the GPU from the **Dispatcher**,
which starts the engine of the requested service, and gives it back afterwards.
One engine service has the GPU at a time; an engine is a set of Docker
containers the Dispatcher starts and stops.

| component | state | operations | talks to |
| --- | --- | --- | --- |
| `dispatcher/dispatcher.py` `GPUDispatcher` | lease records, FIFO queue, owner, system state, epoch | `submit`, `get_lease`, `release`, `cancel`, `close`; worker thread `_run` | handlers in `app.py`; calls `EngineManager` without its lock |
| `dispatcher/engine_manager.py` `EngineManager`, `runner.py` | none of its own; the containers | `start`, `stop`, `reconcile` | Docker daemon and health endpoints, by commands with timeouts |
| `gateway/app/dispatcher_client.py` | the lease handle of one request | `acquire` (admit, poll, cancel on failure), `release` | Dispatcher over HTTP |
| `gateway/app/main.py`, `limits.py` | number of requests in flight | middleware, six inference routes | registry, lease client, engines |
| `client_access/registry.py` | cached clients and file stamp | `authenticate`, `_refresh` | registry file |
| `client_access/admin.py` | registry file, delivery files | `init`, `migrate`, `create`, `rotate`, `disable`, `enable`, `revoke`, `set-scopes` | registry file, under a lock |
| `mcp/server.py`, `mcp/auth.py` | MCP sessions | tools | registry, Gateway |
| `reproducibility/*` | model files and lock files | provision, verify | file system, network |
| `engines/tts/*`, `gateway/app/chat_stream.py`, `dispatcher/internal_auth.py` | none | start-up glue, SSE encoding, one secret comparison | |

What is hard about it: handlers and worker interleave around engine calls that
run without the lock; a command may time out and still take effect, in Docker as
on HTTP; the Dispatcher keeps everything in memory and is restarted by Docker
while engines run on; the deadlines of two programs have to fit together; registry
readers take no lock, and the administrator may be killed, or the power fail, between
any two of its steps. The
properties that make each part correct:

* lease machine: one owner, no record lost while it is needed, FIFO, every wait
  and every ownership bounded, nothing granted while the state of the engines is
  in doubt;
* engine manager: whatever fails, a call either leaves nothing behind or says that
  it might have; a cleanup tries everything; every call ends;
* lease client: an inference runs only under a lease that is active and its own; a
  request that is over leaves no lease behind; slots are not leaked;
* registry: no command undoes another, a reported revocation is permanent, a key comes
  into force only when it was delivered, and a reader never answers with grants
  older than its call, whatever happens to the file between its system calls;
* access: nothing is admitted on a grant older than the request, by REST or in an MCP
  session of any age;
* provisioning: a run that passes leaves the locked files, a source that serves other
  bytes costs no good file, and repeated runs converge after kills anywhere, but for a
  corrupt download, which fails closed until the operator removes it;
* SSE: a client that puts the chunks together has the answer of the engine.

`PROJECT.json` lists these hazards at the lines where they bite.

## 2. Modules

| module | models |
| --- | --- |
| `LeaseIds` | the lease ids, which `GPUDispatcher` and `LeaseClient` share |
| `GPUDispatcher` | the lease machine: one action per critical section of a handler or of the worker |
| `GPULease` | what it promises: a lock with one holder |
| `EngineManager` | `start`, `stop`, `reconcile` command by command, and the Docker daemon |
| `GPUSystem` | `GPUDispatcher` whose worker makes the calls of `EngineManager`; process crashes |
| `LeaseClient` | the Gateway's handler tasks, lease client, limiter and the commands under way |
| `GatewaySystem` | `LeaseClient` and `GPUDispatcher` joined by HTTP |
| `ClientRegistry` | the registry file, the administrator's commands and `TokenStore` |
| `ClientAccess` | the Gateway's middleware and the MCP server over an abstract registry |
| `ModelProvisioning` | `provision_models.py` and `verify_models.py` |
| `BufferedSSE` | `buffered_sse` and the client that reads its stream |
| `MC*` | instances for TLC |
| `GPUDispatcherProofs` | the inductive invariant of `GPUDispatcher`, for the modules below too |
| `GPUDispatcherSteps` | its action properties, the bound of its registry, and that it implements `GPULease` |
| `GPUSystemProofs`, `GatewaySystemProofs` | theorems about the two compositions |
| `ClientRegistryProofs`, `ClientAccessProofs`, `ModelProvisioningProofs`, `BufferedSSEProofs` | theorems about these modules |

### GPUDispatcher

`records`, `queue`, `current`, `system_state`, `closed` and `epoch` are the
attributes of the class; a request id without a record has `NoLease`. `worker`
is the program counter of the worker thread: `reconcile`, `start` and `stop` are
the engine calls, made without `_condition`, during which every handler may run;
`loop` is everything done under the lock; `returned` is the end of the thread.
`Submit`, `Release`, `Cancel` and `CancelUnknown` are the handlers (a refused or
repeated command changes nothing and is a stuttering step, except for the prune
of an admission that finds the registry full). A turn of `_run` is `WorkerWaits`,
`BeginStart`, `BeginStop` or `WorkerReturns`; each includes the expiry and the
prune that come first. The call ends with one of the `Reconcile*`, `Start*` and
`Stop*` actions, one per `except` branch. `Restart` is a new process.

Time is a countdown per record (`left`): the state of a record decides which of
`queue_deadline`, `active_deadline` and the end of the retention is compared
with the clock, so one number is enough, and the model needs no absolute time.
Durations are abstract units. `_next_wait_locked` only chooses how long the worker
sleeps and is left to the scheduler. `_next_queued_locked` tests the queue
deadline again with the reading of the clock `_expire_queued_locked` has just
used; that test never succeeds and is not modelled. Error texts are left out.

### EngineManager and GPUSystem

`call` is the call in progress: the operation, the next command and its container.
Every command may succeed, fail, or not run because the deadline of the call has
passed. `docker` is the true state of each container, `pending` the containers
whose `docker start` was killed by its timeout while the daemon may still do it
(`LateStart`). Engines exit at any time and, as their compose files say
`restart: "no"`, stay down. At a crash of the Dispatcher a `docker start` in
progress is abandoned as well. `StartsOutliveProcess` says whether an abandoned
start may take effect after the next process has inspected the container.
`GPUSystem` extends both modules: its worker's turns and returns are those of
`GPUDispatcher`, conjoined with what they mean for the call.
The initial states have any mixture of running, stopped and missing containers.
`dispatcher/app.py` never calls `close()`, so `closed` stays false there.

### LeaseClient and GatewaySystem

Each request has one task, at one await at a time (`pc`). The six routes have the
same shape and are one task here. At an await the reply may come, or the call
fails, times out, or the task is cancelled; the code treats the last three alike
(`GiveUp`, `InferenceEnds`, `CleanupEnds`). A request has its slot before its body has
come (`receiving`); nothing here bounds how long that takes, so `Receive` is not fair
and `RequestsEnd` starts after it. `status` is whether the client will be given a
result: an error of the release replaces one. `GatewaySystem` extends `GPUDispatcher` and
`LeaseClient`; each `Serve*` action takes one command off the network and conjoins the
handler of `GPUDispatcher` with the reply. `net` holds the commands under way; they are carried
out at most once (httpx does not retry), in any order, up to `CommandLifetime`
after they were sent, or lost. A poll is a read: the answer is fixed when the
Dispatcher serves it (`ServePoll`) and seen later. The best-effort cancel may be
lost for any reason, which includes a second cancellation that closes the HTTP
client under it. The deadline of the polling loop is a choice, because the model
has no duration for an engine start; the properties do not rely on it.

`GatewayAssumption` states how the budgets have to fit together:
`ActiveTimeout > InferenceTimeout + 2 * RequestTimeout` (330 > 300 + 2 * 10: the
reply to the last poll before the activation and the one after it may each take
a request timeout) and `TerminalRetention > CommandLifetime` (a refusal outlives
the admission it refuses). TLC refutes `InferenceHoldsLease`, respectively
`AcknowledgedCancelHolds`, when either is an equality. `RequestTimeout` bounds a
call as a whole, with the 0.2 s pause between polls; httpx applies its 10 s to
connecting, sending and receiving separately, so this is an assumption on the
network between the two containers.

### ClientRegistry

A file is an inode number, the time of its last change and its content; `path` is the
file the registry's path names, `durable` the one it would name after a power loss.
`Renamed`, `Rewritten` and `Unlinked` are the three things that can happen to it. A
rename over a file changes the ctime of the file that loses the name (it loses a
link), which a reader that has it open sees. An inode number is free again when
neither a name nor a reader has the file. Two changes never have the same time: the
nanosecond time stamps of the file system are taken to be distinct.

A command is `Start`, `Acquire` (flock), one of the commands of `mutate` or `Refused`,
then `WriteToken` if it has generated a key, `Replace` (up to `os.replace`) and
`Report` (the sync of the directory and the result); each can fail, and `Crash` and
`Outage` can come anywhere. A command reads the registry and validates the new one in
one step: nobody else who holds the lock can write between, and edits made without it
are `Outside`. `Valid` is `validate_registry`; whatever it refuses is `Broken`.

A call of `TokenStore` is `Call`, `Lstat`, `Open`, `Read`, `Fstat`, `Return`. The lock
of the object admits one call at a time per process, so a store has one call. `call` is
history: the contents the path had since the call began, and the clients whose
revocation had been reported then. `IOError` is a system call that fails for reasons
outside the file. A server whose first `_refresh` fails does not start; that is a call
without an answer here.

### ClientAccess

`NoStaleAnswer` shows that a call of `TokenStore` answers with what the registry was at
one moment of the call. `ClientAccess` takes that moment for the call: `registry` gives
the scopes of every key (none if unknown, disabled or revoked) or is `Unreadable`, and
changes between any two steps. `OpenSession` is `verify_token`; what it found stays with
the session. `CallTool`, `Recheck` (`current_client`), `BadPayload` and `Forward` are a
tool call; `Admit` and `Deny` the Gateway's middleware, for REST requests and for what
the tools forward. `seen` is history. An admitted request goes on in `LeaseClient`,
whose `Arrive` is the limiter.

### ModelProvisioning

`todo`, the groups still to go through (in the order of `Order`: `IsFirst`), and `left` are
the loops over groups and files, `pc` the step of the way the
group goes: `hf` (`download_hf_file`, the LLM's copy of it, and OCR), `stt` to `chown`,
`tts` to `copy`. A file is missing, bad or good. Every wrong download, error, kill and
damage draws on `MaxFaults`, so that a run without faults is one where sources serve
the locked bytes. `Abort` leaves in part what was being written. Extraction is two
steps, `TtsTruncate` and `TtsCopy`, since `open("wb")` empties a file before it is
written. Downloads by `huggingface_hub` are external. Called with a pinned commit and without
`force_download`, `snapshot_download` fetches the files the STT snapshot has not and leaves those it
has, good or bad (`SttFetch`); `hf_hub_download` into a directory may replace a bad file or
take it for downloaded (`HfFile`, `HfFails`). A bad file that stays makes the run fail, without
a fault: "Corruption fails closed; inspect before any repair or deletion"
(`reproducibility/README.md:212-213`).

### BufferedSSE

One action per turn of the loop over the choices (`EncodeChoice`, `EncodeFails`), one for the
end of the stream (`EncodeEnds`), and `Receive`, a client that merges the chunks by index as
streaming clients do. Texts are sequences, so that merging is real concatenation; fields may
be missing or of the wrong type. `StreamAssumption`: the engine gives no two choices of an
answer the same index, given or by position; a client could not tell such choices apart.

## 3. Runs

| run | shows |
| --- | --- |
| `lease_safety` | invariants and action properties of `GPUDispatcher`, and that it implements `GPULease` |
| `gpu_exclusive` | only the owner's containers run, or may still come up; cleanups account for everything |
| `gpu_liveness` | every engine call ends, so reconciliation and ownership do |
| `gateway_safety` | inferences hold their lease, acknowledged cancels stand, only a lease's own commands end it, slots are counted right |
| `gateway_liveness` | requests, leases and waits in the queue end, also with every command lost and handlers that die |
| `registry_admin` | no lost change, lasting revocation, keys in hand, through failures, deaths and a power loss; every command gets the lock and ends |
| `registry_readers` | no stale answer, no grant to a revoked client, recovery after repair |
| `access` | what is admitted was granted since the request was made |
| `provisioning` | what a pass means, what a failure may cost, convergence of every group that has no corrupt download |
| `sse_round_trip` | the client has the engine's answer |
| `late_start_overlap`, `replacement_race` | violations, see Findings |

What the less obvious properties say:

* `OwnerIsRecorded`: the worker subscripts `_records` with the owner's id. In a
  degraded process the owner may be a terminal record whose retention is over, and
  only the test `request_id != self._current_request_id` keeps the prune from
  killing the worker.
* `QueuedIsReachable`: expiry and service both walk `_queue`. Entries of ended leases
  stay there while the worker is busy, and an id may be admitted again after its
  retention, so ids can be in the queue twice.
* `NoOvertaking` is stated for queues without such duplicates: with one, the second
  admission inherits the place of the first. With the deployed budgets an entry
  stays in the queue for at most 120 + 60 + 330 + 60 s behind one owner, less than
  the 600 s of retention, and the Gateway uses every id once.
* `EndedIsFinal`: late or repeated commands find the outcome the lease had.
* `ExclusiveGPU` includes the containers a daemon may still start, and goes on in a
  degraded process that has an owner.
* `ReleasedBeforeAnswer`: clients may send the next request as soon as they have the
  answer; it holds because an error of the release takes the answer's place.
* `RevokedIsRefused`: an inode number that is used again must not make an old cache
  valid; the times in the fingerprint are what prevents it.
* `QuietCallSucceeds`: `_refresh` forgets its stamp when it raises, otherwise a file that
  is restored with the same fingerprint would be answered from an empty cache.
* `NothingLost` excludes runs that are killed or cannot write: those may cost a TTS file
  (`Converges` says that the next runs bring it back).

Bounds. `lease_safety` has three requests and `MaxRecords = 2`, so a full registry,
an id refused before it was admitted, and two waiting leases behind an owner all
occur; `MaxQueueWait = 2` gives two different waits, the other timers are 1 (running
or passed); `QueueBound = 3` leaves room for a stale entry besides two live ones;
`MaxEpoch = 1` is one restart, which the epoch test and the reset need. `gpu_exclusive`
has one service of one container and one of two (llm and ocr), two requests and two
health attempts. `gpu_liveness` has one request: what it shows is about the calls.
`gateway_safety` has two requests, a restart, and the smallest budgets that satisfy
`GatewayAssumption`; `gateway_liveness` has one slot in the limiter, so 429 occurs, and two
records, so that a lease can wait behind one a dead handler has left. `registry_admin`
has two administrators and two clients, a key to generate and one made by a
client, and three changes of the file: enough for a change, one that competes with it
and one after a power loss. `registry_readers` has one store, one administrator, three inode
numbers and three changes, one of them made by other tools, so a file can be replaced
twice and its number come back. Stores do not interact, so one is enough. `access` has
two capabilities, so that one can be granted without the other, and two changes:
between the session and the call, and between the two looks. `provisioning` has one group
per way, with two files where a way treats its files together, any first state of
the disk, and two faults, so that a second one can meet the repair of the first.
Symmetry (request ids, inode numbers, administrators, capabilities) is used only in runs
without liveness.

Fairness. The worker thread polls at least every 50 ms, every external command has
a timeout, the health loop is counted, every await of a handler has a timeout, and
clocks advance: hence weak fairness of the worker's turns, of the ends of engine
calls (of their commands in `GPUSystem`), of task steps and of `Tick`. Nothing is
assumed of clients, of the network or of the daemon, and no restart is assumed.
`CommandsEnd`: a command that has the lock runs on (weak fairness), and `flock`
wakes those who wait in turn, so one that waits is not passed over for ever (strong
fairness). The kernel frees the lock of a process that dies. `Converges`: a
run goes on, and the operator runs the provisioner for each group by itself (`--model`) again
and again (strong fairness, since other runs may come between; by itself, since a corrupt file
of one group ends a run before it gets to the next). Faults are bounded, which stands for
sources and hosts that are in order from some time on. Nothing is assumed of how bad files are
repaired: `Converges` leaves out the groups where one stays (`Corrupt`). The TTS group is never
left out, since extraction writes all its files again.

`CHECK_DEADLOCK FALSE` in every configuration: a Dispatcher without commands waits, a closed
or degraded one waits for ever; commands, requests and streams end.

Mutants. Next to the definitions stand variants with a plausible bug (comment "Mutant
of ..."); `PROJECT.json` pairs each property with one that breaks it.

## 4. Findings

`late_start_overlap`: `docs/superpowers/specs/2026-09-24-gpu-lease-recovery-design.md`
lines 93-95 say that a timed-out `docker start` proves nothing, and that no second GPU
use is authorised on the strength of a single inspect; line 138 asks that a restart
reconciles without overlapping engines. Within one process the code keeps to this:
an ambiguous start leaves it degraded (`gpu_exclusive`). The next process, however,
inspects each container once, knows nothing of the abandoned start, and reports
ready. If the daemon carries the start out after that inspect, engines of two
services run together. With `StartsOutliveProcess = FALSE`, that is, if the daemon
has settled before the new process looks, the property holds.

`replacement_race`: `_read` compares the ctime before and after the read to find torn
reads. A replacement changes the ctime of the file that is replaced, so a reader that has
opened the old registry when the new one takes its place raises `RegistryUnavailable`, and
its request is answered 503, although both files are valid. `registry.py` (line 1)
announces "atomic-replacement-aware hot reload", and the design of 2026-09-25 (line 20)
fails closed on an "invalid or missing" registry. The next call succeeds.

## 5. Proofs

All theorems are about every value of the constants that satisfies the named assumptions;
each assumption is evaluated by TLC on the instances of section 3. Every inductive
invariant was checked by TLC before it was proved.

### The lease machine

`GPUDispatcherProofs`, from `RequestsAssumption` (finitely many lease ids) and
`DispatcherAssumption` (positive budgets as the constructor demands, `None` is not an id):
`TypeCorrect`, `MutualExclusion` (`SingleOwner`), `OwnerStaysRecorded` (`OwnerIsRecorded`),
`OwnerKeepsMoving` (`OwnerMovesOn`), `QueuedStaysReachable` (`QueuedIsReachable`).

All follow from the inductive invariant `IInv`. `SingleOwner` alone is not
inductive: that the result of an engine call ends the right lease needs
`WorkerPhase` (a worker in a call has an owner in the phase of the call, whatever
the handlers did meanwhile, and calls are made only while the dispatcher is ready), that
the prune spares the owner needs `OwnerPhase` (an
owner is in an owning state, or is the failed start of a degraded process), and that
`Restart` and reconciliation are safe needs that a reconciling worker has no owner.
`QueuedIsReachable` is inductive with `TypeOK`; its hard case is `BeginStart`, where the
entries dropped with the one taken are not queued any more. Housekeeping is described
once, by `HousekeptPointwise` and `HousekeptStates`.

`GPUDispatcherSteps` adds one description of what a step may do to a lease, `LeaseStep`:
ten transitions with the conditions under which they happen (lemma `LeaseLife`). The action
properties `EndIsFinal`, `CancelWins`, `LateIsNotStarted` and `DegradedIsInert` are read off
it. `FirstComeFirstServed` looks at `BeginStart` itself, where the entry taken is the first
that is queued after the expiry. `RegistryStaysBounded` is by the cardinality of `Known`:
only the two commands that test `HasRoom` after their prune add a record, and they add one.
`Refinement` (`ImplementsLease`) maps every action to a step of `GPULease`: a turn of the
worker may expire and forget any number of leases besides handing out the GPU, which is
why the abstract lock lets leases end and be forgotten along with each of its steps.

### GPUSystem

`GPUSystemProofs`, with `EngineAssumption` (services have disjoint, non-empty lists of
containers) and `SystemAssumption` (they are the services of the dispatcher). Every step
is a step of `GPUDispatcher` or leaves it alone, so `SystemIsDispatcher` holds and `IInv`
can be used. With `Refinement` this gives `SystemImplementsLease`: the service as deployed
implements `GPULease`. `SystemTypes` is unconditional.

`CallsAreFinite` (`CallsMoveOn`), also unconditional, is the part of the liveness of the calls
that is a matter of steps: every command of a `start`, `stop` or `reconcile` takes the call down
a lexicographic order of naturals (turned to cleanup, containers to do, attempts left,
commands before the next attempt), and nothing else changes a call in progress but its return
and a new process. With the fairness of section 3 a call therefore ends, for any services and
`HealthAttempts`; TLC checks that conclusion (`ReconcileEnds`, `OwnerLetsGo`) on an instance.

`OneServiceHasTheGPU` (`ExclusiveGPU`), `CleanupsAccount` (`CleanupAccountsForAll`) and
`NoOverlapOtherwise` (`NoOverlap`) assume `~StartsOutliveProcess`; with it they are false, see
section 4. The invariant ties the three levels together: `CallOfWorker` (the call is the
one the worker waits for, and still for the owner's service), `CallShape` (which steps an
operation can be at, on which containers), `Accounted` (during a cleanup a running engine is
still to come, was reported, or may be the work of an ambiguous start) and `NoStrayStart` (a
`docker start` that was given up is known to the call in progress, or the process is
degraded). `Accounted` is what makes a cleanup that ends without errors free the GPU;
`NoStrayStart` is what makes a clean failure of a start different from an ambiguous one.

### GatewaySystem

`GatewaySystemProofs`, with `ClientAssumption` (positive timeouts) and `GatewayAssumption`
(section 2): `GatewayIsDispatcher`, `GatewayTypes`, `InferencesHoldTheLease`
(`InferenceHoldsLease`), `CancelsHold` (`AcknowledgedCancelHolds`), `ReleasesComeFirst`
(`ReleasedBeforeAnswer`), `SlotsAreCounted` (`SlotsMatchTasks`), `OthersCannotEnd`
(`OnlyOwnCommandsEnd`). Two consequences are stated on their own: `GatewayImplementsLease`
(the leases implement `GPULease` under this client and its lossy network) and
`OneInferenceAtATime` (two handlers never infer under leases of the same process).

The invariant is one formula per request, `RequestInv`:

* `Messages`: at most one command of a kind is under way, none of a kind that was answered,
  and a task that waits for, or has ended with, the release has no admission under way;
* `NotAdmitted`: while the admission is under way there is no lease, at most a refusal, and
  a refusal that was acknowledged has more of its retention left than the admission has of
  its lifetime (`TerminalRetention > CommandLifetime`);
* `Held`: the arithmetic of the deadlines. An active lease of a task that waits has more
  left than the inference and the rest of that wait; if the answer on its way still says
  "waiting", one request timeout more, because the lease was activated after that
  answer was made. At the activation this is `ActiveTimeout > InferenceTimeout + 2 *
  RequestTimeout`, and time takes the same from both sides;
* `Acknowledged`, `Used`, `TaskShape`: what an acknowledged command leaves, that a lease that
  was used does not start again, and that timeouts are within their budgets.

A step is about one request. The others see only what lemma `DriftKeeps` describes: their
commands may be lost, and their lease may move as the worker, the clock of the registry
or commands of others move it (`Drift`), which never ends an active lease before its deadline.

### ClientRegistry

`ClientRegistryProofs`, from `RegistryAssumption` (the values that mean "none", "broken" or
"closed" are not keys, registries or inodes; the keys of the legacy registry are in their
clients' hands; it is valid): `TypeCorrect`, `RevocationIsForever` (`RevocationHolds`), `KeysAreHandedOver`
(`KeyHandedOver`), `ChangesAreNotLost` (`NoLostChange`), `AnswersAreFresh` (`NoStaleAnswer`),
`QuietCallsSucceed` (`QuietCallSucceeds`), `RevokedStayOut` (`RevokedIsRefused`).

The commands' half of the invariant: the lock admits one (`LockHeld`), so what a command is
about to write follows what is there (`Pending`); revocations are tombstones in
the file that is there and in the one that is durable (`Reported`), and so are keys delivered
before they are in either (`Handed`). The readers' half: a descriptor of
the file the path names sees that file, and nothing a reader remembers is newer than the
clock (`Descriptor`), so a fingerprint that matches goes with the content it was taken of
(`Cache`, `Reading`), also after an inode number has come back; an undisturbed call has the
file of the path in hand (`Undisturbed`), and what it may read bars those who were barred
when it began (`Barred`).

### ClientAccess

`ClientAccessProofs`, for all keys, capabilities, requests and any number of changes, from
`AccessAssumption` (the values that mean "none" are not values): `AccessTypes` (`TypeOK`) and
`AccessIsCurrent` (`AdmittedIsAuthorized`). The invariant adds what is known of a request on
its way: the present registry is among those seen since it was made (so that a look is a
grant: `LookIsGrant`), and a tool call that passed its check has seen `mcp` granted, which
stays true as the history grows (`GrantsStay`).

### ModelProvisioning

`ModelProvisioningProofs`, from `ProvisioningAssumption` (groups do not share files):
`PassIsComplete` (`PassMeansComplete`) and `NothingIsLost` (`NothingLost`). `verify` looks at the
files and the ref, but not at the owner of the STT cache, so `PassMeansComplete` needs
`OwnerIsSet`: from the start of a run that includes STT the group is still to come or its
owner was set, and nothing takes it back before the run ends. `OnGroup` says that a run is at the first group
to do, in a step of its way; `Kept` and `RightArchive` that only the file being copied
can be less than it was, and that it comes from the locked archive.

### BufferedSSE

`BufferedSSEProofs`, from `StreamAssumption`, for answers of any number of choices with texts
and lists of tool calls of any length: `AnswersArriveWhole` (`RoundTrip`). `RoundTrip` speaks only of the
end; the invariant says how the answer is spread over stream and client before it. `StreamOk`: the
stream holds chunks of the choices encoded so far, none twice. `FieldsOk`: a field of a choice is
on its way and untouched at the client, or has arrived with its whole value, or there was
nothing to send. `MessagesOk`: no choice goes by without a chunk, even an empty one. `PhaseOk`:
"[DONE]" is the last chunk, so nothing is on its way after it. Distinct indices are what keeps the chunks of two choices apart
(`ItemsDiffer`), the position each tool call carries is what puts it back (`PlacedCalls`).

### Only model-checked

Liveness (`OwnerLetsGo`, `QueueDrains`, `ReconcileEnds`, `RequestsEnd`, `LeasesEnd`,
`CommandsEnd`, `Converges`): outside what the installed provers do, but for the decreasing order
behind `ReconcileEnds` and `OwnerLetsGo` (`CallsAreFinite`).

## 6. Not modelled

* The shared secret of `internal_auth.py`: one comparison, no state.
* Validation of payloads and response schemas: a choice in `Reject` and `InferenceEnds`.
* Sizes: the byte limit of the registry is a limit on clients here, so that a row that grows
  by its time stamps is not seen; upload limits are a choice in `ReceiveFails`.
* The directory of delivery files: `write_token` syncs the file and not its directory (as
  `atomic_write` does for the registry), so by fsync(2) a power loss may take the name of a key
  that is in force; `KeyHandedOver` is about what was written before the registry was replaced.
* Paths: the confinement of model files to their root, file modes and owners (but the STT
  cache's), which nothing in the program changes afterwards.
* Two provisioners at once: there is no lock, and nothing says that it is supported.
* `ai_services_tools.py`, `image_inventory.py`, `run_cpu_checks.py`: reports, one pass each.
* Engine entry points: start-up glue of third-party servers.

## 7. State

All modules are written, and every invariant and action property that a passing run checks
is a theorem for all values of the constants. What remains is liveness, which TLC checks on
the instances of section 3, and what section 6 leaves out.
