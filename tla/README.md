# UCSER in TLA+

UCSER (Universal Cross-Shell Execution Runtime) turns a request into a UCER, a
signed list of shell steps, checks it against a policy, runs its steps in
sandboxes and records what happened. Larger requests become a graph of UCERs
that an orchestrator feeds to workers through a NATS JetStream queue. This
directory holds TLA+ models of the parts that carry this logic, TLC
configurations that check them on small instances, and TLAPS proofs of the
properties that matter most. `PROJECT.json` lists components, runs, hazards,
findings and theorems, and maps every definition to the lines it models.

Paths in this document are relative to the repository.

## 1. The system

| Component | Code | State | Operations | What makes it hard |
|---|---|---|---|---|
| Task graph | `core/dag.py` | status and UCER id of each node | `get_ready_nodes`, `mark_completed`, `mark_failed`, `is_complete`, `has_failed` | dependencies that are no node of the graph |
| DAG orchestrator | `core/orchestrator.py` | graph in memory, checkpoint in the KV store, condition `_node_updated` | `execute_graph`, `_on_job_event`, `_sync_graph_state`, `recover_graph`, `dispatch_ucer` | two coroutines on one graph, crashes, redelivered events, publish acks that get lost |
| Data bus, telemetry | `core/databus.py`, `utils/observability/metrics.py` | NATS connection, subscriptions | `publish_event`, `subscribe`, `emit_execution_metric` | delivery at least once, from the start of the stream |
| Job queue | `core/scheduler.py` | NATS connection, stream `UCSER_JOBS`, a durable consumer per worker | `submit_job`, `close`, `DistributedWorker.start` | redelivery, lost acks, races while connecting |
| Pipeline | `core/pipeline.py`, `core/middlewares.py`, `core/ucer.py`, `core/executor.py` | the UCER object, its record in the database | crypto, policy, persistence and engine middleware; `sign_intent`, `verify_integrity` | partial failure, cancellation, two copies of one job, resubmission |
| Policy gate | `security/policy.py`, `security/contract.py` | none (adds to `required_capabilities`) | `PolicyGate.evaluate`, contracts | it changes what was signed |
| Persistence | `core/db.py` | SQLite tables, NATS buckets | `save_ucer`, `get_ucer`, `list_ucers`, `set_kv`, `get_kv`, `connect`, `close` | writes on threads of their own, a half-made connection |
| Sandbox sessions | `core/sandbox.py`, `core/microvm.py` | container, shell process, reader queues and workspace per execution id | `run`, `cleanup`, `create_snapshot`, `restore_snapshot` | shared sessions, end markers, timeouts, dying shells |
| Snapshots and replay | `engine/state_manager.py`, `engine/manager.py`, `core/executor.py` (`replay`), `security/mutation_controller.py` | workspace, its backup | `capture`, `restore`, `cleanup`, `replay`, `execute_ucer`, `run_cycle` | one backup path for all users, crash in the middle of a restore |
| Semantic compiler | `semantic/compiler.py`, `semantic/llm_client.py`, `semantic/capabilities.py`, `security/auditor.py`, `security/ps_daemon.py` | the PowerShell daemon behind a fixed port | `compile` with retries, `resolve_for_command`, `audit` | two audits of one plan at different times, a daemon that is spawned by racing callers, slow or dead |
| RBAC | `core/rbac_system.py` | registries of users and accounts | create, grant, revoke, deactivate, check | contexts that hold objects, stale permissions |
| Secrets | `core/secrets_management.py` | the key file, encrypted files | get, set, delete | key creation race, interrupted overwrites |
| Migration | `core/db_migration.py` | two databases | migrate | aborted transactions |
| REST server, dashboard | `api/rest_server.py`, `api/mcp_server.py` | one event queue for all clients, last results | `execute_workflow_task`, `event_generator` | readers that share a queue, failures replaced by simulated results |
| Front end and helpers | `semantic/`, `core/ir.py`, `core/dsl.py`, `core/uck.py`, `utils/`, `adapters/`, `engine/adapters/`, `cli/` | none of their own | text to plan, wrapping of subprocesses, output | data conversion and I/O |

How they interact: `plan_workflow` makes a graph of intents; the orchestrator
compiles each ready node to a UCER and submits it to the job queue; a worker
runs the pipeline on it; the engine middleware emits a telemetry event per
step; the orchestrator's subscription marks the node, checkpoints the graph
and wakes its loop. Pipelines share the table of UCER records; orchestrator
processes share the key-value store and the telemetry stream.

What each component has to guarantee:

* orchestrator: jobs start after the jobs they depend on, completions rest on
  evidence, a crash loses nothing, a batch stops at a failed dispatch, the
  graph completes;
* job queue: every submitted job runs, it is acked only after it ran,
  duplicates have a cause;
* pipeline: what runs was admitted and signed as a whole, it is recorded
  before it runs, the recorded outcome is the real one;
* sandbox: the exit code reported is the command's where the shell has one for it,
  output of one command is never another's, what is given up is stopped;
* snapshots: a restore gives back what its capture saw unless another user of the
  one backup path began a capture since, and a restore cut off leaves the backup;
* persistence: what was saved is found, operations fail only for a cause;
* compiler: what it returns was put to the auditors as a whole, it refuses only for
  cause;
* secrets, RBAC: what was stored can be read, a decision rests on the roles the
  engine has at that moment;
* dashboard: what is announced is on record, no event vanishes, every task ends.

## 2. The modules

| Module | Models | Extends |
|---|---|---|
| `Dag` | `UCERGraph`: graph values and the operators on them | |
| `DagOrchestrator` | execute loop, event handler, checkpoints, crash and recovery, with the queue, the workers, the stream and the store as environment | `Dag` |
| `TaskGraph` | the abstract promise: work starts when its dependencies are confirmed | |
| `DagProperties` | properties, refinement mapping, fairness | `DagOrchestrator` |
| `DagProofs` | inductive invariant and theorems | `DagProperties`, TLAPS |
| `JobQueue` | `JobScheduler`, `DistributedWorker`, the JetStream consumers; its properties | |
| `JobQueueProofs` | theorems about `JobQueue` | `JobQueue`, TLAPS |
| `Pipeline` | the four middlewares, UCER objects and records | |
| `PipelineProperties` | its properties | `Pipeline` |
| `PipelineProofs` | theorems about `Pipeline` | `PipelineProperties`, TLAPS |
| `Sandbox` | `SandboxExecutor`: sessions, markers, timeouts, cleanup, with docker and the shells as environment | |
| `SandboxProperties` | its properties | `Sandbox` |
| `SandboxProofs` | inductive invariant and theorems | `SandboxProperties`, TLAPS |
| `Database` | `NATSDatabase` and `SQLiteDatabase` used by several coroutines; its properties | |
| `Secrets` | the encrypted local backend in several processes; its property | |
| `Rbac` | `RBACEngine`, access contexts and decorators in several threads; its property | |
| `Snapshot` | `FastHardlinkSnapshot` and its users; its properties | |
| `StoresProofs` | theorems about `Database`, `Secrets` and `Snapshot` | all three, TLAPS |
| `Compiler` | `SemanticCompilerFacade`, the LLM's retries, the policy gate's screening, both auditors and the daemon; its properties | |
| `CompilerProofs` | theorems about `Compiler` | `Compiler`, TLAPS |
| `Cockpit` | the background tasks of the REST server, its event queue and dashboards; its properties | |
| `CockpitProofs` | inductive invariant and theorems | `Cockpit`, TLAPS |
| `MCServices` | `Compiler`, `Rbac`, `Secrets`, `Database` and `Snapshot` side by side | all five |
| `ServicesProofs` | theorems about `Rbac`, and about the five services together | `MCServices`, `StoresProofs`, `CompilerProofs` |
| `MC...` | the other instances TLC checks | |

In the modules about coroutines an action is the code between two `await`s:
asyncio runs one coroutine at a time and switches only there. `Sandbox` is about
threads: there an action ends at each call that may block or that others may
overlap. Bounds are constants named
`Max...`. An operator that a comment calls a mutant is a plausible bug: a
property is known to be able to fail because TLC finds it violated once that
operator replaces the one it is a mutant of. Mutants belong to no specification.

### Dag, DagOrchestrator

`graph` is the `UCERGraph` in memory, `kv` the value under `graph.<id>`,
`write` the `set_kv` call each of the two coroutines waits for. `pc` names the
await at which `execute_graph` is suspended; `Continue` is the code from the
end of one await to the next, which may leave the `for` loop over the list of
ready nodes (`todo`, computed before earlier awaits), test the `while` condition
and start the next node. `handling` is the event `_on_job_event` is suspended
with. `Crash` and `Recover` are the death of the process and `recover_graph`
followed by `execute_graph` in a new one, which subscribes anew without a
durable name and so sees the whole stream again (`FirstDelivered`).

A UCER id is `<<node, process number>>`: the compiler makes a fresh id each
time, and a process compiles a node once (theorem `NoDoublePublication` rests
on this being so, and proves that it is).

What may go wrong is a set of faults in `env`, chosen in `Init`; a fault not in
the set never happens. `env.ordered` distinguishes the NATS store (puts of one
connection arrive in order) from SQLite (a thread per write), `env.databus` an
orchestrator with a data bus from one without.

Simplifications: an event is in the stream as soon as its step ends
(`emit_execution_metric` runs in a task of its own; a lost event is the fault
`exit`); the ack of the subscription is part of `EventHandled`.

### JobQueue

`submit` and `worker` hold the await at which each coroutine is suspended. The
durable consumer of worker `w` is `next[w]` (first message never delivered),
`again[w]` (to be redelivered) and `acked[w]`. Whatever goes wrong costs one of
`MaxFaults` faults, so that "how much went wrong" can be counted. `hasty`,
`silent` and `closed` are history: which calls found `js` set by a connect that
was not over, which got no answer and at which await, and whether `close` was
called. They restrict nothing; `RaisesNeedCause` needs them to say of a call that
raised what was the case when it began.

### Pipeline

`obj` holds the UCER objects, `db` the records by command id; two objects may
be copies of one UCER, as two deliveries of a job make them. The canonical hash
is the tuple it is computed from. `late` holds the saves of cancelled tasks: a
save runs in a thread and cancelling its caller does not stop it. The thread has
the live object (`db.py:75`) and serialises it when it gets there (`LateDump`),
which may be after the owner has edited or submitted it again, and stores what it
has read later still (`LateSave`). So a record may show a state in which no save
was asked for; `RecordTellsOutcome` says what can be relied on all the same:
"completed" is only ever said of an object whose signed steps all succeeded, and
"failed" of such an object only when it was submitted again (and refused) before
the thread of a cancelled save had read it. `overtaken` is the history of that.

Simplifications: one object is used by one task at a time; a save takes effect
when its await ends (or later, when it was cancelled); an adapter nobody knows
is a step that raises; a command's text is abstracted to the capabilities the
audit finds and whether it is safe.

### Sandbox

There is one `SandboxExecutor` per shell, and the executors of one execution id
share a workspace directory (`folder`). The dicts of an executor are functions
from shells to sessions: a session stands for a container, the shell in it
(`alive`), the docker exec process on the host that is the shell's client (`up`),
the pipes and the reader's queues, and bears the name of the call of `run` that
started it, so that none has to be counted. `cleanup` ends the client first; the
shell goes on with what it was given, unheard, until docker stop ends the container,
and if that fails (`HaltFails`) it goes on for good, as the entry is gone from the dict
(`abandoned` is the history of that). `call[r]` keeps what a call took out
of the dicts: it goes on using those when somebody else cleans the session up,
while `cleanup` itself looks at what the dicts name *then*. A command that hangs
is one whose lines are never printed; `finished` and `status` are the truth the
reported exit code is compared with. What the exit line says is another matter
(`reported`): bash has a code for every command, PowerShell prints `$LASTEXITCODE`
(`last`), which a cmdlet (`env.cmdlets`) leaves as an earlier native program of the
same shell set it, or empty. An empty code is no integer, and the exception of
`int` is swallowed with the initial 0 (`CodeIn`).

`env.callers` says which calls are made, `env.faults` what may fail, and
`env.sequential` whether the calls of one executor follow each other. Nothing in
`sandbox.py` makes them: the class has no lock, and cancelling a step does not
stop its thread. The engine middleware does call one step after the other, and
what the properties promise is what such callers get; they are checked with
calls of *other* executors at any moment. `TypeOK` and `RunEnds` hold without it.

Simplifications: standard error and `docker diff` influence no control flow and
are left out; setting up the three dicts of a session, and testing and popping
an entry in `cleanup`, are one step each; a command prints at most one line, and
a command that prints what looks like a marker is not among them. A replay's restore
removes the directory of all executions; that is in `Snapshot`, not here.

### Database

One object, shared by coroutines that make one call each. An action of a
coroutine is the code between two awaits of its call; `connect` has three, and
`nc` is set after the first while `buckets`, the two bucket handles, are set one
by one after the others. A second `connect` in between dials again: `replaced`
says that an earlier connection stays open, which `close` never reaches. A
request that fails may still have been carried out. `backend` chooses the class;
with SQLite a call is a request to a thread with a connection of its own. One key
per bucket is enough, as no operation touches two. `saved` and `met` record what
was so when a call began; only the properties read them.

### Secrets

`process[p]` is what a process is about to do: look for the key, write a key it
has generated, serve, or end the write of a secret. `open(path, "wb")` truncates
and the content comes later, so opening and writing are two actions. A content is
a tuple of the key and the value it was encrypted with, and reading with another
key finds nothing, as `get_secret` does when decryption raises. `troubled` notes
that two keys were made, that a file was open twice (or deleted while open), or
that a write was cut off.

### Rbac

An entity is a Python object; `IdOf` says with which id each call of `create_user`
makes one. Looking into the registry (`CheckId`) and assigning to it (`Register`)
are two actions. A context keeps the *object* (`identity`), and reads its roles
when it is asked; `registry` is what the engine knows under an id. The predefined
roles and their permissions are the code's.

### Snapshot

The directory and the backup are functions from files to contents, and `linked`
says which files the two share. `capture` and `restore` are two steps each
(remove, then link or copy), which block the event loop but not the sandboxes:
writes in place and replacements happen at any time. One of the `MaxStops` stops is a
crash at any moment, an exception of `rmtree` half-way through the directory, or one of
`cp` half-way through a capture, which raises and leaves half a backup (`LinkFails`).
`captor` is the user whose capture was the last to begin, `seen` what that one linked.
A replay that was overlapped by another user's capture does not get its own snapshot
back, whatever the log message at `core/executor.py:231` says: it gets that of the
other, or finds no backup. `RestoreUndoes` states both sides. `users` is the set of
those who use one directory:
replays and execution managers share the workspaces, mutation cycles have `./core`.

### Compiler

`stage[c]` is how far a call of `compile` is; `place[c]` and `audit[c]` are the
step that is being audited and where its audit is. A PowerShell step is audited
by the daemon: a caller probes the port, spawns a daemon when nobody answers,
sleeps and connects. `daemon` is "starting" until it binds. What a bash command
is found to need is computed by `CapsOf` as the auditor does it, from the words in command
position and the substrings of its text (`Words`, `Tokens`, `Redirecting`, which
abstract the parse). `CompiledIsScreened` asks less: what the commands and
redirections that the auditor's visitor comes to need (`CapsNeeded`). `answered` is the
history of the steps for which an auditor was there when the gate asked. For a
PowerShell step the property claims that and EXEC, and nothing more, since the code
finds out nothing more (section 5).

### Cockpit

An action of a task is its code between two awaits that suspend; `ucer` is the
status it holds in memory and `record` the stored one. The execution itself is
the matter of `Pipeline` and appears by its outcomes: refused before the first
save, started, returned, raised with the record stored as failed, or with the
save itself raising. `Simulate` is the fallback that replaces a raised execution.
`queue`, `held` and `lost` are the places an event may be in besides a dashboard.

## 3. The runs

| Run | Question | Result |
|---|---|---|
| `dag_orchestrator` | sequencing, evidence, checkpoints and refinement of `TaskGraph` under six sets of faults | holds |
| `dag_progress` | do graphs complete, executions end, sequential graphs recover? | holds |
| `dag_recovery` | does a recovered graph complete? | violated: finding |
| `dag_sequencing` | does a job start after its dependency has finished? | violated: finding |
| `job_queue` | at least once, bounded duplicates, no failure without cause | holds |
| `job_balancing` | is a job run by one worker? | violated: finding |
| `pipeline` | admission, signature, records, outcome | holds |
| `pipeline_resubmission` | is an unedited UCER accepted again? | violated: finding |
| `sandbox` | are exit codes, output, containers and workspaces a call's own, and does every call end? | holds |
| `sandbox_death` | is a command whose shell died a failure? | violated: finding |
| `cockpit` | is what the dashboard announces on record, does no event vanish, does every task end? | holds |
| `services` | do compiler, RBAC, secrets, database and snapshots keep what they promise unless a named cause has occurred? | holds |

**Bounds.** Three nodes are the fewest with a fork, a join, a chain against the
insertion order and a list of ready nodes with something left after a failure;
the shapes are chosen to contain each. Two processes are enough for one crash
and recovery, and one crash at every await is what matters; `MaxEvents` 4 (5
for progress) allows every node to report and one event to be repeated. One
step per UCER is enough for all but `dag_sequencing`, which needs two. In
`JobQueue` two submitters are the fewest that race in `connect`, two workers the
fewest that could share a job, and two faults can hit the same message. In
`Pipeline` two tasks, two copies of one UCER and two attempts give a
resubmission, an edited resubmission and two concurrent executions of one
record; two faults allow a cancelled save and something after it; plans have one
or two steps, so that the first can succeed and the second fail or be refused, and
an edit can change the number of steps.
In `Sandbox` two calls of one executor leave a session with the remains of the
first to the second, and one call of another executor shares the directory with
them; all three are made without faults, and two of them (of one executor or of
two) with each set of faults, failing docker stops among them. The native program of
one of the two may come before or after a cmdlet. In `Cockpit` there is one task of each kind, two
dashboards compete for the events, and one mishap is a save that fails or a
dashboard that goes away.

`MCServices` has the variable `subject`: a behaviour is one of a single service,
and the others stay in their initial states, so the run is the union of five
separate runs and not their product. In it three coroutines are the fewest with
one that connects, one that connects after it and one that reads later; three
processes are two that make a key and one that comes later; two entities of one id
and a third of another are an overlapping creation and a bystander; two
replays, a manager and a cycle capture and restore across each other; two callers
race for the daemon. The one trouble, failure or stop hits any of their steps, and
secrets have two crashes, so that a restarted process may die again. Coroutines
and callers are interchangeable and serve as symmetry sets; nothing in the run is a
liveness property.

Workflows end, so deadlock is not checked where the system may simply be done.

**Fairness.** The event loop runs every coroutine whose await is over (weak
fairness of each coroutine's steps). The store answers. The subscription of the
data bus delivers the stream in order; a redelivery may come in between, so
`OnJobEvent(cursor)` gets strong fairness. `Timeout` is fair because `wait_for`
raises after 30 seconds; as each event starts a new wait, environments that
redeliver an event for ever are not among those in which `ExecutionEnds` is
claimed. `Recover` is fair: somebody restarts the orchestrator. In `JobQueue`
a stopped worker is started again by its operator; nobody has to submit. In
`Pipeline` commands end (the sandbox has a timeout) and saves answer. In `Sandbox` threads run,
docker and the waits with a timeout return, and a shell prints an exit line
after its marker; no command has to print anything, so `RunEnds` rests on the
timeout alone. In `Cockpit` sleeps end, executions end, saves come back or
raise, and a dashboard that is connected is read; nobody has to trigger a task
or to connect. Faults never have fairness.

**Findings.**

1. `recover_graph` cannot resume a graph whose checkpoint was written by the
   event handler while another node was being dispatched: that node is stored as
   running but was never published (`core/orchestrator.py:91`). Sequential
   graphs are safe, which `RecoveredSequenceCompletes` shows.
2. A node of several steps is completed by the event of its first step
   (`core/orchestrator.py:86` with `core/middlewares.py:132`).
3. Workers do not share the queue: each has a durable consumer of its own
   (`core/scheduler.py:86`).
4. The policy gate changes `required_capabilities` after the UCER was signed,
   so the same UCER is refused when it is submitted again
   (`security/policy.py:55`).

5. A shell that dies in the middle of a command makes `run` leave its loop with
   the initial exit code 0, so the step counts as a success
   (`core/sandbox.py:187`).

## 4. The proofs

All proofs are for every value of the constants that satisfies the named
assumptions of the modules; TLC evaluates those assumptions in the runs.

**DagProofs.** `PublishedAfterDependencies` is not inductive: a job is published
because the graph said so, and the graph may come from a checkpoint written
earlier, perhaps by another coroutine of a dead process. The invariant `IInv`
therefore speaks about *every* graph value there is: the graph in memory, the
checkpoint, and the write each coroutine waits for. Each is `Consistent`: a
completed node has a confirmed job under its recorded id, and a node that was
started has only confirmed dependencies. Evidence only grows (`stream` is
appended to, `sends` is not decreased), so values stay consistent while they
lie around, and so does the graph a recovery reads. `UnusedIds` says that the
ids of later processes are unpublished and that a pending node's id of this
process is, which gives `PublishedOnce`. There is one lemma per action, and
`NextKeepsIInv` combines them.

`FailureEndsBatch` needs one more fact, `ListDropped`: whoever fails a node
drops the rest of the ready list, so nothing is left to start when the
checkpoint of the failure is written.

`OrchestratorImplementsTaskGraph` is the refinement, a theorem besides a checked
property: a publication is `StartTask` (or `Submit` without a data bus), a
success event is `Finish`, and everything else, crashes and recoveries
included, is a stuttering step of `TaskGraph`.

`CheckpointIsCurrent` looks at a moment when nothing is being written, and says
nothing about the two writes that may be under way before. `NewestIsCurrent`
speaks about the checkpoint that was made *last*: the younger of two writes under
way, or the only one, or else the stored value. Making a checkpoint makes the
newest one whoever makes it, and a store that keeps the order writes the older
one first, which leaves the newest as it was. In memory the graph is ahead of it
only before the first checkpoint of a process, while a node is dispatched, and
after a crash (`Ahead`).

`NoLostWakeup` is the safety half of `AcyclicGraphCompletes`: while the loop waits
and no event is being handled, there is nothing for it to do, or an event about a
node of the graph will be delivered again. The second case is needed when the store
fails under the handler, which then marks the node and notifies nobody; without a
redelivery the loop would wait in vain. The proof follows such an event
(`About`): no step but a recovery takes a command id from a node (`IdsStay`), so the
event still finds its node and its handler notifies.

Proved: `Invariance`, `TypeCorrect`, `Sequencing`, `CompletionIsConfirmed`,
`NoDoublePublication`, `BatchEndsAtFailure`, `CheckpointStaysCurrent`,
`WaitMissesNothing`, `OrchestratorImplementsTaskGraph`.

**JobQueueProofs.** `DuplicatesNeedFaults` compares a number of runs with a
number of faults, and a fault allows a duplicate long before the job runs again.
The invariant keeps an account: for each worker and message, the runs so far
plus the runs still to come (the message was not delivered yet, is to be
redelivered, or is being run) are at most one more than the faults spent
(`Budget`). `QueuedOnce` and `Delivered` say that the same message is not
pending twice, so that a redelivery is paid for by one fault only. `RanBeforeAck`
carries "this worker ran it" from the end of the callback to the ack, and
`StreamKnown` carries what `connect` knows of the stream to the publish: unless it
was closed, a scheduler with `js` set has a connection, and it has a stream or some
connect is not over, so that a call that goes on to publish without one began then.

`NothingIsForgotten` is the safety half of `SubmittedJobRuns`: a job whose
submission returned is in the stream, and each worker has run it, holds it, or has
yet to get it. Its invariant says that a consumer lets go of a message only when
that is acked (`NoneDropped`); with `RanBeforeAck` what was acked was run.

Proved: `Invariance`, `TypeCorrect`, `AckAfterProcessing`,
`DuplicatesArePaidFor`, `RaisesAreCaused`, `NoJobIsLost`.

**PipelineProofs.** A middleware checks something before an `await` and the
next one relies on it afterwards. The invariant says what is known at each
await (`TaskOK`): from the first save on, the plan is admitted as a whole and
signed; while a step runs, all traces are good, one step at least is left and a
record exists; before the last save the status is honest. It lasts because an
object is in the hands of one task (`Exclusive`), which is lemma
`OneTaskSuffices`: a step of one task that changes its own object and loses no
record disturbs no other. `RecordTellsOutcome` concerns values which outlive
their task. What a task saves itself is `Honest`; but the thread of a cancelled
save reads the object at any later time, so something has to be true of objects
always (`ObjectsHonest`): one that is completed has succeeded, one that a thread
may still read tells its outcome or was submitted again, and a task works on such
an object only since a new submission (`OwnObjectHonest`).

Proved: `Invariance`, `TypeCorrect`, `RefusalIsWhole`, `SignedPlansRun`,
`RecordsComeFirst`, `FailureStops`, `RecordsTellOutcome`, `EventsMatchTraces`.
These are all safety properties the run `pipeline` checks, and three that it does
not (`RefusedPlanNeverStarts`, `NothingRunsAfterFailure`,
`SuccessEventsMatchTraces`); like `FailureEndsBatch` of `DagProperties` they are
stated and proved for every instance, so no run repeats them on a small one.

**StoresProofs.** `DatabaseRaisesNeedCause` needs to know why a bucket may be
unset under a set connection. `ConnectsInOrder` and `BucketsComeNext` say: only while a call is
making the buckets, or after a failure or a close; a call that meets the unset
bucket in the first case is in `met`. `SavedIsFound` rests on contents that only
grow. For `Secrets` everything is said under `troubled = {}`: one key, which
all who are up have, at most one writer, and a file that is what this writer has
made of it so far.

For `Snapshot`, `OneInLoop`: capture and restore do not await, so at most one
user is inside one of them, and nobody makes or removes a backup under a restore.
`BackupIsSeen` says that the backup is what the last capture linked but for dirty
files, and `UserOK` what a user may rely on: one that is about to restore finds its
backup unless another capture began since, and one that has removed the directory
has it still. `RestoresUndo` says of every user that gets to the end of its restore
what it is given, the overlapped ones included.

Proved: `DatabaseInvariance`, `DatabaseTypeCorrect`, `DatabaseRaisesAreCaused`,
`SavesAreFound`, `SecretsInvariance`, `SecretsTypeCorrect`, `SecretsAreRead`,
`SnapshotInvariance`, `SnapshotTypeCorrect`, `WorkspaceIsNotLost`, `RestoresUndo`.

**CompilerProofs.** While the gate is at step `i`, the steps before it have
`Passed`: an auditor was there and answered, and of a bash step it could read the text,
and what that needs is in the context and in the capabilities of the plan; the latter
were found by an earlier audit, perhaps when there was another daemon or none. While no trouble was met, whoever connects to the daemon has
found it up, and whoever sleeps has a daemon that is being started.

Proved: `CompilerInvariance`, `CompilerTypeCorrect`, `CompiledPlansAreScreened`,
`GivingUpHasCause`.

**SandboxProofs.** Type correctness holds whoever calls. Everything else is about
callers of one executor that follow each other (`env.sequential`), while calls of
other executors are anywhere; that is what makes it hard, as they remove the shared
directory and leave their lines in sessions of their own. The properties say what
was reported when a call is over, and nothing of how it comes about, so none is
inductive. The invariant has three parts. `DictsOK` says for every await of the one
active call what the three dicts name: nothing, a container, a container with a
shell, or a whole session; and a whole session (or, if `Popen` may fail, a container
without a shell) when nobody is active. `SessionOK` ties a session to the dicts: its
container runs exactly while its executor names it, unless docker stop failed to stop it
(`abandoned`), and its client lives only while the shell does and is named. `PipesOK` is about the lines that are still to be read,
printed or not (`Pending`): before a reading call there are exit lines that came too late, its own
text, its marker and its exit line, in this order (`Reads`); what nobody reads is exit
lines only (`LeftOver`). Such a line was left by a call that waited in vain for the exit line
after its marker; the next call takes it for output of its own command, which is why
`OutputIsOwn` excepts it.
`LinesAreOwn` follows a command that was given up: its lines are in the pipe it was
written to, whose shell is dead when the call returns, or lives in an abandoned
container. Ending the client proves nothing here; only docker stop does. `ReportsOK`
follows exit codes: what an exit line says, and what `$LASTEXITCODE` holds, is the code
of a native program that the same shell ran to its end, so that a cmdlet can be
reported with such a one only, or with 0. TLC checked the invariant on
all states of the run `sandbox` before it was proved.

Proved: `Invariance`, `TypeCorrect`, `CodesAreOwn`, `OutputsAreOwn`,
`RaisesAreCaused`, `ContainersAreKnown`, `WhatIsGivenUpIsOver`,
`WorkspacesOutliveContainers`.

**CockpitProofs.** `EventsAreConserved` counts the places of an event, and a count is
no help in an induction. The invariant says instead that two places of one kind
of event of one task are the same place (`OneCopy`, in seven parts: for two in the
queue, two with clients, one in the queue and one lost, and so on), that what is
anywhere was put (`CopiesWerePut`) and that what was put is somewhere
(`PutIsSomewhere`). A task puts an event only at an await it never comes back to
(`TaskPuts`), so there is no copy yet; each step of a client moves the one copy
from place to place (`TakeKeepsCopies`, `DeliverKeepsCopies`,
`DisconnectKeepsCopies`), and the set of places has one member (`OnePlace`).
`AnnouncedIsOnRecord` follows, as `CopiesWerePut` also says that an outcome anywhere is
the stored one, which no later step of its task changes.

`ShownInOrder` is about pairs of events of one task on one dashboard. The invariant
(`InOrder`) extends it to what the dashboard is about to show and to the queue, so
that a client that takes the first event of the queue shows it behind all it has
shown; an event that is put is of a later stage than all those of its task,
wherever they are (`StageByStage`, `CopiesWerePut`).

Proved: `CockpitInvariance`, `CockpitTypeCorrect`, `AnnouncementsAreOnRecord`,
`EventsStayConserved`, `EventsAreShownInOrder`.

**ServicesProofs.** For `Rbac`: the object in a context is the engine's own because between
`CheckId` and `Register` either nobody else passes the check for that id or the
overlap is noted (`OverlapsAreNoted`), and because nothing removes a registered
entity (`ContextsAreCurrent`).

For the services together: they share no state, so a step of `MCServices` is a step
of one service and a stutter of the others (`ServicesActAlone`). Each behaviour is
therefore a behaviour of every service's specification, and what is proved of a
service alone holds in `MCServices`, which is what the run `services` checks.

Proved: `RbacInvariance`, `RbacTypeCorrect`, `DecisionsAreCurrent`,
`ServicesImplementEach`, `ServicesTypeCorrect`, `ServicesKeepTheirPromises`.

**Model-checked only.** The seven liveness properties (`AcyclicGraphCompletes`,
`ExecutionEnds`, `RecoveredSequenceCompletes`, `SubmittedJobRuns`,
`ExecutionIsConcluded`, `RunEnds`, `OutcomeIsShown`): liveness under fairness is out
of the prover's reach. Of two of them the safety half is proved, that nothing which
has to happen is lost on the way (`WaitMissesNothing`, `NoJobIsLost`). Every
invariant and every action property of the passing runs is proved, and so is the
refinement of `TaskGraph`.

`NoLostWakeup`, `NothingIsForgotten` and `ShownInOrder` are defined beside their proofs and not
repeated by a run; as invariants of `MCDagOrchestrator`, `MCDagProgress`,
`MCJobQueue` and `MCCockpit` TLC finds no violation of them on the same instances.

## 5. Remarks on the code

What the modelling showed besides the findings. None of these contradicts a
statement of the repository that a run could quote, or they lie in code that is
not modelled.

* Auditors: the daemon is sent base64 text and parses that text without decoding
  it, so its verdict does not depend on the command (`security/ps_daemon.py`);
  importing `semantic/capabilities.py` spawns it and fails where there is no
  `pwsh`. Worse, `security/ps_daemon.py` annotates with `Any` (line 111) without
  importing it, so on Python 3.11 the import raises NameError, and with it those of
  `security/policy.py`, `semantic/capabilities.py` and `core/executor.py`; the models
  describe the code with that import mended.
* PowerShell commands are found to need EXEC only: `audit` of the daemon's client returns
  `{EXEC}` for all of them, so `Remove-Item` or `Invoke-WebRequest` compile in a context
  without write_fs or network. The older `security/auditor.py:204-219` and
  `security/policy.py:118-129` find those capabilities, but no audit of a plan calls them.
* The bash auditor's visitor follows `.parts` only: commands inside
  compound commands are seen by their substrings only.
* RBAC: `is_active` is read only by `check_user_active`, which nobody calls, so a
  deactivated user stays permitted; `RBACEngine.roles` is never consulted; a role
  revoked between the check and the call does not stop the call.
* Sandbox: `$LASTEXITCODE` is what PowerShell commands are reported with
  (`core/sandbox.py:148`), so a failing cmdlet is a success or has the exit code of an
  earlier program; the result of docker stop is ignored after the container was
  forgotten (line 265), so a command that was given up may run on. A replay's restore
  removes the workspaces of all executions (`core/executor.py:232`).
* Dashboard: a failed execution is replaced by a made-up trace and announced as
  completed, and the record of the failure is overwritten by it; `generate_proof`
  makes up a UCER and a package for a command nobody has recorded.
* NATS database: after a bucket could not be created every operation fails by the
  assertion; `close` leaves `nc` set, so the object never reconnects; a race in
  `connect` leaves an open connection behind.
* Secrets: a `set_secret` that returns False, or dies, has destroyed the old
  value. A process that dies between opening and writing `.key` leaves an empty
  key, with which no process can start. The control plane's key pair
  (`core/executor.py:52`) has the same pattern.
* Replay: a failing step does not stop a replay, and its status is "completed";
  `run_cycle` compares the hash of `./core` with that of `.`, so it always sees a
  drift; the adapters `ExecutionManager` uses do not accept `cwd`, so each of its
  steps raises; after a restore was cut off, the next capture removes the backup,
  the only copy that is left (`wiped`). Two replays at a time share one backup path: the
  earlier one rolls back to what the later one captured in the middle of it, to half a
  copy if its `cp` failed, or not at all if a manager has cleaned the backup up, and still logs a rollback to the pre-replay snapshot (`core/executor.py:231`). The
  same holds for managers; nothing removes a backup that `cp` left half-made.
* `UniversalExecutor.execute` is a generator, so the copy of
  `SemanticBridge` (`core/ir.py`) never runs, and reports success.
* Migration: PostgreSQL rejects the CREATE TABLE statements (KEY clauses), the
  transaction is aborted, errors are swallowed table by table, and the
  migration reports success.

## 6. Not modelled, and the plan

`PROJECT.json` gives the reason for each component.

* Migration: one sequential job on one connection which, as it stands, moves nothing
  (see above); a model would show only that.
* `core/secure_executor_1.py` does not load under the pydantic version the project
  requires; `core/security.py` is imported by nobody; the MicroVM is simulated.
* The Vault and AWS backends are clients of external services; tracing,
  logging, compliance and the command line are output only.
* Planner, parser, resolver, IR and adapters convert text or call subprocesses,
  and share no state. Cryptographic helpers appear by what they are applied to.
* `Rbac` has the table of permissions in full, more than its property needs: it is there
  so that a decision is the code's own computation.
* Left out of modelled components: workspaces in `Sandbox` that a replay's restore
  removes (`Snapshot` has restores, but not containers), the snapshot of `os.environ` (restored for the
  whole process), several processes on one snapshot directory, log events of the
  dashboard and the endpoints that return constants, `connect` of the data bus,
  which has the pattern of `Database`.

All modules of the plan are written, and all safety properties the runs check are
proved. What would come next: an abstract promise for the sandbox as `TaskGraph` is
one for the orchestrator, and the worker of `JobQueue` running `Pipeline`, so that
a nak'ed job is a resubmission.
