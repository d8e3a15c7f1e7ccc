------------------------------ MODULE Cockpit ------------------------------
(***************************************************************************)
(* The dashboard's server, api/rest_server.py: the background tasks that   *)
(* POST /run-safe, /run-powershell, /run-violation and /api/red-team-sim   *)
(* start, the records they save, and the one event queue from which every  *)
(* client of GET /events takes.  Log events are left out.                  *)
(*                                                                         *)
(* An action is the code between two awaits that suspend: a sleep, the     *)
(* pipeline, a save.  A put on the unbounded queue does not suspend.       *)
(* What executor.execute_ucer does is module Pipeline's matter; here it is *)
(* a step with the outcomes it has there.                                  *)
(***************************************************************************)
EXTENDS Integers, Sequences, FiniteSets

CONSTANTS
    BenignTasks,    \* tasks of /run-safe and /run-powershell
    ViolationTasks, \* tasks of /run-violation
    RedTeamTasks,   \* tasks of /api/red-team-sim
    Clients,        \* dashboards that connect to /events
    MaxMishaps      \* bound: saves that fail and clients that go away

ASSUME CockpitAssumption ==
    /\ MaxMishaps \in Nat
    /\ BenignTasks \intersect (ViolationTasks \union RedTeamTasks) = {}
    /\ ViolationTasks \intersect RedTeamTasks = {}

Tasks == BenignTasks \union ViolationTasks \union RedTeamTasks

VARIABLES
    task,       \* the await at which each background task is suspended
    ucer,       \* the status of the UCER each task holds in memory
    record,     \* the status stored under each task's command_id
    queue,      \* event_queue
    client,     \* whether each client is away, in queue.get, or sending
    held,       \* the events a client took and has not sent: at most one
    seen,       \* the events each dashboard received
    lost,       \* the events that were taken for a client that went away
    mishaps     \* failures left

taskVars    == <<task, ucer, record>>
clientVars  == <<client, held, seen, lost>>
cockpitVars == <<taskVars, queue, clientVars, mishaps>>

TaskStates == {"idle", "reviewing", "scanned", "intruding", "executing",
               "stepping", "simulating", "saving", "saved", "done", "failed"}
Statuses   == {"pending", "running", "completed", "failed", "blocked"}
NoRecord   == "none"
Whats      == {"scan", "egress", "outcome"}
Events     == [task : Tasks, what : Whats, status : Statuses]

Mishap == mishaps > 0 /\ mishaps' = mishaps - 1

-----------------------------------------------------------------------------
(* The background tasks.                                                   *)

At(t, state) == task[t] = state
Goto(t, state) == task' = [task EXCEPT ![t] = state]
Hold(t, status) == ucer' = [ucer EXCEPT ![t] = status]
Save(t, status) == record' = [record EXCEPT ![t] = status]
Event(t, what, status) == [task |-> t, what |-> what, status |-> status]
Put(event) == queue' = Append(queue, event)

\* The endpoint answers "triggered" and the task runs after the answer.
Trigger(t) ==
    /\ At(t, "idle")
    /\ Goto(t, "reviewing")
    /\ UNCHANGED <<ucer, record, queue, clientVars, mishaps>>

\* run_red_team_task: the first stage ...
Scan(t) ==
    /\ t \in RedTeamTasks /\ At(t, "reviewing")
    /\ Put(Event(t, "scan", ucer[t]))
    /\ Goto(t, "scanned")
    /\ UNCHANGED <<ucer, record, clientVars, mishaps>>

\* ... and the second.
Egress(t) ==
    /\ At(t, "scanned")
    /\ Put(Event(t, "egress", ucer[t]))
    /\ Goto(t, "intruding")
    /\ UNCHANGED <<ucer, record, clientVars, mishaps>>

\* The task makes a UCER with status "blocked" and is about to save it.
Block(t) ==
    /\ Hold(t, "blocked")
    /\ Goto(t, "saving")
    /\ UNCHANGED <<record, queue, clientVars, mishaps>>

Tamper(t) == At(t, "intruding") /\ Block(t)

BlockViolation(t) == t \in ViolationTasks /\ At(t, "reviewing") /\ Block(t)

Review(t) ==
    /\ t \in BenignTasks /\ At(t, "reviewing")
    /\ Goto(t, "executing")
    /\ UNCHANGED <<ucer, record, queue, clientVars, mishaps>>

\* execute_ucer raises before it stored anything: refused by the policy gate.
ExecutionRefused(t) ==
    /\ At(t, "executing")
    /\ Goto(t, "simulating")
    /\ UNCHANGED <<ucer, record, queue, clientVars, mishaps>>

\* execute_ucer stores that the execution runs ...
ExecutionStarts(t) ==
    /\ At(t, "executing")
    /\ Hold(t, "running") /\ Save(t, "running")
    /\ Goto(t, "stepping")
    /\ UNCHANGED <<queue, clientVars, mishaps>>

\* ... and at its end its outcome, which it returns ...
ExecutionReturns(t) ==
    /\ At(t, "stepping")
    /\ \E status \in {"completed", "failed"} :
          /\ Hold(t, status) /\ Save(t, status)
          /\ Put(Event(t, "outcome", status))
    /\ Goto(t, "done")
    /\ UNCHANGED <<clientVars, mishaps>>

\* ... unless a step raised: no docker, no pwsh, stopped by the sentinel.
ExecutionRaises(t) ==
    /\ At(t, "stepping")
    /\ Hold(t, "failed") /\ Save(t, "failed")
    /\ Goto(t, "simulating")
    /\ UNCHANGED <<queue, clientVars, mishaps>>

\* The fallback: after a sleep a trace with exit code 0 is made up.
Simulate(t) ==
    /\ At(t, "simulating")
    /\ Hold(t, "completed")
    /\ Goto(t, "saving")
    /\ UNCHANGED <<record, queue, clientVars, mishaps>>

\* Mutant of SaveLands: the coroutine of save_ucer is not awaited.
SaveForgotten(t) ==
    /\ At(t, "saving")
    /\ Goto(t, "saved")
    /\ UNCHANGED <<ucer, record, queue, clientVars, mishaps>>

SaveLands(t) ==
    /\ At(t, "saving")
    /\ Save(t, ucer[t])
    /\ Goto(t, "saved")
    /\ UNCHANGED <<ucer, queue, clientVars, mishaps>>

\* Mutant of Announce: the task saves and leaves it at that.
FinishSilently(t) ==
    /\ At(t, "saved")
    /\ Goto(t, "done")
    /\ UNCHANGED <<ucer, record, queue, clientVars, mishaps>>

\* The await returns: audit_blocked, audit_complete or the tamper stage.
Announce(t) ==
    /\ At(t, "saved")
    /\ Put(Event(t, "outcome", ucer[t]))
    /\ Goto(t, "done")
    /\ UNCHANGED <<ucer, record, clientVars, mishaps>>

\* A save raises: the outer handler logs it, and there is no outcome.
SaveRaises(t) ==
    /\ Mishap
    /\ At(t, "saving")
    /\ Goto(t, "failed")
    /\ UNCHANGED <<ucer, record, queue, clientVars>>

\* The last save of the pipeline raises, and execute_ucer with it.
ExecutionSaveRaises(t) ==
    /\ Mishap
    /\ At(t, "stepping")
    /\ Hold(t, "failed")
    /\ Goto(t, "simulating")
    /\ UNCHANGED <<record, queue, clientVars>>

-----------------------------------------------------------------------------
(* event_generator, one per client.                                        *)

Become(c, state) == client' = [client EXCEPT ![c] = state]

\* The first thing sent is the public key; then the generator is in get().
Connect(c) ==
    /\ client[c] = "away"
    /\ Become(c, "waiting")
    /\ UNCHANGED <<taskVars, queue, held, seen, lost, mishaps>>

\* Mutant of Take: the event stays in the queue for the other clients.
Peek(c) ==
    /\ client[c] = "waiting" /\ queue # << >>
    /\ held' = [held EXCEPT ![c] = {Head(queue)}]
    /\ Become(c, "sending")
    /\ UNCHANGED <<taskVars, queue, seen, lost, mishaps>>

Take(c) ==
    /\ client[c] = "waiting" /\ queue # << >>
    /\ held' = [held EXCEPT ![c] = {Head(queue)}]
    /\ queue' = Tail(queue)
    /\ Become(c, "sending")
    /\ UNCHANGED <<taskVars, seen, lost, mishaps>>

\* Mutant of Deliver: the loop goes on to get() with the last event still held.
DeliverAndKeep(c) ==
    /\ client[c] = "sending"
    /\ \E event \in held[c] : seen' = [seen EXCEPT ![c] = Append(@, event)]
    /\ Become(c, "waiting")
    /\ UNCHANGED <<taskVars, queue, held, lost, mishaps>>

Deliver(c) ==
    /\ client[c] = "sending"
    /\ \E event \in held[c] : seen' = [seen EXCEPT ![c] = Append(@, event)]
    /\ held' = [held EXCEPT ![c] = {}]
    /\ Become(c, "waiting")
    /\ UNCHANGED <<taskVars, queue, lost, mishaps>>

\* The generator is cancelled: what it took for this client is gone.
Disconnect(c) ==
    /\ Mishap
    /\ client[c] # "away"
    /\ lost' = lost \union held[c]
    /\ held' = [held EXCEPT ![c] = {}]
    /\ Become(c, "away")
    /\ UNCHANGED <<taskVars, queue, seen>>

-----------------------------------------------------------------------------

CockpitInit ==
    /\ task = [t \in Tasks |-> "idle"]
    /\ ucer = [t \in Tasks |-> "pending"]
    /\ record = [t \in Tasks |-> NoRecord]
    /\ queue = << >>
    /\ client = [c \in Clients |-> "away"]
    /\ held = [c \in Clients |-> {}]
    /\ seen = [c \in Clients |-> << >>]
    /\ lost = {}
    /\ mishaps = MaxMishaps

TaskStep(t) ==
    \/ Scan(t) \/ Egress(t) \/ Tamper(t) \/ BlockViolation(t) \/ Review(t)
    \/ ExecutionRefused(t) \/ ExecutionStarts(t) \/ ExecutionReturns(t)
    \/ ExecutionRaises(t) \/ Simulate(t) \/ SaveLands(t) \/ Announce(t)

ClientStep(c) == Take(c) \/ Deliver(c)

CockpitNext ==
    \/ \E t \in Tasks : \/ Trigger(t) \/ TaskStep(t)
                        \/ SaveRaises(t) \/ ExecutionSaveRaises(t)
    \/ \E c \in Clients : Connect(c) \/ ClientStep(c) \/ Disconnect(c)

CockpitSpec == CockpitInit /\ [][CockpitNext]_cockpitVars

\* Sleeps end, executions end (module Pipeline), saves come back, and a
\* connection that is there is read; nobody has to trigger or to connect.
CockpitFairness ==
    /\ \A t \in Tasks : WF_cockpitVars(TaskStep(t))
    /\ \A c \in Clients : WF_cockpitVars(ClientStep(c))

CockpitFairSpec == CockpitSpec /\ CockpitFairness

-----------------------------------------------------------------------------
(* What the status endpoint shows.                                         *)

\* GET /api/ucer/{command_id}: the record, or 404.
get_ucer_status(t) == record[t]

-----------------------------------------------------------------------------
(* Properties.                                                             *)

CockpitTypeOK ==
    /\ task \in [Tasks -> TaskStates]
    /\ ucer \in [Tasks -> Statuses]
    /\ record \in [Tasks -> Statuses \union {NoRecord}]
    /\ queue \in Seq(Events)
    /\ client \in [Clients -> {"away", "waiting", "sending"}]
    /\ held \in [Clients -> SUBSET Events]
    /\ \A c \in Clients :
          /\ seen[c] \in Seq(Events)
          /\ held[c] # {} <=> client[c] = "sending"
          /\ Cardinality(held[c]) <= 1
    /\ lost \subseteq Events
    /\ mishaps \in 0 .. MaxMishaps

InSequence(s) == {s[i] : i \in DOMAIN s}

\* Every event that was put, wherever it is now.
Announced == UNION {InSequence(queue), lost, UNION {held[c] : c \in Clients},
                    UNION {InSequence(seen[c]) : c \in Clients}}

\* Whoever reads of an outcome on the dashboard, now or later, and then asks
\* for the status of that command finds the same outcome on record: it was
\* stored before it was announced, and no later step of the task takes it
\* back.  It need not be how the execution ended: the fallback makes up a
\* success, for the record as well as for the dashboard.
AnnouncedIsOnRecord ==
    \A e \in Announced : e.what = "outcome" => get_ucer_status(e.task) = e.status

\* The kinds of events a task has put by now.
StagesPut(t) ==
    {what \in Whats :
        \/ what = "scan" /\ t \in RedTeamTasks /\ task[t] \notin {"idle", "reviewing"}
        \/ what = "egress" /\ t \in RedTeamTasks /\ task[t] \notin {"idle", "reviewing", "scanned"}
        \/ what = "outcome" /\ At(t, "done")}

\* The places at which an event of that task and kind is.
Places(t, what) ==
    LET Is(e) == e.task = t /\ e.what = what
        Of(s, name) == {<<name, i>> : i \in {j \in DOMAIN s : Is(s[j])}}
    IN  UNION {Of(queue, "queue"), {<<"lost", e>> : e \in {x \in lost : Is(x)}},
               UNION {{<<"held", c>> : e \in {x \in held[c] : Is(x)}} : c \in Clients},
               UNION {Of(seen[c], c) : c \in Clients}}

\* An event that was put is in exactly one place: still in the queue, on its
\* way to one dashboard, shown by one dashboard, or gone with its connection.
\* However clients come and go, none is shown twice and none disappears.
EventsAreConserved ==
    \A t \in Tasks, what \in Whats :
        Cardinality(Places(t, what)) = IF what \in StagesPut(t) THEN 1 ELSE 0

\* Every task that was triggered is over in the end: its outcome is shown by a
\* dashboard (or was on its way to one that went away, or there is none), or
\* a save of it has failed.
OutcomeIsShown ==
    \A t \in Tasks : At(t, "reviewing") ~>
        \/ At(t, "failed")
        \/ \E c \in Clients : \E e \in InSequence(seen[c]) : e.task = t /\ e.what = "outcome"
        \/ \E e \in lost : e.task = t /\ e.what = "outcome"
        \/ At(t, "done") /\ \A c \in Clients : client[c] = "away"

=============================================================================
