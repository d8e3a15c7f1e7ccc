-------------------------- MODULE DagOrchestrator --------------------------
(***************************************************************************)
(* DAGOrchestrator of core/orchestrator.py: the reactive loop that runs a  *)
(* UCERGraph, the handler of the telemetry events that advance it, the     *)
(* checkpoints both write to the key-value store, and a crash of the       *)
(* process followed by recover_graph and a new execute_graph.              *)
(*                                                                         *)
(* The loop and the handler are coroutines of one asyncio event loop, so   *)
(* an action is the code between two awaits.  Each action of the loop      *)
(* starts where an awaited call comes back and runs to the next await      *)
(* (operator Continue).  Awaited calls are the KV write, the publication   *)
(* of a job and the wait on the condition _node_updated.                   *)
(*                                                                         *)
(* The job queue, the workers, the telemetry stream and the KV store are   *)
(* the environment; their behaviour is taken from how the code of          *)
(* core/scheduler.py, core/middlewares.py, core/databus.py and core/db.py  *)
(* uses them.  Which faults may happen is part of the environment too.     *)
(***************************************************************************)
EXTENDS Dag, Sequences

CONSTANTS
    MaxIncarnation, \* bound: how often the orchestrator process is started
    Steps,          \* number of steps of every compiled UCER
    MaxEvents,      \* bound: length of the telemetry stream
    Environments,   \* the environments a run considers
    Shapes,         \* the depends_on functions a run considers
    NoGraph         \* no checkpoint / no write outstanding

FaultKinds ==
    {"compile",     \* the compiler raises (policy refusal, LLM error)
     "publish",     \* submit_job raises, the job is not in the stream
     "acklost",     \* submit_job raises, the job is in the stream
     "store",       \* set_kv raises, the value may or may not be stored
     "timeout",     \* no event within the 30 seconds of wait_for
     "crash",       \* the orchestrator process dies
     "raise",       \* a step raises: event success=False
     "exit",        \* a step exits non-zero: the job ends without an event
     "rerun",       \* a job is delivered to a worker again
     "redeliver"}   \* the ack of an event is lost, it is delivered again

Environment == [databus : BOOLEAN, ordered : BOOLEAN, faults : SUBSET FaultKinds]

ASSUME OrchestratorAssumption ==
    /\ MaxIncarnation \in Nat \ {0}
    /\ Steps \in Nat \ {0}
    /\ MaxEvents \in Nat
    /\ Ucers = Nodes \X (1 .. MaxIncarnation)
    /\ Environments \subseteq Environment
    /\ Shapes \subseteq [Nodes -> SUBSET NodeIds]
    /\ NoGraph \notin Graph

VARIABLES
    env,        \* data bus present? KV writes ordered? possible faults
    deps,       \* depends_on of every node
    graph,      \* the UCERGraph in the orchestrator's memory
    pc,         \* the await at which execute_graph is suspended
    cur,        \* the node being dispatched; 0 before the first
    todo,       \* the rest of ready_nodes, a list computed earlier
    inc,        \* number of the orchestrator process
    handling,   \* index of the event _on_job_event is handling, or 0
    cursor,     \* next index of the stream the subscription delivers
    again,      \* indices the subscription delivers again
    kv,         \* the value under graph.<graph_id>
    write,      \* the set_kv call each coroutine is waiting for
    older,      \* which of two outstanding set_kv calls was made first
    sends,      \* how often each command id was published to UCSER_JOBS
    job,        \* steps of each job done by the workers
    stream      \* the telemetry.execution stream

config     == <<env, deps>>
loopVars   == <<pc, cur, todo>>
listenVars == <<handling, cursor, again>>
storeVars  == <<kv, write, older>>
jobVars    == <<sends, job, stream>>
vars == <<config, graph, loopVars, inc, listenVars, storeVars, jobVars>>

Coroutines == {"loop", "listener"}
Other(c) == IF c = "loop" THEN "listener" ELSE "loop"

Aborted == Steps + 1

Event == [ucer : Ucers, success : BOOLEAN]

May(fault) == fault \in env.faults

Suspended == {"begin", "starting", "subscribing", "dispatch", "acking",
              "syncing", "completing", "failing", "wait", "awake"}
Stopped == {"returned", "raised", "crashed"}

-----------------------------------------------------------------------------
(* The key-value store.                                                    *)

\* The mutant: a store without any order, whatever the environment says.
WrittenInAnyOrder(c) == write[c] # NoGraph

\* NATSDatabase puts on one connection, in the order of the calls;
\* SQLiteDatabase runs every set_kv on a thread of its own.
MayBeWritten(c) ==
    /\ write[c] # NoGraph
    /\ env.ordered /\ write[Other(c)] # NoGraph => older = c

\* _sync_graph_state: the graph is serialised when the call is made.
SyncGraphState(c, g) ==
    /\ write' = [write EXCEPT ![c] = g]
    /\ older' = IF write[Other(c)] = NoGraph THEN c ELSE Other(c)
    /\ kv' = kv

NoSync == UNCHANGED storeVars

Synced(c) == write[c] = NoGraph

ApplyWrite(c) ==
    /\ MayBeWritten(c)
    /\ kv' = write[c]
    /\ write' = [write EXCEPT ![c] = NoGraph]
    /\ UNCHANGED <<config, graph, loopVars, inc, listenVars, older, jobVars>>

-----------------------------------------------------------------------------
(* execute_graph.                                                          *)

\* mark_failed, checkpoint, and `break` out of the loop over ready_nodes.
FailNode(g, n) ==
    /\ graph' = MarkFailed(g, n)
    /\ SyncGraphState("loop", graph')
    /\ cur' = n
    /\ todo' = {}
    /\ pc' = "failing"

\* The first node of the list: compiled, then published.
DispatchFirst(g, list) ==
    \E n \in list :
        /\ \A m \in list : n <= m
        /\ \/ /\ graph' = Start(g, n, <<n, inc>>)
              /\ cur' = n
              /\ todo' = list \ {n}
              /\ pc' = "dispatch"
              /\ NoSync
           \/ /\ May("compile")
              /\ FailNode(g, n)

\* From the end of an awaited call to the next one: the rest of the for loop,
\* then the test of the while loop.
Continue(g, list) ==
    \/ /\ list # {}
       /\ DispatchFirst(g, list)
    \/ /\ list = {}
       /\ ~IsComplete(g) /\ ~HasFailed(g)
       /\ GetReadyNodes(g, deps) # {}
       /\ DispatchFirst(g, GetReadyNodes(g, deps))
    \/ /\ list = {}
       /\ pc' = IF IsComplete(g) \/ HasFailed(g) THEN "returned" ELSE "wait"
       /\ pc' = "wait" => GetReadyNodes(g, deps) = {}
       /\ graph' = g
       /\ todo' = {}
       /\ cur' = cur
       /\ NoSync

Begin ==
    /\ pc = "begin"
    /\ SyncGraphState("loop", graph)
    /\ pc' = "starting"
    /\ UNCHANGED <<config, graph, cur, todo, inc, listenVars, jobVars>>

\* After the initial checkpoint: subscribe if there is a data bus.
Subscribe ==
    /\ pc = "starting"
    /\ Synced("loop")
    /\ env.databus
    /\ pc' = "subscribing"
    /\ UNCHANGED <<config, graph, cur, todo, inc, listenVars, storeVars, jobVars>>

EnterLoop ==
    /\ \/ pc = "subscribing"
       \/ pc = "starting" /\ Synced("loop") /\ ~env.databus
    /\ Continue(graph, {})
    /\ UNCHANGED <<config, inc, listenVars, jobVars>>

\* js.publish reaches the stream; the ack comes later.
Publish ==
    /\ pc = "dispatch"
    /\ sends' = [sends EXCEPT ![<<cur, inc>>] = IF @ < 2 THEN @ + 1 ELSE @]
    /\ pc' = "acking"
    /\ UNCHANGED <<config, graph, cur, todo, inc, listenVars, storeVars, job, stream>>

Published ==
    /\ pc = "acking"
    /\ SyncGraphState("loop", graph)
    /\ pc' = "syncing"
    /\ UNCHANGED <<config, graph, cur, todo, inc, listenVars, jobVars>>

DispatchRaises ==
    /\ \/ pc = "dispatch" /\ May("publish")
       \/ pc = "acking" /\ May("acklost")
    /\ FailNode(graph, cur)
    /\ UNCHANGED <<config, inc, listenVars, jobVars>>

\* Without a data bus the node counts as completed once it is published.
CompleteUnreported ==
    /\ pc = "syncing"
    /\ Synced("loop")
    /\ ~env.databus
    /\ graph' = MarkCompleted(graph, cur, <<cur, inc>>)
    /\ SyncGraphState("loop", graph')
    /\ pc' = "completing"
    /\ UNCHANGED <<config, cur, todo, inc, listenVars, jobVars>>

\* The notify_all calls of the loop itself find no waiter: only the loop waits.
GoOn ==
    /\ \/ pc = "syncing" /\ Synced("loop") /\ env.databus
       \/ pc \in {"completing", "failing"} /\ Synced("loop")
       \/ pc = "awake"
    /\ Continue(graph, todo)
    /\ UNCHANGED <<config, inc, listenVars, jobVars>>

\* Mutant of Timeout: a wait without a limit.
WaitForEver == pc = "wait" /\ FALSE /\ UNCHANGED vars

Timeout ==
    /\ pc = "wait"
    /\ May("timeout")
    /\ pc' = "raised"
    /\ UNCHANGED <<config, graph, cur, todo, inc, listenVars, storeVars, jobVars>>

-----------------------------------------------------------------------------
(* _on_job_event, called by the listener task of UnifiedDataBus.subscribe, *)
(* one message at a time.                                                  *)

Subscribed == env.databus /\ pc \notin {"begin", "starting", "crashed"}

Deliverable(i) == i \in DOMAIN stream /\ (i = cursor \/ i \in again)

NodesOf(u) == {n \in Nodes : graph.ucer[n] = u}

\* Mutant of MarkNode: an event of any kind completes the node.
MarkNodeCompleted(n, e) == graph' = MarkCompleted(graph, n, e.ucer)

MarkNode(n, e) ==
    graph' = IF e.success THEN MarkCompleted(graph, n, e.ucer)
                          ELSE MarkFailed(graph, n)

OnJobEvent(i) ==
    /\ Subscribed
    /\ handling = 0
    /\ Deliverable(i)
    /\ cursor' = IF i = cursor THEN cursor + 1 ELSE cursor
    /\ again' = again \ {i}
    /\ \/ \E n \in NodesOf(stream[i].ucer) :
              /\ MarkNode(n, stream[i])
              /\ SyncGraphState("listener", graph')
              /\ handling' = i
       \/ /\ NodesOf(stream[i].ucer) = {}
          /\ UNCHANGED <<graph, storeVars, handling>>
    /\ UNCHANGED <<config, loopVars, inc, jobVars>>

\* Mutant of Notify: the waiting loop is not woken.
NotifyNobody == UNCHANGED pc

Notify == pc' = IF pc = "wait" THEN "awake" ELSE pc

\* The checkpoint is written: notify the loop and ack the message.
EventHandled ==
    /\ handling # 0
    /\ Synced("listener")
    /\ Notify
    /\ handling' = 0
    /\ \/ again' = again
       \/ May("redeliver") /\ again' = again \union {handling}
    /\ UNCHANGED <<config, graph, cur, todo, inc, cursor, storeVars, jobVars>>

-----------------------------------------------------------------------------
(* Failures of the store and of the process.                               *)

\* set_kv raises.  In the try block of the for loop the node is failed; in
\* the except block, or before the while loop, execute_graph raises; in the
\* handler the message is nak'ed and nobody is notified.
StoreRaises(c) ==
    /\ May("store")
    /\ MayBeWritten(c)
    /\ kv' \in {kv, write[c]}
    /\ IF c = "listener"
       THEN /\ write' = [write EXCEPT ![c] = NoGraph]
            /\ handling' = 0
            /\ again' = again \union {handling}
            /\ UNCHANGED <<graph, loopVars, cursor, older>>
       ELSE /\ UNCHANGED listenVars
            /\ IF pc \in {"syncing", "completing"}
               THEN /\ graph' = MarkFailed(graph, cur)
                    /\ write' = [write EXCEPT ![c] = graph']
                    /\ older' = IF Synced(Other(c)) THEN c ELSE Other(c)
                    /\ pc' = "failing"
                    /\ todo' = {}
                    /\ cur' = cur
               ELSE /\ write' = [write EXCEPT ![c] = NoGraph]
                    /\ pc' = "raised"
                    /\ UNCHANGED <<graph, cur, todo, older>>
    /\ UNCHANGED <<config, inc, jobVars>>

Crash ==
    /\ May("crash")
    /\ pc \in Suspended
    /\ inc < MaxIncarnation
    /\ pc' = "crashed"
    /\ handling' = 0
    /\ UNCHANGED <<config, graph, cur, todo, inc, cursor, again, storeVars, jobVars>>

\* Mutant of FirstDelivered: the subscription only sees new events.
OnlyNewEvents == Len(stream) + 1

\* A subscription without a durable name delivers all the stream holds.
FirstDelivered == 1

\* recover_graph in a new process, then execute_graph.  Writes of the old
\* process that have not reached the store by now are lost, and so is the
\* place of its subscription in the stream.
Recover ==
    /\ pc = "crashed"
    /\ kv # NoGraph
    /\ graph' = kv
    /\ inc' = inc + 1
    /\ pc' = "begin"
    /\ todo' = {}
    /\ cursor' = FirstDelivered
    /\ again' = {}
    /\ write' = [c \in Coroutines |-> NoGraph]
    /\ UNCHANGED <<config, cur, handling, kv, older, jobVars>>

-----------------------------------------------------------------------------
(* The workers.  EngineMiddleware emits an event after every step that     *)
(* exits with 0, and one with success=False for a step that raises.        *)

Emit(u, ok) ==
    IF env.databus
    THEN /\ Len(stream) < MaxEvents
         /\ stream' = Append(stream, [ucer |-> u, success |-> ok])
    ELSE UNCHANGED stream

StepSucceeds(u) ==
    /\ sends[u] > 0
    /\ job[u] < Steps
    /\ job' = [job EXCEPT ![u] = @ + 1]
    /\ Emit(u, TRUE)
    /\ UNCHANGED <<config, graph, loopVars, inc, listenVars, storeVars, sends>>

StepRaises(u) ==
    /\ May("raise")
    /\ sends[u] > 0
    /\ job[u] < Steps
    /\ job' = [job EXCEPT ![u] = Aborted]
    /\ Emit(u, FALSE)
    /\ UNCHANGED <<config, graph, loopVars, inc, listenVars, storeVars, sends>>

StepExitsNonzero(u) ==
    /\ May("exit")
    /\ sends[u] > 0
    /\ job[u] < Steps
    /\ job' = [job EXCEPT ![u] = Aborted]
    /\ UNCHANGED <<config, graph, loopVars, inc, listenVars, storeVars, sends, stream>>

JobDeliveredAgain(u) ==
    /\ May("rerun")
    /\ job[u] > 0
    /\ Len(stream) < MaxEvents
    /\ job' = [job EXCEPT ![u] = 0]
    /\ UNCHANGED <<config, graph, loopVars, inc, listenVars, storeVars, sends, stream>>

-----------------------------------------------------------------------------

Init ==
    /\ env \in Environments
    /\ deps \in Shapes
    /\ graph = PlannedGraph
    /\ pc = "begin"
    /\ cur = 0
    /\ todo = {}
    /\ inc = 1
    /\ stream = << >>
    /\ handling = 0
    /\ cursor = FirstDelivered
    /\ again = {}
    /\ kv = NoGraph
    /\ write = [c \in Coroutines |-> NoGraph]
    /\ older = "loop"
    /\ sends = [u \in Ucers |-> 0]
    /\ job = [u \in Ucers |-> 0]

ExecuteGraph == \/ Begin \/ Subscribe \/ EnterLoop \/ Publish \/ Published
                \/ CompleteUnreported \/ GoOn

Next ==
    \/ ExecuteGraph
    \/ DispatchRaises
    \/ Timeout
    \/ \E i \in DOMAIN stream : OnJobEvent(i)
    \/ EventHandled
    \/ \E c \in Coroutines : ApplyWrite(c) \/ StoreRaises(c)
    \/ Crash
    \/ Recover
    \/ \E u \in Ucers : StepSucceeds(u) \/ StepRaises(u)
                        \/ StepExitsNonzero(u) \/ JobDeliveredAgain(u)

Spec == Init /\ [][Next]_vars

=============================================================================
