--------------------------- MODULE DagProperties ---------------------------
(***************************************************************************)
(* What the orchestration of a task graph has to guarantee: properties of  *)
(* DagOrchestrator, its implementation of TaskGraph, and the fairness      *)
(* under which it makes progress.                                          *)
(***************************************************************************)
EXTENDS DagOrchestrator, FiniteSets

\* The variables hold values of their types, and a node is named wherever
\* the loop needs one.
TypeOK ==
    /\ env \in Environment
    /\ deps \in [Nodes -> SUBSET NodeIds]
    /\ graph \in Graph
    /\ pc \in Suspended \union Stopped
    /\ cur \in Nodes \union {0}
    /\ todo \in SUBSET Nodes
    /\ inc \in 1 .. MaxIncarnation
    /\ handling \in Nat
    /\ cursor \in Nat
    /\ again \in SUBSET Nat
    /\ kv \in Graph \union {NoGraph}
    /\ write \in [Coroutines -> Graph \union {NoGraph}]
    /\ older \in Coroutines
    /\ sends \in [Ucers -> 0 .. 2]
    /\ job \in [Ucers -> 0 .. Aborted]
    /\ stream \in Seq(Event)

\* The evidence on which mark_completed is called: a success event with a
\* data bus, the publication of the job without one.
Confirmed(u) ==
    IF env.databus
    THEN \E i \in DOMAIN stream : stream[i] = [ucer |-> u, success |-> TRUE]
    ELSE sends[u] > 0

NodeConfirmed(n) == \E i \in 1 .. MaxIncarnation : Confirmed(<<n, i>>)

\* No job is published before every dependency of its node that the graph
\* holds was confirmed, in this process or in one before it: not by a stale
\* ready_nodes list, by a repeated or late event, or by a recovered graph.
PublishedAfterDependencies ==
    \A n \in Nodes, i \in 1 .. MaxIncarnation :
        sends[<<n, i>>] > 0 => \A d \in KnownDeps(deps, n) : NodeConfirmed(d)

\* A node that is completed, in memory or in the checkpoint a new process
\* would recover, has a job that was confirmed under the recorded ucer_id.
CompletedWasConfirmed ==
    \A g \in {graph, kv} \ {NoGraph} : \A n \in Nodes :
        g.status[n] = "completed" => g.ucer[n] \in Ucers /\ Confirmed(g.ucer[n])

\* One process never publishes the same node twice.
PublishedOnce == \A u \in Ucers : sends[u] <= 1

\* A node that cannot be compiled or dispatched ends the batch: as long as it
\* is failed, no other node of the list is started.
FailureEndsBatch ==
    [][pc = "failing" /\ HasFailed(graph) =>
          \A n \in Nodes : graph.status[n] = "pending" => graph'.status[n] = "pending"]_vars

\* When both coroutines have their checkpoints written and the store does not
\* fail, the stored graph is the graph in memory: nothing that happened would
\* be forgotten by a recovery.
Quiet == pc \in {"wait", "returned"} /\ handling = 0 /\ \A c \in Coroutines : Synced(c)
CheckpointIsCurrent ==
    Quiet /\ env.ordered /\ ~May("store") => kv = graph

\* A job is published only after every job it depends on has done all of its
\* steps.
PublishedAfterDependenciesFinished ==
    \A n \in Nodes, i \in 1 .. MaxIncarnation :
        sends[<<n, i>>] > 0 =>
            \A d \in KnownDeps(deps, n) : \E j \in 1 .. MaxIncarnation :
                job[<<d, j>>] = Steps

-----------------------------------------------------------------------------
(* The refinement.                                                         *)

Started == {n \in Nodes : \E i \in 1 .. MaxIncarnation : sends[<<n, i>>] > 0}

Abstract == INSTANCE TaskGraph WITH
    Tasks <- Nodes, TaskIds <- NodeIds, needs <- deps, reporting <- env.databus,
    started <- Started, confirmed <- {n \in Nodes : NodeConfirmed(n)}

\* The orchestrator implements TaskGraph: every step is a step of it or
\* leaves what it speaks about unchanged.
ImplementsTaskGraph == Abstract!Spec

-----------------------------------------------------------------------------
(* Progress.  The event loop runs every coroutine whose await is over; the *)
(* store and the workers answer; the subscription delivers the stream in   *)
(* its order (strong fairness: a redelivery may come in between, but not   *)
(* for ever); wait_for raises after 30 seconds.                            *)

Fairness ==
    /\ WF_vars(ExecuteGraph)
    /\ WF_vars(Timeout)
    /\ \A c \in Coroutines : WF_vars(ApplyWrite(c))
    /\ SF_vars(OnJobEvent(cursor))
    /\ WF_vars(EventHandled)
    /\ WF_vars(Recover)
    /\ \A u \in Ucers : WF_vars(StepSucceeds(u))

FairSpec == Spec /\ Fairness

Acyclic ==
    \E rank \in [Nodes -> 1 .. Cardinality(Nodes)] :
        \A n \in Nodes : \A d \in KnownDeps(deps, n) : rank[d] < rank[n]

\* When nothing fails but acks of events, every acyclic graph is completed:
\* no wakeup of the loop is lost between a checkpoint and the wait.
AcyclicGraphCompletes ==
    (env.faults \subseteq {"redeliver"} /\ Acyclic)
        ~> (pc = "returned" /\ IsComplete(graph))

\* A recovered graph is resumed: when nothing but the process failed, the new
\* process completes it.
RecoveredGraphCompletes ==
    (inc > 1 /\ env.faults = {"crash"} /\ Acyclic)
        ~> (pc = "returned" /\ IsComplete(graph))

\* Where no two nodes can be in flight at once, nobody writes a checkpoint
\* while a node is being dispatched: a recovered graph is resumed to its end.
Sequential ==
    \A m, n \in Nodes : m # n => m \in deps[n] \/ n \in deps[m]
RecoveredSequenceCompletes ==
    (inc > 1 /\ env.faults = {"crash"} /\ env.databus /\ Acyclic /\ Sequential)
        ~> (pc = "returned" /\ IsComplete(graph))

\* execute_graph ends, whatever the graph looks like and whatever fails.
ExecutionEnds ==
    May("timeout") ~> pc \in {"returned", "raised"} \/ (pc = "crashed" /\ kv = NoGraph)

=============================================================================
