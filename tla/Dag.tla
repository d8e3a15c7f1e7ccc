-------------------------------- MODULE Dag --------------------------------
(***************************************************************************)
(* The task graph of core/dag.py: UCERGraph and its DAGNodes.              *)
(*                                                                         *)
(* A graph value is a record of two functions over the nodes: the status   *)
(* of each node and the command id of the UCER compiled for it.  What does *)
(* not change while a graph runs, depends_on, is a parameter `deps` of the *)
(* operators.  A dependency may name a node that the graph does not hold.  *)
(* Nodes are numbered by their insertion order in UCERGraph.nodes, a dict, *)
(* because get_ready_nodes lists them in that order.                       *)
(***************************************************************************)
EXTENDS Integers

CONSTANTS
    Nodes,      \* the node ids of the graph, in insertion order
    NodeIds,    \* every id a depends_on list may hold
    Ucers,      \* the command ids the compiler can hand out
    NoUcer      \* DAGNode.ucer_id = None

ASSUME DagAssumption ==
    /\ Nodes \subseteq Int
    /\ Nodes \subseteq NodeIds
    /\ NoUcer \notin Ucers

Status == {"pending", "running", "completed", "failed"}

Graph == [status : [Nodes -> Status], ucer : [Nodes -> Ucers \union {NoUcer}]]

\* The graph that plan_workflow hands over: nothing compiled, nothing started.
PlannedGraph == [status |-> [n \in Nodes |-> "pending"],
                 ucer   |-> [n \in Nodes |-> NoUcer]]

\* The dependencies of n that get_ready_nodes looks at: an id that is not a
\* key of UCERGraph.nodes is skipped.
KnownDeps(deps, n) == deps[n] \intersect Nodes

\* Mutants of GetReadyNodes: a node is ready as soon as its dependencies have
\* been started; the status of the node itself is not looked at.
GetReadyNodesOnceStarted(g, deps) ==
    {n \in Nodes : /\ g.status[n] = "pending"
                   /\ \A d \in KnownDeps(deps, n) : g.status[d] # "pending"}
GetReadyNodesOfAnyStatus(g, deps) ==
    {n \in Nodes : /\ g.status[n] # "completed"
                   /\ \A d \in KnownDeps(deps, n) : g.status[d] = "completed"}

GetReadyNodes(g, deps) ==
    {n \in Nodes : /\ g.status[n] = "pending"
                   /\ \A d \in KnownDeps(deps, n) : g.status[d] = "completed"}

Start(g, n, u) == [g EXCEPT !.status[n] = "running", !.ucer[n] = u]

MarkCompleted(g, n, u) == [g EXCEPT !.status[n] = "completed", !.ucer[n] = u]

\* Mutant of MarkFailed: a status no reader of the graph knows.
MarkError(g, n) == [g EXCEPT !.status[n] = "error"]

MarkFailed(g, n) == [g EXCEPT !.status[n] = "failed"]

IsComplete(g) == \A n \in Nodes : g.status[n] = "completed"

HasFailed(g) == \E n \in Nodes : g.status[n] = "failed"

=============================================================================
