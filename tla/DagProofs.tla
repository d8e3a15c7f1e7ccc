----------------------------- MODULE DagProofs -----------------------------
(***************************************************************************)
(* Proofs about DagOrchestrator, for every set of nodes, every dependency  *)
(* relation, every number of incarnations and of steps, every environment. *)
(*                                                                         *)
(* The argument: every graph value that exists anywhere (in memory, in the *)
(* store, in a write under way) is Consistent with the evidence collected  *)
(* so far, and evidence is never lost.  The lemmas about Consistent are    *)
(* facts about graph values only; the invariant adds what the loop knows   *)
(* about the node it is dispatching and about the rest of its list.        *)
(***************************************************************************)
EXTENDS DagProperties, SequenceTheorems, TLAPS

\* The command ids whose success is confirmed.
ConfirmedUcers == {u \in Ucers : Confirmed(u)}

\* A graph value agrees with the evidence C: ids belong to their nodes, only
\* what was started has one, what is completed is confirmed, and what was
\* started has confirmed dependencies.
Consistent(g, dp, C) ==
    \A n \in Nodes :
        /\ g.ucer[n] # NoUcer => \E i \in 1 .. MaxIncarnation : g.ucer[n] = <<n, i>>
        /\ g.status[n] = "pending" => g.ucer[n] = NoUcer
        /\ g.status[n] = "completed" => g.ucer[n] \in C
        /\ g.status[n] # "pending" => \A d \in KnownDeps(dp, n) : g.ucer[d] \in C

GraphsConsistent ==
    /\ Consistent(graph, deps, ConfirmedUcers)
    /\ kv # NoGraph => Consistent(kv, deps, ConfirmedUcers)
    /\ \A c \in Coroutines : write[c] # NoGraph => Consistent(write[c], deps, ConfirmedUcers)

TodoIsReady ==
    \A n \in todo :
        /\ graph.status[n] = "pending"
        /\ \A d \in KnownDeps(deps, n) : graph.ucer[d] \in ConfirmedUcers

CurIsStarted ==
    /\ pc \in {"dispatch", "acking", "syncing", "completing"} =>
          /\ cur \in Nodes
          /\ graph.status[cur] # "pending"
          /\ graph.ucer[cur] = <<cur, inc>>
    /\ pc = "dispatch" => sends[<<cur, inc>>] = 0
    /\ pc \in {"acking", "syncing", "completing"} => sends[<<cur, inc>>] > 0

UnusedIds ==
    /\ \A n \in Nodes, i \in 1 .. MaxIncarnation :
          i > inc \/ (i = inc /\ graph.status[n] = "pending") => sends[<<n, i>>] = 0
    /\ pc = "crashed" => inc < MaxIncarnation

IInv ==
    /\ TypeOK
    /\ GraphsConsistent
    /\ TodoIsReady
    /\ CurIsStarted
    /\ UnusedIds
    /\ PublishedAfterDependencies
    /\ PublishedOnce

-----------------------------------------------------------------------------
(* Facts about graph values.                                               *)

\* Every operation of UCERGraph yields a graph again.
LEMMA GraphOperations ==
    ASSUME NEW g \in Graph, NEW n \in Nodes
    PROVE  /\ \A u \in Ucers : Start(g, n, u) \in Graph /\ MarkCompleted(g, n, u) \in Graph
           /\ MarkFailed(g, n) \in Graph
  BY DEF Graph, Status, Start, MarkCompleted, MarkFailed

\* More evidence does not make a graph inconsistent.
LEMMA ConsistentMonotone ==
    ASSUME NEW g, NEW dp, NEW C, NEW D, C \subseteq D, Consistent(g, dp, C)
    PROVE  Consistent(g, dp, D)
  BY DEF Consistent

\* The planned graph, where nothing is started, is consistent.
LEMMA PlannedConsistent ==
    ASSUME NEW dp, NEW C
    PROVE  PlannedGraph \in Graph /\ Consistent(PlannedGraph, dp, C)
  BY DEF PlannedGraph, Graph, Status, Consistent

\* get_ready_nodes returns pending nodes whose dependencies are confirmed.
LEMMA ReadyIsConfirmed ==
    ASSUME NEW g, NEW dp, NEW C, Consistent(g, dp, C), NEW n \in GetReadyNodes(g, dp)
    PROVE  /\ n \in Nodes
           /\ g.status[n] = "pending"
           /\ \A d \in KnownDeps(dp, n) : g.ucer[d] \in C
  BY DEF GetReadyNodes, Consistent, KnownDeps

\* Starting a ready node keeps the graph consistent, and the other pending
\* nodes with their dependencies as they were.
LEMMA StartConsistent ==
    ASSUME NEW g \in Graph, NEW dp, NEW C \in SUBSET Ucers, Consistent(g, dp, C),
           NEW n \in Nodes, NEW i \in 1 .. MaxIncarnation, <<n, i>> \in Ucers,
           g.status[n] = "pending", \A d \in KnownDeps(dp, n) : g.ucer[d] \in C
    PROVE  LET h == Start(g, n, <<n, i>>) IN
           /\ Consistent(h, dp, C)
           /\ h.status[n] = "running" /\ h.ucer[n] = <<n, i>>
           /\ \A m \in Nodes \ {n} : h.status[m] = g.status[m]
           /\ \A m \in Nodes : g.ucer[m] \in C => h.ucer[m] = g.ucer[m]
  <1> DEFINE h == Start(g, n, <<n, i>>)
  <1>1. /\ h.status = [g.status EXCEPT ![n] = "running"]
        /\ h.ucer = [g.ucer EXCEPT ![n] = <<n, i>>]
    BY DEF Graph, Start
  <1>2. /\ h.status[n] = "running" /\ h.ucer[n] = <<n, i>>
        /\ \A m \in Nodes \ {n} : h.status[m] = g.status[m] /\ h.ucer[m] = g.ucer[m]
    BY <1>1 DEF Graph
  <1>3. g.ucer[n] \notin C
    BY DagAssumption DEF Consistent
  <1>4. \A m \in Nodes : g.ucer[m] \in C => h.ucer[m] = g.ucer[m]
    BY <1>2, <1>3
  <1>5. Consistent(h, dp, C)
    BY <1>2, <1>3, <1>4 DEF Consistent, KnownDeps
  <1> QED
    BY <1>2, <1>4, <1>5

\* Completing a started node under its own, confirmed id keeps the graph
\* consistent and changes no id.
LEMMA CompleteConsistent ==
    ASSUME NEW g \in Graph, NEW dp, NEW C \in SUBSET Ucers, Consistent(g, dp, C),
           NEW n \in Nodes, g.status[n] # "pending", g.ucer[n] \in C
    PROVE  LET h == MarkCompleted(g, n, g.ucer[n]) IN
           /\ Consistent(h, dp, C)
           /\ h.ucer = g.ucer
           /\ \A m \in Nodes : h.status[m] = "pending" <=> g.status[m] = "pending"
           /\ \A m \in Nodes \ {n} : h.status[m] = g.status[m]
  <1> DEFINE h == MarkCompleted(g, n, g.ucer[n])
  <1>1. /\ h.status = [g.status EXCEPT ![n] = "completed"]
        /\ h.ucer = g.ucer
    BY DEF Graph, MarkCompleted
  <1>2. h.status[n] = "completed" /\ \A m \in Nodes \ {n} : h.status[m] = g.status[m]
    BY <1>1 DEF Graph
  <1>3. Consistent(h, dp, C)
    BY <1>1, <1>2 DEF Consistent
  <1> QED
    BY <1>1, <1>2, <1>3

\* Failing a node that is started, or whose dependencies are confirmed, keeps
\* the graph consistent, changes no id and no other node.
LEMMA FailConsistent ==
    ASSUME NEW g \in Graph, NEW dp, NEW C, Consistent(g, dp, C), NEW n \in Nodes,
           g.status[n] # "pending" \/ \A d \in KnownDeps(dp, n) : g.ucer[d] \in C
    PROVE  LET h == MarkFailed(g, n) IN
           /\ Consistent(h, dp, C)
           /\ h.ucer = g.ucer
           /\ h.status[n] = "failed"
           /\ \A m \in Nodes \ {n} : h.status[m] = g.status[m]
  <1> DEFINE h == MarkFailed(g, n)
  <1>1. /\ h.status = [g.status EXCEPT ![n] = "failed"]
        /\ h.ucer = g.ucer
    BY DEF Graph, MarkFailed
  <1>2. h.status[n] = "failed" /\ \A m \in Nodes \ {n} : h.status[m] = g.status[m]
    BY <1>1 DEF Graph
  <1>3. Consistent(h, dp, C)
    BY <1>1, <1>2 DEF Consistent
  <1> QED
    BY <1>1, <1>2, <1>3

-----------------------------------------------------------------------------
(* Evidence.                                                               *)

\* A step that touches neither the jobs nor the stream leaves the evidence,
\* and what was published on its basis, as they were.
LEMMA SameEvidence ==
    ASSUME IInv, UNCHANGED <<env, deps, sends, stream>>
    PROVE  /\ ConfirmedUcers' = ConfirmedUcers
           /\ PublishedAfterDependencies'
           /\ PublishedOnce'
  BY DEF IInv, ConfirmedUcers, Confirmed, PublishedAfterDependencies, PublishedOnce,
         NodeConfirmed, KnownDeps

\* Publishing a job and emitting an event only add evidence.
LEMMA MoreEvidence ==
    ASSUME TypeOK, env' = env,
           \A u \in Ucers : sends[u] > 0 => sends'[u] > 0,
           stream' = stream \/ \E e \in Event : stream' = Append(stream, e)
    PROVE  /\ \A u \in Ucers : Confirmed(u) => Confirmed(u)'
           /\ ConfirmedUcers \subseteq ConfirmedUcers'
  <1>1. ASSUME NEW u \in Ucers, Confirmed(u)
        PROVE  Confirmed(u)'
    <2>1. CASE ~env.databus
      BY <1>1, <2>1 DEF Confirmed
    <2>2. CASE env.databus
      <3>1. PICK i \in DOMAIN stream : stream[i] = [ucer |-> u, success |-> TRUE]
        BY <1>1, <2>2 DEF Confirmed
      <3>2. i \in DOMAIN stream' /\ stream'[i] = stream[i]
        <4>1. CASE stream' = stream
          BY <3>1, <4>1
        <4>2. ASSUME NEW e \in Event, stream' = Append(stream, e)
              PROVE  i \in DOMAIN stream' /\ stream'[i] = stream[i]
          <5>1. stream \in Seq(Event) /\ i \in 1 .. Len(stream)
            BY LenProperties DEF TypeOK
          <5>2. /\ stream' \in Seq(Event)
                /\ Len(stream') = Len(stream) + 1
                /\ stream'[i] = stream[i]
            BY <4>2, <5>1, AppendProperties
          <5>3. DOMAIN stream' = 1 .. Len(stream') /\ Len(stream) \in Nat
            BY <5>1, <5>2, LenProperties
          <5> QED
            BY <5>1, <5>2, <5>3
        <4> QED
          BY <4>1, <4>2
      <3> QED
        BY <2>2, <3>1, <3>2 DEF Confirmed
    <2> QED
      BY <2>1, <2>2
  <1> QED
    BY <1>1 DEF ConfirmedUcers

\* Consistent graphs stay so, whatever evidence comes in.
LEMMA GraphsStayConsistent ==
    ASSUME GraphsConsistent, ConfirmedUcers \subseteq ConfirmedUcers',
           UNCHANGED <<deps, graph, kv, write>>
    PROVE  GraphsConsistent'
  BY ConsistentMonotone, Zenon DEF GraphsConsistent

-----------------------------------------------------------------------------
(* The loop.                                                               *)

\* What a step of the loop owes the invariant when it starts the first node of
\* a list of ready nodes, or fails it.
LEMMA DispatchKeepsIInv ==
    ASSUME IInv, UNCHANGED <<config, inc, listenVars, jobVars>>,
           NEW list \in SUBSET Nodes,
           \A n \in list : /\ graph.status[n] = "pending"
                          /\ \A d \in KnownDeps(deps, n) : graph.ucer[d] \in ConfirmedUcers,
           DispatchFirst(graph, list)
    PROVE  IInv'
  <1>. USE DEF config, listenVars, jobVars
  <1>1. /\ ConfirmedUcers' = ConfirmedUcers
        /\ PublishedAfterDependencies' /\ PublishedOnce'
        /\ ConfirmedUcers \in SUBSET Ucers
        /\ Consistent(graph, deps, ConfirmedUcers)
        /\ TypeOK
    BY SameEvidence DEF IInv, ConfirmedUcers, GraphsConsistent
  <1>2. PICK n \in list :
           \/ /\ graph' = Start(graph, n, <<n, inc>>)
              /\ cur' = n
              /\ todo' = list \ {n}
              /\ pc' = "dispatch"
              /\ NoSync
           \/ /\ May("compile")
              /\ FailNode(graph, n)
    BY DEF DispatchFirst
  <1>3. n \in Nodes /\ inc \in 1 .. MaxIncarnation /\ <<n, inc>> \in Ucers
    BY <1>1, OrchestratorAssumption DEF TypeOK
  <1>4. CASE /\ graph' = Start(graph, n, <<n, inc>>)
             /\ cur' = n
             /\ todo' = list \ {n}
             /\ pc' = "dispatch"
             /\ NoSync
    <2>1. /\ Consistent(graph', deps, ConfirmedUcers)
          /\ graph'.status[n] = "running" /\ graph'.ucer[n] = <<n, inc>>
          /\ \A m \in Nodes \ {n} : graph'.status[m] = graph.status[m]
          /\ \A m \in Nodes : graph.ucer[m] \in ConfirmedUcers => graph'.ucer[m] = graph.ucer[m]
      BY <1>1, <1>3, <1>4, StartConsistent DEF TypeOK
    <2>2. TypeOK'
      <3>1. graph' \in Graph
        BY <1>1, <1>3, <1>4, GraphOperations DEF TypeOK
      <3> QED
        BY <1>1, <1>3, <1>4, <3>1 DEF TypeOK, NoSync, storeVars, Suspended
    <2>3. GraphsConsistent'
      BY <1>1, <1>4, <2>1 DEF IInv, GraphsConsistent, NoSync, storeVars
    <2>4. TodoIsReady'
      BY <1>1, <1>4, <2>1 DEF TodoIsReady, KnownDeps
    <2>5. CurIsStarted' /\ UnusedIds'
      BY <1>3, <1>4, <2>1 DEF IInv, CurIsStarted, UnusedIds
    <2> QED
      BY <1>1, <2>2, <2>3, <2>4, <2>5 DEF IInv
  <1>5. CASE FailNode(graph, n)
    <2>1. /\ Consistent(graph', deps, ConfirmedUcers)
          /\ graph'.status[n] = "failed"
          /\ \A m \in Nodes \ {n} : graph'.status[m] = graph.status[m]
      BY <1>1, <1>3, <1>5, FailConsistent DEF TypeOK, FailNode
    <2>2. TypeOK'
      <3>1. graph' \in Graph
        BY <1>1, <1>3, <1>5, GraphOperations DEF TypeOK, FailNode
      <3>2. /\ kv' = kv /\ write' = [write EXCEPT !["loop"] = graph'] /\ older' \in Coroutines
            /\ cur' = n /\ todo' = {} /\ pc' = "failing"
        BY <1>5 DEF FailNode, SyncGraphState, Coroutines, Other
      <3> QED
        BY <1>1, <1>3, <3>1, <3>2 DEF TypeOK, Suspended
    <2>3. GraphsConsistent'
      BY <1>1, <1>5, <2>1 DEF IInv, GraphsConsistent, FailNode, SyncGraphState, TypeOK
    <2>4. TodoIsReady' /\ CurIsStarted' /\ UnusedIds'
      BY <1>3, <1>5, <2>1 DEF IInv, TodoIsReady, CurIsStarted, UnusedIds, FailNode
    <2> QED
      BY <1>1, <2>2, <2>3, <2>4 DEF IInv
  <1> QED
    BY <1>2, <1>4, <1>5

\* Between two awaits the loop either starts a node of its list, or of the
\* nodes that are ready now, or leaves the graph alone.
LEMMA ContinueKeepsIInv ==
    ASSUME IInv, UNCHANGED <<config, inc, listenVars, jobVars>>,
           NEW list, list \in {todo, {}}, Continue(graph, list)
    PROVE  IInv'
  <1>1. CASE DispatchFirst(graph, list)
    <2>1. /\ list \in SUBSET Nodes
          /\ \A n \in list : /\ graph.status[n] = "pending"
                             /\ \A d \in KnownDeps(deps, n) : graph.ucer[d] \in ConfirmedUcers
      BY DEF IInv, TypeOK, TodoIsReady
    <2> QED
      BY <1>1, <2>1, DispatchKeepsIInv
  <1>2. CASE DispatchFirst(graph, GetReadyNodes(graph, deps))
    <2>1. \A n \in GetReadyNodes(graph, deps) :
              /\ n \in Nodes
              /\ graph.status[n] = "pending"
              /\ \A d \in KnownDeps(deps, n) : graph.ucer[d] \in ConfirmedUcers
      BY ReadyIsConfirmed DEF IInv, GraphsConsistent
    <2> QED
      BY <1>2, <2>1, DispatchKeepsIInv
  <1>3. CASE /\ pc' \in {"returned", "wait"}
             /\ graph' = graph /\ todo' = {} /\ cur' = cur /\ NoSync
    <2>1. ConfirmedUcers' = ConfirmedUcers /\ PublishedAfterDependencies' /\ PublishedOnce'
      BY SameEvidence DEF config, jobVars
    <2>2. TypeOK' /\ TodoIsReady' /\ CurIsStarted' /\ UnusedIds' /\ GraphsConsistent'
      BY <1>3, <2>1 DEF IInv, TypeOK, TodoIsReady, CurIsStarted, UnusedIds, GraphsConsistent,
            NoSync, storeVars, config, listenVars, jobVars, Suspended, Stopped
    <2> QED
      BY <2>1, <2>2 DEF IInv
  <1> QED
    BY <1>1, <1>2, <1>3 DEF Continue

\* The steps of execute_graph.
LEMMA ExecuteGraphKeepsIInv ==
    ASSUME IInv, ExecuteGraph
    PROVE  IInv'
  <1>. USE DEF config, loopVars, listenVars, storeVars, jobVars
  <1>1. CASE Begin
    <2>1. ConfirmedUcers' = ConfirmedUcers /\ PublishedAfterDependencies' /\ PublishedOnce'
      BY <1>1, SameEvidence DEF Begin
    <2>2. /\ write' = [write EXCEPT !["loop"] = graph] /\ older' \in Coroutines
          /\ kv' = kv
      BY <1>1 DEF Begin, SyncGraphState, Coroutines, Other
    <2>3. TypeOK'
      BY <1>1, <2>2 DEF IInv, TypeOK, Begin, Suspended
    <2>4. GraphsConsistent'
      BY <1>1, <2>1, <2>2 DEF IInv, TypeOK, GraphsConsistent, Begin
    <2>5. TodoIsReady' /\ CurIsStarted' /\ UnusedIds'
      BY <1>1, <2>1 DEF IInv, TodoIsReady, CurIsStarted, UnusedIds, Begin
    <2> QED
      BY <2>1, <2>3, <2>4, <2>5 DEF IInv
  <1>2. CASE Subscribe
    <2>1. ConfirmedUcers' = ConfirmedUcers /\ PublishedAfterDependencies' /\ PublishedOnce'
      BY <1>2, SameEvidence DEF Subscribe
    <2> QED
      BY <1>2, <2>1 DEF IInv, TypeOK, GraphsConsistent, TodoIsReady, CurIsStarted, UnusedIds,
            Subscribe, Suspended
  <1>3. CASE EnterLoop
    BY <1>3, ContinueKeepsIInv DEF EnterLoop
  <1>4. CASE Publish
    <2>1. /\ cur \in Nodes /\ inc \in 1 .. MaxIncarnation /\ <<cur, inc>> \in Ucers
          /\ sends[<<cur, inc>>] = 0 /\ graph.status[cur] # "pending"
      BY <1>4, OrchestratorAssumption DEF IInv, TypeOK, CurIsStarted, Publish
    <2>2. /\ sends' \in [Ucers -> 0 .. 2]
          /\ sends'[<<cur, inc>>] = 1
          /\ \A u \in Ucers \ {<<cur, inc>>} : sends'[u] = sends[u]
      BY <1>4, <2>1 DEF IInv, TypeOK, Publish
    <2>3. /\ \A u \in Ucers : Confirmed(u) => Confirmed(u)'
          /\ ConfirmedUcers \subseteq ConfirmedUcers'
      BY <1>4, <2>1, <2>2, MoreEvidence DEF IInv, TypeOK, Publish
    <2>4. TypeOK'
      BY <1>4, <2>2 DEF IInv, TypeOK, Publish, Suspended
    <2>5. GraphsConsistent'
      BY <1>4, <2>3, GraphsStayConsistent DEF IInv, Publish
    <2>6. TodoIsReady'
      BY <1>4, <2>3 DEF IInv, TodoIsReady, Publish
    <2>7. CurIsStarted'
      BY <1>4, <2>1, <2>2 DEF IInv, CurIsStarted, Publish
    <2>8. UnusedIds'
      BY <1>4, <2>1, <2>2, OrchestratorAssumption DEF IInv, UnusedIds, Publish
    <2>9. PublishedOnce'
      BY <2>1, <2>2 DEF IInv, PublishedOnce
    <2>10. PublishedAfterDependencies'
      <3>1. ASSUME NEW d \in KnownDeps(deps, cur)
            PROVE  NodeConfirmed(d)
        <4>1. d \in Nodes /\ graph.ucer[d] \in Ucers /\ Confirmed(graph.ucer[d])
          BY <2>1, <3>1 DEF IInv, GraphsConsistent, Consistent, ConfirmedUcers, KnownDeps
        <4>2. PICK i \in 1 .. MaxIncarnation : graph.ucer[d] = <<d, i>>
          BY <4>1, DagAssumption DEF IInv, GraphsConsistent, Consistent
        <4> QED
          BY <4>1, <4>2 DEF NodeConfirmed
      <3>2. ASSUME NEW d \in Nodes, NodeConfirmed(d)
            PROVE  NodeConfirmed(d)'
        BY <2>3, <3>2, OrchestratorAssumption DEF NodeConfirmed
      <3>3. ASSUME NEW n \in Nodes, NEW i \in 1 .. MaxIncarnation, sends'[<<n, i>>] > 0,
                   NEW d \in KnownDeps(deps, n)
            PROVE  NodeConfirmed(d)
        <4>1. CASE n = cur
          BY <3>1, <3>3, <4>1
        <4>2. CASE n # cur
          <5>1. sends[<<n, i>>] > 0
            BY <2>2, <3>3, <4>2, OrchestratorAssumption
          <5> QED
            BY <3>3, <5>1 DEF IInv, PublishedAfterDependencies
        <4> QED
          BY <4>1, <4>2
      <3> QED
        BY <1>4, <3>2, <3>3 DEF PublishedAfterDependencies, KnownDeps, Publish
    <2> QED
      BY <2>4, <2>5, <2>6, <2>7, <2>8, <2>9, <2>10 DEF IInv
  <1>5. CASE Published
    <2>1. ConfirmedUcers' = ConfirmedUcers /\ PublishedAfterDependencies' /\ PublishedOnce'
      BY <1>5, SameEvidence DEF Published
    <2>2. /\ write' = [write EXCEPT !["loop"] = graph] /\ older' \in Coroutines
          /\ kv' = kv
      BY <1>5 DEF Published, SyncGraphState, Coroutines, Other
    <2>3. TypeOK'
      BY <1>5, <2>2 DEF IInv, TypeOK, Published, Suspended
    <2>4. GraphsConsistent'
      BY <1>5, <2>1, <2>2 DEF IInv, TypeOK, GraphsConsistent, Published
    <2>5. TodoIsReady' /\ CurIsStarted' /\ UnusedIds'
      BY <1>5, <2>1 DEF IInv, TodoIsReady, CurIsStarted, UnusedIds, Published
    <2> QED
      BY <2>1, <2>3, <2>4, <2>5 DEF IInv
  <1>6. CASE CompleteUnreported
    <2>1. ConfirmedUcers' = ConfirmedUcers /\ PublishedAfterDependencies' /\ PublishedOnce'
      BY <1>6, SameEvidence DEF CompleteUnreported
    <2>2. /\ cur \in Nodes /\ graph.status[cur] # "pending" /\ graph.ucer[cur] = <<cur, inc>>
          /\ sends[<<cur, inc>>] > 0 /\ <<cur, inc>> \in Ucers /\ ~env.databus
      BY <1>6, OrchestratorAssumption DEF IInv, TypeOK, CurIsStarted, CompleteUnreported
    <2>3. graph.ucer[cur] \in ConfirmedUcers /\ ConfirmedUcers \in SUBSET Ucers
      BY <2>2 DEF ConfirmedUcers, Confirmed
    <2>4. /\ Consistent(graph', deps, ConfirmedUcers)
          /\ graph'.ucer = graph.ucer
          /\ \A m \in Nodes : graph'.status[m] = "pending" <=> graph.status[m] = "pending"
          /\ \A m \in Nodes \ {cur} : graph'.status[m] = graph.status[m]
          /\ graph' \in Graph
      <3>1. graph' = MarkCompleted(graph, cur, graph.ucer[cur])
        BY <1>6, <2>2 DEF CompleteUnreported
      <3>2. graph \in Graph /\ Consistent(graph, deps, ConfirmedUcers)
        BY DEF IInv, TypeOK, GraphsConsistent
      <3>3. graph' \in Graph
        BY <2>2, <3>1, <3>2, GraphOperations
      <3> QED
        BY <2>2, <2>3, <3>1, <3>2, <3>3, CompleteConsistent
    <2>5. /\ write' = [write EXCEPT !["loop"] = graph'] /\ older' \in Coroutines
          /\ kv' = kv
      BY <1>6 DEF CompleteUnreported, SyncGraphState, Coroutines, Other
    <2>6. TypeOK'
      BY <1>6, <2>4, <2>5 DEF IInv, TypeOK, CompleteUnreported, Suspended
    <2>7. GraphsConsistent'
      BY <1>6, <2>1, <2>4, <2>5 DEF IInv, TypeOK, GraphsConsistent, CompleteUnreported
    <2>8. TodoIsReady' /\ CurIsStarted' /\ UnusedIds'
      <3>1. UnusedIds'
        BY <1>6, <2>4 DEF IInv, UnusedIds, CompleteUnreported
      <3>2. CurIsStarted'
        BY <1>6, <2>2, <2>4 DEF IInv, CurIsStarted, CompleteUnreported
      <3>3. todo \subseteq Nodes /\ todo' = todo /\ deps' = deps
        BY <1>6 DEF IInv, TypeOK, CompleteUnreported
      <3>4. TodoIsReady'
        BY <2>1, <2>4, <3>3 DEF IInv, TodoIsReady
      <3> QED
        BY <3>1, <3>2, <3>4
    <2> QED
      BY <2>1, <2>6, <2>7, <2>8 DEF IInv
  <1>7. CASE GoOn
    BY <1>7, ContinueKeepsIInv DEF GoOn
  <1> QED
    BY <1>1, <1>2, <1>3, <1>4, <1>5, <1>6, <1>7 DEF ExecuteGraph

\* submit_job raises: the node that was being dispatched is failed.
LEMMA DispatchRaisesKeepsIInv ==
    ASSUME IInv, DispatchRaises
    PROVE  IInv'
  <1>. USE DEF config, listenVars, jobVars
  <1>1. ConfirmedUcers' = ConfirmedUcers /\ PublishedAfterDependencies' /\ PublishedOnce'
    BY SameEvidence DEF DispatchRaises
  <1>2. cur \in Nodes /\ graph.status[cur] # "pending"
    BY DEF IInv, CurIsStarted, DispatchRaises
  <1>3. /\ Consistent(graph', deps, ConfirmedUcers)
        /\ graph'.status[cur] = "failed"
        /\ \A m \in Nodes \ {cur} : graph'.status[m] = graph.status[m]
    BY <1>2, FailConsistent DEF IInv, TypeOK, GraphsConsistent, DispatchRaises, FailNode
  <1>4. /\ write' = [write EXCEPT !["loop"] = graph'] /\ older' \in Coroutines
        /\ kv' = kv /\ graph' \in Graph /\ pc' = "failing" /\ todo' = {} /\ cur' = cur
    BY <1>2, GraphOperations
       DEF IInv, TypeOK, DispatchRaises, FailNode, SyncGraphState, Coroutines, Other
  <1>5. TypeOK'
    BY <1>4 DEF IInv, TypeOK, DispatchRaises, Suspended
  <1>6. GraphsConsistent'
    BY <1>1, <1>3, <1>4 DEF IInv, TypeOK, GraphsConsistent, DispatchRaises
  <1>7. TodoIsReady' /\ CurIsStarted' /\ UnusedIds'
    BY <1>2, <1>3, <1>4 DEF IInv, TodoIsReady, CurIsStarted, UnusedIds, DispatchRaises
  <1> QED
    BY <1>1, <1>5, <1>6, <1>7 DEF IInv

-----------------------------------------------------------------------------
(* The listener, the store, the process.                                   *)

\* A delivered event marks the node that has its id, and no pending node has
\* one; an event of another process's job changes nothing.
LEMMA OnJobEventKeepsIInv ==
    ASSUME IInv, NEW i \in DOMAIN stream, OnJobEvent(i)
    PROVE  IInv'
  <1>. USE DEF config, loopVars, jobVars
  <1>1. /\ ConfirmedUcers' = ConfirmedUcers /\ PublishedAfterDependencies' /\ PublishedOnce'
        /\ ConfirmedUcers \in SUBSET Ucers
    BY SameEvidence DEF OnJobEvent, ConfirmedUcers
  <1>2. /\ stream[i] \in Event /\ i \in Nat
        /\ graph \in Graph /\ Consistent(graph, deps, ConfirmedUcers)
    <2>1. stream \in Seq(Event) /\ i \in 1 .. Len(stream) /\ Len(stream) \in Nat
      BY LenProperties DEF IInv, TypeOK
    <2> QED
      BY <2>1, ElementOfSeq DEF IInv, TypeOK, GraphsConsistent
  <1>3. cursor' \in Nat /\ again' \in SUBSET Nat
    <2>1. cursor \in Nat /\ again \in SUBSET Nat
      BY DEF IInv, TypeOK
    <2>2. cursor' \in {cursor, cursor + 1} /\ again' = again \ {i}
      BY DEF OnJobEvent
    <2>3. again' \in SUBSET Nat
      BY <2>1, <2>2, Zenon
    <2>4. cursor' \in Nat
      BY <2>1, <2>2
    <2> QED
      BY <2>3, <2>4
  <1>4. ASSUME NEW n \in NodesOf(stream[i].ucer), MarkNode(n, stream[i]),
               SyncGraphState("listener", graph'), handling' = i
        PROVE  IInv'
    <2>1. /\ n \in Nodes /\ graph.ucer[n] = stream[i].ucer /\ stream[i].ucer \in Ucers
          /\ graph.status[n] # "pending"
      BY <1>2, <1>4, DagAssumption DEF NodesOf, Event, Consistent
    <2>2. /\ Consistent(graph', deps, ConfirmedUcers)
          /\ graph'.ucer = graph.ucer
          /\ \A m \in Nodes : graph'.status[m] = "pending" <=> graph.status[m] = "pending"
          /\ graph' \in Graph
      <3>1. CASE stream[i].success
        <4>1. graph.ucer[n] \in ConfirmedUcers
          <5>1. stream[i] = [ucer |-> graph.ucer[n], success |-> TRUE]
            BY <1>2, <2>1, <3>1 DEF Event
          <5>2. env.databus
            BY DEF OnJobEvent, Subscribed
          <5> QED
            BY <2>1, <5>1, <5>2 DEF ConfirmedUcers, Confirmed
        <4>2. graph' = MarkCompleted(graph, n, graph.ucer[n])
          BY <1>4, <2>1, <3>1 DEF MarkNode
        <4>3. graph' \in Graph
          BY <1>2, <2>1, <4>2, GraphOperations
        <4> QED
          BY <1>1, <1>2, <2>1, <4>1, <4>2, <4>3, CompleteConsistent
      <3>2. CASE ~stream[i].success
        <4>1. graph' = MarkFailed(graph, n)
          BY <1>4, <3>2 DEF MarkNode
        <4>2. /\ Consistent(graph', deps, ConfirmedUcers) /\ graph'.ucer = graph.ucer
              /\ graph'.status[n] = "failed"
              /\ \A m \in Nodes \ {n} : graph'.status[m] = graph.status[m]
          BY <1>2, <2>1, <4>1, FailConsistent
        <4>3. graph' \in Graph
          BY <1>2, <2>1, <4>1, GraphOperations
        <4> QED
          BY <2>1, <4>2, <4>3
      <3> QED
        BY <3>1, <3>2
    <2>3. /\ write' = [write EXCEPT !["listener"] = graph'] /\ older' \in Coroutines
          /\ kv' = kv
      BY <1>4 DEF SyncGraphState, Coroutines, Other
    <2>4. TypeOK'
      BY <1>2, <1>3, <1>4, <2>2, <2>3 DEF IInv, TypeOK, OnJobEvent
    <2>5. GraphsConsistent'
      BY <1>1, <2>2, <2>3 DEF IInv, TypeOK, GraphsConsistent, OnJobEvent
    <2>6. UnusedIds' /\ CurIsStarted'
      <3>1. pc' = pc /\ cur' = cur /\ inc' = inc /\ sends' = sends
        BY DEF OnJobEvent
      <3> QED
        BY <2>2, <3>1 DEF IInv, UnusedIds, CurIsStarted
    <2>7. TodoIsReady'
      <3>1. todo \subseteq Nodes /\ todo' = todo /\ deps' = deps
        BY DEF IInv, TypeOK, OnJobEvent
      <3> QED
        BY <1>1, <2>2, <3>1 DEF IInv, TodoIsReady
    <2> QED
      BY <1>1, <2>4, <2>5, <2>6, <2>7 DEF IInv
  <1>5. CASE UNCHANGED <<graph, storeVars, handling>>
    <2>1. TypeOK' /\ GraphsConsistent'
      BY <1>1, <1>3, <1>5 DEF IInv, TypeOK, GraphsConsistent, OnJobEvent, storeVars
    <2>2. TodoIsReady' /\ CurIsStarted' /\ UnusedIds'
      BY <1>1, <1>5 DEF IInv, TodoIsReady, CurIsStarted, UnusedIds, OnJobEvent
    <2> QED
      BY <1>1, <2>1, <2>2 DEF IInv
  <1> QED
    BY <1>4, <1>5 DEF OnJobEvent

\* Notifying the loop and acking the message touch no graph.
LEMMA EventHandledKeepsIInv ==
    ASSUME IInv, EventHandled
    PROVE  IInv'
  <1>. USE DEF config, storeVars, jobVars
  <1>1. ConfirmedUcers' = ConfirmedUcers /\ PublishedAfterDependencies' /\ PublishedOnce'
    BY SameEvidence DEF EventHandled
  <1>2. TypeOK' /\ GraphsConsistent'
    BY <1>1 DEF IInv, TypeOK, GraphsConsistent, EventHandled, Notify, Suspended
  <1>3. TodoIsReady' /\ CurIsStarted' /\ UnusedIds'
    BY <1>1 DEF IInv, TodoIsReady, CurIsStarted, UnusedIds, EventHandled, Notify
  <1> QED
    BY <1>1, <1>2, <1>3 DEF IInv

\* Whatever order the writes take effect in, each stores a consistent graph.
LEMMA ApplyWriteKeepsIInv ==
    ASSUME IInv, NEW c \in Coroutines, ApplyWrite(c)
    PROVE  IInv'
  <1>. USE DEF config, loopVars, listenVars, jobVars
  <1>1. ConfirmedUcers' = ConfirmedUcers /\ PublishedAfterDependencies' /\ PublishedOnce'
    BY SameEvidence DEF ApplyWrite
  <1>2. write[c] \in Graph /\ Consistent(write[c], deps, ConfirmedUcers)
    BY DEF IInv, TypeOK, GraphsConsistent, ApplyWrite, MayBeWritten
  <1>3. TypeOK' /\ GraphsConsistent'
    BY <1>1, <1>2 DEF IInv, TypeOK, GraphsConsistent, ApplyWrite
  <1>4. TodoIsReady' /\ CurIsStarted' /\ UnusedIds'
    BY <1>1 DEF IInv, TodoIsReady, CurIsStarted, UnusedIds, ApplyWrite
  <1> QED
    BY <1>1, <1>3, <1>4 DEF IInv

\* A write that raises may have been stored or not; the handler gives its
\* message back, the loop fails the node it was dispatching or gives up.
LEMMA StoreRaisesKeepsIInv ==
    ASSUME IInv, NEW c \in Coroutines, StoreRaises(c)
    PROVE  IInv'
  <1>. USE DEF config, loopVars, listenVars, jobVars
  <1>1. ConfirmedUcers' = ConfirmedUcers /\ PublishedAfterDependencies' /\ PublishedOnce'
    BY SameEvidence DEF StoreRaises
  <1>2. /\ write[c] \in Graph /\ Consistent(write[c], deps, ConfirmedUcers)
        /\ kv' \in Graph \union {NoGraph}
        /\ kv' # NoGraph => Consistent(kv', deps, ConfirmedUcers)
    BY DEF IInv, TypeOK, GraphsConsistent, StoreRaises, MayBeWritten
  <1>3. CASE c = "loop" /\ pc \in {"syncing", "completing"}
    <2>1. cur \in Nodes /\ graph.status[cur] # "pending" /\ graph' = MarkFailed(graph, cur)
      BY <1>3 DEF IInv, CurIsStarted, StoreRaises
    <2>2. /\ Consistent(graph', deps, ConfirmedUcers)
          /\ graph'.status[cur] = "failed"
          /\ \A m \in Nodes \ {cur} : graph'.status[m] = graph.status[m]
      BY <2>1, FailConsistent DEF IInv, TypeOK, GraphsConsistent
    <2>3. graph' \in Graph
      BY <2>1, GraphOperations DEF IInv, TypeOK
    <2>4. /\ write' = [write EXCEPT !["loop"] = graph'] /\ older' \in Coroutines
          /\ pc' = "failing" /\ todo' = {} /\ cur' = cur
          /\ UNCHANGED <<env, deps, inc, handling, cursor, again, sends, job, stream>>
      BY <1>3 DEF StoreRaises, Coroutines, Other
    <2>5. TypeOK'
      BY <1>2, <2>3, <2>4 DEF IInv, TypeOK, Suspended
    <2>6. GraphsConsistent'
      BY <1>1, <1>2, <2>2, <2>4 DEF IInv, TypeOK, GraphsConsistent
    <2>7. TodoIsReady' /\ CurIsStarted' /\ UnusedIds'
      BY <2>1, <2>2, <2>4 DEF IInv, TodoIsReady, CurIsStarted, UnusedIds
    <2> QED
      BY <1>1, <2>5, <2>6, <2>7 DEF IInv
  <1>4. CASE c = "listener" \/ pc \notin {"syncing", "completing"}
    <2>1. /\ write' = [write EXCEPT ![c] = NoGraph]
          /\ pc' \in {pc, "raised"} /\ handling' \in Nat /\ again' \in SUBSET Nat
          /\ UNCHANGED <<env, deps, graph, cur, todo, inc, cursor, older, sends, job, stream>>
      <3>1. handling \in Nat /\ again \in SUBSET Nat
        BY DEF IInv, TypeOK
      <3>2. CASE c = "listener"
        <4>1. again' = again \union {handling}
          BY <3>2 DEF StoreRaises
        <4>2. again' \in SUBSET Nat
          BY <3>1, <4>1, Zenon
        <4> QED
          BY <3>2, <4>2 DEF StoreRaises
      <3>3. CASE c # "listener"
        BY <1>4, <3>1, <3>3 DEF StoreRaises
      <3> QED
        BY <3>2, <3>3
    <2>2. TypeOK'
      BY <1>2, <2>1 DEF IInv, TypeOK, Stopped
    <2>3. GraphsConsistent'
      BY <1>1, <1>2, <2>1 DEF IInv, TypeOK, GraphsConsistent
    <2>4. TodoIsReady' /\ CurIsStarted' /\ UnusedIds'
      BY <1>1, <2>1 DEF IInv, TodoIsReady, CurIsStarted, UnusedIds
    <2> QED
      BY <1>1, <2>2, <2>3, <2>4 DEF IInv
  <1> QED
    BY <1>3, <1>4 DEF Coroutines

\* A timeout or a crash suspends no node; a recovery continues from a stored,
\* hence consistent graph, and with ids nobody has used.
LEMMA ProcessKeepsIInv ==
    ASSUME IInv, Timeout \/ Crash \/ Recover
    PROVE  IInv'
  <1>. USE DEF config, loopVars, listenVars, storeVars, jobVars
  <1>1. ConfirmedUcers' = ConfirmedUcers /\ PublishedAfterDependencies' /\ PublishedOnce'
    BY SameEvidence DEF Timeout, Crash, Recover
  <1>2. CASE Timeout
    BY <1>1, <1>2 DEF IInv, TypeOK, GraphsConsistent, TodoIsReady, CurIsStarted, UnusedIds,
          Timeout, Stopped
  <1>3. CASE Crash
    BY <1>1, <1>3 DEF IInv, TypeOK, GraphsConsistent, TodoIsReady, CurIsStarted, UnusedIds,
          Crash, Stopped
  <1>4. CASE Recover
    <2>1. /\ graph' = kv /\ kv' = kv /\ kv \in Graph /\ inc' = inc + 1
          /\ Consistent(kv, deps, ConfirmedUcers)
          /\ write' = [c \in Coroutines |-> NoGraph]
      BY <1>4 DEF IInv, TypeOK, GraphsConsistent, Recover
    <2>2. TypeOK'
      <3>1. inc' \in 1 .. MaxIncarnation
        BY <1>4, <2>1, OrchestratorAssumption DEF IInv, TypeOK, UnusedIds, Recover
      <3> QED
        BY <1>4, <2>1, <3>1 DEF IInv, TypeOK, Recover, Suspended, FirstDelivered
    <2>3. GraphsConsistent' /\ TodoIsReady' /\ CurIsStarted'
      BY <1>1, <1>4, <2>1 DEF IInv, GraphsConsistent, TodoIsReady, CurIsStarted, Recover
    <2>4. UnusedIds'
      BY <1>4, <2>1 DEF IInv, TypeOK, UnusedIds, Recover
    <2> QED
      BY <1>1, <2>2, <2>3, <2>4 DEF IInv
  <1> QED
    BY <1>2, <1>3, <1>4

-----------------------------------------------------------------------------
(* The workers, and the whole.                                             *)

WorkerStep == \E u \in Ucers : StepSucceeds(u) \/ StepRaises(u)
                               \/ StepExitsNonzero(u) \/ JobDeliveredAgain(u)

\* A worker changes nothing that the loop knows: it only adds evidence.
LEMMA WorkerKeepsIInv ==
    ASSUME IInv, WorkerStep
    PROVE  IInv'
  <1>. USE DEF config, loopVars, listenVars, storeVars
  <1>1. PICK u \in Ucers : StepSucceeds(u) \/ StepRaises(u)
                           \/ StepExitsNonzero(u) \/ JobDeliveredAgain(u)
    BY DEF WorkerStep
  <1>2. UNCHANGED <<env, deps, graph, pc, cur, todo, inc, handling, cursor, again,
                    kv, write, older, sends>>
    BY <1>1 DEF StepSucceeds, StepRaises, StepExitsNonzero, JobDeliveredAgain
  <1>3. job' \in [Ucers -> 0 .. Aborted]
    <2>1. job \in [Ucers -> 0 .. Aborted] /\ Steps \in Nat
      BY OrchestratorAssumption DEF IInv, TypeOK
    <2>2. CASE StepSucceeds(u)
      <3>1. job[u] \in 0 .. Aborted /\ job[u] < Steps
        BY <2>1, <2>2 DEF StepSucceeds
      <3>2. job[u] + 1 \in 0 .. Aborted
        BY <2>1, <3>1 DEF Aborted
      <3> QED
        BY <2>1, <2>2, <3>2 DEF StepSucceeds
    <2>3. CASE StepRaises(u) \/ StepExitsNonzero(u) \/ JobDeliveredAgain(u)
      <3>1. 0 \in 0 .. Aborted /\ Aborted \in 0 .. Aborted
        BY <2>1 DEF Aborted
      <3>2. job' = [job EXCEPT ![u] = Aborted] \/ job' = [job EXCEPT ![u] = 0]
        BY <2>3 DEF StepRaises, StepExitsNonzero, JobDeliveredAgain
      <3> QED
        BY <2>1, <3>1, <3>2
    <2> QED
      BY <1>1, <2>2, <2>3
  <1>4. stream' = stream \/ \E e \in Event : stream' = Append(stream, e)
    BY <1>1 DEF StepSucceeds, StepRaises, StepExitsNonzero, JobDeliveredAgain, Emit, Event
  <1>5. stream' \in Seq(Event)
    <2>1. stream \in Seq(Event)
      BY DEF IInv, TypeOK
    <2> QED
      BY <1>4, <2>1, AppendProperties
  <1>6. /\ \A v \in Ucers : Confirmed(v) => Confirmed(v)'
        /\ ConfirmedUcers \subseteq ConfirmedUcers'
    BY <1>2, <1>4, MoreEvidence DEF IInv
  <1>7. TypeOK'
    BY <1>2, <1>3, <1>5 DEF IInv, TypeOK
  <1>8. GraphsConsistent'
    BY <1>2, <1>6, GraphsStayConsistent DEF IInv
  <1>9. TodoIsReady'
    BY <1>2, <1>6 DEF IInv, TodoIsReady
  <1>10. CurIsStarted' /\ UnusedIds' /\ PublishedOnce'
    BY <1>2 DEF IInv, CurIsStarted, UnusedIds, PublishedOnce
  <1>11. PublishedAfterDependencies'
    <2>1. \A d \in Nodes : NodeConfirmed(d) => NodeConfirmed(d)'
      BY <1>6, OrchestratorAssumption DEF NodeConfirmed
    <2> QED
      BY <1>2, <2>1 DEF IInv, PublishedAfterDependencies, KnownDeps
  <1> QED
    BY <1>7, <1>8, <1>9, <1>10, <1>11 DEF IInv

\* The invariant holds initially: nothing is started, nothing published.
LEMMA InitIInv ==
    ASSUME Init
    PROVE  IInv
  <1>1. TypeOK
    <2>1. graph \in Graph /\ stream \in Seq(Event)
      BY PlannedConsistent, EmptySeq DEF Init
    <2>2. env \in Environment /\ deps \in [Nodes -> SUBSET NodeIds]
      BY OrchestratorAssumption DEF Init
    <2>3. /\ sends \in [Ucers -> 0 .. 2] /\ job \in [Ucers -> 0 .. Aborted]
          /\ inc \in 1 .. MaxIncarnation
      BY OrchestratorAssumption DEF Init, Aborted
    <2>4. /\ write \in [Coroutines -> Graph \union {NoGraph}]
          /\ kv \in Graph \union {NoGraph} /\ older \in Coroutines
      BY DEF Init, Coroutines
    <2> QED
      BY <2>1, <2>2, <2>3, <2>4 DEF Init, TypeOK, Suspended, FirstDelivered
  <1>2. GraphsConsistent
    BY PlannedConsistent DEF Init, GraphsConsistent
  <1>3. TodoIsReady /\ CurIsStarted
    BY DEF Init, TodoIsReady, CurIsStarted
  <1>4. \A n \in Nodes, i \in 1 .. MaxIncarnation : sends[<<n, i>>] = 0
    BY OrchestratorAssumption DEF Init
  <1>5. UnusedIds /\ PublishedAfterDependencies
    BY <1>4 DEF Init, UnusedIds, PublishedAfterDependencies
  <1>6. PublishedOnce
    BY DEF Init, PublishedOnce
  <1> QED
    BY <1>1, <1>2, <1>3, <1>5, <1>6 DEF IInv

\* A step that changes no variable keeps the invariant.
LEMMA StutterKeepsIInv ==
    ASSUME IInv, UNCHANGED vars
    PROVE  IInv'
  <1>. USE DEF vars, config, loopVars, listenVars, storeVars, jobVars
  <1>1. ConfirmedUcers' = ConfirmedUcers /\ PublishedAfterDependencies' /\ PublishedOnce'
    BY SameEvidence
  <1>2. TypeOK' /\ GraphsConsistent' /\ TodoIsReady' /\ CurIsStarted' /\ UnusedIds'
    BY <1>1 DEF IInv, TypeOK, GraphsConsistent, TodoIsReady, CurIsStarted, UnusedIds
  <1> QED
    BY <1>1, <1>2 DEF IInv

\* Every step of the system keeps the invariant.
LEMMA NextKeepsIInv ==
    ASSUME IInv, [Next]_vars
    PROVE  IInv'
  <1>1. CASE ExecuteGraph
    BY <1>1, ExecuteGraphKeepsIInv
  <1>2. CASE DispatchRaises
    BY <1>2, DispatchRaisesKeepsIInv
  <1>3. CASE Timeout \/ Crash \/ Recover
    BY <1>3, ProcessKeepsIInv
  <1>4. CASE \E i \in DOMAIN stream : OnJobEvent(i)
    BY <1>4, OnJobEventKeepsIInv
  <1>5. CASE EventHandled
    BY <1>5, EventHandledKeepsIInv
  <1>6. CASE \E c \in Coroutines : ApplyWrite(c) \/ StoreRaises(c)
    BY <1>6, ApplyWriteKeepsIInv, StoreRaisesKeepsIInv
  <1>7. CASE WorkerStep
    BY <1>7, WorkerKeepsIInv
  <1>8. CASE UNCHANGED vars
    BY <1>8, StutterKeepsIInv
  <1> QED
    BY <1>1, <1>2, <1>3, <1>4, <1>5, <1>6, <1>7, <1>8 DEF Next, WorkerStep

-----------------------------------------------------------------------------
(* The results.                                                            *)

\* The invariant of the orchestrator, of which the safety properties are
\* parts or consequences.
THEOREM Invariance == Spec => []IInv
  <1>1. Init => IInv
    BY InitIInv
  <1>2. IInv /\ [Next]_vars => IInv'
    BY NextKeepsIInv
  <1> QED
    BY <1>1, <1>2, PTL DEF Spec

\* Every variable holds a value of its type, in every reachable state.
THEOREM TypeCorrect == Spec => []TypeOK
  <1>1. IInv => TypeOK
    BY DEF IInv
  <1> QED
    BY <1>1, Invariance, PTL

\* execute_graph never publishes a job whose dependencies are unconfirmed,
\* whatever crashes, repeats or comes late.
THEOREM Sequencing == Spec => []PublishedAfterDependencies
  <1>1. IInv => PublishedAfterDependencies
    BY DEF IInv
  <1> QED
    BY <1>1, Invariance, PTL

\* A completed node, in memory or in the store, had its job confirmed.
THEOREM CompletionIsConfirmed == Spec => []CompletedWasConfirmed
  <1>1. IInv => CompletedWasConfirmed
    BY DEF IInv, GraphsConsistent, Consistent, CompletedWasConfirmed, ConfirmedUcers
  <1> QED
    BY <1>1, Invariance, PTL

\* No process publishes a node twice.
THEOREM NoDoublePublication == Spec => []PublishedOnce
  <1>1. IInv => PublishedOnce
    BY DEF IInv
  <1> QED
    BY <1>1, Invariance, PTL

-----------------------------------------------------------------------------
(* The end of a batch.                                                     *)

\* The `break` after a failed node: the rest of the list is dropped.
ListDropped == pc = "failing" => todo = {}

\* Whoever fails a node drops the list.
LEMMA ListStaysDropped ==
    ASSUME ListDropped, [Next]_vars
    PROVE  ListDropped'
  <1>. USE DEF ListDropped, vars, config, loopVars, listenVars, storeVars, jobVars
  <1>1. CASE EnterLoop \/ GoOn
    <2>1. \E list : Continue(graph, list)
      BY <1>1 DEF EnterLoop, GoOn
    <2> QED
      BY <2>1 DEF Continue, DispatchFirst, FailNode
  <1>2. CASE Begin \/ Subscribe \/ Publish \/ Published \/ CompleteUnreported \/ DispatchRaises
    BY <1>2 DEF Begin, Subscribe, Publish, Published, CompleteUnreported, DispatchRaises, FailNode
  <1>3. CASE Timeout \/ Crash \/ Recover \/ EventHandled
    BY <1>3 DEF Timeout, Crash, Recover, EventHandled, Notify
  <1>4. CASE \E i \in DOMAIN stream : OnJobEvent(i)
    BY <1>4 DEF OnJobEvent
  <1>5. CASE \E c \in Coroutines : ApplyWrite(c) \/ StoreRaises(c)
    BY <1>5 DEF ApplyWrite, StoreRaises
  <1>6. CASE WorkerStep \/ UNCHANGED vars
    BY <1>6 DEF WorkerStep, StepSucceeds, StepRaises, StepExitsNonzero, JobDeliveredAgain
  <1> QED
    BY <1>1, <1>2, <1>3, <1>4, <1>5, <1>6 DEF Next, ExecuteGraph, WorkerStep

\* While the checkpoint of a failed node is written, and when it is, no
\* pending node is started.
LEMMA NothingStartsAfterFailure ==
    ASSUME IInv, ListDropped, [Next]_vars, pc = "failing", HasFailed(graph),
           NEW n \in Nodes, graph.status[n] = "pending"
    PROVE  graph'.status[n] = "pending"
  <1>. USE DEF vars, config, loopVars, listenVars, storeVars, jobVars
  <1>1. CASE GoOn
    <2>1. Continue(graph, {})
      BY <1>1 DEF GoOn, ListDropped
    <2> QED
      BY <2>1 DEF Continue
  <1>2. CASE \E i \in DOMAIN stream : OnJobEvent(i)
    <2>1. PICK i \in DOMAIN stream : OnJobEvent(i)
      BY <1>2
    <2>2. stream[i].ucer \in Ucers
      <3>1. stream \in Seq(Event)
        BY DEF IInv, TypeOK
      <3>2. stream[i] \in Event
        BY <3>1
      <3> QED
        BY <3>2 DEF Event
    <2>3. graph.ucer[n] = NoUcer /\ graph \in Graph
      BY DEF IInv, TypeOK, GraphsConsistent, Consistent
    <2>4. CASE graph' = graph
      BY <2>4
    <2>5. ASSUME NEW m \in NodesOf(stream[i].ucer), MarkNode(m, stream[i])
          PROVE  graph'.status[n] = "pending"
      <3>1. m \in Nodes /\ m # n
        BY <2>2, <2>3, DagAssumption DEF NodesOf
      <3> QED
        BY <2>3, <2>5, <3>1 DEF MarkNode, MarkCompleted, MarkFailed, Graph
    <2> QED
      BY <2>1, <2>4, <2>5 DEF OnJobEvent
  <1>3. CASE \E c \in Coroutines : ApplyWrite(c) \/ StoreRaises(c)
    BY <1>3 DEF ApplyWrite, StoreRaises
  <1>4. CASE EventHandled \/ Crash
    BY <1>4 DEF EventHandled, Crash
  <1>5. CASE WorkerStep \/ UNCHANGED vars
    BY <1>5 DEF WorkerStep, StepSucceeds, StepRaises, StepExitsNonzero, JobDeliveredAgain
  <1>6. \/ GoOn \/ \E i \in DOMAIN stream : OnJobEvent(i)
        \/ \E c \in Coroutines : ApplyWrite(c) \/ StoreRaises(c)
        \/ EventHandled \/ Crash \/ WorkerStep \/ UNCHANGED vars
    BY DEF Next, ExecuteGraph, WorkerStep, Begin, Subscribe, EnterLoop, Publish, Published,
           CompleteUnreported, DispatchRaises, Timeout, Recover
  <1> QED
    BY <1>1, <1>2, <1>3, <1>4, <1>5, <1>6

\* execute_graph leaves its loop over the ready nodes at the first node that
\* it cannot compile or dispatch, and the events that come in meanwhile start
\* none.
THEOREM BatchEndsAtFailure == Spec => FailureEndsBatch
  <1>1. Init => ListDropped
    BY DEF Init, ListDropped
  <1>2. ListDropped /\ [Next]_vars => ListDropped'
    BY ListStaysDropped
  <1>3. IInv /\ ListDropped /\ [Next]_vars =>
          [pc = "failing" /\ HasFailed(graph) =>
             \A n \in Nodes : graph.status[n] = "pending" => graph'.status[n] = "pending"]_vars
    BY NothingStartsAfterFailure
  <1> QED
    BY <1>1, <1>2, <1>3, Invariance, PTL DEF Spec, FailureEndsBatch

-----------------------------------------------------------------------------
(* The checkpoint.                                                         *)

\* The checkpoint that was made last: a write under way, or the value stored.
Newest ==
    IF write[Other(older)] # NoGraph THEN write[Other(older)]
    ELSE IF write[older] # NoGraph THEN write[older] ELSE kv

\* Where the orchestrator is when what it did is not in a checkpoint yet: it
\* has made none, a node is being dispatched, or the process is no more.
Ahead == pc \in {"begin", "dispatch", "acking", "crashed"}

\* While the store keeps the order and does not fail, the newest checkpoint
\* is the graph in memory.
NewestIsCurrent == env.ordered /\ ~May("store") /\ ~Ahead => Newest = graph

\* Whoever makes a checkpoint has made the newest one.
LEMMA SyncIsNewest ==
    ASSUME TypeOK, NEW c \in Coroutines, NEW g \in Graph, SyncGraphState(c, g)
    PROVE  Newest' = g
  <1>1. write' = [write EXCEPT ![c] = g] /\ write \in [Coroutines -> Graph \union {NoGraph}]
    BY DEF SyncGraphState, TypeOK
  <1>2. g # NoGraph /\ Other(c) \in Coroutines \ {c} /\ Other(Other(c)) = c
    BY OrchestratorAssumption DEF Other, Coroutines
  <1>3. write'[c] = g /\ write'[Other(c)] = write[Other(c)]
    BY <1>1, <1>2
  <1>4. CASE write[Other(c)] = NoGraph
    <2>1. older' = c
      BY <1>4 DEF SyncGraphState
    <2> QED
      BY <1>2, <1>3, <1>4, <2>1 DEF Newest, Other, Coroutines
  <1>5. CASE write[Other(c)] # NoGraph
    <2>1. older' = Other(c)
      BY <1>5 DEF SyncGraphState
    <2> QED
      BY <1>2, <1>3, <2>1 DEF Newest, Other, Coroutines
  <1> QED
    BY <1>4, <1>5

\* A store that keeps the order writes the older checkpoint first.
LEMMA WriteKeepsNewest ==
    ASSUME TypeOK, NEW c \in Coroutines, env.ordered, ApplyWrite(c)
    PROVE  Newest' = Newest
  <1>1. /\ write[c] # NoGraph /\ (write[Other(c)] # NoGraph => older = c)
        /\ kv' = write[c] /\ older' = older
        /\ write' = [write EXCEPT ![c] = NoGraph]
        /\ write \in [Coroutines -> Graph \union {NoGraph}] /\ older \in Coroutines
    BY DEF ApplyWrite, MayBeWritten, TypeOK
  <1>2. /\ Other(c) \in Coroutines \ {c}
        /\ write'[c] = NoGraph /\ write'[Other(c)] = write[Other(c)]
    BY <1>1 DEF Other, Coroutines
  <1>3. CASE older = c
    BY <1>1, <1>2, <1>3 DEF Newest
  <1>4. CASE older # c
    <2>1. older = Other(c) /\ Other(older) = c
      BY <1>1, <1>4 DEF Other, Coroutines
    <2> QED
      BY <1>1, <1>2, <1>4, <2>1 DEF Newest
  <1> QED
    BY <1>3, <1>4

\* Where the loop goes on, it makes a checkpoint or starts a node, or what it
\* has in memory stays as it is.
LEMMA ContinueKeepsNewest ==
    ASSUME IInv, NewestIsCurrent, NEW list \in {todo, {}}, ~Ahead, UNCHANGED config, Continue(graph, list)
    PROVE  NewestIsCurrent'
  <1>1. CASE pc' = "dispatch"
    BY <1>1 DEF NewestIsCurrent, Ahead
  <1>2. ASSUME NEW n \in Nodes, FailNode(graph, n)
        PROVE  NewestIsCurrent'
    <2>1. graph' = MarkFailed(graph, n) /\ SyncGraphState("loop", graph')
      BY <1>2 DEF FailNode
    <2>2. graph' \in Graph
      BY <2>1, GraphOperations DEF IInv, TypeOK
    <2> QED
      BY <2>1, <2>2, SyncIsNewest DEF IInv, Coroutines, NewestIsCurrent
  <1>3. CASE graph' = graph /\ NoSync
    BY <1>3 DEF NewestIsCurrent, Newest, NoSync, storeVars, config, May
  <1>4. todo \subseteq Nodes /\ GetReadyNodes(graph, deps) \subseteq Nodes
    BY DEF IInv, TypeOK, GetReadyNodes
  <1> QED
    BY <1>1, <1>2, <1>3, <1>4 DEF Continue, DispatchFirst

\* A checkpoint of the graph in memory is current.
LEMMA SyncIsCurrent ==
    ASSUME IInv, NEW c \in Coroutines, graph' \in Graph, SyncGraphState(c, graph')
    PROVE  NewestIsCurrent'
  BY SyncIsNewest DEF IInv, NewestIsCurrent

\* Every step keeps the newest checkpoint current.
LEMMA NewestStaysCurrent ==
    ASSUME IInv, NewestIsCurrent, [Next]_vars
    PROVE  NewestIsCurrent'
  <1>. USE DEF config, loopVars, listenVars, storeVars, jobVars
  <1>1. TypeOK /\ IInv'
    BY NextKeepsIInv DEF IInv
  <1>2. graph \in Graph /\ graph' \in Graph
    BY <1>1 DEF IInv, TypeOK
  <1>3. CASE Begin \/ Published
    <2>1. SyncGraphState("loop", graph') /\ "loop" \in Coroutines
      BY <1>3 DEF Begin, Published, Coroutines
    <2> QED
      BY <1>2, <2>1, SyncIsCurrent
  <1>4. CASE DispatchRaises \/ CompleteUnreported
    <2>1. SyncGraphState("loop", graph') /\ "loop" \in Coroutines
      BY <1>4 DEF DispatchRaises, FailNode, CompleteUnreported, Coroutines
    <2> QED
      BY <1>2, <2>1, SyncIsCurrent
  <1>5. CASE EnterLoop \/ GoOn
    <2>1. ~Ahead /\ UNCHANGED config /\ \E list \in {todo, {}} : Continue(graph, list)
      BY <1>5 DEF EnterLoop, GoOn, Ahead
    <2> QED
      BY <2>1, ContinueKeepsNewest
  <1>6. CASE Publish \/ Crash \/ Recover
    BY <1>6 DEF Publish, Crash, Recover, NewestIsCurrent, Ahead
  <1>7. CASE Subscribe \/ Timeout \/ EventHandled
    <2>1. /\ UNCHANGED <<env, graph, kv, write, older>>
          /\ Ahead' <=> Ahead
      BY <1>7 DEF Subscribe, Timeout, EventHandled, Notify, Ahead
    <2> QED
      BY <2>1 DEF NewestIsCurrent, Newest, May
  <1>8. CASE \E i \in DOMAIN stream : OnJobEvent(i)
    <2>1. CASE SyncGraphState("listener", graph')
      BY <1>2, <2>1, SyncIsCurrent DEF Coroutines
    <2>2. CASE UNCHANGED <<env, pc, graph, kv, write, older>>
      BY <2>2 DEF NewestIsCurrent, Newest, Ahead, May
    <2> QED
      BY <1>8, <2>1, <2>2 DEF OnJobEvent
  <1>9. CASE \E c \in Coroutines : ApplyWrite(c)
    <2>1. UNCHANGED <<env, pc, graph>>
      BY <1>9 DEF ApplyWrite
    <2>2. env.ordered => Newest' = Newest
      BY <1>1, <1>9, WriteKeepsNewest
    <2> QED
      BY <2>1, <2>2 DEF NewestIsCurrent, Ahead, May
  <1>10. CASE \E c \in Coroutines : StoreRaises(c)
    BY <1>10 DEF StoreRaises, NewestIsCurrent, May
  <1>11. CASE WorkerStep \/ UNCHANGED vars
    <2>1. UNCHANGED <<env, pc, graph, kv, write, older>>
      BY <1>11 DEF WorkerStep, StepSucceeds, StepRaises, StepExitsNonzero, JobDeliveredAgain, vars
    <2> QED
      BY <2>1 DEF NewestIsCurrent, Newest, Ahead, May
  <1> QED
    BY <1>3, <1>4, <1>5, <1>6, <1>7, <1>8, <1>9, <1>10, <1>11 DEF Next, ExecuteGraph, WorkerStep

\* When the loop waits or has returned, no event is being handled and every
\* checkpoint is written, a recovery would find the graph that is in memory.
THEOREM CheckpointStaysCurrent == Spec => []CheckpointIsCurrent
  <1>1. Init => NewestIsCurrent
    BY DEF Init, NewestIsCurrent, Ahead
  <1>2. IInv /\ NewestIsCurrent /\ [Next]_vars => NewestIsCurrent'
    BY NewestStaysCurrent
  <1>3. IInv /\ NewestIsCurrent => CheckpointIsCurrent
    <2>1. older \in Coroutines => Other(older) \in Coroutines
      BY DEF Other, Coroutines
    <2> QED
      BY <2>1 DEF CheckpointIsCurrent, Quiet, Synced, NewestIsCurrent, Newest, Ahead, IInv, TypeOK
  <1> QED
    BY <1>1, <1>2, <1>3, Invariance, PTL DEF Spec

-----------------------------------------------------------------------------
(* The wakeup.                                                             *)

\* The i-th event of the stream is about a node of the graph.
About(i) == i \in DOMAIN stream /\ NodesOf(stream[i].ucer) # {}

HandledIsAbout == handling # 0 => About(handling)

NothingToDo == GetReadyNodes(graph, deps) = {} /\ ~IsComplete(graph) /\ ~HasFailed(graph)

\* While the loop waits there is nothing for it to do, or an event is being
\* handled or will be handled again, and whoever handles it wakes the loop up.
NoLostWakeup ==
    pc = "wait" /\ handling = 0 => NothingToDo \/ \E i \in again : About(i)

\* A process that died handles no event.
DeadHandlesNothing == pc = "crashed" => handling = 0

Wakeful == HandledIsAbout /\ NoLostWakeup /\ DeadHandlesNothing

\* What an event is about stays in the graph: nodes are given ids once, and
\* the stream only grows.
LEMMA AboutStays ==
    ASSUME \A n \in Nodes : graph.ucer[n] # NoUcer => graph'.ucer[n] = graph.ucer[n],
           stream \in Seq(Event), stream' = stream \/ \E e \in Event : stream' = Append(stream, e)
    PROVE  \A i : About(i) => About(i)'
  <1> SUFFICES ASSUME NEW i, About(i) PROVE About(i)'
    OBVIOUS
  <1>1. i \in DOMAIN stream' /\ stream'[i] = stream[i] /\ stream[i] \in Event
    <2>1. i \in DOMAIN stream
      BY DEF About
    <2>2. CASE stream' = stream
      BY <2>1, <2>2
    <2>3. CASE \E e \in Event : stream' = Append(stream, e)
      <3>1. PICK e \in Event : stream' = Append(stream, e)
        BY <2>3
      <3>2. /\ i \in 1 .. Len(stream) /\ DOMAIN stream' = 1 .. Len(stream) + 1
            /\ \A j \in 1 .. Len(stream) : stream'[j] = stream[j]
            /\ Len(stream) \in Nat
        BY <2>1, <3>1, AppendProperties, LenProperties
      <3> QED
        BY <2>1, <3>2
    <2> QED
      BY <2>2, <2>3
  <1>2. PICK n \in Nodes : graph.ucer[n] = stream[i].ucer
    BY DEF About, NodesOf
  <1>3. graph.ucer[n] # NoUcer
    BY <1>1, <1>2, DagAssumption DEF Event
  <1>4. graph'.ucer[n] = stream'[i].ucer
    BY <1>1, <1>2, <1>3
  <1> QED
    BY <1>1, <1>4 DEF About, NodesOf

\* No step but a recovery takes an id from a node.
LEMMA IdsStay ==
    ASSUME IInv, [Next]_vars, ~Recover
    PROVE  \A n \in Nodes : graph.ucer[n] # NoUcer => graph'.ucer[n] = graph.ucer[n]
  <1>. USE DEF config, loopVars, listenVars, storeVars, jobVars
  <1>1. /\ graph \in Graph /\ Consistent(graph, deps, ConfirmedUcers) /\ TypeOK
        /\ graph.ucer \in [Nodes -> Ucers \union {NoUcer}]
    BY DEF IInv, TypeOK, GraphsConsistent, Graph
  <1>2. ASSUME NEW n \in Nodes PROVE MarkFailed(graph, n).ucer = graph.ucer
    BY <1>1 DEF MarkFailed, Graph
  <1>3. ASSUME NEW n \in Nodes, NEW u, graph.ucer[n] \in {u, NoUcer}
        PROVE  \A g : g \in {MarkCompleted(graph, n, u), Start(graph, n, u)} =>
                  \A m \in Nodes : graph.ucer[m] # NoUcer => g.ucer[m] = graph.ucer[m]
    BY <1>1, <1>3 DEF MarkCompleted, Start, Graph
  <1>4. ASSUME NEW list \in SUBSET Nodes, \A n \in list : graph.status[n] = "pending",
               DispatchFirst(graph, list)
        PROVE  \A m \in Nodes : graph.ucer[m] # NoUcer => graph'.ucer[m] = graph.ucer[m]
    <2>1. PICK n \in list : graph' = Start(graph, n, <<n, inc>>) \/ graph' = MarkFailed(graph, n)
      BY <1>4 DEF DispatchFirst, FailNode
    <2>2. graph.ucer[n] = NoUcer
      BY <1>1, <1>4 DEF Consistent
    <2> QED
      BY <1>2, <1>3, <2>1, <2>2
  <1>5. CASE EnterLoop \/ GoOn
    <2>1. PICK list \in {todo, {}} : Continue(graph, list)
      BY <1>5 DEF EnterLoop, GoOn
    <2>2. /\ list \in SUBSET Nodes /\ \A n \in list : graph.status[n] = "pending"
          /\ GetReadyNodes(graph, deps) \in SUBSET Nodes
          /\ \A n \in GetReadyNodes(graph, deps) : graph.status[n] = "pending"
      BY <1>1 DEF IInv, TypeOK, TodoIsReady, GetReadyNodes
    <2>3. CASE graph' = graph
      BY <2>3
    <2> QED
      BY <1>4, <2>1, <2>2, <2>3 DEF Continue
  <1>6. CASE CompleteUnreported
    <2>1. cur \in Nodes /\ graph.ucer[cur] = <<cur, inc>>
          /\ graph' = MarkCompleted(graph, cur, <<cur, inc>>)
      BY <1>6 DEF CompleteUnreported, IInv, CurIsStarted
    <2> QED
      BY <1>3, <2>1
  <1>7. ASSUME NEW c \in Coroutines, DispatchRaises \/ StoreRaises(c)
        PROVE  \A m \in Nodes : graph.ucer[m] # NoUcer => graph'.ucer[m] = graph.ucer[m]
    <2>1. pc \in {"dispatch", "acking", "syncing", "completing"} => cur \in Nodes
      BY DEF IInv, CurIsStarted
    <2>2. CASE DispatchRaises
      <3>1. cur \in Nodes /\ graph' = MarkFailed(graph, cur)
        BY <2>1, <2>2 DEF DispatchRaises, FailNode
      <3> QED
        BY <1>2, <3>1
    <2>3. CASE StoreRaises(c)
      <3>1. \/ graph' = graph
            \/ pc \in {"syncing", "completing"} /\ graph' = MarkFailed(graph, cur)
        BY <2>3, Zenon DEF StoreRaises
      <3> QED
        BY <1>2, <2>1, <3>1
    <2> QED
      BY <1>7, <2>2, <2>3
  <1>8. CASE \E i \in DOMAIN stream : OnJobEvent(i)
    <2>1. PICK i \in DOMAIN stream : OnJobEvent(i)
      BY <1>8
    <2>2. CASE graph' = graph
      BY <2>2
    <2>3. CASE \E n \in NodesOf(stream[i].ucer) : MarkNode(n, stream[i])
      <3>1. PICK n \in Nodes : graph.ucer[n] = stream[i].ucer /\ MarkNode(n, stream[i])
        BY <2>3 DEF NodesOf
      <3> QED
        BY <1>2, <1>3, <3>1 DEF MarkNode
    <2> QED
      BY <2>1, <2>2, <2>3 DEF OnJobEvent
  <1>9. CASE graph' = graph
    BY <1>9
  <1>10. CASE \/ Begin \/ Subscribe \/ Publish \/ Published \/ Timeout \/ EventHandled \/ Crash
              \/ \E c \in Coroutines : ApplyWrite(c)
              \/ WorkerStep \/ UNCHANGED vars
    BY <1>9, <1>10 DEF Begin, Subscribe, Publish, Published, Timeout, EventHandled, Crash, ApplyWrite,
       WorkerStep, StepSucceeds, StepRaises, StepExitsNonzero, JobDeliveredAgain, vars
  <1> QED
    BY <1>5, <1>6, <1>7, <1>8, <1>10 DEF Next, ExecuteGraph, WorkerStep, Coroutines

\* A step that leaves graph and loop alone, and takes no event away that will
\* be handled again, loses no wakeup.
LEMMA SleepGoesOn ==
    ASSUME NoLostWakeup, UNCHANGED <<deps, graph, pc>>, handling' = handling,
           \A i \in again : About(i) => i \in again' /\ About(i)'
    PROVE  NoLostWakeup'
  <1>1. NothingToDo => NothingToDo'
    BY DEF NothingToDo, GetReadyNodes, KnownDeps, IsComplete, HasFailed
  <1> QED
    BY <1>1 DEF NoLostWakeup

\* The handler of an event, and what a store that fails under it leaves behind.
LEMMA ListenerStaysWakeful ==
    ASSUME TypeOK, Wakeful, \A i : About(i) => About(i)',
           \/ \E i \in DOMAIN stream : OnJobEvent(i)
           \/ EventHandled
           \/ StoreRaises("listener")
    PROVE  Wakeful'
  <1>. USE DEF config, loopVars, jobVars, storeVars
  <1>1. CASE \E i \in DOMAIN stream : OnJobEvent(i)
    <2>1. PICK i \in DOMAIN stream : OnJobEvent(i)
      BY <1>1
    <2>2. i # 0 /\ handling = 0 /\ pc # "crashed" /\ UNCHANGED <<deps, pc, stream>>
          /\ again' = again \ {i}
      <3>1. i \in 1 .. Len(stream) /\ Len(stream) \in Nat
        BY LenProperties DEF TypeOK
      <3> QED
        BY <2>1, <3>1 DEF OnJobEvent, Subscribed
    <2>3. CASE \E n \in NodesOf(stream[i].ucer) : handling' = i
      <3>1. About(i)
        BY <2>3 DEF About
      <3> QED
        BY <2>2, <2>3, <3>1 DEF Wakeful, HandledIsAbout, NoLostWakeup, DeadHandlesNothing
    <2>4. CASE NodesOf(stream[i].ucer) = {} /\ UNCHANGED <<graph, handling>>
      <3>1. NoLostWakeup'
        <4>1. \A k \in again : About(k) => k # i
          BY <2>4 DEF About
        <4> QED
          BY <2>2, <2>4, <4>1, SleepGoesOn DEF Wakeful
      <3> QED
        BY <2>2, <2>4, <3>1 DEF Wakeful, HandledIsAbout, DeadHandlesNothing
    <2> QED
      BY <2>1, <2>3, <2>4 DEF OnJobEvent
  <1>2. CASE EventHandled
    <2>1. handling' = 0 /\ pc' # "wait"
      BY <1>2 DEF EventHandled, Notify
    <2> QED
      BY <2>1 DEF Wakeful, HandledIsAbout, NoLostWakeup, DeadHandlesNothing
  <1>3. CASE StoreRaises("listener")
    <2>1. /\ handling' = 0 /\ again' = again \union {handling}
          /\ UNCHANGED <<deps, graph, pc>>
      BY <1>3 DEF StoreRaises
    <2>2. HandledIsAbout' /\ DeadHandlesNothing'
      BY <2>1 DEF HandledIsAbout, DeadHandlesNothing
    <2>3. CASE handling = 0
      BY <2>1, <2>2, <2>3, SleepGoesOn DEF Wakeful
    <2>4. CASE handling # 0
      <3>1. About(handling) /\ handling \in again'
        BY <2>1, <2>4 DEF Wakeful, HandledIsAbout
      <3>2. PICK h : h = handling
        OBVIOUS
      <3>3. \E i \in again' : About(i)'
        BY <3>1, <3>2
      <3> QED
        BY <2>2, <3>3 DEF Wakeful, NoLostWakeup
    <2> QED
      BY <2>3, <2>4
  <1> QED
    BY <1>1, <1>2, <1>3

\* Every step keeps the loop wakeful.
LEMMA StaysWakeful ==
    ASSUME IInv, Wakeful, [Next]_vars
    PROVE  Wakeful'
  <1>. USE DEF config, loopVars, listenVars, storeVars, jobVars
  <1>1. CASE Recover
    <2>1. handling' = 0 /\ pc' = "begin"
      BY <1>1 DEF Recover, Wakeful, DeadHandlesNothing
    <2> QED
      BY <2>1 DEF Wakeful, HandledIsAbout, NoLostWakeup, DeadHandlesNothing
  <1>2. CASE ~Recover
    <2>1. stream \in Seq(Event) /\ (stream' = stream \/ \E e \in Event : stream' = Append(stream, e))
      <3>1. stream \in Seq(Event) /\ stream' \in Seq(Event)
        BY NextKeepsIInv DEF IInv, TypeOK
      <3>2. ASSUME NEW u \in Ucers, StepSucceeds(u) \/ StepRaises(u)
            PROVE  stream' = stream \/ \E e \in Event : stream' = Append(stream, e)
        <4>1. [ucer |-> u, success |-> TRUE] \in Event /\ [ucer |-> u, success |-> FALSE] \in Event
          BY DEF Event
        <4> QED
          BY <3>2, <4>1 DEF StepSucceeds, StepRaises, Emit
      <3>3. ASSUME ExecuteGraph \/ DispatchRaises \/ Timeout PROVE stream' = stream
        BY <3>3 DEF ExecuteGraph, Begin, Subscribe, EnterLoop, Publish, Published,
           CompleteUnreported, GoOn, DispatchRaises, Timeout
      <3>4. ASSUME \/ \E i \in DOMAIN stream : OnJobEvent(i)
                   \/ EventHandled \/ Crash
                   \/ \E c \in Coroutines : ApplyWrite(c) \/ StoreRaises(c)
            PROVE  stream' = stream
        BY <3>4 DEF OnJobEvent, EventHandled, Crash, ApplyWrite, StoreRaises
      <3>5. ASSUME (\E u \in Ucers : StepExitsNonzero(u) \/ JobDeliveredAgain(u)) \/ UNCHANGED vars
            PROVE  stream' = stream
        BY <3>5 DEF StepExitsNonzero, JobDeliveredAgain, vars
      <3> QED
        BY <1>2, <3>1, <3>2, <3>3, <3>4, <3>5 DEF Next
    <2>2. \A i : About(i) => About(i)'
      BY <1>2, <2>1, IdsStay, AboutStays
    <2>3. CASE (\E i \in DOMAIN stream : OnJobEvent(i)) \/ EventHandled \/ StoreRaises("listener")
      BY <2>2, <2>3, ListenerStaysWakeful DEF IInv
    <2>4. CASE Crash
      <3>1. handling' = 0 /\ pc' = "crashed"
        BY <2>4 DEF Crash
      <3> QED
        BY <3>1 DEF Wakeful, HandledIsAbout, NoLostWakeup, DeadHandlesNothing
    <2>5. CASE \/ ExecuteGraph \/ DispatchRaises \/ Timeout \/ StoreRaises("loop")
               \/ \E c \in Coroutines : ApplyWrite(c)
               \/ WorkerStep \/ UNCHANGED vars
      <3>1. UNCHANGED <<handling, again, deps>>
        BY <2>5 DEF ExecuteGraph, Begin, Subscribe, EnterLoop, Publish, Published,
           CompleteUnreported, GoOn, DispatchRaises, Timeout, ApplyWrite, StoreRaises,
           WorkerStep, StepSucceeds, StepRaises, StepExitsNonzero, JobDeliveredAgain, vars
      <3>2. /\ HandledIsAbout'
            /\ pc' # "crashed" \/ pc' = pc => DeadHandlesNothing'
        BY <2>2, <3>1 DEF Wakeful, HandledIsAbout, DeadHandlesNothing
      <3>3. CASE UNCHANGED <<graph, pc>>
        BY <2>2, <3>1, <3>2, <3>3, SleepGoesOn DEF Wakeful
      <3>4. CASE pc' \notin {"wait", "crashed"}
        BY <3>2, <3>4 DEF Wakeful, NoLostWakeup
      <3>5. CASE EnterLoop \/ GoOn
        <4>1. PICK list \in {todo, {}} : Continue(graph, list)
          BY <3>5 DEF EnterLoop, GoOn
        <4>2. CASE pc' \in {"dispatch", "failing"}
          BY <3>4, <4>2
        <4>3. CASE /\ pc' = IF IsComplete(graph) \/ HasFailed(graph) THEN "returned" ELSE "wait"
                   /\ pc' = "wait" => GetReadyNodes(graph, deps) = {}
                   /\ graph' = graph
          <5>1. pc' = "wait" => NothingToDo'
            BY <3>1, <4>3 DEF NothingToDo, GetReadyNodes, KnownDeps, IsComplete, HasFailed
          <5>2. pc' # "crashed"
            BY <4>3
          <5> QED
            BY <3>2, <5>1, <5>2 DEF Wakeful, NoLostWakeup
        <4> QED
          BY <4>1, <4>2, <4>3 DEF Continue, DispatchFirst, FailNode
      <3>6. CASE Begin \/ Subscribe \/ Publish \/ Published \/ CompleteUnreported
                 \/ DispatchRaises \/ Timeout \/ StoreRaises("loop")
        <4>1. pc' \notin {"wait", "crashed"}
          BY <3>6 DEF Begin, Subscribe, Publish, Published, CompleteUnreported, DispatchRaises,
             FailNode, Timeout, StoreRaises
        <4> QED
          BY <3>4, <4>1
      <3>7. CASE (\E c \in Coroutines : ApplyWrite(c)) \/ WorkerStep \/ UNCHANGED vars
        BY <3>3, <3>7 DEF ApplyWrite, WorkerStep, StepSucceeds, StepRaises, StepExitsNonzero,
           JobDeliveredAgain, vars
      <3> QED
        BY <2>5, <3>5, <3>6, <3>7 DEF ExecuteGraph
    <2> QED
      BY <1>2, <2>3, <2>4, <2>5 DEF Next, WorkerStep, Coroutines
  <1> QED
    BY <1>1, <1>2

\* The wait on _node_updated misses no notification, not even when a store
\* that fails keeps the handler from sending one: an event that changed the
\* graph is handled once more.
THEOREM WaitMissesNothing == Spec => []NoLostWakeup
  <1>1. Init => Wakeful
    BY DEF Init, Wakeful, HandledIsAbout, NoLostWakeup, DeadHandlesNothing
  <1>2. IInv /\ Wakeful /\ [Next]_vars => Wakeful'
    BY StaysWakeful
  <1>3. Wakeful => NoLostWakeup
    BY DEF Wakeful
  <1> QED
    BY <1>1, <1>2, <1>3, Invariance, PTL DEF Spec

-----------------------------------------------------------------------------
(* The refinement of TaskGraph.                                            *)

ConfirmedNodes == {n \in Nodes : NodeConfirmed(n)}

\* What a step has to leave alone to be a stuttering step of TaskGraph.
SameTaskGraph == UNCHANGED <<deps, env, Started, ConfirmedNodes>>

\* A step that publishes nothing and emits nothing is a stuttering step.
LEMMA QuietStepStutters ==
    ASSUME UNCHANGED <<env, deps, sends, stream>>
    PROVE  SameTaskGraph
  <1>1. \A n \in Nodes : NodeConfirmed(n)' = NodeConfirmed(n)
    BY DEF NodeConfirmed, Confirmed
  <1> QED
    BY <1>1 DEF SameTaskGraph, Started, ConfirmedNodes

\* The publication of a job is the start of its task or, without a data bus,
\* its submission; the task is enabled.
LEMMA PublishImplements ==
    ASSUME IInv, Publish
    PROVE  /\ cur \in Nodes
           /\ Abstract!StartTask(cur) \/ Abstract!Submit(cur)
  <1>1. /\ cur \in Nodes /\ inc \in 1 .. MaxIncarnation /\ <<cur, inc>> \in Ucers
        /\ graph.status[cur] # "pending"
    BY OrchestratorAssumption DEF IInv, TypeOK, CurIsStarted, Publish
  <1>2. UNCHANGED <<env, deps, stream>> /\ env.databus \in BOOLEAN
    BY DEF Publish, config, IInv, TypeOK, Environment
  <1>3. /\ sends \in [Ucers -> 0 .. 2] /\ sends' \in [Ucers -> 0 .. 2]
        /\ sends'[<<cur, inc>>] > 0
        /\ \A u \in Ucers \ {<<cur, inc>>} : sends'[u] = sends[u]
        /\ \A u \in Ucers : sends[u] > 0 => sends'[u] > 0
    <2>1. /\ sends \in [Ucers -> 0 .. 2]
          /\ sends' = [sends EXCEPT ![<<cur, inc>>] = IF sends[<<cur, inc>>] < 2
                                                       THEN sends[<<cur, inc>>] + 1
                                                       ELSE sends[<<cur, inc>>]]
      BY DEF IInv, TypeOK, Publish
    <2> QED
      BY <1>1, <2>1
  <1>4. Started' = Started \union {cur}
    BY <1>1, <1>3, OrchestratorAssumption DEF Started
  <1>5. \A d \in KnownDeps(deps, cur) : NodeConfirmed(d)
    <2>1. \A d \in KnownDeps(deps, cur) : graph.ucer[d] \in ConfirmedUcers
      BY <1>1 DEF IInv, GraphsConsistent, Consistent
    <2>2. \A d \in KnownDeps(deps, cur) : \A u \in ConfirmedUcers :
            graph.ucer[d] = u => NodeConfirmed(d)
      <3>1. \A d \in Nodes : graph.ucer[d] # NoUcer =>
              \E i \in 1 .. MaxIncarnation : graph.ucer[d] = <<d, i>>
        BY DEF IInv, GraphsConsistent, Consistent
      <3> QED
        BY <3>1, DagAssumption DEF ConfirmedUcers, NodeConfirmed, KnownDeps
    <2> QED
      BY <2>1, <2>2
  <1>6. Abstract!Enabled(cur)
    BY <1>5 DEF Abstract!Enabled, KnownDeps
  <1>7. CASE env.databus
    <2>1. \A n \in Nodes : NodeConfirmed(n)' = NodeConfirmed(n)
      BY <1>2, <1>7 DEF NodeConfirmed, Confirmed
    <2>2. ConfirmedNodes' = ConfirmedNodes
      BY <2>1 DEF ConfirmedNodes
    <2> QED
      BY <1>1, <1>2, <1>4, <1>6, <1>7, <2>2 DEF Abstract!StartTask, ConfirmedNodes
  <1>8. CASE ~env.databus
    <2>1. ConfirmedNodes = Started /\ ConfirmedNodes' = Started'
      BY <1>2, <1>8 DEF ConfirmedNodes, Started, NodeConfirmed, Confirmed
    <2>2. ConfirmedNodes' = ConfirmedNodes \union {cur}
      BY <1>4, <2>1
    <2> QED
      BY <1>1, <1>2, <1>4, <1>6, <1>8, <2>2 DEF Abstract!Submit, ConfirmedNodes
  <1> QED
    BY <1>1, <1>7, <1>8

\* A success event finishes a task that was started; any other step of a
\* worker is a stuttering step.
LEMMA WorkerImplements ==
    ASSUME IInv, WorkerStep
    PROVE  (\E n \in Nodes : Abstract!Finish(n)) \/ SameTaskGraph
  <1>1. PICK u \in Ucers : StepSucceeds(u) \/ StepRaises(u)
                           \/ StepExitsNonzero(u) \/ JobDeliveredAgain(u)
    BY DEF WorkerStep
  <1>2. UNCHANGED <<env, deps, sends>>
    BY <1>1 DEF StepSucceeds, StepRaises, StepExitsNonzero, JobDeliveredAgain, config
  <1>3. Started' = Started
    BY <1>2 DEF Started
  <1>4. CASE stream' = stream
    BY <1>2, <1>4, QuietStepStutters
  <1>5. ASSUME NEW ok \in BOOLEAN, env.databus, sends[u] > 0,
               stream' = Append(stream, [ucer |-> u, success |-> ok])
        PROVE  (\E n \in Nodes : Abstract!Finish(n)) \/ SameTaskGraph
    <2>1. PICK e : e = [ucer |-> u, success |-> ok]
      OBVIOUS
    <2>2. /\ stream \in Seq(Event) /\ e \in Event /\ stream' = Append(stream, e)
          /\ e.ucer = u /\ e.success = ok
      BY <1>5, <2>1 DEF IInv, TypeOK, Event
    <2>3. /\ Len(stream) \in Nat
          /\ DOMAIN stream = 1 .. Len(stream) /\ DOMAIN stream' = 1 .. (Len(stream) + 1)
          /\ \A i \in DOMAIN stream : stream'[i] = stream[i]
          /\ stream'[Len(stream) + 1] = e
      BY <2>2, AppendProperties
    <2>4. ASSUME NEW v \in Ucers
          PROVE  Confirmed(v)' <=> Confirmed(v) \/ (ok /\ v = u)
      <3>1. [ucer |-> v, success |-> TRUE] = e <=> ok /\ v = u
        BY <1>5, <2>1
      <3>2. Confirmed(v) <=> \E i \in DOMAIN stream :
                               stream[i] = [ucer |-> v, success |-> TRUE]
        BY <1>5 DEF Confirmed
      <3>3. Confirmed(v)' <=> \E i \in DOMAIN stream' :
                               stream'[i] = [ucer |-> v, success |-> TRUE]
        BY <1>2, <1>5 DEF Confirmed
      <3>4. /\ DOMAIN stream' = DOMAIN stream \union {Len(stream) + 1}
            /\ \A i \in DOMAIN stream : stream'[i] = stream[i]
        BY <2>3
      <3> QED
        BY <2>3, <3>1, <3>2, <3>3, <3>4
    <2>5. PICK m \in Nodes, j \in 1 .. MaxIncarnation : u = <<m, j>>
      BY OrchestratorAssumption
    <2>6. \A n \in Nodes : NodeConfirmed(n)' <=> NodeConfirmed(n) \/ (ok /\ n = m)
      BY <2>4, <2>5, OrchestratorAssumption DEF NodeConfirmed
    <2>7. CASE ok
      <3>1. ConfirmedNodes' = ConfirmedNodes \union {m}
        BY <2>6, <2>7 DEF ConfirmedNodes
      <3>2. m \in Started
        BY <1>5, <2>5 DEF Started
      <3> QED
        BY <1>2, <1>3, <1>5, <3>1, <3>2 DEF Abstract!Finish, ConfirmedNodes
    <2>8. CASE ~ok
      <3>1. ConfirmedNodes' = ConfirmedNodes
        BY <2>6, <2>8 DEF ConfirmedNodes
      <3> QED
        BY <1>2, <1>3, <3>1 DEF SameTaskGraph
    <2> QED
      BY <2>7, <2>8
  <1>6. \/ stream' = stream
        \/ /\ env.databus /\ sends[u] > 0
           /\ \E ok \in BOOLEAN : stream' = Append(stream, [ucer |-> u, success |-> ok])
    BY <1>1 DEF StepSucceeds, StepRaises, StepExitsNonzero, JobDeliveredAgain, Emit
  <1> QED
    BY <1>4, <1>5, <1>6

\* The rest of the orchestrator's steps are stuttering steps of TaskGraph.
LEMMA OthersStutter ==
    ASSUME IInv, [Next]_vars, ~Publish, ~WorkerStep
    PROVE  SameTaskGraph
  <1>. USE DEF vars, config, loopVars, listenVars, storeVars, jobVars
  <1>1. CASE ExecuteGraph \/ DispatchRaises
    BY <1>1, QuietStepStutters
       DEF ExecuteGraph, Begin, Subscribe, EnterLoop, Published, CompleteUnreported, GoOn,
           DispatchRaises
  <1>2. CASE Timeout \/ Crash \/ Recover \/ EventHandled
    BY <1>2, QuietStepStutters DEF Timeout, Crash, Recover, EventHandled
  <1>3. CASE \E i \in DOMAIN stream : OnJobEvent(i)
    BY <1>3, QuietStepStutters DEF OnJobEvent
  <1>4. CASE \E c \in Coroutines : ApplyWrite(c) \/ StoreRaises(c)
    BY <1>4, QuietStepStutters DEF ApplyWrite, StoreRaises
  <1>5. CASE UNCHANGED vars
    BY <1>5, QuietStepStutters
  <1> QED
    BY <1>1, <1>2, <1>3, <1>4, <1>5 DEF Next, WorkerStep

\* The orchestrator, with its loop, its handler, its checkpoints and its
\* crashes, implements TaskGraph: it hands out work only when the known
\* dependencies are confirmed, and confirms only work it has handed out.
THEOREM OrchestratorImplementsTaskGraph == Spec => ImplementsTaskGraph
  <1>1. Init => Abstract!Init
    <2> SUFFICES ASSUME Init PROVE Abstract!Init
      OBVIOUS
    <2>1. /\ deps \in [Nodes -> SUBSET NodeIds] /\ env.databus \in BOOLEAN
          /\ \A u \in Ucers : sends[u] = 0
          /\ stream = << >>
      BY OrchestratorAssumption DEF Init, Environment
    <2>2. \A n \in Nodes, i \in 1 .. MaxIncarnation : ~(sends[<<n, i>>] > 0)
      <3>1. ASSUME NEW n \in Nodes, NEW i \in 1 .. MaxIncarnation
            PROVE  sends[<<n, i>>] = 0
        BY <2>1, OrchestratorAssumption
      <3>2. ASSUME NEW n \in Nodes, NEW i \in 1 .. MaxIncarnation
            PROVE  ~(sends[<<n, i>>] > 0)
        BY <3>1
      <3> QED
        BY <3>2
    <2>3. Started = {}
      BY <2>2 DEF Started
    <2>4. ConfirmedNodes = {}
      <3>1. DOMAIN stream = {}
        BY <2>1
      <3>2. \A n \in Nodes, i \in 1 .. MaxIncarnation : ~Confirmed(<<n, i>>)
        <4>1. CASE env.databus
          BY <3>1, <4>1 DEF Confirmed
        <4>2. CASE ~env.databus
          BY <2>2, <4>2 DEF Confirmed
        <4> QED
          BY <4>1, <4>2
      <3> QED
        BY <3>2 DEF ConfirmedNodes, NodeConfirmed
    <2> QED
      BY <2>1, <2>3, <2>4 DEF Abstract!Init, ConfirmedNodes
  <1>2. IInv /\ [Next]_vars => [Abstract!Next]_(Abstract!tgvars)
    <2> SUFFICES ASSUME IInv, [Next]_vars PROVE [Abstract!Next]_(Abstract!tgvars)
      OBVIOUS
    <2>1. CASE Publish
      BY <2>1, PublishImplements DEF Abstract!Next
    <2>2. SameTaskGraph => UNCHANGED Abstract!tgvars
      BY DEF SameTaskGraph, ConfirmedNodes, Abstract!tgvars
    <2>3. CASE WorkerStep
      BY <2>2, <2>3, WorkerImplements DEF Abstract!Next
    <2>4. CASE ~Publish /\ ~WorkerStep
      BY <2>2, <2>4, OthersStutter
    <2> QED
      BY <2>1, <2>3, <2>4
  <1> QED
    BY <1>1, <1>2, Invariance, PTL DEF Spec, ImplementsTaskGraph, Abstract!Spec

=============================================================================
