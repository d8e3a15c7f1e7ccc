------------------------- MODULE MCDagOrchestrator -------------------------
(***************************************************************************)
(* The instance of DagProperties that TLC checks.                          *)
(***************************************************************************)
EXTENDS DagProperties

MCUcers == Nodes \X (1 .. MaxIncarnation)

\* A node id that no node of the graph has.
Ghost == 99

MCNodeIds == Nodes \union {Ghost}

Fork == [n \in Nodes |-> IF n = 1 THEN {} ELSE {1}]
Join == [n \in Nodes |-> IF n = 3 THEN {1, 2} ELSE {}]
Backward == [n \in Nodes |-> {n + 1} \intersect Nodes]
Dangling == [n \in Nodes |-> IF n = 1 THEN {Ghost} ELSE {1, Ghost}]
Cycle == [n \in Nodes |-> {IF n = 1 THEN 2 ELSE 1}]

SafetyShapes == {Fork, Join, Backward, Dangling}

Apart == [n \in Nodes |-> {}]
Ladder == [n \in Nodes |-> {m \in Nodes : m < n}]
ProgressShapes == {Apart, Backward, Ladder, Dangling, Cycle}
RecoveryShapes == {Apart}

Bus(faults) == [databus |-> TRUE, ordered |-> TRUE, faults |-> faults]
Unordered(faults) == [Bus(faults) EXCEPT !.ordered = FALSE]
Blind(faults) == [Bus(faults) EXCEPT !.databus = FALSE]

SafetyEnvironments ==
    {Bus({"crash", "compile"}), Bus({"publish", "acklost", "redeliver"}),
     Bus({"raise", "rerun", "exit"}), Unordered({"crash", "store"}),
     Blind({"crash", "compile"}), Blind({"publish", "acklost", "store"})}

ProgressEnvironments ==
    {Bus({}), Bus({"redeliver"}), Blind({}),
     Bus({"crash"}), Bus({"timeout", "crash", "exit"}), Bus({"timeout", "store", "publish"}),
     Bus({"timeout", "raise", "acklost", "compile"}),
     Blind({"timeout", "crash", "store"})}

\* One environment for each disagreement with what the code says of itself.
RecoveryEnvironments == {Bus({"crash"})}
SequencingEnvironments == {Bus({})}

=============================================================================
