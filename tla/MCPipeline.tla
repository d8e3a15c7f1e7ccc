----------------------------- MODULE MCPipeline -----------------------------
(***************************************************************************)
(* The instance of PipelineProperties that TLC checks.                     *)
(***************************************************************************)
EXTENDS PipelineProperties

\* Two objects that are copies of one UCER, as two deliveries of a job make.
MCIdOf == [o \in Ucers |-> CHOOSE i \in CommandIds : TRUE]

Read  == [caps |-> {"exec"}, safe |-> TRUE]
Fetch == [caps |-> {"exec", "network"}, safe |-> TRUE]
Unparsable == [caps |-> {}, safe |-> FALSE]

MCPlans == {<<Read, Fetch>>, <<Read>>, <<Read, Unparsable>>}

=============================================================================
