----------------------------- MODULE TaskGraph -----------------------------
(***************************************************************************)
(* What the orchestration of a task graph promises, whatever its loop, its *)
(* checkpoints, its crashes and its event handlers do: the work of a task  *)
(* starts only when every dependency that the graph holds is confirmed.    *)
(*                                                                         *)
(* With a data bus a task is confirmed by a success event, in a step of    *)
(* its own (Finish); without one it counts as confirmed when it is handed  *)
(* to the job queue (Submit).  DagOrchestrator implements this module.     *)
(***************************************************************************)
CONSTANTS Tasks, TaskIds

VARIABLES
    needs,      \* task -> ids of the tasks it depends on
    reporting,  \* is completion reported by events?
    started,    \* the tasks whose work was handed out
    confirmed   \* the tasks counted as done

tgvars == <<needs, reporting, started, confirmed>>

Init ==
    /\ needs \in [Tasks -> SUBSET TaskIds]
    /\ reporting \in BOOLEAN
    /\ started = {}
    /\ confirmed = {}

Enabled(t) == needs[t] \intersect Tasks \subseteq confirmed

\* Work may be handed out again: a restarted orchestrator does not know
\* what its predecessor sent after the last checkpoint.
StartTask(t) ==
    /\ reporting
    /\ Enabled(t)
    /\ started' = started \union {t}
    /\ UNCHANGED <<needs, reporting, confirmed>>

Finish(t) ==
    /\ reporting
    /\ t \in started
    /\ confirmed' = confirmed \union {t}
    /\ UNCHANGED <<needs, reporting, started>>

Submit(t) ==
    /\ ~reporting
    /\ Enabled(t)
    /\ started' = started \union {t}
    /\ confirmed' = confirmed \union {t}
    /\ UNCHANGED <<needs, reporting>>

Next == \E t \in Tasks : StartTask(t) \/ Finish(t) \/ Submit(t)

Spec == Init /\ [][Next]_tgvars

=============================================================================
