------------------------- MODULE PipelineProperties -------------------------
(***************************************************************************)
(* What the execution pipeline has to guarantee.                           *)
(***************************************************************************)
EXTENDS Pipeline

TypeOK ==
    /\ obj \in [Ucers -> Ucer]
    /\ gone \in SUBSET Ucers
    /\ pc \in [Tasks -> {"idle", "reading", "saving", "stepping", "closing"}]
    /\ cur \in [Tasks -> Ucers \union {NoUcer}]
    /\ \A t \in Tasks : pc[t] # "idle" => cur[t] \in Ucers
    /\ granted \in [Tasks -> SUBSET Capabilities]
    /\ events \in [Tasks -> [good : Nat, bad : Nat]]
    /\ db \in [CommandIds -> Ucer \union {NoRecord}]
    /\ late \in SUBSET Save
    /\ overtaken \in SUBSET CommandIds
    /\ attempts \in 0 .. MaxAttempts
    /\ faults \in 0 .. MaxFaults

\* Not one command of a UCER runs unless the gate would let every one of its
\* commands run: a refused plan is never half executed.
RefusedPlanNeverStarts ==
    \A t \in Tasks : pc[t] = "stepping" =>
        /\ Exec \in granted[t]
        /\ \A k \in DOMAIN U(t).plan : Allowed(U(t).plan[k], granted[t])

\* The steps that run are the steps that were signed, although the owner of
\* the object may have edited it since an earlier submission.
SignedPlanRuns ==
    \A t \in Tasks : pc[t] = "stepping" => U(t).hash # NoHash /\ U(t).hash[1] = U(t).plan

\* Before any command runs there is a record of the UCER: whoever dies, what
\* had an effect is known to the database.
RecordPrecedesEffects ==
    \A t \in Tasks : pc[t] = "stepping" => db[Id(t)] # NoRecord

\* A step runs only after all the steps before it succeeded.
AllOk(traces) == \A i \in DOMAIN traces : traces[i] = "ok"
NothingRunsAfterFailure == \A t \in Tasks : pc[t] = "stepping" => AllOk(U(t).traces)

\* Every step of the plan that was signed was run and exited with 0.
Succeeded(u) == u.hash # NoHash /\ Len(u.traces) = Len(u.hash[1]) /\ AllOk(u.traces)

\* A record tells what happened, whatever was cancelled, saved late, executed
\* twice, edited or refused.  It says completed only of a UCER all of whose
\* signed steps succeeded; and it says failed of such a UCER only if the
\* thread of a cancelled save came to read the object after it had been
\* submitted once more (and refused: a refusal marks the object as failed).
RecordTellsOutcome ==
    \A i \in CommandIds : db[i] # NoRecord =>
        /\ db[i].status = "completed" => Succeeded(db[i])
        /\ db[i].status = "failed" /\ Succeeded(db[i]) => i \in overtaken

\* An execution emits a success event for each step in its traces that exited
\* with 0 and for nothing else, which is what _on_job_event relies on.
SuccessEventsMatchTraces ==
    \A t \in Tasks : pc[t] \in {"stepping", "closing"} =>
        events[t].good = Cardinality({i \in DOMAIN U(t).traces : U(t).traces[i] = "ok"})

Ended(u) == u.status \in {"completed", "failed"}

\* An execution that reaches its first command leaves a final record, unless
\* a task is cancelled, a process dies or the database fails.
ExecutionIsConcluded ==
    \A t \in Tasks :
        pc[t] = "stepping" ~>
            \/ faults < MaxFaults
            \/ pc[t] = "idle" /\ cur[t] \in Ucers /\ db[Id(t)] # NoRecord /\ Ended(db[Id(t)])

\* A UCER whose steps nobody changed since it was signed is not refused as
\* tampered with.
UneditedIsAccepted ==
    \A t \in Tasks :
        pc[t] = "reading" /\ U(t).hash # NoHash /\ U(t).hash[1] = U(t).plan
            => VerifyIntegrity(U(t))

=============================================================================
