------------------------------ MODULE Pipeline ------------------------------
(***************************************************************************)
(* The execution pipeline of a UCER: CryptoMiddleware, PolicyMiddleware,   *)
(* PersistenceMiddleware and EngineMiddleware of core/middlewares.py, in   *)
(* the order in which UniversalExecutorFacade chains them.                 *)
(*                                                                         *)
(* Several tasks run pipelines, on one machine or on several; they share   *)
(* the table of UCER records.  A UCER object is used by one task at a time *)
(* but may be submitted again, and two objects may be copies of the same   *)
(* UCER (the job queue delivers a job more than once), hence share a       *)
(* command_id and a record.  An action is the code between two awaits.     *)
(*                                                                         *)
(* A command is abstracted to what its audit says of it: the capabilities  *)
(* it needs and whether it is safe.  The canonical hash is the tuple of    *)
(* what it is computed from, the steps and required_capabilities; a        *)
(* signature is valid for the hash it was made for.  Cancellations,        *)
(* crashes and failing saves cost one of MaxFaults faults.                 *)
(***************************************************************************)
EXTENDS Integers, Sequences, FiniteSets

CONSTANTS
    Tasks,          \* the tasks that run pipelines
    Ucers,          \* the UCER objects in memory
    CommandIds,
    IdOf,           \* the command_id of each object
    Capabilities,
    Exec,           \* Capability.EXEC
    Plans,          \* the step lists a UCER may have
    MaxAttempts,    \* bound: number of executions started
    MaxFaults,      \* bound: how many things go wrong
    NoHash, NoRecord, NoUcer

Step == [caps : SUBSET Capabilities, safe : BOOLEAN]

ASSUME PipelineAssumption ==
    /\ Exec \in Capabilities
    /\ IdOf \in [Ucers -> CommandIds]
    /\ Plans \subseteq Seq(Step)
    /\ MaxAttempts \in Nat
    /\ MaxFaults \in Nat
    /\ NoUcer \notin Ucers

Results == {"ok", "nonzero"}
Hash == Plans \X SUBSET Capabilities
Ucer == [plan : Plans, caps : SUBSET Capabilities, hash : Hash \union {NoHash},
         status : {"pending", "running", "completed", "failed"}, traces : Seq(Results)]

ASSUME NullAssumption == NoHash \notin Hash /\ NoRecord \notin Ucer

VARIABLES
    obj,        \* the UCER objects
    gone,       \* the objects of tasks whose process died
    pc,         \* the await at which each task is suspended
    cur,        \* the object each task works on
    granted,    \* the capabilities of its context
    events,     \* how many events success=True and success=False it emitted
    db,         \* the record of each command_id
    late,       \* saves of cancelled tasks that go on in their threads
    overtaken,  \* history: records whose UCER was submitted again meanwhile
    attempts,   \* executions started
    faults      \* faults left

taskVars == <<pc, cur, granted, events>>
lateVars == <<late, overtaken>>
bounds   == <<attempts, faults>>
vars == <<obj, gone, taskVars, db, lateVars, bounds>>

Fault == faults > 0 /\ faults' = faults - 1 /\ attempts' = attempts

\* The object task t works on, and its record.
U(t) == obj[cur[t]]
Id(t) == IdOf[cur[t]]

\* A save in a thread: the object, the submission that began it, and what the
\* thread has read from the object, or NoRecord before it has.
Save == [of : Ucers, in : 0 .. MaxAttempts, value : Ucer \union {NoRecord}]
Unread(o) == \E w \in late : w.of = o /\ w.value = NoRecord

InUse(o) == \E t \in Tasks : pc[t] # "idle" /\ cur[t] = o

Goto(t, state) == pc' = [pc EXCEPT ![t] = state]
SetU(t, u) == obj' = [obj EXCEPT ![cur[t]] = u]

-----------------------------------------------------------------------------
(* Submission: execute_ucer.                                               *)

ExecuteUcer(t, o, caps) ==
    /\ pc[t] = "idle"
    /\ ~InUse(o) /\ o \notin gone
    /\ attempts < MaxAttempts
    /\ attempts' = attempts + 1
    /\ cur' = [cur EXCEPT ![t] = o]
    /\ granted' = [granted EXCEPT ![t] = caps]
    /\ events' = [events EXCEPT ![t] = [good |-> 0, bad |-> 0]]
    /\ Goto(t, "reading")
    /\ overtaken' = IF Unread(o) THEN overtaken \union {IdOf[o]} ELSE overtaken
    /\ UNCHANGED <<obj, gone, db, late, faults>>

\* The owner of an object gives it other steps.
Edit(o, plan) ==
    /\ ~InUse(o) /\ o \notin gone
    /\ obj[o].plan # plan
    /\ obj' = [obj EXCEPT ![o].plan = plan]
    /\ UNCHANGED <<gone, taskVars, db, lateVars, bounds>>

-----------------------------------------------------------------------------
(* CryptoMiddleware and PolicyMiddleware, up to the first save.            *)

CanonicalHash(u) == <<u.plan, u.caps>>

\* Mutant of VerifyIntegrity: the hash of the content is not computed again.
HasSignature(u) == u.hash # NoHash

VerifyIntegrity(u) == u.hash # NoHash /\ CanonicalHash(u) = u.hash

SignIntent(u) == [u EXCEPT !.hash = CanonicalHash(u)]

Allowed(step, caps) == step.caps \subseteq caps /\ step.safe

Refused(plan, caps) == {k \in DOMAIN plan : ~Allowed(plan[k], caps)}

\* PolicyGate.evaluate adds what each step needs to required_capabilities,
\* up to the first step it refuses.
Aggregated(u, caps) ==
    LET audited == {k \in DOMAIN u.plan : \A m \in Refused(u.plan, caps) : k <= m}
    IN  [u EXCEPT !.caps = @ \union UNION {u.plan[k].caps : k \in audited}]

Signed(u) == IF u.hash = NoHash THEN SignIntent(u) ELSE u

IntegrityFails(t) ==
    /\ pc[t] = "reading"
    /\ U(t).hash # NoHash
    /\ ~VerifyIntegrity(U(t))
    /\ SetU(t, [U(t) EXCEPT !.status = "failed"])
    /\ Goto(t, "idle")
    /\ UNCHANGED <<gone, cur, granted, events, db, lateVars, bounds>>

PassesCrypto(t) ==
    /\ pc[t] = "reading"
    /\ U(t).hash = NoHash \/ VerifyIntegrity(U(t))

\* The contract of evaluate asks for EXEC before any step is audited.
PolicyRefuses(t) ==
    /\ PassesCrypto(t)
    /\ \/ /\ Exec \notin granted[t]
          /\ SetU(t, Signed(U(t)))
       \/ /\ Exec \in granted[t]
          /\ Refused(U(t).plan, granted[t]) # {}
          /\ SetU(t, Aggregated(Signed(U(t)), granted[t]))
    /\ Goto(t, "idle")
    /\ UNCHANGED <<gone, cur, granted, events, db, lateVars, bounds>>

Admit(t) ==
    /\ PassesCrypto(t)
    /\ Exec \in granted[t]
    /\ Refused(U(t).plan, granted[t]) = {}
    /\ SetU(t, [Aggregated(Signed(U(t)), granted[t]) EXCEPT
                    !.status = "running", !.traces = << >>])
    /\ Goto(t, "saving")
    /\ UNCHANGED <<gone, cur, granted, events, db, lateVars, bounds>>

-----------------------------------------------------------------------------
(* PersistenceMiddleware and EngineMiddleware.                             *)

\* Mutant of Conclude: whatever did not raise is completed.
ConcludeReturned(u, raised) == [u EXCEPT !.status = IF raised THEN "failed" ELSE "completed"]

\* Another mutant: a status no reader of the record knows.
ConcludeSuccess(u, raised) ==
    [u EXCEPT !.status = IF raised \/ u.status = "failed" THEN "failed" ELSE "success"]

\* The status the record gets in the end.
Conclude(u, raised) ==
    [u EXCEPT !.status = IF raised \/ u.status = "failed" THEN "failed" ELSE "completed"]

\* Mutant of Close: an exception skips the final save.
CloseUnlessRaised(t, u, raised) ==
    /\ SetU(t, Conclude(u, raised))
    /\ Goto(t, IF raised THEN "idle" ELSE "closing")

\* Control leaves the engine; the finally block saves the record.
Close(t, u, raised) ==
    /\ SetU(t, Conclude(u, raised))
    /\ Goto(t, "closing")

\* The engine goes on with the next step, or is done.
Proceed(t, u) ==
    IF Len(u.traces) < Len(u.plan)
    THEN SetU(t, u) /\ Goto(t, "stepping")
    ELSE Close(t, u, FALSE)

\* Mutant of RecordFirst: the first save does not wait for the database.
RecordAtEnd(t) == db' = db

RecordFirst(t) == db' = [db EXCEPT ![Id(t)] = U(t)]

RunningSaved(t) ==
    /\ pc[t] = "saving"
    /\ RecordFirst(t)
    /\ Proceed(t, U(t))
    /\ UNCHANGED <<gone, cur, granted, events, lateVars, bounds>>

\* The first save stands before the try block: no final save follows.
RunningSaveRaises(t) ==
    /\ Fault
    /\ pc[t] = "saving"
    /\ db' \in {db, [db EXCEPT ![Id(t)] = U(t)]}
    /\ Goto(t, "idle")
    /\ UNCHANGED <<obj, gone, cur, granted, events, lateVars>>

Emit(t, success) ==
    \/ success  /\ events' = [events EXCEPT ![t].good = @ + 1]
    \/ ~success /\ events' = [events EXCEPT ![t].bad = @ + 1]

WithTrace(u, result) == [u EXCEPT !.traces = Append(@, result)]

\* A step that exits non-zero ends the loop; nothing is emitted.
Fails(t, u) == Close(t, [u EXCEPT !.status = "failed"], FALSE)

StepExitsNonzero(t) ==
    /\ pc[t] = "stepping"
    /\ Fails(t, WithTrace(U(t), "nonzero"))
    /\ UNCHANGED <<gone, cur, granted, events, db, lateVars, bounds>>

StepSucceeds(t) ==
    /\ pc[t] = "stepping"
    /\ Emit(t, TRUE)
    /\ Proceed(t, WithTrace(U(t), "ok"))
    /\ UNCHANGED <<gone, cur, granted, db, lateVars, bounds>>

\* The adapter raises, or the sentinel blocks the trace of a command that ran.
StepRaises(t) ==
    /\ pc[t] = "stepping"
    /\ Emit(t, FALSE)
    /\ Close(t, U(t), TRUE)
    /\ UNCHANGED <<gone, cur, granted, db, lateVars, bounds>>

FinalSaved(t) ==
    /\ pc[t] = "closing"
    /\ db' = [db EXCEPT ![Id(t)] = U(t)]
    /\ Goto(t, "idle")
    /\ UNCHANGED <<obj, gone, cur, granted, events, lateVars, bounds>>

FinalSaveRaises(t) ==
    /\ Fault
    /\ pc[t] = "closing"
    /\ db' \in {db, [db EXCEPT ![Id(t)] = U(t)]}
    /\ Goto(t, "idle")
    /\ UNCHANGED <<obj, gone, cur, granted, events, lateVars>>

-----------------------------------------------------------------------------
(* Cancellation and crashes.                                               *)

\* CancelledError is no Exception: while a step runs, only the finally block
\* sees it, and saves the record as it is, "running"; the command runs on in
\* its thread.  A save that is cancelled goes on in its thread, too, which has
\* the object itself and need not have looked at it yet.
Cancel(t) ==
    /\ Fault
    /\ \/ /\ pc[t] = "stepping"
          /\ Goto(t, "closing")
          /\ late' = late
       \/ /\ pc[t] = "reading"
          /\ Goto(t, "idle")
          /\ late' = late
       \/ /\ pc[t] \in {"saving", "closing"}
          /\ late' = late \union {[of |-> cur[t], in |-> attempts, value |-> NoRecord]}
          /\ Goto(t, "idle")
    /\ UNCHANGED <<obj, gone, cur, granted, events, db, overtaken>>

\* The thread gets to model_dump_json: it reads the object as it is by now.
LateDump ==
    \E w \in late :
        /\ w.value = NoRecord
        /\ late' = (late \ {w}) \union {[w EXCEPT !.value = obj[w.of]]}
        /\ UNCHANGED <<obj, gone, taskVars, db, overtaken, bounds>>

\* The thread stores what it has read.
LateSave ==
    \E w \in late :
        /\ w.value # NoRecord
        /\ db' = [db EXCEPT ![IdOf[w.of]] = w.value]
        /\ late' = late \ {w}
        /\ UNCHANGED <<obj, gone, taskVars, overtaken, bounds>>

\* The process dies; nothing in it looks at the record again.
Crash(t) ==
    /\ Fault
    /\ pc[t] # "idle"
    /\ gone' = gone \union {cur[t]}
    /\ \/ db' = db
       \/ pc[t] \in {"saving", "closing"} /\ db' = [db EXCEPT ![Id(t)] = U(t)]
    /\ Goto(t, "idle")
    /\ UNCHANGED <<obj, cur, granted, events, lateVars>>

-----------------------------------------------------------------------------

Init ==
    /\ \E plan \in [CommandIds -> Plans] :
          obj = [o \in Ucers |-> [plan |-> plan[IdOf[o]], caps |-> {}, hash |-> NoHash,
                                  status |-> "pending", traces |-> << >>]]
    /\ gone = {}
    /\ pc = [t \in Tasks |-> "idle"]
    /\ cur = [t \in Tasks |-> NoUcer]
    /\ granted = [t \in Tasks |-> {}]
    /\ events = [t \in Tasks |-> [good |-> 0, bad |-> 0]]
    /\ db = [i \in CommandIds |-> NoRecord]
    /\ late = {}
    /\ overtaken = {}
    /\ attempts = 0
    /\ faults = MaxFaults

Advance(t) ==
    \/ IntegrityFails(t) \/ PolicyRefuses(t) \/ Admit(t) \/ RunningSaved(t)
    \/ StepSucceeds(t) \/ StepExitsNonzero(t) \/ StepRaises(t) \/ FinalSaved(t)

Next ==
    \/ \E t \in Tasks :
          \/ \E o \in Ucers, caps \in SUBSET Capabilities : ExecuteUcer(t, o, caps)
          \/ Advance(t)
          \/ RunningSaveRaises(t) \/ FinalSaveRaises(t)
          \/ Cancel(t) \/ Crash(t)
    \/ \E o \in Ucers, plan \in Plans : Edit(o, plan)
    \/ LateDump \/ LateSave

Spec == Init /\ [][Next]_vars

\* The event loop runs a task whose await is over; commands and saves end.
FairSpec == Spec /\ \A t \in Tasks : WF_vars(Advance(t))

=============================================================================
