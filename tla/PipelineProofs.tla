--------------------------- MODULE PipelineProofs ---------------------------
(***************************************************************************)
(* Proofs about Pipeline, for every set of tasks, of objects and of plans  *)
(* and every number of attempts and faults.                                *)
(*                                                                         *)
(* The argument: an object belongs to one task from its submission to the  *)
(* end of the pipeline, so what a middleware has established about it      *)
(* still holds at the next await.  TaskOK says what that is at each await. *)
(* Every value a task saves is Honest.  The thread of a cancelled save     *)
(* reads the object later, in whatever state it then is: ObjectsHonest     *)
(* says what can be relied on about an object at any time.                 *)
(***************************************************************************)
EXTENDS PipelineProperties, FiniteSetTheorems, SequenceTheorems, TLAPS

\* A final status agrees with the traces.
Honest(u) ==
    /\ u.status = "completed" => Succeeded(u)
    /\ u.status = "failed" => ~Succeeded(u)

\* What a record of command i may say.
Tells(u, i) ==
    /\ u.status = "completed" => Succeeded(u)
    /\ u.status = "failed" /\ Succeeded(u) => i \in overtaken

RecordsHonest ==
    /\ \A i \in CommandIds : db[i] # NoRecord => Tells(db[i], i)
    /\ \A w \in late : w.value # NoRecord => Tells(w.value, IdOf[w.of])

\* No object is completed that did not succeed.  One that succeeded and is
\* marked as failed while a thread may still read it was submitted again; and
\* a task works on an object that a thread may still read only since then.
ObjectsHonest ==
    /\ \A o \in Ucers : obj[o].status = "completed" => Succeeded(obj[o])
    /\ \A w \in late : w.value = NoRecord => Tells(obj[w.of], IdOf[w.of])
    /\ \A t \in Tasks : pc[t] # "idle" /\ Unread(cur[t]) => IdOf[cur[t]] \in overtaken

\* An object is in the hands of one task.
Exclusive ==
    \A t, s \in Tasks : pc[t] # "idle" /\ pc[s] # "idle" /\ cur[t] = cur[s] => t = s

OkSteps(traces) == {i \in DOMAIN traces : traces[i] = "ok"}

Admitted(u, caps) == Exec \in caps /\ \A k \in DOMAIN u.plan : Allowed(u.plan[k], caps)
PlanSigned(u) == u.hash # NoHash /\ u.hash[1] = u.plan

\* What holds at each await of a task.
TaskOK(t) ==
    /\ pc[t] \in {"saving", "stepping"} =>
          /\ Admitted(U(t), granted[t])
          /\ PlanSigned(U(t))
          /\ U(t).status = "running"
    /\ pc[t] \in {"reading", "saving"} => events[t].good = 0
    /\ pc[t] = "saving" => U(t).traces = << >>
    /\ pc[t] = "stepping" =>
          /\ AllOk(U(t).traces)
          /\ Len(U(t).traces) < Len(U(t).plan)
          /\ db[Id(t)] # NoRecord
    /\ pc[t] \in {"stepping", "closing"} =>
          events[t].good = Cardinality(OkSteps(U(t).traces))
    /\ pc[t] = "closing" => Honest(U(t))

IInv ==
    /\ TypeOK
    /\ Exclusive
    /\ RecordsHonest
    /\ ObjectsHonest
    /\ \A t \in Tasks : TaskOK(t)

-----------------------------------------------------------------------------
(* Facts about UCER values.                                                *)

\* Signing and aggregating yield a UCER with the same plan, and a UCER that
\* is unsigned or verified has its plan signed afterwards.
LEMMA SignedAndAggregated ==
    ASSUME NEW u \in Ucer, NEW caps
    PROVE  /\ Signed(u) \in Ucer
           /\ Aggregated(Signed(u), caps) \in Ucer
           /\ Aggregated(Signed(u), caps).plan = u.plan
           /\ u.hash = NoHash \/ VerifyIntegrity(u) => PlanSigned(Aggregated(Signed(u), caps))
  <1> DEFINE s == Signed(u)
  <1>1. /\ s \in Ucer /\ s.plan = u.plan
        /\ u.hash = NoHash \/ VerifyIntegrity(u) => PlanSigned(s)
    BY NullAssumption
       DEF Signed, SignIntent, CanonicalHash, VerifyIntegrity, PlanSigned, Ucer, Hash
  <1>2. \A k \in DOMAIN s.plan : s.plan[k].caps \subseteq Capabilities
    <2> HIDE DEF s
    <2>1. s.plan \in Seq(Step)
      BY <1>1, PipelineAssumption DEF Ucer
    <2>2. \A k \in DOMAIN s.plan : s.plan[k] \in Step
      BY <2>1
    <2> QED
      BY <2>2 DEF Step
  <1> HIDE DEF s
  <1>3. PICK c \in SUBSET Capabilities : Aggregated(s, caps) = [s EXCEPT !.caps = c]
    BY <1>1, <1>2 DEF Aggregated, Ucer
  <1>4. /\ [s EXCEPT !.caps = c] \in Ucer
        /\ [s EXCEPT !.caps = c].plan = s.plan /\ [s EXCEPT !.caps = c].hash = s.hash
    BY <1>1 DEF Ucer
  <1> QED
    BY <1>1, <1>3, <1>4 DEF s, PlanSigned

\* Neither says anything else of how the UCER's execution ended.
LEMMA SignedKeepsOutcome ==
    ASSUME NEW u \in Ucer, NEW caps, NEW v \in {Signed(u), Aggregated(Signed(u), caps)}
    PROVE  v.status = u.status /\ (Succeeded(u) => Succeeded(v))
  <1>1. PICK s \in Ucer : /\ s = Signed(u) /\ s.status = u.status /\ s.traces = u.traces
                          /\ u.hash # NoHash => s.hash = u.hash
    <2>1. Signed(u) \in Ucer
      BY SignedAndAggregated
    <2> QED
      BY <2>1 DEF Signed, SignIntent, Ucer
  <1>2. v.status = s.status /\ v.traces = s.traces /\ v.hash = s.hash
    BY <1>1 DEF Aggregated, Ucer
  <1> QED
    BY <1>1, <1>2 DEF Succeeded

\* A plan of which nothing is refused is admitted.
LEMMA NothingRefused ==
    ASSUME NEW u, NEW caps, Exec \in caps, Refused(u.plan, caps) = {}
    PROVE  Admitted(u, caps)
  BY DEF Refused, Admitted

\* What appending a result does to the traces.
LEMMA TraceAppended ==
    ASSUME NEW u \in Ucer, NEW r \in Results
    PROVE  LET v == WithTrace(u, r) IN
           /\ v \in Ucer
           /\ v.plan = u.plan /\ v.hash = u.hash /\ v.status = u.status
           /\ Len(u.traces) \in Nat /\ Len(v.traces) = Len(u.traces) + 1
           /\ AllOk(v.traces) <=> AllOk(u.traces) /\ r = "ok"
           /\ Cardinality(OkSteps(v.traces)) =
                 Cardinality(OkSteps(u.traces)) + (IF r = "ok" THEN 1 ELSE 0)
  <1> DEFINE s == u.traces
             z == Append(s, r)
             n == Len(s)
  <1>1. /\ s \in Seq(Results) /\ n \in Nat /\ DOMAIN s = 1 .. n
    BY DEF Ucer
  <1>2. /\ z \in Seq(Results) /\ Len(z) = n + 1 /\ DOMAIN z = 1 .. (n + 1)
        /\ \A i \in 1 .. n : z[i] = s[i]
        /\ z[n + 1] = r
    BY <1>1, AppendProperties
  <1>3. /\ WithTrace(u, r) \in Ucer /\ WithTrace(u, r).traces = z
        /\ WithTrace(u, r).plan = u.plan /\ WithTrace(u, r).hash = u.hash
        /\ WithTrace(u, r).status = u.status
    BY <1>2 DEF WithTrace, Ucer
  <1> HIDE DEF z
  <1>4. AllOk(z) <=> AllOk(s) /\ r = "ok"
    BY <1>1, <1>2 DEF AllOk
  <1>5. IsFiniteSet(OkSteps(s)) /\ n + 1 \notin OkSteps(s)
    <2>1. IsFiniteSet(1 .. n) /\ OkSteps(s) \subseteq 1 .. n
      BY <1>1, FS_Interval DEF OkSteps
    <2> QED
      BY <1>1, <2>1, FS_Subset
  <1>6. OkSteps(z) = IF r = "ok" THEN OkSteps(s) \union {n + 1} ELSE OkSteps(s)
    BY <1>1, <1>2 DEF OkSteps
  <1>7. Cardinality(OkSteps(z)) = Cardinality(OkSteps(s)) + (IF r = "ok" THEN 1 ELSE 0)
    <2>1. Cardinality(OkSteps(s)) \in Nat
      BY <1>5, FS_CardinalityType
    <2>2. Cardinality(OkSteps(s) \union {n + 1}) = Cardinality(OkSteps(s)) + 1
      BY <1>5, FS_AddElement
    <2> QED
      BY <1>6, <2>1, <2>2
  <1> QED
    BY <1>1, <1>2, <1>3, <1>4, <1>7

\* The final status is honest when it says completed exactly for a plan all
\* of whose steps succeeded.
LEMMA ConcludeHonest ==
    ASSUME NEW u \in Ucer, NEW raised \in BOOLEAN, PlanSigned(u),
           (~raised /\ u.status # "failed") <=> (Len(u.traces) = Len(u.plan) /\ AllOk(u.traces))
    PROVE  LET v == Conclude(u, raised) IN
           v \in Ucer /\ v.plan = u.plan /\ v.traces = u.traces /\ Honest(v)
  <1> DEFINE v == Conclude(u, raised)
  <1>1. /\ v \in Ucer /\ v.plan = u.plan /\ v.traces = u.traces /\ v.hash = u.hash
        /\ v.status = IF raised \/ u.status = "failed" THEN "failed" ELSE "completed"
    BY DEF Conclude, Ucer
  <1> HIDE DEF v
  <1>2. Succeeded(v) <=> Len(u.traces) = Len(u.plan) /\ AllOk(u.traces)
    BY <1>1 DEF Succeeded, PlanSigned
  <1>3. Honest(v)
    BY <1>1, <1>2 DEF Honest
  <1> QED
    BY <1>1, <1>3 DEF v

-----------------------------------------------------------------------------
(* The frame of a step of one task.                                        *)

AwaitStates == {"idle", "reading", "saving", "stepping", "closing"}

\* The types of what a step of a task does not concern as its own.
RestOK ==
    /\ gone \in SUBSET Ucers
    /\ events \in [Tasks -> [good : Nat, bad : Nat]]
    /\ db \in [CommandIds -> Ucer \union {NoRecord}]
    /\ late \in SUBSET Save
    /\ overtaken \in SUBSET CommandIds
    /\ attempts \in 0 .. MaxAttempts
    /\ faults \in 0 .. MaxFaults

\* Records are never removed.
RecordsStay == \A i \in CommandIds : db[i] # NoRecord => db'[i] # NoRecord

\* A task that works on an object has one, and its record has a place.
LEMMA TaskHasObject ==
    ASSUME TypeOK, NEW t \in Tasks, pc[t] # "idle"
    PROVE  cur[t] \in Ucers /\ U(t) \in Ucer /\ Id(t) \in CommandIds
  BY PipelineAssumption DEF TypeOK, U, Id

\* What other tasks rely on is not touched by the step of a task that changes
\* only its own object.
LEMMA OneTaskSuffices ==
    ASSUME IInv, NEW t \in Tasks, pc[t] # "idle",
           NEW u \in Ucer, SetU(t, u), NEW p \in AwaitStates, Goto(t, p),
           UNCHANGED <<cur, granted>>, \A s \in Tasks \ {t} : events'[s] = events[s],
           RestOK', RecordsStay, RecordsHonest', ObjectsHonest', TaskOK(t)'
    PROVE  IInv'
  <1>1. /\ cur[t] \in Ucers
        /\ obj \in [Ucers -> Ucer] /\ obj' \in [Ucers -> Ucer] /\ obj'[cur[t]] = u
        /\ \A o \in Ucers \ {cur[t]} : obj'[o] = obj[o]
        /\ pc' \in [Tasks -> AwaitStates] /\ pc'[t] = p
        /\ \A s \in Tasks \ {t} : pc'[s] = pc[s]
    BY TaskHasObject DEF IInv, TypeOK, SetU, Goto, AwaitStates
  <1>2. TypeOK'
    <2>1. \A s \in Tasks : pc'[s] # "idle" => cur'[s] \in Ucers
      BY <1>1 DEF IInv, TypeOK
    <2>2. /\ cur' \in [Tasks -> Ucers \union {NoUcer}]
          /\ granted' \in [Tasks -> SUBSET Capabilities]
      BY DEF IInv, TypeOK
    <2> QED
      BY <1>1, <2>1, <2>2 DEF TypeOK, RestOK, AwaitStates
  <1>3. Exclusive'
    BY <1>1 DEF IInv, Exclusive
  <1>4. ASSUME NEW s \in Tasks, s # t, pc[s] # "idle"
        PROVE  TaskOK(s)'
    <2>1. cur[s] \in Ucers /\ cur[s] # cur[t] /\ Id(s) \in CommandIds
      BY <1>4, TaskHasObject DEF IInv, Exclusive
    <2>2. /\ U(s)' = U(s) /\ Id(s)' = Id(s) /\ pc'[s] = pc[s]
          /\ events'[s] = events[s] /\ granted'[s] = granted[s]
      BY <1>1, <1>4, <2>1 DEF U, Id
    <2>3. db[Id(s)] # NoRecord => (db[Id(s)])' # NoRecord
      BY <2>1, <2>2 DEF RecordsStay
    <2>4. TaskOK(s)
      BY DEF IInv
    <2> QED
      BY <2>2, <2>3, <2>4 DEF TaskOK
  <1>5. ASSUME NEW s \in Tasks, s # t, pc[s] = "idle"
        PROVE  TaskOK(s)'
    BY <1>1, <1>5 DEF TaskOK
  <1> QED
    BY <1>2, <1>3, <1>4, <1>5 DEF IInv

\* A step of a task on its own object, with no save going on without it,
\* leaves the objects honest unless it completes one that did not succeed.
LEMMA OwnObjectHonest ==
    ASSUME IInv, NEW t \in Tasks, pc[t] # "idle", NEW u \in Ucer, SetU(t, u),
           u.status = "completed" => Succeeded(u),
           NEW p \in AwaitStates, Goto(t, p), UNCHANGED <<cur, late, overtaken>>
    PROVE  ObjectsHonest'
  <1>1. /\ cur[t] \in Ucers
        /\ obj \in [Ucers -> Ucer] /\ obj'[cur[t]] = u
        /\ \A o \in Ucers \ {cur[t]} : obj'[o] = obj[o]
        /\ \A s \in Tasks : pc'[s] # "idle" => pc[s] # "idle"
    BY TaskHasObject DEF IInv, TypeOK, SetU, Goto
  <1>2. ObjectsHonest /\ late \in SUBSET Save
    BY DEF IInv, TypeOK
  <1>3. \A o \in Ucers : obj'[o].status = "completed" => Succeeded(obj'[o])
    BY <1>1, <1>2 DEF ObjectsHonest
  <1>4. ASSUME NEW w \in late, w.value = NoRecord
        PROVE  Tells(obj[w.of], IdOf[w.of])'
    <2>1. w.of \in Ucers
      BY <1>2 DEF Save
    <2>2. CASE w.of = cur[t]
      <3>1. IdOf[w.of] \in overtaken
        BY <1>2, <1>4, <2>2 DEF ObjectsHonest, Unread
      <3> QED
        BY <1>1, <2>2, <3>1 DEF Tells
    <2>3. CASE w.of # cur[t]
      BY <1>1, <1>2, <1>4, <2>1, <2>3 DEF ObjectsHonest, Tells
    <2> QED
      BY <2>2, <2>3
  <1>5. \A s \in Tasks : pc'[s] # "idle" /\ Unread(cur[s])' => IdOf[cur'[s]] \in overtaken'
    BY <1>1, <1>2 DEF ObjectsHonest, Unread
  <1> QED
    BY <1>3, <1>4, <1>5 DEF ObjectsHonest

\* What the invariant says of the part that RestOK names.
LEMMA RestIsOK == IInv => RestOK
  BY DEF IInv, TypeOK, RestOK

\* A save of an honest object keeps the records honest and loses none.
LEMMA SaveIsHonest ==
    ASSUME IInv, NEW t \in Tasks, pc[t] # "idle", Honest(U(t)),
           db' = [db EXCEPT ![Id(t)] = U(t)], UNCHANGED <<late, overtaken>>
    PROVE  /\ db' \in [CommandIds -> Ucer \union {NoRecord}]
           /\ db'[Id(t)] # NoRecord
           /\ RecordsStay /\ RecordsHonest'
  <1>1. U(t) \in Ucer /\ U(t) # NoRecord /\ Id(t) \in CommandIds
    BY TaskHasObject, NullAssumption DEF IInv
  <1>2. /\ db \in [CommandIds -> Ucer \union {NoRecord}]
        /\ RecordsHonest
    BY DEF IInv, TypeOK
  <1>3. /\ db' \in [CommandIds -> Ucer \union {NoRecord}]
        /\ db'[Id(t)] = U(t)
        /\ \A i \in CommandIds : i # Id(t) => db'[i] = db[i]
    BY <1>1, <1>2
  <1>4. RecordsStay
    BY <1>1, <1>3 DEF RecordsStay
  <1>5. RecordsHonest'
    BY <1>1, <1>2, <1>3 DEF RecordsHonest, Tells, Honest
  <1> QED
    BY <1>1, <1>3, <1>4, <1>5

\* Nothing saved: the records are as honest as before.
LEMMA NoSaveIsHonest ==
    ASSUME IInv, UNCHANGED <<db, late, overtaken>>
    PROVE  RecordsStay /\ RecordsHonest'
  BY DEF IInv, RecordsStay, RecordsHonest, Tells

-----------------------------------------------------------------------------
(* The actions.                                                            *)

\* Init establishes the invariant.
LEMMA InitIInv == Init => IInv
  <1> SUFFICES ASSUME Init PROVE IInv
    OBVIOUS
  <1>1. PICK plan \in [CommandIds -> Plans] :
          obj = [o \in Ucers |-> [plan |-> plan[IdOf[o]], caps |-> {}, hash |-> NoHash,
                                  status |-> "pending", traces |-> << >>]]
    BY DEF Init
  <1>2. obj \in [Ucers -> Ucer]
    <2>1. \A o \in Ucers : plan[IdOf[o]] \in Plans
      BY PipelineAssumption
    <2>2. << >> \in Seq(Results)
      OBVIOUS
    <2> QED
      BY <1>1, <2>1, <2>2 DEF Ucer
  <1>3. /\ \A t \in Tasks : pc[t] = "idle"
        /\ \A i \in CommandIds : db[i] = NoRecord
        /\ \A o \in Ucers : obj[o].status = "pending"
        /\ late = {} /\ overtaken = {}
    BY <1>1 DEF Init
  <1>4. TypeOK
    BY <1>2, PipelineAssumption DEF Init, TypeOK
  <1>5. Exclusive /\ RecordsHonest /\ ObjectsHonest /\ \A t \in Tasks : TaskOK(t)
    BY <1>3 DEF Exclusive, RecordsHonest, ObjectsHonest, TaskOK
  <1> QED
    BY <1>4, <1>5 DEF IInv

\* A task takes an object that no other task has.
LEMMA ExecuteUcerKeepsIInv ==
    ASSUME IInv, NEW t \in Tasks, NEW o \in Ucers, NEW caps \in SUBSET Capabilities,
           ExecuteUcer(t, o, caps)
    PROVE  IInv'
  <1>1. /\ pc[t] = "idle" /\ \A s \in Tasks : pc[s] # "idle" => cur[s] # o
        /\ pc' = [pc EXCEPT ![t] = "reading"]
        /\ cur' = [cur EXCEPT ![t] = o]
        /\ granted' = [granted EXCEPT ![t] = caps]
        /\ events' = [events EXCEPT ![t] = [good |-> 0, bad |-> 0]]
        /\ attempts < MaxAttempts /\ attempts' = attempts + 1
        /\ overtaken' = IF Unread(o) THEN overtaken \union {IdOf[o]} ELSE overtaken
        /\ UNCHANGED <<obj, gone, db, late, faults>>
    BY DEF ExecuteUcer, Goto, InUse
  <1>2. TypeOK'
    <2>1. attempts' \in 0 .. MaxAttempts
      BY <1>1, PipelineAssumption DEF IInv, TypeOK
    <2>2. events' \in [Tasks -> [good : Nat, bad : Nat]]
      BY <1>1 DEF IInv, TypeOK
    <2>3. /\ pc' \in [Tasks -> AwaitStates]
          /\ cur' \in [Tasks -> Ucers \union {NoUcer}]
          /\ \A s \in Tasks : pc'[s] # "idle" => cur'[s] \in Ucers
          /\ granted' \in [Tasks -> SUBSET Capabilities]
      BY <1>1 DEF IInv, TypeOK, AwaitStates
    <2>4. overtaken' \in SUBSET CommandIds
      BY <1>1, PipelineAssumption DEF IInv, TypeOK
    <2> QED
      BY <1>1, <2>1, <2>2, <2>3, <2>4 DEF IInv, TypeOK, AwaitStates
  <1>3. Exclusive'
    BY <1>1 DEF IInv, TypeOK, Exclusive
  <1>4. ASSUME NEW s \in Tasks PROVE TaskOK(s)'
    <2>1. CASE s = t
      BY <1>1, <2>1 DEF IInv, TypeOK, TaskOK
    <2>2. CASE s # t
      <3>1. /\ pc'[s] = pc[s] /\ cur'[s] = cur[s]
            /\ granted'[s] = granted[s] /\ events'[s] = events[s]
        BY <1>1, <2>2 DEF IInv, TypeOK
      <3>2. TaskOK(s)
        BY DEF IInv
      <3> QED
        BY <1>1, <3>1, <3>2 DEF TaskOK, U, Id
    <2> QED
      BY <2>1, <2>2
  <1>5. RecordsHonest'
    BY <1>1 DEF IInv, RecordsHonest, Tells
  <1>6. ObjectsHonest'
    <2>1. ObjectsHonest /\ overtaken \subseteq overtaken'
      BY <1>1 DEF IInv
    <2>2. ASSUME NEW s \in Tasks, pc'[s] # "idle", Unread(cur'[s])
          PROVE  IdOf[cur'[s]] \in overtaken'
      <3>1. CASE s = t
        BY <1>1, <2>2, <3>1 DEF IInv, TypeOK
      <3>2. CASE s # t
        BY <1>1, <2>1, <2>2, <3>2 DEF IInv, TypeOK, ObjectsHonest
      <3> QED
        BY <3>1, <3>2
    <2> QED
      BY <1>1, <2>1, <2>2 DEF ObjectsHonest, Tells, Unread
  <1> QED
    BY <1>2, <1>3, <1>4, <1>5, <1>6 DEF IInv

\* An object is edited only while no task has it.
LEMMA EditKeepsIInv ==
    ASSUME IInv, NEW o \in Ucers, NEW plan \in Plans, Edit(o, plan)
    PROVE  IInv'
  <1>1. /\ \A s \in Tasks : pc[s] # "idle" => cur[s] # o
        /\ obj' = [obj EXCEPT ![o].plan = plan]
        /\ UNCHANGED <<gone, pc, cur, granted, events, db, late, overtaken, attempts, faults>>
    BY DEF Edit, InUse, taskVars, lateVars, bounds
  <1>2. obj' \in [Ucers -> Ucer]
    <2>1. obj \in [Ucers -> Ucer] /\ obj[o] \in Ucer
      BY DEF IInv, TypeOK
    <2>2. [obj[o] EXCEPT !.plan = plan] \in Ucer
      BY <2>1 DEF Ucer
    <2>3. obj' = [obj EXCEPT ![o] = [obj[o] EXCEPT !.plan = plan]]
      BY <1>1, <2>1
    <2> QED
      BY <2>1, <2>2, <2>3
  <1>3. TypeOK' /\ Exclusive'
    BY <1>1, <1>2 DEF IInv, TypeOK, Exclusive
  <1>4. ASSUME NEW s \in Tasks PROVE TaskOK(s)'
    <2>1. CASE pc[s] = "idle"
      BY <1>1, <2>1 DEF TaskOK
    <2>2. CASE pc[s] # "idle"
      <3>1. cur[s] \in Ucers /\ cur[s] # o
        BY <1>1, <2>2, TaskHasObject DEF IInv
      <3>2. U(s)' = U(s) /\ Id(s)' = Id(s)
        BY <1>1, <3>1 DEF IInv, TypeOK, U, Id
      <3>3. TaskOK(s)
        BY DEF IInv
      <3> QED
        BY <1>1, <3>2, <3>3 DEF TaskOK
    <2> QED
      BY <2>1, <2>2
  <1>5. RecordsHonest'
    BY <1>1, NoSaveIsHonest
  <1>6. ObjectsHonest'
    <2>1. ASSUME NEW q \in Ucers
          PROVE  obj'[q].status = obj[q].status /\ (Succeeded(obj'[q]) <=> Succeeded(obj[q]))
      <3>1. /\ obj'[q].status = obj[q].status /\ obj'[q].hash = obj[q].hash
            /\ obj'[q].traces = obj[q].traces
        BY <1>1 DEF IInv, TypeOK, Ucer
      <3> QED
        BY <3>1 DEF Succeeded
    <2>2. ObjectsHonest /\ \A w \in late : w.of \in Ucers
      BY DEF IInv, TypeOK, Save
    <2> QED
      BY <1>1, <2>1, <2>2 DEF ObjectsHonest, Tells, Unread
  <1> QED
    BY <1>3, <1>4, <1>5, <1>6 DEF IInv

\* A task that leaves the pipeline, with its object in whatever state, takes
\* nothing with it that others rely on.
LEMMA LeavingKeepsIInv ==
    ASSUME IInv, NEW t \in Tasks, pc[t] # "idle", NEW u \in Ucer, SetU(t, u),
           Goto(t, "idle"), UNCHANGED <<cur, granted, events>>,
           RestOK', RecordsStay, RecordsHonest', ObjectsHonest'
    PROVE  IInv'
  <1>1. pc'[t] = "idle"
    BY DEF IInv, TypeOK, Goto
  <1>2. TaskOK(t)'
    BY <1>1 DEF TaskOK
  <1> QED
    BY <1>2, OneTaskSuffices DEF AwaitStates

\* An object that does not change is set to itself.
LEMMA SameObject ==
    ASSUME TypeOK, NEW t \in Tasks, pc[t] # "idle", UNCHANGED obj
    PROVE  SetU(t, U(t))
  BY TaskHasObject DEF TypeOK, SetU, U

\* A UCER that is refused, by the integrity check or by the gate.
LEMMA RefusalKeepsIInv ==
    ASSUME IInv, NEW t \in Tasks, IntegrityFails(t) \/ PolicyRefuses(t)
    PROVE  IInv'
  <1>1. /\ pc[t] = "reading" /\ Goto(t, "idle")
        /\ UNCHANGED <<gone, cur, granted, events, db, late, overtaken, attempts, faults>>
    BY DEF IntegrityFails, PolicyRefuses, PassesCrypto, lateVars, bounds
  <1>2. U(t) \in Ucer
    BY <1>1, TaskHasObject DEF IInv
  <1>3. PICK u \in Ucer : SetU(t, u) /\ (u.status = "completed" => Succeeded(u))
    <2>1. U(t).status = "completed" => Succeeded(U(t))
      BY <1>1, TaskHasObject DEF IInv, ObjectsHonest, U
    <2>2. CASE IntegrityFails(t)
      <3>1. /\ [U(t) EXCEPT !.status = "failed"] \in Ucer
            /\ [U(t) EXCEPT !.status = "failed"].status = "failed"
        BY <1>2 DEF Ucer
      <3> QED
        BY <2>2, <3>1 DEF IntegrityFails
    <2>3. CASE PolicyRefuses(t)
      <3>1. PICK v \in {Signed(U(t)), Aggregated(Signed(U(t)), granted[t])} : SetU(t, v)
        BY <2>3 DEF PolicyRefuses
      <3>2. v \in Ucer
        BY <1>2, <3>1, SignedAndAggregated
      <3>3. v.status = U(t).status /\ (Succeeded(U(t)) => Succeeded(v))
        BY <1>2, <3>1, SignedKeepsOutcome
      <3> QED
        BY <2>1, <3>1, <3>2, <3>3
    <2> QED
      BY <1>1, <2>2, <2>3
  <1>4. RestOK'
    BY <1>1, RestIsOK DEF RestOK
  <1>5. RecordsStay /\ RecordsHonest'
    BY <1>1, NoSaveIsHonest
  <1>6. ObjectsHonest'
    BY <1>1, <1>3, OwnObjectHonest DEF AwaitStates
  <1> QED
    BY <1>1, <1>3, <1>4, <1>5, <1>6, LeavingKeepsIInv

\* An admitted UCER is signed, and allowed as a whole.
LEMMA AdmittedUcer ==
    ASSUME NEW u \in Ucer, NEW caps, u.hash = NoHash \/ VerifyIntegrity(u),
           Exec \in caps, Refused(u.plan, caps) = {}
    PROVE  \E v \in Ucer :
              /\ v = [Aggregated(Signed(u), caps) EXCEPT !.status = "running", !.traces = << >>]
              /\ Admitted(v, caps) /\ PlanSigned(v)
              /\ v.status = "running" /\ v.traces = << >>
  <1>1. PICK a \in Ucer : /\ a = Aggregated(Signed(u), caps)
                          /\ a.plan = u.plan /\ PlanSigned(a)
    BY SignedAndAggregated
  <1>2. PICK v : v = [a EXCEPT !.status = "running", !.traces = << >>]
    OBVIOUS
  <1>3. /\ v \in Ucer /\ v.plan = a.plan /\ v.hash = a.hash
        /\ v.status = "running" /\ v.traces = << >>
    <2>1. << >> \in Seq(Results)
      OBVIOUS
    <2> QED
      BY <1>2, <2>1 DEF Ucer
  <1>4. Admitted(v, caps) /\ PlanSigned(v)
    BY <1>1, <1>3, NothingRefused DEF Admitted, PlanSigned
  <1> QED
    BY <1>1, <1>2, <1>3, <1>4

\* Admission establishes what the later awaits rely on.
LEMMA AdmitKeepsIInv ==
    ASSUME IInv, NEW t \in Tasks, Admit(t)
    PROVE  IInv'
  <1>1. /\ pc[t] = "reading"
        /\ U(t).hash = NoHash \/ VerifyIntegrity(U(t))
        /\ Exec \in granted[t] /\ Refused(U(t).plan, granted[t]) = {}
        /\ Goto(t, "saving")
        /\ UNCHANGED <<gone, cur, granted, events, db, late, overtaken, attempts, faults>>
    BY DEF Admit, PassesCrypto, lateVars, bounds
  <1>2. cur[t] \in Ucers /\ U(t) \in Ucer
    BY <1>1, TaskHasObject DEF IInv
  <1>3. PICK v \in Ucer : /\ v = [Aggregated(Signed(U(t)), granted[t]) EXCEPT
                                  !.status = "running", !.traces = << >>]
                          /\ Admitted(v, granted[t]) /\ PlanSigned(v)
                          /\ v.status = "running" /\ v.traces = << >>
    BY <1>1, <1>2, AdmittedUcer
  <1>4. SetU(t, v)
    BY <1>3 DEF Admit
  <1>5. pc'[t] = "saving" /\ U(t)' = v
    BY <1>1, <1>2, <1>4 DEF IInv, TypeOK, Goto, SetU, U
  <1>6. events[t].good = 0
    BY <1>1 DEF IInv, TaskOK
  <1>7. TaskOK(t)'
    BY <1>1, <1>3, <1>5, <1>6 DEF TaskOK
  <1>8. RestOK' /\ RecordsStay /\ RecordsHonest'
    BY <1>1, RestIsOK, NoSaveIsHonest DEF RestOK
  <1>9. ObjectsHonest'
    BY <1>1, <1>3, <1>4, OwnObjectHonest DEF AwaitStates
  <1> QED
    BY <1>1, <1>4, <1>7, <1>8, <1>9, OneTaskSuffices DEF AwaitStates

\* Control leaves the engine with an honest final status.
LEMMA CloseKeepsIInv ==
    ASSUME IInv, NEW t \in Tasks, pc[t] # "idle", NEW u \in Ucer, NEW raised \in BOOLEAN,
           Close(t, u, raised), PlanSigned(u),
           (~raised /\ u.status # "failed") <=> (Len(u.traces) = Len(u.plan) /\ AllOk(u.traces)),
           events'[t].good = Cardinality(OkSteps(u.traces)),
           UNCHANGED <<cur, granted, late, overtaken>>, \A s \in Tasks \ {t} : events'[s] = events[s],
           RestOK', RecordsStay, RecordsHonest'
    PROVE  IInv'
  <1> DEFINE v == Conclude(u, raised)
  <1>1. v \in Ucer /\ v.traces = u.traces /\ Honest(v)
    BY ConcludeHonest
  <1>2. SetU(t, v) /\ Goto(t, "closing")
    BY DEF Close
  <1> HIDE DEF v
  <1>3. cur[t] \in Ucers
    BY TaskHasObject DEF IInv
  <1>4. pc'[t] = "closing" /\ U(t)' = v
    BY <1>2, <1>3 DEF IInv, TypeOK, Goto, SetU, U
  <1>5. TaskOK(t)'
    BY <1>1, <1>4 DEF TaskOK
  <1>6. ObjectsHonest'
    BY <1>1, <1>2, OwnObjectHonest DEF AwaitStates, Honest
  <1> QED
    BY <1>1, <1>2, <1>5, <1>6, OneTaskSuffices DEF AwaitStates

\* The engine goes on with the next step, or is done.
LEMMA ProceedKeepsIInv ==
    ASSUME IInv, NEW t \in Tasks, pc[t] # "idle", NEW u \in Ucer, Proceed(t, u),
           u.status = "running", AllOk(u.traces), Len(u.traces) <= Len(u.plan),
           Admitted(u, granted[t]), PlanSigned(u),
           events'[t].good = Cardinality(OkSteps(u.traces)), (db[Id(t)])' # NoRecord,
           UNCHANGED <<cur, granted, late, overtaken>>, \A s \in Tasks \ {t} : events'[s] = events[s],
           RestOK', RecordsStay, RecordsHonest'
    PROVE  IInv'
  <1>1. CASE Len(u.traces) < Len(u.plan)
    <2>1. SetU(t, u) /\ Goto(t, "stepping")
      BY <1>1 DEF Proceed
    <2>2. cur[t] \in Ucers
      BY TaskHasObject DEF IInv
    <2>3. pc'[t] = "stepping" /\ U(t)' = u
      BY <2>1, <2>2 DEF IInv, TypeOK, Goto, SetU, U
    <2>4. TaskOK(t)'
      BY <1>1, <2>3 DEF TaskOK
    <2>5. ObjectsHonest'
      BY <2>1, OwnObjectHonest DEF AwaitStates
    <2> QED
      BY <2>1, <2>4, <2>5, OneTaskSuffices DEF AwaitStates
  <1>2. CASE ~(Len(u.traces) < Len(u.plan))
    <2>1. Close(t, u, FALSE)
      BY <1>2 DEF Proceed
    <2>2. Len(u.traces) = Len(u.plan)
      <3>1. Len(u.traces) \in Nat /\ Len(u.plan) \in Nat
        BY PipelineAssumption DEF Ucer
      <3> QED
        BY <1>2, <3>1
    <2> QED
      BY <2>1, <2>2, CloseKeepsIInv
  <1> QED
    BY <1>1, <1>2

\* The first save is made before the first step.
LEMMA RunningSavedKeepsIInv ==
    ASSUME IInv, NEW t \in Tasks, RunningSaved(t)
    PROVE  IInv'
  <1>1. /\ pc[t] = "saving"
        /\ db' = [db EXCEPT ![Id(t)] = U(t)]
        /\ Proceed(t, U(t))
        /\ UNCHANGED <<gone, cur, granted, events, late, overtaken, attempts, faults>>
    BY DEF RunningSaved, RecordFirst, lateVars, bounds
  <1>2. U(t) \in Ucer /\ TaskOK(t)
    BY <1>1, TaskHasObject DEF IInv
  <1>3. /\ U(t).status = "running" /\ U(t).traces = << >>
        /\ Admitted(U(t), granted[t]) /\ PlanSigned(U(t))
        /\ events[t].good = 0
    BY <1>1, <1>2 DEF TaskOK
  <1>4. Honest(U(t))
    BY <1>3 DEF Honest
  <1>5. /\ db' \in [CommandIds -> Ucer \union {NoRecord}] /\ db'[Id(t)] # NoRecord
        /\ RecordsStay /\ RecordsHonest'
    BY <1>1, <1>4, SaveIsHonest
  <1>6. RestOK'
    BY <1>1, <1>5, RestIsOK DEF RestOK
  <1>7. AllOk(U(t).traces) /\ Len(U(t).traces) <= Len(U(t).plan)
    <2>1. Len(U(t).plan) \in Nat
      BY <1>2, PipelineAssumption DEF Ucer
    <2>2. Len(<< >>) = 0 /\ DOMAIN << >> = {}
      OBVIOUS
    <2> QED
      BY <1>3, <2>1, <2>2 DEF AllOk
  <1>8. Cardinality(OkSteps(U(t).traces)) = 0
    <2>1. OkSteps(U(t).traces) = {}
      BY <1>3 DEF OkSteps
    <2> QED
      BY <2>1, FS_EmptySet
  <1>9. (db[Id(t)])' # NoRecord
    BY <1>1, <1>5 DEF Id
  <1> QED
    BY <1>1, <1>2, <1>3, <1>5, <1>6, <1>7, <1>8, <1>9, ProceedKeepsIInv

\* Emitting changes the count of its own task only.
LEMMA Emitted ==
    ASSUME IInv, NEW t \in Tasks, NEW success \in BOOLEAN, Emit(t, success)
    PROVE  /\ events' \in [Tasks -> [good : Nat, bad : Nat]]
           /\ events'[t].good = events[t].good + (IF success THEN 1 ELSE 0)
           /\ \A s \in Tasks \ {t} : events'[s] = events[s]
  <1>1. events \in [Tasks -> [good : Nat, bad : Nat]] /\ events[t].good \in Nat
    BY DEF IInv, TypeOK
  <1>2. CASE success
    <2>1. events' = [events EXCEPT ![t].good = events[t].good + 1]
      BY <1>2 DEF Emit
    <2>2. /\ events' \in [Tasks -> [good : Nat, bad : Nat]]
          /\ events'[t].good = events[t].good + 1
          /\ \A s \in Tasks \ {t} : events'[s] = events[s]
      BY <1>1, <2>1
    <2>3. (IF success THEN 1 ELSE 0) = 1
      BY <1>2
    <2> QED
      BY <2>2, <2>3
  <1>3. CASE ~success
    <2>1. events' = [events EXCEPT ![t].bad = events[t].bad + 1]
      BY <1>3 DEF Emit
    <2>2. /\ events' \in [Tasks -> [good : Nat, bad : Nat]]
          /\ events'[t].good = events[t].good
          /\ \A s \in Tasks \ {t} : events'[s] = events[s]
      BY <1>1, <2>1
    <2>3. events[t].good + (IF success THEN 1 ELSE 0) = events[t].good
      BY <1>1, <1>3
    <2> QED
      BY <2>2, <2>3
  <1> QED
    BY <1>2, <1>3

\* What is known of a task that is about to run a step.
LEMMA Stepping ==
    ASSUME IInv, NEW t \in Tasks, pc[t] = "stepping"
    PROVE  /\ U(t) \in Ucer /\ U(t).status = "running"
           /\ Admitted(U(t), granted[t]) /\ PlanSigned(U(t))
           /\ AllOk(U(t).traces) /\ Len(U(t).traces) < Len(U(t).plan)
           /\ Len(U(t).traces) \in Nat /\ Len(U(t).plan) \in Nat
           /\ db[Id(t)] # NoRecord
           /\ events[t].good = Cardinality(OkSteps(U(t).traces))
  <1>1. U(t) \in Ucer /\ TaskOK(t)
    BY TaskHasObject DEF IInv
  <1>2. Len(U(t).traces) \in Nat /\ Len(U(t).plan) \in Nat
    BY <1>1, PipelineAssumption DEF Ucer
  <1> QED
    BY <1>1, <1>2 DEF TaskOK

\* A step that succeeds is traced, reported and followed by the next one.
LEMMA StepSucceedsKeepsIInv ==
    ASSUME IInv, NEW t \in Tasks, StepSucceeds(t)
    PROVE  IInv'
  <1>1. /\ pc[t] = "stepping" /\ Emit(t, TRUE)
        /\ UNCHANGED <<gone, cur, granted, db, late, overtaken, attempts, faults>>
    BY DEF StepSucceeds, lateVars, bounds
  <1>2. PICK v \in Ucer :
          /\ v = WithTrace(U(t), "ok")
          /\ v.plan = U(t).plan /\ v.hash = U(t).hash /\ v.status = "running"
          /\ Len(v.traces) = Len(U(t).traces) + 1 /\ AllOk(v.traces)
          /\ Cardinality(OkSteps(v.traces)) = Cardinality(OkSteps(U(t).traces)) + 1
    BY <1>1, Stepping, TraceAppended DEF Results
  <1>3. Proceed(t, v)
    BY <1>2 DEF StepSucceeds
  <1>4. /\ Admitted(v, granted[t]) /\ PlanSigned(v) /\ Len(v.traces) <= Len(v.plan)
        /\ db[Id(t)] # NoRecord
    BY <1>1, <1>2, Stepping DEF Admitted, PlanSigned
  <1>5. events'[t].good = Cardinality(OkSteps(v.traces))
    BY <1>1, <1>2, Stepping, Emitted
  <1>6. RestOK' /\ RecordsStay /\ RecordsHonest'
    BY <1>1, RestIsOK, Emitted, NoSaveIsHonest DEF RestOK
  <1>7. (db[Id(t)])' # NoRecord
    BY <1>1, <1>4 DEF Id
  <1> QED
    BY <1>1, <1>2, <1>3, <1>4, <1>5, <1>6, <1>7, Emitted, ProceedKeepsIInv

\* A step that exits with another code ends the execution as failed.
LEMMA StepExitsNonzeroKeepsIInv ==
    ASSUME IInv, NEW t \in Tasks, StepExitsNonzero(t)
    PROVE  IInv'
  <1>1. /\ pc[t] = "stepping"
        /\ UNCHANGED <<gone, cur, granted, events, db, late, overtaken, attempts, faults>>
    BY DEF StepExitsNonzero, lateVars, bounds
  <1>2. PICK v \in Ucer :
          /\ v = WithTrace(U(t), "nonzero") /\ ~AllOk(v.traces) /\ PlanSigned(v)
          /\ Cardinality(OkSteps(v.traces)) = Cardinality(OkSteps(U(t).traces))
    <2>1. Cardinality(OkSteps(U(t).traces)) = events[t].good /\ events[t].good \in Nat
      BY <1>1, Stepping DEF IInv, TypeOK
    <2> QED
      BY <1>1, <2>1, Stepping, TraceAppended DEF Results, PlanSigned
  <1>3. PICK f \in Ucer : /\ f = [v EXCEPT !.status = "failed"]
                          /\ f.status = "failed" /\ f.traces = v.traces /\ PlanSigned(f)
    <2>1. [v EXCEPT !.status = "failed"] \in Ucer
      BY DEF Ucer
    <2>2. /\ [v EXCEPT !.status = "failed"].status = "failed"
          /\ [v EXCEPT !.status = "failed"].traces = v.traces
          /\ PlanSigned([v EXCEPT !.status = "failed"])
      BY <1>2 DEF Ucer, PlanSigned
    <2> QED
      BY <2>1, <2>2
  <1>4. Close(t, f, FALSE)
    BY <1>2, <1>3 DEF StepExitsNonzero, Fails
  <1>5. events'[t].good = Cardinality(OkSteps(f.traces))
    BY <1>1, <1>2, <1>3, Stepping
  <1>6. RestOK' /\ RecordsStay /\ RecordsHonest'
    BY <1>1, RestIsOK, NoSaveIsHonest DEF RestOK
  <1> QED
    BY <1>1, <1>2, <1>3, <1>4, <1>5, <1>6, CloseKeepsIInv

\* A step that raises leaves no trace and ends the execution as failed.
LEMMA StepRaisesKeepsIInv ==
    ASSUME IInv, NEW t \in Tasks, StepRaises(t)
    PROVE  IInv'
  <1>1. /\ pc[t] = "stepping" /\ Emit(t, FALSE) /\ Close(t, U(t), TRUE)
        /\ UNCHANGED <<gone, cur, granted, db, late, overtaken, attempts, faults>>
    BY DEF StepRaises, lateVars, bounds
  <1>2. events'[t].good = Cardinality(OkSteps(U(t).traces))
    <2>1. events[t].good \in Nat
      BY DEF IInv, TypeOK
    <2>2. events'[t].good = events[t].good + 0
      BY <1>1, Emitted
    <2> QED
      BY <1>1, <2>1, <2>2, Stepping
  <1>3. RestOK' /\ RecordsStay /\ RecordsHonest'
    BY <1>1, RestIsOK, Emitted, NoSaveIsHonest DEF RestOK
  <1>4. Len(U(t).traces) # Len(U(t).plan) /\ U(t) \in Ucer /\ PlanSigned(U(t))
    BY <1>1, Stepping
  <1> QED
    BY <1>1, <1>2, <1>3, <1>4, Emitted, CloseKeepsIInv

\* What a task saves is honest, whether the save is its first or its last.
LEMMA SavedIsHonest ==
    ASSUME IInv, NEW t \in Tasks, pc[t] \in {"saving", "closing"}
    PROVE  Honest(U(t)) /\ U(t) \in Ucer /\ Id(t) \in CommandIds
  <1>1. TaskOK(t) /\ U(t) \in Ucer /\ Id(t) \in CommandIds
    BY TaskHasObject DEF IInv
  <1>2. CASE pc[t] = "saving"
    BY <1>1, <1>2 DEF TaskOK, Honest
  <1>3. CASE pc[t] = "closing"
    BY <1>1, <1>3 DEF TaskOK
  <1> QED
    BY <1>1, <1>2, <1>3

\* A task leaves the pipeline while it saves, and the save is made or is not:
\* it ends, raises, or the process dies.
LEMMA SaveAndLeaveKeepsIInv ==
    ASSUME IInv, NEW t \in Tasks, pc[t] \in {"saving", "closing"},
           db' \in {db, [db EXCEPT ![Id(t)] = U(t)]}, Goto(t, "idle"),
           UNCHANGED <<obj, cur, granted, events, late, overtaken>>,
           gone' \in SUBSET Ucers, faults' \in 0 .. MaxFaults, attempts' = attempts
    PROVE  IInv'
  <1>1. U(t) \in Ucer /\ Honest(U(t))
    BY SavedIsHonest
  <1>2. SetU(t, U(t))
    BY SameObject DEF IInv
  <1>3. /\ db' \in [CommandIds -> Ucer \union {NoRecord}]
        /\ RecordsStay /\ RecordsHonest'
    <2>1. CASE db' = db
      BY <2>1, NoSaveIsHonest DEF IInv, TypeOK
    <2>2. CASE db' = [db EXCEPT ![Id(t)] = U(t)]
      BY <1>1, <2>2, SaveIsHonest
    <2> QED
      BY <2>1, <2>2
  <1>4. RestOK'
    BY <1>3, RestIsOK DEF RestOK
  <1>5. ObjectsHonest'
    BY <1>1, <1>2, OwnObjectHonest DEF AwaitStates, Honest
  <1> QED
    BY <1>1, <1>2, <1>3, <1>4, <1>5, LeavingKeepsIInv

\* A fault leaves the budget in its bounds.
LEMMA FaultSpent ==
    ASSUME IInv, Fault
    PROVE  faults' \in 0 .. MaxFaults /\ attempts' = attempts
  BY PipelineAssumption DEF IInv, TypeOK, Fault

\* Saves that end, and saves that raise.
LEMMA SaveKeepsIInv ==
    ASSUME IInv, NEW t \in Tasks,
           FinalSaved(t) \/ RunningSaveRaises(t) \/ FinalSaveRaises(t)
    PROVE  IInv'
  <1>1. gone \in SUBSET Ucers /\ faults \in 0 .. MaxFaults
    BY DEF IInv, TypeOK
  <1>2. CASE FinalSaved(t)
    BY <1>1, <1>2, SaveAndLeaveKeepsIInv DEF FinalSaved, lateVars, bounds
  <1>3. CASE RunningSaveRaises(t) \/ FinalSaveRaises(t)
    BY <1>1, <1>3, FaultSpent, SaveAndLeaveKeepsIInv DEF RunningSaveRaises, FinalSaveRaises, lateVars
  <1> QED
    BY <1>2, <1>3

\* A process that dies in or between saves.
LEMMA CrashKeepsIInv ==
    ASSUME IInv, NEW t \in Tasks, Crash(t)
    PROVE  IInv'
  <1>1. /\ pc[t] # "idle" /\ Goto(t, "idle")
        /\ gone' = gone \union {cur[t]}
        /\ UNCHANGED <<obj, cur, granted, events, late, overtaken>>
        /\ faults' \in 0 .. MaxFaults /\ attempts' = attempts
    BY FaultSpent DEF Crash, lateVars
  <1>2. cur[t] \in Ucers /\ U(t) \in Ucer
    BY <1>1, TaskHasObject DEF IInv
  <1>3. gone' \in SUBSET Ucers
    BY <1>1, <1>2 DEF IInv, TypeOK
  <1>4. CASE db' = db
    <2>1. SetU(t, U(t))
      BY <1>1, SameObject DEF IInv
    <2>2. RecordsStay /\ RecordsHonest'
      BY <1>1, <1>4, NoSaveIsHonest
    <2>3. RestOK'
      BY <1>1, <1>3, <1>4, RestIsOK DEF RestOK
    <2>4. ObjectsHonest'
      <3>1. U(t).status = "completed" => Succeeded(U(t))
        BY <1>2 DEF IInv, ObjectsHonest, U
      <3> QED
        BY <1>1, <1>2, <2>1, <3>1, OwnObjectHonest DEF AwaitStates
    <2> QED
      BY <1>1, <1>2, <2>1, <2>2, <2>3, <2>4, LeavingKeepsIInv
  <1>5. CASE pc[t] \in {"saving", "closing"} /\ db' = [db EXCEPT ![Id(t)] = U(t)]
    BY <1>1, <1>3, <1>5, SaveAndLeaveKeepsIInv
  <1> QED
    BY <1>4, <1>5 DEF Crash

\* A task cancelled while a step runs goes to its final save; elsewhere it
\* leaves, and a save under way goes on without it.
LEMMA CancelKeepsIInv ==
    ASSUME IInv, NEW t \in Tasks, Cancel(t)
    PROVE  IInv'
  <1>1. /\ UNCHANGED <<obj, gone, cur, granted, events, db, overtaken>>
        /\ faults' \in 0 .. MaxFaults /\ attempts' = attempts
    BY FaultSpent DEF Cancel
  <1>2. ASSUME pc[t] # "idle"
        PROVE  /\ cur[t] \in Ucers /\ U(t) \in Ucer /\ SetU(t, U(t))
               /\ U(t).status = "completed" => Succeeded(U(t))
    BY <1>1, <1>2, TaskHasObject, SameObject DEF IInv, ObjectsHonest, U
  <1>3. CASE pc[t] = "stepping" /\ Goto(t, "closing") /\ late' = late
    <2>1. /\ U(t).status = "running"
          /\ events[t].good = Cardinality(OkSteps(U(t).traces))
      BY <1>3, Stepping
    <2>2. pc'[t] = "closing" /\ U(t)' = U(t) /\ events'[t] = events[t]
      BY <1>1, <1>3 DEF IInv, TypeOK, Goto, U
    <2>3. TaskOK(t)'
      BY <2>1, <2>2 DEF TaskOK, Honest
    <2>4. RestOK' /\ RecordsStay /\ RecordsHonest'
      BY <1>1, <1>3, RestIsOK, NoSaveIsHonest DEF RestOK
    <2>5. ObjectsHonest'
      BY <1>1, <1>2, <1>3, OwnObjectHonest DEF AwaitStates
    <2> QED
      BY <1>1, <1>2, <1>3, <2>3, <2>4, <2>5, OneTaskSuffices DEF AwaitStates
  <1>4. CASE pc[t] = "reading" /\ Goto(t, "idle") /\ late' = late
    <2>1. RestOK' /\ RecordsStay /\ RecordsHonest'
      BY <1>1, <1>4, RestIsOK, NoSaveIsHonest DEF RestOK
    <2>2. ObjectsHonest'
      BY <1>1, <1>2, <1>4, OwnObjectHonest DEF AwaitStates
    <2> QED
      BY <1>1, <1>2, <1>4, <2>1, <2>2, LeavingKeepsIInv
  <1>5. CASE /\ pc[t] \in {"saving", "closing"}
             /\ late' = late \union {[of |-> cur[t], in |-> attempts, value |-> NoRecord]}
             /\ Goto(t, "idle")
    <2>1. Honest(U(t)) /\ U(t) \in Ucer /\ Id(t) \in CommandIds
      BY <1>5, SavedIsHonest
    <2> DEFINE new == [of |-> cur[t], in |-> attempts, value |-> NoRecord]
    <2>2. /\ new \in Save /\ new.of = cur[t] /\ new.value = NoRecord
          /\ late' = late \union {new}
      BY <1>2, <1>5 DEF IInv, TypeOK, Save
    <2> HIDE DEF new
    <2>3. RecordsStay /\ RecordsHonest'
      <3>1. RecordsHonest
        BY DEF IInv
      <3> QED
        BY <1>1, <2>2, <3>1 DEF RecordsStay, RecordsHonest, Tells
    <2>4. RestOK'
      <3>1. late' \in SUBSET Save
        BY <2>2 DEF IInv, TypeOK
      <3> QED
        BY <1>1, <3>1, RestIsOK DEF RestOK
    <2>5. ObjectsHonest'
      <3>1. ObjectsHonest /\ Exclusive
        BY DEF IInv
      <3>2. Tells(obj[new.of], IdOf[new.of])
        BY <2>1, <2>2 DEF Honest, Tells, U
      <3>3. ASSUME NEW s \in Tasks, pc'[s] # "idle", Unread(cur[s])'
            PROVE  IdOf[cur[s]] \in overtaken
        <4>1. s # t /\ pc[s] # "idle"
          BY <1>5, <3>3 DEF IInv, TypeOK, Goto
        <4>2. cur[s] # cur[t]
          BY <1>5, <3>1, <4>1 DEF Exclusive
        <4>3. Unread(cur[s])
          BY <1>1, <2>2, <3>3, <4>2 DEF Unread
        <4> QED
          BY <3>1, <4>1, <4>3 DEF ObjectsHonest
      <3> QED
        BY <1>1, <2>2, <3>1, <3>2, <3>3 DEF ObjectsHonest, Tells
    <2> QED
      BY <1>1, <1>2, <1>5, <2>3, <2>4, <2>5, LeavingKeepsIInv
  <1> QED
    BY <1>3, <1>4, <1>5 DEF Cancel

\* What the thread of a cancelled save does concerns no task as long as
\* records stay.
LEMMA LateKeepsTasks ==
    ASSUME IInv, UNCHANGED <<obj, gone, pc, cur, granted, events, attempts, faults>>, RecordsStay
    PROVE  Exclusive' /\ \A t \in Tasks : TaskOK(t)'
  <1>1. Exclusive'
    BY DEF IInv, Exclusive
  <1>2. ASSUME NEW t \in Tasks PROVE TaskOK(t)'
    <2>1. TaskOK(t)
      BY DEF IInv
    <2>2. U(t)' = U(t) /\ Id(t)' = Id(t)
      BY DEF U, Id
    <2>3. pc[t] # "idle" /\ db[Id(t)] # NoRecord => (db[Id(t)])' # NoRecord
      BY <2>2, TaskHasObject DEF IInv, RecordsStay
    <2> QED
      BY <2>1, <2>2, <2>3 DEF TaskOK
  <1> QED
    BY <1>1, <1>2

\* The thread of a cancelled save reads an object that tells the outcome,
\* or was submitted again.
LEMMA LateDumpKeepsIInv ==
    ASSUME IInv, LateDump
    PROVE  IInv'
  <1>1. PICK w \in late : /\ w.value = NoRecord
                          /\ late' = (late \ {w}) \union {[w EXCEPT !.value = obj[w.of]]}
                          /\ UNCHANGED <<obj, gone, pc, cur, granted, events, db, overtaken,
                                         attempts, faults>>
    BY DEF LateDump, taskVars, bounds
  <1> DEFINE new == [w EXCEPT !.value = obj[w.of]]
  <1>2. /\ w.of \in Ucers /\ obj[w.of] \in Ucer /\ w \in Save
        /\ Tells(obj[w.of], IdOf[w.of])
    BY <1>1 DEF IInv, TypeOK, Save, ObjectsHonest
  <1>3. /\ new \in Save /\ new.of = w.of /\ new.value = obj[w.of] /\ new.value # NoRecord
        /\ late' = (late \ {w}) \union {new}
    BY <1>1, <1>2, NullAssumption DEF Save
  <1> HIDE DEF new
  <1>4. TypeOK'
    <2>1. late' \in SUBSET Save
      BY <1>3 DEF IInv, TypeOK
    <2> QED
      BY <1>1, <2>1 DEF IInv, TypeOK
  <1>5. RecordsHonest'
    <2>1. RecordsHonest
      BY DEF IInv
    <2> QED
      BY <1>1, <1>2, <1>3, <2>1 DEF RecordsHonest, Tells
  <1>6. ObjectsHonest'
    <2>1. ObjectsHonest
      BY DEF IInv
    <2> QED
      BY <1>1, <1>3, <2>1 DEF ObjectsHonest, Tells, Unread
  <1>7. RecordsStay
    BY <1>1 DEF RecordsStay
  <1> QED
    BY <1>1, <1>4, <1>5, <1>6, <1>7, LateKeepsTasks DEF IInv

\* A late save may overwrite what a task has saved, but removes no record.
LEMMA LateSaveKeepsIInv ==
    ASSUME IInv, LateSave
    PROVE  IInv'
  <1>1. PICK w \in late : /\ w.value # NoRecord
                          /\ db' = [db EXCEPT ![IdOf[w.of]] = w.value]
                          /\ late' = late \ {w}
                          /\ UNCHANGED <<obj, gone, pc, cur, granted, events, overtaken,
                                         attempts, faults>>
    BY DEF LateSave, taskVars, bounds
  <1>2. /\ IdOf[w.of] \in CommandIds /\ w.value \in Ucer
        /\ Tells(w.value, IdOf[w.of])
    BY <1>1, PipelineAssumption DEF IInv, TypeOK, Save, RecordsHonest
  <1>3. /\ db' \in [CommandIds -> Ucer \union {NoRecord}]
        /\ db'[IdOf[w.of]] = w.value
        /\ \A i \in CommandIds : i # IdOf[w.of] => db'[i] = db[i]
    BY <1>1, <1>2 DEF IInv, TypeOK
  <1>4. TypeOK'
    <2>1. late' \in SUBSET Save
      BY <1>1 DEF IInv, TypeOK
    <2> QED
      BY <1>1, <1>3, <2>1 DEF IInv, TypeOK
  <1>5. RecordsHonest'
    <2>1. RecordsHonest
      BY DEF IInv
    <2> QED
      BY <1>1, <1>2, <1>3, <2>1 DEF RecordsHonest, Tells
  <1>6. ObjectsHonest'
    <2>1. ObjectsHonest
      BY DEF IInv
    <2> QED
      BY <1>1, <2>1 DEF ObjectsHonest, Tells, Unread
  <1>7. RecordsStay
    BY <1>1, <1>3 DEF RecordsStay
  <1> QED
    BY <1>1, <1>4, <1>5, <1>6, <1>7, LateKeepsTasks DEF IInv

\* A stuttering step keeps the invariant.
LEMMA StutterKeepsIInv ==
    ASSUME IInv, UNCHANGED vars
    PROVE  IInv'
  <1>1. UNCHANGED <<obj, gone, pc, cur, granted, events, db, late, overtaken, attempts, faults>>
    BY DEF vars, taskVars, lateVars, bounds
  <1>2. TypeOK' /\ Exclusive' /\ RecordsHonest' /\ ObjectsHonest'
    BY <1>1 DEF IInv, TypeOK, Exclusive, RecordsHonest, ObjectsHonest, Tells, Unread
  <1>3. \A t \in Tasks : TaskOK(t)'
    BY <1>1 DEF IInv, TaskOK, U, Id
  <1> QED
    BY <1>2, <1>3 DEF IInv

\* Every step keeps the invariant.
LEMMA NextKeepsIInv ==
    ASSUME IInv, [Next]_vars
    PROVE  IInv'
  <1>1. ASSUME NEW t \in Tasks, NEW o \in Ucers, NEW caps \in SUBSET Capabilities,
               ExecuteUcer(t, o, caps)
        PROVE  IInv'
    BY <1>1, ExecuteUcerKeepsIInv
  <1>2. ASSUME NEW t \in Tasks, Advance(t)
        PROVE  IInv'
    BY <1>2, RefusalKeepsIInv, AdmitKeepsIInv, RunningSavedKeepsIInv, StepSucceedsKeepsIInv,
       StepExitsNonzeroKeepsIInv, StepRaisesKeepsIInv, SaveKeepsIInv DEF Advance
  <1>3. ASSUME NEW t \in Tasks,
               RunningSaveRaises(t) \/ FinalSaveRaises(t) \/ Cancel(t) \/ Crash(t)
        PROVE  IInv'
    BY <1>3, SaveKeepsIInv, CancelKeepsIInv, CrashKeepsIInv
  <1>4. ASSUME NEW o \in Ucers, NEW plan \in Plans, Edit(o, plan)
        PROVE  IInv'
    BY <1>4, EditKeepsIInv
  <1>5. CASE LateDump \/ LateSave
    BY <1>5, LateDumpKeepsIInv, LateSaveKeepsIInv
  <1>6. CASE UNCHANGED vars
    BY <1>6, StutterKeepsIInv
  <1> QED
    BY <1>1, <1>2, <1>3, <1>4, <1>5, <1>6 DEF Next

-----------------------------------------------------------------------------
(* The theorems.                                                           *)

\* The invariant holds in every reachable state.
THEOREM Invariance == Spec => []IInv
  <1>1. Init => IInv
    BY InitIInv
  <1>2. IInv /\ [Next]_vars => IInv'
    BY NextKeepsIInv
  <1> QED
    BY <1>1, <1>2, PTL DEF Spec

\* The variables have their types: objects and records are UCERs, an active
\* task has an object, and the bounds are kept.
THEOREM TypeCorrect == Spec => []TypeOK
  <1>1. IInv => TypeOK
    BY DEF IInv
  <1> QED
    BY <1>1, Invariance, PTL

\* PolicyGate.evaluate audits all of a plan: a step runs only in an execution
\* whose capabilities allow every step.
THEOREM RefusalIsWhole == Spec => []RefusedPlanNeverStarts
  <1>1. IInv => RefusedPlanNeverStarts
    BY Stepping DEF RefusedPlanNeverStarts, Admitted
  <1> QED
    BY <1>1, Invariance, PTL

\* CryptoMiddleware's signature covers the steps that EngineMiddleware runs.
THEOREM SignedPlansRun == Spec => []SignedPlanRuns
  <1>1. IInv => SignedPlanRuns
    BY Stepping DEF SignedPlanRuns, PlanSigned
  <1> QED
    BY <1>1, Invariance, PTL

\* PersistenceMiddleware saves before it calls the engine, and no late save
\* or crash takes the record away.
THEOREM RecordsComeFirst == Spec => []RecordPrecedesEffects
  <1>1. IInv => RecordPrecedesEffects
    BY Stepping DEF RecordPrecedesEffects
  <1> QED
    BY <1>1, Invariance, PTL

\* The engine's loop is left at the first step that does not exit with 0.
THEOREM FailureStops == Spec => []NothingRunsAfterFailure
  <1>1. IInv => NothingRunsAfterFailure
    BY Stepping DEF NothingRunsAfterFailure
  <1> QED
    BY <1>1, Invariance, PTL

\* A record says completed only of a UCER all of whose signed steps succeeded,
\* however many copies are executed, cancelled, saved late, edited or refused;
\* and failed of such a UCER only when a cancelled save was overtaken by a new
\* submission of the object its thread had yet to read.
THEOREM RecordsTellOutcome == Spec => []RecordTellsOutcome
  <1>1. IInv => RecordTellsOutcome
    BY DEF IInv, RecordsHonest, Tells, RecordTellsOutcome
  <1> QED
    BY <1>1, Invariance, PTL

\* The success events of an execution are those of the steps in its traces.
THEOREM EventsMatchTraces == Spec => []SuccessEventsMatchTraces
  <1>1. IInv => SuccessEventsMatchTraces
    BY DEF IInv, TaskOK, OkSteps, SuccessEventsMatchTraces
  <1> QED
    BY <1>1, Invariance, PTL

=============================================================================
