---------------------------- MODULE CockpitProofs ---------------------------
(***************************************************************************)
(* Proofs about Cockpit, for every set of tasks and of clients and every   *)
(* number of mishaps.                                                      *)
(*                                                                         *)
(* The argument: a task puts an event of a kind at most once, because it   *)
(* never comes back to the await before it.  So there is no copy of the    *)
(* event when it is put; from then on the one copy moves from the queue to *)
(* a client, and on to what the client has seen or to what is lost.  An    *)
(* outcome is put after it was saved, by the last step of its task.        *)
(***************************************************************************)
EXTENDS Cockpit, FiniteSetTheorems, SequenceTheorems, TLAPS

SameKind(e, f) == e.task = f.task /\ e.what = f.what

\* What is so while a task is where it is.
TaskOK(t) ==
    /\ task[t] \in {"scanned", "intruding"} => t \in RedTeamTasks
    /\ task[t] \in {"executing", "stepping", "simulating"} => t \notin RedTeamTasks
    /\ task[t] = "saved" => record[t] = ucer[t]

ClientsOK ==
    /\ seen \in [Clients -> Seq(Events)]
    /\ \A c \in Clients : held[c] # {} => \E e \in Events : held[c] = {e}

\* No two events of one kind are in the queue, with the clients, or lost ...
AloneInQueue ==
    \A i, j \in 1 .. Len(queue) : SameKind(queue[i], queue[j]) => i = j
AloneHeld ==
    \A c, d \in Clients : \A e \in held[c], f \in held[d] : SameKind(e, f) => c = d
AloneSeen ==
    \A c, d \in Clients : \A i \in 1 .. Len(seen[c]), j \in 1 .. Len(seen[d]) :
        SameKind(seen[c][i], seen[d][j]) => c = d /\ i = j
AloneLost == \A e, f \in lost : SameKind(e, f) => e = f

\* ... and none is in two of these places.
QueueApart ==
    \A i \in 1 .. Len(queue) :
        /\ \A e \in lost : ~SameKind(queue[i], e)
        /\ \A c \in Clients : /\ \A e \in held[c] : ~SameKind(queue[i], e)
                              /\ \A j \in 1 .. Len(seen[c]) : ~SameKind(queue[i], seen[c][j])
HeldApart ==
    \A c \in Clients : \A e \in held[c] :
        /\ \A f \in lost : ~SameKind(e, f)
        /\ \A d \in Clients : \A j \in 1 .. Len(seen[d]) : ~SameKind(e, seen[d][j])
SeenApart ==
    \A c \in Clients : \A i \in 1 .. Len(seen[c]) : \A e \in lost : ~SameKind(seen[c][i], e)

OneCopy ==
    /\ AloneInQueue /\ AloneHeld /\ AloneSeen /\ AloneLost
    /\ QueueApart /\ HeldApart /\ SeenApart

\* Where an event is.
Queued(e) == \E i \in 1 .. Len(queue) : queue[i] = e
Shown(c, e) == \E i \in 1 .. Len(seen[c]) : seen[c][i] = e
Somewhere(e) == Queued(e) \/ e \in lost \/ \E c \in Clients : e \in held[c] \/ Shown(c, e)

\* The events there are have been put, an outcome by a task that is done and
\* has stored it ...
PutOK(e) ==
    /\ e.what \in StagesPut(e.task)
    /\ e.what = "outcome" => record[e.task] = e.status
CopiesWerePut == \A e \in Events : Somewhere(e) => PutOK(e)

\* ... and those that have been put are somewhere.
PutIsSomewhere ==
    \A t \in Tasks : \A what \in StagesPut(t) :
        \E e \in Events : Somewhere(e) /\ e.task = t /\ e.what = what

CockpitInv ==
    /\ CockpitTypeOK
    /\ \A t \in Tasks : TaskOK(t)
    /\ ClientsOK
    /\ OneCopy
    /\ CopiesWerePut
    /\ PutIsSomewhere

TaskAct(t) == Trigger(t) \/ TaskStep(t) \/ SaveRaises(t) \/ ExecutionSaveRaises(t)

ClientAct(c) == Connect(c) \/ ClientStep(c) \/ Disconnect(c)

-----------------------------------------------------------------------------
(* The tasks.                                                              *)

\* A task changes nothing of the other tasks, and nothing of the clients.
LEMMA TasksMoveAlone ==
    ASSUME CockpitTypeOK, NEW t \in Tasks, TaskAct(t)
    PROVE  /\ \A u \in Tasks \ {t} : task'[u] = task[u] /\ ucer'[u] = ucer[u] /\ record'[u] = record[u]
           /\ UNCHANGED clientVars
           /\ task[t] \notin {"done", "failed"}
  <1>1. /\ task \in [Tasks -> TaskStates] /\ ucer \in [Tasks -> Statuses]
        /\ record \in [Tasks -> Statuses \union {NoRecord}]
    BY DEF CockpitTypeOK
  <1>2. CASE Trigger(t) \/ Scan(t) \/ Egress(t) \/ Tamper(t) \/ BlockViolation(t) \/ Review(t)
    BY <1>1, <1>2 DEF Trigger, Scan, Egress, Tamper, BlockViolation, Block, Review, At, Goto, Hold
  <1>3. CASE ExecutionRefused(t) \/ ExecutionStarts(t) \/ ExecutionReturns(t) \/ ExecutionRaises(t)
    BY <1>1, <1>3 DEF ExecutionRefused, ExecutionStarts, ExecutionReturns, ExecutionRaises, At, Goto,
       Hold, Save
  <1>4. CASE Simulate(t) \/ SaveLands(t) \/ Announce(t) \/ SaveRaises(t) \/ ExecutionSaveRaises(t)
    BY <1>1, <1>4 DEF Simulate, SaveLands, Announce, SaveRaises, ExecutionSaveRaises, At, Goto, Hold,
       Save
  <1> QED
    BY <1>2, <1>3, <1>4 DEF TaskAct, TaskStep

\* Where a task can be is right for its endpoint, and a save that landed saved
\* what the task holds.
LEMMA TasksStayOK ==
    ASSUME CockpitTypeOK, NEW t \in Tasks, TaskOK(t), TaskAct(t)
    PROVE  TaskOK(t)'
  <1>1. /\ task \in [Tasks -> TaskStates] /\ ucer \in [Tasks -> Statuses]
        /\ record \in [Tasks -> Statuses \union {NoRecord}]
    BY DEF CockpitTypeOK
  <1>2. t \in BenignTasks \/ t \in ViolationTasks => t \notin RedTeamTasks
    BY CockpitAssumption
  <1>3. CASE Trigger(t) \/ Scan(t) \/ Egress(t) \/ Tamper(t) \/ BlockViolation(t) \/ Review(t)
    BY <1>1, <1>2, <1>3 DEF TaskOK, Trigger, Scan, Egress, Tamper, BlockViolation, Block, Review, At,
       Goto, Hold
  <1>4. CASE ExecutionRefused(t) \/ ExecutionStarts(t) \/ ExecutionReturns(t) \/ ExecutionRaises(t)
    BY <1>1, <1>4 DEF TaskOK, ExecutionRefused, ExecutionStarts, ExecutionReturns, ExecutionRaises,
       At, Goto
  <1>5. CASE Simulate(t) \/ SaveLands(t) \/ Announce(t) \/ SaveRaises(t) \/ ExecutionSaveRaises(t)
    BY <1>1, <1>5 DEF TaskOK, Simulate, SaveLands, Announce, SaveRaises, ExecutionSaveRaises, At,
       Goto, Save
  <1> QED
    BY <1>3, <1>4, <1>5 DEF TaskAct, TaskStep

\* A task that announces an event of some kind has not done so before; it
\* announces an outcome that is on record.
LEMMA TaskPuts ==
    ASSUME CockpitTypeOK, NEW t \in Tasks, TaskOK(t), TaskAct(t)
    PROVE  \/ queue' = queue /\ StagesPut(t)' = StagesPut(t)
           \/ \E what \in Whats, status \in Statuses :
                 /\ queue' = Append(queue, Event(t, what, status))
                 /\ what \notin StagesPut(t) /\ StagesPut(t)' = StagesPut(t) \union {what}
                 /\ what = "outcome" => record'[t] = status
  <1>1. /\ task \in [Tasks -> TaskStates] /\ ucer \in [Tasks -> Statuses]
        /\ record \in [Tasks -> Statuses \union {NoRecord}]
    BY DEF CockpitTypeOK
  <1>2. ASSUME NEW state, task' = [task EXCEPT ![t] = state],
               t \in RedTeamTasks =>
                   /\ state \in {"idle", "reviewing"} <=> task[t] \in {"idle", "reviewing"}
                   /\ state = "scanned" <=> task[t] = "scanned",
               state # "done", task[t] # "done"
        PROVE  StagesPut(t)' = StagesPut(t)
    BY <1>1, <1>2 DEF StagesPut, At
  <1>3. CASE Trigger(t)
    BY <1>2, <1>3 DEF Trigger, At, Goto
  <1>4. CASE Scan(t)
    <2>1. /\ queue' = Append(queue, Event(t, "scan", ucer[t])) /\ task[t] = "reviewing"
          /\ task'[t] = "scanned" /\ t \in RedTeamTasks
      BY <1>1, <1>4 DEF Scan, At, Goto, Put
    <2>2. "scan" \notin StagesPut(t) /\ StagesPut(t)' = StagesPut(t) \union {"scan"}
      BY <2>1 DEF StagesPut, At, Whats
    <2>3. "scan" \in Whats /\ ucer[t] \in Statuses
      BY <1>1 DEF Whats
    <2> QED
      BY <2>1, <2>2, <2>3
  <1>5. CASE Egress(t)
    <2>1. /\ queue' = Append(queue, Event(t, "egress", ucer[t])) /\ task[t] = "scanned"
          /\ task'[t] = "intruding" /\ t \in RedTeamTasks
      BY <1>1, <1>5 DEF Egress, At, Goto, Put, TaskOK
    <2>2. "egress" \notin StagesPut(t) /\ StagesPut(t)' = StagesPut(t) \union {"egress"}
      BY <2>1 DEF StagesPut, At, Whats
    <2>3. "egress" \in Whats /\ ucer[t] \in Statuses
      BY <1>1 DEF Whats
    <2> QED
      BY <2>1, <2>2, <2>3
  <1>6. CASE Tamper(t) \/ BlockViolation(t) \/ Review(t)
    <2>1. t \in BenignTasks \/ t \in ViolationTasks => t \notin RedTeamTasks
      BY CockpitAssumption
    <2> QED
      BY <1>2, <1>6, <2>1 DEF Tamper, BlockViolation, Block, Review, At, Goto, TaskOK
  <1>7. CASE ExecutionRefused(t) \/ ExecutionStarts(t) \/ ExecutionRaises(t) \/ Simulate(t)
    BY <1>2, <1>7 DEF ExecutionRefused, ExecutionStarts, ExecutionRaises, Simulate, At, Goto, TaskOK
  <1>8. CASE SaveLands(t) \/ SaveRaises(t) \/ ExecutionSaveRaises(t)
    BY <1>2, <1>8 DEF SaveLands, SaveRaises, ExecutionSaveRaises, At, Goto, TaskOK
  <1>9. CASE ExecutionReturns(t) \/ Announce(t)
    <2>1. /\ task[t] \in {"stepping", "saved"} /\ task'[t] = "done"
          /\ task[t] = "stepping" => t \notin RedTeamTasks
      BY <1>1, <1>9 DEF ExecutionReturns, Announce, At, Goto, TaskOK
    <2>2. "outcome" \notin StagesPut(t) /\ StagesPut(t)' = StagesPut(t) \union {"outcome"}
      BY <2>1 DEF StagesPut, At, Whats
    <2>3. \E status \in Statuses :
              queue' = Append(queue, Event(t, "outcome", status)) /\ record'[t] = status
      <3>1. CASE ExecutionReturns(t)
        BY <1>1, <3>1 DEF ExecutionReturns, Put, Save, Statuses
      <3>2. CASE Announce(t)
        BY <1>1, <3>2 DEF Announce, Put, At, TaskOK
      <3> QED
        BY <1>9, <3>1, <3>2
    <2>4. "outcome" \in Whats
      BY DEF Whats
    <2> QED
      BY <2>2, <2>3, <2>4
  <1> QED
    <2>1. ~(Scan(t) \/ Egress(t) \/ ExecutionReturns(t) \/ Announce(t)) => queue' = queue
      BY DEF TaskAct, TaskStep, Trigger, Tamper, BlockViolation, Block, Review, ExecutionRefused,
         ExecutionStarts, ExecutionRaises, Simulate, SaveLands, SaveRaises, ExecutionSaveRaises
    <2> QED
      BY <1>3, <1>4, <1>5, <1>6, <1>7, <1>8, <1>9, <2>1 DEF TaskAct, TaskStep

\* What a task leaves of the types.
LEMMA TasksStayTyped ==
    ASSUME CockpitTypeOK, NEW t \in Tasks, TaskOK(t), TaskAct(t)
    PROVE  CockpitTypeOK'
  <1>1. /\ task \in [Tasks -> TaskStates] /\ ucer \in [Tasks -> Statuses]
        /\ record \in [Tasks -> Statuses \union {NoRecord}] /\ mishaps \in 0 .. MaxMishaps
        /\ queue \in Seq(Events)
    BY DEF CockpitTypeOK
  <1>3. task' \in [Tasks -> TaskStates] /\ ucer' \in [Tasks -> Statuses]
        /\ record' \in [Tasks -> Statuses \union {NoRecord}]
    <2>1. CASE Trigger(t) \/ Scan(t) \/ Egress(t) \/ Tamper(t) \/ BlockViolation(t) \/ Review(t)
      BY <1>1, <2>1 DEF Trigger, Scan, Egress, Tamper, BlockViolation, Block, Review, Goto, Hold,
         TaskStates, Statuses
    <2>2. CASE ExecutionRefused(t) \/ ExecutionStarts(t) \/ ExecutionReturns(t) \/ ExecutionRaises(t)
      BY <1>1, <2>2 DEF ExecutionRefused, ExecutionStarts, ExecutionReturns, ExecutionRaises, Goto,
         Hold, Save, TaskStates, Statuses
    <2>3. CASE Simulate(t) \/ SaveLands(t) \/ Announce(t) \/ SaveRaises(t) \/ ExecutionSaveRaises(t)
      BY <1>1, <2>3 DEF Simulate, SaveLands, Announce, SaveRaises, ExecutionSaveRaises, Goto, Hold,
         Save, TaskStates, Statuses
    <2> QED
      BY <2>1, <2>2, <2>3 DEF TaskAct, TaskStep
  <1>4. queue' \in Seq(Events)
    <2>1. ASSUME NEW what \in Whats, NEW status \in Statuses PROVE Event(t, what, status) \in Events
      BY <2>1 DEF Event, Events
    <2> QED
      BY <1>1, <2>1, TaskPuts, AppendProperties
  <1>5. mishaps' \in 0 .. MaxMishaps
    <2>1. mishaps' = mishaps \/ Mishap
      BY DEF TaskAct, TaskStep, Trigger, Scan, Egress, Tamper, BlockViolation, Block, Review,
         ExecutionRefused, ExecutionStarts, ExecutionReturns, ExecutionRaises, Simulate, SaveLands,
         Announce, SaveRaises, ExecutionSaveRaises
    <2>2. MaxMishaps \in Nat
      BY CockpitAssumption
    <2> QED
      BY <1>1, <2>1, <2>2 DEF Mishap
  <1>6. UNCHANGED <<client, held, seen, lost>>
    BY TasksMoveAlone DEF clientVars
  <1> QED
    BY <1>3, <1>4, <1>5, <1>6 DEF CockpitTypeOK

-----------------------------------------------------------------------------
(* The events.                                                             *)

\* A place with its events: whatever is somewhere is an event that was put.
LEMMA EventsAreEvents ==
    ASSUME CockpitTypeOK, ClientsOK
    PROVE  \A e : Somewhere(e) => e \in Events
  <1>1. queue \in Seq(Events) /\ lost \subseteq Events /\ seen \in [Clients -> Seq(Events)]
        /\ held \in [Clients -> SUBSET Events]
    BY DEF CockpitTypeOK, ClientsOK
  <1>2. \A i \in 1 .. Len(queue) : queue[i] \in Events
    BY <1>1, ElementOfSeq
  <1>3. \A c \in Clients : \A i \in 1 .. Len(seen[c]) : seen[c][i] \in Events
    BY <1>1, ElementOfSeq
  <1> QED
    BY <1>1, <1>2, <1>3 DEF Somewhere, Queued, Shown

\* A step of a task keeps one copy of every event that was put.
LEMMA TasksKeepCopies ==
    ASSUME CockpitInv, NEW t \in Tasks, TaskAct(t)
    PROVE  OneCopy' /\ CopiesWerePut' /\ PutIsSomewhere'
  <1>1. /\ CockpitTypeOK /\ TaskOK(t) /\ ClientsOK /\ OneCopy /\ CopiesWerePut /\ PutIsSomewhere
        /\ queue \in Seq(Events) /\ Len(queue) \in Nat
    BY LenProperties DEF CockpitInv, CockpitTypeOK
  <1>2. UNCHANGED <<held, seen, lost>>
    BY <1>1, TasksMoveAlone DEF clientVars
  <1>3. \A u \in Tasks \ {t} : StagesPut(u)' = StagesPut(u) /\ record'[u] = record[u]
    BY <1>1, TasksMoveAlone DEF StagesPut, At
  <1>4. "outcome" \notin StagesPut(t)
    BY <1>1, TasksMoveAlone DEF StagesPut, At
  <1>5. ASSUME NEW e \in Events, PutOK(e) PROVE PutOK(e)'
    <2>1. e.task \in Tasks
      BY DEF Events
    <2>2. StagesPut(t) \subseteq StagesPut(t)'
      BY <1>1, TaskPuts
    <2> QED
      BY <1>3, <1>4, <1>5, <2>1, <2>2 DEF PutOK
  <1>6. CASE queue' = queue /\ StagesPut(t)' = StagesPut(t)
    <2>1. OneCopy'
      BY <1>1, <1>2, <1>6 DEF OneCopy, AloneInQueue, AloneHeld, AloneSeen, AloneLost, QueueApart,
         HeldApart, SeenApart
    <2>2. \A e : Somewhere(e)' <=> Somewhere(e)
      BY <1>2, <1>6 DEF Somewhere, Queued, Shown
    <2>3. CopiesWerePut'
      BY <1>1, <1>5, <2>2 DEF CopiesWerePut
    <2>4. PutIsSomewhere'
      BY <1>1, <1>3, <1>6, <2>2 DEF PutIsSomewhere
    <2> QED
      BY <2>1, <2>3, <2>4
  <1>7. ASSUME NEW what \in Whats, NEW status \in Statuses,
               queue' = Append(queue, Event(t, what, status)),
               what \notin StagesPut(t), StagesPut(t)' = StagesPut(t) \union {what},
               what = "outcome" => record'[t] = status
        PROVE  OneCopy' /\ CopiesWerePut' /\ PutIsSomewhere'
    <2> DEFINE new == Event(t, what, status)
    <2>1. new \in Events /\ new.task = t /\ new.what = what /\ new.status = status
      BY DEF Event, Events
    <2> HIDE DEF new
    <2>2. /\ Len(queue') = Len(queue) + 1 /\ queue'[Len(queue) + 1] = new
          /\ \A i \in 1 .. Len(queue) : queue'[i] = queue[i]
      BY <1>1, <1>7, <2>1, AppendProperties DEF new
    <2>3. \A e : Somewhere(e) => ~SameKind(new, e) /\ ~SameKind(e, new)
      <3>1. ASSUME NEW e, Somewhere(e) PROVE e.what \in StagesPut(e.task)
        BY <1>1, <3>1, EventsAreEvents DEF CopiesWerePut, PutOK
      <3> QED
        BY <1>7, <2>1, <3>1 DEF SameKind
    <2>4. \A i \in 1 .. Len(queue') : (i \in 1 .. Len(queue) /\ queue'[i] = queue[i])
                                      \/ (i = Len(queue) + 1 /\ queue'[i] = new)
      BY <1>1, <2>2
    <2>5. AloneInQueue'
      <3> SUFFICES ASSUME NEW i \in 1 .. Len(queue'), NEW j \in 1 .. Len(queue'),
                          SameKind(queue'[i], queue'[j])
                   PROVE  i = j
        BY DEF AloneInQueue, SameKind
      <3>1. \A k \in 1 .. Len(queue) : ~SameKind(new, queue[k]) /\ ~SameKind(queue[k], new)
        BY <2>3 DEF Somewhere, Queued, Shown
      <3> QED
        BY <1>1, <2>4, <3>1 DEF OneCopy, AloneInQueue
    <2>6. QueueApart'
      <3> SUFFICES ASSUME NEW i \in 1 .. Len(queue')
                   PROVE  /\ \A e \in lost : ~SameKind(queue'[i], e)
                          /\ \A c \in Clients :
                                /\ \A e \in held[c] : ~SameKind(queue'[i], e)
                                /\ \A j \in 1 .. Len(seen[c]) : ~SameKind(queue'[i], seen[c][j])
        BY <1>2 DEF QueueApart, SameKind
      <3>1. CASE i \in 1 .. Len(queue) /\ queue'[i] = queue[i]
        BY <1>1, <3>1 DEF OneCopy, QueueApart
      <3>2. CASE queue'[i] = new
        BY <2>3, <3>2 DEF Somewhere, Queued, Shown
      <3> QED
        BY <2>4, <3>1, <3>2
    <2>7. OneCopy'
      BY <1>1, <1>2, <2>5, <2>6 DEF OneCopy, AloneHeld, AloneSeen, AloneLost, HeldApart, SeenApart
    <2>8. \A e : Somewhere(e)' <=> Somewhere(e) \/ e = new
      <3>1. \A e : (\E i \in 1 .. Len(queue') : queue'[i] = e)
                   <=> (\E i \in 1 .. Len(queue) : queue[i] = e) \/ e = new
        <4>1. Len(queue) + 1 \in 1 .. Len(queue') /\ 1 .. Len(queue) \subseteq 1 .. Len(queue')
          BY <1>1, <2>2
        <4> QED
          BY <2>2, <2>4, <4>1
      <3> QED
        BY <1>2, <3>1 DEF Somewhere, Queued, Shown
    <2>9. CopiesWerePut'
      <3> SUFFICES ASSUME NEW e \in Events, Somewhere(e)' PROVE PutOK(e)'
        BY DEF CopiesWerePut
      <3>1. CASE Somewhere(e)
        BY <1>1, <1>5, <3>1 DEF CopiesWerePut
      <3>2. CASE e = new
        <4>1. e.task = t /\ e.what = what /\ e.status = status
          BY <2>1, <3>2
        <4> QED
          BY <1>7, <4>1 DEF PutOK
      <3> QED
        BY <2>8, <3>1, <3>2
    <2>10. PutIsSomewhere'
      <3> SUFFICES ASSUME NEW u \in Tasks, NEW w \in StagesPut(u)'
                   PROVE  \E e \in Events : Somewhere(e)' /\ e.task = u /\ e.what = w
        BY DEF PutIsSomewhere
      <3>1. CASE w \in StagesPut(u)
        <4>1. PICK e \in Events : Somewhere(e) /\ e.task = u /\ e.what = w
          BY <1>1, <3>1 DEF PutIsSomewhere
        <4> QED
          BY <2>8, <4>1
      <3>2. CASE u = t /\ w = what
        BY <2>1, <2>8, <3>2
      <3> QED
        BY <1>3, <1>7, <3>1, <3>2
    <2> QED
      BY <2>7, <2>9, <2>10
  <1> QED
    BY <1>1, <1>6, <1>7, TaskPuts

-----------------------------------------------------------------------------
(* The clients.                                                            *)

\* A step of a client keeps the types, and moves at most one event.
LEMMA ClientsStayTyped ==
    ASSUME CockpitTypeOK, ClientsOK, NEW c \in Clients, ClientAct(c)
    PROVE  CockpitTypeOK' /\ ClientsOK' /\ UNCHANGED taskVars
  <1>1. /\ queue \in Seq(Events) /\ lost \subseteq Events /\ seen \in [Clients -> Seq(Events)]
        /\ held \in [Clients -> SUBSET Events] /\ mishaps \in 0 .. MaxMishaps
        /\ client \in [Clients -> {"away", "waiting", "sending"}]
        /\ \A d \in Clients : held[d] # {} <=> client[d] = "sending"
        /\ \A d \in Clients : held[d] # {} => \E e \in Events : held[d] = {e}
        /\ MaxMishaps \in Nat
    BY CockpitAssumption DEF CockpitTypeOK, ClientsOK
  <1>2. UNCHANGED taskVars
    BY DEF ClientAct, ClientStep, Connect, Take, Deliver, Disconnect
  <1>3. /\ queue' \in Seq(Events) /\ lost' \subseteq Events /\ seen' \in [Clients -> Seq(Events)]
        /\ held' \in [Clients -> SUBSET Events] /\ mishaps' \in 0 .. MaxMishaps
        /\ client' \in [Clients -> {"away", "waiting", "sending"}]
        /\ \A d \in Clients : held'[d] # {} <=> client'[d] = "sending"
        /\ \A d \in Clients : held'[d] # {} => \E e \in Events : held'[d] = {e}
    <2>1. CASE Connect(c)
      BY <1>1, <2>1 DEF Connect, Become
    <2>2. CASE Take(c)
      <3>1. Head(queue) \in Events /\ Tail(queue) \in Seq(Events)
        BY <1>1, <2>2, HeadTailProperties DEF Take
      <3> QED
        BY <1>1, <2>2, <3>1 DEF Take, Become
    <2>3. CASE Deliver(c)
      <3>1. PICK e \in held[c] : seen' = [seen EXCEPT ![c] = Append(@, e)]
        BY <2>3 DEF Deliver
      <3>2. e \in Events /\ seen[c] \in Seq(Events)
        BY <1>1, <3>1
      <3>3. Append(seen[c], e) \in Seq(Events)
        BY <3>2, AppendProperties
      <3>4. seen' \in [Clients -> Seq(Events)]
        BY <1>1, <3>1, <3>3
      <3> QED
        BY <1>1, <2>3, <3>4 DEF Deliver, Become
    <2>4. CASE Disconnect(c)
      <3>1. /\ queue' = queue /\ seen' = seen /\ lost' = lost \union held[c]
            /\ held' = [held EXCEPT ![c] = {}] /\ client' = [client EXCEPT ![c] = "away"]
            /\ mishaps > 0 /\ mishaps' = mishaps - 1
        BY <2>4 DEF Disconnect, Mishap, Become
      <3>2. mishaps' \in 0 .. MaxMishaps
        BY <1>1, <3>1
      <3>3. lost' \subseteq Events /\ held' \in [Clients -> SUBSET Events]
        BY <1>1, <3>1
      <3> QED
        BY <1>1, <3>1, <3>2, <3>3
    <2> QED
      BY <2>1, <2>2, <2>3, <2>4 DEF ClientAct, ClientStep
  <1>4. \A d \in Clients : Cardinality(held'[d]) <= 1
    <2> SUFFICES ASSUME NEW d \in Clients PROVE Cardinality(held'[d]) <= 1
      OBVIOUS
    <2>1. CASE held'[d] = {}
      BY <2>1, FS_EmptySet
    <2>2. CASE held'[d] # {}
      <3>1. PICK e \in Events : held'[d] = {e}
        BY <1>3, <2>2
      <3> QED
        BY <3>1, FS_Singleton
    <2> QED
      BY <2>1, <2>2
  <1>5. CockpitTypeOK' /\ ClientsOK'
    BY <1>1, <1>2, <1>3, <1>4 DEF CockpitTypeOK, ClientsOK, taskVars
  <1> QED
    BY <1>2, <1>5

\* Taking an event moves its one copy from the queue to the client.
LEMMA TakeKeepsCopies ==
    ASSUME CockpitInv, NEW c \in Clients, Take(c)
    PROVE  OneCopy' /\ \A e : Somewhere(e)' <=> Somewhere(e)
  <1> DEFINE first == Head(queue)
  <1>1. /\ queue \in Seq(Events) /\ held \in [Clients -> SUBSET Events] /\ queue # << >>
        /\ client[c] = "waiting" /\ held[c] = {} /\ OneCopy
        /\ UNCHANGED <<seen, lost>> /\ queue' = Tail(queue)
        /\ held' = [held EXCEPT ![c] = {first}]
    BY DEF CockpitInv, CockpitTypeOK, Take
  <1>2. /\ first = queue[1] /\ Len(queue) \in Nat \ {0} /\ Len(queue') = Len(queue) - 1
        /\ \A i \in 1 .. Len(queue') : queue'[i] = queue[i + 1]
    BY <1>1, HeadTailProperties, EmptySeq
  <1> HIDE DEF first
  <1>3. /\ 1 \in 1 .. Len(queue)
        /\ \A i \in 1 .. Len(queue') : i + 1 \in 1 .. Len(queue) /\ i + 1 # 1
    BY <1>2
  <1>4. \A d \in Clients : \A e : e \in held'[d] <=> (e \in held[d] \/ (d = c /\ e = first))
    BY <1>1
  <1>5. AloneInQueue'
    BY <1>1, <1>2, <1>3 DEF OneCopy, AloneInQueue, SameKind
  <1>6. AloneHeld'
    <2> SUFFICES ASSUME NEW d \in Clients, NEW b \in Clients, NEW e \in held'[d], NEW f \in held'[b],
                        SameKind(e, f)
                 PROVE  d = b
      BY DEF AloneHeld, SameKind
    <2>1. \A a \in Clients : \A g \in held[a] : ~SameKind(first, g) /\ ~SameKind(g, first)
      BY <1>1, <1>2, <1>3 DEF OneCopy, QueueApart, SameKind
    <2> QED
      BY <1>1, <1>4, <2>1 DEF OneCopy, AloneHeld
  <1>7. QueueApart'
    <2> SUFFICES ASSUME NEW i \in 1 .. Len(queue')
                 PROVE  /\ \A e \in lost : ~SameKind(queue'[i], e)
                        /\ \A d \in Clients :
                              /\ \A e \in held'[d] : ~SameKind(queue'[i], e)
                              /\ \A j \in 1 .. Len(seen[d]) : ~SameKind(queue'[i], seen[d][j])
      BY <1>1 DEF QueueApart, SameKind
    <2>1. ~SameKind(queue[i + 1], first)
      BY <1>1, <1>2, <1>3 DEF OneCopy, AloneInQueue
    <2> QED
      BY <1>1, <1>2, <1>3, <1>4, <2>1 DEF OneCopy, QueueApart
  <1>8. HeldApart'
    <2> SUFFICES ASSUME NEW d \in Clients, NEW e \in held'[d]
                 PROVE  /\ \A f \in lost : ~SameKind(e, f)
                        /\ \A b \in Clients : \A j \in 1 .. Len(seen[b]) : ~SameKind(e, seen[b][j])
      BY <1>1 DEF HeldApart, SameKind
    <2> QED
      BY <1>1, <1>2, <1>3, <1>4 DEF OneCopy, HeldApart, QueueApart
  <1>9. OneCopy'
    BY <1>1, <1>5, <1>6, <1>7, <1>8 DEF OneCopy, AloneSeen, AloneLost, SeenApart
  <1>10. \A e : Somewhere(e)' <=> Somewhere(e)
    <2>1. \A e : (\E i \in 1 .. Len(queue) : queue[i] = e)
                 <=> (\E i \in 1 .. Len(queue') : queue'[i] = e) \/ e = first
      <3>1. ASSUME NEW i \in 1 .. Len(queue), i # 1
            PROVE  \E j \in 1 .. Len(queue') : queue'[j] = queue[i]
        <4> DEFINE j == i - 1
        <4>1. j \in 1 .. Len(queue') /\ j + 1 = i
          BY <1>2, <3>1
        <4> HIDE DEF j
        <4> QED
          BY <1>2, <4>1
      <3> QED
        BY <1>2, <1>3, <3>1
    <2>2. \A e : (\E d \in Clients : e \in held'[d]) <=> (\E d \in Clients : e \in held[d]) \/ e = first
      BY <1>4
    <2>3. \A e : Queued(e) <=> Queued(e)' \/ e = first
      BY <2>1 DEF Queued
    <2>4. \A d, e : Shown(d, e)' <=> Shown(d, e)
      BY <1>1 DEF Shown
    <2>5. TAKE e
    <2>6. (\E d \in Clients : e \in held'[d] \/ Shown(d, e)')
          <=> (\E d \in Clients : e \in held[d] \/ Shown(d, e)) \/ e = first
      BY <2>2, <2>4, Zenon
    <2>7. lost' = lost
      BY <1>1
    <2> QED
      BY <2>3, <2>6, <2>7, Zenon DEF Somewhere
  <1> QED
    BY <1>9, <1>10

\* Delivering one moves it to what the dashboard has seen.
LEMMA DeliverKeepsCopies ==
    ASSUME CockpitInv, NEW c \in Clients, Deliver(c)
    PROVE  OneCopy' /\ \A e : Somewhere(e)' <=> Somewhere(e)
  <1>1. /\ held \in [Clients -> SUBSET Events] /\ seen \in [Clients -> Seq(Events)]
        /\ held' = [held EXCEPT ![c] = {}] /\ UNCHANGED <<queue, lost>> /\ OneCopy
        /\ \A d \in Clients : held[d] # {} => \E e \in Events : held[d] = {e}
    BY DEF CockpitInv, CockpitTypeOK, ClientsOK, Deliver
  <1>2. PICK e \in held[c] : seen' = [seen EXCEPT ![c] = Append(@, e)]
    BY DEF Deliver
  <1>3. held[c] = {e} /\ e \in Events /\ seen[c] \in Seq(Events) /\ Len(seen[c]) \in Nat
    BY <1>1, <1>2, LenProperties
  <1>4. /\ Len(seen'[c]) = Len(seen[c]) + 1 /\ seen'[c][Len(seen[c]) + 1] = e
        /\ \A i \in 1 .. Len(seen[c]) : seen'[c][i] = seen[c][i]
        /\ \A d \in Clients : d # c => seen'[d] = seen[d]
    BY <1>1, <1>2, <1>3, AppendProperties
  <1>5. ASSUME NEW d \in Clients, NEW i \in 1 .. Len(seen'[d])
        PROVE  \/ i \in 1 .. Len(seen[d]) /\ seen'[d][i] = seen[d][i]
               \/ d = c /\ i = Len(seen[c]) + 1 /\ seen'[d][i] = e
    BY <1>3, <1>4, <1>5
  <1>6. \A d \in Clients : held'[d] \subseteq held[d] /\ (d # c => held'[d] = held[d]) /\ held'[c] = {}
    BY <1>1
  <1>7. /\ \A d \in Clients : \A j \in 1 .. Len(seen[d]) :
              ~SameKind(e, seen[d][j]) /\ ~SameKind(seen[d][j], e)
        /\ \A f \in lost : ~SameKind(e, f)
        /\ \A i \in 1 .. Len(queue) : ~SameKind(queue[i], e)
        /\ \A d \in Clients : d # c => \A f \in held[d] : ~SameKind(f, e)
    <2>1. \A d \in Clients : \A j \in 1 .. Len(seen[d]) : ~SameKind(e, seen[d][j])
      BY <1>1, <1>2 DEF OneCopy, HeldApart
    <2>2. \A f \in lost : ~SameKind(e, f)
      BY <1>1, <1>2 DEF OneCopy, HeldApart
    <2>3. \A i \in 1 .. Len(queue) : ~SameKind(queue[i], e)
      BY <1>1, <1>2 DEF OneCopy, QueueApart
    <2>4. \A d \in Clients : d # c => \A f \in held[d] : ~SameKind(f, e)
      BY <1>1, <1>2 DEF OneCopy, AloneHeld
    <2>5. \A f : SameKind(f, e) <=> SameKind(e, f)
      BY DEF SameKind
    <2> QED
      BY <2>1, <2>2, <2>3, <2>4, <2>5
  <1>8. AloneSeen'
    <2> SUFFICES ASSUME NEW d \in Clients, NEW b \in Clients, NEW i \in 1 .. Len(seen'[d]),
                        NEW j \in 1 .. Len(seen'[b]), SameKind(seen'[d][i], seen'[b][j])
                 PROVE  d = b /\ i = j
      BY DEF AloneSeen, SameKind
    <2>1. AloneSeen
      BY <1>1 DEF OneCopy
    <2>2. CASE /\ i \in 1 .. Len(seen[d]) /\ seen'[d][i] = seen[d][i]
               /\ j \in 1 .. Len(seen[b]) /\ seen'[b][j] = seen[b][j]
      BY <2>1, <2>2 DEF AloneSeen
    <2>3. CASE i \in 1 .. Len(seen[d]) /\ seen'[d][i] = seen[d][i] /\ seen'[b][j] = e
      BY <1>7, <2>3
    <2>4. CASE j \in 1 .. Len(seen[b]) /\ seen'[b][j] = seen[b][j] /\ seen'[d][i] = e
      BY <1>7, <2>4
    <2>5. CASE d = c /\ i = Len(seen[c]) + 1 /\ b = c /\ j = Len(seen[c]) + 1
      BY <2>5
    <2> QED
      BY <1>5, <2>2, <2>3, <2>4, <2>5
  <1>9. SeenApart'
    <2> SUFFICES ASSUME NEW d \in Clients, NEW i \in 1 .. Len(seen'[d]), NEW f \in lost
                 PROVE  ~SameKind(seen'[d][i], f)
      BY <1>1 DEF SeenApart, SameKind
    <2>1. CASE i \in 1 .. Len(seen[d]) /\ seen'[d][i] = seen[d][i]
      BY <1>1, <2>1 DEF OneCopy, SeenApart
    <2>2. CASE seen'[d][i] = e
      BY <1>7, <2>2
    <2> QED
      BY <1>5, <2>1, <2>2
  <1>10. QueueApart'
    <2> SUFFICES ASSUME NEW k \in 1 .. Len(queue), NEW d \in Clients
                 PROVE  /\ \A f \in lost : ~SameKind(queue[k], f)
                        /\ \A f \in held'[d] : ~SameKind(queue[k], f)
                        /\ \A i \in 1 .. Len(seen'[d]) : ~SameKind(queue[k], seen'[d][i])
      <3>1. \A k \in 1 .. Len(queue) : \A f \in lost : ~SameKind(queue[k], f)
        BY <1>1 DEF OneCopy, QueueApart
      <3> QED
        BY <1>1, <3>1 DEF QueueApart, SameKind
    <2>1. /\ \A f \in lost : ~SameKind(queue[k], f)
          /\ \A f \in held[d] : ~SameKind(queue[k], f)
          /\ \A i \in 1 .. Len(seen[d]) : ~SameKind(queue[k], seen[d][i])
      BY <1>1 DEF OneCopy, QueueApart
    <2>2. ASSUME NEW i \in 1 .. Len(seen'[d]) PROVE ~SameKind(queue[k], seen'[d][i])
      <3>1. CASE i \in 1 .. Len(seen[d]) /\ seen'[d][i] = seen[d][i]
        BY <2>1, <3>1
      <3>2. CASE seen'[d][i] = e
        BY <1>7, <3>2
      <3> QED
        BY <1>5, <3>1, <3>2
    <2> QED
      BY <1>6, <2>1, <2>2
  <1>11. HeldApart'
    <2> SUFFICES ASSUME NEW b \in Clients, NEW g \in held'[b]
                 PROVE  /\ \A f \in lost : ~SameKind(g, f)
                        /\ \A d \in Clients : \A i \in 1 .. Len(seen'[d]) : ~SameKind(g, seen'[d][i])
      BY <1>1 DEF HeldApart, SameKind
    <2>1. g \in held[b] /\ b # c
      BY <1>6
    <2>2. /\ \A f \in lost : ~SameKind(g, f)
          /\ \A d \in Clients : \A i \in 1 .. Len(seen[d]) : ~SameKind(g, seen[d][i])
      BY <1>1, <2>1 DEF OneCopy, HeldApart
    <2>3. ASSUME NEW d \in Clients, NEW i \in 1 .. Len(seen'[d]) PROVE ~SameKind(g, seen'[d][i])
      <3>1. CASE i \in 1 .. Len(seen[d]) /\ seen'[d][i] = seen[d][i]
        BY <2>2, <3>1
      <3>2. CASE seen'[d][i] = e
        BY <1>7, <2>1, <3>2
      <3> QED
        BY <1>5, <3>1, <3>2
    <2> QED
      BY <2>2, <2>3
  <1>12. AloneInQueue' /\ AloneHeld' /\ AloneLost'
    BY <1>1, <1>6 DEF OneCopy, AloneInQueue, AloneHeld, AloneLost, SameKind
  <1>13. \A f : Somewhere(f)' <=> Somewhere(f)
    <2>1. \A d \in Clients : \A f :
              (\E i \in 1 .. Len(seen'[d]) : seen'[d][i] = f)
              <=> (\E i \in 1 .. Len(seen[d]) : seen[d][i] = f) \/ (d = c /\ f = e)
      <3>1. /\ 1 .. Len(seen[c]) \subseteq 1 .. Len(seen'[c])
            /\ Len(seen[c]) + 1 \in 1 .. Len(seen'[c])
        BY <1>3, <1>4
      <3> QED
        BY <1>4, <1>5, <3>1
    <2>2. \A d \in Clients : \A f : f \in held[d] <=> f \in held'[d] \/ (d = c /\ f = e)
      BY <1>1, <1>3
    <2>3. \A d \in Clients : \A f : Shown(d, f)' <=> Shown(d, f) \/ (d = c /\ f = e)
      BY <2>1, Zenon DEF Shown
    <2>4. /\ lost' = lost
          /\ \A f : Queued(f)' <=> Queued(f)
      BY <1>1 DEF Queued
    <2>5. TAKE f
    <2>6. (\E d \in Clients : f \in held'[d] \/ Shown(d, f)')
          <=> (\E d \in Clients : f \in held[d] \/ Shown(d, f))
      BY <2>2, <2>3, Zenon
    <2> QED
      BY <2>4, <2>6, Zenon DEF Somewhere
  <1> QED
    BY <1>8, <1>9, <1>10, <1>11, <1>12, <1>13 DEF OneCopy

\* What goes with a connection moves from the client to what is lost.
LEMMA DisconnectKeepsCopies ==
    ASSUME CockpitInv, NEW c \in Clients, Disconnect(c)
    PROVE  OneCopy' /\ \A e : Somewhere(e)' <=> Somewhere(e)
  <1>1. /\ held \in [Clients -> SUBSET Events] /\ UNCHANGED <<queue, seen>> /\ OneCopy
        /\ held' = [held EXCEPT ![c] = {}] /\ lost' = lost \union held[c]
        /\ held[c] # {} => \E e \in Events : held[c] = {e}
    BY DEF CockpitInv, CockpitTypeOK, ClientsOK, Disconnect
  <1>2. \A d \in Clients : held'[d] \subseteq held[d] /\ (d # c => held'[d] = held[d]) /\ held'[c] = {}
    BY <1>1
  <1>3. \A e : e \in lost' <=> e \in lost \/ e \in held[c]
    BY <1>1
  <1>4. AloneLost'
    <2> SUFFICES ASSUME NEW e \in lost', NEW f \in lost', SameKind(e, f)
                 PROVE  e = f
      BY DEF AloneLost, SameKind
    <2>1. \A g, h : SameKind(g, h) <=> SameKind(h, g)
      BY DEF SameKind
    <2>2. \A g \in held[c] : \A h \in lost : ~SameKind(g, h)
      BY <1>1 DEF OneCopy, HeldApart
    <2>3. AloneLost
      BY <1>1 DEF OneCopy
    <2>4. CASE e \in lost /\ f \in lost
      BY <2>3, <2>4 DEF AloneLost
    <2>5. CASE e \in held[c] /\ f \in held[c]
      BY <1>1, <2>5
    <2> QED
      BY <1>3, <2>1, <2>2, <2>4, <2>5
  <1>5. QueueApart'
    <2>1. QueueApart
      BY <1>1 DEF OneCopy
    <2> QED
      BY <1>1, <1>2, <1>3, <2>1 DEF QueueApart, SameKind
  <1>6. HeldApart'
    <2> SUFFICES ASSUME NEW d \in Clients, NEW e \in held'[d]
                 PROVE  /\ \A f \in lost' : ~SameKind(e, f)
                        /\ \A b \in Clients : \A j \in 1 .. Len(seen[b]) : ~SameKind(e, seen[b][j])
      BY <1>1 DEF HeldApart, SameKind
    <2>1. d # c /\ e \in held[d]
      BY <1>2
    <2>2. \A f \in held[c] : ~SameKind(e, f)
      BY <1>1, <2>1 DEF OneCopy, AloneHeld
    <2>3. /\ \A f \in lost : ~SameKind(e, f)
          /\ \A b \in Clients : \A j \in 1 .. Len(seen[b]) : ~SameKind(e, seen[b][j])
      BY <1>1, <2>1 DEF OneCopy, HeldApart
    <2> QED
      BY <1>3, <2>2, <2>3
  <1>7. SeenApart'
    <2> SUFFICES ASSUME NEW d \in Clients, NEW i \in 1 .. Len(seen[d]), NEW e \in lost'
                 PROVE  ~SameKind(seen[d][i], e)
      BY <1>1 DEF SeenApart, SameKind
    <2>1. e \in lost => ~SameKind(seen[d][i], e)
      BY <1>1 DEF OneCopy, SeenApart
    <2>2. e \in held[c] => ~SameKind(e, seen[d][i])
      BY <1>1 DEF OneCopy, HeldApart
    <2> QED
      BY <1>3, <2>1, <2>2 DEF SameKind
  <1>8. AloneInQueue' /\ AloneHeld' /\ AloneSeen'
    BY <1>1, <1>2 DEF OneCopy, AloneInQueue, AloneHeld, AloneSeen, SameKind
  <1>9. OneCopy'
    BY <1>4, <1>5, <1>6, <1>7, <1>8 DEF OneCopy
  <1>10. \A e : Somewhere(e)' <=> Somewhere(e)
    <2>1. \A d, e : (Shown(d, e)' <=> Shown(d, e)) /\ (Queued(e)' <=> Queued(e))
      BY <1>1 DEF Shown, Queued
    <2>2. \A d \in Clients : \A e : e \in held[d] <=> e \in held'[d] \/ (d = c /\ e \in held[c])
      BY <1>2
    <2>3. TAKE e
    <2>4. (\E d \in Clients : e \in held[d] \/ Shown(d, e))
          <=> (\E d \in Clients : e \in held'[d] \/ Shown(d, e)') \/ e \in held[c]
      BY <2>1, <2>2, Zenon
    <2> QED
      BY <1>3, <2>1, <2>4, Zenon DEF Somewhere
  <1> QED
    BY <1>9, <1>10

\* However the clients come and go, an event that was put is in one place.
LEMMA ClientsKeepCopies ==
    ASSUME CockpitInv, NEW c \in Clients, ClientAct(c)
    PROVE  OneCopy' /\ CopiesWerePut' /\ PutIsSomewhere'
  <1>1. OneCopy' /\ \A e : Somewhere(e)' <=> Somewhere(e)
    <2>1. CASE Connect(c)
      <3>1. UNCHANGED <<queue, held, seen, lost>> /\ OneCopy
        BY <2>1 DEF Connect, CockpitInv
      <3>2. OneCopy'
        BY <3>1 DEF OneCopy, AloneInQueue, AloneHeld, AloneSeen, AloneLost, QueueApart, HeldApart,
           SeenApart
      <3>3. \A e : Somewhere(e)' <=> Somewhere(e)
        BY <3>1 DEF Somewhere, Queued, Shown
      <3> QED
        BY <3>2, <3>3
    <2> QED
      BY <2>1, TakeKeepsCopies, DeliverKeepsCopies, DisconnectKeepsCopies DEF ClientAct, ClientStep
  <1>2. UNCHANGED taskVars
    BY DEF ClientAct, ClientStep, Connect, Take, Deliver, Disconnect
  <1>3. \A t : StagesPut(t)' = StagesPut(t) /\ record'[t] = record[t]
    BY <1>2 DEF taskVars, StagesPut, At
  <1>4. CopiesWerePut'
    BY <1>1, <1>3 DEF CockpitInv, CopiesWerePut, PutOK
  <1>5. PutIsSomewhere'
    BY <1>1, <1>3 DEF CockpitInv, PutIsSomewhere
  <1> QED
    BY <1>1, <1>4, <1>5

-----------------------------------------------------------------------------
(* The invariant.                                                          *)

\* No task was triggered, and there is no event.
LEMMA CockpitStarts == CockpitInit => CockpitInv
  <1> SUFFICES ASSUME CockpitInit PROVE CockpitInv
    OBVIOUS
  <1>1. /\ task = [t \in Tasks |-> "idle"] /\ queue = << >> /\ lost = {}
        /\ held = [c \in Clients |-> {}] /\ seen = [c \in Clients |-> << >>]
    BY DEF CockpitInit
  <1>2. /\ Len(queue) = 0 /\ queue \in Seq(Events)
        /\ \A c \in Clients : Len(seen[c]) = 0 /\ seen[c] \in Seq(Events) /\ held[c] = {}
    BY <1>1, EmptySeq
  <1>3. \A c \in Clients : Cardinality(held[c]) <= 1
    <2> SUFFICES ASSUME NEW c \in Clients PROVE Cardinality(held[c]) <= 1
      OBVIOUS
    <2>1. held[c] = {}
      BY <1>2
    <2> QED
      BY <2>1, FS_EmptySet
  <1>4. CockpitTypeOK
    BY <1>1, <1>2, <1>3, CockpitAssumption DEF CockpitInit, CockpitTypeOK, TaskStates, Statuses
  <1>5. \A t \in Tasks : TaskOK(t)
    BY <1>1 DEF TaskOK
  <1>6. ClientsOK
    BY <1>1, <1>2 DEF ClientsOK
  <1>7. 1 .. 0 = {}
    OBVIOUS
  <1>8. OneCopy
    BY <1>1, <1>2, <1>7 DEF OneCopy, AloneInQueue, AloneHeld, AloneSeen, AloneLost, QueueApart,
       HeldApart, SeenApart
  <1>9. \A e : ~Somewhere(e)
    BY <1>1, <1>2, <1>7 DEF Somewhere, Queued, Shown
  <1>10. \A t \in Tasks : StagesPut(t) = {}
    BY <1>1 DEF StagesPut, At
  <1> QED
    BY <1>4, <1>5, <1>6, <1>8, <1>9, <1>10 DEF CockpitInv, CopiesWerePut, PutIsSomewhere

\* Every step of a task and of a client keeps it.
LEMMA CockpitSteps == CockpitInv /\ [CockpitNext]_cockpitVars => CockpitInv'
  <1> SUFFICES ASSUME CockpitInv, [CockpitNext]_cockpitVars PROVE CockpitInv'
    OBVIOUS
  <1>1. CASE \E t \in Tasks : TaskAct(t)
    <2>1. PICK t \in Tasks : TaskAct(t)
      BY <1>1
    <2>2. CockpitTypeOK'
      BY <2>1, TasksStayTyped DEF CockpitInv
    <2>3. ClientsOK'
      BY <2>1, TasksMoveAlone DEF CockpitInv, ClientsOK, clientVars
    <2>4. ASSUME NEW u \in Tasks PROVE TaskOK(u)'
      <3>1. CASE u = t
        BY <2>1, <3>1, TasksStayOK DEF CockpitInv
      <3>2. CASE u # t
        BY <2>1, <3>2, TasksMoveAlone DEF CockpitInv, TaskOK
      <3> QED
        BY <3>1, <3>2
    <2> QED
      BY <2>1, <2>2, <2>3, <2>4, TasksKeepCopies DEF CockpitInv
  <1>2. CASE \E c \in Clients : ClientAct(c)
    <2>1. PICK c \in Clients : ClientAct(c)
      BY <1>2
    <2>2. CockpitTypeOK' /\ ClientsOK' /\ UNCHANGED taskVars
      BY <2>1, ClientsStayTyped DEF CockpitInv
    <2>3. \A t \in Tasks : TaskOK(t)'
      BY <2>2 DEF CockpitInv, TaskOK, taskVars
    <2> QED
      BY <2>1, <2>2, <2>3, ClientsKeepCopies DEF CockpitInv
  <1>3. CASE UNCHANGED cockpitVars
    <2>1. UNCHANGED <<task, ucer, record, queue, client, held, seen, lost, mishaps>>
      BY <1>3 DEF cockpitVars, taskVars, clientVars
    <2>2. CockpitTypeOK' /\ ClientsOK' /\ \A t \in Tasks : TaskOK(t)'
      BY <2>1 DEF CockpitInv, CockpitTypeOK, ClientsOK, TaskOK
    <2>3. OneCopy'
      BY <2>1 DEF CockpitInv, OneCopy, AloneInQueue, AloneHeld, AloneSeen, AloneLost, QueueApart,
         HeldApart, SeenApart
    <2>4. \A e : Somewhere(e)' <=> Somewhere(e)
      BY <2>1 DEF Somewhere, Queued, Shown
    <2>5. \A t : StagesPut(t)' = StagesPut(t) /\ record'[t] = record[t]
      BY <2>1 DEF StagesPut, At
    <2>6. CopiesWerePut'
      BY <2>4, <2>5 DEF CockpitInv, CopiesWerePut, PutOK
    <2>7. PutIsSomewhere'
      BY <2>4, <2>5 DEF CockpitInv, PutIsSomewhere
    <2> QED
      BY <2>2, <2>3, <2>6, <2>7 DEF CockpitInv
  <1> QED
    BY <1>1, <1>2, <1>3 DEF CockpitNext, TaskAct, ClientAct

\* The invariant holds of every behaviour of the cockpit.
THEOREM CockpitInvariance == CockpitSpec => []CockpitInv
  BY CockpitStarts, CockpitSteps, PTL DEF CockpitSpec

\* The cockpit stays typed, and a generator holds an event exactly while it
\* sends one.
THEOREM CockpitTypeCorrect == CockpitSpec => []CockpitTypeOK
  <1>1. CockpitInv => CockpitTypeOK
    BY DEF CockpitInv
  <1> QED
    BY <1>1, CockpitInvariance, PTL

\* Of an outcome that was announced the record says the same, from then on.
THEOREM AnnouncementsAreOnRecord == CockpitSpec => []AnnouncedIsOnRecord
  <1>1. CockpitInv => AnnouncedIsOnRecord
    <2> SUFFICES ASSUME CockpitInv, NEW e \in Announced, e.what = "outcome"
                 PROVE  get_ucer_status(e.task) = e.status
      BY DEF AnnouncedIsOnRecord
    <2>1. queue \in Seq(Events) /\ ClientsOK
      BY DEF CockpitInv, CockpitTypeOK
    <2>2. /\ DOMAIN queue = 1 .. Len(queue)
          /\ \A c \in Clients : DOMAIN seen[c] = 1 .. Len(seen[c])
      BY <2>1, LenProperties DEF ClientsOK
    <2>3. Somewhere(e)
      BY <2>2 DEF Announced, InSequence, Somewhere, Queued, Shown
    <2>4. e \in Events
      BY <2>3, EventsAreEvents DEF CockpitInv
    <2>5. record[e.task] = e.status
      BY <2>3, <2>4 DEF CockpitInv, CopiesWerePut, PutOK
    <2> QED
      BY <2>5 DEF get_ucer_status
  <1> QED
    BY <1>1, CockpitInvariance, PTL

\* A place of an event is a place in the queue, among what is lost, with a
\* client, or on a dashboard.
LEMMA PlacesAre ==
    ASSUME ClientsOK, queue \in Seq(Events), NEW t, NEW what, NEW p
    PROVE  p \in Places(t, what) <=>
               \/ \E i \in 1 .. Len(queue) :
                     p = <<"queue", i>> /\ queue[i].task = t /\ queue[i].what = what
               \/ \E e \in lost : p = <<"lost", e>> /\ e.task = t /\ e.what = what
               \/ \E c \in Clients : \E e \in held[c] :
                     p = <<"held", c>> /\ e.task = t /\ e.what = what
               \/ \E c \in Clients : \E i \in 1 .. Len(seen[c]) :
                     p = <<c, i>> /\ seen[c][i].task = t /\ seen[c][i].what = what
  <1>1. /\ DOMAIN queue = 1 .. Len(queue)
        /\ \A c \in Clients : DOMAIN seen[c] = 1 .. Len(seen[c])
    BY LenProperties DEF ClientsOK
  <1> QED
    BY <1>1 DEF Places

\* Two places of events of one kind are the same place.
LEMMA OnePlace ==
    ASSUME CockpitInv, NEW t, NEW what, NEW p \in Places(t, what), NEW q \in Places(t, what)
    PROVE  p = q
  <1>1. queue \in Seq(Events) /\ ClientsOK /\ OneCopy
    BY DEF CockpitInv, CockpitTypeOK
  <1>2. \A e, f : e.task = t /\ e.what = what /\ f.task = t /\ f.what = what
                  => SameKind(e, f)
    BY DEF SameKind
  <1>3. ASSUME NEW i \in 1 .. Len(queue), p = <<"queue", i>>, queue[i].task = t, queue[i].what = what
        PROVE  p = q
    <2>1. /\ \A j \in 1 .. Len(queue) : queue[j].task = t /\ queue[j].what = what => i = j
          /\ \A e \in lost : ~(e.task = t /\ e.what = what)
          /\ \A c \in Clients :
                /\ \A e \in held[c] : ~(e.task = t /\ e.what = what)
                /\ \A j \in 1 .. Len(seen[c]) : ~(seen[c][j].task = t /\ seen[c][j].what = what)
      BY <1>1, <1>2, <1>3 DEF OneCopy, AloneInQueue, QueueApart
    <2> QED
      BY <1>1, <1>3, <2>1, PlacesAre
  <1>4. ASSUME NEW e \in lost, p = <<"lost", e>>, e.task = t, e.what = what
        PROVE  p = q
    <2>1. /\ \A j \in 1 .. Len(queue) : ~(queue[j].task = t /\ queue[j].what = what)
          /\ \A f \in lost : f.task = t /\ f.what = what => e = f
          /\ \A c \in Clients :
                /\ \A f \in held[c] : ~(f.task = t /\ f.what = what)
                /\ \A j \in 1 .. Len(seen[c]) : ~(seen[c][j].task = t /\ seen[c][j].what = what)
      BY <1>1, <1>2, <1>4 DEF OneCopy, AloneLost, QueueApart, HeldApart, SeenApart
    <2> QED
      BY <1>1, <1>4, <2>1, PlacesAre
  <1>5. ASSUME NEW c \in Clients, NEW e \in held[c], p = <<"held", c>>, e.task = t, e.what = what
        PROVE  p = q
    <2>1. /\ \A j \in 1 .. Len(queue) : ~(queue[j].task = t /\ queue[j].what = what)
          /\ \A f \in lost : ~(f.task = t /\ f.what = what)
          /\ \A d \in Clients :
                /\ \A f \in held[d] : f.task = t /\ f.what = what => c = d
                /\ \A j \in 1 .. Len(seen[d]) : ~(seen[d][j].task = t /\ seen[d][j].what = what)
      BY <1>1, <1>2, <1>5 DEF OneCopy, AloneHeld, QueueApart, HeldApart
    <2> QED
      BY <1>1, <1>5, <2>1, PlacesAre
  <1>6. ASSUME NEW c \in Clients, NEW i \in 1 .. Len(seen[c]), p = <<c, i>>, seen[c][i].task = t,
               seen[c][i].what = what
        PROVE  p = q
    <2>1. /\ \A j \in 1 .. Len(queue) : ~(queue[j].task = t /\ queue[j].what = what)
          /\ \A f \in lost : ~(f.task = t /\ f.what = what)
          /\ \A d \in Clients :
                /\ \A f \in held[d] : ~(f.task = t /\ f.what = what)
                /\ \A j \in 1 .. Len(seen[d]) :
                      seen[d][j].task = t /\ seen[d][j].what = what => c = d /\ i = j
      BY <1>1, <1>2, <1>6 DEF OneCopy, AloneSeen, QueueApart, HeldApart, SeenApart
    <2> QED
      BY <1>1, <1>6, <2>1, PlacesAre
  <1> QED
    BY <1>1, <1>3, <1>4, <1>5, <1>6, PlacesAre

\* Every event that was put is in exactly one place, and no other event is.
THEOREM EventsStayConserved == CockpitSpec => []EventsAreConserved
  <1>1. CockpitInv => EventsAreConserved
    <2> SUFFICES ASSUME CockpitInv, NEW t \in Tasks, NEW what \in Whats
                 PROVE  Cardinality(Places(t, what)) = IF what \in StagesPut(t) THEN 1 ELSE 0
      BY DEF EventsAreConserved
    <2>1. queue \in Seq(Events) /\ ClientsOK /\ CopiesWerePut /\ PutIsSomewhere
      BY DEF CockpitInv, CockpitTypeOK
    <2>2. CASE what \in StagesPut(t)
      <3>1. PICK e : Somewhere(e) /\ e.task = t /\ e.what = what
        BY <2>1, <2>2 DEF PutIsSomewhere
      <3>2. PICK p : p \in Places(t, what)
        <4>1. ASSUME NEW i \in 1 .. Len(queue), queue[i] = e
              PROVE  <<"queue", i>> \in Places(t, what)
          BY <2>1, <3>1, <4>1, PlacesAre
        <4>2. e \in lost => <<"lost", e>> \in Places(t, what)
          BY <2>1, <3>1, PlacesAre
        <4>3. ASSUME NEW c \in Clients, e \in held[c]
              PROVE  <<"held", c>> \in Places(t, what)
          BY <2>1, <3>1, <4>3, PlacesAre
        <4>4. ASSUME NEW c \in Clients, NEW i \in 1 .. Len(seen[c]), seen[c][i] = e
              PROVE  <<c, i>> \in Places(t, what)
          BY <2>1, <3>1, <4>4, PlacesAre
        <4> QED
          BY <3>1, <4>1, <4>2, <4>3, <4>4 DEF Somewhere, Queued, Shown
      <3>3. Places(t, what) = {p}
        BY <3>2, OnePlace
      <3> QED
        BY <2>2, <3>3, FS_Singleton
    <2>3. CASE what \notin StagesPut(t)
      <3>1. ASSUME NEW e, Somewhere(e), e.task = t, e.what = what PROVE FALSE
        <4>1. e \in Events
          BY <2>1, <3>1, EventsAreEvents DEF CockpitInv
        <4> QED
          BY <2>1, <2>3, <3>1, <4>1 DEF CopiesWerePut, PutOK
      <3>2. ASSUME NEW p \in Places(t, what) PROVE FALSE
        BY <2>1, <3>1, PlacesAre DEF Somewhere, Queued, Shown
      <3>3. Places(t, what) = {}
        BY <3>2
      <3> QED
        BY <2>3, <3>3, FS_EmptySet
    <2> QED
      BY <2>2, <2>3
  <1> QED
    BY <1>1, CockpitInvariance, PTL

-----------------------------------------------------------------------------
(* The order of the events.                                                *)

\* The order in which a task puts its events.
Stage == [scan |-> 1, egress |-> 2, outcome |-> 3]
Before(e, f) == e.task = f.task => Stage[e.what] < Stage[f.what]

QueueInOrder ==
    \A i, k \in 1 .. Len(queue) : i < k => Before(queue[i], queue[k])
HeldInOrder ==
    \A c \in Clients : \A e \in held[c] :
        /\ \A k \in 1 .. Len(queue) : Before(e, queue[k])
        /\ \A i \in 1 .. Len(seen[c]) : Before(seen[c][i], e)
SeenBeforeQueue ==
    \A c \in Clients : \A i \in 1 .. Len(seen[c]), k \in 1 .. Len(queue) :
        Before(seen[c][i], queue[k])

\* What a dashboard shows of one task it shows in the order in which the task
\* put it, also when it went away in between and others took events.
ShownInOrder ==
    \A c \in Clients : \A i, k \in 1 .. Len(seen[c]) :
        i < k => Before(seen[c][i], seen[c][k])

InOrder == QueueInOrder /\ HeldInOrder /\ SeenBeforeQueue /\ ShownInOrder

\* A task puts its events stage by stage.
LEMMA StageByStage ==
    ASSUME CockpitTypeOK, NEW t \in Tasks, TaskOK(t), TaskAct(t), NEW what \in Whats,
           what \notin StagesPut(t), StagesPut(t)' = StagesPut(t) \union {what}
    PROVE  \A w \in StagesPut(t) : Stage[w] < Stage[what]
  <1>1. "outcome" \notin StagesPut(t)
    BY TasksMoveAlone DEF StagesPut, At
  <1>2. "egress" \in StagesPut(t) => "scan" \in StagesPut(t)
    BY DEF StagesPut, Whats
  <1>3. what = "egress" \/ what = "outcome" \/ what = "scan"
    BY DEF Whats
  <1>4. \A w \in StagesPut(t) : w = "scan" \/ w = "egress"
    BY <1>1 DEF StagesPut, Whats
  <1>5. Stage["scan"] = 1 /\ Stage["egress"] = 2 /\ Stage["outcome"] = 3
    BY DEF Stage
  <1> QED
    BY <1>2, <1>3, <1>4, <1>5

\* A task puts an event behind all those of its own.
LEMMA TasksKeepOrder ==
    ASSUME CockpitInv, InOrder, NEW t \in Tasks, TaskAct(t)
    PROVE  InOrder'
  <1>1. /\ CockpitTypeOK /\ TaskOK(t) /\ CopiesWerePut /\ ClientsOK
        /\ queue \in Seq(Events) /\ UNCHANGED <<held, seen>>
    BY TasksMoveAlone DEF CockpitInv, CockpitTypeOK, clientVars
  <1>2. CASE queue' = queue
    BY <1>1, <1>2, Zenon
       DEF InOrder, QueueInOrder, HeldInOrder, SeenBeforeQueue, ShownInOrder
  <1>3. ASSUME NEW what \in Whats, NEW status \in Statuses,
               queue' = Append(queue, Event(t, what, status)),
               what \notin StagesPut(t), StagesPut(t)' = StagesPut(t) \union {what}
        PROVE  InOrder'
    <2> DEFINE new == [task |-> t, what |-> what, status |-> status]
    <2>1. new \in Events /\ queue' = Append(queue, new) /\ new.task = t /\ new.what = what
      BY <1>3 DEF Event, Events
    <2> HIDE DEF new
    <2>2. /\ Len(queue) \in Nat /\ Len(queue') = Len(queue) + 1 /\ queue'[Len(queue) + 1] = new
          /\ \A i \in 1 .. Len(queue) : queue'[i] = queue[i]
      BY <1>1, <2>1, AppendProperties, LenProperties
    <2>3. ASSUME NEW k \in 1 .. Len(queue')
          PROVE  (k \in 1 .. Len(queue) /\ queue'[k] = queue[k])
                 \/ (k = Len(queue) + 1 /\ queue'[k] = new)
      BY <2>2
    <2>4. ASSUME NEW e, Somewhere(e) PROVE Before(e, new)
      <3>1. e \in Events
        BY <1>1, <2>4, EventsAreEvents
      <3>2. e.task = t => e.what \in StagesPut(t)
        BY <1>1, <2>4, <3>1 DEF CopiesWerePut, PutOK
      <3>3. \A w \in StagesPut(t) : Stage[w] < Stage[what]
        BY <1>1, <1>3, StageByStage
      <3> QED
        BY <2>1, <3>2, <3>3 DEF Before
    <2>5. /\ \A i \in 1 .. Len(queue) : Before(queue[i], new)
          /\ \A c \in Clients : /\ \A e \in held[c] : Before(e, new)
                                /\ \A i \in 1 .. Len(seen[c]) : Before(seen[c][i], new)
      BY <2>4 DEF Somewhere, Queued, Shown
    <2>6. QueueInOrder'
      <3> SUFFICES ASSUME NEW i \in 1 .. Len(queue'), NEW k \in 1 .. Len(queue'), i < k
                   PROVE  Before(queue'[i], queue'[k])
        BY DEF QueueInOrder, Before
      <3>1. i \in 1 .. Len(queue) /\ queue'[i] = queue[i]
        BY <2>2
      <3>2. CASE k \in 1 .. Len(queue) /\ queue'[k] = queue[k]
        BY <3>1, <3>2 DEF InOrder, QueueInOrder
      <3>3. CASE queue'[k] = new
        BY <2>5, <3>1, <3>3
      <3> QED
        BY <2>3, <3>2, <3>3
    <2>7. HeldInOrder'
      <3> SUFFICES ASSUME NEW c \in Clients, NEW e \in held[c]
                   PROVE  /\ \A k \in 1 .. Len(queue') : Before(e, queue'[k])
                          /\ \A i \in 1 .. Len(seen[c]) : Before(seen[c][i], e)
        BY <1>1 DEF HeldInOrder, Before
      <3>1. /\ \A k \in 1 .. Len(queue) : Before(e, queue[k])
            /\ \A i \in 1 .. Len(seen[c]) : Before(seen[c][i], e)
        BY DEF InOrder, HeldInOrder
      <3> QED
        BY <2>3, <2>5, <3>1
    <2>8. SeenBeforeQueue'
      <3> SUFFICES ASSUME NEW c \in Clients, NEW i \in 1 .. Len(seen[c]), NEW k \in 1 .. Len(queue')
                   PROVE  Before(seen[c][i], queue'[k])
        BY <1>1 DEF SeenBeforeQueue, Before
      <3> QED
        BY <2>3, <2>5 DEF InOrder, SeenBeforeQueue
    <2>9. ShownInOrder'
      BY <1>1, Zenon DEF InOrder, ShownInOrder
    <2> QED
      BY <2>6, <2>7, <2>8, <2>9 DEF InOrder
  <1> QED
    BY <1>1, <1>2, <1>3, TaskPuts

\* A client takes the first event and shows it behind what it has shown.
LEMMA ClientsKeepOrder ==
    ASSUME CockpitInv, InOrder, NEW c \in Clients, ClientAct(c)
    PROVE  InOrder'
  <1>1. /\ queue \in Seq(Events) /\ seen \in [Clients -> Seq(Events)]
        /\ held \in [Clients -> SUBSET Events]
        /\ \A d \in Clients : held[d] # {} => \E e \in Events : held[d] = {e}
        /\ QueueInOrder /\ HeldInOrder /\ SeenBeforeQueue /\ ShownInOrder
    BY DEF CockpitInv, CockpitTypeOK, ClientsOK, InOrder
  <1>2. CASE Connect(c) \/ Disconnect(c)
    <2>1. UNCHANGED <<queue, seen>> /\ \A d \in Clients : held'[d] \subseteq held[d]
      BY <1>1, <1>2 DEF Connect, Disconnect
    <2>2. QueueInOrder' /\ SeenBeforeQueue' /\ ShownInOrder'
      BY <1>1, <2>1, Zenon DEF QueueInOrder, SeenBeforeQueue, ShownInOrder
    <2>3. HeldInOrder'
      <3> SUFFICES ASSUME NEW d \in Clients, NEW e \in held'[d]
                   PROVE  /\ \A k \in 1 .. Len(queue) : Before(e, queue[k])
                          /\ \A i \in 1 .. Len(seen[d]) : Before(seen[d][i], e)
        BY <2>1 DEF HeldInOrder, Before
      <3> QED
        BY <1>1, <2>1 DEF HeldInOrder
    <2> QED
      BY <2>2, <2>3 DEF InOrder
  <1>3. CASE Take(c)
    <2> DEFINE first == Head(queue)
    <2>1. /\ queue # << >> /\ seen' = seen /\ queue' = Tail(queue)
          /\ held' = [held EXCEPT ![c] = {first}]
      BY <1>3 DEF Take
    <2>2. /\ first = queue[1] /\ Len(queue) \in Nat \ {0} /\ Len(queue') = Len(queue) - 1
          /\ \A i \in 1 .. Len(queue') : queue'[i] = queue[i + 1]
      BY <1>1, <2>1, HeadTailProperties, EmptySeq
    <2> HIDE DEF first
    <2>3. /\ 1 \in 1 .. Len(queue)
          /\ \A i \in 1 .. Len(queue') : i + 1 \in 1 .. Len(queue) /\ 1 < i + 1
      BY <2>2
    <2>4. QueueInOrder'
      <3> SUFFICES ASSUME NEW i \in 1 .. Len(queue'), NEW k \in 1 .. Len(queue'), i < k
                   PROVE  Before(queue'[i], queue'[k])
        BY DEF QueueInOrder, Before
      <3>1. i + 1 < k + 1
        OBVIOUS
      <3> QED
        BY <1>1, <2>2, <2>3, <3>1 DEF QueueInOrder
    <2>5. SeenBeforeQueue' /\ ShownInOrder'
      <3>1. ShownInOrder'
        BY <1>1, <2>1, Zenon DEF ShownInOrder
      <3>2. SeenBeforeQueue'
        <4> SUFFICES ASSUME NEW d \in Clients, NEW i \in 1 .. Len(seen[d]), NEW k \in 1 .. Len(queue')
                     PROVE  Before(seen[d][i], queue'[k])
          BY <2>1 DEF SeenBeforeQueue, Before
        <4> QED
          BY <1>1, <2>2, <2>3 DEF SeenBeforeQueue
      <3> QED
        BY <3>1, <3>2
    <2>6. HeldInOrder'
      <3> SUFFICES ASSUME NEW d \in Clients, NEW e \in held'[d]
                   PROVE  /\ \A k \in 1 .. Len(queue') : Before(e, queue'[k])
                          /\ \A i \in 1 .. Len(seen[d]) : Before(seen[d][i], e)
        BY <2>1 DEF HeldInOrder, Before
      <3>1. e \in held[d] \/ e = first
        BY <1>1, <2>1
      <3>2. CASE e \in held[d]
        BY <1>1, <2>2, <2>3, <3>2 DEF HeldInOrder
      <3>3. CASE e = first
        BY <1>1, <2>2, <2>3, <3>3 DEF QueueInOrder, SeenBeforeQueue
      <3> QED
        BY <3>1, <3>2, <3>3
    <2> QED
      BY <2>4, <2>5, <2>6 DEF InOrder
  <1>4. CASE Deliver(c)
    <2>1. PICK e \in held[c] : seen' = [seen EXCEPT ![c] = Append(@, e)]
      BY <1>4 DEF Deliver
    <2>2. /\ queue' = queue /\ held' = [held EXCEPT ![c] = {}]
          /\ held[c] = {e} /\ e \in Events /\ seen[c] \in Seq(Events) /\ Len(seen[c]) \in Nat
      BY <1>1, <1>4, <2>1, LenProperties DEF Deliver
    <2>3. /\ Len(seen'[c]) = Len(seen[c]) + 1 /\ seen'[c][Len(seen[c]) + 1] = e
          /\ \A i \in 1 .. Len(seen[c]) : seen'[c][i] = seen[c][i]
          /\ \A d \in Clients : d # c => seen'[d] = seen[d] /\ held'[d] = held[d]
          /\ held'[c] = {}
      BY <1>1, <2>1, <2>2, AppendProperties
    <2>4. ASSUME NEW i \in 1 .. Len(seen'[c])
          PROVE  (i \in 1 .. Len(seen[c]) /\ seen'[c][i] = seen[c][i])
                 \/ (i = Len(seen[c]) + 1 /\ seen'[c][i] = e)
      BY <2>2, <2>3
    <2>5. QueueInOrder'
      BY <1>1, <2>2, Zenon DEF QueueInOrder
    <2>6. HeldInOrder'
      <3> SUFFICES ASSUME NEW d \in Clients, d # c, NEW f \in held[d]
                   PROVE  /\ \A k \in 1 .. Len(queue) : Before(f, queue[k])
                          /\ \A i \in 1 .. Len(seen[d]) : Before(seen[d][i], f)
        BY <2>2, <2>3 DEF HeldInOrder, Before
      <3> QED
        BY <1>1 DEF HeldInOrder
    <2>7. SeenBeforeQueue'
      <3> SUFFICES ASSUME NEW d \in Clients, NEW i \in 1 .. Len(seen'[d]), NEW k \in 1 .. Len(queue)
                   PROVE  Before(seen'[d][i], queue[k])
        BY <2>2 DEF SeenBeforeQueue, Before
      <3>1. CASE d # c
        BY <1>1, <2>3, <3>1 DEF SeenBeforeQueue
      <3>2. CASE d = c
        BY <1>1, <2>1, <2>4, <3>2 DEF SeenBeforeQueue, HeldInOrder
      <3> QED
        BY <3>1, <3>2
    <2>8. ShownInOrder'
      <3> SUFFICES ASSUME NEW d \in Clients, NEW i \in 1 .. Len(seen'[d]),
                          NEW k \in 1 .. Len(seen'[d]), i < k
                   PROVE  Before(seen'[d][i], seen'[d][k])
        BY DEF ShownInOrder, Before
      <3>1. CASE d # c
        BY <1>1, <2>3, <3>1 DEF ShownInOrder
      <3>2. CASE d = c
        <4>1. i \in 1 .. Len(seen[c]) /\ seen'[c][i] = seen[c][i]
          BY <2>2, <2>3, <3>2
        <4>2. CASE k \in 1 .. Len(seen[c]) /\ seen'[c][k] = seen[c][k]
          BY <1>1, <3>2, <4>1, <4>2 DEF ShownInOrder
        <4>3. CASE seen'[c][k] = e
          BY <1>1, <2>1, <3>2, <4>1, <4>3 DEF HeldInOrder
        <4> QED
          BY <2>4, <3>2, <4>2, <4>3
      <3> QED
        BY <3>1, <3>2
    <2> QED
      BY <2>5, <2>6, <2>7, <2>8 DEF InOrder
  <1> QED
    BY <1>2, <1>3, <1>4 DEF ClientAct, ClientStep

\* Every dashboard shows the events of a task in the order they were put.
THEOREM EventsAreShownInOrder == CockpitSpec => []ShownInOrder
  <1>1. CockpitInit => InOrder
    BY DEF CockpitInit, InOrder, QueueInOrder, HeldInOrder, SeenBeforeQueue, ShownInOrder
  <1>2. CockpitInv /\ InOrder /\ [CockpitNext]_cockpitVars => InOrder'
    <2> SUFFICES ASSUME CockpitInv, InOrder, [CockpitNext]_cockpitVars PROVE InOrder'
      OBVIOUS
    <2>1. CASE \E t \in Tasks : TaskAct(t)
      BY <2>1, TasksKeepOrder
    <2>2. CASE \E c \in Clients : ClientAct(c)
      BY <2>2, ClientsKeepOrder
    <2>3. CASE UNCHANGED cockpitVars
      <3>1. UNCHANGED <<queue, held, seen>>
        BY <2>3 DEF cockpitVars, clientVars
      <3> QED
        BY <3>1, Zenon DEF InOrder, QueueInOrder, HeldInOrder, SeenBeforeQueue, ShownInOrder
    <2> QED
      BY <2>1, <2>2, <2>3 DEF CockpitNext, TaskAct, ClientAct
  <1>3. InOrder => ShownInOrder
    BY DEF InOrder
  <1> QED
    BY <1>1, <1>2, <1>3, CockpitInvariance, PTL DEF CockpitSpec

=============================================================================
