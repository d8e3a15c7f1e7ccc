--------------------------- MODULE JobQueueProofs ---------------------------
(***************************************************************************)
(* Proofs about JobQueue, for every set of jobs and of workers and every   *)
(* number of faults.                                                       *)
(*                                                                         *)
(* The bound on duplicates is an accounting argument.  Every way in which  *)
(* a message may still come to a worker (it was never delivered, it waits  *)
(* for redelivery, its callback is running, it is about to be nak'ed) is a *)
(* pending run of its job.  A step either moves a pending run along, turns *)
(* it into a run, or creates one and pays for it with a fault.             *)
(***************************************************************************)
EXTENDS JobQueue, SequenceTheorems, TLAPS

\* A job is in the stream at most once, and only after it was published.
QueuedOnce ==
    /\ \A i \in DOMAIN msgs : submit[msgs[i]] \in {"confirming", "returned", "raised"}
    /\ \A i, k \in DOMAIN msgs : msgs[i] = msgs[k] => i = k

\* What a worker holds, or will get again, its consumer has delivered before.
Delivered ==
    \A w \in Workers : msg[w] < next[w] /\ \A i \in again[w] : i < next[w]

\* A worker that acks has completed the callback, and so has whoever ran a
\* job at all found it in the stream.
RanBeforeAck ==
    /\ AckedWasProcessed
    /\ \A w \in Workers : worker[w] = "acking" => ran[w][msgs[msg[w]]] > 0
    /\ \A w \in Workers, j \in Jobs : ran[w][j] > 0 => \E i \in DOMAIN msgs : msgs[i] = j

Undelivered(w, i) == IF i >= next[w] THEN 1 ELSE 0
Redelivery(w, i) == IF i \in again[w] THEN 1 ELSE 0
InHand(w, i) == IF msg[w] = i /\ worker[w] \in {"calling", "naking"} THEN 1 ELSE 0

Spent == MaxFaults - faults

\* The runs of a job and its pending runs are paid for.
Budget ==
    \A w \in Workers : \A i \in DOMAIN msgs :
        ran[w][msgs[i]] + Undelivered(w, i) + Redelivery(w, i) + InHand(w, i) <= 1 + Spent

\* Unless it was closed, a scheduler with js set has a connection; and it has
\* a stream, or some connect is not over.  A call that goes on to publish
\* without a stream began in that time.
StreamKnown ==
    /\ js /\ ~closed => open
    /\ js => exists \/ HalfConnected
    /\ \A j \in Jobs : submit[j] \in {"ensuring", "publishing", "confirming"} => js
    /\ \A j \in Jobs : submit[j] = "publishing" => exists \/ j \in hasty
    /\ \A j \in Jobs : silent[j] # "none" => submit[j] = "raised"

IInv ==
    /\ TypeOK
    /\ QueuedOnce
    /\ Delivered
    /\ RanBeforeAck
    /\ Budget
    /\ StreamKnown
    /\ RaisesNeedCause

-----------------------------------------------------------------------------

\* The actions of a submission, and the actions of a worker.
Scheduler == \/ \E j \in Jobs : SubmitJob(j) \/ SubmitStep(j) \/ SubmitRaises(j)
             \/ Close
Worker(w) == \/ WorkerStep(w) \/ AckWaitExpires(w) \/ CallbackRaises(w)
             \/ AckRaises(w) \/ StopWorker(w)

\* Init establishes the invariant.
LEMMA InitIInv == Init => IInv
  <1> SUFFICES ASSUME Init PROVE IInv
    OBVIOUS
  <1>1. Len(msgs) = 0 /\ DOMAIN msgs = {} /\ msgs \in Seq(Jobs)
    BY DEF Init
  <1>2. TypeOK
    <2>1. next \in [Workers -> 1 .. Len(msgs) + 1] /\ msg \in [Workers -> 0 .. Len(msgs)]
      BY <1>1 DEF Init
    <2>2. /\ again \in [Workers -> SUBSET (1 .. Len(msgs))]
          /\ acked \in [Workers -> SUBSET (1 .. Len(msgs))]
          /\ ran \in [Workers -> [Jobs -> Nat]]
      BY DEF Init
    <2>3. /\ submit \in [Jobs -> SubmitStates]
          /\ worker \in [Workers -> WorkerStates]
          /\ \A w \in Workers : worker[w] = "down" /\ msg[w] = 0
      BY DEF Init, SubmitStates, WorkerStates
    <2>4. js \in BOOLEAN /\ open \in BOOLEAN /\ exists \in BOOLEAN
      BY DEF Init
    <2>5. faults \in 0 .. MaxFaults
      BY JobQueueAssumption DEF Init
    <2>6. /\ hasty \subseteq Jobs /\ closed \in BOOLEAN
          /\ silent \in [Jobs -> SubmitStates \union {"none"}]
      BY DEF Init
    <2> QED
      BY <1>1, <2>1, <2>2, <2>3, <2>4, <2>5, <2>6 DEF TypeOK
  <1>3. QueuedOnce /\ Delivered /\ RanBeforeAck /\ Budget
    BY <1>1 DEF Init, QueuedOnce, Delivered, RanBeforeAck, Budget, AckedWasProcessed
  <1>4. StreamKnown /\ RaisesNeedCause
    BY DEF Init, StreamKnown, RaisesNeedCause
  <1> QED
    BY <1>2, <1>3, <1>4 DEF IInv

\* Appending a job to the stream changes no earlier message.
LEMMA AppendJob ==
    ASSUME NEW j \in Jobs, msgs \in Seq(Jobs), msgs' = Append(msgs, j)
    PROVE  /\ msgs' \in Seq(Jobs)
           /\ Len(msgs) \in Nat /\ Len(msgs') = Len(msgs) + 1
           /\ DOMAIN msgs = 1 .. Len(msgs) /\ DOMAIN msgs' = 1 .. Len(msgs) + 1
           /\ \A i \in 1 .. Len(msgs) : msgs'[i] = msgs[i]
           /\ msgs'[Len(msgs) + 1] = j
  BY AppendProperties

\* The steps of the submissions keep the types.
LEMMA SchedulerKeepsTypes == TypeOK /\ Scheduler => TypeOK'
  <1> SUFFICES ASSUME TypeOK, Scheduler PROVE TypeOK'
    OBVIOUS
  <1> USE DEF TypeOK, schedulerVars, callVars, consumerVars, workerVars, SubmitStates, Goto, Fault
  <1>1. ASSUME NEW j \in Jobs, Publish(j) PROVE TypeOK'
    <2>1. /\ msgs' \in Seq(Jobs) /\ Len(msgs) \in Nat
          /\ Len(msgs') = Len(msgs) + 1
      BY <1>1, AppendJob DEF Publish
    <2>2. UNCHANGED <<js, open, exists, hasty, silent, closed, worker, msg, next, again, acked, ran, faults>>
      BY <1>1 DEF Publish
    <2>3. submit' \in [Jobs -> SubmitStates]
      BY <1>1 DEF Publish
    <2>4. next' \in [Workers -> 1 .. Len(msgs') + 1] /\ msg' \in [Workers -> 0 .. Len(msgs')]
      BY <2>1, <2>2
    <2>5. again' \in [Workers -> SUBSET (1 .. Len(msgs'))]
          /\ acked' \in [Workers -> SUBSET (1 .. Len(msgs'))]
      BY <2>1, <2>2, SMTT(30)
    <2> QED
      BY <2>1, <2>2, <2>3, <2>4, <2>5
  <1>2. ASSUME NEW j \in Jobs, SubmitJob(j) PROVE TypeOK'
    BY <1>2 DEF SubmitJob
  <1>3. ASSUME NEW j \in Jobs, Dialed(j) \/ StreamEnsured(j) PROVE TypeOK'
    BY <1>3 DEF Dialed, StreamEnsured
  <1>4. ASSUME NEW j \in Jobs, PublishRefused(j) \/ Confirmed(j) PROVE TypeOK'
    BY <1>4 DEF PublishRefused, Confirmed
  <1>5. ASSUME NEW j \in Jobs, SubmitRaises(j) PROVE TypeOK'
    BY <1>5, JobQueueAssumption DEF SubmitRaises
  <1>6. CASE Close
    <2>1. /\ open' = FALSE /\ closed' = TRUE /\ faults' = faults - 1 /\ faults > 0
          /\ UNCHANGED <<js, exists, submit, hasty, silent, msgs, worker, msg, next, again, acked, ran>>
      BY <1>6 DEF Close
    <2>2. faults' \in 0 .. MaxFaults
      BY <2>1, JobQueueAssumption
    <2>3. js' \in BOOLEAN /\ open' \in BOOLEAN /\ exists' \in BOOLEAN /\ closed' \in BOOLEAN
      BY <2>1, Zenon
    <2> QED
      BY <2>1, <2>2, <2>3
  <1> QED
    BY <1>1, <1>2, <1>3, <1>4, <1>5, <1>6 DEF Scheduler, SubmitStep

\* What a worker's consumer may deliver is a message of the stream.
LEMMA DueIsQueued ==
    ASSUME TypeOK, NEW w \in Workers
    PROVE  /\ Len(msgs) \in Nat
           /\ DOMAIN msgs = 1 .. Len(msgs)
           /\ Due(w) \subseteq 1 .. Len(msgs)
  BY LenProperties DEF TypeOK, Due

\* The steps of the workers keep the types.
LEMMA WorkerKeepsTypes ==
    ASSUME TypeOK, NEW w \in Workers, Worker(w)
    PROVE  TypeOK'
  <1> USE DEF TypeOK, schedulerVars, callVars, consumerVars, WorkerStates, Enter, Fault
  <1>0. /\ Len(msgs) \in Nat /\ DOMAIN msgs = 1 .. Len(msgs) /\ Due(w) \subseteq 1 .. Len(msgs)
        /\ \A d \in SUBSET (1 .. Len(msgs)) : DeliverAgain(w, d) =>
              again' \in [Workers -> SUBSET (1 .. Len(msgs))]
    BY DueIsQueued DEF DeliverAgain
  <1>1. CASE StartWorker(w)
    BY <1>1 DEF StartWorker, Resume
  <1>2. CASE Receive(w)
    <2>1. PICK i \in Due(w) :
            /\ msg' = [msg EXCEPT ![w] = i]
            /\ next' = [next EXCEPT ![w] = IF i = @ THEN @ + 1 ELSE @]
            /\ again' = [again EXCEPT ![w] = @ \ {i}]
      BY <1>2 DEF Receive
    <2>2. i \in 1 .. Len(msgs) /\ i # 0
      BY <1>0
    <2>3. next' \in [Workers -> 1 .. Len(msgs) + 1]
      BY <1>0, <2>1, <2>2
    <2>4. /\ again' \in [Workers -> SUBSET (1 .. Len(msgs))]
          /\ msg' \in [Workers -> 0 .. Len(msgs)]
          /\ worker' \in [Workers -> WorkerStates]
          /\ \A v \in Workers : worker'[v] \in {"calling", "acking", "naking"} <=> msg'[v] # 0
      BY <1>2, <2>1, <2>2 DEF Receive
    <2> QED
      BY <1>2, <2>3, <2>4 DEF Receive
  <1>3. CASE CallbackReturns(w)
    <2>1. msg[w] \in DOMAIN msgs /\ msgs[msg[w]] \in Jobs
      BY <1>0, <1>3 DEF CallbackReturns
    <2>2. ran' \in [Workers -> [Jobs -> Nat]]
      BY <1>3, <2>1 DEF CallbackReturns
    <2> QED
      BY <1>3, <2>2 DEF CallbackReturns
  <1>4. CASE Ack(w)
    <2>1. msg[w] \in 1 .. Len(msgs)
      BY <1>0, <1>4 DEF Ack
    <2>2. acked' \in [Workers -> SUBSET (1 .. Len(msgs))]
      BY <1>4, <2>1 DEF Ack
    <2>3. again' \in [Workers -> SUBSET (1 .. Len(msgs))]
      BY <1>4 DEF Ack
    <2>4. /\ msg' \in [Workers -> 0 .. Len(msgs)]
          /\ worker' \in [Workers -> WorkerStates]
          /\ \A v \in Workers : worker'[v] \in {"calling", "acking", "naking"} <=> msg'[v] # 0
      BY <1>0, <1>4 DEF Ack
    <2> QED
      BY <1>4, <2>2, <2>3, <2>4 DEF Ack
  <1>5. CASE Nak(w)
    <2>1. again' \in [Workers -> SUBSET (1 .. Len(msgs))]
      BY <1>0, <1>5 DEF Nak
    <2>2. /\ msg' \in [Workers -> 0 .. Len(msgs)]
          /\ worker' \in [Workers -> WorkerStates]
          /\ \A v \in Workers : worker'[v] \in {"calling", "acking", "naking"} <=> msg'[v] # 0
      BY <1>0, <1>5 DEF Nak
    <2> QED
      BY <1>5, <2>1, <2>2 DEF Nak
  <1>6. ASSUME Fault PROVE faults' \in 0 .. MaxFaults
    BY <1>6, JobQueueAssumption
  <1>7. CASE AckWaitExpires(w)
    BY <1>0, <1>6, <1>7 DEF AckWaitExpires
  <1>8. CASE CallbackRaises(w)
    BY <1>6, <1>8 DEF CallbackRaises
  <1>9. CASE AckRaises(w)
    <2>1. msg[w] \in 1 .. Len(msgs)
      BY <1>0, <1>9 DEF AckRaises
    <2>2. acked' \in [Workers -> SUBSET (1 .. Len(msgs))]
      <3>1. CASE acked' = acked
        BY <3>1
      <3>2. CASE acked' = [acked EXCEPT ![w] = @ \union {msg[w]}]
        BY <2>1, <3>2
      <3> QED
        BY <1>9, <3>1, <3>2 DEF AckRaises
    <2>3. /\ worker' \in [Workers -> WorkerStates]
          /\ \A v \in Workers : worker'[v] \in {"calling", "acking", "naking"} <=> msg[v] # 0
      BY <1>9 DEF AckRaises
    <2>4. faults' \in 0 .. MaxFaults
      BY <1>6, <1>9 DEF AckRaises
    <2>5. UNCHANGED <<schedulerVars, msg, next, again, ran>>
      BY <1>9 DEF AckRaises
    <2> QED
      BY <2>2, <2>3, <2>4, <2>5
  <1>10. CASE StopWorker(w)
    <2>1. again' \in [Workers -> SUBSET (1 .. Len(msgs))]
      BY <1>0, <1>10 DEF StopWorker
    <2>2. /\ msg' \in [Workers -> 0 .. Len(msgs)]
          /\ worker' \in [Workers -> WorkerStates]
          /\ \A v \in Workers : worker'[v] \in {"calling", "acking", "naking"} <=> msg'[v] # 0
      BY <1>0, <1>10 DEF StopWorker
    <2> QED
      BY <1>6, <1>10, <2>1, <2>2 DEF StopWorker
  <1> QED
    BY <1>1, <1>2, <1>3, <1>4, <1>5, <1>7, <1>8, <1>9, <1>10 DEF Worker, WorkerStep

-----------------------------------------------------------------------------
(* The steps of the submissions.                                           *)

\* A fault leaves fewer faults.
LEMMA FaultIsSpent ==
    ASSUME TypeOK, Fault
    PROVE  faults' = faults - 1 /\ Spent' = Spent + 1 /\ faults' < faults /\ faults' # MaxFaults
  BY JobQueueAssumption DEF TypeOK, Fault, Spent

\* Everything a worker has, and everything about the messages in the stream,
\* is as it was, or is paid for with more than before.
LEMMA WorkersUntouched ==
    ASSUME IInv, UNCHANGED <<msgs, workerVars>>, Spent' \in Int, Spent <= Spent'
    PROVE  Delivered' /\ RanBeforeAck' /\ Budget'
  <1> USE DEF workerVars, consumerVars
  <1>1. Delivered' /\ RanBeforeAck'
    BY DEF IInv, Delivered, RanBeforeAck, AckedWasProcessed
  <1>2. ASSUME NEW w \in Workers, NEW i \in DOMAIN msgs
        PROVE  ran[w][msgs[i]] + Undelivered(w, i) + Redelivery(w, i) + InHand(w, i) <= 1 + Spent'
    <2>1. ran[w][msgs[i]] + Undelivered(w, i) + Redelivery(w, i) + InHand(w, i) <= 1 + Spent
      BY DEF IInv, Budget
    <2>2. ran[w][msgs[i]] \in Nat
      BY DEF IInv, TypeOK
    <2>3. Spent \in Int
      BY JobQueueAssumption DEF IInv, TypeOK, Spent
    <2> QED
      BY <2>1, <2>2, <2>3 DEF Undelivered, Redelivery, InHand
  <1>3. Budget'
    BY <1>2 DEF Budget, Undelivered, Redelivery, InHand
  <1> QED
    BY <1>1, <1>3

\* A job that is published is new to the stream, and nobody ran it yet.
LEMMA PublishKeepsIInv ==
    ASSUME IInv, TypeOK', NEW j \in Jobs, Publish(j)
    PROVE  IInv'
  <1> DEFINE k == Len(msgs) + 1
  <1>1. /\ Len(msgs) \in Nat
        /\ DOMAIN msgs = 1 .. Len(msgs) /\ DOMAIN msgs' = 1 .. k
        /\ \A i \in 1 .. Len(msgs) : msgs'[i] = msgs[i]
        /\ msgs'[k] = j
    BY AppendJob DEF IInv, TypeOK, Publish
  <1>2. /\ submit[j] = "publishing" /\ submit' = [submit EXCEPT ![j] = "confirming"]
        /\ UNCHANGED <<js, open, exists, hasty, silent, closed, worker, msg, next, again, acked, ran, faults>>
    BY DEF Publish, Goto, callVars, workerVars, consumerVars
  <1>3. \A i \in DOMAIN msgs : msgs[i] \in Jobs /\ msgs[i] # j
    <2>1. msgs \in Seq(Jobs) /\ QueuedOnce
      BY DEF IInv, TypeOK
    <2> QED
      BY <1>1, <1>2, <2>1 DEF QueuedOnce
  <1>4. QueuedOnce'
    <2>1. \A i \in DOMAIN msgs' : submit'[msgs'[i]] \in {"confirming", "returned", "raised"}
      <3>1. submit \in [Jobs -> SubmitStates] /\ QueuedOnce
        BY DEF IInv, TypeOK
      <3> QED
        BY <1>1, <1>2, <1>3, <3>1 DEF QueuedOnce
    <2>2. \A i, m \in DOMAIN msgs' : msgs'[i] = msgs'[m] => i = m
      BY <1>1, <1>3 DEF IInv, QueuedOnce
    <2> QED
      BY <2>1, <2>2 DEF QueuedOnce
  <1>5. Delivered'
    BY <1>2 DEF IInv, Delivered
  <1>6. \A w \in Workers : ran[w][j] = 0
    <2>1. \A w \in Workers : ran[w][j] \in Nat /\ ~(ran[w][j] > 0)
      BY <1>3 DEF IInv, TypeOK, RanBeforeAck
    <2> QED
      BY <2>1
  <1>7. RanBeforeAck'
    <2>1. \A w \in Workers : \A i \in acked[w] : i \in DOMAIN msgs
      BY <1>1 DEF IInv, TypeOK
    <2>2. \A w \in Workers : worker[w] = "acking" => msg[w] \in DOMAIN msgs
      BY <1>1 DEF IInv, TypeOK
    <2> QED
      BY <1>1, <1>2, <2>1, <2>2 DEF IInv, RanBeforeAck, AckedWasProcessed
  <1>8. Budget'
    <2> SUFFICES ASSUME NEW w \in Workers, NEW i \in 1 .. k
                 PROVE  ran[w][msgs'[i]] + Undelivered(w, i) + Redelivery(w, i) + InHand(w, i)
                            <= 1 + Spent
      BY <1>1, <1>2 DEF Budget, Undelivered, Redelivery, InHand, Spent
    <2>1. CASE i \in 1 .. Len(msgs)
      BY <1>1, <2>1 DEF IInv, Budget
    <2>2. CASE i = k
      <3>1. msg[w] # k /\ k \notin again[w]
        BY <1>1, SMTT(30) DEF IInv, TypeOK
      <3>2. Spent \in Nat
        BY JobQueueAssumption DEF IInv, TypeOK, Spent
      <3> QED
        BY <1>1, <1>6, <2>2, <3>1, <3>2 DEF Undelivered, Redelivery, InHand
    <2> QED
      BY <1>1, <2>1, <2>2
  <1>9. StreamKnown'
    BY <1>2 DEF IInv, TypeOK, StreamKnown, HalfConnected
  <1>10. RaisesNeedCause'
    BY <1>2 DEF IInv, TypeOK, RaisesNeedCause
  <1> QED
    BY <1>4, <1>5, <1>7, <1>8, <1>9, <1>10 DEF IInv

\* The other steps of the submissions leave stream and workers alone.
LEMMA SchedulerKeepsIInv ==
    ASSUME IInv, Scheduler
    PROVE  IInv'
  <1>0. TypeOK'
    BY SchedulerKeepsTypes DEF IInv
  <1>1. ASSUME NEW j \in Jobs, Publish(j) PROVE IInv'
    BY <1>0, <1>1, PublishKeepsIInv
  <1>2. ASSUME UNCHANGED <<msgs, workerVars>>,
               \A k \in Jobs : submit[k] \in {"confirming", "returned", "raised"} =>
                                   submit'[k] \in {"confirming", "returned", "raised"},
               faults' = faults \/ Fault, StreamKnown', RaisesNeedCause'
        PROVE  IInv'
    <2>1. Spent' \in Int /\ Spent <= Spent'
      BY <1>2, FaultIsSpent, JobQueueAssumption DEF IInv, TypeOK, Spent
    <2>2. \A i \in DOMAIN msgs : msgs[i] \in Jobs
      BY DEF IInv, TypeOK
    <2>3. QueuedOnce'
      BY <1>2, <2>2 DEF IInv, QueuedOnce
    <2> QED
      BY <1>0, <1>2, <2>1, <2>3, WorkersUntouched DEF IInv
  <1> USE DEF IInv, TypeOK, StreamKnown, HalfConnected, RaisesNeedCause, Goto, callVars
  <1>3. ASSUME NEW j \in Jobs, SubmitJob(j) PROVE IInv'
    <2>1. StreamKnown'
      BY <1>3 DEF SubmitJob
    <2>2. RaisesNeedCause'
      BY <1>3 DEF SubmitJob
    <2> QED
      BY <1>2, <1>3, <2>1, <2>2 DEF SubmitJob
  <1>4. ASSUME NEW j \in Jobs, Dialed(j) PROVE IInv'
    <2>1. StreamKnown'
      BY <1>4 DEF Dialed
    <2>2. RaisesNeedCause'
      BY <1>4 DEF Dialed
    <2> QED
      BY <1>2, <1>4, <2>1, <2>2 DEF Dialed
  <1>5. ASSUME NEW j \in Jobs, StreamEnsured(j) PROVE IInv'
    <2>1. StreamKnown'
      BY <1>5 DEF StreamEnsured
    <2>2. RaisesNeedCause'
      BY <1>5 DEF StreamEnsured
    <2> QED
      BY <1>2, <1>5, <2>1, <2>2 DEF StreamEnsured
  <1>6. ASSUME NEW j \in Jobs, PublishRefused(j) PROVE IInv'
    <2>1. StreamKnown'
      BY <1>6 DEF PublishRefused
    <2>2. RaisesNeedCause'
      BY <1>6 DEF PublishRefused
    <2> QED
      BY <1>2, <1>6, <2>1, <2>2 DEF PublishRefused
  <1>7. ASSUME NEW j \in Jobs, Confirmed(j) PROVE IInv'
    <2>1. StreamKnown'
      BY <1>7 DEF Confirmed
    <2>2. RaisesNeedCause'
      BY <1>7 DEF Confirmed
    <2> QED
      BY <1>2, <1>7, <2>1, <2>2 DEF Confirmed
  <1>8. ASSUME NEW j \in Jobs, SubmitRaises(j) PROVE IInv'
    <2>0. \A k \in Jobs : submit[k] = "ensuring" \/ silent[k] = "ensuring" =>
              submit'[k] = "ensuring" \/ silent'[k] = "ensuring"
      BY <1>8 DEF SubmitRaises
    <2>1. StreamKnown'
      BY <1>8, <2>0 DEF SubmitRaises
    <2>2. RaisesNeedCause'
      BY <1>8 DEF SubmitRaises
    <2> QED
      BY <1>2, <1>8, <2>1, <2>2 DEF SubmitRaises
  <1>9. CASE Close
    <2>1. StreamKnown'
      BY <1>9 DEF Close
    <2>2. RaisesNeedCause'
      BY <1>9 DEF Close
    <2> QED
      BY <1>2, <1>9, <2>1, <2>2 DEF Close
  <1> QED
    BY <1>1, <1>3, <1>4, <1>5, <1>6, <1>7, <1>8, <1>9 DEF Scheduler, SubmitStep

-----------------------------------------------------------------------------
(* The steps of the workers.                                               *)

\* A step of a worker concerns no submission and no other worker, and costs
\* nothing or a fault.
LEMMA OneWorkerSteps ==
    ASSUME IInv, NEW w \in Workers, Worker(w)
    PROVE  /\ UNCHANGED schedulerVars
           /\ faults' = faults \/ Fault
           /\ \A v \in Workers \ {w} :
                 /\ worker'[v] = worker[v] /\ msg'[v] = msg[v]
                 /\ next'[v] = next[v] /\ again'[v] = again[v]
                 /\ acked'[v] = acked[v] /\ ran'[v] = ran[v]
  <1> USE DEF IInv, TypeOK, Enter, Resume, DeliverAgain, consumerVars
  <1>1. CASE StartWorker(w) \/ Receive(w)
    BY <1>1 DEF StartWorker, Receive
  <1>2. CASE CallbackReturns(w) \/ CallbackRaises(w) \/ AckWaitExpires(w)
    BY <1>2 DEF CallbackReturns, CallbackRaises, AckWaitExpires
  <1>3. CASE Ack(w)
    BY <1>3 DEF Ack
  <1>4. CASE AckRaises(w)
    BY <1>4 DEF AckRaises
  <1>5. CASE Nak(w) \/ StopWorker(w)
    BY <1>5 DEF Nak, StopWorker
  <1> QED
    BY <1>1, <1>2, <1>3, <1>4, <1>5 DEF Worker, WorkerStep

\* What a step of worker w has to establish about w itself.
DeliveredTo(w) == msg[w] < next[w] /\ \A i \in again[w] : i < next[w]
RanBeforeAckBy(w) ==
    /\ \A i \in acked[w] : ran[w][msgs[i]] > 0
    /\ worker[w] = "acking" => ran[w][msgs[msg[w]]] > 0
    /\ \A j \in Jobs : ran[w][j] > 0 => \E i \in DOMAIN msgs : msgs[i] = j
Pending(w, i) == Undelivered(w, i) + Redelivery(w, i) + InHand(w, i)
BudgetOf(w) == \A i \in DOMAIN msgs : ran[w][msgs[i]] + Pending(w, i) <= 1 + Spent

\* Pending runs are counted in natural numbers.
LEMMA PendingIsNat ==
    ASSUME NEW w, NEW i
    PROVE  Undelivered(w, i) \in Nat /\ Redelivery(w, i) \in Nat /\ InHand(w, i) \in Nat
  BY DEF Undelivered, Redelivery, InHand

\* What a worker spends is counted.
LEMMA WorkersSpend ==
    ASSUME IInv, NEW w \in Workers, Worker(w)
    PROVE  /\ Spent \in Int /\ Spent' \in Int /\ Spent <= Spent'
           /\ faults' = MaxFaults => faults = MaxFaults
  <1>1. TypeOK /\ faults \in 0 .. MaxFaults /\ MaxFaults \in Nat
    BY JobQueueAssumption DEF IInv, TypeOK
  <1>2. Spent \in Int
    BY <1>1 DEF Spent
  <1>3. faults' = faults \/ Fault
    BY OneWorkerSteps
  <1>4. CASE faults' = faults
    BY <1>2, <1>4 DEF Spent
  <1>5. CASE Fault
    <2>1. Spent' = Spent + 1 /\ faults' # MaxFaults
      BY <1>1, <1>5, FaultIsSpent
    <2> QED
      BY <1>2, <2>1
  <1> QED
    BY <1>2, <1>3, <1>4, <1>5

\* The invariant follows from what the step does to its own worker.
LEMMA OneWorkerSuffices ==
    ASSUME IInv, NEW w \in Workers, Worker(w),
           DeliveredTo(w)', RanBeforeAckBy(w)', BudgetOf(w)'
    PROVE  IInv'
  <1>1. /\ UNCHANGED schedulerVars
        /\ \A v \in Workers \ {w} :
              /\ worker'[v] = worker[v] /\ msg'[v] = msg[v]
              /\ next'[v] = next[v] /\ again'[v] = again[v]
              /\ acked'[v] = acked[v] /\ ran'[v] = ran[v]
    BY OneWorkerSteps
  <1>2. /\ Spent \in Int /\ Spent' \in Int /\ Spent <= Spent'
        /\ faults' = MaxFaults => faults = MaxFaults
    BY WorkersSpend
  <1>3. TypeOK'
    BY WorkerKeepsTypes DEF IInv
  <1>4. QueuedOnce' /\ StreamKnown' /\ RaisesNeedCause'
    BY <1>1, <1>2 DEF IInv, QueuedOnce, StreamKnown, HalfConnected, RaisesNeedCause, schedulerVars, callVars
  <1>5. Delivered'
    BY <1>1 DEF IInv, Delivered, DeliveredTo
  <1>6. RanBeforeAck'
    BY <1>1 DEF IInv, RanBeforeAck, RanBeforeAckBy, AckedWasProcessed, schedulerVars
  <1>7. Budget'
    <2> SUFFICES ASSUME NEW v \in Workers, NEW i \in DOMAIN msgs
                 PROVE  (ran[v][msgs[i]] + Undelivered(v, i) + Redelivery(v, i) + InHand(v, i)
                            <= 1 + Spent)'
      BY <1>1 DEF Budget, schedulerVars
    <2>1. CASE v = w
      <3>1. (ran[v][msgs[i]])' \in Nat
        BY <1>1, <1>3 DEF IInv, TypeOK, schedulerVars
      <3>2. (ran[v][msgs[i]] + (Undelivered(v, i) + Redelivery(v, i) + InHand(v, i)) <= 1 + Spent)'
        BY <1>1, <2>1 DEF BudgetOf, Pending, schedulerVars
      <3> QED
        BY <1>2, <3>1, <3>2, PendingIsNat
             DEF Undelivered, Redelivery, InHand
    <2>2. CASE v # w
      <3>1. ran[v][msgs[i]] + Undelivered(v, i) + Redelivery(v, i) + InHand(v, i) <= 1 + Spent
        BY DEF IInv, Budget
      <3>2. ran[v][msgs[i]] \in Nat
        BY DEF IInv, TypeOK
      <3>3. UNCHANGED <<ran[v][msgs[i]], Undelivered(v, i), Redelivery(v, i), InHand(v, i)>>
        BY <1>1, <2>2 DEF Undelivered, Redelivery, InHand, schedulerVars
      <3> QED
        BY <1>2, <3>1, <3>2, <3>3, PendingIsNat
    <2> QED
      BY <2>1, <2>2
  <1> QED
    BY <1>3, <1>4, <1>5, <1>6, <1>7 DEF IInv

\* The invariant, as it speaks about one worker.
LEMMA AboutOneWorker ==
    ASSUME IInv, NEW w \in Workers
    PROVE  /\ DeliveredTo(w) /\ RanBeforeAckBy(w)
           /\ \A i \in DOMAIN msgs :
                 /\ msgs[i] \in Jobs /\ ran[w][msgs[i]] \in Nat
                 /\ ran[w][msgs[i]] + Pending(w, i) <= 1 + Spent
           /\ Len(msgs) \in Nat /\ DOMAIN msgs = 1 .. Len(msgs)
           /\ msg[w] \in 0 .. Len(msgs) /\ next[w] \in 1 .. Len(msgs) + 1
           /\ worker[w] \in {"calling", "acking", "naking"} <=> msg[w] # 0
           /\ again[w] \subseteq 1 .. Len(msgs) /\ acked[w] \subseteq 1 .. Len(msgs)
           /\ Spent \in Nat
  <1>1. DeliveredTo(w) /\ RanBeforeAckBy(w)
    BY DEF IInv, Delivered, DeliveredTo, RanBeforeAck, RanBeforeAckBy, AckedWasProcessed
  <1>2. Len(msgs) \in Nat /\ DOMAIN msgs = 1 .. Len(msgs)
    BY DEF IInv, TypeOK
  <1>3. \A i \in DOMAIN msgs : msgs[i] \in Jobs /\ ran[w][msgs[i]] \in Nat
    BY DEF IInv, TypeOK
  <1>4. Spent \in Nat
    BY JobQueueAssumption DEF IInv, TypeOK, Spent
  <1>5. \A i \in DOMAIN msgs : ran[w][msgs[i]] + Pending(w, i) <= 1 + Spent
    <2> SUFFICES ASSUME NEW i \in DOMAIN msgs PROVE ran[w][msgs[i]] + Pending(w, i) <= 1 + Spent
      OBVIOUS
    <2>1. ran[w][msgs[i]] + Undelivered(w, i) + Redelivery(w, i) + InHand(w, i) <= 1 + Spent
      BY DEF IInv, Budget
    <2> QED
      BY <1>3, <1>4, <2>1, PendingIsNat DEF Pending
  <1>6. /\ msg[w] \in 0 .. Len(msgs) /\ next[w] \in 1 .. Len(msgs) + 1
        /\ worker[w] \in {"calling", "acking", "naking"} <=> msg[w] # 0
        /\ again[w] \subseteq 1 .. Len(msgs) /\ acked[w] \subseteq 1 .. Len(msgs)
    BY DEF IInv, TypeOK
  <1> QED
    BY <1>1, <1>2, <1>3, <1>4, <1>5, <1>6

\* The budget of a worker whose runs are as they were, when pending runs grow
\* by no more than what was spent.
LEMMA BudgetKept ==
    ASSUME IInv, NEW w \in Workers, Worker(w), UNCHANGED ran[w],
           \A i \in DOMAIN msgs : Pending(w, i)' - Pending(w, i) <= Spent' - Spent
    PROVE  BudgetOf(w)'
  <1>1. UNCHANGED msgs
    BY OneWorkerSteps DEF schedulerVars
  <1> SUFFICES ASSUME NEW i \in DOMAIN msgs
               PROVE  ran[w][msgs[i]] + Pending(w, i)' <= 1 + Spent'
    BY <1>1 DEF BudgetOf
  <1>2. ran[w][msgs[i]] \in Nat /\ ran[w][msgs[i]] + Pending(w, i) <= 1 + Spent
    BY AboutOneWorker
  <1>3. Spent \in Int /\ Spent' \in Int
    BY WorkersSpend
  <1>4. Pending(w, i) \in Nat /\ Pending(w, i)' \in Nat
    BY PendingIsNat DEF Pending, Undelivered, Redelivery, InHand
  <1> QED
    BY <1>2, <1>3, <1>4

\* A delivery moves a pending run from the stream, or from the redeliveries,
\* into the hands of the worker.
LEMMA ReceiveKeepsIInv ==
    ASSUME IInv, NEW w \in Workers, Receive(w)
    PROVE  IInv'
  <1>0. Worker(w)
    BY DEF Worker, WorkerStep
  <1>1. PICK i \in Due(w) :
          /\ msg' = [msg EXCEPT ![w] = i]
          /\ next' = [next EXCEPT ![w] = IF i = @ THEN @ + 1 ELSE @]
          /\ again' = [again EXCEPT ![w] = @ \ {i}]
    BY DEF Receive
  <1>2. /\ msg'[w] = i
        /\ next'[w] = IF i = next[w] THEN next[w] + 1 ELSE next[w]
        /\ again'[w] = again[w] \ {i}
        /\ worker[w] = "waiting" /\ worker'[w] = "calling"
        /\ UNCHANGED <<msgs, acked, ran, faults>>
    BY <1>1 DEF Receive, IInv, TypeOK, Enter, schedulerVars
  <1>3. i = next[w] \/ i \in again[w]
    BY DEF Due
  <1>4. i \in 1 .. Len(msgs)
    BY DueIsQueued DEF IInv
  <1>5. DeliveredTo(w)'
    BY <1>2, <1>3, <1>4, AboutOneWorker DEF DeliveredTo
  <1>6. RanBeforeAckBy(w)'
    BY <1>2, AboutOneWorker DEF RanBeforeAckBy
  <1>7. BudgetOf(w)'
    <2>1. ASSUME NEW k \in DOMAIN msgs PROVE Pending(w, k)' <= Pending(w, k)
      BY <1>2, <1>3, <1>4, AboutOneWorker
         DEF Pending, Undelivered, Redelivery, InHand, DeliveredTo
    <2>2. Spent' = Spent /\ Spent \in Int
      BY <1>2, AboutOneWorker DEF Spent
    <2>3. \A k \in DOMAIN msgs : Pending(w, k) \in Nat /\ Pending(w, k)' \in Nat
      BY PendingIsNat DEF Pending, Undelivered, Redelivery, InHand
    <2> QED
      BY <1>0, <1>2, <2>1, <2>2, <2>3, BudgetKept
  <1> QED
    BY <1>0, <1>5, <1>6, <1>7, OneWorkerSuffices

\* A callback that returns turns the run in hand into a run.
LEMMA CallbackReturnsKeepsIInv ==
    ASSUME IInv, NEW w \in Workers, CallbackReturns(w)
    PROVE  IInv'
  <1> DEFINE m == msg[w]
  <1>0. Worker(w)
    BY DEF Worker, WorkerStep
  <1>1. m \in DOMAIN msgs /\ msgs[m] \in Jobs
    BY AboutOneWorker DEF CallbackReturns
  <1>2. /\ worker[w] = "calling" /\ worker'[w] = "acking"
        /\ UNCHANGED <<msgs, msg, next, again, acked, faults>>
        /\ ran'[w][msgs[m]] = ran[w][msgs[m]] + 1
        /\ \A j \in Jobs : j # msgs[m] => ran'[w][j] = ran[w][j]
    BY <1>1 DEF CallbackReturns, IInv, TypeOK, Enter, schedulerVars, consumerVars
  <1>3. DeliveredTo(w)'
    BY <1>2, AboutOneWorker DEF DeliveredTo
  <1>4. RanBeforeAckBy(w)'
    <2>1. \A i \in DOMAIN msgs : ran[w][msgs[i]] > 0 => ran'[w][msgs[i]] > 0
      BY <1>2, AboutOneWorker, SMTT(30)
    <2>2. ran'[w][msgs[m]] > 0
      BY <1>1, <1>2, AboutOneWorker
    <2> QED
      BY <1>1, <1>2, <2>1, <2>2, AboutOneWorker DEF RanBeforeAckBy
  <1>5. BudgetOf(w)'
    <2> SUFFICES ASSUME NEW i \in DOMAIN msgs
                 PROVE  ran'[w][msgs[i]] + Pending(w, i)' <= 1 + Spent'
      BY <1>2 DEF BudgetOf
    <2>0. UNCHANGED Spent
      BY <1>2 DEF Spent
    <2>1. CASE i = m
      BY <1>1, <1>2, <2>0, <2>1, AboutOneWorker, SMTT(30) DEF Pending, Undelivered, Redelivery, InHand
    <2>2. CASE i # m
      <3>1. ran'[w][msgs[i]] = ran[w][msgs[i]]
        BY <1>1, <1>2, <2>2, AboutOneWorker DEF IInv, QueuedOnce
      <3>2. Pending(w, i)' = Pending(w, i)
        BY <1>2, <2>2 DEF Pending, Undelivered, Redelivery, InHand
      <3> QED
        BY <2>0, <3>1, <3>2, AboutOneWorker
    <2> QED
      BY <2>1, <2>2
  <1> QED
    BY <1>0, <1>3, <1>4, <1>5, OneWorkerSuffices

\* The steps that run nothing and deliver nothing: a worker starts, acks,
\* naks, stops, or its callback raises or takes too long.
LEMMA OtherWorkerStepsKeepIInv ==
    ASSUME IInv, NEW w \in Workers,
           \/ StartWorker(w) \/ Ack(w) \/ Nak(w)
           \/ AckWaitExpires(w) \/ CallbackRaises(w) \/ AckRaises(w) \/ StopWorker(w)
    PROVE  IInv'
  <1> USE DEF IInv, TypeOK, Enter, DeliverAgain, Resume, schedulerVars, consumerVars
  <1>0. Worker(w)
    BY DEF Worker, WorkerStep
  <1>1. UNCHANGED <<msgs, next, ran>>
    BY DEF StartWorker, Ack, Nak, AckWaitExpires, CallbackRaises, AckRaises, StopWorker
  <1>2. /\ msg'[w] \in {msg[w], 0}
        /\ again'[w] \subseteq again[w] \union ({msg[w]} \ {0})
    BY AboutOneWorker
       DEF StartWorker, Ack, Nak, AckWaitExpires, CallbackRaises, AckRaises, StopWorker
  <1>3. /\ worker'[w] # "acking"
        /\ acked'[w] \subseteq acked[w] \union (IF worker[w] = "acking" THEN {msg[w]} ELSE {})
    BY DEF StartWorker, Ack, Nak, AckWaitExpires, CallbackRaises, AckRaises, StopWorker
  <1>4. DeliveredTo(w)'
    <2>1. /\ next'[w] = next[w] /\ next[w] \in 1 .. Len(msgs) + 1 /\ Len(msgs) \in Nat
          /\ msg[w] \in 0 .. Len(msgs) /\ DeliveredTo(w)
      BY <1>1, AboutOneWorker
    <2> HIDE DEF IInv, TypeOK
    <2>2. msg'[w] < next'[w] /\ \A i \in again'[w] : i < next'[w]
      BY <1>2, <2>1 DEF DeliveredTo
    <2> QED
      BY <2>2 DEF DeliveredTo
  <1>5. RanBeforeAckBy(w)'
    <2>1. RanBeforeAckBy(w) /\ msgs' = msgs /\ ran' = ran
      BY <1>1, AboutOneWorker
    <2>2. ASSUME NEW i \in acked'[w] PROVE ran[w][msgs[i]] > 0
      <3> HIDE DEF IInv, TypeOK
      <3>1. i \in acked[w] \/ (worker[w] = "acking" /\ i = msg[w])
        BY <1>3, <2>2
      <3> QED
        BY <2>1, <3>1 DEF RanBeforeAckBy
    <2> HIDE DEF IInv, TypeOK
    <2> QED
      BY <1>3, <2>1, <2>2 DEF RanBeforeAckBy
  <1>6. \/ /\ faults' = faults
           /\ \A i \in DOMAIN msgs : Redelivery(w, i)' + InHand(w, i)' <= Redelivery(w, i) + InHand(w, i)
        \/ /\ Fault
           /\ \A i \in DOMAIN msgs : Redelivery(w, i)' + InHand(w, i)' <= Redelivery(w, i) + InHand(w, i) + 1
    <2>1. CASE StartWorker(w) \/ Ack(w) \/ Nak(w)
      BY <2>1, AboutOneWorker DEF StartWorker, Ack, Nak, Redelivery, InHand
    <2>2. CASE AckWaitExpires(w) \/ CallbackRaises(w) \/ AckRaises(w) \/ StopWorker(w)
      BY <2>2, AboutOneWorker
         DEF AckWaitExpires, CallbackRaises, AckRaises, StopWorker, Redelivery, InHand
    <2> QED
      BY <2>1, <2>2
  <1>7. BudgetOf(w)'
    <2>1. \A i \in DOMAIN msgs :
            /\ Undelivered(w, i)' = Undelivered(w, i)
            /\ Undelivered(w, i) \in Nat /\ Redelivery(w, i) \in Nat /\ InHand(w, i) \in Nat
            /\ Redelivery(w, i)' \in Nat /\ InHand(w, i)' \in Nat
      BY <1>1 DEF Undelivered, Redelivery, InHand
    <2>2. \/ /\ Spent' = Spent
             /\ \A i \in DOMAIN msgs :
                   Redelivery(w, i)' + InHand(w, i)' <= Redelivery(w, i) + InHand(w, i)
          \/ /\ Spent' = Spent + 1
             /\ \A i \in DOMAIN msgs :
                   Redelivery(w, i)' + InHand(w, i)' <= Redelivery(w, i) + InHand(w, i) + 1
      BY <1>6, FaultIsSpent DEF Spent
    <2>3. \A i \in DOMAIN msgs : Pending(w, i)' - Pending(w, i) <= Spent' - Spent
      <3> SUFFICES ASSUME NEW i \in DOMAIN msgs
                   PROVE  Pending(w, i)' - Pending(w, i) <= Spent' - Spent
        OBVIOUS
      <3>1. /\ Pending(w, i) = Undelivered(w, i) + Redelivery(w, i) + InHand(w, i)
            /\ Pending(w, i)' = Undelivered(w, i) + Redelivery(w, i)' + InHand(w, i)'
        BY <2>1 DEF Pending
      <3>2. Spent \in Nat
        BY AboutOneWorker
      <3>3. \E cost \in {0, 1} :
              /\ Spent' = Spent + cost
              /\ Redelivery(w, i)' + InHand(w, i)' <= Redelivery(w, i) + InHand(w, i) + cost
        BY <2>1, <2>2, <3>2
      <3> HIDE DEF TypeOK, IInv
      <3> QED
        BY <2>1, <3>1, <3>2, <3>3
    <2> QED
      BY <1>0, <1>1, <2>3, BudgetKept
  <1> QED
    BY <1>0, <1>4, <1>5, <1>7, OneWorkerSuffices

\* A step that changes nothing keeps the invariant.
LEMMA StutterKeepsIInv == IInv /\ UNCHANGED vars => IInv'
  <1> SUFFICES ASSUME IInv, UNCHANGED vars PROVE IInv'
    OBVIOUS
  <1>1. /\ UNCHANGED <<js, open, exists, submit, hasty, silent, closed, msgs, worker, msg, next, again, acked, ran, faults>>
        /\ UNCHANGED workerVars
    BY DEF vars, schedulerVars, callVars, workerVars, consumerVars
  <1>2. TypeOK'
    BY <1>1 DEF IInv, TypeOK
  <1>3. Delivered' /\ RanBeforeAck' /\ Budget'
    <2>1. Spent' \in Int /\ Spent <= Spent'
      BY <1>1, JobQueueAssumption DEF IInv, TypeOK, Spent
    <2> QED
      BY <1>1, <2>1, WorkersUntouched
  <1>4. QueuedOnce' /\ StreamKnown' /\ RaisesNeedCause'
    BY <1>1 DEF IInv, QueuedOnce, StreamKnown, HalfConnected, RaisesNeedCause
  <1> QED
    BY <1>2, <1>3, <1>4 DEF IInv

\* The invariant is inductive.
LEMMA NextKeepsIInv == IInv /\ [Next]_vars => IInv'
  <1> SUFFICES ASSUME IInv, [Next]_vars PROVE IInv'
    OBVIOUS
  <1>1. CASE Scheduler
    BY <1>1, SchedulerKeepsIInv
  <1>2. ASSUME NEW w \in Workers, Worker(w) PROVE IInv'
    BY <1>2, ReceiveKeepsIInv, CallbackReturnsKeepsIInv, OtherWorkerStepsKeepIInv
       DEF Worker, WorkerStep
  <1>3. CASE UNCHANGED vars
    BY <1>3, StutterKeepsIInv
  <1> QED
    BY <1>1, <1>2, <1>3 DEF Next, Scheduler, Worker

-----------------------------------------------------------------------------
(* The results.                                                            *)

\* The invariant of the job queue.
THEOREM Invariance == Spec => []IInv
  BY InitIInv, NextKeepsIInv, PTL DEF Spec

\* Every variable holds a value of its type; in particular no consumer moves
\* past the end of the stream.
THEOREM TypeCorrect == Spec => []TypeOK
  <1>1. IInv => TypeOK
    BY DEF IInv
  <1> QED
    BY <1>1, Invariance, PTL

\* At least once: no worker ever acks a job it has not run to its end.
THEOREM AckAfterProcessing == Spec => []AckedWasProcessed
  <1>1. IInv => AckedWasProcessed
    BY DEF IInv, RanBeforeAck
  <1> QED
    BY <1>1, Invariance, PTL

\* Redelivery does not feed itself: every run of a job after the first is
\* paid for by something that went wrong.
THEOREM DuplicatesArePaidFor == Spec => []DuplicatesNeedFaults
  <1>1. ASSUME IInv PROVE DuplicatesNeedFaults
    <2> SUFFICES ASSUME NEW w \in Workers, NEW j \in Jobs PROVE ran[w][j] <= 1 + Spent
      <3>1. MaxFaults \in Int /\ faults \in Int
        BY <1>1, JobQueueAssumption DEF IInv, TypeOK
      <3>2. Spent = MaxFaults - faults
        BY DEF Spent
      <3> QED
        BY <3>1, <3>2 DEF DuplicatesNeedFaults
    <2>1. ran[w][j] \in Nat /\ Spent \in Nat
      BY <1>1, AboutOneWorker DEF IInv, TypeOK
    <2>2. CASE ran[w][j] > 0
      <3>1. PICK i \in DOMAIN msgs : msgs[i] = j
        BY <1>1, <2>2 DEF IInv, RanBeforeAck
      <3>2. ran[w][msgs[i]] + Pending(w, i) <= 1 + Spent
        BY <1>1, AboutOneWorker
      <3> QED
        BY <2>1, <3>1, <3>2, PendingIsNat DEF Pending
    <2> QED
      BY <2>1, <2>2
  <1> QED
    BY <1>1, Invariance, PTL

\* A submission fails for want of an answer of its own, after a close, or
\* because it began while the connect of another was not over: nothing else
\* that goes wrong, at the workers or at other calls, makes it fail.
THEOREM RaisesAreCaused == Spec => []RaisesNeedCause
  <1>1. IInv => RaisesNeedCause
    BY DEF IInv
  <1> QED
    BY <1>1, Invariance, PTL

-----------------------------------------------------------------------------
(* No job is lost.                                                         *)

\* The i-th message is still to come to a worker, or the worker has it.
Coming(w, i) == i >= next[w] \/ i \in again[w] \/ msg[w] = i

\* The consumer of a worker lets go of a message only when it is acked.
NoneDropped == \A w \in Workers : \A i \in DOMAIN msgs : Coming(w, i) \/ i \in acked[w]

\* A submission that came as far as the server's answer has its job in the stream.
AnsweredIsQueued ==
    \A j \in Jobs : submit[j] \in {"confirming", "returned"} => \E i \in DOMAIN msgs : msgs[i] = j

Kept == NoneDropped /\ AnsweredIsQueued

\* Whatever went wrong, a job whose submission returned is in the stream, and
\* every worker has run it, holds it, or has yet to get it.
NothingIsForgotten ==
    \A j \in Jobs : submit[j] = "returned" =>
        \E i \in DOMAIN msgs : msgs[i] = j /\ \A w \in Workers : ran[w][j] > 0 \/ Coming(w, i)

\* A step of a worker drops none of the messages of its consumer.
LEMMA WorkerDropsNone ==
    ASSUME TypeOK, Kept, NEW w \in Workers, Worker(w)
    PROVE  Kept'
  <1> USE DEF schedulerVars, consumerVars
  <1>0. /\ worker \in [Workers -> WorkerStates] /\ msg \in [Workers -> 0 .. Len(msgs)]
        /\ next \in [Workers -> 1 .. Len(msgs) + 1]
        /\ again \in [Workers -> SUBSET (1 .. Len(msgs))]
        /\ acked \in [Workers -> SUBSET (1 .. Len(msgs))]
        /\ DOMAIN msgs = 1 .. Len(msgs) /\ Len(msgs) \in Nat
        /\ worker[w] \in {"calling", "acking", "naking"} <=> msg[w] # 0
    BY LenProperties DEF TypeOK
  <1>1. UNCHANGED <<submit, msgs>>
    BY DEF Worker, WorkerStep, StartWorker, Receive, CallbackReturns, Ack, Nak, AckWaitExpires,
       CallbackRaises, AckRaises, StopWorker
  <1>2. AnsweredIsQueued'
    BY <1>1 DEF Kept, AnsweredIsQueued
  <1>3. ASSUME NEW v \in Workers, v # w
        PROVE  /\ next'[v] = next[v] /\ again'[v] = again[v]
               /\ msg'[v] = msg[v] /\ acked'[v] = acked[v]
    BY <1>0, <1>3 DEF Worker, WorkerStep, StartWorker, Resume, Receive, CallbackReturns, Ack, Nak,
       AckWaitExpires, CallbackRaises, AckRaises, StopWorker, DeliverAgain
  <1>4. ASSUME NEW i \in DOMAIN msgs PROVE (Coming(w, i) \/ i \in acked[w])'
    <2>1. Coming(w, i) \/ i \in acked[w]
      BY DEF Kept, NoneDropped
    <2>2. i \in Nat \ {0}
      BY <1>0
    <2>3. CASE StartWorker(w) \/ CallbackReturns(w) \/ CallbackRaises(w)
      BY <2>1, <2>3 DEF StartWorker, Resume, CallbackReturns, CallbackRaises, Coming
    <2>4. CASE Receive(w)
      <3>1. PICK k \in Due(w) : /\ msg' = [msg EXCEPT ![w] = k]
                                /\ next' = [next EXCEPT ![w] = IF k = @ THEN @ + 1 ELSE @]
                                /\ again' = [again EXCEPT ![w] = @ \ {k}]
        BY <2>4 DEF Receive
      <3>2. msg[w] = 0 /\ acked' = acked
        BY <1>0, <2>4 DEF Receive
      <3>3. /\ msg'[w] = k /\ again'[w] = again[w] \ {k}
            /\ next'[w] = IF k = next[w] THEN next[w] + 1 ELSE next[w]
        BY <1>0, <3>1
      <3>4. CASE i = k
        BY <3>3, <3>4 DEF Coming
      <3>5. CASE i # k
        <4>1. i >= next[w] => i >= next'[w]
          BY <1>0, <2>2, <3>3, <3>5
        <4> QED
          BY <2>1, <2>2, <3>2, <3>3, <3>5, <4>1 DEF Coming
      <3> QED
        BY <3>4, <3>5
    <2>5. CASE Ack(w) \/ AckRaises(w)
      BY <1>0, <2>1, <2>2, <2>5 DEF Ack, AckRaises, Coming
    <2>6. CASE AckWaitExpires(w) \/ Nak(w) \/ StopWorker(w)
      <3>1. /\ next' = next /\ acked' = acked
            /\ \/ msg' = msg /\ again[w] \subseteq again'[w]
               \/ again'[w] = again[w] \union (({msg[w]} \ {0}) \ acked[w])
        BY <1>0, <2>6 DEF AckWaitExpires, Nak, StopWorker, DeliverAgain
      <3> QED
        BY <2>1, <2>2, <3>1 DEF Coming
    <2> QED
      BY <2>3, <2>4, <2>5, <2>6 DEF Worker, WorkerStep
  <1>5. NoneDropped'
    <2>1. \A v \in Workers : \A i \in DOMAIN msgs : v # w => (Coming(v, i) \/ i \in acked[v])'
      BY <1>3 DEF Kept, NoneDropped, Coming
    <2> QED
      BY <1>1, <1>4, <2>1 DEF NoneDropped
  <1> QED
    BY <1>2, <1>5 DEF Kept

\* A submission adds a message that every consumer has yet to deliver.
LEMMA SchedulerDropsNone ==
    ASSUME IInv, Kept, Scheduler
    PROVE  Kept'
  <1> USE DEF schedulerVars, callVars, workerVars, consumerVars
  <1>1. CASE UNCHANGED <<msgs, workerVars>>
    <2>1. NoneDropped'
      BY <1>1 DEF Kept, NoneDropped, Coming
    <2>2. \A j \in Jobs : submit'[j] \in {"confirming", "returned"} =>
              submit[j] \in {"confirming", "returned"}
      <3>1. submit \in [Jobs -> SubmitStates]
        BY DEF IInv, TypeOK
      <3>2. ASSUME NEW j \in Jobs, SubmitJob(j) \/ SubmitStep(j) \/ SubmitRaises(j)
            PROVE  \/ Publish(j)
                   \/ \E state \in SubmitStates :
                          /\ submit' = [submit EXCEPT ![j] = state]
                          /\ state \in {"confirming", "returned"} => submit[j] = "confirming"
        BY <3>2 DEF SubmitStep, SubmitJob, Dialed, StreamEnsured, PublishRefused, Confirmed,
           SubmitRaises, Goto, SubmitStates
      <3>3. ASSUME NEW j \in Jobs PROVE ~Publish(j)
        <4>1. msgs \in Seq(Jobs)
          BY DEF IInv, TypeOK
        <4>2. Len(Append(msgs, j)) = Len(msgs) + 1 /\ Len(msgs) \in Nat
          BY <4>1, AppendProperties, LenProperties
        <4> QED
          BY <1>1, <4>2 DEF Publish
      <3>4. CASE Close
        BY <3>4 DEF Close
      <3> QED
        BY <3>1, <3>2, <3>3, <3>4 DEF Scheduler
    <2> QED
      BY <1>1, <2>1, <2>2 DEF Kept, AnsweredIsQueued
  <1>2. ASSUME NEW j \in Jobs, Publish(j) PROVE Kept'
    <2>1. /\ Len(msgs) \in Nat
          /\ DOMAIN msgs = 1 .. Len(msgs) /\ DOMAIN msgs' = 1 .. Len(msgs) + 1
          /\ \A i \in 1 .. Len(msgs) : msgs'[i] = msgs[i]
          /\ msgs'[Len(msgs) + 1] = j
      BY <1>2, AppendJob DEF IInv, TypeOK, Publish
    <2>2. UNCHANGED <<msg, next, again, acked>>
      BY <1>2 DEF Publish
    <2>3. \A w \in Workers : next[w] \in 1 .. Len(msgs) + 1
      BY DEF IInv, TypeOK
    <2>4. \A w \in Workers : Len(msgs) + 1 >= next[w]
      BY <2>1, <2>3
    <2>5. NoneDropped'
      BY <2>1, <2>2, <2>4 DEF Kept, NoneDropped, Coming
    <2>6. ASSUME NEW q \in Jobs, submit'[q] \in {"confirming", "returned"}
          PROVE  \E i \in DOMAIN msgs' : msgs'[i] = q
      <3>1. CASE q = j
        BY <2>1, <3>1
      <3>2. CASE q # j
        <4>1. submit[q] \in {"confirming", "returned"}
          BY <1>2, <2>6, <3>2 DEF Publish, Goto, IInv, TypeOK
        <4>2. PICK i \in 1 .. Len(msgs) : msgs[i] = q
          BY <2>1, <4>1 DEF Kept, AnsweredIsQueued
        <4> QED
          BY <2>1, <4>2
      <3> QED
        BY <3>1, <3>2
    <2> QED
      BY <2>5, <2>6 DEF Kept, AnsweredIsQueued
  <1> QED
    BY <1>1, <1>2 DEF Scheduler, SubmitJob, SubmitStep, SubmitRaises, Close, Dialed, StreamEnsured,
       PublishRefused, Confirmed

\* No job whose submission returned is lost to any worker, however often
\* callbacks raise, acks are lost and workers stop.
THEOREM NoJobIsLost == Spec => []NothingIsForgotten
  <1>1. Init => Kept
    BY DEF Init, Kept, NoneDropped, AnsweredIsQueued
  <1>2. IInv /\ Kept /\ [Next]_vars => Kept'
    <2> SUFFICES ASSUME IInv, Kept, [Next]_vars PROVE Kept'
      OBVIOUS
    <2>1. CASE Scheduler
      BY <2>1, SchedulerDropsNone
    <2>2. ASSUME NEW w \in Workers, Worker(w) PROVE Kept'
      BY <2>2, WorkerDropsNone DEF IInv
    <2>3. CASE UNCHANGED vars
      BY <2>3 DEF vars, schedulerVars, callVars, workerVars, consumerVars, Kept, NoneDropped, Coming,
         AnsweredIsQueued
    <2> QED
      BY <2>1, <2>2, <2>3 DEF Next, Scheduler, Worker
  <1>3. IInv /\ Kept => NothingIsForgotten
    BY DEF IInv, RanBeforeAck, AckedWasProcessed, Kept, NoneDropped, AnsweredIsQueued,
       NothingIsForgotten
  <1> QED
    BY <1>1, <1>2, <1>3, Invariance, PTL DEF Spec

=============================================================================
