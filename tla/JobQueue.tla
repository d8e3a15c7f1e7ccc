------------------------------ MODULE JobQueue ------------------------------
(***************************************************************************)
(* The job queue of core/scheduler.py: one JobScheduler, whose submit_job  *)
(* is called by several coroutines of one event loop, the JetStream stream *)
(* UCSER_JOBS, and the DistributedWorkers that consume it.                 *)
(*                                                                         *)
(* An action of a coroutine is the code between two awaits.  The stream    *)
(* and its consumers belong to the NATS server and are external: a durable *)
(* consumer delivers every message of the stream in order, keeps its place *)
(* while its worker is away, and delivers a message again when it was      *)
(* nak'ed, or when its ack did not come within the ack wait.  Everything   *)
(* that can go wrong costs one of MaxFaults faults.                        *)
(***************************************************************************)
EXTENDS Integers, Sequences

CONSTANTS
    Jobs,       \* the jobs, each submitted by a coroutine of its own
    Workers,    \* the worker ids
    MaxFaults   \* bound: how many things go wrong

ASSUME JobQueueAssumption == MaxFaults \in Nat

VARIABLES
    js,         \* JobScheduler.js is set (and nc: both are set together)
    open,       \* the connection the scheduler holds is open
    exists,     \* the stream UCSER_JOBS exists
    submit,     \* the await at which each submit_job is suspended
    hasty,      \* history: calls that found js set with its connect not over
    silent,     \* history: the await at which a call got no answer, or "none"
    closed,     \* history: close() was called
    msgs,       \* the messages of the stream
    worker,     \* the await at which each worker is suspended
    msg,        \* index of the message each worker holds, or 0
    next,       \* index of the first message its consumer never delivered
    again,      \* indices its consumer will deliver again
    acked,      \* indices its consumer has an ack of
    ran,        \* how often each worker completed the callback of a job
    faults      \* faults left

callVars      == <<hasty, silent, closed>>
schedulerVars == <<js, open, exists, submit, callVars, msgs>>
consumerVars  == <<next, again, acked>>
workerVars    == <<worker, msg, consumerVars, ran>>
vars == <<schedulerVars, workerVars, faults>>

SubmitStates == {"idle", "dialing", "ensuring", "publishing", "confirming",
                 "returned", "raised"}
WorkerStates == {"down", "waiting", "calling", "acking", "naking"}

Fault == faults > 0 /\ faults' = faults - 1

-----------------------------------------------------------------------------
(* JobScheduler.submit_job, with connect inlined.                          *)

Goto(j, state) == submit' = [submit EXCEPT ![j] = state]

\* A connect that set js is waiting for add_stream, or never heard of it.
HalfConnected == js /\ \E k \in Jobs : submit[k] = "ensuring" \/ silent[k] = "ensuring"

SubmitJob(j) ==
    /\ submit[j] = "idle"
    /\ Goto(j, IF js THEN "publishing" ELSE "dialing")
    /\ hasty' = IF HalfConnected THEN hasty \union {j} ELSE hasty
    /\ UNCHANGED <<js, open, exists, silent, closed, msgs, workerVars, faults>>

\* nats.connect returns: nc and js are set before the stream is looked after.
\* A second coroutine that got here replaces the connection of the first.
Dialed(j) ==
    /\ submit[j] = "dialing"
    /\ js' = TRUE
    /\ open' = TRUE
    /\ Goto(j, "ensuring")
    /\ UNCHANGED <<exists, callVars, msgs, workerVars, faults>>

\* Mutant of StreamEnsured: add_stream is left out of connect.
StreamAssumed(j) ==
    /\ submit[j] = "ensuring"
    /\ Goto(j, "publishing")
    /\ UNCHANGED <<js, open, exists, callVars, msgs, workerVars, faults>>

\* add_stream returns, or raises BadRequestError because the stream exists.
StreamEnsured(j) ==
    /\ submit[j] = "ensuring"
    /\ exists' = TRUE
    /\ Goto(j, "publishing")
    /\ UNCHANGED <<js, open, callVars, msgs, workerVars, faults>>

\* js.publish reaches the stream.
Publish(j) ==
    /\ submit[j] = "publishing"
    /\ open /\ exists
    /\ msgs' = Append(msgs, j)
    /\ Goto(j, "confirming")
    /\ UNCHANGED <<js, open, exists, callVars, workerVars, faults>>

\* js.publish finds no stream, or a closed connection.
PublishRefused(j) ==
    /\ submit[j] = "publishing"
    /\ ~(open /\ exists)
    /\ Goto(j, "raised")
    /\ UNCHANGED <<js, open, exists, callVars, msgs, workerVars, faults>>

Confirmed(j) ==
    /\ submit[j] = "confirming"
    /\ Goto(j, "returned")
    /\ UNCHANGED <<js, open, exists, callVars, msgs, workerVars, faults>>

\* The server does not answer in time, at whichever await.  What it was asked
\* for may have been done: a job without its ack is in the stream.
SubmitRaises(j) ==
    /\ Fault
    /\ submit[j] \in {"dialing", "ensuring", "publishing", "confirming"}
    /\ Goto(j, "raised")
    /\ silent' = [silent EXCEPT ![j] = submit[j]]
    /\ UNCHANGED <<js, open, exists, hasty, closed, msgs, workerVars>>

\* close() leaves nc and js set: nobody dials again.
Close ==
    /\ Fault
    /\ open
    /\ open' = FALSE
    /\ closed' = TRUE
    /\ UNCHANGED <<js, exists, submit, hasty, silent, msgs, workerVars>>

-----------------------------------------------------------------------------
(* DistributedWorker.start, and the durable consumer of the worker.        *)

Enter(w, state) == worker' = [worker EXCEPT ![w] = state]

DeliverAgain(w, due) == again' = [again EXCEPT ![w] = @ \union (due \ acked[w])]

\* Mutant of Resume: a consumer without a durable name sees only what is new.
ResumeAtEnd(w) ==
    /\ next' = [next EXCEPT ![w] = Len(msgs) + 1]
    /\ again' = [again EXCEPT ![w] = {}]

\* durable=f"worker-{worker_id}": the consumer is where it was.
Resume(w) == UNCHANGED <<next, again>>

StartWorker(w) ==
    /\ worker[w] = "down"
    /\ exists
    /\ Enter(w, "waiting")
    /\ Resume(w)
    /\ UNCHANGED <<schedulerVars, msg, acked, ran, faults>>

Due(w) == again[w] \union ({next[w]} \intersect DOMAIN msgs)

\* Mutant of Receive: the message is acked before the callback.
ReceiveAndAck(w) ==
    /\ worker[w] = "waiting"
    /\ \E i \in Due(w) :
          /\ msg' = [msg EXCEPT ![w] = i]
          /\ next' = [next EXCEPT ![w] = IF i = @ THEN @ + 1 ELSE @]
          /\ again' = [again EXCEPT ![w] = @ \ {i}]
          /\ acked' = [acked EXCEPT ![w] = @ \union {i}]
    /\ Enter(w, "calling")
    /\ UNCHANGED <<schedulerVars, ran, faults>>

\* Another mutant: the consumer moves on with every delivery.
ReceiveAndAdvance(w) ==
    /\ worker[w] = "waiting"
    /\ \E i \in Due(w) :
          /\ msg' = [msg EXCEPT ![w] = i]
          /\ next' = [next EXCEPT ![w] = @ + 1]
          /\ again' = [again EXCEPT ![w] = @ \ {i}]
    /\ Enter(w, "calling")
    /\ UNCHANGED <<schedulerVars, acked, ran, faults>>

\* next_msg returns and the callback is called.
Receive(w) ==
    /\ worker[w] = "waiting"
    /\ \E i \in Due(w) :
          /\ msg' = [msg EXCEPT ![w] = i]
          /\ next' = [next EXCEPT ![w] = IF i = @ THEN @ + 1 ELSE @]
          /\ again' = [again EXCEPT ![w] = @ \ {i}]
    /\ Enter(w, "calling")
    /\ UNCHANGED <<schedulerVars, acked, ran, faults>>

\* The callback lasts longer than the ack wait: the message is sent again.
AckWaitExpires(w) ==
    /\ Fault
    /\ worker[w] = "calling"
    /\ DeliverAgain(w, {msg[w]})
    /\ UNCHANGED <<schedulerVars, worker, msg, next, acked, ran>>

CallbackReturns(w) ==
    /\ worker[w] = "calling"
    /\ ran' = [ran EXCEPT ![w][msgs[msg[w]]] = @ + 1]
    /\ Enter(w, "acking")
    /\ UNCHANGED <<schedulerVars, msg, consumerVars, faults>>

CallbackRaises(w) ==
    /\ Fault
    /\ worker[w] = "calling"
    /\ Enter(w, "naking")
    /\ UNCHANGED <<schedulerVars, msg, consumerVars, ran>>

\* Mutant of Ack: nak'ed as well, as if it stood in a finally block.
AckAndNak(w) ==
    /\ worker[w] = "acking"
    /\ again' = [again EXCEPT ![w] = @ \union {msg[w]}]
    /\ msg' = [msg EXCEPT ![w] = 0]
    /\ Enter(w, "waiting")
    /\ UNCHANGED <<schedulerVars, next, acked, ran, faults>>

\* The ack arrives.  A copy that was already sent again may be on its way.
Ack(w) ==
    /\ worker[w] = "acking"
    /\ acked' = [acked EXCEPT ![w] = @ \union {msg[w]}]
    /\ again' \in {again, [again EXCEPT ![w] = @ \ {msg[w]}]}
    /\ msg' = [msg EXCEPT ![w] = 0]
    /\ Enter(w, "waiting")
    /\ UNCHANGED <<schedulerVars, next, ran, faults>>

\* msg.ack() raises inside the try block: the message is nak'ed.
AckRaises(w) ==
    /\ Fault
    /\ worker[w] = "acking"
    /\ acked' \in {acked, [acked EXCEPT ![w] = @ \union {msg[w]}]}
    /\ Enter(w, "naking")
    /\ UNCHANGED <<schedulerVars, msg, next, again, ran>>

Nak(w) ==
    /\ worker[w] = "naking"
    /\ DeliverAgain(w, {msg[w]})
    /\ msg' = [msg EXCEPT ![w] = 0]
    /\ Enter(w, "waiting")
    /\ UNCHANGED <<schedulerVars, next, acked, ran, faults>>

\* The process dies; or next_msg or msg.nak() raises, which ends the loop.
\* The message it held is not acked and will be sent again.
StopWorker(w) ==
    /\ Fault
    /\ worker[w] # "down"
    /\ DeliverAgain(w, {msg[w]} \ {0})
    /\ msg' = [msg EXCEPT ![w] = 0]
    /\ Enter(w, "down")
    /\ UNCHANGED <<schedulerVars, next, acked, ran>>

-----------------------------------------------------------------------------

Init ==
    /\ js = FALSE
    /\ open = FALSE
    /\ exists \in BOOLEAN
    /\ submit = [j \in Jobs |-> "idle"]
    /\ hasty = {}
    /\ silent = [j \in Jobs |-> "none"]
    /\ closed = FALSE
    /\ msgs = << >>
    /\ worker = [w \in Workers |-> "down"]
    /\ msg = [w \in Workers |-> 0]
    /\ next = [w \in Workers |-> 1]
    /\ again = [w \in Workers |-> {}]
    /\ acked = [w \in Workers |-> {}]
    /\ ran = [w \in Workers |-> [j \in Jobs |-> 0]]
    /\ faults = MaxFaults

SubmitStep(j) == \/ Dialed(j) \/ StreamEnsured(j) \/ Publish(j)
                 \/ PublishRefused(j) \/ Confirmed(j)

WorkerStep(w) == \/ StartWorker(w) \/ Receive(w) \/ CallbackReturns(w)
                 \/ Ack(w) \/ Nak(w)

Next ==
    \/ \E j \in Jobs : SubmitJob(j) \/ SubmitStep(j) \/ SubmitRaises(j)
    \/ Close
    \/ \E w \in Workers : \/ WorkerStep(w)
                          \/ AckWaitExpires(w) \/ CallbackRaises(w)
                          \/ AckRaises(w) \/ StopWorker(w)

Spec == Init /\ [][Next]_vars

\* The coroutines run, the server answers, and somebody starts a worker that
\* has stopped; nobody has to submit anything.
Fairness ==
    /\ \A j \in Jobs : WF_vars(SubmitStep(j))
    /\ \A w \in Workers : WF_vars(WorkerStep(w))

FairSpec == Spec /\ Fairness

-----------------------------------------------------------------------------
(* Properties.                                                             *)

TypeOK ==
    /\ js \in BOOLEAN /\ open \in BOOLEAN /\ exists \in BOOLEAN
    /\ submit \in [Jobs -> SubmitStates]
    /\ hasty \subseteq Jobs /\ silent \in [Jobs -> SubmitStates \union {"none"}]
    /\ closed \in BOOLEAN
    /\ msgs \in Seq(Jobs)
    /\ worker \in [Workers -> WorkerStates]
    /\ next \in [Workers -> 1 .. Len(msgs) + 1]
    /\ msg \in [Workers -> 0 .. Len(msgs)]
    /\ again \in [Workers -> SUBSET (1 .. Len(msgs))]
    /\ acked \in [Workers -> SUBSET (1 .. Len(msgs))]
    /\ \A w \in Workers : worker[w] \in {"calling", "acking", "naking"} <=> msg[w] # 0
    /\ ran \in [Workers -> [Jobs -> Nat]]
    /\ faults \in 0 .. MaxFaults

\* At least once: what a worker has acked, it has run to its end before.
AckedWasProcessed ==
    \A w \in Workers : \A i \in acked[w] : ran[w][msgs[i]] > 0

\* A worker runs a job once, and once more for each thing that went wrong:
\* redelivery never feeds itself.
DuplicatesNeedFaults ==
    \A w \in Workers, j \in Jobs : ran[w][j] <= 1 + MaxFaults - faults

\* A call of submit_job raises only if it got no answer itself, if close() was
\* called (which leaves js set), or if, when it began, the connect of another
\* call had set js and was still waiting for add_stream or had failed there.
\* No worker, and no lost reply to another call's publish, makes it raise.
RaisesNeedCause ==
    \A j \in Jobs : submit[j] = "raised" =>
        silent[j] # "none" \/ closed \/ j \in hasty

\* A job whose submission returned is run to its end by every worker, however
\* often the callback raises, acks are lost and workers stop.
SubmittedJobRuns ==
    \A j \in Jobs : submit[j] = "returned" ~> \A w \in Workers : ran[w][j] > 0

\* Load balancing: while nothing goes wrong, a job is run by one worker.
OneWorkerRunsJob ==
    faults = MaxFaults =>
        \A j \in Jobs, v, w \in Workers : ran[v][j] > 0 /\ ran[w][j] > 0 => v = w

=============================================================================
