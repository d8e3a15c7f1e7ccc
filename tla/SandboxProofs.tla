--------------------------- MODULE SandboxProofs ---------------------------
(***************************************************************************)
(* Proofs about Sandbox, for every number of calls, of executors, of exit  *)
(* codes, and every combination of faults.                                 *)
(*                                                                         *)
(* Type correctness needs no assumption on the callers.  The rest is about *)
(* calls of one executor that follow each other, while other executors are *)
(* anywhere.  The argument has two parts.  The dicts: the one call that is *)
(* active, or else nobody, is at a known point of making or taking down a  *)
(* session, and the dicts name that session as a whole.  The pipe: what is *)
(* still to be read from a session are exit lines that came too late, then *)
(* the lines of the active call, its marker and its exit line, unless the  *)
(* shell is dead, which the next call notices.  What docker stop failed to *)
(* stop is out of the dicts, and nobody reads from it.                     *)
(***************************************************************************)
EXTENDS SandboxProperties, SequenceTheorems, TLAPS

\* Calls of one executor follow each other.
Solo ==
    \A q, r \in Runs : ShellOf[q] = ShellOf[r] /\ Active(q) /\ Active(r) => q = r

\* The dicts name one session, or none; or a container without a shell.
Whole(x) == processes[x] = active_containers[x] /\ queues[x] = active_containers[x]
Broken(x) == /\ May("popen")
             /\ active_containers[x] # None /\ processes[x] = None /\ queues[x] = None

Unused == [running |-> FALSE, alive |-> FALSE, up |-> FALSE, stopped |-> FALSE,
           last |-> NoCode, input |-> << >>, output |-> << >>]

\* What the dicts name while a call of that executor is where it is.
DictsOfCall(r, x) ==
    /\ pc[r] = "starting" => active_containers[x] = None /\ Whole(x)
    /\ pc[r] = "opening" => active_containers[x] = r /\ processes[x] = None /\ queues[x] = None
    /\ pc[r] = "wiring" => active_containers[x] = r /\ processes[x] = r /\ queues[x] = None
    /\ pc[r] = "looking" => active_containers[x] # None /\ (Whole(x) \/ Broken(x))
    /\ pc[r] \in {"polling", "writing", "reading", "marked", "stopping"} =>
          /\ active_containers[x] # None /\ Whole(x)
          /\ call[r].proc = active_containers[x] /\ call[r].tap = active_containers[x]
    /\ pc[r] = "halting" =>
          /\ active_containers[x] # None /\ processes[x] = None
          /\ call[r].proc = active_containers[x]
    /\ pc[r] = "removing" => active_containers[x] = None /\ processes[x] = None

DictsOK ==
    /\ \A r \in Runs : DictsOfCall(r, ShellOf[r])
    /\ \A x \in Shells : (\A r \in Runs : ShellOf[r] = x => ~Active(r)) => Whole(x) \/ Broken(x)

\* A container that runs is in its executor's dicts or abandoned; so is a shell
\* that somebody listens to.
SessionOK(s) ==
    /\ pc[s] \in {"new", "starting"} => session[s] = Unused /\ s \notin abandoned
    /\ pc[s] = "opening" =>
          session[s].input = << >> /\ session[s].output = << >> /\ ~session[s].stopped
    /\ session[s].running => active_containers[ShellOf[s]] = s \/ s \in abandoned
    /\ active_containers[ShellOf[s]] = s => session[s].running /\ s \notin abandoned
    /\ session[s].alive => session[s].running
    /\ session[s].up => session[s].alive /\ processes[ShellOf[s]] = s
    /\ session[s].alive /\ processes[ShellOf[s]] = s => session[s].up
    /\ processes[ShellOf[s]] = s => session[s].up \/ May("die")
    /\ session[s].stopped => ~session[s].up

\* Dicts of an executor name sessions of its own calls.
OwnSessions ==
    \A x \in Shells : /\ active_containers[x] # None => ShellOf[active_containers[x]] = x
                      /\ processes[x] # None => ShellOf[processes[x]] = x

-----------------------------------------------------------------------------
(* The lines of a session that are still to be read.                       *)

Pending(s) == session[s].output \o session[s].input

TextOf(r) == [run |-> r, kind |-> "text"]
MarkerOf(r) == [run |-> r, kind |-> "marker"]
ExitOf(r) == [run |-> r, kind |-> "exit"]

\* What a call that reads has before it: late exit lines, its text, its end.
Reads(r, p) ==
    /\ Len(p) >= 2
    /\ p[Len(p) - 1] = MarkerOf(r) /\ p[Len(p)] = ExitOf(r)
    /\ \A k \in 1 .. Len(p) - 2 : p[k] = TextOf(r) \/ (May("late") /\ p[k].kind = "exit")

\* What nobody reads at present.
LeftOver(p) == \A k \in 1 .. Len(p) : May("late") /\ p[k].kind = "exit"

PipeOfCall(r) ==
    /\ pc[r] = "reading" => Reads(r, Pending(call[r].tap))
    /\ pc[r] = "marked" => Pending(call[r].tap) = <<ExitOf(r)>> /\ r \in finished

PipesOK ==
    /\ \A r \in Runs : PipeOfCall(r)
    /\ \A s \in Runs :
          /\ session[s].up
          /\ \A r \in Runs : ShellOf[r] = ShellOf[s] => pc[r] \notin {"reading", "marked", "stopping"}
          => LeftOver(Pending(s))

\* A marker that was printed is that of a command that ran to its end.
PrintedIsFinished ==
    \A s \in Runs : \A k \in 1 .. Len(session[s].output) :
        session[s].output[k].kind = "marker" => session[s].output[k].run \in finished

\* Lines of a call that are still to be printed are in the pipe it wrote to;
\* once the call is given up and its container is to be gone, in that of a dead
\* shell or of a container that docker stop failed to stop.
LinesAreOwn ==
    \A s, r \in Runs : \A k \in 1 .. Len(session[s].input) :
        session[s].input[k].run = r =>
            /\ pc[r] \in {"reading", "marked", "stopping", "halting", "removing", "done"}
            /\ call[r].proc = s
            /\ session[s].alive /\ s \notin abandoned /\ pc[r] \in {"removing", "done"} =>
                  pc[r] = "done" /\ call[r].code # -1

\* What a call reports so far.
CodesOK ==
    \A r \in Runs :
        /\ call[r].code = -1 => pc[r] \in {"stopping", "halting", "removing", "done"}
        /\ pc[r] \in {"stopping", "halting", "removing"} => call[r].code = -1

\* A code that PowerShell has, or that an exit line says, is that of a native
\* program which the same shell ran to its end.
Native == finished \ env.cmdlets
ReportsOK ==
    /\ \A r \in finished :
          pc[r] \in {"reading", "marked", "stopping", "halting", "removing", "done"}
    /\ \A r \in Native : reported[r] = status[r]
    /\ \A r \in finished \ Native :
          reported[r] = NoCode \/ \E q \in Native : SameSession(q, r) /\ reported[r] = status[q]
    /\ \A s \in Runs :
          session[s].last = NoCode
              \/ \E q \in Native : call[q].proc = s /\ session[s].last = status[q]

\* What may be reported for r other than the initial 0.
OwnCode(r) ==
    /\ r \in finished
    /\ r \notin env.cmdlets => call[r].code = status[r]
    /\ r \in env.cmdlets =>
          \/ call[r].code = 0
          \/ \E q \in Native : SameSession(q, r) /\ call[r].code = status[q]

CodesFound ==
    \A r \in Runs : pc[r] = "done" /\ call[r].code # -1 =>
        OwnCode(r) \/ (call[r].code = 0 /\ (May("die") \/ May("late")))

SeqInv ==
    /\ Solo /\ DictsOK /\ OwnSessions /\ \A s \in Runs : SessionOK(s)
    /\ PipesOK /\ PrintedIsFinished /\ LinesAreOwn /\ CodesOK /\ ReportsOK
    /\ CodesFound /\ OutputIsOwn /\ RaisesNeedCause

IInv == TypeOK /\ (env.sequential => SeqInv)

-----------------------------------------------------------------------------
(* Sequences of lines.                                                     *)

\* What a pipe holds does not change when its first line is passed on.
LEMMA PassOn ==
    ASSUME NEW S, NEW o \in Seq(S), NEW i \in Seq(S), i # << >>
    PROVE  Append(o, Head(i)) \o Tail(i) = o \o i
  <1>1. /\ Head(i) \in S /\ Tail(i) \in Seq(S) /\ Len(Tail(i)) = Len(i) - 1
        /\ Head(i) = i[1] /\ \A k \in 1 .. Len(Tail(i)) : Tail(i)[k] = i[k + 1]
        /\ Len(i) \in Nat \ {0} /\ Len(o) \in Nat
    BY HeadTailProperties, EmptySeq, LenProperties
  <1> DEFINE a == Append(o, Head(i))
             p == a \o Tail(i)
             q == o \o i
  <1>2. /\ a \in Seq(S) /\ Len(a) = Len(o) + 1
        /\ \A k \in 1 .. Len(o) : a[k] = o[k]
        /\ a[Len(o) + 1] = Head(i)
    BY <1>1, AppendProperties
  <1>3. /\ q \in Seq(S) /\ Len(q) = Len(o) + Len(i)
        /\ \A k \in 1 .. Len(o) + Len(i) : q[k] = IF k <= Len(o) THEN o[k] ELSE i[k - Len(o)]
    BY ConcatProperties
  <1> HIDE DEF a
  <1>4. /\ p \in Seq(S) /\ Len(p) = Len(a) + Len(Tail(i))
        /\ \A k \in 1 .. Len(a) + Len(Tail(i)) :
              p[k] = IF k <= Len(a) THEN a[k] ELSE Tail(i)[k - Len(a)]
    BY <1>1, <1>2, ConcatProperties
  <1> HIDE DEF p, q
  <1>5. ASSUME NEW k \in 1 .. Len(p) PROVE p[k] = q[k]
    <2>1. k <= Len(o) \/ k = Len(o) + 1 \/ (k > Len(o) + 1 /\ k - Len(a) \in 1 .. Len(Tail(i)))
      BY <1>1, <1>2, <1>4, <1>5
    <2>2. CASE k <= Len(o)
      <3>1. /\ k \in 1 .. Len(o) /\ k \in 1 .. Len(o) + Len(i)
            /\ k \in 1 .. Len(a) + Len(Tail(i)) /\ k <= Len(a)
        BY <2>2, <1>1, <1>2, <1>4, <1>5
      <3>2. p[k] = a[k] /\ a[k] = o[k] /\ q[k] = o[k]
        BY <2>2, <3>1, <1>2, <1>3, <1>4
      <3> QED
        BY <3>2
    <2>3. CASE k = Len(o) + 1
      BY <2>3, <1>1, <1>2, <1>3, <1>4, <1>5
    <2>4. CASE k > Len(o) + 1 /\ k - Len(a) \in 1 .. Len(Tail(i))
      <3>1. Tail(i)[k - Len(a)] = i[k - Len(a) + 1] /\ k - Len(a) + 1 = k - Len(o)
        BY <2>4, <1>1, <1>2
      <3> QED
        BY <2>4, <3>1, <1>1, <1>2, <1>3, <1>4, <1>5
    <2> QED
      BY <2>1, <2>2, <2>3, <2>4
  <1> QED
    BY <1>1, <1>2, <1>3, <1>4, <1>5, SeqEqual DEF a, p, q

\* Taking the first line that was printed takes the first line of the pipe.
LEMMA TakeFirst ==
    ASSUME NEW S, NEW o \in Seq(S), NEW i \in Seq(S), o # << >>
    PROVE  /\ Head(o) = (o \o i)[1] /\ Len(o \o i) \in Nat \ {0}
           /\ Tail(o) \o i \in Seq(S)
           /\ Len(Tail(o) \o i) = Len(o \o i) - 1
           /\ \A k \in 1 .. Len(o \o i) - 1 : (Tail(o) \o i)[k] = (o \o i)[k + 1]
  <1>1. /\ Tail(o) \in Seq(S) /\ Len(Tail(o)) = Len(o) - 1 /\ Head(o) = o[1]
        /\ \A k \in 1 .. Len(Tail(o)) : Tail(o)[k] = o[k + 1]
        /\ Len(o) \in Nat \ {0} /\ Len(i) \in Nat
    BY HeadTailProperties, EmptySeq, LenProperties
  <1> DEFINE p == Tail(o) \o i
             q == o \o i
  <1>2. /\ q \in Seq(S) /\ Len(q) = Len(o) + Len(i)
        /\ \A k \in 1 .. Len(o) + Len(i) : q[k] = IF k <= Len(o) THEN o[k] ELSE i[k - Len(o)]
    BY ConcatProperties
  <1>3. /\ p \in Seq(S) /\ Len(p) = Len(Tail(o)) + Len(i)
        /\ \A k \in 1 .. Len(Tail(o)) + Len(i) :
              p[k] = IF k <= Len(Tail(o)) THEN Tail(o)[k] ELSE i[k - Len(Tail(o))]
    BY <1>1, ConcatProperties
  <1> HIDE DEF p, q
  <1>4. ASSUME NEW k \in 1 .. Len(q) - 1 PROVE p[k] = q[k + 1]
    <2>1. CASE k <= Len(Tail(o))
      BY <2>1, <1>1, <1>2, <1>3
    <2>2. CASE k > Len(Tail(o))
      <3>1. k - Len(Tail(o)) = k + 1 - Len(o)
        BY <1>1, <1>2
      <3> QED
        BY <2>2, <3>1, <1>1, <1>2, <1>3
    <2> QED
      BY <2>1, <2>2, <1>1, <1>2
  <1> QED
    BY <1>1, <1>2, <1>3, <1>4 DEF p, q

-----------------------------------------------------------------------------
(* Types.                                                                  *)

\* No command line is lost for a type: what a call writes are lines.
LEMMA WrappedLines ==
    ASSUME NEW r \in Runs
    PROVE  /\ WrappedCommand(r) \in Seq(Line)
           /\ Len(WrappedCommand(r)) = (IF r \in Quiet THEN 2 ELSE 3)
           /\ r \in Quiet => WrappedCommand(r) = <<MarkerOf(r), ExitOf(r)>>
           /\ r \notin Quiet => WrappedCommand(r) = <<TextOf(r), MarkerOf(r), ExitOf(r)>>
  <1> DEFINE m == MarkerOf(r)
             e == ExitOf(r)
             t == TextOf(r)
  <1>1. t \in Line /\ m \in Line /\ e \in Line
    BY DEF Line, TextOf, MarkerOf, ExitOf
  <1>2. WrappedCommand(r) = (IF r \in Quiet THEN << >> ELSE <<t>>) \o <<m, e>>
    BY DEF WrappedCommand, TextOf, MarkerOf, ExitOf
  <1> HIDE DEF t, m, e
  <1>3. /\ <<t>> \in Seq(Line) /\ <<m, e>> \in Seq(Line) /\ <<t, m, e>> \in Seq(Line)
        /\ Len(<<t>>) = 1 /\ Len(<<m, e>>) = 2 /\ Len(<<t, m, e>>) = 3
    BY <1>1
  <1>4. << >> \o <<m, e>> = <<m, e>>
    BY <1>3, ConcatEmptySeq
  <1>5. <<t>> \o <<m, e>> = <<t, m, e>>
    <2> DEFINE c == <<t>> \o <<m, e>>
    <2>1. /\ c \in Seq(Line) /\ Len(c) = 3
          /\ \A k \in 1 .. 3 : c[k] = IF k <= 1 THEN <<t>>[k] ELSE <<m, e>>[k - 1]
      BY <1>3, ConcatProperties
    <2> HIDE DEF c
    <2>2. \A k \in 1 .. 3 : c[k] = <<t, m, e>>[k]
      <3>1. c[1] = t /\ c[2] = m /\ c[3] = e
        BY <2>1
      <3> QED
        BY <3>1
    <2> QED
      BY <1>3, <2>1, <2>2, SeqEqual DEF c
  <1> QED
    BY <1>2, <1>3, <1>4, <1>5 DEF t, m, e

\* A session as a record, field by field.
LEMMA SessionFields ==
    ASSUME TypeOK, NEW s \in Runs
    PROVE  /\ session[s].running \in BOOLEAN /\ session[s].alive \in BOOLEAN
           /\ session[s].up \in BOOLEAN /\ session[s].stopped \in BOOLEAN
           /\ session[s].last \in Outcome
           /\ session[s].input \in Seq(Line) /\ session[s].output \in Seq(Line)
  BY DEF TypeOK, Session, Outcome

\* A call that talks to a shell has a session to write to and one to read from.
LEMMA SessionsInUse ==
    ASSUME TypeOK, NEW r \in Runs, pc[r] \in {"polling", "writing", "reading", "marked"}
    PROVE  call[r].proc \in Runs /\ call[r].tap \in Runs
  BY DEF TypeOK, Entry

\* A command ends with an exit code, or a cmdlet with none.
LEMMA CodesAreCodes ==
    ASSUME TypeOK, NEW s \in Runs, NEW r \in Runs
    PROVE  ExitCode(s, r) \in Outcome /\ status[r] \in Nat
  <1>1. status[r] \in Nat
    BY SandboxAssumption DEF TypeOK
  <1> QED
    BY <1>1, SessionFields DEF ExitCode, Outcome

\* What the end of a client, and that of a container, make of a session.
LEMMA ClientEnds ==
    ASSUME TypeOK, NEW r \in Runs, EndClient(r), NEW s \in Runs
    PROVE  /\ session'[s] \in Session
           /\ session'[s].input = session[s].input /\ session'[s].output = session[s].output
           /\ session'[s].last = session[s].last /\ session'[s].running = session[s].running
           /\ session'[s].alive = session[s].alive
           /\ session'[s].up <=> session[s].up /\ s # processes[ShellOf[r]]
           /\ s \notin {processes[ShellOf[r]], queues[ShellOf[r]]} => session'[s] = session[s]
  <1> DEFINE x == session[s]
             stopped == x.stopped \/ s = queues[ShellOf[r]]
             up == x.up /\ s # processes[ShellOf[r]]
             y == [x EXCEPT !.stopped = stopped, !.up = up]
  <1>1. session'[s] = y
    BY DEF EndClient
  <1>2. x \in Session /\ stopped \in BOOLEAN /\ up \in BOOLEAN
    BY SessionFields DEF TypeOK
  <1>3. s \notin {processes[ShellOf[r]], queues[ShellOf[r]]} => stopped = x.stopped /\ up = x.up
    BY <1>2 DEF Session
  <1> HIDE DEF x, stopped, up
  <1>4. /\ y \in Session /\ y.input = x.input /\ y.output = x.output /\ y.last = x.last
        /\ y.running = x.running /\ y.alive = x.alive /\ y.up = up
    BY <1>2 DEF Session
  <1>5. stopped = x.stopped /\ up = x.up => y = x
    BY <1>2 DEF Session
  <1> QED
    BY <1>1, <1>3, <1>4, <1>5 DEF x, up

LEMMA ContainerEnds ==
    ASSUME TypeOK, NEW r \in Runs, EndContainer(r), NEW s \in Runs
    PROVE  /\ session'[s] \in Session
           /\ session'[s].input = session[s].input /\ session'[s].output = session[s].output
           /\ session'[s].last = session[s].last
           /\ s = active_containers[ShellOf[r]] =>
                 ~session'[s].running /\ ~session'[s].alive /\ ~session'[s].up
           /\ s # active_containers[ShellOf[r]] => session'[s] = session[s]
  <1> DEFINE x == session[s]
             stays == s # active_containers[ShellOf[r]]
             y == [x EXCEPT !.running = x.running /\ stays, !.alive = x.alive /\ stays,
                            !.up = x.up /\ stays]
  <1>1. session'[s] = y
    BY DEF EndContainer
  <1>2. x \in Session /\ stays \in BOOLEAN
    BY DEF TypeOK
  <1> HIDE DEF x, stays
  <1>3. /\ y \in Session /\ y.input = x.input /\ y.output = x.output /\ y.last = x.last
        /\ y.running = (x.running /\ stays) /\ y.alive = (x.alive /\ stays)
        /\ y.up = (x.up /\ stays)
    BY <1>2 DEF Session
  <1>4. stays => y = x
    BY <1>2 DEF Session
  <1> QED
    BY <1>1, <1>2, <1>3, <1>4 DEF x, stays

\* Every step leaves sessions behind.
LEMMA SessionsStaySessions ==
    ASSUME TypeOK, NEW r \in Runs,
           Call(r) \/ Start(r) \/ Execute(r) \/ CleanUp(r) \/ ShellPrints(r) \/ Die(r)
    PROVE  session' \in [Runs -> Session]
  <1>0. session \in [Runs -> Session]
    BY DEF TypeOK
  <1>1. CASE UNCHANGED session
    BY <1>0, <1>1
  <1>2. CASE DockerRun(r)
    <2>1. session' = [session EXCEPT ![r].running = TRUE]
      BY <1>2 DEF DockerRun
    <2> QED
      BY <1>0, <2>1 DEF Session
  <1>3. CASE OpenShell(r)
    <2>1. session' = [session EXCEPT ![r].alive = session[r].running,
                                     ![r].up = session[r].running]
      BY <1>3 DEF OpenShell
    <2> QED
      BY <1>0, <2>1 DEF Session
  <1>4. CASE Write(r)
    <2>1. call[r].proc \in Runs
      BY <1>4, SessionsInUse DEF Write
    <2>2. session[call[r].proc].input \o WrappedCommand(r) \in Seq(Line)
      BY <2>1, SessionFields, WrappedLines, ConcatProperties
    <2>3. session' = [session EXCEPT ![call[r].proc].input = @ \o WrappedCommand(r)]
      BY <1>4 DEF Write
    <2> QED
      BY <1>0, <2>1, <2>2, <2>3 DEF Session
  <1>5. CASE ReadLine(r) \/ ReadExit(r)
    <2>1. call[r].tap \in Runs
      BY <1>5, SessionsInUse DEF ReadLine, ReadExit
    <2>2. /\ session[call[r].tap].output # << >>
          /\ session' = [session EXCEPT ![call[r].tap].output = Tail(@)]
      BY <1>5 DEF ReadLine, ReadExit, TakeLine, Queue
    <2>3. Tail(session[call[r].tap].output) \in Seq(Line)
      BY <2>1, <2>2, SessionFields, HeadTailProperties
    <2> QED
      BY <1>0, <2>1, <2>2, <2>3 DEF Session
  <1>6. CASE Stop(r)
    <2>1. EndClient(r) /\ DOMAIN session' = Runs /\ session' = [s \in Runs |-> session'[s]]
      BY <1>6 DEF Stop, EndClient
    <2> QED
      BY <2>1, ClientEnds
  <1>7. CASE Halt(r)
    <2>1. EndContainer(r) /\ DOMAIN session' = Runs /\ session' = [s \in Runs |-> session'[s]]
      BY <1>7 DEF Halt, EndContainer
    <2> QED
      BY <2>1, ContainerEnds
  <1>8. CASE ShellPrints(r)
    <2> DEFINE line == Head(session[r].input)
               printed == IF session[r].up /\ ~session[r].stopped
                          THEN Append(session[r].output, line) ELSE session[r].output
               code == IF line.kind = "marker" THEN ExitCode(r, line.run) ELSE session[r].last
    <2>1. line \in Line /\ Tail(session[r].input) \in Seq(Line)
      BY <1>8, SessionFields, HeadTailProperties DEF ShellPrints
    <2>2. printed \in Seq(Line)
      BY <2>1, SessionFields, AppendProperties
    <2>3. code \in Nat \union {-1}
      BY <2>1, CodesAreCodes, SessionFields DEF Line, Outcome
    <2>4. session' = [session EXCEPT ![r].input = Tail(@), ![r].output = printed,
                                     ![r].last = code]
      BY <1>8 DEF ShellPrints
    <2> HIDE DEF line, printed, code
    <2>5. session[r] \in Session
      BY <1>0
    <2>6. [session[r] EXCEPT !.input = Tail(session[r].input), !.output = printed, !.last = code]
              \in Session
      BY <2>1, <2>2, <2>3, <2>5 DEF Session
    <2> QED
      BY <1>0, <2>4, <2>6
  <1>9. CASE Die(r)
    <2>1. session' = [session EXCEPT ![r].alive = FALSE, ![r].up = FALSE]
      BY <1>9 DEF Die
    <2> QED
      BY <1>0, <2>1 DEF Session
  <1> QED
    <2>1. CASE Call(r)
      BY <1>1, <2>1 DEF Call
    <2>2. CASE Start(r)
      BY <1>1, <1>2, <1>3, <2>2 DEF Start, DockerRunFails, OpenShellFails, StartReaders
    <2>3. CASE Execute(r)
      BY <1>1, <1>4, <1>5, <2>3
         DEF Execute, Look, Poll, WriteFails, ReadNoExit, ShellIsGone, TimesOut
    <2>4. CASE CleanUp(r)
      BY <1>1, <1>6, <1>7, <2>4 DEF CleanUp, HaltFails, Remove
    <2> QED
      BY <1>8, <1>9, <2>1, <2>2, <2>3, <2>4

\* The types of everything but the sessions.
CallFields == [proc : Entry, tap : Entry, code : Outcome, heard : SUBSET Runs]
CallsTyped ==
    /\ pc \in [Runs -> States]
    /\ call \in [Runs -> CallFields]
    /\ \A r \in Runs : pc[r] \in {"polling", "writing", "reading", "marked"} =>
          call[r].proc # None /\ call[r].tap # None
DictsTyped ==
    /\ active_containers \in [Shells -> Entry] /\ processes \in [Shells -> Entry]
    /\ queues \in [Shells -> Entry] /\ workspaces \in [Shells -> BOOLEAN]
    /\ folder \in BOOLEAN
    /\ env \in Environment /\ status \in Statuses

\* The dicts keep their types.
LEMMA DictsStayTyped ==
    ASSUME TypeOK, NEW r \in Runs,
           Call(r) \/ Start(r) \/ Execute(r) \/ CleanUp(r) \/ ShellPrints(r) \/ Die(r)
    PROVE  DictsTyped'
  <1>0. DictsTyped /\ ShellOf[r] \in Shells /\ r \in Entry /\ None \in Entry
    BY SandboxAssumption DEF TypeOK, DictsTyped, Entry
  <1>1. CASE UNCHANGED <<env, status, dicts, folder>>
    BY <1>0, <1>1 DEF DictsTyped, dicts
  <1>2. CASE Call(r) \/ Start(r)
    BY <1>0, <1>1, <1>2 DEF DictsTyped, dicts, Call, Start, MakeFolder, DockerRun, DockerRunFails,
       OpenShell, OpenShellFails, StartReaders
  <1>3. CASE CleanUp(r)
    BY <1>0, <1>3 DEF DictsTyped, dicts, CleanUp, Stop, Halt, HaltFails, Remove
  <1>4. CASE Execute(r)
    BY <1>1, <1>4 DEF Execute, Look, Poll, Write, WriteFails, ReadLine, ReadExit, ReadNoExit,
       ShellIsGone, TimesOut
  <1>5. CASE ShellPrints(r) \/ Die(r)
    BY <1>1, <1>5 DEF ShellPrints, Die
  <1> QED
    BY <1>2, <1>3, <1>4, <1>5

\* A step of a call moves that call only.
LEMMA CallsStayTyped ==
    ASSUME TypeOK, NEW r \in Runs,
           Call(r) \/ Start(r) \/ Execute(r) \/ CleanUp(r) \/ ShellPrints(r) \/ Die(r)
    PROVE  CallsTyped'
  <1>0. CallsTyped /\ ShellOf[r] \in Shells /\ -1 \in Outcome /\ 0 \in Outcome
    BY SandboxAssumption DEF TypeOK, CallsTyped, CallFields, Outcome
  <1>1. CASE UNCHANGED <<pc, call>>
    BY <1>0, <1>1 DEF CallsTyped
  <1>2. ASSUME NEW p \in States \ {"polling", "writing", "reading", "marked"},
               pc' = [pc EXCEPT ![r] = p],
               call' = call \/ \E c \in Outcome : call' = [call EXCEPT ![r].code = c]
        PROVE  CallsTyped'
    BY <1>0, <1>2 DEF CallsTyped, CallFields
  <1>3. ASSUME pc[r] \in {"polling", "writing", "reading", "marked"},
               NEW p \in {"polling", "writing", "reading", "marked"},
               pc' = [pc EXCEPT ![r] = p],
               call' = call \/ \E q \in Runs : call' = [call EXCEPT ![r].heard = @ \union {q}]
        PROVE  CallsTyped'
    BY <1>0, <1>3 DEF CallsTyped, CallFields, States
  <1>4. CASE Call(r)
    BY <1>2, <1>4 DEF Call, Goto, States
  <1>5. CASE Start(r)
    BY <1>2, <1>5 DEF Start, DockerRun, DockerRunFails, OpenShell, OpenShellFails, StartReaders,
       Goto, Raise, States
  <1>6. CASE Look(r)
    <2>1. CASE pc' = [pc EXCEPT ![r] = "raised"] /\ call' = call
      BY <1>2, <2>1 DEF States
    <2>2. CASE None \notin {processes[ShellOf[r]], queues[ShellOf[r]]}
      <3>1. processes[ShellOf[r]] \in Runs /\ queues[ShellOf[r]] \in Runs
        BY <1>0, <2>2 DEF TypeOK, Entry
      <3> QED
        BY <1>0, <1>6, <2>2, <3>1 DEF Look, Goto, CallsTyped, CallFields, Entry, States
    <2> QED
      BY <1>6, <2>1, <2>2 DEF Look, Raise, Goto
  <1>7. CASE Poll(r) \/ Write(r)
    BY <1>0, <1>2, <1>3, <1>7 DEF Poll, Write, FailAndCleanUp, Goto, States
  <1>8. CASE WriteFails(r) \/ ReadNoExit(r) \/ ShellIsGone(r) \/ TimesOut(r)
    BY <1>0, <1>2, <1>8
       DEF WriteFails, ReadNoExit, ShellIsGone, TimesOut, FailAndCleanUp, Return, Goto, States
  <1>9. CASE ReadLine(r) \/ ReadExit(r)
    <2>1. call[r].tap \in Runs /\ Queue(r) # << >>
      BY <1>9, SessionsInUse DEF ReadLine, ReadExit, TakeLine
    <2>2. Head(Queue(r)) \in Line
      BY <2>1, SessionFields, HeadTailProperties DEF Queue
    <2>3. Head(Queue(r)).run \in Runs /\ CodeIn(Head(Queue(r))) \in Outcome
      BY <2>2 DEF Line, TypeOK, Outcome, CodeIn, NoCode
    <2>4. CASE ReadLine(r)
      <3>1. pc' = [pc EXCEPT ![r] = "reading"] \/ pc' = [pc EXCEPT ![r] = "marked"]
        BY <1>0, <2>4 DEF ReadLine, Goto, CallsTyped
      <3> QED
        BY <1>3, <2>3, <2>4, <3>1 DEF ReadLine
    <2>5. CASE ReadExit(r)
      BY <1>0, <1>2, <2>3, <2>5 DEF ReadExit, Return, Goto, States
    <2> QED
      BY <1>9, <2>4, <2>5
  <1>10. CASE CleanUp(r)
    BY <1>2, <1>10 DEF CleanUp, Stop, Halt, HaltFails, Remove, Goto, States
  <1>11. CASE ShellPrints(r) \/ Die(r)
    BY <1>1, <1>11 DEF ShellPrints, Die
  <1> QED
    BY <1>4, <1>5, <1>6, <1>7, <1>8, <1>9, <1>10, <1>11 DEF Execute

\* Commands that finish are commands, and so are containers that are abandoned.
HistoryTyped ==
    reported \in [Runs -> Outcome] /\ finished \in SUBSET Runs /\ abandoned \in SUBSET Runs

\* The history keeps its types.
LEMMA HistoryStaysTyped ==
    ASSUME TypeOK, NEW r \in Runs,
           Call(r) \/ Start(r) \/ Execute(r) \/ CleanUp(r) \/ ShellPrints(r) \/ Die(r)
    PROVE  HistoryTyped'
  <1>0. HistoryTyped
    BY DEF TypeOK, HistoryTyped
  <1>1. CASE ShellPrints(r)
    <2>1. Head(session[r].input) \in Line
      BY <1>1, SessionFields, HeadTailProperties DEF ShellPrints
    <2>2. /\ Head(session[r].input).run \in Runs
          /\ ExitCode(r, Head(session[r].input).run) \in Outcome
      BY <2>1, CodesAreCodes DEF Line
    <2> QED
      BY <1>0, <1>1, <2>2 DEF ShellPrints, HistoryTyped
  <1>2. CASE HaltFails(r)
    <2>1. active_containers[ShellOf[r]] \in Entry
      BY SandboxAssumption DEF TypeOK
    <2> QED
      BY <1>0, <1>2, <2>1 DEF HaltFails, HistoryTyped, Entry
  <1>3. ~ShellPrints(r) /\ ~HaltFails(r) => UNCHANGED <<reported, finished, abandoned>>
    BY DEF Call, Start, DockerRun, DockerRunFails, OpenShell, OpenShellFails, StartReaders,
       Execute, Look, Poll, Write, WriteFails, ReadLine, ReadExit, ReadNoExit, ShellIsGone,
       TimesOut, CleanUp, Stop, Halt, Remove, Die
  <1> QED
    BY <1>0, <1>1, <1>2, <1>3 DEF HistoryTyped

\* Every step keeps the types.
LEMMA NextKeepsTypes == TypeOK /\ [Next]_vars => TypeOK'
  <1>1. ASSUME TypeOK, NEW r \in Runs,
               Call(r) \/ Start(r) \/ Execute(r) \/ CleanUp(r) \/ ShellPrints(r) \/ Die(r)
        PROVE  TypeOK'
    <2>1. session' \in [Runs -> Session] /\ DictsTyped' /\ CallsTyped' /\ HistoryTyped'
      BY <1>1, SessionsStaySessions, DictsStayTyped, CallsStayTyped, HistoryStaysTyped
    <2> QED
      BY <2>1 DEF TypeOK, DictsTyped, CallsTyped, CallFields, HistoryTyped
  <1>2. TypeOK /\ UNCHANGED vars => TypeOK'
    BY DEF TypeOK, vars, dicts
  <1> QED
    BY <1>1, <1>2 DEF Next

-----------------------------------------------------------------------------
(* What a step leaves alone.                                               *)

CallStep(r) == Call(r) \/ Start(r) \/ Execute(r) \/ CleanUp(r)

OnlyCall(r) == \A q \in Runs \ {r} : pc'[q] = pc[q] /\ call'[q] = call[q]

OnlyDictsOf(x) ==
    \A y \in Shells \ {x} :
        /\ active_containers'[y] = active_containers[y]
        /\ processes'[y] = processes[y] /\ queues'[y] = queues[y]

SameShell(s) ==
    /\ session'[s].running = session[s].running /\ session'[s].alive = session[s].alive
    /\ session'[s].up = session[s].up /\ session'[s].stopped = session[s].stopped
SamePipe(s) ==
    session'[s].input = session[s].input /\ session'[s].output = session[s].output

\* A step of a call changes nothing of the other calls.
LEMMA CallsMoveAlone ==
    ASSUME TypeOK, NEW r \in Runs, CallStep(r)
    PROVE  OnlyCall(r) /\ env' = env /\ status' = status
  <1>1. pc \in [Runs -> States] /\ call \in [Runs -> CallFields]
    BY DEF TypeOK, CallFields
  <1>2. CASE Call(r)
    BY <1>1, <1>2 DEF Call, OnlyCall, Goto
  <1>3. CASE Start(r)
    BY <1>1, <1>3 DEF Start, OnlyCall, DockerRun, DockerRunFails, OpenShell, OpenShellFails,
       StartReaders, Goto, Raise
  <1>4. CASE Execute(r)
    BY <1>1, <1>4 DEF Execute, OnlyCall, Look, Poll, Write, WriteFails, ReadLine, ReadExit,
       ReadNoExit, ShellIsGone, TimesOut, Goto, Raise, Return, FailAndCleanUp
  <1>5. CASE CleanUp(r)
    BY <1>1, <1>5 DEF CleanUp, OnlyCall, Stop, Halt, HaltFails, Remove, Goto
  <1> QED
    BY <1>2, <1>3, <1>4, <1>5 DEF CallStep

\* It changes only the dicts of its own executor.
LEMMA DictsChangeAlone ==
    ASSUME TypeOK, NEW r \in Runs, CallStep(r)
    PROVE  OnlyDictsOf(ShellOf[r])
  <1>1. /\ active_containers \in [Shells -> Entry] /\ processes \in [Shells -> Entry]
        /\ queues \in [Shells -> Entry] /\ ShellOf[r] \in Shells
    BY SandboxAssumption DEF TypeOK
  <1>2. CASE Call(r)
    BY <1>1, <1>2 DEF Call, OnlyDictsOf
  <1>3. CASE Start(r)
    BY <1>1, <1>3 DEF Start, OnlyDictsOf, DockerRun, DockerRunFails, OpenShell, OpenShellFails,
       StartReaders, dicts
  <1>4. CASE Execute(r)
    BY <1>1, <1>4 DEF Execute, OnlyDictsOf, Look, Poll, Write, WriteFails, ReadLine, ReadExit,
       ReadNoExit, ShellIsGone, TimesOut, dicts
  <1>5. CASE CleanUp(r)
    BY <1>1, <1>5 DEF CleanUp, OnlyDictsOf, Stop, Halt, HaltFails, Remove
  <1> QED
    BY <1>2, <1>3, <1>4, <1>5 DEF CallStep

\* While a call takes a step, no other call of its executor is active.
LEMMA Alone ==
    ASSUME Solo, env.sequential, NEW r \in Runs, CallStep(r)
    PROVE  \A q \in Runs : ShellOf[q] = ShellOf[r] /\ q # r => ~Active(q)
  <1>1. CASE Call(r)
    BY <1>1 DEF Call
  <1>2. CASE Start(r)
    <2>1. Active(r)
      BY <1>2 DEF Start, DockerRun, DockerRunFails, OpenShell, OpenShellFails, StartReaders, Active
    <2> QED
      BY <2>1 DEF Solo
  <1>3. CASE Execute(r)
    <2>1. Active(r)
      BY <1>3 DEF Execute, Look, Poll, Write, WriteFails, ReadLine, ReadExit, ReadNoExit,
         ShellIsGone, TimesOut, Active
    <2> QED
      BY <2>1 DEF Solo
  <1>4. CASE CleanUp(r)
    <2>1. Active(r)
      BY <1>4 DEF CleanUp, Stop, Halt, HaltFails, Remove, Active
    <2> QED
      BY <2>1 DEF Solo
  <1> QED
    BY <1>1, <1>2, <1>3, <1>4 DEF CallStep

\* So calls stay alone.
LEMMA CallsStayAlone ==
    ASSUME TypeOK, Solo, env.sequential, NEW r \in Runs, CallStep(r)
    PROVE  Solo'
  <1>1. \A q \in Runs : q # r => (Active(q)' <=> Active(q))
    BY CallsMoveAlone DEF OnlyCall, Active
  <1> QED
    BY <1>1, Alone DEF Solo

-----------------------------------------------------------------------------
(* The dicts and the sessions.                                             *)

SessionsOK == DictsOK /\ OwnSessions /\ \A s \in Runs : SessionOK(s)

\* Of the dicts, only those of the call that moves have to be looked at.
LEMMA DictsOfOthers ==
    ASSUME TypeOK, Solo, DictsOK, env.sequential, NEW r \in Runs, CallStep(r),
           DictsOfCall(r, ShellOf[r])',
           ~Active(r)' => (Whole(ShellOf[r]) \/ Broken(ShellOf[r]))'
    PROVE  DictsOK'
  <1>1. OnlyCall(r) /\ OnlyDictsOf(ShellOf[r]) /\ env' = env
    BY CallsMoveAlone, DictsChangeAlone
  <1>2. \A q \in Runs : ShellOf[q] \in Shells
    BY SandboxAssumption
  <1>3. ASSUME NEW q \in Runs, q # r PROVE DictsOfCall(q, ShellOf[q])'
    <2>1. pc'[q] = pc[q] /\ call'[q] = call[q]
      BY <1>1, <1>3 DEF OnlyCall
    <2>2. CASE ShellOf[q] = ShellOf[r]
      <3>1. ~Active(q)
        BY <1>3, <2>2, Alone
      <3> QED
        BY <2>1, <3>1 DEF Active, DictsOfCall
    <2>3. CASE ShellOf[q] # ShellOf[r]
      <3>1. DictsOfCall(q, ShellOf[q])
        BY DEF DictsOK
      <3> QED
        BY <1>1, <1>2, <2>1, <2>3, <3>1 DEF OnlyDictsOf, DictsOfCall, Whole, Broken, May
    <2> QED
      BY <2>2, <2>3
  <1>4. ASSUME NEW x \in Shells, (\A q \in Runs : ShellOf[q] = x => ~Active(q))'
        PROVE  (Whole(x) \/ Broken(x))'
    <2>1. CASE x = ShellOf[r]
      BY <1>4, <2>1
    <2>2. CASE x # ShellOf[r]
      <3>1. \A q \in Runs : ShellOf[q] = x => ~Active(q)
        BY <1>1, <1>4, <2>2 DEF OnlyCall, Active
      <3>2. Whole(x) \/ Broken(x)
        BY <3>1 DEF DictsOK
      <3> QED
        BY <1>1, <2>2, <3>2 DEF OnlyDictsOf, Whole, Broken, May
    <2> QED
      BY <2>1, <2>2
  <1> QED
    BY <1>3, <1>4 DEF DictsOK

\* A session that is not touched stays as it should be, as long as its call
\* and its dict entries stay.
LEMMA SessionUntouched ==
    ASSUME NEW s \in Runs, SessionOK(s), env' = env,
           pc'[s] = pc[s] \/ pc'[s] \notin {"new", "starting", "opening"},
           SameShell(s), SamePipe(s), session[s] = Unused => session'[s] = Unused,
           (s \in abandoned') <=> (s \in abandoned),
           (active_containers'[ShellOf[s]] = s) <=> (active_containers[ShellOf[s]] = s),
           (processes'[ShellOf[s]] = s) <=> (processes[ShellOf[s]] = s)
    PROVE  SessionOK(s)'
  BY DEF SessionOK, SameShell, SamePipe, May

\* The dicts of an executor go on naming sessions of its own calls.
LEMMA SessionsStayOwn ==
    ASSUME TypeOK, OwnSessions, NEW r \in Runs, CallStep(r)
    PROVE  OwnSessions'
  <1>1. /\ active_containers \in [Shells -> Entry] /\ processes \in [Shells -> Entry]
        /\ ShellOf[r] \in Shells
    BY SandboxAssumption DEF TypeOK
  <1>2. CASE UNCHANGED <<active_containers, processes>>
    BY <1>2 DEF OwnSessions
  <1>3. CASE DockerRun(r)
    BY <1>1, <1>3 DEF DockerRun, OwnSessions
  <1>4. CASE OpenShell(r)
    BY <1>1, <1>4 DEF OpenShell, OwnSessions
  <1>5. CASE Stop(r)
    BY <1>1, <1>5 DEF Stop, OwnSessions
  <1>6. CASE Halt(r) \/ HaltFails(r)
    BY <1>1, <1>6 DEF Halt, HaltFails, OwnSessions
  <1>7. Call(r) \/ Execute(r) => UNCHANGED <<active_containers, processes>>
    BY DEF Call, Execute, Look, Poll, Write, WriteFails, ReadLine, ReadExit, ReadNoExit,
       ShellIsGone, TimesOut, dicts
  <1>8. DockerRunFails(r) \/ OpenShellFails(r) \/ StartReaders(r) \/ Remove(r) =>
            UNCHANGED <<active_containers, processes>>
    BY DEF DockerRunFails, OpenShellFails, StartReaders, Remove, dicts
  <1> QED
    BY <1>2, <1>3, <1>4, <1>5, <1>6, <1>7, <1>8 DEF CallStep, Start, CleanUp

\* The session that a call works with is past its start.
LEMMA FreshIsApart ==
    ASSUME TypeOK, Solo, SessionsOK, NEW r \in Runs,
           pc[r] \in {"polling", "writing", "reading", "marked", "stopping", "halting"}
    PROVE  LET a == active_containers[ShellOf[r]] IN
           /\ a \in Runs /\ ShellOf[a] = ShellOf[r]
           /\ pc[a] \notin {"new", "starting", "opening"}
  <1> DEFINE a == active_containers[ShellOf[r]]
  <1>1. a # None
    BY DEF SessionsOK, DictsOK, DictsOfCall
  <1>2. a \in Runs /\ ShellOf[a] = ShellOf[r]
    BY <1>1, SandboxAssumption DEF TypeOK, Entry, SessionsOK, OwnSessions
  <1>3. session[a].running
    BY <1>2 DEF SessionsOK, SessionOK
  <1>4. pc[a] \notin {"new", "starting"}
    BY <1>2, <1>3 DEF SessionsOK, SessionOK, Unused
  <1>5. pc[a] # "opening"
    BY <1>2 DEF Solo, Active
  <1> QED
    BY <1>2, <1>4, <1>5

\* A call begins with dicts that are whole, or with a container without shell.
LEMMA CallKeepsSessions ==
    ASSUME TypeOK, Solo, SessionsOK, env.sequential, NEW r \in Runs, Call(r)
    PROVE  SessionsOK'
  <1>0. CallStep(r) /\ pc \in [Runs -> States] /\ env' = env
    BY DEF CallStep, Call, TypeOK
  <1>1. UNCHANGED <<session, active_containers, processes, queues, abandoned>>
    BY DEF Call
  <1>2. Whole(ShellOf[r]) \/ Broken(ShellOf[r])
    <2>1. \A q \in Runs : ShellOf[q] = ShellOf[r] => ~Active(q)
      BY DEF Call
    <2> QED
      BY <2>1, SandboxAssumption DEF SessionsOK, DictsOK
  <1>3. \/ pc'[r] = "looking" /\ active_containers[ShellOf[r]] # None
        \/ pc'[r] = "starting" /\ active_containers[ShellOf[r]] = None
    BY <1>0 DEF Call, Goto
  <1>4. DictsOfCall(r, ShellOf[r])' /\ Active(r)'
    BY <1>0, <1>1, <1>2, <1>3 DEF DictsOfCall, Whole, Broken, May, Active
  <1>5. DictsOK'
    BY <1>0, <1>4, DictsOfOthers DEF SessionsOK
  <1>6. OwnSessions'
    BY <1>0, SessionsStayOwn DEF SessionsOK
  <1>7. ASSUME NEW s \in Runs PROVE SessionOK(s)'
    <2>1. SessionOK(s)
      BY DEF SessionsOK
    <2>2. pc'[s] = pc[s] \/ (pc[s] = "new" /\ pc'[s] # "opening")
      BY <1>0, <1>3 DEF Call, Goto
    <2> QED
      BY <1>0, <1>1, <2>1, <2>2 DEF SessionOK, May
  <1> QED
    BY <1>5, <1>6, <1>7 DEF SessionsOK

\* Starting a container publishes it with its session; a start that fails
\* leaves nothing, or a container without shell.
LEMMA StartKeepsSessions ==
    ASSUME TypeOK, Solo, SessionsOK, env.sequential, NEW r \in Runs, Start(r)
    PROVE  SessionsOK'
  <1> DEFINE x == ShellOf[r]
  <1>0. /\ CallStep(r) /\ pc \in [Runs -> States] /\ session \in [Runs -> Session]
        /\ active_containers \in [Shells -> Entry] /\ processes \in [Shells -> Entry]
        /\ queues \in [Shells -> Entry] /\ x \in Shells /\ env' = env /\ OnlyDictsOf(x)
        /\ OnlyCall(r)
    BY CallsMoveAlone, DictsChangeAlone, SandboxAssumption DEF CallStep, TypeOK
  <1>9. abandoned' = abandoned
    BY DEF Start, DockerRun, DockerRunFails, OpenShell, OpenShellFails, StartReaders
  <1>1. DictsOfCall(r, x) /\ SessionOK(r) /\ r # None /\ \A q \in Runs : ShellOf[q] \in Shells
    BY SandboxAssumption DEF SessionsOK, DictsOK
  <1>2. OwnSessions'
    BY <1>0, SessionsStayOwn DEF SessionsOK
  <1>3. ASSUME DictsOfCall(r, x)', ~Active(r)' => (Whole(x) \/ Broken(x))',
               SessionOK(r)',
               \A s \in Runs \ {r} : session'[s] = session[s],
               active_containers'[x] \in {r, active_containers[x]},
               active_containers[x] \in {r, None, active_containers'[x]},
               processes'[x] \in {r, processes[x]},
               processes[x] \in {r, None, processes'[x]}
        PROVE  SessionsOK'
    <2>1. DictsOK'
      BY <1>0, <1>3, DictsOfOthers DEF SessionsOK
    <2>2. ASSUME NEW s \in Runs, s # r PROVE SessionOK(s)'
      <3>1. SessionOK(s) /\ session'[s] = session[s] /\ pc'[s] = pc[s] /\ s # None
        BY <1>0, <1>3, <2>2, SandboxAssumption DEF SessionsOK, OnlyCall
      <3>2. /\ (active_containers'[ShellOf[s]] = s) <=> (active_containers[ShellOf[s]] = s)
            /\ (processes'[ShellOf[s]] = s) <=> (processes[ShellOf[s]] = s)
        BY <1>0, <1>1, <1>3, <2>2, <3>1 DEF OnlyDictsOf
      <3> QED
        BY <1>0, <1>9, <3>1, <3>2, SessionUntouched DEF SameShell, SamePipe
    <2> QED
      BY <1>2, <1>3, <2>1, <2>2 DEF SessionsOK
  <1>4. CASE DockerRun(r)
    <2>1. /\ pc'[r] = "opening" /\ active_containers'[x] = r
          /\ processes'[x] = processes[x] /\ queues'[x] = queues[x]
          /\ pc[r] = "starting"
      BY <1>0, <1>1, <1>4 DEF DockerRun, Goto
    <2>2. /\ active_containers[x] = None /\ processes[x] = None /\ queues[x] = None
          /\ session[r] = Unused /\ r \notin abandoned
      BY <1>1, <2>1 DEF DictsOfCall, Whole, SessionOK
    <2>3. DictsOfCall(r, x)' /\ Active(r)'
      BY <2>1, <2>2 DEF DictsOfCall, Active
    <2>4. session' = [session EXCEPT ![r].running = TRUE]
      BY <1>4 DEF DockerRun
    <2>5. /\ session'[r].running /\ ~session'[r].alive /\ ~session'[r].up
          /\ ~session'[r].stopped /\ session'[r].input = << >> /\ session'[r].output = << >>
          /\ \A s \in Runs \ {r} : session'[s] = session[s]
      BY <1>0, <2>1, <2>2, <2>4 DEF Unused, Session
    <2>6. SessionOK(r)'
      BY <1>1, <1>9, <2>1, <2>2, <2>5 DEF SessionOK
    <2> QED
      BY <1>3, <2>1, <2>2, <2>3, <2>5, <2>6
  <1>5. CASE DockerRunFails(r)
    <2>1. /\ pc'[r] = "raised" /\ pc[r] = "starting"
          /\ UNCHANGED <<session, active_containers, processes, queues>>
      BY <1>0, <1>5 DEF DockerRunFails, Raise, Goto, dicts
    <2>2. DictsOfCall(r, x)' /\ Whole(x)'
      BY <1>1, <2>1 DEF DictsOfCall, Whole
    <2>3. SessionOK(r)'
      BY <1>0, <1>1, <1>9, <2>1 DEF SessionOK, May
    <2> QED
      BY <1>3, <2>1, <2>2, <2>3
  <1>6. CASE OpenShell(r)
    <2>1. /\ pc'[r] = "wiring" /\ processes'[x] = r /\ pc[r] = "opening"
          /\ active_containers'[x] = active_containers[x] /\ queues'[x] = queues[x]
      BY <1>0, <1>6 DEF OpenShell, Goto
    <2>2. /\ active_containers[x] = r /\ processes[x] = None /\ queues[x] = None
          /\ session[r].running /\ ~session[r].stopped /\ r \notin abandoned
      BY <1>1, <2>1 DEF DictsOfCall, SessionOK
    <2>3. DictsOfCall(r, x)' /\ Active(r)'
      BY <2>1, <2>2 DEF DictsOfCall, Active
    <2>4. session' = [session EXCEPT ![r].alive = session[r].running,
                                     ![r].up = session[r].running]
      BY <1>6 DEF OpenShell
    <2>5. /\ session'[r].running /\ session'[r].alive /\ session'[r].up
          /\ ~session'[r].stopped /\ \A s \in Runs \ {r} : session'[s] = session[s]
      BY <1>0, <2>2, <2>4 DEF Session
    <2>6. SessionOK(r)'
      BY <1>9, <2>1, <2>2, <2>5 DEF SessionOK
    <2> QED
      BY <1>3, <2>1, <2>2, <2>3, <2>5, <2>6
  <1>7. CASE OpenShellFails(r)
    <2>1. /\ pc'[r] = "raised" /\ pc[r] = "opening" /\ May("popen")
          /\ UNCHANGED <<session, active_containers, processes, queues>>
      BY <1>0, <1>7 DEF OpenShellFails, Raise, Goto, dicts
    <2>2. DictsOfCall(r, x)' /\ Broken(x)'
      BY <1>0, <1>1, <2>1 DEF DictsOfCall, Broken, May
    <2>3. SessionOK(r)'
      BY <1>0, <1>1, <1>9, <2>1 DEF SessionOK, May
    <2> QED
      BY <1>3, <2>1, <2>2, <2>3
  <1>8. CASE StartReaders(r)
    <2>1. /\ pc'[r] = "looking" /\ pc[r] = "wiring" /\ queues'[x] = r
          /\ UNCHANGED <<session, active_containers, processes>>
      BY <1>0, <1>8 DEF StartReaders, Goto
    <2>2. DictsOfCall(r, x)' /\ Active(r)'
      BY <1>1, <2>1 DEF DictsOfCall, Whole, Active
    <2>3. SessionOK(r)'
      BY <1>0, <1>1, <1>9, <2>1 DEF SessionOK, May
    <2> QED
      BY <1>3, <2>1, <2>2, <2>3
  <1> QED
    BY <1>4, <1>5, <1>6, <1>7, <1>8 DEF Start

\* Writing to a shell and reading from it moves lines and nothing else, and
\* only those of the session that the dicts name.
LEMMA ExecuteTouches ==
    ASSUME TypeOK, SessionsOK, NEW r \in Runs, Execute(r)
    PROVE  /\ \A s \in Runs : SameShell(s)
           /\ \A s \in Runs : s # active_containers[ShellOf[r]] => session'[s] = session[s]
           /\ UNCHANGED <<active_containers, processes, queues, workspaces, folder,
                         reported, finished, abandoned>>
  <1>1. session \in [Runs -> Session] /\ DictsOfCall(r, ShellOf[r])
    BY DEF TypeOK, SessionsOK, DictsOK
  <1>2. UNCHANGED <<active_containers, processes, queues, workspaces, folder,
                         reported, finished, abandoned>>
    BY DEF Execute, Look, Poll, Write, WriteFails, ReadLine, ReadExit, ReadNoExit,
       ShellIsGone, TimesOut, dicts
  <1>3. CASE UNCHANGED session
    BY <1>2, <1>3 DEF SameShell
  <1>4. CASE Write(r)
    <2>1. /\ call[r].proc \in Runs /\ call[r].proc = active_containers[ShellOf[r]]
          /\ session' = [session EXCEPT ![call[r].proc].input = @ \o WrappedCommand(r)]
      BY <1>1, <1>4, SessionsInUse DEF Write, DictsOfCall
    <2> QED
      BY <1>1, <1>2, <2>1 DEF SameShell, Session
  <1>5. CASE ReadLine(r) \/ ReadExit(r)
    <2>1. /\ call[r].tap \in Runs /\ call[r].tap = active_containers[ShellOf[r]]
          /\ session' = [session EXCEPT ![call[r].tap].output = Tail(@)]
      BY <1>1, <1>5, SessionsInUse DEF ReadLine, ReadExit, TakeLine, DictsOfCall
    <2> QED
      BY <1>1, <1>2, <2>1 DEF SameShell, Session
  <1> QED
    BY <1>3, <1>4, <1>5 DEF Execute, Look, Poll, WriteFails, ReadNoExit, ShellIsGone, TimesOut

\* A call gets past its look only if the dicts are whole, and then works with
\* the session they name.
LEMMA ExecuteKeepsSessions ==
    ASSUME TypeOK, Solo, SessionsOK, env.sequential, NEW r \in Runs, Execute(r)
    PROVE  SessionsOK'
  <1> DEFINE x == ShellOf[r]
  <1>0. /\ CallStep(r) /\ pc \in [Runs -> States] /\ call \in [Runs -> CallFields] /\ x \in Shells
        /\ env' = env /\ OnlyCall(r)
    BY CallsMoveAlone, SandboxAssumption DEF CallStep, TypeOK, CallFields
  <1>1. /\ DictsOfCall(r, x) /\ \A s \in Runs : SameShell(s)
        /\ \A s \in Runs : s # active_containers[x] => session'[s] = session[s]
        /\ UNCHANGED <<active_containers, processes, queues, abandoned>>
    BY ExecuteTouches DEF SessionsOK, DictsOK
  <1>2. OwnSessions'
    BY <1>0, SessionsStayOwn DEF SessionsOK
  <1>3. DictsOfCall(r, x)' /\ (~Active(r)' => (Whole(x) \/ Broken(x))')
        /\ pc'[r] \notin {"new", "starting", "opening"}
    <2>1. CASE Look(r)
      <3>1. CASE pc'[r] = "raised" /\ call' = call
        BY <1>0, <1>1, <2>1, <3>1 DEF Look, DictsOfCall, Whole, Broken, May
      <3>2. CASE None \notin {processes[x], queues[x]}
        <4>1. Whole(x) /\ active_containers[x] # None
          BY <1>1, <2>1, <3>2 DEF Look, DictsOfCall, Broken
        <4>2. /\ pc'[r] = "polling" /\ call'[r].proc = processes[x]
              /\ call'[r].tap = queues[x]
          BY <1>0, <2>1, <3>2 DEF Look, Goto, CallFields
        <4> QED
          BY <1>1, <4>1, <4>2 DEF DictsOfCall, Whole, Active
      <3> QED
        BY <1>0, <2>1, <3>1, <3>2 DEF Look, Raise, Goto
    <2>2. CASE ~Look(r)
      <3>1. /\ pc[r] \in {"polling", "writing", "reading", "marked"}
            /\ pc'[r] \in {"writing", "reading", "marked", "stopping", "done"}
        BY <1>0, <2>2 DEF Execute, Poll, Write, WriteFails, ReadLine, ReadExit, ReadNoExit,
           ShellIsGone, TimesOut, Goto, Return, FailAndCleanUp
      <3>2. call'[r].proc = call[r].proc /\ call'[r].tap = call[r].tap
        BY <1>0, <2>2 DEF Execute, Poll, Write, WriteFails, ReadLine, ReadExit, ReadNoExit,
           ShellIsGone, TimesOut, Goto, Return, FailAndCleanUp, CallFields
      <3>3. /\ active_containers[x] # None /\ Whole(x)
            /\ call[r].proc = active_containers[x] /\ call[r].tap = active_containers[x]
        BY <1>1, <3>1 DEF DictsOfCall
      <3> QED
        BY <1>1, <3>1, <3>2, <3>3 DEF DictsOfCall, Whole
    <2> QED
      BY <2>1, <2>2
  <1>4. DictsOK'
    BY <1>0, <1>3, DictsOfOthers DEF SessionsOK
  <1>5. ASSUME NEW s \in Runs PROVE SessionOK(s)'
    <2>1. SessionOK(s)
      BY DEF SessionsOK
    <2>2. s = r \/ pc'[s] = pc[s]
      BY <1>0 DEF OnlyCall
    <2>3. pc'[s] \in {"new", "starting", "opening"} => session'[s] = session[s]
      <3>1. CASE Look(r)
        BY <3>1 DEF Look
      <3>2. CASE ~Look(r)
        <4>1. pc[r] \in {"polling", "writing", "reading", "marked"}
          BY <3>2 DEF Execute, Poll, Write, WriteFails, ReadLine, ReadExit, ReadNoExit,
             ShellIsGone, TimesOut
        <4>2. pc[active_containers[x]] \notin {"new", "starting", "opening"}
          BY <4>1, FreshIsApart
        <4> QED
          BY <1>1, <1>3, <2>2, <4>2
      <3> QED
        BY <3>1, <3>2
    <2>4. SameShell(s)
      BY <1>1
    <2> QED
      BY <1>0, <1>1, <1>3, <2>1, <2>2, <2>3, <2>4 DEF SessionOK, SameShell, May
  <1> QED
    BY <1>2, <1>4, <1>5 DEF SessionsOK

\* A cleanup takes the session down that the dicts name, and its own.
LEMMA CleanUpTouches ==
    ASSUME TypeOK, Solo, SessionsOK, NEW r \in Runs, CleanUp(r)
    PROVE  /\ \A s \in Runs : SamePipe(s) /\ session'[s].last = session[s].last
           /\ \A s \in Runs : s # active_containers[ShellOf[r]] => session'[s] = session[s]
           /\ ~Remove(r) => ~session'[active_containers[ShellOf[r]]].up
           /\ \A s \in Runs : /\ session'[s].running => session[s].running
                              /\ session'[s].alive => session[s].alive
                              /\ session'[s].up => session[s].up
  <1> DEFINE a == active_containers[ShellOf[r]]
  <1>1. session \in [Runs -> Session] /\ DictsOfCall(r, ShellOf[r])
    BY DEF TypeOK, SessionsOK, DictsOK
  <1>2. CASE Stop(r)
    <2>1. processes[ShellOf[r]] = a /\ queues[ShellOf[r]] = a /\ a \in Runs
      BY <1>1, <1>2, FreshIsApart DEF Stop, DictsOfCall, Whole
    <2>2. EndClient(r)
      BY <1>2 DEF Stop
    <2>3. ASSUME NEW s \in Runs
          PROVE  /\ SamePipe(s) /\ session'[s].last = session[s].last
                 /\ session'[s].running = session[s].running
                 /\ session'[s].alive = session[s].alive
                 /\ session'[s].up => session[s].up
                 /\ s = a => ~session'[s].up
                 /\ s # a => session'[s] = session[s]
      BY <2>1, <2>2, ClientEnds DEF SamePipe
    <2> QED
      BY <2>1, <2>3
  <1>3. CASE Halt(r)
    <2>1. a \in Runs
      BY <1>3, FreshIsApart DEF Halt
    <2>2. EndContainer(r)
      BY <1>3 DEF Halt
    <2>3. ASSUME NEW s \in Runs
          PROVE  /\ SamePipe(s) /\ session'[s].last = session[s].last
                 /\ session'[s].running => session[s].running
                 /\ session'[s].alive => session[s].alive
                 /\ session'[s].up => session[s].up
                 /\ s = a => ~session'[s].up
                 /\ s # a => session'[s] = session[s]
      BY <2>1, <2>2, ContainerEnds DEF SamePipe
    <2> QED
      BY <2>1, <2>3
  <1>4. CASE HaltFails(r)
    <2>1. a \in Runs /\ ShellOf[a] = ShellOf[r] /\ processes[ShellOf[r]] = None /\ session' = session
      BY <1>1, <1>4, FreshIsApart DEF HaltFails, DictsOfCall
    <2>2. ~session[a].up
      BY <2>1, SandboxAssumption DEF SessionsOK, SessionOK
    <2> QED
      BY <1>4, <2>1, <2>2 DEF SamePipe
  <1>5. CASE Remove(r)
    BY <1>5 DEF Remove, SamePipe
  <1> QED
    BY <1>2, <1>3, <1>4, <1>5 DEF CleanUp

\* A cleanup ends the shell, the container and their entries one by one, and
\* what it leaves is no session.
LEMMA CleanUpKeepsSessions ==
    ASSUME TypeOK, Solo, SessionsOK, env.sequential, NEW r \in Runs, CleanUp(r)
    PROVE  SessionsOK'
  <1> DEFINE x == ShellOf[r]
             a == active_containers[x]
  <1>0. /\ CallStep(r) /\ pc \in [Runs -> States] /\ session \in [Runs -> Session]
        /\ active_containers \in [Shells -> Entry] /\ processes \in [Shells -> Entry]
        /\ queues \in [Shells -> Entry] /\ x \in Shells /\ env' = env /\ OnlyDictsOf(x)
        /\ OnlyCall(r) /\ \A q \in Runs : ShellOf[q] \in Shells
    BY CallsMoveAlone, DictsChangeAlone, SandboxAssumption DEF CallStep, TypeOK
  <1>8. abandoned' = abandoned \/ (HaltFails(r) /\ abandoned' = abandoned \union ({a} \ {None}))
    BY DEF CleanUp, Stop, Halt, HaltFails, Remove
  <1>1. DictsOfCall(r, x) /\ \A s \in Runs : s # None
    BY SandboxAssumption DEF SessionsOK, DictsOK
  <1>2. OwnSessions'
    BY <1>0, SessionsStayOwn DEF SessionsOK
  <1>3. /\ pc'[r] \in {"halting", "removing", "done"}
        /\ \A s \in Runs : s # a => session'[s] = session[s]
    BY <1>0, CleanUpTouches DEF CleanUp, Stop, Halt, HaltFails, Remove, Goto
  <1>4. DictsOfCall(r, x)' /\ (~Active(r)' => Whole(x)')
    <2>1. CASE Stop(r)
      <3>1. /\ pc'[r] = "halting" /\ processes'[x] = None /\ pc[r] = "stopping"
            /\ active_containers' = active_containers /\ call' = call
        BY <1>0, <2>1 DEF Stop, Goto
      <3> QED
        BY <1>1, <3>1 DEF DictsOfCall, Active
    <2>2. CASE Halt(r) \/ HaltFails(r)
      <3>1. /\ pc'[r] = "removing" /\ active_containers'[x] = None /\ pc[r] = "halting"
            /\ processes' = processes
        BY <1>0, <2>2 DEF Halt, HaltFails, Goto
      <3> QED
        BY <1>1, <3>1 DEF DictsOfCall, Active
    <2>3. CASE Remove(r)
      <3>1. /\ pc'[r] = "done" /\ queues'[x] = None /\ pc[r] = "removing"
            /\ processes' = processes /\ active_containers' = active_containers
        BY <1>0, <2>3 DEF Remove, Goto
      <3> QED
        BY <1>1, <3>1 DEF DictsOfCall, Whole
    <2> QED
      BY <2>1, <2>2, <2>3 DEF CleanUp
  <1>5. DictsOK'
    BY <1>0, <1>4, DictsOfOthers DEF SessionsOK
  <1>6. ASSUME NEW s \in Runs, s # a PROVE SessionOK(s)'
    <2>1. SessionOK(s) /\ session'[s] = session[s]
      BY <1>3, <1>6 DEF SessionsOK
    <2>2. pc'[s] = pc[s] \/ pc'[s] \notin {"new", "starting", "opening"}
      BY <1>0, <1>3 DEF OnlyCall
    <2>3. /\ (active_containers'[ShellOf[s]] = s) <=> (active_containers[ShellOf[s]] = s)
          /\ (processes'[ShellOf[s]] = s) <=> (processes[ShellOf[s]] = s)
      <3>1. CASE ShellOf[s] # x
        BY <1>0, <3>1 DEF OnlyDictsOf
      <3>2. CASE ShellOf[s] = x
        <4>1. active_containers'[x] \in {None, a} /\ processes'[x] \in {None, processes[x]}
          BY <1>0 DEF CleanUp, Stop, Halt, HaltFails, Remove
        <4>2. processes[x] \in {None, a}
          BY <1>1 DEF CleanUp, Stop, Halt, HaltFails, Remove, DictsOfCall, Whole
        <4>3. a # s /\ active_containers'[x] # s
          BY <1>1, <1>6, <4>1
        <4> QED
          BY <1>1, <1>6, <3>2, <4>1, <4>2, <4>3
      <3> QED
        BY <3>1, <3>2
    <2>4. (s \in abandoned') <=> (s \in abandoned)
      BY <1>6, <1>8
    <2> QED
      BY <1>0, <2>1, <2>2, <2>3, <2>4, SessionUntouched DEF SameShell, SamePipe
  <1>7. ASSUME NEW s \in Runs, s = a PROVE SessionOK(s)'
    <2>1. SessionOK(s) /\ pc'[s] \notin {"new", "starting", "opening"} /\ ShellOf[s] = x
      <3>1. ~Remove(r)
        BY <1>1, <1>7 DEF Remove, DictsOfCall
      <3>2. pc[r] \in {"stopping", "halting"}
        BY <3>1 DEF CleanUp, Stop, Halt, HaltFails
      <3>3. ShellOf[s] = x /\ pc[s] \notin {"new", "starting", "opening"}
        BY <1>7, <3>2, FreshIsApart
      <3> QED
        BY <1>0, <1>3, <3>3 DEF SessionsOK, OnlyCall
    <2>2. /\ ~session'[s].up /\ processes'[x] = None
          /\ session'[s].running => session[s].running
          /\ session'[s].alive => session[s].alive
      BY <1>0, <1>1, <1>7, CleanUpTouches
         DEF CleanUp, Stop, Halt, HaltFails, Remove, DictsOfCall
    <2>3. /\ session'[s].running => active_containers'[x] = s \/ s \in abandoned'
          /\ active_containers'[x] = s => session'[s].running /\ s \notin abandoned'
          /\ session'[s].alive => session'[s].running
      <3>1. CASE Stop(r)
        <4>1. /\ session'[s].running = session[s].running
              /\ session'[s].alive = session[s].alive
              /\ active_containers' = active_containers /\ abandoned' = abandoned
          BY <1>0, <1>7, <3>1, ClientEnds DEF Stop
        <4> QED
          BY <2>1, <4>1 DEF SessionOK
      <3>2. CASE Halt(r)
        <4>1. ~session'[s].running /\ ~session'[s].alive /\ active_containers'[x] = None
          BY <1>0, <1>7, <3>2, ContainerEnds DEF Halt
        <4> QED
          BY <1>1, <1>7, <4>1
      <3>3. CASE HaltFails(r)
        <4>1. active_containers'[x] = None /\ session' = session /\ s \in abandoned'
          BY <1>0, <1>1, <1>7, <3>3 DEF HaltFails
        <4> QED
          BY <1>1, <1>7, <2>1, <4>1 DEF SessionOK
      <3>4. CASE Remove(r)
        BY <1>1, <1>7, <3>4 DEF Remove, DictsOfCall
      <3> QED
        BY <3>1, <3>2, <3>3, <3>4 DEF CleanUp
    <2> QED
      BY <1>1, <1>7, <2>1, <2>2, <2>3 DEF SessionOK
  <1> QED
    BY <1>2, <1>5, <1>6, <1>7 DEF SessionsOK

\* A shell prints and dies while it is up only, and its session is known.
LEMMA ShellsKeepSessions ==
    ASSUME TypeOK, SessionsOK, NEW s \in Runs, ShellPrints(s) \/ Die(s)
    PROVE  SessionsOK'
  <1>1. /\ UNCHANGED <<env, pc, call, active_containers, processes, queues, abandoned>>
        /\ session \in [Runs -> Session]
    BY DEF ShellPrints, Die, dicts, TypeOK
  <1>2. DictsOK' /\ OwnSessions'
    <2>1. DictsOK /\ OwnSessions
      BY DEF SessionsOK
    <2> QED
      BY <1>1, <2>1 DEF DictsOK, DictsOfCall, Whole, Broken, OwnSessions, May, Active
  <1>3. ASSUME NEW q \in Runs PROVE SessionOK(q)'
    <2>1. SessionOK(q) /\ SessionOK(s)
      BY DEF SessionsOK
    <2>2. CASE q # s
      <3>1. session'[q] = session[q]
        BY <1>1, <2>2 DEF ShellPrints, Die
      <3> QED
        BY <1>1, <2>1, <3>1, SessionUntouched DEF SameShell, SamePipe
    <2>3. CASE q = s /\ ShellPrints(s)
      <3>1. SameShell(s)
        BY <1>1, <2>3 DEF ShellPrints, SameShell, Session
      <3>2. pc[s] \notin {"new", "starting", "opening"}
        BY <2>1, <2>3 DEF ShellPrints, SessionOK, Unused
      <3> QED
        BY <1>1, <2>1, <2>3, <3>1, <3>2 DEF SessionOK, SameShell, May
    <2>4. CASE q = s /\ Die(s)
      <3>1. /\ ~session'[s].alive /\ ~session'[s].up
            /\ session'[s].running = session[s].running
            /\ SamePipe(s) /\ session'[s].stopped = session[s].stopped
        BY <1>1, <2>4 DEF Die, SamePipe, Session
      <3>2. pc[s] \notin {"new", "starting"} /\ May("die")
        BY <2>1, <2>4 DEF Die, SessionOK, Unused
      <3> QED
        BY <1>1, <2>1, <2>4, <3>1, <3>2 DEF SessionOK, SamePipe, May
    <2> QED
      BY <2>2, <2>3, <2>4
  <1> QED
    BY <1>2, <1>3 DEF SessionsOK

-----------------------------------------------------------------------------
(* The pipes.                                                              *)

\* What a session holds are lines, and their kinds and commands are told apart.
LEMMA PendingLines ==
    ASSUME TypeOK, NEW s \in Runs
    PROVE  /\ Pending(s) \in Seq(Line)
           /\ session[s].output = << >> => Pending(s) = session[s].input
  BY SessionFields, ConcatProperties, ConcatEmptySeq DEF Pending

\* A call that has written reads late exit lines at most, then its own lines.
LEMMA WriteIsRead ==
    ASSUME NEW r \in Runs, NEW p \in Seq(Line), LeftOver(p)
    PROVE  Reads(r, p \o WrappedCommand(r))
  <1> DEFINE w == WrappedCommand(r)
             q == p \o w
  <1>1. /\ w \in Seq(Line) /\ Len(w) \in {2, 3} /\ Len(p) \in Nat
        /\ w[Len(w) - 1] = MarkerOf(r) /\ w[Len(w)] = ExitOf(r)
        /\ Len(w) = 3 => w[1] = TextOf(r)
    <2> DEFINE m == MarkerOf(r)
               e == ExitOf(r)
               t == TextOf(r)
    <2>1. /\ r \in Quiet => w = <<m, e>>
          /\ r \notin Quiet => w = <<t, m, e>>
      BY WrappedLines
    <2> HIDE DEF m, e, t, w
    <2>2. /\ Len(<<m, e>>) = 2 /\ <<m, e>>[1] = m /\ <<m, e>>[2] = e
          /\ Len(<<t, m, e>>) = 3
          /\ <<t, m, e>>[1] = t /\ <<t, m, e>>[2] = m /\ <<t, m, e>>[3] = e
      OBVIOUS
    <2>3. w \in Seq(Line) /\ Len(p) \in Nat
      BY WrappedLines, LenProperties DEF w
    <2>4. CASE r \in Quiet
      <3>1. w = <<m, e>> /\ Len(w) - 1 = 1
        BY <2>1, <2>2, <2>4
      <3> QED
        BY <2>2, <2>3, <3>1 DEF m, e
    <2>5. CASE r \notin Quiet
      <3>1. w = <<t, m, e>> /\ Len(w) - 1 = 2
        BY <2>1, <2>2, <2>5
      <3> QED
        BY <2>2, <2>3, <3>1 DEF m, e, t
    <2> QED
      BY <2>4, <2>5
  <1> HIDE DEF w
  <1>2. /\ Len(q) = Len(p) + Len(w)
        /\ \A k \in 1 .. Len(p) + Len(w) : q[k] = IF k <= Len(p) THEN p[k] ELSE w[k - Len(p)]
    BY <1>1, ConcatProperties
  <1> HIDE DEF q
  <1>0. Len(p) \in Nat /\ (Len(w) = 2 \/ Len(w) = 3) /\ Len(q) = Len(p) + Len(w)
    BY <1>1, <1>2
  <1>3. q[Len(q) - 1] = MarkerOf(r) /\ q[Len(q)] = ExitOf(r) /\ Len(q) >= 2
    <2>1. /\ Len(q) - 1 \in 1 .. Len(p) + Len(w) /\ Len(q) - 1 - Len(p) = Len(w) - 1
          /\ ~(Len(q) - 1 <= Len(p))
          /\ Len(q) \in 1 .. Len(p) + Len(w) /\ Len(q) - Len(p) = Len(w) /\ ~(Len(q) <= Len(p))
      <3> DEFINE n == Len(p)
                 m == Len(w)
                 l == Len(q)
      <3>1. n \in Nat /\ (m = 2 \/ m = 3) /\ l = n + m
        BY <1>0
      <3> HIDE DEF n, m, l
      <3>2. /\ l - 1 \in 1 .. n + m /\ l - 1 - n = m - 1 /\ ~(l - 1 <= n)
            /\ l \in 1 .. n + m /\ l - n = m /\ ~(l <= n)
        BY <3>1, SMTT(30)
      <3> QED
        BY <3>2, Zenon DEF n, m, l
    <2>2. q[Len(q) - 1] = w[Len(q) - 1 - Len(p)] /\ q[Len(q)] = w[Len(q) - Len(p)]
      BY <1>2, <2>1
    <2> QED
      BY <1>1, <1>2, <2>1, <2>2
  <1>4. ASSUME NEW k \in 1 .. Len(q) - 2
        PROVE  q[k] = TextOf(r) \/ (May("late") /\ q[k].kind = "exit")
    <2>1. CASE k <= Len(p)
      <3>1. k \in 1 .. Len(p) /\ q[k] = p[k]
        BY <1>1, <1>2, <2>1
      <3> QED
        BY <3>1 DEF LeftOver
    <2>2. CASE k > Len(p)
      <3>1. Len(w) = 3 /\ k - Len(p) = 1 /\ k \in 1 .. Len(p) + Len(w) /\ ~(k <= Len(p))
        <4>1. \A n \in Nat : \A m, l : (m = 2 \/ m = 3) /\ l = n + m =>
                  \A i \in 1 .. l - 2 : i > n =>
                      m = 3 /\ i - n = 1 /\ i \in 1 .. n + m /\ ~(i <= n)
          BY SMTT(30)
        <4> QED
          BY <1>0, <1>4, <2>2, <4>1, Zenon
      <3>2. q[k] = w[k - Len(p)]
        BY <1>2, <3>1
      <3> QED
        BY <1>1, <3>1, <3>2
    <2> QED
      BY <1>1, <2>1, <2>2
  <1> QED
    BY <1>3, <1>4 DEF Reads, q, w

\* A call that reads on hears its own text, or an exit line that was late; its
\* marker is followed by its exit line and nothing else.
LEMMA ReadsOn ==
    ASSUME NEW r \in Runs, NEW p \in Seq(Line), NEW q \in Seq(Line), Reads(r, p),
           Len(q) = Len(p) - 1, \A k \in 1 .. Len(p) - 1 : q[k] = p[k + 1]
    PROVE  /\ p[1] = MarkerOf(r) => q = <<ExitOf(r)>>
           /\ p[1] # MarkerOf(r) => /\ Reads(r, q)
                                    /\ p[1] = TextOf(r) \/ (May("late") /\ p[1].kind = "exit")
  <1>1. Len(p) \in Nat /\ Len(p) >= 2 /\ p[Len(p) - 1] = MarkerOf(r) /\ p[Len(p)] = ExitOf(r)
        /\ \A k \in 1 .. Len(p) - 2 : p[k] = TextOf(r) \/ (May("late") /\ p[k].kind = "exit")
    BY LenProperties DEF Reads
  <1>2. MarkerOf(r).kind = "marker" /\ TextOf(r) # MarkerOf(r)
    BY DEF TextOf, MarkerOf
  <1>3. CASE p[1] = MarkerOf(r)
    <2>1. Len(p) = 2
      <3>1. ~(1 \in 1 .. Len(p) - 2)
        BY <1>1, <1>2, <1>3
      <3> QED
        BY <1>1, <3>1
    <2>2. Len(q) = 1 /\ q[1] = ExitOf(r)
      BY <1>1, <2>1
    <2>3. q = <<q[1]>>
      BY <2>2
    <2> QED
      BY <1>3, <2>2, <2>3
  <1>4. CASE p[1] # MarkerOf(r)
    <2>1. Len(p) > 2 /\ 1 \in 1 .. Len(p) - 2
      BY <1>1, <1>4
    <2>2. q[Len(q) - 1] = MarkerOf(r) /\ q[Len(q)] = ExitOf(r) /\ Len(q) >= 2
      BY <1>1, <2>1
    <2>3. \A k \in 1 .. Len(q) - 2 : q[k] = TextOf(r) \/ (May("late") /\ q[k].kind = "exit")
      BY <1>1, <2>1
    <2> QED
      BY <1>1, <1>4, <2>1, <2>2, <2>3 DEF Reads
  <1> QED
    BY <1>3, <1>4

\* What a step of a call does to the sessions.
LEMMA StepTouches ==
    ASSUME TypeOK, Solo, SessionsOK, NEW c \in Runs, CallStep(c)
    PROVE  /\ \A s \in Runs : ShellOf[s] # ShellOf[c] => session'[s] = session[s]
           /\ \A s \in Runs : session'[s].up => session[s].up \/ (OpenShell(c) /\ s = c)
           /\ \A s \in Runs : session'[s].alive => session[s].alive \/ (OpenShell(c) /\ s = c)
           /\ ~(Write(c) \/ ReadLine(c) \/ ReadExit(c)) => \A s \in Runs : SamePipe(s)
           /\ UNCHANGED <<reported, finished>>
  <1>1. /\ session \in [Runs -> Session] /\ ShellOf[c] \in Shells
        /\ active_containers \in [Shells -> Entry]
    BY SandboxAssumption DEF TypeOK
  <1>2. \A s \in Runs : ShellOf[s] # ShellOf[c] => s # active_containers[ShellOf[c]]
    BY <1>1, SandboxAssumption DEF SessionsOK, OwnSessions
  <1>3. CASE Call(c)
    BY <1>3 DEF Call, SamePipe
  <1>4. CASE Start(c)
    <2>1. CASE DockerRun(c)
      <3>1. session' = [session EXCEPT ![c].running = TRUE]
        BY <2>1 DEF DockerRun
      <3>2. \A s \in Runs : /\ SamePipe(s) /\ session'[s].up = session[s].up
                            /\ session'[s].alive = session[s].alive
                            /\ s # c => session'[s] = session[s]
        BY <1>1, <3>1 DEF SamePipe, Session
      <3> QED
        BY <2>1, <3>2 DEF DockerRun
    <2>2. CASE OpenShell(c)
      <3>1. session' = [session EXCEPT ![c].alive = session[c].running,
                                       ![c].up = session[c].running]
        BY <2>2 DEF OpenShell
      <3>2. \A s \in Runs : SamePipe(s) /\ (s # c => session'[s] = session[s])
        BY <1>1, <3>1 DEF SamePipe, Session
      <3> QED
        BY <2>2, <3>2 DEF OpenShell
    <2> QED
      BY <1>4, <2>1, <2>2 DEF Start, DockerRunFails, OpenShellFails, StartReaders, SamePipe
  <1>5. CASE Execute(c)
    <2>1. ~(Write(c) \/ ReadLine(c) \/ ReadExit(c)) => session' = session
      BY <1>5 DEF Execute, Look, Poll, WriteFails, ReadNoExit, ShellIsGone, TimesOut
    <2> QED
      BY <1>2, <1>5, <2>1, ExecuteTouches DEF SameShell, SamePipe
  <1>6. CASE CleanUp(c)
    <2>1. UNCHANGED <<reported, finished>>
      BY <1>6 DEF CleanUp, Stop, Halt, HaltFails, Remove
    <2> QED
      BY <1>2, <1>6, <2>1, CleanUpTouches
  <1> QED
    BY <1>3, <1>4, <1>5, <1>6 DEF CallStep

\* A shell that is up is the one the dicts name, with all of its session while
\* a call works with it.
LEMMA UpIsNamed ==
    ASSUME TypeOK, SessionsOK, NEW r \in Runs, NEW s \in Runs, session[s].up, ShellOf[s] = ShellOf[r],
           pc[r] \in {"polling", "writing", "reading", "marked", "stopping", "halting", "removing"}
    PROVE  s = active_containers[ShellOf[r]] /\ s = call[r].proc /\ s = call[r].tap
           /\ pc[r] \notin {"halting", "removing"}
  <1>1. DictsOfCall(r, ShellOf[r]) /\ SessionOK(s) /\ s # None
    BY SandboxAssumption DEF SessionsOK, DictsOK
  <1>2. processes[ShellOf[r]] = s
    BY <1>1 DEF SessionOK
  <1> QED
    BY <1>1, <1>2 DEF DictsOfCall, Whole

\* Of the pipes, only that of the call that moves has to be looked at, and those
\* of its executor when no call reads from them.
LEMMA PipesOfOthers ==
    ASSUME TypeOK, Solo, SessionsOK, PipesOK, env.sequential, NEW c \in Runs, CallStep(c),
           PipeOfCall(c)',
           \A s \in Runs : /\ ShellOf[s] = ShellOf[c] /\ session'[s].up
                           /\ pc'[c] \notin {"reading", "marked", "stopping"}
                           => LeftOver(Pending(s))'
    PROVE  PipesOK'
  <1>1. OnlyCall(c) /\ env' = env
    BY CallsMoveAlone
  <1>2. /\ \A s \in Runs : ShellOf[s] # ShellOf[c] => session'[s] = session[s]
        /\ finished' = finished
    BY StepTouches
  <1>3. ASSUME NEW q \in Runs, q # c PROVE PipeOfCall(q)'
    <2>1. pc'[q] = pc[q] /\ call'[q] = call[q]
      BY <1>1, <1>3 DEF OnlyCall
    <2>2. CASE pc[q] \notin {"reading", "marked"}
      BY <2>1, <2>2 DEF PipeOfCall
    <2>3. CASE pc[q] \in {"reading", "marked"}
      <3>1. ShellOf[q] # ShellOf[c]
        BY <1>3, <2>3, Alone DEF Active
      <3>2. call[q].tap = active_containers[ShellOf[q]]
        BY <2>3 DEF SessionsOK, DictsOK, DictsOfCall
      <3>3. PICK t \in Runs : t = call[q].tap /\ ShellOf[t] = ShellOf[q]
        BY <2>3, <3>2, FreshIsApart
      <3>4. session'[t] = session[t] /\ call'[q].tap = t
        BY <1>2, <2>1, <3>1, <3>3
      <3>5. Pending(t)' = Pending(t)
        BY <3>4 DEF Pending
      <3>6. /\ pc[q] = "reading" => Reads(q, Pending(t))
            /\ pc[q] = "marked" => Pending(t) = <<ExitOf(q)>> /\ q \in finished
        BY <3>3 DEF PipesOK, PipeOfCall
      <3>7. Reads(q, Pending(t)) => Reads(q, Pending(t))'
        BY <1>1, <3>5 DEF Reads, May
      <3> QED
        BY <1>2, <2>1, <3>4, <3>5, <3>6, <3>7 DEF PipeOfCall
    <2> QED
      BY <2>2, <2>3
  <1>4. ASSUME NEW s \in Runs, session'[s].up,
               \A r \in Runs : ShellOf[r] = ShellOf[s] =>
                   pc'[r] \notin {"reading", "marked", "stopping"}
        PROVE  LeftOver(Pending(s))'
    <2>1. CASE ShellOf[s] = ShellOf[c]
      BY <1>4, <2>1
    <2>2. CASE ShellOf[s] # ShellOf[c]
      <3>1. session'[s] = session[s]
        BY <1>2, <2>2
      <3>2. \A r \in Runs : ShellOf[r] = ShellOf[s] => pc'[r] = pc[r]
        BY <1>1, <2>2 DEF OnlyCall
      <3>3. LeftOver(Pending(s))
        BY <1>4, <3>1, <3>2 DEF PipesOK
      <3> QED
        BY <1>1, <3>1, <3>3 DEF LeftOver, Pending, May
    <2> QED
      BY <2>1, <2>2
  <1> QED
    BY <1>3, <1>4 DEF PipesOK

\* Nobody else reads from the shell of a call that is not reading.
LEMMA NobodyReads ==
    ASSUME TypeOK, Solo, PipesOK, env.sequential, NEW c \in Runs, CallStep(c),
           pc[c] \notin {"reading", "marked", "stopping"},
           NEW s \in Runs, ShellOf[s] = ShellOf[c], session[s].up
    PROVE  LeftOver(Pending(s))
  <1>1. ASSUME NEW r \in Runs, ShellOf[r] = ShellOf[s]
        PROVE  pc[r] \notin {"reading", "marked", "stopping"}
    <2>1. r # c => ~Active(r)
      BY <1>1, Alone
    <2> QED
      BY <2>1 DEF Active
  <1> QED
    BY <1>1 DEF PipesOK

\* A step that moves no line and does not begin to read.
LEMMA StepsWithoutLines ==
    ASSUME TypeOK, Solo, SessionsOK, PipesOK, env.sequential, NEW c \in Runs, CallStep(c),
           ~(Write(c) \/ ReadLine(c) \/ ReadExit(c)), pc'[c] \notin {"reading", "marked"},
           \/ pc[c] \notin {"reading", "marked", "stopping"}
           \/ pc'[c] = "stopping"
           \/ \A s \in Runs : ShellOf[s] = ShellOf[c] /\ session'[s].up => LeftOver(Pending(s))
    PROVE  PipesOK'
  <1>1. /\ \A s \in Runs : SamePipe(s)
        /\ \A s \in Runs : session'[s].up => session[s].up \/ (OpenShell(c) /\ s = c)
        /\ env' = env
    BY StepTouches, CallsMoveAlone
  <1>2. ASSUME NEW s \in Runs, ShellOf[s] = ShellOf[c], session'[s].up,
               pc'[c] \notin {"reading", "marked", "stopping"}
        PROVE  LeftOver(Pending(s))'
    <2>1. LeftOver(Pending(s))
      <3>1. CASE OpenShell(c) /\ s = c
        <4>1. session[s].input = << >> /\ session[s].output = << >>
          BY <3>1 DEF OpenShell, SessionsOK, SessionOK
        <4>2. Pending(s) = << >>
          BY <4>1, PendingLines
        <4> QED
          BY <4>2 DEF LeftOver
      <3>2. CASE session[s].up /\ pc[c] \notin {"reading", "marked", "stopping"}
        BY <1>2, <3>2, NobodyReads
      <3>3. CASE pc[c] \in {"reading", "marked", "stopping"}
        BY <1>2, <3>3
      <3> QED
        BY <1>1, <1>2, <3>1, <3>2, <3>3
    <2>2. SamePipe(s)
      BY <1>1
    <2> QED
      BY <1>1, <2>1, <2>2 DEF LeftOver, Pending, SamePipe, May
  <1>3. PipeOfCall(c)'
    BY DEF PipeOfCall
  <1> QED
    BY <1>2, <1>3, PipesOfOthers

\* A call begins to read after it has written.
LEMMA WriteKeepsPipes ==
    ASSUME TypeOK, Solo, SessionsOK, PipesOK, env.sequential, NEW c \in Runs, Write(c)
    PROVE  PipesOK'
  <1> DEFINE t == call[c].tap
  <1>1. /\ CallStep(c) /\ pc'[c] = "reading" /\ call' = call /\ env' = env
        /\ pc[c] = "writing" /\ Proc(c).up /\ session \in [Runs -> Session]
        /\ session' = [session EXCEPT ![call[c].proc].input = @ \o WrappedCommand(c)]
    BY DEF CallStep, Execute, Write, Goto, TypeOK
  <1>2. /\ t = call[c].proc /\ t = active_containers[ShellOf[c]]
    BY <1>1 DEF SessionsOK, DictsOK, DictsOfCall
  <1>3. t \in Runs /\ ShellOf[t] = ShellOf[c]
    BY <1>1, <1>2, FreshIsApart
  <1>4. LeftOver(Pending(t)) /\ Pending(t) \in Seq(Line)
    BY <1>1, <1>2, <1>3, NobodyReads, PendingLines DEF Proc
  <1>5. /\ session'[t].output = session[t].output
        /\ session'[t].input = session[t].input \o WrappedCommand(c)
    BY <1>1, <1>2, <1>3 DEF Session
  <1>6. session'[t].output \o session'[t].input = Pending(t) \o WrappedCommand(c)
    <2> DEFINE o == session[t].output
               i == session[t].input
               w == WrappedCommand(c)
    <2>1. o \in Seq(Line) /\ i \in Seq(Line) /\ w \in Seq(Line)
      BY <1>3, SessionFields, WrappedLines
    <2>2. session'[t].output \o session'[t].input = o \o (i \o w) /\ Pending(t) = o \o i
      BY <1>5 DEF Pending
    <2> HIDE DEF o, i, w
    <2>3. (o \o i) \o w = o \o (i \o w)
      BY <2>1, ConcatAssociative
    <2> QED
      BY <2>2, <2>3 DEF w
  <1>7. Reads(c, Pending(t) \o WrappedCommand(c))
    BY <1>4, WriteIsRead
  <1>8. PipeOfCall(c)'
    <2>1. call'[c].tap = t
      BY <1>1
    <2> QED
      BY <1>1, <1>6, <1>7, <2>1 DEF PipeOfCall, Pending, Reads, May
  <1> QED
    BY <1>1, <1>8, PipesOfOthers

\* Taking a line leaves the rest of the pipe, and that line was its first.
LEMMA LineIsTaken ==
    ASSUME TypeOK, NEW c \in Runs, pc[c] \in {"reading", "marked"}, TakeLine(c)
    PROVE  LET t == call[c].tap
               p == Pending(t)
               q == session'[t].output \o session'[t].input
           IN  /\ t \in Runs /\ Head(Queue(c)) = p[1] /\ p \in Seq(Line) /\ q \in Seq(Line)
               /\ Len(p) \in Nat \ {0} /\ Len(q) = Len(p) - 1
               /\ \A k \in 1 .. Len(p) - 1 : q[k] = p[k + 1]
               /\ Head(Queue(c)) = session[t].output[1] /\ 1 \in 1 .. Len(session[t].output)
               /\ session'[t].up = session[t].up
               /\ \A s \in Runs \ {t} : session'[s] = session[s]
  <1> DEFINE t == call[c].tap
             p == Pending(t)
             q == session'[t].output \o session'[t].input
  <1>1. /\ t \in Runs /\ session \in [Runs -> Session] /\ session[t].output # << >>
        /\ session' = [session EXCEPT ![t].output = Tail(@)]
    BY SessionsInUse DEF TypeOK, TakeLine, Queue
  <1>2. session[t].output \in Seq(Line) /\ session[t].input \in Seq(Line)
    BY <1>1, SessionFields
  <1>3. /\ session'[t].output = Tail(session[t].output) /\ session'[t].input = session[t].input
        /\ session'[t].up = session[t].up /\ \A s \in Runs \ {t} : session'[s] = session[s]
    BY <1>1 DEF Session
  <1>4. /\ Head(session[t].output) = p[1] /\ Len(p) \in Nat \ {0} /\ q \in Seq(Line)
        /\ Len(q) = Len(p) - 1 /\ \A k \in 1 .. Len(p) - 1 : q[k] = p[k + 1]
    <2> DEFINE o == session[t].output
               i == session[t].input
    <2>1. o \in Seq(Line) /\ i \in Seq(Line) /\ o # << >>
      BY <1>1, <1>2
    <2>2. p = o \o i /\ q = Tail(o) \o i
      BY <1>3 DEF Pending
    <2> HIDE DEF o, i, p, q
    <2>3. /\ Head(o) = (o \o i)[1] /\ Len(o \o i) \in Nat \ {0}
          /\ Tail(o) \o i \in Seq(Line) /\ Len(Tail(o) \o i) = Len(o \o i) - 1
          /\ \A k \in 1 .. Len(o \o i) - 1 : (Tail(o) \o i)[k] = (o \o i)[k + 1]
      BY <2>1, TakeFirst
    <2> QED
      BY <2>2, <2>3 DEF o
  <1>5. Head(session[t].output) = session[t].output[1] /\ 1 \in 1 .. Len(session[t].output)
    BY <1>1, <1>2, HeadTailProperties, EmptySeq, LenProperties
  <1>6. p \in Seq(Line)
    BY <1>1, PendingLines
  <1> QED
    BY <1>1, <1>3, <1>4, <1>5, <1>6 DEF Queue

\* A call reads up to its marker, which its exit line follows.
LEMMA ReadLineKeepsPipes ==
    ASSUME TypeOK, Solo, SessionsOK, PipesOK, PrintedIsFinished, env.sequential,
           NEW c \in Runs, ReadLine(c)
    PROVE  /\ PipesOK'
           /\ Head(Queue(c)) # MarkerOf(c) =>
                 Head(Queue(c)) = TextOf(c) \/ (May("late") /\ Head(Queue(c)).kind = "exit")
  <1> DEFINE t == call[c].tap
             p == Pending(t)
             q == session'[t].output \o session'[t].input
             line == Head(Queue(c))
  <1>1. /\ CallStep(c) /\ pc[c] = "reading" /\ TakeLine(c) /\ env' = env /\ finished' = finished
        /\ pc \in [Runs -> States] /\ call \in [Runs -> CallFields]
    BY DEF CallStep, Execute, ReadLine, TypeOK, CallFields
  <1>2. /\ t \in Runs /\ line = p[1] /\ p \in Seq(Line) /\ q \in Seq(Line)
        /\ Len(q) = Len(p) - 1 /\ \A k \in 1 .. Len(p) - 1 : q[k] = p[k + 1]
        /\ line = session[t].output[1] /\ 1 \in 1 .. Len(session[t].output)
    BY <1>1, LineIsTaken
  <1>3. Reads(c, p)
    BY <1>1 DEF PipesOK, PipeOfCall
  <1> HIDE DEF p, q
  <1>4. /\ line = MarkerOf(c) => q = <<ExitOf(c)>>
        /\ line # MarkerOf(c) => /\ Reads(c, q)
                                 /\ line = TextOf(c) \/ (May("late") /\ line.kind = "exit")
    BY <1>2, <1>3, ReadsOn
  <1>5. /\ line = MarkerOf(c) => pc'[c] = "marked"
        /\ line # MarkerOf(c) => pc'[c] = "reading"
        /\ call'[c].tap = t
    <2>1. MarkerOf(c) = [run |-> c, kind |-> "marker"]
      BY DEF MarkerOf
    <2> HIDE DEF line
    <2>2. \/ line = MarkerOf(c) /\ Goto(c, "marked") /\ call' = call
          \/ /\ line # MarkerOf(c) /\ pc' = pc
             /\ call' = [call EXCEPT ![c].heard = @ \union {line.run}]
      BY <2>1 DEF ReadLine, line
    <2>3. call'[c].tap = call[c].tap
      BY <1>1, <2>2 DEF CallFields
    <2>4. CASE line = MarkerOf(c)
      <3>1. pc' = [pc EXCEPT ![c] = "marked"]
        BY <2>2, <2>4 DEF Goto
      <3> QED
        BY <1>1, <2>3, <2>4, <3>1
    <2>5. CASE line # MarkerOf(c)
      <3>1. pc' = pc
        BY <2>2, <2>5
      <3> QED
        BY <1>1, <2>3, <2>5, <3>1
    <2> QED
      BY <2>4, <2>5
  <1>6. line = MarkerOf(c) => c \in finished
    BY <1>2 DEF PrintedIsFinished, MarkerOf
  <1>7. PipeOfCall(c)'
    <2> HIDE DEF line
    <2>2. CASE line = MarkerOf(c)
      BY <1>1, <1>4, <1>5, <1>6, <2>2 DEF PipeOfCall, Pending, ExitOf, q
    <2>3. CASE line # MarkerOf(c)
      BY <1>1, <1>4, <1>5, <2>3 DEF PipeOfCall, Pending, Reads, May, q
    <2> QED
      BY <2>2, <2>3
  <1> QED
    BY <1>1, <1>4, <1>5, <1>7, PipesOfOthers

\* The exit line that follows the marker is the call's own and the last line.
LEMMA ReadExitKeepsPipes ==
    ASSUME TypeOK, Solo, SessionsOK, PipesOK, env.sequential, NEW c \in Runs, ReadExit(c)
    PROVE  PipesOK' /\ Head(Queue(c)) = ExitOf(c) /\ c \in finished
  <1> DEFINE t == call[c].tap
             p == Pending(t)
             q == session'[t].output \o session'[t].input
  <1>1. /\ CallStep(c) /\ pc[c] = "marked" /\ TakeLine(c) /\ pc'[c] = "done"
    BY DEF CallStep, Execute, ReadExit, Return, Goto, TypeOK
  <1>2. /\ t \in Runs /\ Head(Queue(c)) = p[1] /\ q \in Seq(Line) /\ Len(q) = Len(p) - 1
        /\ session'[t].up = session[t].up
        /\ \A s \in Runs \ {t} : session'[s] = session[s]
    BY <1>1, LineIsTaken
  <1>3. p = <<ExitOf(c)>> /\ c \in finished
    BY <1>1 DEF PipesOK, PipeOfCall
  <1> HIDE DEF p, q
  <1>4. Len(q) = 0 /\ Head(Queue(c)) = ExitOf(c)
    BY <1>2, <1>3
  <1>5. ASSUME NEW s \in Runs, ShellOf[s] = ShellOf[c], session'[s].up PROVE LeftOver(Pending(s))'
    <2>1. s = t
      <3>1. session[s].up
        BY <1>2, <1>5
      <3> QED
        BY <1>1, <1>5, <3>1, UpIsNamed
    <2>2. Pending(s)' = q
      BY <2>1 DEF Pending, q
    <2>3. Len(Pending(s)') = 0
      BY <1>4, <2>2
    <2> QED
      BY <2>3 DEF LeftOver
  <1>6. PipeOfCall(c)'
    BY <1>1 DEF PipeOfCall
  <1> QED
    BY <1>1, <1>3, <1>4, <1>5, <1>6, PipesOfOthers

\* A call that ends without its exit code leaves a dead shell, or a late line.
LEMMA ExecuteKeepsPipes ==
    ASSUME TypeOK, Solo, SessionsOK, PipesOK, PrintedIsFinished, env.sequential,
           NEW c \in Runs, Execute(c)
    PROVE  PipesOK'
  <1>0. CallStep(c) /\ pc \in [Runs -> States] /\ session \in [Runs -> Session]
    BY DEF CallStep, TypeOK
  <1>1. CASE Write(c)
    BY <1>1, WriteKeepsPipes
  <1>2. CASE ReadLine(c)
    BY <1>2, ReadLineKeepsPipes
  <1>3. CASE ReadExit(c)
    BY <1>3, ReadExitKeepsPipes
  <1>4. CASE Look(c) \/ Poll(c) \/ WriteFails(c) \/ TimesOut(c)
    <2>1. /\ pc'[c] \notin {"reading", "marked"}
          /\ pc[c] \notin {"reading", "marked", "stopping"} \/ pc'[c] = "stopping"
          /\ ~(Write(c) \/ ReadLine(c) \/ ReadExit(c))
      <3>1. CASE Look(c)
        BY <1>0, <3>1 DEF Look, Goto, Raise, Write, ReadLine, ReadExit
      <3>2. CASE Poll(c)
        BY <1>0, <3>2 DEF Poll, Goto, FailAndCleanUp, Write, ReadLine, ReadExit
      <3>3. CASE WriteFails(c)
        BY <1>0, <3>3 DEF WriteFails, Goto, Return, Write, ReadLine, ReadExit
      <3>4. CASE TimesOut(c)
        BY <1>0, <3>4 DEF TimesOut, Goto, FailAndCleanUp, Write, ReadLine, ReadExit, Return
      <3> QED
        BY <1>4, <3>1, <3>2, <3>3, <3>4
    <2> QED
      BY <1>0, <2>1, StepsWithoutLines
  <1>5. CASE ReadNoExit(c) \/ ShellIsGone(c)
    <2>1. /\ pc'[c] = "done" /\ pc[c] \in {"reading", "marked"} /\ session' = session
          /\ ~(Write(c) \/ ReadLine(c) \/ ReadExit(c))
      BY <1>0, <1>5 DEF ReadNoExit, ShellIsGone, Return, Goto, Write, ReadLine, ReadExit, TakeLine
    <2>2. ASSUME NEW s \in Runs, ShellOf[s] = ShellOf[c], session'[s].up
          PROVE  LeftOver(Pending(s))
      <3>1. session[s].up /\ s = call[c].tap /\ s = call[c].proc
        BY <2>1, <2>2, UpIsNamed
      <3>2. CASE ShellIsGone(c)
        BY <3>1, <3>2 DEF ShellIsGone, Proc
      <3>3. CASE ReadNoExit(c)
        <4>1. Pending(s) = <<ExitOf(c)>> /\ session[s].output = << >>
          BY <3>1, <3>3 DEF ReadNoExit, PipesOK, PipeOfCall, Queue
        <4>2. session[s].input = <<ExitOf(c)>>
          BY <4>1, PendingLines
        <4>3. ExitIsComing(c)
          <5>1. Proc(c).up /\ Proc(c).input = <<ExitOf(c)>>
            BY <3>1, <4>2 DEF Proc
          <5> QED
            BY <5>1 DEF ExitIsComing, ExitOf
        <4>4. May("late")
          BY <3>3, <4>3 DEF ReadNoExit
        <4> QED
          BY <4>1, <4>4 DEF LeftOver, ExitOf
      <3> QED
        BY <1>5, <3>2, <3>3
    <2> QED
      BY <1>0, <2>1, <2>2, StepsWithoutLines
  <1> QED
    BY <1>1, <1>2, <1>3, <1>4, <1>5 DEF Execute

\* After a cleanup no shell of the executor is up.
LEMMA CleanUpKeepsPipes ==
    ASSUME TypeOK, Solo, SessionsOK, PipesOK, env.sequential, NEW c \in Runs, CleanUp(c)
    PROVE  PipesOK'
  <1>1. /\ CallStep(c) /\ pc[c] \in {"stopping", "halting", "removing"}
        /\ pc'[c] \in {"halting", "removing", "done"}
        /\ ~(Write(c) \/ ReadLine(c) \/ ReadExit(c)) /\ ~OpenShell(c)
        /\ Stop(c) \/ pc[c] # "stopping"
    BY DEF CallStep, CleanUp, Stop, Halt, HaltFails, Remove, Goto, TypeOK, Write,
       ReadLine, ReadExit, OpenShell
  <1>2. ASSUME NEW s \in Runs, ShellOf[s] = ShellOf[c], session'[s].up PROVE FALSE
    <2>1. session[s].up
      BY <1>1, <1>2, StepTouches
    <2>2. s = active_containers[ShellOf[c]] /\ pc[c] = "stopping"
      BY <1>1, <1>2, <2>1, UpIsNamed
    <2>3. ~Remove(c)
      BY <2>2 DEF Remove
    <2> QED
      BY <1>2, <2>2, <2>3, CleanUpTouches
  <1> QED
    BY <1>1, <1>2, StepsWithoutLines

\* A shell moves lines along the pipe; one that died prints no more.
LEMMA ShellsKeepPipes ==
    ASSUME TypeOK, SessionsOK, PipesOK, NEW s \in Runs, ShellPrints(s) \/ Die(s)
    PROVE  PipesOK'
  <1>1. /\ UNCHANGED <<env, pc, call>> /\ session \in [Runs -> Session] /\ finished \subseteq finished'
    BY DEF ShellPrints, Die, TypeOK
  <1>5. \A q \in Runs : session'[q].up => session[q].up
    <2>1. CASE ShellPrints(s)
      <3>1. PICK i, o, l : session' = [session EXCEPT ![s].input = i, ![s].output = o,
                                                      ![s].last = l]
        BY <2>1 DEF ShellPrints
      <3> QED
        BY <1>1, <3>1 DEF Session
    <2>2. CASE Die(s)
      BY <1>1, <2>2 DEF Die, Session
    <2> QED
      BY <2>1, <2>2
  <1>2. ASSUME NEW q \in Runs, session[q].alive => session[q].up
        PROVE  Pending(q)' = Pending(q)
    <2>1. CASE q # s \/ Die(s)
      <3>1. session'[q].output = session[q].output /\ session'[q].input = session[q].input
        BY <1>1, <2>1 DEF ShellPrints, Die, Session
      <3> QED
        BY <3>1 DEF Pending
    <2>2. CASE q = s /\ ShellPrints(s)
      <3> DEFINE o == session[s].output
                 i == session[s].input
      <3>1. session[s].up /\ ~session[s].stopped
        BY <1>2, <2>2 DEF ShellPrints, SessionsOK, SessionOK
      <3>2. PICK code : session' = [session EXCEPT ![s].input = Tail(i),
                                                   ![s].output = Append(o, Head(i)),
                                                   ![s].last = code]
        BY <2>2, <3>1 DEF ShellPrints
      <3>3. session'[s].output = Append(o, Head(i)) /\ session'[s].input = Tail(i)
        BY <1>1, <3>2 DEF Session
      <3>4. o \in Seq(Line) /\ i \in Seq(Line) /\ i # << >>
        BY <2>2, SessionFields DEF ShellPrints
      <3>5. Pending(s) = o \o i /\ Pending(s)' = Append(o, Head(i)) \o Tail(i)
        BY <3>3 DEF Pending
      <3> HIDE DEF o, i
      <3> QED
        BY <2>2, <3>3, <3>4, <3>5, PassOn
    <2> QED
      BY <2>1, <2>2
  <1>3. ASSUME NEW r \in Runs PROVE PipeOfCall(r)'
    <2>1. PipeOfCall(r) /\ call'[r].tap = call[r].tap
      BY <1>1 DEF PipesOK
    <2>2. pc[r] \in {"reading", "marked"} => Pending(call[r].tap)' = Pending(call[r].tap)
      <3> SUFFICES ASSUME pc[r] \in {"reading", "marked"}
                   PROVE  Pending(call[r].tap)' = Pending(call[r].tap)
        OBVIOUS
      <3>1. call[r].tap \in Runs /\ call[r].tap = active_containers[ShellOf[r]]
            /\ call[r].tap = processes[ShellOf[r]]
        BY SessionsInUse DEF SessionsOK, DictsOK, DictsOfCall, Whole
      <3>2. PICK q \in Runs : q = call[r].tap /\ ShellOf[q] = ShellOf[r]
        BY <3>1, SandboxAssumption DEF SessionsOK, OwnSessions
      <3>3. session[q].alive => session[q].up
        BY <3>1, <3>2 DEF SessionsOK, SessionOK
      <3> QED
        BY <1>1, <1>2, <3>2, <3>3
    <2> QED
      BY <1>1, <2>1, <2>2 DEF PipeOfCall, Reads, May
  <1>4. ASSUME NEW q \in Runs, session[q].up, LeftOver(Pending(q)) PROVE LeftOver(Pending(q))'
    <2>1. Pending(q)' = Pending(q)
      BY <1>2, <1>4
    <2> QED
      BY <1>1, <1>4, <2>1 DEF LeftOver, May
  <1> QED
    BY <1>1, <1>3, <1>4, <1>5 DEF PipesOK

-----------------------------------------------------------------------------
(* The lines and the calls they belong to.                                 *)

\* Where a call that talks to a shell gets to, and with which code.
LEMMA ExecuteEnds ==
    ASSUME TypeOK, NEW c \in Runs, Execute(c)
    PROVE  /\ pc[c] \in {"looking", "polling", "writing", "reading", "marked"}
           /\ pc[c] # "looking" => call'[c].proc = call[c].proc /\ ~Look(c)
           /\ \/ /\ pc'[c] \in {"polling", "writing", "reading", "marked"}
                 /\ call'[c].code = call[c].code
              \/ pc'[c] = "raised" /\ Look(c) /\ call'[c].code = call[c].code
              \/ pc'[c] = "stopping" /\ call'[c].code = -1
              \/ /\ pc'[c] = "done"
                 /\ WriteFails(c) \/ ReadExit(c) \/ ReadNoExit(c) \/ ShellIsGone(c)
           /\ pc[c] \in {"reading", "marked"} => pc'[c] \notin {"polling", "writing"}
  <1>1. pc \in [Runs -> States] /\ call \in [Runs -> CallFields]
    BY DEF TypeOK, CallFields
  <1>2. CASE Look(c)
    BY <1>1, <1>2 DEF Look, Goto, Raise, CallFields
  <1>3. CASE Poll(c)
    BY <1>1, <1>3 DEF Poll, Goto, FailAndCleanUp, CallFields, Look
  <1>4. CASE Write(c) \/ WriteFails(c)
    BY <1>1, <1>4 DEF Write, WriteFails, Goto, Return, CallFields, Look
  <1>5. CASE ReadLine(c)
    <2>1. \/ pc' = [pc EXCEPT ![c] = "marked"] /\ call' = call
          \/ pc' = pc /\ call' = [call EXCEPT ![c].heard = @ \union {Head(Queue(c)).run}]
      BY <1>5 DEF ReadLine, Goto
    <2>2. pc[c] = "reading" /\ ~Look(c)
      BY <1>5 DEF ReadLine, Look
    <2> QED
      BY <1>1, <2>1, <2>2 DEF CallFields
  <1>6. CASE ReadExit(c) \/ ReadNoExit(c) \/ ShellIsGone(c)
    BY <1>1, <1>6 DEF ReadExit, ReadNoExit, ShellIsGone, Goto, Return, CallFields, Look
  <1>7. CASE TimesOut(c)
    BY <1>1, <1>7 DEF TimesOut, Goto, FailAndCleanUp, CallFields, Look
  <1> QED
    BY <1>2, <1>3, <1>4, <1>5, <1>6, <1>7 DEF Execute

\* Only a cleanup has a call that was given up.
LEMMA CodesStayOK ==
    ASSUME TypeOK, CodesOK, NEW c \in Runs, CallStep(c)
    PROVE  CodesOK'
  <1>1. OnlyCall(c) /\ pc \in [Runs -> States] /\ call \in [Runs -> CallFields]
    BY CallsMoveAlone DEF TypeOK, CallFields
  <1>2. /\ call'[c].code = -1 => pc'[c] \in {"stopping", "halting", "removing", "done"}
        /\ pc'[c] \in {"stopping", "halting", "removing"} => call'[c].code = -1
    <2>1. CASE Call(c) \/ Start(c)
      <3>1. /\ pc'[c] \notin {"stopping", "halting", "removing"} /\ call' = call
            /\ pc[c] \notin {"stopping", "halting", "removing", "done"}
        BY <1>1, <2>1 DEF Call, Start, DockerRun, DockerRunFails, OpenShell, OpenShellFails,
           StartReaders, Goto, Raise
      <3> QED
        BY <3>1 DEF CodesOK
    <2>2. CASE Execute(c)
      BY <2>2, ExecuteEnds DEF CodesOK
    <2>3. CASE CleanUp(c)
      <3>1. /\ pc'[c] \in {"halting", "removing", "done"} /\ call' = call
            /\ pc[c] \in {"stopping", "halting", "removing"}
        BY <1>1, <2>3 DEF CleanUp, Stop, Halt, HaltFails, Remove, Goto
      <3> QED
        BY <3>1 DEF CodesOK
    <2> QED
      BY <2>1, <2>2, <2>3 DEF CallStep
  <1> QED
    BY <1>1, <1>2 DEF CodesOK, OnlyCall

\* A step of a call adds no lines but its own, to the pipe it writes to.
LEMMA LinesAdded ==
    ASSUME TypeOK, Solo, SessionsOK, NEW c \in Runs, CallStep(c), NEW s \in Runs,
           NEW k \in 1 .. Len(session'[s].input)
    PROVE  \/ /\ k \in 1 .. Len(session[s].input)
              /\ session'[s].input[k] = session[s].input[k]
           \/ Write(c) /\ s = call[c].proc /\ session'[s].input[k].run = c
  <1>1. session \in [Runs -> Session] /\ session[s].input \in Seq(Line)
    BY SessionFields DEF TypeOK
  <1>2. CASE Write(c)
    <2>1. session' = [session EXCEPT ![call[c].proc].input = @ \o WrappedCommand(c)]
      BY <1>2 DEF Write
    <2>2. CASE s # call[c].proc
      <3>1. session'[s].input = session[s].input
        BY <1>1, <2>1, <2>2
      <3> QED
        BY <3>1
    <2>3. CASE s = call[c].proc
      <3> DEFINE i == session[s].input
                 w == WrappedCommand(c)
      <3>1. session'[s].input = i \o w
        BY <1>1, <2>1, <2>3 DEF Session
      <3>2. w \in Seq(Line) /\ \A j \in 1 .. Len(w) : w[j].run = c
        <4> DEFINE m == MarkerOf(c)
                   e == ExitOf(c)
                   t == TextOf(c)
        <4>1. t.run = c /\ m.run = c /\ e.run = c
          BY DEF TextOf, MarkerOf, ExitOf
        <4>2. w \in Seq(Line) /\ (w = <<m, e>> \/ w = <<t, m, e>>)
          BY WrappedLines
        <4> HIDE DEF t, m, e, w
        <4>3. CASE w = <<m, e>>
          <5>1. Len(w) = 2 /\ w[1] = m /\ w[2] = e
            BY <4>3
          <5> QED
            BY <4>1, <4>2, <5>1
        <4>4. CASE w = <<t, m, e>>
          <5>1. Len(w) = 3 /\ w[1] = t /\ w[2] = m /\ w[3] = e
            BY <4>4
          <5> QED
            BY <4>1, <4>2, <5>1
        <4> QED
          BY <4>2, <4>3, <4>4
      <3> HIDE DEF i, w
      <3>3. i \in Seq(Line) /\ Len(i) \in Nat /\ Len(w) \in Nat
        BY <1>1, <3>2, LenProperties DEF i
      <3>4. /\ Len(i \o w) = Len(i) + Len(w)
            /\ \A j \in 1 .. Len(i) + Len(w) :
                  (i \o w)[j] = IF j <= Len(i) THEN i[j] ELSE w[j - Len(i)]
        BY <3>2, <3>3, ConcatProperties
      <3>5. k \in 1 .. Len(i) + Len(w)
        BY <3>1, <3>4
      <3>6. CASE k <= Len(i)
        BY <3>1, <3>3, <3>4, <3>5, <3>6 DEF i
      <3>7. CASE ~(k <= Len(i))
        <4>1. k - Len(i) \in 1 .. Len(w)
          BY <3>3, <3>5, <3>7
        <4>2. session'[s].input[k] = w[k - Len(i)]
          BY <3>1, <3>4, <3>5, <3>7
        <4> QED
          BY <1>2, <2>3, <3>2, <4>1, <4>2
      <3> QED
        BY <3>6, <3>7
    <2> QED
      BY <2>2, <2>3
  <1>3. CASE ~Write(c)
    <2>1. session'[s].input = session[s].input
      <3>1. CASE ReadLine(c) \/ ReadExit(c)
        <4>1. session' = [session EXCEPT ![call[c].tap].output = Tail(@)]
          BY <3>1 DEF ReadLine, ReadExit, TakeLine
        <4> QED
          BY <1>1, <4>1 DEF Session
      <3>2. CASE ~(ReadLine(c) \/ ReadExit(c))
        BY <1>3, <3>2, StepTouches DEF SamePipe
      <3> QED
        BY <3>1, <3>2
    <2> QED
      BY <2>1
  <1> QED
    BY <1>2, <1>3

\* A call that heard its marker or gave the reading up returns no -1.
LEMMA ReadingReturns ==
    ASSUME TypeOK, NEW c \in Runs, Execute(c), pc[c] \in {"reading", "marked"}, pc'[c] = "done"
    PROVE  call'[c].code # -1
  <1>1. call \in [Runs -> CallFields]
    BY DEF TypeOK, CallFields
  <1>2. CASE ReadNoExit(c) \/ ShellIsGone(c)
    BY <1>1, <1>2 DEF ReadNoExit, ShellIsGone, Return, CallFields
  <1>3. CASE ReadExit(c)
    <2> DEFINE line == Head(Queue(c))
    <2>1. call[c].tap \in Runs /\ Queue(c) # << >>
      BY <1>3, SessionsInUse DEF ReadExit, TakeLine
    <2>2. line \in Line
      BY <1>3, <2>1, SessionFields, HeadTailProperties DEF Queue
    <2>3. CodeIn(line) # -1
      BY <2>2 DEF CodeIn, NoCode
    <2>4. call'[c].code = CodeIn(line)
      BY <1>1, <1>3 DEF ReadExit, Return, CallFields
    <2> HIDE DEF line
    <2> QED
      BY <2>3, <2>4
  <1> QED
    BY <1>2, <1>3, ExecuteEnds DEF WriteFails

\* A call that is given up has its shell taken down with its container before it
\* returns, or the container is abandoned.
LEMMA LinesStayOwn ==
    ASSUME TypeOK, Solo, SessionsOK, LinesAreOwn, NEW c \in Runs, CallStep(c)
    PROVE  LinesAreOwn'
  <1> DEFINE Ends(s, r) == /\ session[s].alive /\ s \notin abandoned
                            /\ pc[r] \in {"removing", "done"}
                            => pc[r] = "done" /\ call[r].code # -1
             Where(s, r) == /\ pc[r] \in {"reading", "marked", "stopping", "halting", "removing", "done"}
                            /\ call[r].proc = s
  <1>1. ASSUME NEW s \in Runs, NEW r \in Runs, NEW k \in 1 .. Len(session'[s].input),
               session'[s].input[k].run = r
        PROVE  Where(s, r)' /\ Ends(s, r)'
    <2>1. CASE Write(c) /\ s = call[c].proc /\ r = c
      <3>1. pc'[c] = "reading" /\ call' = call
        BY <2>1 DEF Write, Goto, TypeOK
      <3> QED
        BY <2>1, <3>1
    <2>2. CASE k \in 1 .. Len(session[s].input) /\ session'[s].input[k] = session[s].input[k]
      <3>1. Where(s, r) /\ Ends(s, r)
        BY <1>1, <2>2 DEF LinesAreOwn
      <3>0. abandoned \subseteq abandoned'
        BY DEF CallStep, Call, Start, DockerRun, DockerRunFails, OpenShell, OpenShellFails,
           StartReaders, Execute, Look, Poll, Write, WriteFails, ReadLine, ReadExit, ReadNoExit,
           ShellIsGone, TimesOut, CleanUp, Stop, Halt, HaltFails, Remove
      <3>2. session'[s].alive => session[s].alive
        <4>1. OpenShell(c) /\ s = c => session[s].input = << >>
          BY DEF OpenShell, SessionsOK, SessionOK
        <4>2. session[s].input # << >>
          BY <2>2
        <4> QED
          BY <4>1, <4>2, StepTouches
      <3>3. CASE r # c
        <4>1. pc'[r] = pc[r] /\ call'[r] = call[r]
          BY <3>3, CallsMoveAlone DEF OnlyCall
        <4> QED
          BY <3>0, <3>1, <3>2, <4>1
      <3>4. CASE r = c /\ Execute(c)
        <4>1. pc[c] \in {"reading", "marked"}
          BY <3>1, <3>4, ExecuteEnds
        <4>2. /\ pc'[c] \in {"reading", "marked", "stopping", "done"}
              /\ call'[c].proc = call[c].proc
          BY <3>4, <4>1, ExecuteEnds
        <4>3. pc'[c] = "done" => call'[c].code # -1
          BY <3>4, <4>1, ReadingReturns
        <4> QED
          BY <3>1, <3>4, <4>2, <4>3
      <3>5. CASE r = c /\ CleanUp(c)
        <4>1. /\ pc[c] \in {"stopping", "halting", "removing"} /\ call' = call
              /\ pc'[c] \in {"halting", "removing", "done"}
          BY <3>5 DEF CleanUp, Stop, Halt, HaltFails, Remove, Goto, TypeOK
        <4>2. CASE Stop(c)
          <5>1. pc'[c] = "halting"
            BY <4>2 DEF Stop, Goto, TypeOK
          <5> QED
            BY <3>1, <3>5, <4>1, <5>1
        <4>3. CASE Halt(c) \/ HaltFails(c)
          <5>1. s = active_containers[ShellOf[c]] /\ s # None
            BY <3>1, <3>5, <4>3, SandboxAssumption
               DEF Halt, HaltFails, SessionsOK, DictsOK, DictsOfCall
          <5>2. Halt(c) => ~session'[s].alive
            <6>1. session[s] \in Session
              BY DEF TypeOK
            <6>2. Halt(c) => session'[s] = [session[s] EXCEPT
                      !.running = session[s].running /\ s # active_containers[ShellOf[c]],
                      !.alive = session[s].alive /\ s # active_containers[ShellOf[c]],
                      !.up = session[s].up /\ s # active_containers[ShellOf[c]]]
              BY DEF Halt, EndContainer
            <6> QED
              BY <5>1, <6>1, <6>2 DEF Session
          <5>3. HaltFails(c) => s \in abandoned'
            BY <5>1 DEF HaltFails
          <5> QED
            BY <3>1, <3>5, <4>1, <4>3, <5>2, <5>3
        <4>4. CASE Remove(c)
          <5>1. pc[c] = "removing"
            BY <4>4 DEF Remove
          <5> QED
            BY <3>0, <3>1, <3>2, <3>5, <4>1, <5>1
        <4> QED
          BY <3>5, <4>2, <4>3, <4>4 DEF CleanUp
      <3>6. CASE r = c /\ (Call(c) \/ Start(c))
        BY <3>1, <3>6 DEF Call, Start, DockerRun, DockerRunFails, OpenShell, OpenShellFails,
           StartReaders
      <3> QED
        BY <3>3, <3>4, <3>5, <3>6 DEF CallStep
    <2>3. \/ Write(c) /\ s = call[c].proc /\ r = c
          \/ k \in 1 .. Len(session[s].input) /\ session'[s].input[k] = session[s].input[k]
      BY <1>1, LinesAdded
    <2> QED
      BY <2>1, <2>2, <2>3
  <1> QED
    BY <1>1 DEF LinesAreOwn

\* What has been printed and not yet read gets fewer by reading.
LEMMA PrintedStaysFinished ==
    ASSUME TypeOK, Solo, SessionsOK, PrintedIsFinished, NEW c \in Runs, CallStep(c)
    PROVE  PrintedIsFinished'
  <1>1. finished' = finished /\ session \in [Runs -> Session]
    BY StepTouches DEF TypeOK
  <1>2. ASSUME NEW s \in Runs, NEW k \in 1 .. Len(session'[s].output)
        PROVE  \E j \in 1 .. Len(session[s].output) :
                   session'[s].output[k] = session[s].output[j]
    <2>1. CASE session'[s].output = session[s].output
      BY <1>2, <2>1
    <2>2. CASE session'[s].output # session[s].output
      <3> DEFINE o == session[s].output
      <3>1. ReadLine(c) \/ ReadExit(c)
        <4>1. CASE Write(c)
          <5>1. session' = [session EXCEPT ![call[c].proc].input = @ \o WrappedCommand(c)]
            BY <4>1 DEF Write
          <5> QED
            BY <1>1, <2>2, <5>1 DEF Session
        <4>2. CASE ~(Write(c) \/ ReadLine(c) \/ ReadExit(c))
          BY <2>2, <4>2, StepTouches DEF SamePipe
        <4> QED
          BY <4>1, <4>2
      <3>2. /\ session' = [session EXCEPT ![call[c].tap].output = Tail(@)]
            /\ session[call[c].tap].output # << >>
        BY <3>1 DEF ReadLine, ReadExit, TakeLine, Queue
      <3>3. s = call[c].tap
        BY <1>1, <2>2, <3>2
      <3>4. session'[s].output = Tail(o) /\ o \in Seq(Line) /\ o # << >>
        BY <1>1, <3>2, <3>3, SessionFields DEF Session
      <3> HIDE DEF o
      <3>5. /\ Len(Tail(o)) = Len(o) - 1 /\ Len(o) \in Nat \ {0}
            /\ \A j \in 1 .. Len(Tail(o)) : Tail(o)[j] = o[j + 1]
        BY <3>4, HeadTailProperties, EmptySeq
      <3>6. k \in 1 .. Len(Tail(o)) /\ k + 1 \in 1 .. Len(o)
        BY <1>2, <3>4, <3>5
      <3>7. session'[s].output[k] = o[k + 1]
        BY <3>4, <3>5, <3>6
      <3> QED
        BY <3>6, <3>7 DEF o
    <2> QED
      BY <2>1, <2>2
  <1> SUFFICES ASSUME NEW s \in Runs, NEW k \in 1 .. Len(session'[s].output),
                      session'[s].output[k].kind = "marker"
               PROVE  session'[s].output[k].run \in finished
    BY <1>1 DEF PrintedIsFinished
  <1>3. PICK j \in 1 .. Len(session[s].output) : session'[s].output[k] = session[s].output[j]
    BY <1>2
  <1> QED
    BY <1>3, Zenon DEF PrintedIsFinished

\* A shell prints the first line it has; a command whose marker it prints has
\* run to its end.
LEMMA ShellsKeepLines ==
    ASSUME TypeOK, LinesAreOwn, PrintedIsFinished, NEW s \in Runs, ShellPrints(s) \/ Die(s)
    PROVE  LinesAreOwn' /\ PrintedIsFinished'
  <1> DEFINE o == session[s].output
             i == session[s].input
  <1>1. /\ UNCHANGED <<pc, call, abandoned>> /\ session \in [Runs -> Session] /\ finished \subseteq finished'
        /\ o \in Seq(Line) /\ i \in Seq(Line)
    BY SessionFields DEF ShellPrints, Die, TypeOK
  <1>2. ASSUME NEW q \in Runs
        PROVE  /\ session'[q].alive => session[q].alive
               /\ \A k \in 1 .. Len(session'[q].input) : \E j \in 1 .. Len(session[q].input) :
                      session'[q].input[k] = session[q].input[j]
               /\ \A k \in 1 .. Len(session'[q].output) :
                      \/ \E j \in 1 .. Len(session[q].output) :
                             session'[q].output[k] = session[q].output[j]
                      \/ session'[q].output[k].kind = "marker" =>
                             session'[q].output[k].run \in finished'
    <2>1. CASE q # s \/ Die(s)
      <3>1. session'[q].output = session[q].output /\ session'[q].input = session[q].input
            /\ (session'[q].alive => session[q].alive)
        BY <1>1, <2>1 DEF ShellPrints, Die, Session
      <3> QED
        BY <3>1
    <2>2. CASE q = s /\ ShellPrints(s)
      <3>1. /\ session'[s].input = Tail(i) /\ session'[s].alive = session[s].alive
            /\ session'[s].output \in {o, Append(o, Head(i))} /\ i # << >>
            /\ Head(i).kind = "marker" => Head(i).run \in finished'
        BY <1>1, <2>2 DEF ShellPrints, Session
      <3> HIDE DEF o, i
      <3>2. /\ Len(Tail(i)) = Len(i) - 1 /\ Len(i) \in Nat \ {0}
            /\ \A j \in 1 .. Len(Tail(i)) : Tail(i)[j] = i[j + 1]
            /\ Head(i) \in Line
        BY <1>1, <3>1, HeadTailProperties, EmptySeq
      <3>3. ASSUME NEW k \in 1 .. Len(session'[s].input)
            PROVE  \E j \in 1 .. Len(i) : session'[s].input[k] = i[j]
        <4>1. k \in 1 .. Len(Tail(i)) /\ k + 1 \in 1 .. Len(i)
          BY <3>1, <3>2, <3>3
        <4> QED
          BY <3>1, <3>2, <4>1
      <3>4. ASSUME NEW k \in 1 .. Len(session'[s].output)
            PROVE  \/ \E j \in 1 .. Len(o) : session'[s].output[k] = o[j]
                   \/ session'[s].output[k] = Head(i)
        <4>1. CASE session'[s].output = o
          BY <3>4, <4>1
        <4>2. CASE session'[s].output = Append(o, Head(i))
          <5>1. /\ Len(Append(o, Head(i))) = Len(o) + 1 /\ Len(o) \in Nat
                /\ Append(o, Head(i))[Len(o) + 1] = Head(i)
                /\ \A j \in 1 .. Len(o) : Append(o, Head(i))[j] = o[j]
            BY <1>1, <3>2, AppendProperties, LenProperties
          <5>2. k \in 1 .. Len(o) \/ k = Len(o) + 1
            BY <3>4, <4>2, <5>1
          <5> QED
            BY <4>2, <5>1, <5>2
        <4> QED
          BY <3>1, <4>1, <4>2
      <3> QED
        BY <2>2, <3>1, <3>3, <3>4 DEF o, i
    <2> QED
      BY <2>1, <2>2
  <1> HIDE DEF o, i
  <1>3. ASSUME NEW q \in Runs, NEW k \in 1 .. Len(session'[q].output),
               session'[q].output[k].kind = "marker"
        PROVE  session'[q].output[k].run \in finished'
    <2>1. CASE \E j \in 1 .. Len(session[q].output) : session'[q].output[k] = session[q].output[j]
      <3>1. PICK j \in 1 .. Len(session[q].output) : session'[q].output[k] = session[q].output[j]
        BY <2>1
      <3>2. session[q].output[j].run \in finished
        BY <1>3, <3>1, Zenon DEF PrintedIsFinished
      <3> QED
        BY <1>1, <3>1, <3>2, Zenon
    <2> QED
      BY <1>2, <1>3, <2>1, Zenon
  <1>4. ASSUME NEW q \in Runs, NEW r \in Runs, NEW k \in 1 .. Len(session'[q].input),
               session'[q].input[k].run = r
        PROVE  /\ pc'[r] \in {"reading", "marked", "stopping", "halting", "removing", "done"}
               /\ call'[r].proc = q
               /\ /\ session'[q].alive /\ q \notin abandoned'
                  /\ pc'[r] \in {"removing", "done"}
                  => pc'[r] = "done" /\ call'[r].code # -1
    <2>1. PICK j \in 1 .. Len(session[q].input) : session'[q].input[k] = session[q].input[j]
      BY <1>2
    <2>2. /\ pc[r] \in {"reading", "marked", "stopping", "halting", "removing", "done"}
          /\ call[r].proc = q
          /\ session[q].alive /\ q \notin abandoned /\ pc[r] \in {"removing", "done"} =>
                pc[r] = "done" /\ call[r].code # -1
      BY <1>4, <2>1, SMTT(30) DEF LinesAreOwn
    <2> QED
      BY <1>1, <1>2, <2>2, Zenon
  <1>5. PrintedIsFinished'
    BY <1>3, SMTT(30) DEF PrintedIsFinished
  <1>6. LinesAreOwn'
    BY <1>4, SMTT(30) DEF LinesAreOwn
  <1> QED
    BY <1>5, <1>6

-----------------------------------------------------------------------------
(* What a call reports.                                                    *)

\* A call that reads from a shell that is not up reads from one that died.
LEMMA DeadShellDied ==
    ASSUME TypeOK, Solo, SessionsOK, NEW c \in Runs, pc[c] \in {"reading", "marked"}, ~Proc(c).up
    PROVE  May("die")
  <1> DEFINE a == active_containers[ShellOf[c]]
  <1>1. call[c].proc = a /\ processes[ShellOf[c]] = a
    BY DEF SessionsOK, DictsOK, DictsOfCall, Whole
  <1>2. a \in Runs /\ ShellOf[a] = ShellOf[c]
    BY FreshIsApart
  <1>3. SessionOK(a)
    BY <1>2 DEF SessionsOK
  <1> QED
    BY <1>1, <1>2, <1>3 DEF SessionOK, Proc

\* The exit line comes unless it is late or the shell died.
LEMMA ExitComes ==
    ASSUME TypeOK, Solo, SessionsOK, PipesOK, NEW c \in Runs, ReadNoExit(c), ~May("late")
    PROVE  ~Proc(c).up
  <1> DEFINE t == call[c].tap
  <1>1. pc[c] = "marked" /\ t = call[c].proc /\ t \in Runs
    BY SessionsInUse DEF ReadNoExit, SessionsOK, DictsOK, DictsOfCall
  <1>2. Pending(t) = <<ExitOf(c)>> /\ session[t].output = << >>
    BY <1>1 DEF ReadNoExit, PipesOK, PipeOfCall, Queue
  <1>3. session[t].input = <<ExitOf(c)>>
    BY <1>1, <1>2, PendingLines
  <1>4. Proc(c).up => ExitIsComing(c)
    <2>1. Proc(c).input = <<ExitOf(c)>>
      BY <1>1, <1>3 DEF Proc
    <2> QED
      BY <2>1 DEF ExitIsComing, ExitOf
  <1> QED
    BY <1>4 DEF ReadNoExit

\* Where a call that was given to a shell is from then on.
Given == {"reading", "marked", "stopping", "halting", "removing", "done"}

\* A call that was given to a shell stays with it.
LEMMA GivenStays ==
    ASSUME TypeOK, NEW c \in Runs, CallStep(c), NEW r \in Runs, pc[r] \in Given
    PROVE  pc'[r] \in Given /\ call'[r].proc = call[r].proc
  <1>1. OnlyCall(c) /\ pc \in [Runs -> States]
    BY CallsMoveAlone DEF TypeOK
  <1>2. CASE r # c
    BY <1>1, <1>2 DEF OnlyCall
  <1>3. CASE r = c /\ Execute(c)
    BY <1>3, ExecuteEnds DEF Given
  <1>4. CASE r = c /\ CleanUp(c)
    BY <1>1, <1>4 DEF CleanUp, Stop, Halt, HaltFails, Remove, Goto, Given
  <1>5. ~(r = c /\ (Call(c) \/ Start(c)))
    BY DEF Call, Start, DockerRun, DockerRunFails, OpenShell, OpenShellFails, StartReaders, Given
  <1> QED
    BY <1>2, <1>3, <1>4, <1>5 DEF CallStep

\* A step of a call leaves PowerShell's last exit codes alone.
LEMMA LastStays ==
    ASSUME TypeOK, Solo, SessionsOK, NEW c \in Runs, CallStep(c), NEW s \in Runs
    PROVE  session'[s].last = session[s].last
  <1>1. session \in [Runs -> Session]
    BY DEF TypeOK
  <1>2. CASE Start(c)
    <2>1. CASE DockerRun(c)
      BY <1>1, <2>1 DEF DockerRun, Session
    <2>2. CASE OpenShell(c)
      <3>1. session' = [session EXCEPT ![c].alive = session[c].running,
                                       ![c].up = session[c].running]
        BY <2>2 DEF OpenShell
      <3> QED
        BY <1>1, <3>1 DEF Session
    <2> QED
      BY <1>2, <2>1, <2>2 DEF Start, DockerRunFails, OpenShellFails, StartReaders
  <1>3. CASE CleanUp(c)
    BY <1>3, CleanUpTouches
  <1>4. CASE Execute(c)
    <2>1. CASE Write(c)
      <3>1. PICK i : session' = [session EXCEPT ![call[c].proc].input = i]
        BY <2>1 DEF Write
      <3> QED
        BY <1>1, <3>1 DEF Session
    <2>2. CASE ReadLine(c) \/ ReadExit(c)
      <3>1. PICK o : session' = [session EXCEPT ![call[c].tap].output = o]
        BY <2>2 DEF ReadLine, ReadExit, TakeLine
      <3> QED
        BY <1>1, <3>1 DEF Session
    <2> QED
      BY <1>4, <2>1, <2>2 DEF Execute, Look, Poll, WriteFails, ReadNoExit, ShellIsGone, TimesOut
  <1> QED
    BY <1>2, <1>3, <1>4 DEF CallStep, Call

\* What exit lines say goes on being so.
LEMMA ReportsStayOK ==
    ASSUME TypeOK, Solo, SessionsOK, ReportsOK, NEW c \in Runs, CallStep(c)
    PROVE  ReportsOK'
  <1>1. /\ env' = env /\ status' = status /\ UNCHANGED <<reported, finished>>
        /\ finished \subseteq Runs
    BY CallsMoveAlone, StepTouches DEF TypeOK
  <1>2. \A r \in finished : pc'[r] \in Given /\ call'[r].proc = call[r].proc
    BY <1>1, GivenStays DEF ReportsOK, Given
  <1>3. \A s \in Runs : session'[s].last = session[s].last
    BY LastStays
  <1> QED
    BY <1>1, <1>2, <1>3 DEF ReportsOK, Native, SameSession, Given

\* A shell whose command ends sees its exit code, or the one it saw last.
LEMMA ShellsKeepReports ==
    ASSUME TypeOK, LinesAreOwn, ReportsOK, NEW s \in Runs, ShellPrints(s) \/ Die(s)
    PROVE  ReportsOK'
  <1>1. /\ UNCHANGED <<env, status, pc, call>> /\ session \in [Runs -> Session]
        /\ reported \in [Runs -> Outcome] /\ finished \subseteq Runs
    BY DEF ShellPrints, Die, TypeOK
  <1>2. CASE UNCHANGED <<reported, finished>> /\ \A q \in Runs : session'[q].last = session[q].last
    BY <1>1, <1>2 DEF ReportsOK, Native, SameSession
  <1>3. CASE Die(s)
    <2>1. \A q \in Runs : session'[q].last = session[q].last
      BY <1>1, <1>3 DEF Die, Session
    <2> QED
      BY <1>2, <1>3, <2>1 DEF Die
  <1>4. CASE ShellPrints(s)
    <2> DEFINE line == Head(session[s].input)
               r == line.run
               code == ExitCode(s, r)
    <2>1. line \in Line /\ line = session[s].input[1] /\ 1 \in 1 .. Len(session[s].input)
      BY <1>4, SessionFields, HeadTailProperties, EmptySeq, LenProperties DEF ShellPrints
    <2>2. r \in Runs /\ call[r].proc = s /\ pc[r] \in Given
      BY <2>1 DEF Line, LinesAreOwn, Given
    <2>3. CASE line.kind # "marker"
      <3>1. UNCHANGED <<reported, finished>> /\ \A q \in Runs : session'[q].last = session[q].last
        BY <1>1, <1>4, <2>3 DEF ShellPrints, Session
      <3> QED
        BY <1>2, <3>1
    <2>4. CASE line.kind = "marker"
      <3>1. /\ reported' = [reported EXCEPT ![r] = code] /\ finished' = finished \union {r}
            /\ session'[s].last = code
            /\ \A q \in Runs \ {s} : session'[q].last = session[q].last
        BY <1>1, <1>4, <2>4 DEF ShellPrints, Session
      <3>2. r \notin env.cmdlets => code = status[r]
        BY DEF ExitCode
      <3>3. r \in env.cmdlets =>
                code = NoCode \/ \E q \in Native : call[q].proc = s /\ code = status[q]
        BY DEF ExitCode, ReportsOK
      <3> HIDE DEF line, r, code
      <3>4. Native \subseteq Native' /\ (r \notin env.cmdlets => r \in Native')
        BY <1>1, <3>1 DEF Native
      <3>5. code = NoCode \/ \E q \in Native' : call[q].proc = s /\ code = status[q]
        BY <2>2, <3>2, <3>3, <3>4
      <3>6. \A q \in Native' : reported'[q] = status[q]
        BY <1>1, <2>2, <3>1, <3>2 DEF ReportsOK, Native
      <3>7. ASSUME NEW q \in finished' \ Native'
            PROVE  \/ reported'[q] = NoCode
                   \/ \E p \in Native' : call[p].proc = call[q].proc /\ reported'[q] = status[p]
        <4>1. CASE q = r
          BY <1>1, <2>2, <3>1, <3>5, <4>1
        <4>2. CASE q # r
          <5>1. q \in finished \ Native /\ reported'[q] = reported[q]
            BY <1>1, <3>1, <3>7, <4>2 DEF Native
          <5> QED
            BY <3>4, <5>1 DEF ReportsOK, SameSession
        <4> QED
          BY <4>1, <4>2
      <3>8. ASSUME NEW q \in Runs
            PROVE  \/ session'[q].last = NoCode
                   \/ \E p \in Native' : call[p].proc = q /\ session'[q].last = status[p]
        <4>1. CASE q = s
          BY <3>1, <3>5, <4>1
        <4>2. CASE q # s
          BY <3>1, <3>4, <4>2 DEF ReportsOK
        <4> QED
          BY <4>1, <4>2
      <3>9. \A q \in finished' : pc[q] \in Given
        BY <2>2, <3>1 DEF ReportsOK, Given
      <3> QED
        BY <1>1, <3>6, <3>7, <3>8, <3>9 DEF ReportsOK, SameSession, Given
    <2> QED
      BY <2>3, <2>4
  <1> QED
    BY <1>3, <1>4

\* The property, in the terms of the proof.
LEMMA CodesFoundAreOwn ==
    ASSUME env.sequential PROVE CodeIsOwn <=> CodesFound
  BY DEF CodeIsOwn, CodesFound, OwnCode, Native, Returned

\* What a call returns is what its own exit line says, or its shell died, or the
\* line was late.
LEMMA CodesStayOwn ==
    ASSUME TypeOK, Solo, SessionsOK, PipesOK, CodesOK, ReportsOK, CodesFound, env.sequential,
           NEW c \in Runs, CallStep(c)
    PROVE  CodesFound'
  <1>1. /\ OnlyCall(c) /\ env' = env /\ status' = status /\ finished' = finished
        /\ pc \in [Runs -> States] /\ call \in [Runs -> CallFields]
    BY CallsMoveAlone, StepTouches DEF TypeOK, CallFields
  <1>2. ASSUME pc'[c] = "done", call'[c].code # -1
        PROVE  \/ /\ c \in finished
                  /\ call'[c].code = IF reported[c] = NoCode THEN 0 ELSE reported[c]
               \/ call'[c].code = 0 /\ (May("die") \/ May("late"))
    <2>1. CASE Call(c) \/ Start(c)
      BY <1>1, <1>2, <2>1 DEF Call, Start, DockerRun, DockerRunFails, OpenShell, OpenShellFails,
         StartReaders, Goto, Raise
    <2>2. CASE CleanUp(c)
      BY <1>2, <2>2 DEF CleanUp, Stop, Halt, HaltFails, Remove, CodesOK
    <2>3. CASE ReadExit(c)
      <3> DEFINE line == Head(Queue(c))
      <3>1. line = ExitOf(c) /\ c \in finished
        BY <2>3, ReadExitKeepsPipes
      <3>2. call'[c].code = CodeIn(line)
        BY <1>1, <2>3 DEF ReadExit, Return, CallFields
      <3> HIDE DEF line
      <3> QED
        BY <3>1, <3>2 DEF ExitOf, CodeIn
    <2>4. CASE ReadNoExit(c)
      <3>1. call'[c].code = 0 /\ pc[c] = "marked"
        BY <1>1, <2>4 DEF ReadNoExit, Return, CallFields
      <3> QED
        BY <2>4, <3>1, ExitComes, DeadShellDied
    <2>5. CASE ShellIsGone(c)
      <3>1. call'[c].code = 0 /\ pc[c] = "reading" /\ ~Proc(c).up
        BY <1>1, <2>5 DEF ShellIsGone, Return, CallFields
      <3> QED
        BY <3>1, DeadShellDied
    <2>6. CASE WriteFails(c)
      BY <1>1, <1>2, <2>6 DEF WriteFails, Return, CallFields
    <2>7. CASE Execute(c)
      BY <1>2, <2>3, <2>4, <2>5, <2>6, <2>7, ExecuteEnds
    <2> QED
      BY <2>1, <2>2, <2>7 DEF CallStep
  <1>3. \A r \in finished : call'[r].proc = call[r].proc
    BY GivenStays DEF ReportsOK, Given, TypeOK
  <1>4. ASSUME c \in finished, call'[c].code = IF reported[c] = NoCode THEN 0 ELSE reported[c]
        PROVE  OwnCode(c)'
    <2>1. CASE c \notin env.cmdlets
      <3>1. reported[c] = status[c] /\ status[c] \in Nat
        BY <1>4, <2>1, CodesAreCodes DEF ReportsOK, Native
      <3>2. reported[c] # NoCode
        BY <3>1 DEF NoCode
      <3> QED
        BY <1>1, <1>4, <2>1, <3>1, <3>2 DEF OwnCode
    <2>2. CASE c \in env.cmdlets /\ reported[c] = NoCode
      BY <1>1, <1>4, <2>2 DEF OwnCode
    <2>3. CASE c \in env.cmdlets /\ reported[c] # NoCode
      <3>1. PICK q \in Native : SameSession(q, c) /\ reported[c] = status[q]
        BY <1>4, <2>3 DEF ReportsOK, Native
      <3>2. q \in Native' /\ SameSession(q, c)' /\ call'[c].code = status'[q]
        BY <1>1, <1>3, <1>4, <2>3, <3>1 DEF Native, SameSession
      <3> QED
        BY <1>1, <1>4, <2>3, <3>2 DEF OwnCode
    <2> QED
      BY <2>1, <2>2, <2>3
  <1>5. ASSUME NEW r \in Runs, r # c, OwnCode(r) PROVE OwnCode(r)'
    <2>1. call'[r] = call[r]
      BY <1>1, <1>5 DEF OnlyCall
    <2>2. \A q \in Native : q \in Native' /\ (SameSession(q, r) => SameSession(q, r)')
      BY <1>1, <1>3, <2>1 DEF Native, SameSession
    <2> QED
      BY <1>1, <1>5, <2>1, <2>2 DEF OwnCode
  <1>6. ASSUME NEW r \in Runs, pc'[r] = "done", call'[r].code # -1
        PROVE  OwnCode(r)' \/ (call'[r].code = 0 /\ (May("die") \/ May("late")))
    <2>1. CASE r = c
      <3>1. OwnCode(c)' \/ (call'[c].code = 0 /\ (May("die") \/ May("late")))
        BY <1>2, <1>4, <1>6, <2>1
      <3> QED
        BY <2>1, <3>1
    <2>2. CASE r # c
      <3>1. pc[r] = "done" /\ call[r].code # -1 /\ call'[r] = call[r]
        BY <1>1, <1>6, <2>2 DEF OnlyCall
      <3>2. OwnCode(r) \/ (call[r].code = 0 /\ (May("die") \/ May("late")))
        BY <3>1 DEF CodesFound
      <3> QED
        BY <1>5, <2>2, <3>1, <3>2
    <2> QED
      BY <2>1, <2>2
  <1> QED
    BY <1>1, <1>6 DEF CodesFound, May

\* A shell that goes on changes nothing of what calls have reported.
LEMMA ShellsKeepCodes ==
    ASSUME TypeOK, CodesFound, NEW s \in Runs, ShellPrints(s) \/ Die(s)
    PROVE  CodesFound'
  <1>1. UNCHANGED <<env, status, pc, call>> /\ finished \subseteq finished'
    BY DEF ShellPrints, Die
  <1>2. Native \subseteq Native'
    BY <1>1 DEF Native
  <1>3. ASSUME NEW r \in Runs, OwnCode(r) PROVE OwnCode(r)'
    BY <1>1, <1>2, <1>3 DEF OwnCode, SameSession
  <1> QED
    BY <1>1, <1>3 DEF CodesFound, May

\* What a call hears is its own output, unless exit lines may be late.
LEMMA OutputsStayOwn ==
    ASSUME TypeOK, Solo, SessionsOK, PipesOK, PrintedIsFinished, OutputIsOwn, env.sequential,
           NEW c \in Runs, CallStep(c)
    PROVE  OutputIsOwn'
  <1>1. OnlyCall(c) /\ env' = env /\ call \in [Runs -> CallFields]
    BY CallsMoveAlone DEF TypeOK, CallFields
  <1>2. ASSUME ~May("late") PROVE call'[c].heard \subseteq {c}
    <2>1. call[c].heard \subseteq {c}
      BY <1>2 DEF OutputIsOwn
    <2>2. CASE ReadLine(c)
      <3> DEFINE line == Head(Queue(c))
      <3>1. line # MarkerOf(c) => line = TextOf(c)
        BY <1>2, <2>2, ReadLineKeepsPipes
      <3>2. /\ line = [run |-> c, kind |-> "marker"] => call' = call
            /\ line # [run |-> c, kind |-> "marker"] =>
                  call' = [call EXCEPT ![c].heard = @ \union {line.run}]
        BY <2>2 DEF ReadLine
      <3> HIDE DEF line
      <3>3. TextOf(c).run = c
        BY DEF TextOf
      <3> QED
        BY <1>1, <2>1, <3>1, <3>2, <3>3 DEF MarkerOf, CallFields
    <2>3. CASE ~ReadLine(c)
      <3>1. call'[c].heard = call[c].heard
        <4>1. CASE Call(c) \/ Start(c)
          BY <4>1 DEF Call, Start, DockerRun, DockerRunFails, OpenShell, OpenShellFails, StartReaders
        <4>2. CASE CleanUp(c)
          BY <4>2 DEF CleanUp, Stop, Halt, HaltFails, Remove
        <4>3. CASE Execute(c)
          BY <1>1, <2>3, <4>3 DEF Execute, Look, Poll, Write, WriteFails, ReadExit, ReadNoExit,
             ShellIsGone, TimesOut, FailAndCleanUp, Return, CallFields
        <4> QED
          BY <4>1, <4>2, <4>3 DEF CallStep
      <3> QED
        BY <2>1, <3>1
    <2> QED
      BY <2>2, <2>3
  <1> QED
    BY <1>1, <1>2 DEF OutputIsOwn, OnlyCall, May

\* A call raises when docker or the shell could not be started, or when it finds
\* a container that an earlier call of its executor left without a shell.
LEMMA RaisesStayCaused ==
    ASSUME TypeOK, SessionsOK, RaisesNeedCause, env.sequential, NEW c \in Runs, CallStep(c)
    PROVE  RaisesNeedCause'
  <1>1. OnlyCall(c) /\ env' = env /\ pc \in [Runs -> States]
    BY CallsMoveAlone DEF TypeOK
  <1>2. ASSUME pc'[c] = "raised" PROVE May("docker") \/ May("popen")
    <2>1. CASE Call(c) \/ Start(c)
      BY <1>1, <1>2, <2>1 DEF Call, Start, DockerRun, DockerRunFails, OpenShell, OpenShellFails,
         StartReaders, Goto
    <2>2. CASE Execute(c)
      <3>1. Look(c)
        BY <1>2, <2>2, ExecuteEnds
      <3>2. None \in {processes[ShellOf[c]], queues[ShellOf[c]]}
        BY <1>1, <1>2, <3>1 DEF Look, Goto
      <3>3. /\ active_containers[ShellOf[c]] # None
            /\ Whole(ShellOf[c]) \/ Broken(ShellOf[c])
        BY <3>1 DEF Look, SessionsOK, DictsOK, DictsOfCall
      <3> QED
        BY <3>2, <3>3 DEF Whole, Broken
    <2>3. CASE CleanUp(c)
      BY <1>1, <1>2, <2>3 DEF CleanUp, Stop, Halt, HaltFails, Remove, Goto
    <2> QED
      BY <2>1, <2>2, <2>3 DEF CallStep
  <1> QED
    BY <1>1, <1>2 DEF RaisesNeedCause, OnlyCall, May

-----------------------------------------------------------------------------
(* The invariant.                                                          *)

\* In the beginning nobody has called.
LEMMA InitIInv == Init => IInv
  <1> SUFFICES ASSUME Init PROVE IInv
    OBVIOUS
  <1>1. TypeOK
    <2>1. env \in Environment /\ None \in Entry /\ {} \in SUBSET Runs /\ 0 \in Outcome
          /\ NoCode \in Outcome /\ << >> \in Seq(Line)
      BY EnvironmentAssumption DEF Init, Entry, Outcome, NoCode
    <2>2. session \in [Runs -> Session]
      BY <2>1 DEF Init, Session, Outcome
    <2> QED
      BY <2>1, <2>2 DEF Init, TypeOK, States
  <1>2. \A r \in Runs : pc[r] = "new" /\ call[r].code = 0 /\ call[r].heard = {} /\ r # None
    BY SandboxAssumption DEF Init
  <1>3. \A s \in Runs : session[s] = Unused
    BY DEF Init, Unused
  <1>4. \A x \in Shells : active_containers[x] = None /\ processes[x] = None /\ queues[x] = None
    BY DEF Init
  <1>5. \A r \in Runs : ShellOf[r] \in Shells
    BY SandboxAssumption
  <1>6. Solo /\ DictsOK /\ OwnSessions
    BY <1>2, <1>4, <1>5 DEF Solo, Active, DictsOK, DictsOfCall, Whole, OwnSessions
  <1>7. \A s \in Runs : SessionOK(s)
    <2> SUFFICES ASSUME NEW s \in Runs PROVE SessionOK(s)
      OBVIOUS
    <2>1. /\ ~session[s].running /\ ~session[s].alive /\ ~session[s].up
          /\ ~session[s].stopped /\ session[s] = Unused /\ s \notin abandoned
          /\ session[s].input = << >> /\ session[s].output = << >>
      <3>1. session[s] = Unused
        BY <1>3
      <3>2. /\ ~Unused.running /\ ~Unused.alive /\ ~Unused.up /\ ~Unused.stopped
            /\ Unused.input = << >> /\ Unused.output = << >>
        BY DEF Unused
      <3> QED
        BY <3>1, <3>2 DEF Init
    <2>2. active_containers[ShellOf[s]] # s /\ processes[ShellOf[s]] # s
      <3>1. ShellOf[s] \in Shells /\ s # None
        BY <1>2, <1>5
      <3> QED
        BY <1>4, <3>1
    <2> QED
      BY <2>1, <2>2 DEF SessionOK
  <1>8. PipesOK /\ PrintedIsFinished /\ LinesAreOwn /\ CodesOK
    BY <1>2, <1>3 DEF PipesOK, PipeOfCall, PrintedIsFinished, LinesAreOwn, CodesOK, Unused
  <1>9. CodesFound /\ OutputIsOwn /\ RaisesNeedCause /\ ReportsOK
    BY <1>2, <1>3
       DEF CodesFound, OutputIsOwn, RaisesNeedCause, ReportsOK, Native, Unused, Init
  <1> QED
    BY <1>1, <1>6, <1>7, <1>8, <1>9 DEF IInv, SeqInv

\* Every step of a call keeps what holds while calls follow each other.
LEMMA CallStepKeepsSeqInv ==
    ASSUME TypeOK, env.sequential, SeqInv, NEW c \in Runs, CallStep(c)
    PROVE  SeqInv'
  <1>1. /\ Solo /\ SessionsOK /\ PipesOK /\ PrintedIsFinished /\ LinesAreOwn /\ CodesOK
        /\ ReportsOK /\ CodesFound /\ OutputIsOwn /\ RaisesNeedCause
    BY DEF SeqInv, SessionsOK
  <1>2. Solo' /\ SessionsOK'
    BY <1>1, CallsStayAlone, CallKeepsSessions, StartKeepsSessions, ExecuteKeepsSessions,
       CleanUpKeepsSessions DEF CallStep
  <1>3. PipesOK'
    <2>1. CASE Call(c) \/ Start(c)
      <3>1. /\ pc'[c] \notin {"reading", "marked"} /\ pc[c] \notin {"reading", "marked", "stopping"}
            /\ ~(Write(c) \/ ReadLine(c) \/ ReadExit(c))
        BY <2>1 DEF Call, Start, DockerRun, DockerRunFails, OpenShell, OpenShellFails,
           StartReaders, Goto, Raise, TypeOK, Write, ReadLine, ReadExit
      <3> QED
        BY <1>1, <3>1, StepsWithoutLines
    <2> QED
      BY <1>1, <2>1, ExecuteKeepsPipes, CleanUpKeepsPipes DEF CallStep
  <1>4. PrintedIsFinished' /\ LinesAreOwn' /\ CodesOK' /\ ReportsOK'
    BY <1>1, PrintedStaysFinished, LinesStayOwn, CodesStayOK, ReportsStayOK
  <1>5. CodesFound' /\ OutputIsOwn'
    BY <1>1, CodesStayOwn, OutputsStayOwn
  <1>6. RaisesNeedCause'
    BY <1>1, RaisesStayCaused
  <1> QED
    BY <1>2, <1>3, <1>4, <1>5, <1>6 DEF SeqInv, SessionsOK

\* So does every step of a shell.
LEMMA ShellStepKeepsSeqInv ==
    ASSUME TypeOK, env.sequential, SeqInv, NEW s \in Runs, ShellPrints(s) \/ Die(s)
    PROVE  SeqInv'
  <1>1. /\ Solo /\ SessionsOK /\ PipesOK /\ PrintedIsFinished /\ LinesAreOwn /\ CodesOK
        /\ ReportsOK /\ CodesFound /\ OutputIsOwn /\ RaisesNeedCause
    BY DEF SeqInv, SessionsOK
  <1>2. UNCHANGED <<env, status, pc, call>> /\ finished \subseteq finished'
    BY DEF ShellPrints, Die
  <1>3. SessionsOK' /\ PipesOK' /\ PrintedIsFinished' /\ LinesAreOwn' /\ ReportsOK'
    BY <1>1, ShellsKeepSessions, ShellsKeepPipes, ShellsKeepLines, ShellsKeepReports
  <1>4. Solo' /\ CodesOK'
    BY <1>1, <1>2 DEF Solo, Active, CodesOK
  <1>5. OutputIsOwn' /\ RaisesNeedCause'
    BY <1>1, <1>2 DEF OutputIsOwn, RaisesNeedCause, May
  <1>6. CodesFound'
    BY <1>1, ShellsKeepCodes
  <1> QED
    BY <1>1, <1>3, <1>4, <1>5, <1>6 DEF SeqInv, SessionsOK

\* The invariant is kept by every step.
LEMMA NextKeepsIInv == IInv /\ [Next]_vars => IInv'
  <1> SUFFICES ASSUME IInv, [Next]_vars PROVE IInv'
    OBVIOUS
  <1>1. TypeOK /\ TypeOK'
    BY NextKeepsTypes DEF IInv
  <1>2. env' = env
    BY DEF Next, vars, dicts, Call, Start, DockerRun, DockerRunFails, OpenShell, OpenShellFails,
       StartReaders, Execute, Look, Poll, Write, WriteFails, ReadLine, ReadExit, ReadNoExit,
       ShellIsGone, TimesOut, CleanUp, Stop, Halt, HaltFails, Remove, ShellPrints, Die
  <1>3. ASSUME env.sequential PROVE SeqInv'
    <2>1. SeqInv
      BY <1>3 DEF IInv
    <2>2. CASE UNCHANGED vars
      <3>1. UNCHANGED <<env, status, pc, call, session, active_containers, processes, queues,
                        reported, finished, abandoned>>
        BY <2>2 DEF vars, dicts
      <3>2. Solo' /\ DictsOK' /\ OwnSessions' /\ (\A s \in Runs : SessionOK(s))'
        BY <2>1, <3>1 DEF SeqInv, Solo, Active, DictsOK, DictsOfCall, Whole, Broken, May,
           OwnSessions, SessionOK
      <3>3. PipesOK' /\ PrintedIsFinished' /\ LinesAreOwn' /\ CodesOK' /\ ReportsOK'
        <4>1. PipesOK'
          BY <2>1, <3>1 DEF SeqInv, PipesOK, PipeOfCall, Pending, Reads, LeftOver, May
        <4>2. PrintedIsFinished' /\ LinesAreOwn'
          BY <2>1, <3>1 DEF SeqInv, PrintedIsFinished, LinesAreOwn
        <4>3. CodesOK' /\ ReportsOK'
          BY <2>1, <3>1 DEF SeqInv, CodesOK, ReportsOK, Native, SameSession
        <4> QED
          BY <4>1, <4>2, <4>3
      <3>4. CodesFound' /\ OutputIsOwn' /\ RaisesNeedCause'
        <4>1. CodesFound'
          BY <2>1, <3>1 DEF SeqInv, CodesFound, OwnCode, Native, May, SameSession
        <4>2. OutputIsOwn' /\ RaisesNeedCause'
          BY <2>1, <3>1 DEF SeqInv, OutputIsOwn, RaisesNeedCause, May
        <4> QED
          BY <4>1, <4>2
      <3> QED
        BY <3>2, <3>3, <3>4 DEF SeqInv
    <2>3. CASE \E c \in Runs : CallStep(c)
      BY <1>1, <1>3, <2>1, <2>3, CallStepKeepsSeqInv
    <2>4. CASE \E s \in Runs : ShellPrints(s) \/ Die(s)
      BY <1>1, <1>3, <2>1, <2>4, ShellStepKeepsSeqInv
    <2> QED
      BY <2>2, <2>3, <2>4 DEF Next, CallStep
  <1> QED
    BY <1>1, <1>2, <1>3 DEF IInv

\* The invariant holds in every state the program reaches.
THEOREM Invariance == Spec => []IInv
  BY InitIInv, NextKeepsIInv, PTL DEF Spec

\* The variables keep their types, however the calls overlap.
THEOREM TypeCorrect == Spec => []TypeOK
  <1>1. IInv => TypeOK
    BY DEF IInv
  <1> QED
    BY <1>1, Invariance, PTL

\* What run returns for a command is its own exit code, and for a PowerShell
\* cmdlet 0 or the code of a native program that the same shell ran before; only
\* for a shell that died or an exit line that was late it may be the initial 0.
THEOREM CodesAreOwn == Spec => []CodeIsOwn
  <1>1. IInv => CodeIsOwn
    <2>1. ASSUME IInv, env.sequential PROVE CodeIsOwn
      BY <2>1, CodesFoundAreOwn DEF IInv, SeqInv
    <2> QED
      BY <2>1 DEF CodeIsOwn
  <1> QED
    BY <1>1, Invariance, PTL

\* The output of one command never becomes that of another.
THEOREM OutputsAreOwn == Spec => []OutputIsOwn
  <1>1. IInv => OutputIsOwn
    BY DEF IInv, SeqInv, OutputIsOwn
  <1> QED
    BY <1>1, Invariance, PTL

\* run raises only when docker or a shell could not be started.
THEOREM RaisesAreCaused == Spec => []RaisesNeedCause
  <1>1. IInv => RaisesNeedCause
    BY DEF IInv, SeqInv, RaisesNeedCause
  <1> QED
    BY <1>1, Invariance, PTL

\* No container runs that its executor does not know, except those that docker
\* stop has failed to stop: the code forgets a container before it stops it.
THEOREM ContainersAreKnown == Spec => []NoStrayContainers
  <1>1. IInv => NoStrayContainers
    BY DEF IInv, SeqInv, NoStrayContainers, SessionOK
  <1> QED
    BY <1>1, Invariance, PTL

\* A command that was given up has no lines to come from a living shell, whether
\* or not somebody listens to it, unless docker stop failed to stop its container.
THEOREM WhatIsGivenUpIsOver == Spec => []GivenUpIsOver
  <1>1. IInv => GivenUpIsOver
    <2> SUFFICES ASSUME IInv, env.sequential, NEW r \in Runs, pc[r] = "done", call[r].code = -1,
                        NEW s \in Runs \ abandoned, session[s].alive,
                        NEW k \in DOMAIN session[s].input,
                        session[s].input[k].run = r
                 PROVE  FALSE
      BY DEF GivenUpIsOver, Returned
    <2>1. k \in 1 .. Len(session[s].input)
      BY SessionFields, LenProperties DEF IInv
    <2> QED
      BY <2>1 DEF IInv, SeqInv, LinesAreOwn
  <1> QED
    BY <1>1, Invariance, PTL

\* No cleanup removes the directory from under a running container of its own
\* executor, other than one that docker stop has failed to stop.
THEOREM WorkspacesOutliveContainers == Spec => WorkspaceOutlivesContainers
  <1> DEFINE Outlives ==
          env.sequential =>
              \A r, s \in Runs :
                  pc'[r] # pc[r] /\ folder /\ ~folder' /\ ShellOf[s] = ShellOf[r] =>
                      ~session[s].running \/ s \in abandoned
  <1>1. IInv /\ [Next]_vars => [Outlives]_vars
    <2> SUFFICES ASSUME IInv, [Next]_vars, env.sequential, NEW r \in Runs, NEW s \in Runs,
                        pc'[r] # pc[r], folder, ~folder', ShellOf[s] = ShellOf[r]
                 PROVE  ~session[s].running \/ s \in abandoned
      OBVIOUS
    <2>1. PICK c \in Runs : Remove(c)
      BY DEF Next, vars, dicts, Call, Start, MakeFolder, DockerRun, DockerRunFails, OpenShell,
         OpenShellFails, StartReaders, Execute, Look, Poll, Write, WriteFails, ReadLine, ReadExit,
         ReadNoExit, ShellIsGone, TimesOut, CleanUp, Stop, Halt, HaltFails, ShellPrints, Die
    <2>2. r = c
      BY <2>1 DEF Remove, Goto, IInv, TypeOK
    <2>3. active_containers[ShellOf[s]] = None /\ s # None
      BY <2>1, <2>2, SandboxAssumption DEF Remove, IInv, SeqInv, DictsOK, DictsOfCall
    <2> QED
      BY <2>3 DEF IInv, SeqInv, SessionOK
  <1> QED
    BY <1>1, Invariance, PTL DEF Spec, WorkspaceOutlivesContainers

=============================================================================
