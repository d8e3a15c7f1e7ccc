------------------------------ MODULE Sandbox ------------------------------
(***************************************************************************)
(* SandboxExecutor of core/sandbox.py: commands of one execution id are    *)
(* written to a shell that lives in a container, and their output is read  *)
(* from a queue until an end marker arrives, the shell is dead or the time *)
(* is up.                                                                  *)
(*                                                                         *)
(* There is one executor per shell; they share the workspace directory of  *)
(* the execution.  Calls of run come from threads (asyncio.to_thread): two *)
(* executors always run side by side, and so do calls of one executor when *)
(* one context is used twice (env.sequential = FALSE).  An action is the   *)
(* code between two calls that may block or be preempted by a caller.      *)
(*                                                                         *)
(* A session is a container with its shell, the docker exec process on    *)
(* the host that is the shell's client, its pipes and queues; it bears the *)
(* name of the run that started it.  The shell outlives a client that is   *)
(* terminated: it goes on with what it was given, unheard.  A command      *)
(* prints one line or none; the wrapper adds the marker and the line with  *)
(* the exit code.  Standard error and docker diff influence no control     *)
(* flow and are left out.                                                  *)
(***************************************************************************)
EXTENDS Integers, Sequences

CONSTANTS
    Runs,           \* the calls of run
    Shells,         \* the executors
    ShellOf,        \* the executor each call is made to
    Quiet,          \* the calls whose command prints nothing
    Statuses,       \* the exit codes the commands may have
    Environments,   \* the environments a run of the checker considers
    None            \* no entry in a dict

ASSUME SandboxAssumption ==
    /\ ShellOf \in [Runs -> Shells]
    /\ Statuses \subseteq [Runs -> Nat]
    /\ None \notin Runs

FaultKinds ==
    {"docker",  \* docker run fails
     "popen",   \* the shell process cannot be started
     "stop",    \* docker stop fails
     "die",     \* the shell dies, and its client with it: killed, or a command says exit
     "late"}    \* the line with the exit code is later than one second

\* A cmdlet is a PowerShell command that runs no native program.
Environment == [callers : SUBSET Runs, cmdlets : SUBSET Runs,
                sequential : BOOLEAN, faults : SUBSET FaultKinds]

ASSUME EnvironmentAssumption == Environments \subseteq Environment

Entry == Runs \union {None}
Line == [run : Runs, kind : {"text", "marker", "exit"}]
Session == [running : BOOLEAN,      \* is the container running?
            alive : BOOLEAN,        \* is the shell in it alive?
            up : BOOLEAN,           \* is the shell's client alive?
            stopped : BOOLEAN,      \* is the stop event of the readers set?
            last : Nat \union {-1}, \* PowerShell's $LASTEXITCODE, or that there is none
            input : Seq(Line),      \* what the shell was given to print
            output : Seq(Line)]     \* what the reader put into the queue
Outcome == Nat \union {-1}
NoCode == -1

VARIABLES
    env,
    status,             \* how each command ends if it runs to its end
    reported,           \* the exit code its exit line says, if any
    pc,                 \* where each call of run is
    call,               \* its process, its queue, its exit_code, whose lines are in stdout
    session,
    active_containers,
    processes,
    queues,             \* output_queues, error_queues and stop_events
    workspaces,
    folder,             \* is there a directory workspace_base_dir/execution_id?
    finished,           \* history: the commands that ran to their end
    abandoned           \* history: the containers that docker stop failed to stop

dicts == <<active_containers, processes, queues, workspaces>>
vars == <<env, status, pc, call, session, dicts, folder, reported, finished, abandoned>>

May(fault) == fault \in env.faults

Goto(r, state) == pc' = [pc EXCEPT ![r] = state]
Active(r) == pc[r] \notin {"new", "done", "raised"}

Raise(r) == Goto(r, "raised")
Return(r, code) ==
    /\ call' = [call EXCEPT ![r].code = code]
    /\ Goto(r, "done")

\* The except clause, for an exception after which the session is cleaned up.
FailAndCleanUp(r) ==
    /\ call' = [call EXCEPT ![r].code = -1]
    /\ Goto(r, "stopping")

-----------------------------------------------------------------------------
(* _get_or_start_container.                                                *)

\* os.makedirs(exist_ok=True), or docker making the source of a bind mount.
MakeFolder == folder' = TRUE

Call(r) ==
    /\ pc[r] = "new"
    /\ r \in env.callers
    /\ env.sequential => \A q \in Runs : ShellOf[q] = ShellOf[r] => ~Active(q)
    /\ \/ /\ active_containers[ShellOf[r]] # None
          /\ Goto(r, "looking")
          /\ UNCHANGED <<workspaces, folder>>
       \/ /\ active_containers[ShellOf[r]] = None
          /\ MakeFolder
          /\ workspaces' = [workspaces EXCEPT ![ShellOf[r]] = TRUE]
          /\ Goto(r, "starting")
    /\ UNCHANGED <<env, status, call, session, active_containers, processes, queues,
                   reported, finished, abandoned>>

DockerRun(r) ==
    /\ pc[r] = "starting"
    /\ MakeFolder
    /\ session' = [session EXCEPT ![r].running = TRUE]
    /\ active_containers' = [active_containers EXCEPT ![ShellOf[r]] = r]
    /\ Goto(r, "opening")
    /\ UNCHANGED <<env, status, call, processes, queues, workspaces, reported, finished,
                   abandoned>>

DockerRunFails(r) ==
    /\ pc[r] = "starting"
    /\ May("docker")
    /\ Raise(r)
    /\ UNCHANGED <<env, status, call, session, dicts, folder, reported, finished,
                   abandoned>>

\* In a container that was stopped meanwhile, docker exec ends at once.
OpenShell(r) ==
    /\ pc[r] = "opening"
    /\ session' = [session EXCEPT ![r].alive = session[r].running,
                                  ![r].up = session[r].running]
    /\ processes' = [processes EXCEPT ![ShellOf[r]] = r]
    /\ Goto(r, "wiring")
    /\ UNCHANGED <<env, status, call, active_containers, queues, workspaces, folder,
                   reported, finished, abandoned>>

\* The container is published by now and stays so.
OpenShellFails(r) ==
    /\ pc[r] = "opening"
    /\ May("popen")
    /\ Raise(r)
    /\ UNCHANGED <<env, status, call, session, dicts, folder, reported, finished,
                   abandoned>>

StartReaders(r) ==
    /\ pc[r] = "wiring"
    /\ queues' = [queues EXCEPT ![ShellOf[r]] = r]
    /\ Goto(r, "looking")
    /\ UNCHANGED <<env, status, call, session, active_containers, processes, workspaces,
                   folder, reported, finished, abandoned>>

-----------------------------------------------------------------------------
(* run.                                                                    *)

\* Mutant of Look: the queues are taken for granted.
LookForProcess(r) ==
    /\ pc[r] = "looking"
    /\ \/ /\ processes[ShellOf[r]] = None
          /\ Raise(r)
          /\ call' = call
       \/ /\ processes[ShellOf[r]] # None
          /\ call' = [call EXCEPT ![r].proc = processes[ShellOf[r]],
                                  ![r].tap = queues[ShellOf[r]]]
          /\ Goto(r, "polling")
    /\ UNCHANGED <<env, status, session, dicts, folder, reported, finished, abandoned>>

\* A dict without the execution id raises KeyError.
Look(r) ==
    /\ pc[r] = "looking"
    /\ \/ /\ None \in {processes[ShellOf[r]], queues[ShellOf[r]]}
          /\ Raise(r)
          /\ call' = call
       \/ /\ None \notin {processes[ShellOf[r]], queues[ShellOf[r]]}
          /\ call' = [call EXCEPT ![r].proc = processes[ShellOf[r]],
                                  ![r].tap = queues[ShellOf[r]]]
          /\ Goto(r, "polling")
    /\ UNCHANGED <<env, status, session, dicts, folder, reported, finished, abandoned>>

Proc(r) == session[call[r].proc]
Queue(r) == session[call[r].tap].output

\* A shell that is dead is a RuntimeError.
Poll(r) ==
    /\ pc[r] = "polling"
    /\ \/ /\ Proc(r).up
          /\ Goto(r, "writing")
          /\ call' = call
       \/ /\ ~Proc(r).up
          /\ FailAndCleanUp(r)
    /\ UNCHANGED <<env, status, session, dicts, folder, reported, finished, abandoned>>

WrappedCommand(r) ==
    LET line(kind) == [run |-> r, kind |-> kind]
    IN  (IF r \in Quiet THEN << >> ELSE <<line("text")>>) \o <<line("marker"), line("exit")>>

Write(r) ==
    /\ pc[r] = "writing"
    /\ Proc(r).up
    /\ session' = [session EXCEPT ![call[r].proc].input = @ \o WrappedCommand(r)]
    /\ Goto(r, "reading")
    /\ UNCHANGED <<env, status, call, dicts, folder, reported, finished, abandoned>>

\* A broken or closed pipe: neither a TimeoutError nor a RuntimeError.
WriteFails(r) ==
    /\ pc[r] = "writing"
    /\ ~Proc(r).up
    /\ Return(r, -1)
    /\ UNCHANGED <<env, status, session, dicts, folder, reported, finished, abandoned>>

TakeLine(r) ==
    /\ Queue(r) # << >>
    /\ session' = [session EXCEPT ![call[r].tap].output = Tail(@)]

\* What int() makes of a line after a marker.  PowerShell leaves the code empty
\* before its first native program; the ValueError is swallowed like a missing
\* line, and exit_code keeps its initial 0.
CodeIn(line) ==
    IF line.kind = "exit" /\ reported[line.run] # NoCode THEN reported[line.run] ELSE 0

\* Mutant of ReadLine: the exit code is taken wherever it shows up.
ReadLineOrExit(r) ==
    /\ pc[r] = "reading"
    /\ TakeLine(r)
    /\ LET line == Head(Queue(r)) IN
       \/ /\ line = [run |-> r, kind |-> "marker"]
          /\ Goto(r, "marked") /\ call' = call
       \/ /\ line.kind = "exit"
          /\ Return(r, CodeIn(line))
       \/ /\ line # [run |-> r, kind |-> "marker"] /\ line.kind # "exit"
          /\ call' = [call EXCEPT ![r].heard = @ \union {line.run}]
          /\ pc' = pc
    /\ UNCHANGED <<env, status, dicts, folder, reported, finished, abandoned>>

\* A line that is not this call's marker is output.
ReadLine(r) ==
    /\ pc[r] = "reading"
    /\ TakeLine(r)
    /\ LET line == Head(Queue(r)) IN
       IF line = [run |-> r, kind |-> "marker"]
       THEN Goto(r, "marked") /\ call' = call
       ELSE /\ call' = [call EXCEPT ![r].heard = @ \union {line.run}]
            /\ pc' = pc
    /\ UNCHANGED <<env, status, dicts, folder, reported, finished, abandoned>>

\* The line after the marker; what is no exit line is dropped.
ReadExit(r) ==
    /\ pc[r] = "marked"
    /\ TakeLine(r)
    /\ Return(r, CodeIn(Head(Queue(r))))
    /\ UNCHANGED <<env, status, dicts, folder, reported, finished, abandoned>>

ExitIsComing(r) ==
    /\ Proc(r).up
    /\ \E k \in DOMAIN Proc(r).input : Proc(r).input[k] = [run |-> r, kind |-> "exit"]

\* get(timeout=1.0) raises, and exit_code keeps its initial 0.
ReadNoExit(r) ==
    /\ pc[r] = "marked"
    /\ Queue(r) = << >>
    /\ May("late") \/ ~ExitIsComing(r)
    /\ Return(r, 0)
    /\ UNCHANGED <<env, status, session, dicts, folder, reported, finished, abandoned>>

\* The loop is left with the initial exit_code, too.
ShellIsGone(r) ==
    /\ pc[r] = "reading"
    /\ Queue(r) = << >>
    /\ ~Proc(r).up
    /\ Return(r, 0)
    /\ UNCHANGED <<env, status, session, dicts, folder, reported, finished, abandoned>>

\* Mutants of TimesOut: the session is kept; there is no limit.
TimesOutOnly(r) ==
    /\ pc[r] = "reading"
    /\ Return(r, -1)
    /\ UNCHANGED <<env, status, session, dicts, folder, reported, finished, abandoned>>
ReadsForEver(r) == pc[r] = "reading" /\ FALSE /\ UNCHANGED vars

TimesOut(r) ==
    /\ pc[r] = "reading"
    /\ FailAndCleanUp(r)
    /\ UNCHANGED <<env, status, session, dicts, folder, reported, finished, abandoned>>

-----------------------------------------------------------------------------
(* cleanup.  It cleans what the dicts name now, not what the caller used.  *)

EndClient(r) ==
    session' = [s \in Runs |->
        [session[s] EXCEPT !.stopped = session[s].stopped \/ s = queues[ShellOf[r]],
                           !.up = session[s].up /\ s # processes[ShellOf[r]]]]

\* Mutant of Stop: the directory goes first.
StopAndRemove(r) ==
    /\ pc[r] = "stopping"
    /\ EndClient(r)
    /\ processes' = [processes EXCEPT ![ShellOf[r]] = None]
    /\ folder' = FALSE
    /\ Goto(r, "halting")
    /\ UNCHANGED <<env, status, call, active_containers, queues, workspaces, reported,
                   finished, abandoned>>

\* Set the stop event, end the shell's client and wait for it.  The shell has
\* been told to exit, but only after what it was given before.
Stop(r) ==
    /\ pc[r] = "stopping"
    /\ EndClient(r)
    /\ processes' = [processes EXCEPT ![ShellOf[r]] = None]
    /\ Goto(r, "halting")
    /\ UNCHANGED <<env, status, call, active_containers, queues, workspaces, folder,
                   reported, finished, abandoned>>

\* docker stop ends everything in the container.
EndContainer(r) ==
    LET stays(s) == s # active_containers[ShellOf[r]] IN
    session' = [s \in Runs |->
        [session[s] EXCEPT !.running = session[s].running /\ stays(s),
                           !.alive = session[s].alive /\ stays(s),
                           !.up = session[s].up /\ stays(s)]]

\* Mutants of Halt: the container runs on; its entry stays.
Forget(r) ==
    /\ pc[r] = "halting"
    /\ active_containers' = [active_containers EXCEPT ![ShellOf[r]] = None]
    /\ Goto(r, "removing")
    /\ UNCHANGED <<env, status, call, session, processes, queues, workspaces, folder,
                   reported, finished, abandoned>>
HaltAndKeepEntry(r) ==
    /\ pc[r] = "halting"
    /\ EndContainer(r)
    /\ Goto(r, "removing")
    /\ UNCHANGED <<env, status, call, dicts, folder, reported, finished, abandoned>>

Halt(r) ==
    /\ pc[r] = "halting"
    /\ EndContainer(r)
    /\ active_containers' = [active_containers EXCEPT ![ShellOf[r]] = None]
    /\ Goto(r, "removing")
    /\ UNCHANGED <<env, status, call, processes, queues, workspaces, folder, reported,
                   finished, abandoned>>

\* The entry is gone already when docker stop fails, and nobody asks.
HaltFails(r) ==
    /\ pc[r] = "halting"
    /\ May("stop")
    /\ abandoned' = abandoned \union ({active_containers[ShellOf[r]]} \ {None})
    /\ active_containers' = [active_containers EXCEPT ![ShellOf[r]] = None]
    /\ Goto(r, "removing")
    /\ UNCHANGED <<env, status, call, session, processes, queues, workspaces, folder,
                   reported, finished>>

Remove(r) ==
    /\ pc[r] = "removing"
    /\ folder' = (folder /\ ~workspaces[ShellOf[r]])
    /\ workspaces' = [workspaces EXCEPT ![ShellOf[r]] = FALSE]
    /\ queues' = [queues EXCEPT ![ShellOf[r]] = None]
    /\ Goto(r, "done")
    /\ UNCHANGED <<env, status, call, session, active_containers, processes, reported,
                   finished, abandoned>>

-----------------------------------------------------------------------------
(* The shells and their reader threads.                                    *)

\* With which exit code the shell in s sees a command end: bash has it in $?,
\* PowerShell in $LASTEXITCODE, which a cmdlet leaves as it was.
ExitCode(s, r) == IF r \in env.cmdlets THEN session[s].last ELSE status[r]

\* The shell gets to its next line; its client and the reader pass it on.  A
\* marker follows the end of the command.
ShellPrints(s) ==
    /\ session[s].alive
    /\ session[s].input # << >>
    /\ LET line == Head(session[s].input)
           ends == line.kind = "marker"
       IN
       /\ session' = [session EXCEPT ![s].input = Tail(@),
                                     ![s].output = IF session[s].up /\ ~session[s].stopped
                                                   THEN Append(@, line) ELSE @,
                                     ![s].last = IF ends THEN ExitCode(s, line.run) ELSE @]
       /\ reported' = IF ends THEN [reported EXCEPT ![line.run] = ExitCode(s, line.run)]
                      ELSE reported
       /\ finished' = finished \union {r \in {line.run} : ends}
    /\ UNCHANGED <<env, status, pc, call, dicts, folder, abandoned>>

Die(s) ==
    /\ May("die")
    /\ session[s].alive
    /\ session' = [session EXCEPT ![s].alive = FALSE, ![s].up = FALSE]
    /\ UNCHANGED <<env, status, pc, call, dicts, folder, reported, finished, abandoned>>

-----------------------------------------------------------------------------

Init ==
    /\ env \in Environments
    /\ status \in Statuses
    /\ pc = [r \in Runs |-> "new"]
    /\ call = [r \in Runs |-> [proc |-> None, tap |-> None, code |-> 0, heard |-> {}]]
    /\ session = [s \in Runs |-> [running |-> FALSE, alive |-> FALSE, up |-> FALSE,
                                  stopped |-> FALSE, last |-> NoCode,
                                  input |-> << >>, output |-> << >>]]
    /\ active_containers = [x \in Shells |-> None]
    /\ processes = [x \in Shells |-> None]
    /\ queues = [x \in Shells |-> None]
    /\ workspaces = [x \in Shells |-> FALSE]
    /\ folder = FALSE
    /\ reported = [r \in Runs |-> NoCode]
    /\ finished = {}
    /\ abandoned = {}

Start(r) == DockerRun(r) \/ DockerRunFails(r) \/ OpenShell(r) \/ OpenShellFails(r) \/ StartReaders(r)

Execute(r) == \/ Look(r) \/ Poll(r) \/ Write(r) \/ WriteFails(r) \/ ReadLine(r)
              \/ ReadExit(r) \/ ReadNoExit(r) \/ ShellIsGone(r) \/ TimesOut(r)

CleanUp(r) == Stop(r) \/ Halt(r) \/ HaltFails(r) \/ Remove(r)

Next ==
    \/ \E r \in Runs : Call(r) \/ Start(r) \/ Execute(r) \/ CleanUp(r)
    \/ \E s \in Runs : ShellPrints(s) \/ Die(s)

Spec == Init /\ [][Next]_vars

\* Threads run, docker and waits with a timeout come back, and an exit line is
\* printed right after its marker.  Nothing says that a command ever ends.
PrintExit(s) == session[s].input # << >> /\ Head(session[s].input).kind = "exit" /\ ShellPrints(s)
FairSpec ==
    /\ Spec
    /\ \A r \in Runs : WF_vars(Start(r) \/ Execute(r) \/ CleanUp(r))
    /\ \A s \in Runs : WF_vars(PrintExit(s))

=============================================================================
