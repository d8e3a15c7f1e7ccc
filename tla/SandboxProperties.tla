------------------------- MODULE SandboxProperties -------------------------
(***************************************************************************)
(* What the sandbox has to guarantee.  Most of it is only promised while   *)
(* the calls of one executor do not overlap (env.sequential); calls of     *)
(* other executors for the same execution id may always do.                *)
(***************************************************************************)
EXTENDS Sandbox

States == {"new", "starting", "opening", "wiring", "looking", "polling", "writing", "reading",
           "marked", "stopping", "halting", "removing", "done", "raised"}

\* The variables have their types, and a call that talks to a shell has a
\* process and a queue.
TypeOK ==
    /\ env \in Environment
    /\ status \in Statuses
    /\ pc \in [Runs -> States]
    /\ call \in [Runs -> [proc : Entry, tap : Entry, code : Outcome, heard : SUBSET Runs]]
    /\ \A r \in Runs : pc[r] \in {"polling", "writing", "reading", "marked"} =>
          call[r].proc # None /\ call[r].tap # None
    /\ session \in [Runs -> Session]
    /\ active_containers \in [Shells -> Entry]
    /\ processes \in [Shells -> Entry]
    /\ queues \in [Shells -> Entry]
    /\ workspaces \in [Shells -> BOOLEAN]
    /\ folder \in BOOLEAN
    /\ reported \in [Runs -> Outcome]
    /\ finished \in SUBSET Runs
    /\ abandoned \in SUBSET Runs

Returned(r) == pc[r] = "done"

\* r and q were given to the same shell.
SameSession(q, r) == call[q].proc = call[r].proc

\* The exit code that run reports for a command, if it is not a cmdlet, is that
\* command's own, which ran to its end.  A cmdlet ran to its end too, but has no
\* code: it is reported with 0, or with that of a native program that the same
\* shell ran before it.  Only for a shell that died, or an exit line that was
\* late, may the initial 0 be reported instead; never that of another session.
CodeIsOwn ==
    env.sequential =>
        \A r \in Runs : Returned(r) /\ call[r].code # -1 =>
            \/ /\ r \in finished
               /\ r \notin env.cmdlets => call[r].code = status[r]
               /\ r \in env.cmdlets =>
                     \/ call[r].code = 0
                     \/ \E q \in finished \ env.cmdlets :
                           SameSession(q, r) /\ call[r].code = status[q]
            \/ call[r].code = 0 /\ (May("die") \/ May("late"))

\* The output of a command that timed out, or that is still queued when its
\* session is given up, never becomes the output of a later command.
OutputIsOwn ==
    env.sequential /\ ~May("late") => \A r \in Runs : call[r].heard \subseteq {r}

\* run raises only if docker or the shell could not be started: a session that
\* is in the dicts is there as a whole, also after cleanups.
RaisesNeedCause ==
    env.sequential /\ ~May("docker") /\ ~May("popen") => \A r \in Runs : pc[r] # "raised"

\* Every container that runs is the one its executor knows, or one that docker
\* stop has failed to stop: no other is left behind that no cleanup would stop.
NoStrayContainers ==
    env.sequential =>
        \A s \in Runs : session[s].running =>
            active_containers[ShellOf[s]] = s \/ s \in abandoned

\* A command that run has given up is over when run returns, in its container
\* and not only on the host, unless docker stop failed to stop that container.
GivenUpIsOver ==
    env.sequential =>
        \A r \in Runs : Returned(r) /\ call[r].code = -1 =>
            \A s \in Runs \ abandoned : session[s].alive =>
                \A k \in DOMAIN session[s].input : session[s].input[k].run # r

\* A cleanup does not remove the directory from under a container of its own
\* executor: none runs by then that docker stop could stop.  (Nothing protects
\* the containers of other executors, which share the directory.)
WorkspaceOutlivesContainers ==
    [][env.sequential =>
          \A r, s \in Runs :
              pc'[r] # pc[r] /\ folder /\ ~folder' /\ ShellOf[s] = ShellOf[r] =>
                  ~session[s].running \/ s \in abandoned]_vars

\* Whatever hangs, dies or is cleaned up by others, a call of run ends.
RunEnds == \A r \in Runs : pc[r] # "new" ~> pc[r] \in {"done", "raised"}

\* A shell process that died while a command was running is an error, not a
\* success of the command.
DeadShellIsNoSuccess ==
    \A r \in Runs : Returned(r) /\ call[r].code = 0 => r \in finished

=============================================================================
