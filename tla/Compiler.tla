----------------------------- MODULE Compiler ------------------------------
(***************************************************************************)
(* The semantic compiler: SemanticCompilerFacade.compile asks the LLM for  *)
(* a plan (ResilientSemanticCompiler, at most three times), replaces the   *)
(* plan's required capabilities by what CapabilityMapper finds, and has    *)
(* PolicyGate.evaluate audit every step again.  A bash step is audited in  *)
(* process; a powershell step by a daemon on a fixed port, which whoever   *)
(* finds it missing spawns, and which all auditors of all processes share. *)
(*                                                                         *)
(* Callers are the threads and processes that compile.  The daemon may     *)
(* die, or need longer to bind its port than its spawner sleeps, at the    *)
(* cost of one of MaxTroubles troubles.  A command text is a model value   *)
(* with what its auditor finds out about it; about a powershell text it    *)
(* finds out next to nothing, since the daemon is sent the text encoded    *)
(* and parses it without decoding it.                                      *)
(***************************************************************************)
EXTENDS Integers, Sequences, FiniteSets

CONSTANTS
    Callers,        \* who calls compile
    BashSteps,      \* commands for the bash adapter
    PsSteps,        \* commands for any other adapter
    Words,          \* the words that the bash auditor's visitor finds in command position
    Tokens,         \* the substrings it looks for that a command's text contains
    Redirecting,    \* commands with a redirection
    Unparsable,     \* commands that bashlex cannot parse, or the daemon in their encoded form
    Plans,          \* the plans the LLM may answer with
    Contexts,       \* the capabilities of the contexts callers bring
    MaxTroubles     \* bound: how often the daemon dies or is slow

\* Those of the Capability enumeration that an auditor can ask for.
Capabilities == {"exec", "fs_read", "write_fs", "network"}

ASSUME CompilerAssumption ==
    /\ BashSteps \intersect PsSteps = {}
    /\ Plans \subseteq Seq(BashSteps \union PsSteps)
    /\ Contexts \subseteq SUBSET Capabilities
    /\ Unparsable \subseteq BashSteps \union PsSteps
    /\ MaxTroubles \in Nat

VARIABLES
    stage,      \* how far each call of compile is
    context,    \* the capabilities of each caller's ExecutionContext
    attempts,   \* how often the LLM was asked
    plan,       \* the steps of the UCER
    required,   \* its required_capabilities
    place,      \* the index of the step that is being audited
    audit,      \* where the audit of a powershell step is
    answered,   \* history: the places at which the gate's auditor was there and answered
    daemon,     \* the process that owns, or will own, the port
    troubles    \* troubles left

callVars     == <<stage, context, attempts, plan, required, place, audit, answered>>
compilerVars == <<callVars, daemon, troubles>>

MaxAttempts == 3    \* stop_after_attempt(3)

Stages == {"idle", "asking", "resolving", "screening",
           "compiled", "refused", "unanswered", "invalid"}

Trouble == troubles > 0 /\ troubles' = troubles - 1

-----------------------------------------------------------------------------
(* ResilientSemanticCompiler.compile_intent.                               *)

Enter(c, s) == stage' = [stage EXCEPT ![c] = s]

Compile(c) ==
    /\ stage[c] = "idle"
    /\ \E caps \in Contexts : context' = [context EXCEPT ![c] = caps]
    /\ attempts' = [attempts EXCEPT ![c] = 1]
    /\ Enter(c, "asking")
    /\ UNCHANGED <<plan, required, place, audit, answered, daemon, troubles>>

\* The answer is JSON and UCER(**raw) accepts it.
Answered(c) ==
    /\ stage[c] = "asking"
    /\ \E p \in Plans : plan' = [plan EXCEPT ![c] = p]
    /\ place' = [place EXCEPT ![c] = 1]
    /\ Enter(c, "resolving")
    /\ UNCHANGED <<context, attempts, required, audit, answered, daemon, troubles>>

\* Mutant of AnsweredAmiss: stop_after_attempt lets one more through.
AskedOnceMore(c) ==
    /\ stage[c] = "asking"
    /\ IF attempts[c] <= MaxAttempts
       THEN attempts' = [attempts EXCEPT ![c] = @ + 1] /\ UNCHANGED stage
       ELSE Enter(c, "invalid") /\ UNCHANGED attempts
    /\ UNCHANGED <<context, plan, required, place, audit, answered, daemon, troubles>>

\* UCER(**raw) raises a ValidationError: asked again, or given up.
AnsweredAmiss(c) ==
    /\ stage[c] = "asking"
    /\ IF attempts[c] < MaxAttempts
       THEN attempts' = [attempts EXCEPT ![c] = @ + 1] /\ UNCHANGED stage
       ELSE Enter(c, "invalid") /\ UNCHANGED attempts
    /\ UNCHANGED <<context, plan, required, place, audit, answered, daemon, troubles>>

\* to_ucer turns everything else into a RuntimeError, which is not retried:
\* no connection, a bad HTTP status, an answer without JSON.
NotAnswered(c) ==
    /\ stage[c] = "asking"
    /\ Enter(c, "unanswered")
    /\ UNCHANGED <<context, attempts, plan, required, place, audit, answered, daemon, troubles>>

-----------------------------------------------------------------------------
(* PersistentPowerShellAuditor.audit.                                      *)

Step(c) == plan[c][place[c]]
Auditing(c) == /\ stage[c] \in {"resolving", "screening"}
               /\ place[c] <= Len(plan[c]) /\ Step(c) \in PsSteps

\* Mutant of Probe: the spawner does not sleep.
ProbeAtOnce(c) ==
    /\ Auditing(c) /\ audit[c] = "none"
    /\ audit' = [audit EXCEPT ![c] = "connecting"]
    /\ daemon' = IF daemon = "up" THEN "up" ELSE "starting"
    /\ UNCHANGED <<stage, context, attempts, plan, required, place, answered, troubles>>

\* _ensure_daemon_running: nobody answers on the port, so one is spawned, and
\* the caller sleeps.  Of two daemons only one gets the port.
Probe(c) ==
    /\ Auditing(c) /\ audit[c] = "none"
    /\ IF daemon = "up"
       THEN audit' = [audit EXCEPT ![c] = "connecting"] /\ UNCHANGED daemon
       ELSE audit' = [audit EXCEPT ![c] = "sleeping"] /\ daemon' = "starting"
    /\ UNCHANGED <<stage, context, attempts, plan, required, place, answered, troubles>>

\* The sleep is over, and the daemon has bound the port ...
Wake(c) ==
    /\ audit[c] = "sleeping"
    /\ daemon # "starting"
    /\ audit' = [audit EXCEPT ![c] = "connecting"]
    /\ UNCHANGED <<stage, context, attempts, plan, required, place, answered, daemon, troubles>>

\* ... or it was too slow.
WakeTooEarly(c) ==
    /\ Trouble
    /\ audit[c] = "sleeping"
    /\ daemon = "starting"
    /\ audit' = [audit EXCEPT ![c] = "connecting"]
    /\ UNCHANGED <<stage, context, attempts, plan, required, place, answered, daemon>>

DaemonBinds ==
    /\ daemon = "starting"
    /\ daemon' = "up"
    /\ UNCHANGED <<callVars, troubles>>

DaemonDies ==
    /\ Trouble
    /\ daemon' = "down"
    /\ daemon # "down"
    /\ UNCHANGED callVars

\* What the daemon says of a text: safe unless it cannot parse the encoded text
\* that it is sent, in which the risky cmdlets it looks for do not occur.
DaemonFindsSafe(step) == step \notin Unparsable

\* Mutant of AuditPs: without a daemon the command is taken for harmless.
AuditPsOpen(c) ==
    [safe |-> daemon # "up" \/ DaemonFindsSafe(Step(c)), caps |-> {"exec"}]

\* The verdict: EXEC and what the daemon says, or, without a daemon, unsafe
\* and no capability at all.
AuditPs(c) ==
    IF daemon = "up" THEN [safe |-> DaemonFindsSafe(Step(c)), caps |-> {"exec"}]
    ELSE [safe |-> FALSE, caps |-> {}]

\* What BashASTAuditor looks for: words in command position, and substrings
\* of the lower-case text, which need not be commands ("dd" is one of "add").
CommandsFor ==
    [fs_read  |-> {"cat", "ls", "grep", "find", "type", "dir"},
     write_fs |-> {"touch", "cp", "mv", "mkdir", "rm", "unlink", "shred", "mkfs", "dd"},
     network  |-> {"curl", "wget"}]
TokensFor ==
    [fs_read  |-> {"cat ", "ls ", "grep ", "find ", "type ", "dir "},
     write_fs |-> {"touch ", "cp ", "mv ", "mkdir ", "rm ", "unlink", "shred", "mkfs", "dd"},
     network  |-> {"curl", "wget", "invoke-webrequest", "invoke-restmethod", "iwr", "irm"}]

Commanded(step) == {cap \in DOMAIN CommandsFor : Words[step] \intersect CommandsFor[cap] # {}}
Mentioned(step) == {cap \in DOMAIN TokensFor : Tokens[step] \intersect TokensFor[cap] # {}}

CapsOf(step) ==
    {"exec"} \union Commanded(step) \union Mentioned(step)
             \union (IF step \in Redirecting THEN {"write_fs"} ELSE {})

\* BashASTAuditor.audit: what cannot be parsed is unsafe, with no capability;
\* everything else is safe, and needs what it needs.
AuditBash(c) ==
    IF Step(c) \in Unparsable THEN [safe |-> FALSE, caps |-> {}]
    ELSE [safe |-> TRUE, caps |-> CapsOf(Step(c))]

\* The step's audit ends now, with this verdict.
Audited(c) ==
    /\ place[c] <= Len(plan[c])
    /\ Step(c) \in BashSteps \/ audit[c] = "connecting"

\* Was there an auditor to give that verdict?
AuditorAnswers(c) == Step(c) \in BashSteps \/ daemon = "up"

Verdict(c) == IF Step(c) \in BashSteps THEN AuditBash(c) ELSE AuditPs(c)

-----------------------------------------------------------------------------
(* CapabilityMapper.resolve_ucer_capabilities and PolicyGate.evaluate.     *)

\* Whether a step is safe is not asked here.
Resolve(c) ==
    /\ stage[c] = "resolving"
    /\ Audited(c)
    /\ required' = [required EXCEPT ![c] = @ \union Verdict(c).caps]
    /\ place' = [place EXCEPT ![c] = @ + 1]
    /\ audit' = [audit EXCEPT ![c] = "none"]
    /\ UNCHANGED <<stage, context, attempts, plan, answered, daemon, troubles>>

\* FormalContract.requires({Capability.EXEC})
ContractHolds(c) == "exec" \in context[c]

\* evaluate is called behind its contract.
Resolved(c) ==
    /\ stage[c] = "resolving" /\ place[c] > Len(plan[c])
    /\ place' = [place EXCEPT ![c] = 1]
    /\ Enter(c, IF ContractHolds(c) THEN "screening" ELSE "refused")
    /\ UNCHANGED <<context, attempts, plan, required, audit, answered, daemon, troubles>>

\* One step of evaluate's loop: its capabilities are added to the UCER, and
\* it is refused for a capability the context does not have or as unsafe.
Screen(c) ==
    /\ stage[c] = "screening"
    /\ Audited(c)
    /\ required' = [required EXCEPT ![c] = @ \union Verdict(c).caps]
    /\ answered' = [answered EXCEPT ![c] =
                       @ \union {i \in {place[c]} : AuditorAnswers(c)}]
    /\ IF Verdict(c).safe /\ Verdict(c).caps \subseteq context[c]
       THEN place' = [place EXCEPT ![c] = @ + 1] /\ UNCHANGED stage
       ELSE Enter(c, "refused") /\ UNCHANGED place
    /\ audit' = [audit EXCEPT ![c] = "none"]
    /\ UNCHANGED <<context, attempts, plan, daemon, troubles>>

Return(c) ==
    /\ stage[c] = "screening" /\ place[c] > Len(plan[c])
    /\ Enter(c, "compiled")
    /\ UNCHANGED <<context, attempts, plan, required, place, audit, answered, daemon, troubles>>

-----------------------------------------------------------------------------

CompilerInit ==
    /\ stage = [c \in Callers |-> "idle"]
    /\ context = [c \in Callers |-> {}]
    /\ attempts = [c \in Callers |-> 0]
    /\ plan = [c \in Callers |-> << >>]
    /\ required = [c \in Callers |-> {}]
    /\ place = [c \in Callers |-> 1]
    /\ audit = [c \in Callers |-> "none"]
    /\ answered = [c \in Callers |-> {}]
    /\ daemon = "down"
    /\ troubles = MaxTroubles

CallStep(c) ==
    \/ Answered(c) \/ AnsweredAmiss(c) \/ NotAnswered(c)
    \/ Probe(c) \/ Wake(c) \/ Resolve(c) \/ Resolved(c) \/ Screen(c) \/ Return(c)

CompilerNext ==
    \/ \E c \in Callers : Compile(c) \/ CallStep(c) \/ WakeTooEarly(c)
    \/ DaemonBinds \/ DaemonDies

CompilerSpec == CompilerInit /\ [][CompilerNext]_compilerVars

-----------------------------------------------------------------------------
(* Properties.                                                             *)

CompilerTypeOK ==
    /\ stage \in [Callers -> Stages]
    /\ context \in [Callers -> SUBSET Capabilities]
    /\ attempts \in [Callers -> 0 .. MaxAttempts]
    /\ plan \in [Callers -> Seq(BashSteps \union PsSteps)]
    /\ required \in [Callers -> SUBSET Capabilities]
    /\ place \in [Callers -> Nat]
    /\ \A c \in Callers : place[c] \in 1 .. Len(plan[c]) + 1
    /\ audit \in [Callers -> {"none", "sleeping", "connecting"}]
    /\ answered \in [Callers -> SUBSET Nat]
    /\ daemon \in {"down", "starting", "up"}
    /\ troubles \in 0 .. MaxTroubles

\* What the auditor's tables say that the commands and redirections of a bash
\* step need, those that its visitor comes to, whatever else the text mentions.
CapsNeeded(step) ==
    {"exec"} \union Commanded(step) \union {cap \in {"write_fs"} : step \in Redirecting}

\* A compiled UCER has been screened as far as the auditors see, whatever befell
\* the daemon between the two audits of a step.  For every step an auditor was
\* there and answered when the gate asked, and may execute.  Of a bash step the
\* auditor could read the text, and neither the caller's context nor the UCER's
\* required_capabilities (the isolation level and the capabilities of a replay
\* are chosen by them) lack what its commands and redirections need.  Of a
\* powershell step no more is so: what it needs besides EXEC nobody finds out.
CompiledIsScreened ==
    \A c \in Callers : stage[c] = "compiled" =>
        \A i \in DOMAIN plan[c] :
            /\ i \in answered[c]
            /\ "exec" \in context[c] \intersect required[c]
            /\ plan[c][i] \in BashSteps =>
                  /\ plan[c][i] \notin Unparsable
                  /\ CapsNeeded(plan[c][i]) \subseteq context[c] \intersect required[c]

Acceptable(c) ==
    /\ ContractHolds(c)
    /\ \A i \in DOMAIN plan[c] :
          /\ plan[c][i] \notin Unparsable
          /\ plan[c][i] \in BashSteps => CapsOf(plan[c][i]) \subseteq context[c]

\* While the daemon neither dies nor is slow, a call is refused for its plan
\* only, although several callers may find no daemon and spawn one each; and
\* it gives up on the LLM's answers after the third one.
GivesUpForCause ==
    \A c \in Callers :
        /\ stage[c] = "refused" /\ troubles = MaxTroubles => ~Acceptable(c)
        /\ stage[c] = "invalid" => attempts[c] = MaxAttempts

=============================================================================
