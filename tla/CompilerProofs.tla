--------------------------- MODULE CompilerProofs ---------------------------
(***************************************************************************)
(* Proofs about Compiler, for every set of callers, commands, plans and    *)
(* contexts and every number of troubles with the daemon.                  *)
(*                                                                         *)
(* The argument: while policy_gate.evaluate is at a step, all steps before *)
(* it have passed an audit: its auditor answered, and for a bash step the  *)
(* verdict covers what its commands need.                                  *)
(* Whoever connects to the daemon has probed it or slept, so it answers    *)
(* unless it died or was slow.                                             *)
(***************************************************************************)
EXTENDS Compiler, TLAPS

Passed(c, i) ==
    /\ i \in answered[c]
    /\ "exec" \in context[c] /\ "exec" \in required[c]
    /\ plan[c][i] \in BashSteps =>
          /\ plan[c][i] \notin Unparsable
          /\ CapsNeeded(plan[c][i]) \subseteq context[c]
          /\ CapsNeeded(plan[c][i]) \subseteq required[c]

\* What is so at each point of a call.
CallerOK(c) ==
    /\ audit[c] # "none" => Auditing(c)
    /\ troubles = MaxTroubles => /\ audit[c] = "connecting" => daemon = "up"
                                 /\ audit[c] = "sleeping" => daemon # "down"
    /\ stage[c] \in {"screening", "compiled"} =>
          /\ ContractHolds(c)
          /\ \A i \in 1 .. place[c] - 1 : Passed(c, i)
    /\ stage[c] = "compiled" => place[c] = Len(plan[c]) + 1
    /\ stage[c] = "refused" /\ troubles = MaxTroubles => ~Acceptable(c)
    /\ stage[c] = "invalid" => attempts[c] = MaxAttempts

CompilerInv == CompilerTypeOK /\ \A c \in Callers : CallerOK(c)

-----------------------------------------------------------------------------
(* Verdicts.                                                               *)

\* The bash auditor asks for capabilities that exist, and for all a command needs.
LEMMA BashCapsCover ==
    ASSUME NEW step
    PROVE  /\ CapsOf(step) \subseteq Capabilities /\ "exec" \in Capabilities
           /\ "exec" \in CapsOf(step)
           /\ CapsNeeded(step) \subseteq CapsOf(step)
BY DEF CapsOf, CapsNeeded, Commanded, Mentioned, CommandsFor, TokensFor, Capabilities

\* The command that is being audited is one of the plan.
LEMMA AuditedStep ==
    ASSUME CompilerTypeOK, NEW c \in Callers, Audited(c)
    PROVE  /\ place[c] \in 1 .. Len(plan[c]) /\ place[c] \in Nat /\ Len(plan[c]) \in Nat
           /\ Step(c) \in BashSteps \union PsSteps
<1>1. plan[c] \in Seq(BashSteps \union PsSteps) /\ place[c] \in 1 .. Len(plan[c]) + 1
    BY DEF CompilerTypeOK
<1>2. place[c] <= Len(plan[c])
    BY DEF Audited
<1> QED
    BY <1>1, <1>2 DEF Step

\* A safe verdict is an auditor's, and that of the bash auditor means that the
\* command was parsed and covers what it needs.
LEMMA VerdictIsSound ==
    ASSUME CompilerTypeOK, NEW c \in Callers, Audited(c)
    PROVE  /\ Verdict(c).caps \subseteq Capabilities
           /\ Verdict(c).safe => /\ AuditorAnswers(c)
                                 /\ "exec" \in Verdict(c).caps
                                 /\ Step(c) \in BashSteps =>
                                       /\ Step(c) \notin Unparsable
                                       /\ CapsNeeded(Step(c)) \subseteq Verdict(c).caps
<1>1. CASE Step(c) \in BashSteps
    BY <1>1, BashCapsCover DEF Verdict, AuditBash, AuditorAnswers
<1>2. CASE Step(c) \notin BashSteps
    BY <1>2, BashCapsCover DEF Verdict, AuditPs, DaemonFindsSafe, AuditorAnswers
<1> QED
    BY <1>1, <1>2

\* While the daemon has given no trouble, a step is found unsafe, or to need
\* too much, for what it is.
LEMMA VerdictHasCause ==
    ASSUME CompilerTypeOK, NEW c \in Callers, CallerOK(c), Audited(c), ContractHolds(c),
           troubles = MaxTroubles, Step(c) \notin Unparsable,
           Step(c) \in BashSteps => CapsOf(Step(c)) \subseteq context[c]
    PROVE  Verdict(c).safe /\ Verdict(c).caps \subseteq context[c]
<1>1. CASE Step(c) \in BashSteps
    BY <1>1 DEF Verdict, AuditBash
<1>2. CASE Step(c) \notin BashSteps
  <2>1. daemon = "up"
    BY <1>2 DEF Audited, CallerOK
  <2> QED
    BY <1>2, <2>1 DEF Verdict, AuditPs, DaemonFindsSafe, ContractHolds
<1> QED
    BY <1>1, <1>2

-----------------------------------------------------------------------------
(* Steps.                                                                  *)

\* What a step leaves alone for a caller.
Same(d) ==
    /\ stage'[d] = stage[d] /\ context'[d] = context[d] /\ attempts'[d] = attempts[d]
    /\ plan'[d] = plan[d] /\ required'[d] = required[d]
    /\ place'[d] = place[d] /\ audit'[d] = audit[d] /\ answered'[d] = answered[d]

\* The daemon is not taken away, or that is a trouble.
Calm ==
    \/ troubles' # MaxTroubles
    \/ /\ troubles' = troubles
       /\ daemon = "up" => daemon' = "up"
       /\ daemon # "down" => daemon' # "down"

\* A step of one call keeps what holds of another.
LEMMA OthersStay ==
    ASSUME NEW d \in Callers, CallerOK(d), Same(d), Calm PROVE CallerOK(d)'
BY DEF Same, Calm, CallerOK, Auditing, Step, Passed, ContractHolds, Acceptable

\* A trouble is counted, and never undone.
LEMMA TroublesAreCounted ==
    ASSUME CompilerTypeOK, Trouble PROVE troubles' \in 0 .. MaxTroubles /\ troubles' # MaxTroubles
<1>1. troubles \in 0 .. MaxTroubles /\ troubles > 0 /\ troubles' = troubles - 1
    BY DEF CompilerTypeOK, Trouble
<1>2. MaxTroubles \in Nat
    BY CompilerAssumption DEF CompilerAssumption
<1> QED
    BY <1>1, <1>2

\* At the start nobody has called.
LEMMA CompilerStarts == CompilerInit => CompilerInv
<1> SUFFICES ASSUME CompilerInit PROVE CompilerInv
    OBVIOUS
<1>1. troubles \in 0 .. MaxTroubles
    BY CompilerAssumption DEF CompilerAssumption, CompilerInit
<1>2. << >> \in Seq(BashSteps \union PsSteps) /\ Len(<< >>) = 0
    OBVIOUS
<1>3. CompilerTypeOK
    BY <1>1, <1>2 DEF CompilerInit, CompilerTypeOK, Stages, MaxAttempts
<1>4. \A c \in Callers : CallerOK(c)
    BY DEF CompilerInit, CallerOK
<1> QED
    BY <1>3, <1>4 DEF CompilerInv

\* The LLM's answers.
LEMMA AskingSteps ==
    ASSUME CompilerInv, NEW c \in Callers,
           Compile(c) \/ Answered(c) \/ AnsweredAmiss(c) \/ NotAnswered(c)
    PROVE  CompilerInv'
<1> USE DEF CompilerInv, Enter
<1>1. Calm /\ \A d \in Callers : d # c => Same(d)
    BY DEF Compile, Answered, AnsweredAmiss, NotAnswered, Calm, Same, CompilerTypeOK
<1>2. audit' = audit /\ audit[c] = "none"
    BY DEF Compile, Answered, AnsweredAmiss, NotAnswered, CallerOK, Auditing
<1>3. CASE Compile(c)
  <2> USE <1>3 DEF Compile
  <2>1. stage' \in [Callers -> Stages] /\ attempts' \in [Callers -> 0 .. MaxAttempts]
    BY DEF CompilerTypeOK, Stages, MaxAttempts
  <2>2. context' \in [Callers -> SUBSET Capabilities]
    BY CompilerAssumption DEF CompilerAssumption, CompilerTypeOK
  <2>3. CompilerTypeOK'
    BY <2>1, <2>2 DEF CompilerTypeOK
  <2>4. CallerOK(c)'
    BY <1>2 DEF CallerOK, CompilerTypeOK
  <2> QED
    BY <1>1, <2>3, <2>4, OthersStay
<1>4. CASE Answered(c)
  <2> USE <1>4 DEF Answered
  <2>1. plan' \in [Callers -> Seq(BashSteps \union PsSteps)]
    BY CompilerAssumption DEF CompilerAssumption, CompilerTypeOK
  <2>2. \A d \in Callers : place'[d] \in 1 .. Len(plan'[d]) + 1
    BY <1>1, <2>1 DEF CompilerTypeOK, Same
  <2>3. CompilerTypeOK'
    BY <2>1, <2>2 DEF CompilerTypeOK, Stages
  <2>4. CallerOK(c)'
    BY <1>2 DEF CallerOK, CompilerTypeOK
  <2> QED
    BY <1>1, <2>3, <2>4, OthersStay
<1>5. CASE AnsweredAmiss(c) \/ NotAnswered(c)
  <2> USE <1>5 DEF AnsweredAmiss, NotAnswered
  <2>0. /\ attempts[c] < MaxAttempts => attempts[c] + 1 \in 0 .. MaxAttempts
        /\ ~(attempts[c] < MaxAttempts) => attempts[c] = MaxAttempts
    <3>1. attempts[c] \in 0 .. 3
      BY DEF CompilerTypeOK, MaxAttempts
    <3> QED
      BY <3>1 DEF MaxAttempts
  <2>1. attempts' \in [Callers -> 0 .. MaxAttempts]
    BY <2>0 DEF CompilerTypeOK
  <2>2. CompilerTypeOK'
    BY <2>1 DEF CompilerTypeOK, Stages
  <2>3. CallerOK(c)'
    <3>1. stage'[c] \in {"asking", "unanswered", "invalid"}
      BY DEF CompilerTypeOK
    <3>2. stage'[c] = "invalid" => attempts'[c] = MaxAttempts
      BY <2>0 DEF CompilerTypeOK
    <3> QED
      BY <1>2, <3>1, <3>2 DEF CallerOK
  <2> QED
    BY <1>1, <2>2, <2>3, OthersStay
<1> QED
    BY <1>3, <1>4, <1>5

\* The way to a connection with the daemon.
LEMMA DaemonSteps ==
    ASSUME CompilerInv, NEW c \in Callers, Probe(c) \/ Wake(c) \/ WakeTooEarly(c)
    PROVE  CompilerInv'
<1> USE DEF CompilerInv
<1>1. troubles' \in 0 .. MaxTroubles /\ (WakeTooEarly(c) => troubles' # MaxTroubles)
    BY TroublesAreCounted DEF Probe, Wake, WakeTooEarly, CompilerTypeOK
<1>2. Calm /\ \A d \in Callers : d # c => Same(d)
    BY <1>1 DEF Probe, Wake, WakeTooEarly, Calm, Same, CompilerTypeOK
<1>3. CompilerTypeOK'
    BY <1>1 DEF Probe, Wake, WakeTooEarly, CompilerTypeOK
<1>4. audit'[c] \in {"sleeping", "connecting"} /\ Auditing(c)
    BY DEF Probe, Wake, WakeTooEarly, CallerOK, CompilerTypeOK
<1>5. /\ stage' = stage /\ plan' = plan /\ place' = place /\ context' = context
      /\ required' = required /\ attempts' = attempts /\ answered' = answered
    BY DEF Probe, Wake, WakeTooEarly
<1>6. troubles' = MaxTroubles => /\ audit'[c] = "connecting" => daemon' = "up"
                                 /\ audit'[c] = "sleeping" => daemon' # "down"
    BY <1>1 DEF Probe, Wake, WakeTooEarly, CallerOK, CompilerTypeOK
<1>7. CallerOK(c)'
    BY <1>4, <1>5, <1>6 DEF CallerOK, Auditing, Step, Passed, ContractHolds
<1> QED
    BY <1>2, <1>3, <1>7, OthersStay

\* The capability mapper.
LEMMA ResolveSteps ==
    ASSUME CompilerInv, NEW c \in Callers, Resolve(c) \/ Resolved(c) PROVE CompilerInv'
<1> USE DEF CompilerInv, Enter
<1>1. Calm /\ \A d \in Callers : d # c => Same(d)
    BY DEF Resolve, Resolved, Calm, Same, CompilerTypeOK
<1>2. CASE Resolve(c)
  <2> USE <1>2 DEF Resolve
  <2>1. required' \in [Callers -> SUBSET Capabilities]
    BY VerdictIsSound DEF CompilerTypeOK
  <2>2. place'[c] \in 1 .. Len(plan[c]) + 1
    BY AuditedStep DEF CompilerTypeOK
  <2>3. CompilerTypeOK'
    BY <1>1, <2>1, <2>2 DEF CompilerTypeOK, Same
  <2>4. CallerOK(c)'
    BY DEF CallerOK, CompilerTypeOK
  <2> QED
    BY <1>1, <2>3, <2>4, OthersStay
<1>3. CASE Resolved(c)
  <2> USE <1>3 DEF Resolved
  <2>1. \A d \in Callers : place'[d] \in 1 .. Len(plan[d]) + 1
    BY DEF CompilerTypeOK
  <2>2. CompilerTypeOK'
    BY <2>1 DEF CompilerTypeOK, Stages
  <2>3. audit[c] = "none"
    <3>1. place[c] \in Nat /\ Len(plan[c]) \in Nat /\ place[c] > Len(plan[c])
      BY DEF CompilerTypeOK
    <3> QED
      BY <3>1 DEF CallerOK, Auditing
  <2>4. CallerOK(c)'
    BY <2>3 DEF CallerOK, CompilerTypeOK, ContractHolds, Acceptable
  <2> QED
    BY <1>1, <2>2, <2>4, OthersStay
<1> QED
    BY <1>2, <1>3

\* The policy gate.
LEMMA ScreenSteps ==
    ASSUME CompilerInv, NEW c \in Callers, Screen(c) PROVE CompilerInv'
<1> USE DEF CompilerInv, Enter, Screen
<1>1. Calm /\ \A d \in Callers : d # c => Same(d)
    BY DEF Calm, Same, CompilerTypeOK
<1>2. /\ Verdict(c).caps \subseteq Capabilities
      /\ Verdict(c).safe => /\ AuditorAnswers(c) /\ "exec" \in Verdict(c).caps
                            /\ Step(c) \in BashSteps =>
                                  /\ Step(c) \notin Unparsable
                                  /\ CapsNeeded(Step(c)) \subseteq Verdict(c).caps
    BY VerdictIsSound
<1>3. place[c] \in 1 .. Len(plan[c]) /\ place[c] \in Nat /\ Len(plan[c]) \in Nat
    BY AuditedStep
<1>4. CompilerTypeOK'
  <2>1. required' \in [Callers -> SUBSET Capabilities]
    BY <1>2 DEF CompilerTypeOK
  <2>2. place'[c] \in 1 .. Len(plan[c]) + 1
    BY <1>3 DEF CompilerTypeOK
  <2>3. place' \in [Callers -> Nat]
    BY <1>3 DEF CompilerTypeOK
  <2>4. stage' \in [Callers -> Stages] /\ audit' \in [Callers -> {"none", "sleeping", "connecting"}]
    BY DEF CompilerTypeOK, Stages
  <2>5. \A d \in Callers : place'[d] \in 1 .. Len(plan'[d]) + 1
    BY <1>1, <2>2 DEF CompilerTypeOK, Same
  <2>6. answered' \in [Callers -> SUBSET Nat]
    BY <1>3 DEF CompilerTypeOK
  <2> QED
    BY <2>1, <2>3, <2>4, <2>5, <2>6 DEF CompilerTypeOK
<1>5. /\ required[c] \subseteq required'[c] /\ Verdict(c).caps \subseteq required'[c]
      /\ answered[c] \subseteq answered'[c]
      /\ AuditorAnswers(c) => place[c] \in answered'[c]
    BY DEF CompilerTypeOK
<1>6. ContractHolds(c) /\ \A i \in 1 .. place[c] - 1 : Passed(c, i)
    BY DEF CallerOK
<1>7. CASE Verdict(c).safe /\ Verdict(c).caps \subseteq context[c]
  <2>1. stage' = stage /\ place'[c] = place[c] + 1 /\ audit'[c] = "none"
    BY <1>7 DEF CompilerTypeOK
  <2>2. \A i \in 1 .. place[c] - 1 : Passed(c, i)'
    BY <1>5, <1>6 DEF Passed
  <2>3. \A i \in Nat : i = place[c] => Passed(c, i)'
    BY <1>2, <1>5, <1>7 DEF Passed, Step
  <2>4. \A i \in 1 .. place'[c] - 1 : Passed(c, i)'
    <3>1. \A i \in 1 .. place'[c] - 1 : i \in 1 .. place[c] - 1 \/ i = place[c]
      BY <1>3, <2>1
    <3> QED
      BY <2>2, <2>3, <3>1
  <2>5. CallerOK(c)'
    BY <1>6, <2>1, <2>4 DEF CallerOK, ContractHolds
  <2> QED
    BY <1>1, <1>4, <2>5, OthersStay
<1>8. CASE ~(Verdict(c).safe /\ Verdict(c).caps \subseteq context[c])
  <2>1. stage'[c] = "refused" /\ audit'[c] = "none"
    BY <1>8 DEF CompilerTypeOK
  <2>2. troubles = MaxTroubles => ~Acceptable(c)
    <3> SUFFICES ASSUME troubles = MaxTroubles, Acceptable(c) PROVE FALSE
      OBVIOUS
    <3>1. place[c] \in DOMAIN plan[c]
      BY <1>3 DEF CompilerTypeOK
    <3>2. Step(c) \notin Unparsable /\ (Step(c) \in BashSteps => CapsOf(Step(c)) \subseteq context[c])
      BY <3>1 DEF Acceptable, Step
    <3> QED
      BY <1>6, <1>8, <3>2, VerdictHasCause
  <2>3. CallerOK(c)'
    BY <2>1, <2>2 DEF CallerOK, Acceptable, ContractHolds
  <2> QED
    BY <1>1, <1>4, <2>3, OthersStay
<1> QED
    BY <1>7, <1>8

\* evaluate returns behind the last step.
LEMMA ReturnSteps ==
    ASSUME CompilerInv, NEW c \in Callers, Return(c) PROVE CompilerInv'
<1> USE DEF CompilerInv, Enter, Return
<1>1. Calm /\ \A d \in Callers : d # c => Same(d)
    BY DEF Calm, Same, CompilerTypeOK
<1>2. CompilerTypeOK'
    BY DEF CompilerTypeOK, Stages
<1>3. place[c] \in 1 .. Len(plan[c]) + 1 /\ place[c] > Len(plan[c]) /\ Len(plan[c]) \in Nat
    BY DEF CompilerTypeOK
<1>4. audit[c] = "none" /\ place[c] = Len(plan[c]) + 1
    BY <1>3 DEF CallerOK, Auditing
<1>5. CallerOK(c)'
    BY <1>4 DEF CallerOK, CompilerTypeOK, ContractHolds, Passed
<1> QED
    BY <1>1, <1>2, <1>5, OthersStay

\* Every step keeps the invariant.
LEMMA CompilerSteps == CompilerInv /\ [CompilerNext]_compilerVars => CompilerInv'
<1> SUFFICES ASSUME CompilerInv, [CompilerNext]_compilerVars PROVE CompilerInv'
    OBVIOUS
<1>1. ASSUME DaemonBinds \/ DaemonDies PROVE CompilerInv'
  <2>1. troubles' \in 0 .. MaxTroubles /\ (DaemonDies => troubles' # MaxTroubles)
    BY <1>1, TroublesAreCounted DEF DaemonBinds, DaemonDies, CompilerInv, CompilerTypeOK
  <2>2. Calm /\ \A d \in Callers : Same(d)
    BY <1>1, <2>1 DEF DaemonBinds, DaemonDies, Calm, Same, callVars
  <2>3. CompilerTypeOK'
    BY <1>1, <2>1 DEF DaemonBinds, DaemonDies, CompilerInv, CompilerTypeOK, callVars
  <2> QED
    BY <2>2, <2>3, OthersStay DEF CompilerInv
<1>2. CASE UNCHANGED compilerVars
  <2>1. Calm /\ \A d \in Callers : Same(d)
    BY <1>2 DEF compilerVars, callVars, Calm, Same
  <2>2. CompilerTypeOK'
    BY <1>2 DEF compilerVars, callVars, CompilerInv, CompilerTypeOK
  <2> QED
    BY <2>1, <2>2, OthersStay DEF CompilerInv
<1> QED
    BY <1>1, <1>2, AskingSteps, DaemonSteps, ResolveSteps, ScreenSteps, ReturnSteps
    DEF CompilerNext, CallStep

\* The inductive invariant.
THEOREM CompilerInvariance == CompilerSpec => []CompilerInv
BY CompilerStarts, CompilerSteps, PTL DEF CompilerSpec

\* A call asks the LLM at most three times, and its plans, capabilities and
\* places have their types.
THEOREM CompilerTypeCorrect == CompilerSpec => []CompilerTypeOK
BY CompilerInvariance, PTL DEF CompilerInv

\* What compile returns has been screened: an auditor answered for every step
\* when the gate asked, every bash step was parsed, and all that its commands and
\* redirections need is in the caller's context and in required_capabilities.
THEOREM CompiledPlansAreScreened == CompilerSpec => []CompiledIsScreened
<1>1. CompilerInv => CompiledIsScreened
  <2> SUFFICES ASSUME CompilerInv, NEW c \in Callers, stage[c] = "compiled",
                      NEW i \in DOMAIN plan[c]
               PROVE  Passed(c, i)
    BY DEF CompiledIsScreened, Passed
  <2>1. place[c] = Len(plan[c]) + 1 /\ \A j \in 1 .. place[c] - 1 : Passed(c, j)
    BY DEF CompilerInv, CallerOK
  <2>2. Len(plan[c]) \in Nat /\ i \in 1 .. Len(plan[c])
    BY DEF CompilerInv, CompilerTypeOK
  <2> QED
    BY <2>1, <2>2
<1> QED
    BY <1>1, CompilerInvariance, PTL

\* Without troubles, a call is refused for its plan only, and it gives up on
\* the LLM's answers only after the third.
THEOREM GivingUpHasCause == CompilerSpec => []GivesUpForCause
<1>1. CompilerInv => GivesUpForCause
    BY DEF CompilerInv, CallerOK, GivesUpForCause
<1> QED
    BY <1>1, CompilerInvariance, PTL

=============================================================================
