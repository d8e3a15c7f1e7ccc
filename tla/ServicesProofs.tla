--------------------------- MODULE ServicesProofs ---------------------------
(***************************************************************************)
(* Proofs about the services around the pipeline together, MCServices, and *)
(* about one of them, Rbac; those about the others are in StoresProofs and *)
(* in CompilerProofs.                                                      *)
(*                                                                         *)
(* The argument for Rbac, for every set of ids, entities, requests and     *)
(* guards: whoever passes the check of create_user either finds the id     *)
(* free until it registers its entity, or shares the id with another       *)
(* creation, which is noted in overlapped.  So the entity an AccessContext *)
(* got from the engine stays the engine's own, or its id is noted.         *)
(*                                                                         *)
(* The argument for the services together: they share no state, so each    *)
(* step of theirs is a step of one service and a stutter of the others,    *)
(* and every behaviour of theirs is one of each service's specification.   *)
(***************************************************************************)
EXTENDS MCServices, StoresProofs, CompilerProofs

(* Rbac.                                                                   *)

\* Two creations under way for one id are noted, and so is one for a taken id.
OverlapsAreNoted ==
    \A e \in Entities : creation[e] = "checked" =>
        /\ Registered(IdOf[e]) => IdOf[e] \in overlapped
        /\ \A d \in Entities : creation[d] = "checked" /\ IdOf[d] = IdOf[e] =>
              d = e \/ IdOf[e] \in overlapped

\* Whom a request is made for.
IsCurrent(q, e) ==
    /\ identity[q] = {e} /\ creation[e] = "registered"
    /\ registry[IdOf[e]] = {e} \/ IdOf[e] \in overlapped

ContextsAreCurrent ==
    \A q \in Requests : request[q] # "new" => \E e \in Entities : IsCurrent(q, e)

RbacInv == RbacTypeOK /\ OverlapsAreNoted /\ ContextsAreCurrent

\* The roles that are given to a new entity or granted later exist.
LEMMA RolesExist == {"viewer", "operator"} \subseteq Roles /\ Granted \subseteq Roles
BY RbacAssumption DEF RbacAssumption, Roles, Permissions

\* Ids are those of users or of service accounts.
LEMMA EveryEntityHasAnId == \A e \in Entities : IdOf[e] \in Ids
BY RbacAssumption DEF RbacAssumption

-----------------------------------------------------------------------------

\* At the start there is nobody.
LEMMA RbacStarts == RbacInit => RbacInv
<1> SUFFICES ASSUME RbacInit PROVE RbacInv
    OBVIOUS
<1>1. (CHOOSE g \in Guards : TRUE) \in Guards
    BY RbacAssumption DEF RbacAssumption
<1>2. RbacTypeOK
    BY <1>1 DEF RbacInit, RbacTypeOK, CreationStates, RequestStates
<1>3. OverlapsAreNoted /\ ContextsAreCurrent
    BY DEF RbacInit, OverlapsAreNoted, ContextsAreCurrent
<1> QED
    BY <1>2, <1>3 DEF RbacInv

\* NoteOverlap adds the id of an entity if another creation of it is under way.
LEMMA Noted ==
    ASSUME NEW e \in Entities, NoteOverlap(e), RbacTypeOK
    PROVE  /\ overlapped \subseteq overlapped' /\ overlapped' \subseteq Ids
           /\ \A d \in Entities : creation[d] = "checked" /\ IdOf[d] = IdOf[e] =>
                 d = e \/ IdOf[e] \in overlapped'
BY EveryEntityHasAnId DEF NoteOverlap, RbacTypeOK

\* Every step keeps the invariant.
LEMMA RbacSteps == RbacInv /\ [RbacNext]_rbacVars => RbacInv'
<1> SUFFICES ASSUME RbacInv, [RbacNext]_rbacVars PROVE RbacInv'
    OBVIOUS
<1> USE DEF RbacInv
<1>1. ASSUME NEW e \in Entities, CheckId(e) PROVE RbacInv'
  <2> USE <1>1 DEF CheckId, requestVars
  <2>1. RbacTypeOK'
    <3>1. creation' \in [Entities -> CreationStates]
      BY DEF RbacTypeOK, CreationStates
    <3>2. \A id \in Ids : \A d \in registry[id] : creation'[d] = "registered"
      BY DEF RbacTypeOK
    <3> QED
      BY <3>1, <3>2, Noted DEF RbacTypeOK
  <2>2. OverlapsAreNoted'
    BY Noted, EveryEntityHasAnId DEF OverlapsAreNoted, Registered, RbacTypeOK
  <2>3. ContextsAreCurrent'
    BY Noted DEF ContextsAreCurrent, IsCurrent, RbacTypeOK
  <2> QED
    BY <2>1, <2>2, <2>3
<1>2. ASSUME NEW e \in Entities, Register(e) PROVE RbacInv'
  <2> USE <1>2 DEF Register, requestVars
  <2>1. RbacTypeOK'
    <3>1. creation' \in [Entities -> CreationStates]
      BY DEF RbacTypeOK, CreationStates
    <3>2. roles' \in [Entities -> SUBSET Roles]
      <4>1. PICK given \in {{}, {"operator"}} :
              roles' = [roles EXCEPT ![e] = IF given = {} THEN {"viewer"} ELSE given]
        OBVIOUS
      <4>2. (IF given = {} THEN {"viewer"} ELSE given) \in SUBSET Roles
        BY RolesExist
      <4> QED
        BY <4>1, <4>2 DEF RbacTypeOK
    <3>3. registry' \in [Ids -> SUBSET Entities]
      <4>1. registry \in [Ids -> SUBSET Entities] /\ {e} \in SUBSET Entities
        BY DEF RbacTypeOK
      <4> QED
        BY <4>1
    <3>4. \A id \in Ids : \A d \in registry'[id] : IdOf[d] = id /\ creation'[d] = "registered"
      BY DEF RbacTypeOK
    <3>5. \A id \in Ids : \A c, d \in registry'[id] : c = d
      BY DEF RbacTypeOK
    <3> QED
      BY <3>1, <3>2, <3>3, <3>4, <3>5 DEF RbacTypeOK
  <2>2. OverlapsAreNoted'
    BY EveryEntityHasAnId DEF OverlapsAreNoted, Registered, RbacTypeOK
  <2>3. ContextsAreCurrent'
    <3> SUFFICES ASSUME NEW q \in Requests, request'[q] # "new"
                 PROVE  \E d \in Entities : IsCurrent(q, d)'
      BY DEF ContextsAreCurrent
    <3>1. PICK d \in Entities : IsCurrent(q, d)
      BY DEF ContextsAreCurrent
    <3>2. CASE IdOf[d] = IdOf[e]
      <4>1. IdOf[d] \in overlapped
        BY <3>1, <3>2 DEF IsCurrent, OverlapsAreNoted, Registered
      <4> QED
        BY <3>1, <4>1 DEF IsCurrent, RbacTypeOK
    <3>3. CASE IdOf[d] # IdOf[e]
      BY <3>1, <3>3, EveryEntityHasAnId DEF IsCurrent, RbacTypeOK
    <3> QED
      BY <3>2, <3>3
  <2> QED
    BY <2>1, <2>2, <2>3
<1>3. ASSUME NEW id \in UserIds, NEW role \in Granted,
             GrantRole(id, role) \/ RevokeRole(id, role)
      PROVE  RbacInv'
  <2> USE <1>3 DEF GrantRole, RevokeRole, requestVars
  <2>1. roles' \in [Entities -> SUBSET Roles]
    BY RolesExist DEF RbacTypeOK
  <2>2. RbacTypeOK'
    BY <2>1 DEF RbacTypeOK
  <2>3. OverlapsAreNoted' /\ ContextsAreCurrent'
    BY DEF OverlapsAreNoted, Registered, ContextsAreCurrent, IsCurrent
  <2> QED
    BY <2>2, <2>3
<1>4. ASSUME NEW id \in UserIds, DeactivateUser(id) PROVE RbacInv'
  <2> USE <1>4 DEF DeactivateUser, requestVars
  <2>1. active' \in [Entities -> BOOLEAN]
    OBVIOUS
  <2>2. RbacTypeOK'
    BY <2>1 DEF RbacTypeOK
  <2>3. OverlapsAreNoted' /\ ContextsAreCurrent'
    BY DEF OverlapsAreNoted, Registered, ContextsAreCurrent, IsCurrent
  <2> QED
    BY <2>2, <2>3
<1>5. ASSUME NEW q \in Requests, OpenContext(q) PROVE RbacInv'
  <2> USE <1>5 DEF OpenContext, entityVars
  <2>1. PICK id \in Ids : Registered(id) /\ identity' = [identity EXCEPT ![q] = registry[id]]
    OBVIOUS
  <2>2. PICK e \in Entities : registry[id] = {e} /\ IdOf[e] = id /\ creation[e] = "registered"
    BY <2>1 DEF Registered, RbacTypeOK
  <2>3. RbacTypeOK'
    BY <2>1, <2>2 DEF RbacTypeOK, RequestStates
  <2>4. IsCurrent(q, e)'
    BY <2>1, <2>2 DEF IsCurrent, RbacTypeOK
  <2>5. ContextsAreCurrent'
    BY <2>1, <2>4, SMTT(30) DEF ContextsAreCurrent, IsCurrent, RbacTypeOK
  <2> QED
    BY <2>3, <2>5 DEF OverlapsAreNoted, Registered
<1>6. ASSUME NEW q \in Requests, Check(q) \/ Run(q) PROVE RbacInv'
  <2> USE <1>6 DEF Check, Run, entityVars
  <2>1. request' \in [Requests -> RequestStates]
    BY DEF RbacTypeOK, RequestStates
  <2>2. RbacTypeOK'
    BY <2>1 DEF RbacTypeOK
  <2>3. \A r \in Requests : request'[r] # "new" => request[r] # "new"
    BY DEF RbacTypeOK
  <2>4. OverlapsAreNoted' /\ ContextsAreCurrent'
    BY <2>3 DEF OverlapsAreNoted, Registered, ContextsAreCurrent, IsCurrent
  <2> QED
    BY <2>2, <2>4
<1>7. CASE UNCHANGED rbacVars
    BY <1>7 DEF rbacVars, entityVars, requestVars, RbacTypeOK, OverlapsAreNoted,
                Registered, ContextsAreCurrent, IsCurrent
<1> QED
    BY <1>1, <1>2, <1>3, <1>4, <1>5, <1>6, <1>7 DEF RbacNext

\* The inductive invariant.
THEOREM RbacInvariance == RbacSpec => []RbacInv
BY RbacStarts, RbacSteps, PTL DEF RbacSpec

\* The registry has at most one entity under an id, made for that id, and
\* everybody has roles that exist.
THEOREM RbacTypeCorrect == RbacSpec => []RbacTypeOK
BY RbacInvariance, PTL DEF RbacInv

-----------------------------------------------------------------------------

Admits(q) == request[q] = "held" /\ request'[q] = "allowed"
ByCurrentRoles(q) ==
    \E e \in identity[q] :
        \/ IdOf[e] \in overlapped
        \/ PermittedBy(UNION {roles[d] : d \in registry[IdOf[e]]}, guard[q])

\* Only the decorator's check admits, and the entity it asks is the engine's.
LEMMA AdmissionIsCurrent ==
    ASSUME RbacInv, [RbacNext]_rbacVars, NEW q \in Requests, Admits(q)
    PROVE  ByCurrentRoles(q)
<1>1. PICK e \in Entities : IsCurrent(q, e)
    BY DEF RbacInv, ContextsAreCurrent, Admits
<1>2. PermittedBy(RolesOf(q), guard[q])
    BY DEF Admits, RbacNext, rbacVars, entityVars, requestVars, CheckId, Register, GrantRole,
           RevokeRole, DeactivateUser, OpenContext, Check, Run, RbacInv, RbacTypeOK
<1>3. CASE registry[IdOf[e]] = {e}
    BY <1>1, <1>2, <1>3 DEF ByCurrentRoles, IsCurrent, RolesOf
<1>4. CASE IdOf[e] \in overlapped
    BY <1>1, <1>4 DEF ByCurrentRoles, IsCurrent
<1> QED
    BY <1>1, <1>3, <1>4 DEF IsCurrent

\* A decorator admits by the roles the engine has for the caller's id at that
\* moment, however accounts are created and roles revoked meanwhile, unless two
\* creations of the id overlapped.
THEOREM DecisionsAreCurrent == RbacSpec => DecisionIsCurrent
<1>1. RbacInv /\ [RbacNext]_rbacVars =>
        [\A q \in Requests : Admits(q) => ByCurrentRoles(q)]_rbacVars
    BY AdmissionIsCurrent
<1>2. RbacSpec => [][\A q \in Requests : Admits(q) => ByCurrentRoles(q)]_rbacVars
    BY <1>1, RbacInvariance, PTL DEF RbacSpec
<1> QED
    BY <1>2 DEF DecisionIsCurrent, Admits, ByCurrentRoles

-----------------------------------------------------------------------------
(* The services together.                                                  *)

\* What one of them does, the others do not notice.
LEMMA ServicesActAlone ==
    ASSUME [ServicesNext]_servicesVars
    PROVE  /\ [CompilerNext]_compilerVars
           /\ [RbacNext]_rbacVars
           /\ [SecretsNext]_secretsVars
           /\ [DatabaseNext]_databaseVars
           /\ [SnapshotNext]_snapshotVars
  <1>1. CASE CompilerActs
    BY <1>1 DEF CompilerActs
  <1>2. CASE RbacActs
    BY <1>2 DEF RbacActs
  <1>3. CASE SecretsActs
    BY <1>3 DEF SecretsActs
  <1>4. CASE DatabaseActs
    BY <1>4 DEF DatabaseActs
  <1>5. CASE SnapshotActs
    BY <1>5 DEF SnapshotActs
  <1>6. CASE UNCHANGED servicesVars
    BY <1>6 DEF servicesVars
  <1> QED
    BY <1>1, <1>2, <1>3, <1>4, <1>5, <1>6 DEF ServicesNext

\* A behaviour of the services is a behaviour of each of them.
THEOREM ServicesImplementEach ==
    ServicesSpec => CompilerSpec /\ RbacSpec /\ SecretsSpec /\ DatabaseSpec /\ SnapshotSpec
  <1>1. ServicesInit =>
            CompilerInit /\ RbacInit /\ SecretsInit /\ DatabaseInit /\ SnapshotInit
    BY DEF ServicesInit
  <1>2. [ServicesNext]_servicesVars =>
            /\ [CompilerNext]_compilerVars /\ [RbacNext]_rbacVars /\ [SecretsNext]_secretsVars
            /\ [DatabaseNext]_databaseVars /\ [SnapshotNext]_snapshotVars
    BY ServicesActAlone
  <1> QED
    BY <1>1, <1>2, PTL
    DEF ServicesSpec, CompilerSpec, RbacSpec, SecretsSpec, DatabaseSpec, SnapshotSpec

\* So the state of every service has its type, whatever the services do.
THEOREM ServicesTypeCorrect == ServicesSpec => []TypeOK
  <1>1. CompilerTypeOK /\ RbacTypeOK /\ SecretsTypeOK /\ DatabaseTypeOK /\ SnapshotTypeOK => TypeOK
    BY DEF TypeOK
  <1> QED
    BY <1>1, ServicesImplementEach, CompilerTypeCorrect, RbacTypeCorrect, SecretsTypeCorrect,
       DatabaseTypeCorrect, SnapshotTypeCorrect, PTL

\* And what is promised of each holds of them together.
THEOREM ServicesKeepTheirPromises ==
    ServicesSpec => /\ [](CompiledIsScreened /\ GivesUpForCause)
                    /\ DecisionIsCurrent
                    /\ []StoredIsRead
                    /\ [](DatabaseRaisesNeedCause /\ SavedIsFound)
                    /\ []WorkspaceSurvives /\ RestoreUndoes
  BY ServicesImplementEach, CompiledPlansAreScreened, GivingUpHasCause, DecisionsAreCurrent,
     SecretsAreRead, DatabaseRaisesAreCaused, SavesAreFound, WorkspaceIsNotLost, RestoresUndo, PTL

=============================================================================
