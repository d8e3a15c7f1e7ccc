------------------------------- MODULE Rbac --------------------------------
(***************************************************************************)
(* core/rbac_system.py: one RBACEngine used by several threads.  Accounts  *)
(* are created, roles granted and revoked, users deactivated, while        *)
(* requests hold AccessContexts and call functions behind an RBACDecorator.*)
(*                                                                         *)
(* An entity is a User or ServiceAccount object; two calls of create_user  *)
(* with one id make two of them, and the engine registers one.  An action  *)
(* is what a thread does between two points where another one may run: the *)
(* look into a dictionary and the assignment to it are two.                *)
(***************************************************************************)
EXTENDS FiniteSets

CONSTANTS
    UserIds, AccountIds,    \* the ids under which entities are created
    Entities,               \* the objects, each made by a call of its own
    IdOf,                   \* the id each of these calls was given
    Requests,               \* the calls of protected functions
    Granted,                \* the roles that are granted and revoked
    Guards                  \* the decorators of these functions

Ids == UserIds \union AccountIds

-----------------------------------------------------------------------------
(* Roles and permissions.                                                  *)

\* DEFAULT_ROLES
Permissions ==
    [viewer |-> {"workflow:read", "execution:view", "execution:logs", "audit:read"},
     operator |-> {"workflow:read", "workflow:execute", "workflow:stop",
                   "execution:view", "execution:logs", "policy:read"},
     developer |-> {"workflow:create", "workflow:read", "workflow:update",
                    "workflow:execute", "workflow:stop", "execution:view",
                    "execution:logs", "policy:read", "secrets:read"},
     security_admin |-> {"policy:read", "policy:create", "policy:update",
                         "policy:delete", "audit:read", "audit:export",
                         "secrets:read", "secrets:write", "workflow:read",
                         "execution:view"},
     admin |-> {"workflow:create", "workflow:read", "workflow:update",
                "workflow:delete", "workflow:execute", "workflow:stop",
                "execution:view", "execution:logs", "policy:read",
                "policy:create", "policy:update", "policy:delete",
                "audit:read", "audit:export", "secrets:read", "secrets:write",
                "admin:users", "admin:config", "admin:system"}]

Roles == DOMAIN Permissions

ASSUME RbacAssumption ==
    /\ UserIds \intersect AccountIds = {}
    /\ IdOf \in [Entities -> Ids]
    /\ Granted \subseteq Roles
    /\ Guards # {}

\* get_all_permissions
PermissionsOf(held) == UNION {Permissions[r] : r \in held}

\* A decorator names permissions, and whether all of them are required.
PermittedBy(held, g) ==
    LET perms == PermissionsOf(held)
    IN  IF g.all THEN g.perms \subseteq perms
        ELSE g.perms \intersect perms # {}

-----------------------------------------------------------------------------

VARIABLES
    creation,   \* how far the call that makes each entity is
    roles,      \* the roles of each entity
    active,     \* User.is_active
    registry,   \* RBACEngine.users and .service_accounts: at most one per id
    overlapped, \* ids two creations of which overlapped; read by properties only
    request,    \* how far each request is
    identity,   \* the entity its AccessContext holds, as a set
    guard       \* the decorator of the function it calls

entityVars  == <<creation, roles, active, registry, overlapped>>
requestVars == <<request, identity, guard>>
rbacVars    == <<entityVars, requestVars>>

CreationStates == {"none", "checked", "registered", "refused"}
RequestStates  == {"new", "held", "allowed", "denied", "ran"}

Registered(id) == registry[id] # {}

NoteOverlap(e) ==
    overlapped' = overlapped \union
        {IdOf[d] : d \in {x \in Entities \ {e} : IdOf[x] = IdOf[e] /\ creation[x] = "checked"}}

\* Mutant of CheckId: an id that is taken is given to the new entity.
TakeId(e) ==
    /\ creation[e] = "none"
    /\ creation' = [creation EXCEPT ![e] = "checked"]
    /\ NoteOverlap(e)
    /\ UNCHANGED <<roles, active, registry, requestVars>>

\* create_user, create_service_account: "already exists".
CheckId(e) ==
    /\ creation[e] = "none"
    /\ creation' = [creation EXCEPT ![e] = IF Registered(IdOf[e]) THEN "refused" ELSE "checked"]
    /\ NoteOverlap(e)
    /\ UNCHANGED <<roles, active, registry, requestVars>>

\* The entity is made, a viewer unless roles were given, and registered.
Register(e) ==
    /\ creation[e] = "checked"
    /\ \E given \in {{}, {"operator"}} :
          roles' = [roles EXCEPT ![e] = IF given = {} THEN {"viewer"} ELSE given]
    /\ registry' = [registry EXCEPT ![IdOf[e]] = {e}]
    /\ creation' = [creation EXCEPT ![e] = "registered"]
    /\ UNCHANGED <<active, overlapped, requestVars>>

\* For an id nobody has these three return False; service accounts have none.
GrantRole(id, role) ==
    /\ Registered(id)
    /\ roles' = [e \in Entities |->
                    IF e \in registry[id] THEN roles[e] \union {role} ELSE roles[e]]
    /\ UNCHANGED <<creation, active, registry, overlapped, requestVars>>

RevokeRole(id, role) ==
    /\ Registered(id)
    /\ roles' = [e \in Entities |->
                    IF e \in registry[id] THEN roles[e] \ {role} ELSE roles[e]]
    /\ UNCHANGED <<creation, active, registry, overlapped, requestVars>>

\* Only check_user_active reads the flag, and nothing here calls that.
DeactivateUser(id) ==
    /\ Registered(id)
    /\ active' = [e \in Entities |-> active[e] /\ e \notin registry[id]]
    /\ UNCHANGED <<creation, roles, registry, overlapped, requestVars>>

\* A request gets an AccessContext for the entity that is registered now.
OpenContext(q) ==
    /\ request[q] = "new"
    /\ \E id \in Ids : /\ Registered(id)
                       /\ identity' = [identity EXCEPT ![q] = registry[id]]
    /\ \E g \in Guards : guard' = [guard EXCEPT ![q] = g]
    /\ request' = [request EXCEPT ![q] = "held"]
    /\ UNCHANGED entityVars

\* AccessContext.get_permissions, at the time of the call.
RolesOf(q) == UNION {roles[e] : e \in identity[q]}

\* verify_all_permissions or verify_any_permission, called by the decorator:
\* it raises PermissionError or goes on to the function.
Check(q) ==
    /\ request[q] = "held"
    /\ request' = [request EXCEPT ![q] =
                      IF PermittedBy(RolesOf(q), guard[q]) THEN "allowed" ELSE "denied"]
    /\ UNCHANGED <<entityVars, identity, guard>>

Run(q) ==
    /\ request[q] = "allowed"
    /\ request' = [request EXCEPT ![q] = "ran"]
    /\ UNCHANGED <<entityVars, identity, guard>>

RbacInit ==
    /\ creation = [e \in Entities |-> "none"]
    /\ roles = [e \in Entities |-> {}]
    /\ active = [e \in Entities |-> TRUE]
    /\ registry = [id \in Ids |-> {}]
    /\ overlapped = {}
    /\ request = [q \in Requests |-> "new"]
    /\ identity = [q \in Requests |-> {}]
    /\ guard = [q \in Requests |-> CHOOSE g \in Guards : TRUE]

RbacNext ==
    \/ \E e \in Entities : CheckId(e) \/ Register(e)
    \/ \E id \in UserIds : \/ \E role \in Granted : GrantRole(id, role) \/ RevokeRole(id, role)
                           \/ DeactivateUser(id)
    \/ \E q \in Requests : OpenContext(q) \/ Check(q) \/ Run(q)

RbacSpec == RbacInit /\ [][RbacNext]_rbacVars

-----------------------------------------------------------------------------
(* Properties.                                                             *)

RbacTypeOK ==
    /\ creation \in [Entities -> CreationStates]
    /\ roles \in [Entities -> SUBSET Roles]
    /\ active \in [Entities -> BOOLEAN]
    /\ registry \in [Ids -> SUBSET Entities]
    /\ \A id \in Ids : \A e \in registry[id] : IdOf[e] = id /\ creation[e] = "registered"
    /\ \A id \in Ids : \A d, e \in registry[id] : d = e
    /\ overlapped \subseteq Ids
    /\ request \in [Requests -> RequestStates]
    /\ identity \in [Requests -> SUBSET Entities]
    /\ guard \in [Requests -> Guards]

\* What a decorator admits, it admits by the roles that the engine has for
\* the caller's id at that moment, not by those of the time the AccessContext
\* was made: a role that was revoked in between admits nobody.  Only if two
\* creations of the id overlapped may the context hold an entity that the
\* engine no longer knows and that grant_role and revoke_role do not reach.
DecisionIsCurrent ==
    [][\A q \in Requests : request[q] = "held" /\ request'[q] = "allowed" =>
          \E e \in identity[q] :
              \/ IdOf[e] \in overlapped
              \/ PermittedBy(UNION {roles[d] : d \in registry[IdOf[e]]}, guard[q])
      ]_rbacVars

=============================================================================
