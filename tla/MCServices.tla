----------------------------- MODULE MCServices ----------------------------
(***************************************************************************)
(* The instance of the services around the pipeline that TLC checks: the   *)
(* semantic compiler, RBAC, the secrets store, the database and the        *)
(* snapshots.  They share no state, so a behaviour is one of a single      *)
(* service, the subject, while the others stay as they are at first.       *)
(***************************************************************************)
EXTENDS Compiler, Rbac, Secrets, Database, Snapshot, TLC

VARIABLE subject    \* the service whose behaviour this is

ServicesInit ==
    /\ CompilerInit /\ RbacInit /\ SecretsInit /\ DatabaseInit /\ SnapshotInit
    /\ subject \in {"compiler", "rbac", "secrets", "database", "snapshot"}
    /\ subject # "database" => backend = "nats"
    /\ subject # "snapshot" => users # Cycles

CompilerActs ==
    /\ subject = "compiler" /\ CompilerNext
    /\ UNCHANGED <<rbacVars, secretsVars, databaseVars, snapshotVars, subject>>

RbacActs ==
    /\ subject = "rbac" /\ RbacNext
    /\ UNCHANGED <<compilerVars, secretsVars, databaseVars, snapshotVars, subject>>

SecretsActs ==
    /\ subject = "secrets" /\ SecretsNext
    /\ UNCHANGED <<compilerVars, rbacVars, databaseVars, snapshotVars, subject>>

DatabaseActs ==
    /\ subject = "database" /\ DatabaseNext
    /\ UNCHANGED <<compilerVars, rbacVars, secretsVars, snapshotVars, subject>>

SnapshotActs ==
    /\ subject = "snapshot" /\ SnapshotNext
    /\ UNCHANGED <<compilerVars, rbacVars, secretsVars, databaseVars, subject>>

ServicesNext ==
    \/ CompilerActs \/ RbacActs \/ SecretsActs \/ DatabaseActs \/ SnapshotActs

servicesVars ==
    <<compilerVars, rbacVars, secretsVars, databaseVars, snapshotVars, subject>>

ServicesSpec == ServicesInit /\ [][ServicesNext]_servicesVars

-----------------------------------------------------------------------------
(* Values of the constants.                                                *)

MCBashSteps  == {"list", "append", "garbled"}      \* e.g. ls, echo curl >> log, ls (
MCPsSteps    == {"ps", "psgarbled"}
MCUnparsable == {"garbled", "psgarbled"}
MCWords      == [list |-> {"ls"}, append |-> {"echo"}, garbled |-> {}]
MCTokens     == [list |-> {}, append |-> {"curl"}, garbled |-> {"ls "}]
MCPlans == {<<"ps">>, <<"list", "ps">>, <<"append">>, <<"ps", "garbled">>, <<"psgarbled">>}
MCContexts == {{"exec", "fs_read"}, {"fs_read", "write_fs"}, {"exec", "network", "write_fs"}}

MCIdOf == [first |-> "u1", second |-> "u1", robot |-> "sa1"]
MCGuards == {[perms |-> {"workflow:execute"}, all |-> FALSE],
             [perms |-> {"policy:update", "secrets:write"}, all |-> TRUE]}

\* Of the interchangeable values, those whose exchange saves most states.
Interchangeable == Permutations(Coroutines) \union Permutations(Callers)

-----------------------------------------------------------------------------

\* Every service's state has its type.
TypeOK ==
    /\ CompilerTypeOK
    /\ RbacTypeOK
    /\ SecretsTypeOK
    /\ DatabaseTypeOK
    /\ SnapshotTypeOK

=============================================================================
