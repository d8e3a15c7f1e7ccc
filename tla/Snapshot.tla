----------------------------- MODULE Snapshot ------------------------------
(***************************************************************************)
(* FastHardlinkSnapshot of engine/state_manager.py over one directory, and *)
(* who uses it: UniversalExecutorFacade.replay, of which several may be in *)
(* progress in one event loop, MutationController.run_cycle and            *)
(* ExecutionManager.execute_ucer, which run without an await.  The backup  *)
(* path is computed from the directory, so all its users have the same     *)
(* one.  The directory is that of the workspaces, for replays and managers *)
(* made for it, or ./core, for cycles.                                     *)
(*                                                                         *)
(* capture and restore block the event loop, but not the sandboxes, whose  *)
(* commands write to the directory at any time.  A backup file is a hard   *)
(* link: until one of the two names gets another file, a write in place    *)
(* changes both.  One process uses the directory; it may die at any point. *)
(***************************************************************************)
EXTENDS Integers, FiniteSets

CONSTANTS
    Files,
    Replays, Cycles, Managers,  \* who takes a snapshot, once each
    MaxWrites,                  \* bound: writes to files
    MaxStops                    \* bound: crashes, and cp and rmtree calls that fail half-way

ASSUME SnapshotAssumption ==
    /\ MaxWrites \in Nat /\ MaxStops \in Nat
    /\ Replays \intersect (Cycles \union Managers) = {} /\ Cycles \intersect Managers = {}

Users == Replays \union Cycles \union Managers

VARIABLES
    root,       \* the content of each file of the directory
    rootThere,  \* the directory exists
    backup,     \* the content of each file of the backup
    backupThere,
    linked,     \* files whose two names are one file
    users,      \* the users of this directory
    user,       \* how far each user is
    captor,     \* the user whose capture was the last to begin; read by properties only
    seen,       \* what that capture linked; likewise
    dirty,      \* files a restore cannot give back; likewise
    cutOff,     \* a restore was cut off before its end; likewise
    wiped,      \* a capture began without a directory; likewise
    writes,     \* writes so far
    stops       \* stops left

treeVars      == <<root, rootThere, backup, backupThere, linked>>
historyOfTree == <<captor, seen, dirty, cutOff, wiped>>
snapshotVars  == <<treeVars, users, user, historyOfTree, writes, stops>>

Absent  == 0
NoFiles == [f \in Files |-> Absent]
Present(tree) == {f \in Files : tree[f] # Absent}

UserStates == {"idle", "capturing", "running", "restoring", "over", "raised", "cut off"}
Set(u, state) == user' = [user EXCEPT ![u] = state]
Restoring == \E u \in Users : user[u] = "restoring"

\* Nobody is inside a call that does not await, so another user may go on.
LoopIsFree ==
    \A u \in Users : /\ user[u] \notin {"capturing", "restoring"}
                     /\ user[u] = "running" => u \in Replays

-----------------------------------------------------------------------------
(* capture.                                                                *)

RemoveBackup(u) ==
    /\ u \in users /\ user[u] = "idle" /\ LoopIsFree
    /\ backup' = NoFiles
    /\ backupThere' = FALSE
    /\ linked' = {}
    /\ captor' = {u}
    /\ wiped' = (wiped \/ ~rootThere)
    /\ Set(u, "capturing")
    /\ UNCHANGED <<root, rootThere, users, seen, dirty, cutOff, writes, stops>>

\* cp -al; without a directory it fails, and capture raises.
Link(u) ==
    /\ user[u] = "capturing"
    /\ IF rootThere
       THEN /\ backup' = root
            /\ backupThere' = TRUE
            /\ linked' = Present(root)
            /\ seen' = root
            /\ dirty' = {}
            /\ Set(u, "running")
       ELSE Set(u, "raised") /\ UNCHANGED <<backup, backupThere, linked, seen, dirty>>
    /\ UNCHANGED <<root, rootThere, users, captor, cutOff, wiped, writes, stops>>

Stop == stops > 0 /\ stops' = stops - 1

\* cp -al fails half-way, at a file that a sandbox removes while it runs: capture
\* raises, and leaves a backup of some of the files.
LinkFails(u) ==
    /\ Stop
    /\ user[u] = "capturing" /\ rootThere
    /\ \E reached \in SUBSET Present(root) :
          /\ backup' = [f \in Files |-> IF f \in reached THEN root[f] ELSE Absent]
          /\ linked' = reached
    /\ backupThere' = TRUE
    /\ seen' = backup'
    /\ dirty' = {}
    /\ Set(u, "raised")
    /\ UNCHANGED <<root, rootThere, users, captor, cutOff, wiped, writes>>

-----------------------------------------------------------------------------
(* What the commands of replays and of other executions do.                *)

\* A sandbox makes the directory if it is not there.
MakeRoot ==
    /\ ~rootThere /\ users # Cycles
    /\ rootThere' = TRUE
    /\ UNCHANGED <<root, backup, backupThere, linked, users, user, historyOfTree, writes, stops>>

NextWrite == writes < MaxWrites /\ writes' = writes + 1

\* The file is opened and changed: so is what the backup's name stands for.
WriteInPlace(f) ==
    /\ NextWrite
    /\ rootThere
    /\ root' = [root EXCEPT ![f] = writes']
    /\ backup' = IF f \in linked THEN [backup EXCEPT ![f] = writes'] ELSE backup
    /\ dirty' = IF f \in linked \/ Restoring THEN dirty \union {f} ELSE dirty
    /\ UNCHANGED <<rootThere, backupThere, linked, users, user, captor, seen, cutOff, wiped, stops>>

\* The name is removed, or given to another file.
Replace(f) ==
    /\ NextWrite
    /\ rootThere
    /\ root' \in {[root EXCEPT ![f] = writes'], [root EXCEPT ![f] = Absent]}
    /\ linked' = linked \ {f}
    /\ dirty' = IF Restoring THEN dirty \union {f} ELSE dirty
    /\ UNCHANGED <<rootThere, backup, backupThere, users, user, captor, seen, cutOff, wiped, stops>>

-----------------------------------------------------------------------------
(* restore and cleanup.                                                    *)

\* Mutant of RemoveRoot: whether there is a backup is not asked.
RemoveRootAnyway(u, outcome) ==
    /\ root' = NoFiles
    /\ rootThere' = FALSE
    /\ linked' = {}
    /\ Set(u, "restoring")
    /\ UNCHANGED <<backup, backupThere>>

\* Another mutant: the backup is copied over what is there.
KeepRoot(u, outcome) ==
    /\ linked' = {}
    /\ IF backupThere THEN Set(u, "restoring") ELSE Set(u, outcome)
    /\ UNCHANGED <<root, rootThere, backup, backupThere>>

\* restore without a backup does nothing; with one it removes the directory.
RemoveRoot(u, outcome) ==
    IF backupThere
    THEN /\ root' = NoFiles
         /\ rootThere' = FALSE
         /\ linked' = {}
         /\ Set(u, "restoring")
         /\ UNCHANGED <<backup, backupThere>>
    ELSE Set(u, outcome) /\ UNCHANGED treeVars

\* replay: the finally clause, whether its steps failed, raised or neither.
ReplayEnds(u) ==
    /\ u \in Replays /\ user[u] = "running" /\ LoopIsFree
    /\ RemoveRoot(u, "over")
    /\ UNCHANGED <<users, historyOfTree, writes, stops>>

\* run_cycle compares the hash of ./core to that of the whole workspace, and
\* so always finds a drift.
CycleEnds(u) ==
    /\ u \in Cycles /\ user[u] = "running"
    /\ RemoveRoot(u, "over")
    /\ UNCHANGED <<users, historyOfTree, writes, stops>>

\* execute_ucer: a step is called with an argument that no adapter takes.
ManagerRaises(u) ==
    /\ u \in Managers /\ user[u] = "running"
    /\ RemoveRoot(u, "raised")
    /\ UNCHANGED <<users, historyOfTree, writes, stops>>

\* With no step all results are successful: cleanup.
ManagerSucceeds(u) ==
    /\ u \in Managers /\ user[u] = "running"
    /\ backup' = NoFiles
    /\ backupThere' = FALSE
    /\ linked' = {}
    /\ Set(u, "over")
    /\ UNCHANGED <<root, rootThere, users, historyOfTree, writes, stops>>

\* copytree: the files of the backup, over whatever was written meanwhile.
Refill(u) ==
    /\ user[u] = "restoring"
    /\ root' = [f \in Files |-> IF backup[f] = Absent THEN root[f] ELSE backup[f]]
    /\ rootThere' = TRUE
    /\ Set(u, IF u \in Managers THEN "raised" ELSE "over")
    /\ UNCHANGED <<backup, backupThere, linked, users, historyOfTree, writes, stops>>

\* rmtree meets a file that was written while it ran, and raises: some of the
\* directory is gone, and nothing is copied.
RemoveRootRaises(u) ==
    /\ Stop
    /\ user[u] = "running" /\ backupThere
    /\ u \in Replays => LoopIsFree
    /\ \E kept \in SUBSET Present(root) :
          /\ root' = [f \in Files |-> IF f \in kept THEN root[f] ELSE Absent]
          /\ linked' = linked \intersect kept
    /\ cutOff' = TRUE
    /\ Set(u, "cut off")
    /\ UNCHANGED <<rootThere, backup, backupThere, users, captor, seen, dirty, wiped, writes>>

\* The process dies, with any part of the backup copied.
ProcessDies ==
    /\ Stop
    /\ \E u \in Users : user[u] \in {"capturing", "running", "restoring"}
    /\ cutOff' = (cutOff \/ Restoring)
    /\ \E copied \in SUBSET (IF Restoring THEN Present(backup) ELSE {}) :
          /\ root' = [f \in Files |-> IF f \in copied THEN backup[f] ELSE root[f]]
          /\ rootThere' = (rootThere \/ copied # {})
    /\ user' = [u \in Users |-> IF user[u] \in {"capturing", "running", "restoring"}
                              THEN "cut off" ELSE user[u]]
    /\ UNCHANGED <<backup, backupThere, linked, users, captor, seen, dirty, wiped, writes>>

-----------------------------------------------------------------------------

SnapshotInit ==
    /\ root = [f \in Files |-> 1]
    /\ rootThere = TRUE
    /\ backup = NoFiles
    /\ backupThere = FALSE
    /\ linked = {}
    /\ users \in {Replays \union Managers, Cycles}
    /\ user = [u \in Users |-> "idle"]
    /\ captor = {}
    /\ seen = NoFiles
    /\ dirty = {}
    /\ cutOff = FALSE
    /\ wiped = FALSE
    /\ writes = 1
    /\ stops = MaxStops

SnapshotNext ==
    \/ \E u \in Users : \/ RemoveBackup(u) \/ Link(u) \/ LinkFails(u)
                        \/ ReplayEnds(u) \/ CycleEnds(u)
                        \/ ManagerRaises(u) \/ ManagerSucceeds(u)
                        \/ Refill(u) \/ RemoveRootRaises(u)
    \/ \E f \in Files : WriteInPlace(f) \/ Replace(f)
    \/ MakeRoot \/ ProcessDies

SnapshotSpec == SnapshotInit /\ [][SnapshotNext]_snapshotVars

-----------------------------------------------------------------------------
(* Properties.                                                             *)

Contents == 0 .. MaxWrites + 1

SnapshotTypeOK ==
    /\ root \in [Files -> Contents] /\ backup \in [Files -> Contents]
    /\ rootThere \in BOOLEAN /\ backupThere \in BOOLEAN
    /\ ~backupThere => backup = NoFiles
    /\ linked \subseteq Files
    /\ \A f \in linked : root[f] = backup[f] /\ root[f] # Absent
    /\ users \subseteq Users
    /\ user \in [Users -> UserStates]
    /\ captor \subseteq Users
    /\ seen \in [Files -> Contents]
    /\ dirty \subseteq Files
    /\ cutOff \in BOOLEAN /\ wiped \in BOOLEAN
    /\ writes \in Contents
    /\ stops \in 0 .. MaxStops

\* A user is through with its restore, and was neither killed nor stopped by rmtree.
IsBack(u) ==
    /\ user'[u] \in {"over", "raised"}
    /\ \/ user[u] = "restoring"
       \/ user[u] = "running" /\ (u \in Managers => user'[u] = "raised")

\* Whoever restores gets the directory back as its own capture saw it, unless
\* another user began a capture since: files that were added are gone, files
\* that were removed or replaced are back, although the backup path is shared
\* and others captured, restored and cleaned up before.  What it cannot undo is
\* a write in place, which went through the hard link into the backup, and a
\* write while it was copying.
\*
\* After another capture the pre-replay snapshot is gone, and an overlapping
\* replay does NOT get it back.  It is given what that other capture linked, be
\* it half of the directory, or it finds no backup and leaves the directory
\* alone; a mixture of the two captures it never gets.
RestoreUndoes ==
    [][\A u \in Users : IsBack(u) =>
          \/ \A f \in Files \ dirty : root'[f] = seen[f]
          \/ u \notin captor /\ ~backupThere /\ root' = root]_snapshotVars

\* The directory is missing only while a restore is under way or after one was
\* cut off, and as long as nobody began another capture in that state, the
\* backup still holds all that the last capture linked.
WorkspaceSurvives ==
    ~rootThere => /\ Restoring \/ cutOff
                  /\ \/ wiped
                     \/ /\ backupThere
                        /\ \A f \in Files \ dirty : backup[f] = seen[f]

=============================================================================
