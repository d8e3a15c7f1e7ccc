---------------------------- MODULE StoresProofs ----------------------------
(***************************************************************************)
(* Proofs about Database, Secrets and Snapshot, for every set of           *)
(* coroutines, of processes, of files and of users, and every number of    *)
(* failures, writes and crashes.                                           *)
(*                                                                         *)
(* Database: nc is set while both buckets are not only between two awaits  *)
(* of a call that is connecting, or after a failure or a close, so a call  *)
(* that meets the missing bucket has a cause.  Contents only grow, so what *)
(* was saved before a call began is there when it reads.                   *)
(*                                                                         *)
(* Secrets: as long as nothing is troubled, there is one key, everybody    *)
(* who is up has it, and the file is what the only writer makes of it.     *)
(*                                                                         *)
(* Snapshot: capture and restore do not await, so at most one user is      *)
(* inside one of them.  Nobody then makes or removes a backup under a      *)
(* restore, and what a restore finds in the backup is what the last        *)
(* capture linked, but for the files noted in dirty.  Whoever was the last *)
(* to begin a capture, and runs, has a backup.                             *)
(***************************************************************************)
EXTENDS Database, Secrets, Snapshot, TLAPS

-----------------------------------------------------------------------------
(* Database.                                                               *)

BothBuckets == {"UCSERSTATE", "UCSERKV"}
MakingBuckets == {c \in Coroutines : call[c] \in {"creating state", "creating kv"}}
Troubled == failures < MaxFailures \/ closed

\* Only a NATSDatabase connects, and makes its buckets in order.
ConnectsInOrder ==
    \A c \in Coroutines :
        /\ call[c] \in {"dialing", "creating state", "creating kv"} => backend = "nats"
        /\ call[c] = "creating kv" => "UCSERSTATE" \in buckets

\* A bucket is missing on a set connection only for a while, or with a cause.
BucketsComeNext ==
    /\ nc = "closed" => closed
    /\ nc # "none" /\ buckets # BothBuckets => Troubled \/ MakingBuckets # {}

WritesAreKept ==
    \A c \in Coroutines :
        /\ call[c] = "answering" \/ c \in Confirmed => Bucket(c) \in contents
        /\ saved[c] \subseteq contents

DatabaseInv ==
    /\ DatabaseTypeOK
    /\ ConnectsInOrder
    /\ BucketsComeNext
    /\ WritesAreKept
    /\ DatabaseRaisesNeedCause
    /\ SavedIsFound

\* Each operation uses one of the two buckets.
LEMMA BucketsOfOperations == \A o \in Operations : BucketOf[o] \in BothBuckets
BY DEF Operations, BucketOf, BothBuckets

\* Every call starts as one.
LEMMA SaveIsAnOperation == "save_ucer" \in Operations
BY DEF Operations, BucketOf

\* What is left of a budget stays within it.
LEMMA Decrease ==
    ASSUME NEW max \in Nat, NEW n \in 0 .. max, NEW k \in 0 .. n
    PROVE  k \in 0 .. max /\ (k < n => k < max)
OBVIOUS

\* Nor does it fall below zero.
LEMMA Spend ==
    ASSUME NEW max \in Nat, NEW n \in 0 .. max, n > 0
    PROVE  n - 1 \in 0 .. max
OBVIOUS

\* At the start nothing is connected.
LEMMA DatabaseStarts == DatabaseInit => DatabaseInv
<1> SUFFICES ASSUME DatabaseInit PROVE DatabaseInv
    OBVIOUS
<1>1. DatabaseTypeOK
  <2>1. failures \in 0 .. MaxFailures
    BY DatabaseAssumption DEF DatabaseInit, DatabaseAssumption
  <2>2. closed \in BOOLEAN /\ replaced \in BOOLEAN
    BY DEF DatabaseInit
  <2> QED
    BY <2>1, <2>2, SaveIsAnOperation DEF DatabaseInit, DatabaseTypeOK, CallStates
<1>2. ConnectsInOrder /\ BucketsComeNext /\ WritesAreKept
    BY DEF DatabaseInit, ConnectsInOrder, BucketsComeNext, WritesAreKept, Confirmed
<1>3. DatabaseRaisesNeedCause /\ SavedIsFound
    BY DEF DatabaseInit, DatabaseRaisesNeedCause, SavedIsFound
<1> QED
    BY <1>1, <1>2, <1>3 DEF DatabaseInv

\* An exception disturbs nothing, if it has a cause.
LEMMA GivingUpIsCaused ==
    ASSUME DatabaseInv, NEW c \in Coroutines, GiveUp(c),
           closed \/ failures' < failures, failures' \in 0 .. failures
    PROVE  DatabaseInv'
<1> USE DEF DatabaseInv, GiveUp, connectionVars, historyVars, Goto
<1>1. failures' \in 0 .. MaxFailures /\ (failures' < failures => failures' < MaxFailures)
  <2>1. failures \in 0 .. MaxFailures
    BY DEF DatabaseTypeOK
  <2> QED
    BY <2>1, DatabaseAssumption, Decrease DEF DatabaseAssumption
<1>2. DatabaseTypeOK'
    BY <1>1 DEF DatabaseTypeOK, CallStates
<1>3. ConnectsInOrder'
    BY DEF ConnectsInOrder, DatabaseTypeOK
<1>4. BucketsComeNext' /\ DatabaseRaisesNeedCause' /\ SavedIsFound'
    BY <1>1 DEF BucketsComeNext, DatabaseRaisesNeedCause, SavedIsFound, Troubled
<1>5. WritesAreKept'
    BY DEF WritesAreKept, Confirmed, Bucket, DatabaseTypeOK
<1> QED
    BY <1>2, <1>3, <1>4, <1>5

\* Every step of a call, or a close, keeps the invariant.
LEMMA DatabaseSteps == DatabaseInv /\ [DatabaseNext]_databaseVars => DatabaseInv'
<1> SUFFICES ASSUME DatabaseInv, [DatabaseNext]_databaseVars PROVE DatabaseInv'
    OBVIOUS
<1> USE DEF DatabaseInv, connectionVars, historyVars, Goto
<1>1. ASSUME NEW c \in Coroutines, NEW o \in Operations, Begin(c, o) PROVE DatabaseInv'
  <2> USE <1>1 DEF Begin
  <2>1. DatabaseTypeOK'
    BY BucketsOfOperations DEF DatabaseTypeOK, CallStates, Confirmed, Bucket, BothBuckets
  <2>2. ConnectsInOrder' /\ BucketsComeNext'
    BY DEF ConnectsInOrder, BucketsComeNext, DatabaseTypeOK, MakingBuckets, Troubled
  <2>3. WritesAreKept'
    BY DEF WritesAreKept, Confirmed, Bucket, DatabaseTypeOK
  <2>4. DatabaseRaisesNeedCause'
    <3>1. CASE backend = "nats" /\ nc # "none" /\ BucketOf[o] \notin buckets
      <4>1. Troubled \/ MakingBuckets # {}
        BY <3>1, BucketsOfOperations DEF BucketsComeNext
      <4>2. Troubled \/ c \in met'
        BY <4>1 DEF MakingBuckets, Connecting
      <4> QED
        BY <4>2 DEF DatabaseRaisesNeedCause, Troubled, DatabaseTypeOK
    <3>2. CASE ~(backend = "nats" /\ nc # "none" /\ BucketOf[o] \notin buckets)
      BY <3>2 DEF DatabaseRaisesNeedCause, DatabaseTypeOK
    <3> QED
        BY <3>1, <3>2
  <2>5. SavedIsFound'
    BY DEF SavedIsFound, DatabaseTypeOK, Bucket
  <2> QED
    BY <2>1, <2>2, <2>3, <2>4, <2>5
<1>2. ASSUME NEW c \in Coroutines, Dialed(c) PROVE DatabaseInv'
  <2> USE <1>2 DEF Dialed
  <2>1. DatabaseTypeOK' /\ ConnectsInOrder'
    BY DEF DatabaseTypeOK, CallStates, ConnectsInOrder
  <2>2. BucketsComeNext'
    BY DEF BucketsComeNext, MakingBuckets, DatabaseTypeOK
  <2>3. WritesAreKept' /\ DatabaseRaisesNeedCause' /\ SavedIsFound'
    BY DEF WritesAreKept, Confirmed, Bucket, DatabaseRaisesNeedCause, SavedIsFound, DatabaseTypeOK
  <2> QED
    BY <2>1, <2>2, <2>3
<1>3. ASSUME NEW c \in Coroutines, StateBucketMade(c) PROVE DatabaseInv'
  <2> USE <1>3 DEF StateBucketMade
  <2>1. DatabaseTypeOK' /\ ConnectsInOrder'
    BY DEF DatabaseTypeOK, CallStates, ConnectsInOrder
  <2>2. BucketsComeNext'
    BY DEF BucketsComeNext, MakingBuckets, DatabaseTypeOK
  <2>3. WritesAreKept' /\ DatabaseRaisesNeedCause' /\ SavedIsFound'
    BY DEF WritesAreKept, Confirmed, Bucket, DatabaseRaisesNeedCause, SavedIsFound, DatabaseTypeOK
  <2> QED
    BY <2>1, <2>2, <2>3
<1>4. ASSUME NEW c \in Coroutines, KvBucketMade(c) PROVE DatabaseInv'
  <2> USE <1>4 DEF KvBucketMade
  <2>1. DatabaseTypeOK' /\ ConnectsInOrder'
    BY DEF DatabaseTypeOK, CallStates, ConnectsInOrder
  <2>2. buckets' = BothBuckets
    BY DEF ConnectsInOrder, DatabaseTypeOK, BothBuckets
  <2>3. BucketsComeNext'
    BY <2>2 DEF BucketsComeNext, DatabaseTypeOK, BothBuckets
  <2>4. WritesAreKept' /\ DatabaseRaisesNeedCause' /\ SavedIsFound'
    BY DEF WritesAreKept, Confirmed, Bucket, DatabaseRaisesNeedCause, SavedIsFound, DatabaseTypeOK
  <2> QED
    BY <2>1, <2>3, <2>4
<1>5. ASSUME NEW c \in Coroutines, Store(c) PROVE DatabaseInv'
  <2> USE <1>5 DEF Store
  <2>1. DatabaseTypeOK' /\ ConnectsInOrder'
    BY BucketsOfOperations DEF DatabaseTypeOK, CallStates, ConnectsInOrder, Bucket, BothBuckets
  <2>2. BucketsComeNext'
    BY DEF BucketsComeNext, MakingBuckets, DatabaseTypeOK, Troubled
  <2>3. WritesAreKept' /\ DatabaseRaisesNeedCause' /\ SavedIsFound'
    BY DEF WritesAreKept, Confirmed, Bucket, DatabaseRaisesNeedCause, SavedIsFound, DatabaseTypeOK
  <2> QED
    BY <2>1, <2>2, <2>3
<1>6. ASSUME NEW c \in Coroutines, Confirm(c) \/ Retrieve(c) PROVE DatabaseInv'
  <2> USE <1>6 DEF Confirm, Retrieve
  <2>1. DatabaseTypeOK' /\ ConnectsInOrder'
    BY DEF DatabaseTypeOK, CallStates, ConnectsInOrder
  <2>2. BucketsComeNext'
    BY DEF BucketsComeNext, MakingBuckets, DatabaseTypeOK, Troubled
  <2>3. WritesAreKept' /\ DatabaseRaisesNeedCause'
    BY DEF WritesAreKept, Confirmed, Bucket, DatabaseRaisesNeedCause, DatabaseTypeOK
  <2>4. SavedIsFound'
    BY DEF SavedIsFound, WritesAreKept, Bucket, DatabaseTypeOK
  <2> QED
    BY <2>1, <2>2, <2>3, <2>4
<1>7. ASSUME NEW c \in Coroutines, RequestFails(c) PROVE DatabaseInv'
  <2>1. failures' < failures /\ failures' \in 0 .. failures
    BY <1>7 DEF RequestFails, Failure, DatabaseTypeOK
  <2> QED
    BY <1>7, <2>1, GivingUpIsCaused DEF RequestFails
<1>8. ASSUME NEW c \in Coroutines, ConnectionIsClosed(c) PROVE DatabaseInv'
    BY <1>8, GivingUpIsCaused DEF ConnectionIsClosed, Troubled, DatabaseTypeOK
<1>9. CASE Close
    BY <1>9 DEF Close, DatabaseTypeOK, ConnectsInOrder, BucketsComeNext, Troubled,
                WritesAreKept, Confirmed, Bucket, DatabaseRaisesNeedCause, SavedIsFound
<1>10. CASE UNCHANGED databaseVars
    BY <1>10 DEF databaseVars, DatabaseTypeOK, ConnectsInOrder, BucketsComeNext, Troubled,
                 MakingBuckets, WritesAreKept, Confirmed, Bucket,
                 DatabaseRaisesNeedCause, SavedIsFound
<1> QED
    BY <1>1, <1>2, <1>3, <1>4, <1>5, <1>6, <1>7, <1>8, <1>9, <1>10
    DEF DatabaseNext, Put, InsertOrReplace, GetEntry, Select

\* The inductive invariant of the database.
THEOREM DatabaseInvariance == DatabaseSpec => []DatabaseInv
BY DatabaseStarts, DatabaseSteps, PTL DEF DatabaseSpec

\* The state of the database object, its buckets and its calls has its type;
\* in particular a SQLiteDatabase never has a connection.
THEOREM DatabaseTypeCorrect == DatabaseSpec => []DatabaseTypeOK
BY DatabaseInvariance, PTL DEF DatabaseInv

\* An operation of core/db.py raises only after a failure or a close, or if it
\* began while another one was still connecting.
THEOREM DatabaseRaisesAreCaused == DatabaseSpec => []DatabaseRaisesNeedCause
BY DatabaseInvariance, PTL DEF DatabaseInv

\* What a save has confirmed is found by every read that begins later, unless
\* a request failed or the connection was closed.
THEOREM SavesAreFound == DatabaseSpec => []SavedIsFound
BY DatabaseInvariance, PTL DEF DatabaseInv

-----------------------------------------------------------------------------
(* Secrets.                                                                *)

\* Those who have a key.
Keyed(p) == process[p] \in {"ready", "writing", "detached"}

OneKey ==
    /\ \A p \in Processes : /\ Keyed(p) => key[p] = keyFile
                            /\ process[p] = "keying" => keyFile = Empty
    /\ \A p, q \in Processes : process[p] = "keying" /\ process[q] = "keying" => p = q

OneWriter ==
    /\ \A p, q \in Writers : p = q
    /\ \A p \in Processes : process[p] # "detached"

FileIsStored ==
    /\ Writers # {} => file = Empty
    /\ Writers = {} => \/ file = Missing /\ stored = None
                       \/ /\ keyFile \in Keys /\ stored \in Values
                          /\ file = Encrypted(keyFile, stored)

SecretsInv ==
    /\ SecretsTypeOK
    /\ \A p \in Processes : Keyed(p) => key[p] \in Keys
    /\ troubled = {} => OneKey /\ OneWriter /\ FileIsStored

\* The contents of the files can be told apart.
LEMMA ContentsDiffer ==
    /\ Missing \notin Keys /\ Empty \notin Keys /\ NoKey \notin Keys
    /\ Missing # Empty
    /\ \A k, v : Encrypted(k, v) \notin {Missing, Empty}
    /\ \A k, v, w : Encrypted(k, v) = Encrypted(k, w) => v = w
BY MarksAssumption DEF MarksAssumption, Missing, Empty, NoKey, Keys, KeyOf, Encrypted

\* At the start there is neither a key nor a secret.
LEMMA SecretsStart == SecretsInit => SecretsInv
<1> SUFFICES ASSUME SecretsInit PROVE SecretsInv
    OBVIOUS
<1>1. crashes \in 0 .. MaxCrashes
    BY SecretsAssumption DEF SecretsInit, SecretsAssumption
<1>2. SecretsTypeOK
    BY <1>1 DEF SecretsInit, SecretsTypeOK, ProcessStates, Writers
<1> QED
    BY <1>2, ContentsDiffer
    DEF SecretsInit, SecretsInv, Keyed, OneKey, OneWriter, FileIsStored, Writers

\* Every file operation keeps the invariant.
LEMMA SecretsSteps == SecretsInv /\ [SecretsNext]_secretsVars => SecretsInv'
<1> SUFFICES ASSUME SecretsInv, [SecretsNext]_secretsVars PROVE SecretsInv'
    OBVIOUS
<1> USE DEF SecretsInv, Become, Note, Ready
<1>1. ASSUME NEW p \in Processes, LoadKey(p) PROVE SecretsInv'
  <2> USE <1>1 DEF LoadKey
  <2>1. SecretsTypeOK'
    <3>1. process' \in [Processes -> ProcessStates]
      BY DEF SecretsTypeOK, ProcessStates
    <3>2. key' \in [Processes -> Keys \union {NoKey}]
      BY DEF SecretsTypeOK
    <3>3. \A q \in Processes : q \in Writers' <=> q \in Writers
      BY DEF SecretsTypeOK, Writers
    <3> QED
      BY <3>1, <3>2, <3>3 DEF SecretsTypeOK
  <2>2. \A q \in Processes : Keyed(q)' => key'[q] \in Keys
    BY DEF SecretsTypeOK, Keyed
  <2>3. Writers' = Writers
    BY DEF Writers, SecretsTypeOK
  <2>4. ASSUME troubled' = {} PROVE OneKey' /\ OneWriter' /\ FileIsStored'
    <3>1. OneKey'
      BY <2>4, ContentsDiffer DEF OneKey, Keyed, SecretsTypeOK
    <3>2. OneWriter' /\ FileIsStored'
      BY <2>3, <2>4 DEF OneWriter, FileIsStored, SecretsTypeOK
    <3> QED
      BY <3>1, <3>2
  <2> QED
    BY <2>1, <2>2, <2>4
<1>2. ASSUME NEW p \in Processes, OpenKey(p) PROVE SecretsInv'
  <2> USE <1>2 DEF OpenKey
  <2>1. SecretsTypeOK'
    BY DEF SecretsTypeOK, ProcessStates, Writers
  <2>2. \A q \in Processes : Keyed(q)' => key'[q] \in Keys
    BY DEF SecretsTypeOK, Keyed
  <2>3. Writers' = Writers
    BY DEF Writers, SecretsTypeOK
  <2>4. ASSUME troubled' = {} PROVE OneKey' /\ OneWriter' /\ FileIsStored'
    <3>1. keyFile = Missing /\ troubled = {}
      BY <2>4
    <3>2. OneKey'
      BY <3>1, ContentsDiffer DEF OneKey, Keyed, SecretsTypeOK
    <3>3. OneWriter' /\ FileIsStored'
      BY <2>3, <3>1, ContentsDiffer DEF OneWriter, FileIsStored, SecretsTypeOK
    <3> QED
      BY <3>2, <3>3
  <2> QED
    BY <2>1, <2>2, <2>4
<1>3. ASSUME NEW p \in Processes, WriteKey(p) PROVE SecretsInv'
  <2> USE <1>3 DEF WriteKey
  <2>1. KeyOf(p) \in Keys
    BY DEF Keys
  <2>2. SecretsTypeOK'
    BY <2>1 DEF SecretsTypeOK, ProcessStates, Writers
  <2>3. \A q \in Processes : Keyed(q)' => key'[q] \in Keys
    BY <2>1 DEF SecretsTypeOK, Keyed
  <2>4. Writers' = Writers
    BY DEF Writers, SecretsTypeOK
  <2>5. ASSUME troubled' = {} PROVE OneKey' /\ OneWriter' /\ FileIsStored'
    <3>1. keyFile = Empty
      BY <2>5 DEF OneKey
    <3>2. OneKey'
      BY <2>5, <3>1, ContentsDiffer DEF OneKey, Keyed, SecretsTypeOK
    <3>3. OneWriter' /\ FileIsStored'
      BY <2>4, <2>5, <3>1, ContentsDiffer DEF OneWriter, FileIsStored, SecretsTypeOK
    <3> QED
      BY <3>2, <3>3
  <2> QED
    BY <2>2, <2>3, <2>5
<1>4. ASSUME NEW p \in Processes, NEW v \in Values, OpenSecret(p, v) PROVE SecretsInv'
  <2> USE <1>4 DEF OpenSecret
  <2>1. SecretsTypeOK'
    BY MarksAssumption DEF MarksAssumption, SecretsTypeOK, ProcessStates, Writers
  <2>2. \A q \in Processes : Keyed(q)' => key'[q] \in Keys
    BY DEF SecretsTypeOK, Keyed
  <2>3. Writers' = Writers \union {p}
    BY DEF Writers, SecretsTypeOK
  <2>4. ASSUME troubled' = {} PROVE OneKey' /\ OneWriter' /\ FileIsStored'
    <3>1. Writers = {} /\ troubled = {}
      BY <2>4
    <3>2. OneKey'
      BY <3>1 DEF OneKey, Keyed, SecretsTypeOK
    <3>3. OneWriter' /\ FileIsStored'
      BY <2>3, <3>1 DEF OneWriter, FileIsStored, SecretsTypeOK
    <3> QED
      BY <3>2, <3>3
  <2> QED
    BY <2>1, <2>2, <2>4
<1>5. ASSUME NEW p \in Processes, WriteSecret(p) PROVE SecretsInv'
  <2> USE <1>5 DEF WriteSecret
  <2>1. p \in Writers /\ writing[p] \in Values /\ key[p] \in Keys
    BY DEF Writers, SecretsTypeOK, Keyed
  <2>2. Writers' = Writers \ {p}
    BY DEF Writers, SecretsTypeOK
  <2>3. Encrypted(key[p], writing[p]) \in Keys \X Values
    BY <2>1 DEF Encrypted
  <2>4. SecretsTypeOK'
    <3>1. file' \in {Missing, Empty, Garbage} \union (Keys \X Values)
      BY <2>3
    <3> QED
      BY <2>1, <2>2, <3>1 DEF SecretsTypeOK, ProcessStates
  <2>5. \A q \in Processes : Keyed(q)' => key'[q] \in Keys
    BY DEF SecretsTypeOK, Keyed
  <2>6. ASSUME troubled' = {} PROVE OneKey' /\ OneWriter' /\ FileIsStored'
    <3>1. OneKey' /\ OneWriter'
      BY <2>2, <2>6 DEF OneKey, OneWriter, Keyed, SecretsTypeOK
    <3>2. key[p] = keyFile /\ Writers' = {}
      BY <2>1, <2>2, <2>6 DEF OneKey, OneWriter, Keyed
    <3>3. file' = Encrypted(keyFile, stored') /\ stored' \in Values
      BY <2>1, <2>6, <3>2
    <3>4. FileIsStored'
      BY <2>1, <3>2, <3>3 DEF FileIsStored
    <3> QED
      BY <3>1, <3>4
  <2> QED
    BY <2>4, <2>5, <2>6
<1>6. ASSUME NEW p \in Processes, WriteNowhere(p) PROVE SecretsInv'
  <2> USE <1>6 DEF WriteNowhere
  <2>1. p \in Writers /\ writing[p] \in Values
    BY DEF Writers, SecretsTypeOK
  <2>2. Writers' = Writers \ {p}
    BY DEF Writers, SecretsTypeOK
  <2>3. SecretsTypeOK'
    BY <2>1, <2>2 DEF SecretsTypeOK, ProcessStates
  <2>4. \A q \in Processes : Keyed(q)' => key'[q] \in Keys
    BY DEF SecretsTypeOK, Keyed
  <2>5. troubled' # {}
    BY DEF OneWriter
  <2> QED
    BY <2>3, <2>4, <2>5
<1>7. ASSUME NEW p \in Processes, WriteFails(p) PROVE SecretsInv'
  <2> USE <1>7 DEF WriteFails
  <2>1. crashes' \in 0 .. MaxCrashes
    <3>1. crashes \in 0 .. MaxCrashes
      BY DEF SecretsTypeOK
    <3> QED
      BY <3>1, SecretsAssumption, Spend DEF Crash, SecretsAssumption
  <2>2. Writers' = Writers \ {p}
    BY DEF Writers, SecretsTypeOK
  <2>3. SecretsTypeOK'
    BY <2>1, <2>2 DEF SecretsTypeOK, ProcessStates
  <2>4. \A q \in Processes : Keyed(q)' => key'[q] \in Keys
    BY DEF SecretsTypeOK, Keyed, Writers
  <2> QED
    BY <2>3, <2>4
<1>8. ASSUME NEW p \in Processes, DeleteSecret(p) PROVE SecretsInv'
  <2> USE <1>8 DEF DeleteSecret
  <2>1. Writers' = Writers
    BY DEF Writers, SecretsTypeOK
  <2>2. SecretsTypeOK'
    BY <2>1 DEF SecretsTypeOK, ProcessStates
  <2>3. \A q \in Processes : Keyed(q)' => key'[q] \in Keys
    BY DEF SecretsTypeOK, Keyed, Writers
  <2>4. ASSUME troubled' = {} PROVE OneKey' /\ OneWriter' /\ FileIsStored'
    <3>1. Writers = {} /\ troubled = {}
      BY <2>4
    <3>2. process' = process
      BY <3>1 DEF SecretsTypeOK
    <3> QED
      BY <2>1, <3>1, <3>2 DEF OneKey, OneWriter, FileIsStored, Keyed
  <2> QED
    BY <2>2, <2>3, <2>4
<1>9. ASSUME NEW p \in Processes, Die(p) PROVE SecretsInv'
  <2> USE <1>9 DEF Die
  <2>1. crashes' \in 0 .. MaxCrashes
    <3>1. crashes \in 0 .. MaxCrashes
      BY DEF SecretsTypeOK
    <3> QED
      BY <3>1, SecretsAssumption, Spend DEF Crash, SecretsAssumption
  <2>2. Writers' = Writers \ {p}
    BY DEF Writers, SecretsTypeOK
  <2>3. SecretsTypeOK'
    BY <2>1, <2>2 DEF SecretsTypeOK, ProcessStates
  <2>4. \A q \in Processes : Keyed(q)' => key'[q] \in Keys
    BY DEF SecretsTypeOK, Keyed
  <2>5. ASSUME troubled' = {} PROVE OneKey' /\ OneWriter' /\ FileIsStored'
    <3>1. p \notin Writers /\ troubled = {}
      BY <2>5 DEF Writers
    <3>2. Writers' = Writers
      BY <2>2, <3>1
    <3>3. OneKey'
      BY <3>1 DEF OneKey, Keyed, SecretsTypeOK
    <3> QED
      BY <3>1, <3>2, <3>3 DEF OneWriter, FileIsStored, SecretsTypeOK
  <2> QED
    BY <2>3, <2>4, <2>5
<1>10. CASE UNCHANGED secretsVars
    BY <1>10 DEF secretsVars, SecretsTypeOK, Keyed, OneKey, OneWriter, FileIsStored, Writers
<1> QED
    BY <1>1, <1>2, <1>3, <1>4, <1>5, <1>6, <1>7, <1>8, <1>9, <1>10 DEF SecretsNext

\* The invariant says what a reader finds.
LEMMA InvReads == SecretsInv => StoredIsRead
<1> SUFFICES ASSUME SecretsInv, troubled = {}, NEW p \in Processes, Ready(p)
             PROVE  get_secret(p) = IF Writers = {} THEN stored ELSE None
    BY DEF StoredIsRead
<1> USE DEF SecretsInv
<1>1. key[p] = keyFile
    BY DEF OneKey, Keyed, Ready
<1>2. CASE file \in {Missing, Empty}
  <2>1. get_secret(p) = None
    BY <1>2, ContentsDiffer DEF get_secret
  <2>2. Writers = {} => stored = None
    BY <1>2, ContentsDiffer DEF FileIsStored
  <2> QED
    BY <2>1, <2>2
<1>3. CASE file \notin {Missing, Empty}
  <2>1. Writers = {} /\ stored \in Values /\ file = Encrypted(key[p], stored)
    BY <1>1, <1>3 DEF FileIsStored
  <2>2. \A v \in Values : file = Encrypted(key[p], v) <=> v = stored
    BY <2>1, ContentsDiffer
  <2> QED
    BY <2>1, <2>2 DEF get_secret
<1> QED
    BY <1>2, <1>3

\* The inductive invariant of the secrets store.
THEOREM SecretsInvariance == SecretsSpec => []SecretsInv
BY SecretsStart, SecretsSteps, PTL DEF SecretsSpec

\* The key file, the secret's file and the processes have their types; those
\* who are writing are those who hold a value to write.
THEOREM SecretsTypeCorrect == SecretsSpec => []SecretsTypeOK
BY SecretsInvariance, PTL DEF SecretsInv

\* However many processes share the directory and die, every one of them reads
\* the secret that was stored last, unless one of the named troubles occurred.
THEOREM SecretsAreRead == SecretsSpec => []StoredIsRead
BY SecretsInvariance, InvReads, PTL

-----------------------------------------------------------------------------
(* Snapshot.                                                               *)

InLoop(u) == user[u] \in {"capturing", "restoring"} \/ (user[u] = "running" /\ u \notin Replays)

OneInLoop == \A u, v \in Users : InLoop(u) /\ InLoop(v) => u = v

\* What is so while a user is where it is.
UserOK(u) ==
    /\ user[u] \in {"capturing", "restoring"} => linked = {}
    /\ user[u] = "running" /\ u \notin Replays => rootThere
    /\ InLoop(u) /\ user[u] # "restoring" => captor = {u}
    /\ user[u] = "running" /\ u \in captor => backupThere
    /\ user[u] = "restoring" => backupThere /\ \A f \in Files \ dirty : root[f] = Absent

BackupIsSeen == backupThere => \A f \in Files \ dirty : backup[f] = seen[f]

RootComesBack ==
    ~rootThere => (Restoring \/ cutOff) /\ (wiped \/ backupThere)

SnapshotInv ==
    /\ SnapshotTypeOK
    /\ OneInLoop
    /\ \A u \in Users : UserOK(u)
    /\ BackupIsSeen
    /\ RootComesBack

\* A write gives a file a content it did not have, within the bound.
LEMMA WritesAreContents ==
    ASSUME SnapshotTypeOK, NextWrite PROVE writes' \in Contents /\ writes' # Absent
<1>1. writes \in 0 .. MaxWrites + 1 /\ writes < MaxWrites /\ writes' = writes + 1
    BY DEF SnapshotTypeOK, NextWrite, Contents
<1>2. MaxWrites \in Nat
    BY SnapshotAssumption DEF SnapshotAssumption
<1> QED
    BY <1>1, <1>2 DEF Contents, Absent

\* No content at all is a content.
LEMMA AbsentIsContent == Absent \in Contents /\ NoFiles \in [Files -> Contents] /\ 1 \in Contents
<1>1. MaxWrites \in Nat
    BY SnapshotAssumption DEF SnapshotAssumption
<1>2. Absent \in Contents /\ 1 \in Contents
    BY <1>1 DEF Absent, Contents
<1> QED
    BY <1>2 DEF NoFiles

\* Every stop is counted.
LEMMA StopsAreCounted ==
    ASSUME SnapshotTypeOK, Stop PROVE stops' \in 0 .. MaxStops
<1>1. stops \in 0 .. MaxStops /\ stops > 0 /\ stops' = stops - 1
    BY DEF SnapshotTypeOK, Stop
<1>2. MaxStops \in Nat
    BY SnapshotAssumption DEF SnapshotAssumption
<1> QED
    BY <1>1, <1>2

\* The loop is free if and only if nobody is inside a call without an await.
LEMMA FreeLoop == LoopIsFree <=> \A u \in Users : ~InLoop(u)
BY DEF LoopIsFree, InLoop

\* At the start there is no backup and nobody restores.
LEMMA SnapshotStarts == SnapshotInit => SnapshotInv
<1> SUFFICES ASSUME SnapshotInit PROVE SnapshotInv
    OBVIOUS
<1>1. SnapshotTypeOK
  <2>1. stops \in 0 .. MaxStops
    BY SnapshotAssumption DEF SnapshotAssumption, SnapshotInit
  <2>2. root \in [Files -> Contents] /\ backup \in [Files -> Contents]
        /\ seen \in [Files -> Contents] /\ writes \in Contents
    BY AbsentIsContent DEF SnapshotInit
  <2>3. users \subseteq Users /\ user \in [Users -> UserStates]
    BY DEF SnapshotInit, Users, UserStates
  <2> QED
    BY <2>1, <2>2, <2>3 DEF SnapshotInit, SnapshotTypeOK
<1>2. OneInLoop /\ \A u \in Users : UserOK(u)
    BY DEF SnapshotInit, OneInLoop, InLoop, UserOK
<1>3. BackupIsSeen /\ RootComesBack
    BY DEF SnapshotInit, BackupIsSeen, RootComesBack
<1> QED
    BY <1>1, <1>2, <1>3 DEF SnapshotInv

-----------------------------------------------------------------------------
(* Users.                                                                  *)

\* capture removes the old backup, nobody being in the loop.
LEMMA CaptureBegins ==
    ASSUME SnapshotInv, NEW u \in Users, RemoveBackup(u) PROVE SnapshotInv'
<1> USE DEF SnapshotInv, RemoveBackup, Set
<1>1. \A v \in Users : ~InLoop(v)
    BY FreeLoop
<1>2. user' \in [Users -> UserStates]
    BY DEF SnapshotTypeOK, UserStates
<1>3. SnapshotTypeOK'
    BY <1>2, AbsentIsContent DEF SnapshotTypeOK
<1>4. \A v \in Users : v # u => user'[v] = user[v] /\ user[v] \notin {"capturing", "restoring"}
    BY <1>1 DEF SnapshotTypeOK, InLoop
<1>5. OneInLoop'
    BY <1>1, <1>4 DEF OneInLoop, InLoop
<1>6. \A v \in Users : UserOK(v)'
  <2>1. captor' = {u} /\ user'[u] = "capturing" /\ linked' = {}
    BY DEF SnapshotTypeOK
  <2>2. UserOK(u)'
    BY <2>1, <1>1 DEF UserOK, InLoop
  <2>3. ASSUME NEW v \in Users, v # u PROVE UserOK(v)'
    BY <2>1, <2>3, <1>1, <1>4 DEF UserOK, InLoop
  <2> QED
    BY <2>2, <2>3
<1>7. BackupIsSeen' /\ RootComesBack'
    BY <1>1 DEF BackupIsSeen, RootComesBack, Restoring, InLoop
<1> QED
    BY <1>3, <1>5, <1>6, <1>7

\* The new backup is what the directory is now.
LEMMA CaptureEnds ==
    ASSUME SnapshotInv, NEW u \in Users, Link(u) PROVE SnapshotInv'
<1> USE DEF SnapshotInv, Link, Set
<1>1. \A v \in Users : v # u => ~InLoop(v) /\ user'[v] = user[v]
    BY DEF OneInLoop, InLoop, SnapshotTypeOK
<1>2. user' \in [Users -> UserStates] /\ user'[u] \in {"running", "raised"}
    BY DEF SnapshotTypeOK, UserStates
<1>3. SnapshotTypeOK'
    BY <1>2 DEF SnapshotTypeOK, Present
<1>4. OneInLoop'
    BY <1>1, <1>2 DEF OneInLoop, InLoop
<1>5. ~Restoring'
    BY <1>1, <1>2 DEF Restoring, InLoop
<1>6. \A v \in Users : UserOK(v)'
    BY <1>1, <1>2, <1>5 DEF UserOK, InLoop, SnapshotTypeOK
<1>7. BackupIsSeen'
    BY DEF BackupIsSeen
<1>8. RootComesBack'
    BY DEF RootComesBack, Restoring, OneInLoop, InLoop
<1> QED
    BY <1>3, <1>4, <1>6, <1>7, <1>8

\* cp stops half-way: the backup is what it linked until then.
LEMMA CaptureFails ==
    ASSUME SnapshotInv, NEW u \in Users, LinkFails(u) PROVE SnapshotInv'
<1> USE DEF SnapshotInv, LinkFails, Set
<1>1. PICK reached \in SUBSET Present(root) :
        /\ backup' = [f \in Files |-> IF f \in reached THEN root[f] ELSE Absent]
        /\ linked' = reached
    OBVIOUS
<1>2. \A v \in Users : v # u => ~InLoop(v) /\ user'[v] = user[v]
    BY DEF OneInLoop, InLoop, SnapshotTypeOK
<1>3. user' \in [Users -> UserStates] /\ user'[u] = "raised"
    BY DEF SnapshotTypeOK, UserStates
<1>4. SnapshotTypeOK'
  <2>1. backup' \in [Files -> Contents]
    BY <1>1, AbsentIsContent DEF SnapshotTypeOK
  <2>2. linked' \subseteq Files /\ \A f \in linked' : root'[f] = backup'[f] /\ root'[f] # Absent
    BY <1>1 DEF Present
  <2> QED
    BY <1>3, <2>1, <2>2, StopsAreCounted DEF SnapshotTypeOK
<1>5. OneInLoop' /\ \A v \in Users : UserOK(v)'
    BY <1>2, <1>3 DEF OneInLoop, InLoop, UserOK
<1>6. BackupIsSeen' /\ RootComesBack'
    BY DEF BackupIsSeen, RootComesBack
<1> QED
    BY <1>4, <1>5, <1>6

\* restore begins: by a replay when the loop is free, or by one in the loop.
LEMMA RestoreBegins ==
    ASSUME SnapshotInv, NEW u \in Users, NEW outcome \in {"over", "raised"},
           user[u] = "running", \A v \in Users : InLoop(v) => v = u,
           RemoveRoot(u, outcome), UNCHANGED <<users, historyOfTree, writes, stops>>
    PROVE  SnapshotInv'
<1> USE DEF SnapshotInv, RemoveRoot, Set, historyOfTree, treeVars
<1>1. \A v \in Users : v # u => ~InLoop(v) /\ user'[v] = user[v]
    BY DEF SnapshotTypeOK
<1>2. user' \in [Users -> UserStates]
    BY DEF SnapshotTypeOK, UserStates
<1>3. SnapshotTypeOK'
    BY <1>2, AbsentIsContent DEF SnapshotTypeOK
<1>4. OneInLoop'
    BY <1>1 DEF OneInLoop, InLoop
<1>5. ~Restoring
    BY DEF Restoring, InLoop
<1>6. CASE backupThere
  <2>1. user'[u] = "restoring" /\ root' = NoFiles /\ linked' = {} /\ backupThere'
    BY <1>6 DEF SnapshotTypeOK
  <2>2. \A v \in Users : UserOK(v)'
    BY <1>1, <2>1 DEF UserOK, InLoop, NoFiles
  <2>3. BackupIsSeen' /\ RootComesBack'
    BY <1>6, <2>1 DEF BackupIsSeen, RootComesBack, Restoring
  <2> QED
    BY <1>3, <1>4, <2>2, <2>3
<1>7. CASE ~backupThere
  <2>1. user'[u] = outcome /\ UNCHANGED treeVars
    BY <1>7 DEF SnapshotTypeOK
  <2>2. \A v \in Users : UserOK(v)'
    BY <1>1, <2>1 DEF UserOK, InLoop
  <2>3. BackupIsSeen' /\ RootComesBack'
    BY <1>5, <2>1 DEF BackupIsSeen, RootComesBack
  <2> QED
    BY <1>3, <1>4, <2>2, <2>3
<1> QED
    BY <1>6, <1>7

\* A manager that succeeded removes its backup, with the directory there.
LEMMA CleanUp ==
    ASSUME SnapshotInv, NEW u \in Users, ManagerSucceeds(u) PROVE SnapshotInv'
<1> USE DEF SnapshotInv, ManagerSucceeds, Set, historyOfTree
<1>1. u \notin Replays
    BY SnapshotAssumption DEF SnapshotAssumption
<1>2. rootThere /\ \A v \in Users : v # u => ~InLoop(v) /\ user'[v] = user[v]
    BY <1>1 DEF UserOK, OneInLoop, InLoop, SnapshotTypeOK
<1>3. user' \in [Users -> UserStates] /\ user'[u] = "over"
    BY DEF SnapshotTypeOK, UserStates
<1>4. SnapshotTypeOK'
    BY <1>3, AbsentIsContent DEF SnapshotTypeOK
<1>0. captor = {u}
    BY <1>1 DEF UserOK, InLoop
<1>5. OneInLoop' /\ \A v \in Users : UserOK(v)'
    BY <1>0, <1>2, <1>3 DEF OneInLoop, InLoop, UserOK
<1>6. BackupIsSeen' /\ RootComesBack'
    BY <1>2 DEF BackupIsSeen, RootComesBack
<1> QED
    BY <1>4, <1>5, <1>6

\* copytree ends the restore.
LEMMA RestoreEnds ==
    ASSUME SnapshotInv, NEW u \in Users, Refill(u) PROVE SnapshotInv'
<1> USE DEF SnapshotInv, Refill, Set, historyOfTree
<1>1. linked = {} /\ \A v \in Users : v # u => ~InLoop(v) /\ user'[v] = user[v]
    BY DEF UserOK, OneInLoop, InLoop, SnapshotTypeOK
<1>2. user' \in [Users -> UserStates] /\ user'[u] \in {"over", "raised"}
    BY DEF SnapshotTypeOK, UserStates
<1>3. root' \in [Files -> Contents]
    BY DEF SnapshotTypeOK
<1>4. SnapshotTypeOK'
    BY <1>1, <1>2, <1>3 DEF SnapshotTypeOK
<1>5. OneInLoop' /\ \A v \in Users : UserOK(v)'
    BY <1>1, <1>2 DEF OneInLoop, InLoop, UserOK
<1>6. BackupIsSeen' /\ RootComesBack'
    BY DEF BackupIsSeen, RootComesBack
<1> QED
    BY <1>4, <1>5, <1>6

\* rmtree raises with the backup untouched.
LEMMA RestoreRaises ==
    ASSUME SnapshotInv, NEW u \in Users, RemoveRootRaises(u) PROVE SnapshotInv'
<1> USE DEF SnapshotInv, RemoveRootRaises, Set
<1>1. PICK kept \in SUBSET Present(root) :
        /\ root' = [f \in Files |-> IF f \in kept THEN root[f] ELSE Absent]
        /\ linked' = linked \intersect kept
    OBVIOUS
<1>2. \A v \in Users : v # u => ~InLoop(v) /\ user'[v] = user[v]
    BY FreeLoop DEF OneInLoop, InLoop, SnapshotTypeOK
<1>3. user' \in [Users -> UserStates] /\ user'[u] = "cut off"
    BY DEF SnapshotTypeOK, UserStates
<1>4. SnapshotTypeOK'
  <2>1. root' \in [Files -> Contents]
    BY <1>1, AbsentIsContent DEF SnapshotTypeOK
  <2>2. \A f \in linked' : f \in Files /\ root'[f] = backup'[f] /\ root'[f] # Absent
    BY <1>1 DEF SnapshotTypeOK, Present
  <2> QED
    BY <1>3, <2>1, <2>2, StopsAreCounted DEF SnapshotTypeOK
<1>5. OneInLoop'
    BY <1>2, <1>3 DEF OneInLoop, InLoop
<1>6. \A v \in Users : UserOK(v)'
    BY <1>1, <1>2, <1>3 DEF InLoop, UserOK
<1>7. BackupIsSeen' /\ RootComesBack'
    BY DEF BackupIsSeen, RootComesBack
<1> QED
    BY <1>4, <1>5, <1>6, <1>7

\* The process dies, and nobody is in a call any more.
LEMMA Death ==
    ASSUME SnapshotInv, ProcessDies PROVE SnapshotInv'
<1> USE DEF SnapshotInv, ProcessDies
<1>1. PICK copied \in SUBSET (IF Restoring THEN Present(backup) ELSE {}) :
        /\ root' = [f \in Files |-> IF f \in copied THEN backup[f] ELSE root[f]]
        /\ rootThere' = (rootThere \/ copied # {})
    OBVIOUS
<1>2. /\ user' \in [Users -> {"idle", "over", "raised", "cut off"}]
      /\ \A v \in Users : user'[v] \notin {"capturing", "running", "restoring"}
    BY DEF SnapshotTypeOK, UserStates
<1>3. Restoring => linked = {}
    BY DEF Restoring, UserOK
<1>4. SnapshotTypeOK'
  <2>1. root' \in [Files -> Contents]
    BY <1>1 DEF SnapshotTypeOK
  <2>2. \A f \in linked : root'[f] = backup[f] /\ root'[f] # Absent
    BY <1>1, <1>3 DEF SnapshotTypeOK, Present
  <2>3. user' \in [Users -> UserStates]
    BY <1>2 DEF UserStates
  <2>4. rootThere' \in BOOLEAN /\ cutOff' \in BOOLEAN
    BY <1>1 DEF SnapshotTypeOK
  <2> QED
    BY <2>1, <2>2, <2>3, <2>4, StopsAreCounted DEF SnapshotTypeOK
<1>5. OneInLoop' /\ \A v \in Users : UserOK(v)'
    BY <1>2 DEF OneInLoop, InLoop, UserOK
<1>6. BackupIsSeen' /\ RootComesBack'
    BY <1>1 DEF BackupIsSeen, RootComesBack
<1> QED
    BY <1>4, <1>5, <1>6

-----------------------------------------------------------------------------
(* Writes.                                                                 *)

\* A write through a hard link is noted in dirty.
LEMMA WritingInPlace ==
    ASSUME SnapshotInv, NEW f \in Files, WriteInPlace(f) PROVE SnapshotInv'
<1> USE DEF SnapshotInv, WriteInPlace
<1>1. writes' \in Contents /\ writes' # Absent
    BY WritesAreContents
<1>2. /\ \A g \in Files : root'[g] = IF g = f THEN writes' ELSE root[g]
      /\ \A g \in Files : backup'[g] = IF g = f /\ f \in linked THEN writes' ELSE backup[g]
    BY DEF SnapshotTypeOK
<1>3. SnapshotTypeOK'
  <2>1. root' \in [Files -> Contents] /\ backup' \in [Files -> Contents]
    BY <1>1 DEF SnapshotTypeOK
  <2>2. \A g \in linked : g \in Files /\ root'[g] = backup'[g] /\ root'[g] # Absent
    BY <1>1, <1>2 DEF SnapshotTypeOK
  <2>3. ~backupThere => linked = {}
    BY DEF SnapshotTypeOK, NoFiles
  <2>4. dirty' \subseteq Files
    BY DEF SnapshotTypeOK
  <2> QED
    BY <1>1, <2>1, <2>2, <2>3, <2>4 DEF SnapshotTypeOK
<1>4. OneInLoop'
    BY DEF OneInLoop, InLoop
<1>5. dirty \subseteq dirty' /\ (f \in linked \/ Restoring => f \in dirty')
    OBVIOUS
<1>6. ASSUME NEW u \in Users PROVE UserOK(u)'
  <2>1. user[u] = "restoring" => Restoring
    BY DEF Restoring
  <2>2. user[u] = "restoring" => \A g \in Files \ dirty' : root'[g] = Absent
    BY <1>2, <1>5, <2>1 DEF UserOK
  <2> QED
    BY <2>2 DEF UserOK, InLoop
<1>7. BackupIsSeen'
    BY <1>2, <1>5 DEF BackupIsSeen
<1>8. RootComesBack'
    BY DEF RootComesBack
<1> QED
    BY <1>3, <1>4, <1>6, <1>7, <1>8

\* A replaced file is no longer linked.
LEMMA Replacing ==
    ASSUME SnapshotInv, NEW f \in Files, Replace(f) PROVE SnapshotInv'
<1> USE DEF SnapshotInv, Replace
<1>1. writes' \in Contents
    BY WritesAreContents
<1>2. \A g \in Files : g # f => root'[g] = root[g]
    BY DEF SnapshotTypeOK
<1>3. SnapshotTypeOK'
  <2>1. root' \in [Files -> Contents]
    BY <1>1, AbsentIsContent DEF SnapshotTypeOK
  <2>2. \A g \in linked' : g \in Files /\ root'[g] = backup'[g] /\ root'[g] # Absent
    BY <1>2 DEF SnapshotTypeOK
  <2>3. dirty' \subseteq Files
    BY DEF SnapshotTypeOK
  <2> QED
    BY <1>1, <2>1, <2>2, <2>3 DEF SnapshotTypeOK
<1>4. OneInLoop'
    BY DEF OneInLoop, InLoop
<1>5. dirty \subseteq dirty' /\ (Restoring => f \in dirty')
    OBVIOUS
<1>6. ASSUME NEW u \in Users PROVE UserOK(u)'
  <2>1. user[u] = "restoring" => Restoring
    BY DEF Restoring
  <2>2. user[u] = "restoring" => \A g \in Files \ dirty' : root'[g] = Absent
    BY <1>2, <1>5, <2>1 DEF UserOK
  <2>3. linked = {} => linked' = {}
    OBVIOUS
  <2> QED
    BY <2>2, <2>3 DEF UserOK, InLoop
<1>7. BackupIsSeen' /\ RootComesBack'
    BY <1>5 DEF BackupIsSeen, RootComesBack, Restoring
<1> QED
    BY <1>3, <1>4, <1>6, <1>7

-----------------------------------------------------------------------------

\* Every step keeps the invariant.
LEMMA SnapshotSteps == SnapshotInv /\ [SnapshotNext]_snapshotVars => SnapshotInv'
<1> SUFFICES ASSUME SnapshotInv, [SnapshotNext]_snapshotVars PROVE SnapshotInv'
    OBVIOUS
<1>1. ASSUME NEW u \in Users, ReplayEnds(u) PROVE SnapshotInv'
    BY <1>1, FreeLoop, RestoreBegins DEF ReplayEnds
<1>2. ASSUME NEW u \in Users, CycleEnds(u) \/ ManagerRaises(u) PROVE SnapshotInv'
  <2>1. u \notin Replays /\ user[u] = "running"
    BY <1>2, SnapshotAssumption DEF SnapshotAssumption, CycleEnds, ManagerRaises
  <2>2. \A v \in Users : InLoop(v) => v = u
    BY <2>1 DEF SnapshotInv, OneInLoop, InLoop
  <2> QED
    BY <1>2, <2>1, <2>2, RestoreBegins DEF CycleEnds, ManagerRaises
<1>3. CASE MakeRoot
    BY <1>3 DEF MakeRoot, SnapshotInv, SnapshotTypeOK, OneInLoop, InLoop, UserOK, BackupIsSeen,
                RootComesBack, historyOfTree
<1>4. CASE UNCHANGED snapshotVars
    BY <1>4 DEF snapshotVars, treeVars, historyOfTree, SnapshotInv, SnapshotTypeOK, OneInLoop,
                InLoop, UserOK, BackupIsSeen, RootComesBack, Restoring
<1> QED
    BY <1>1, <1>2, <1>3, <1>4, CaptureBegins, CaptureEnds, CaptureFails, CleanUp, RestoreEnds,
       RestoreRaises, Death, WritingInPlace, Replacing
    DEF SnapshotNext

\* The inductive invariant.
THEOREM SnapshotInvariance == SnapshotSpec => []SnapshotInv
BY SnapshotStarts, SnapshotSteps, PTL DEF SnapshotSpec

\* The directory and its backup have their types; two names of one file show
\* the same content.
THEOREM SnapshotTypeCorrect == SnapshotSpec => []SnapshotTypeOK
BY SnapshotInvariance, PTL DEF SnapshotInv

\* The workspace is missing only while a restore is under way or after one was
\* cut off, and the backup then still has it, unless a capture has begun since.
THEOREM WorkspaceIsNotLost == SnapshotSpec => []WorkspaceSurvives
<1>1. SnapshotInv => WorkspaceSurvives
    BY DEF SnapshotInv, WorkspaceSurvives, RootComesBack, BackupIsSeen
<1> QED
    BY <1>1, SnapshotInvariance, PTL

-----------------------------------------------------------------------------

\* How a restore ends that is not cut off.
LEMMA WaysBack ==
    ASSUME SnapshotInv, [SnapshotNext]_snapshotVars, NEW u \in Users, IsBack(u)
    PROVE  \/ Refill(u) /\ user[u] = "restoring"
           \/ user[u] = "running" /\ ~backupThere /\ UNCHANGED treeVars
<1> USE DEF SnapshotInv, SnapshotTypeOK, IsBack, Set
<1>1. ASSUME NEW v \in Users, RemoveBackup(v) \/ Link(v) \/ LinkFails(v) PROVE FALSE
    BY <1>1 DEF RemoveBackup, Link, LinkFails
<1>2. ASSUME NEW v \in Users, ManagerSucceeds(v) PROVE FALSE
    BY <1>2 DEF ManagerSucceeds
<1>3. ASSUME NEW v \in Users, ReplayEnds(v) \/ CycleEnds(v) \/ ManagerRaises(v)
      PROVE  user[u] = "running" /\ ~backupThere /\ UNCHANGED treeVars
    BY <1>3 DEF ReplayEnds, CycleEnds, ManagerRaises, RemoveRoot
<1>4. ASSUME NEW v \in Users, Refill(v) PROVE u = v /\ user[u] = "restoring"
    BY <1>4 DEF Refill
<1>5. ASSUME NEW v \in Users, RemoveRootRaises(v) PROVE FALSE
    BY <1>5 DEF RemoveRootRaises
<1>6. ASSUME NEW f \in Files, WriteInPlace(f) \/ Replace(f) PROVE FALSE
    BY <1>6 DEF WriteInPlace, Replace
<1>7. ASSUME MakeRoot \/ ProcessDies \/ UNCHANGED snapshotVars PROVE FALSE
    BY <1>7 DEF MakeRoot, ProcessDies, snapshotVars
<1> QED
    BY <1>1, <1>2, <1>3, <1>4, <1>5, <1>6, <1>7 DEF SnapshotNext

\* However a restore comes back.
Undone(u) ==
    IsBack(u) => \/ \A f \in Files \ dirty : root'[f] = seen[f]
                 \/ u \notin captor /\ ~backupThere /\ root' = root

\* A restore that is not cut off gives the directory back as the last capture
\* saw it, but for the files noted in dirty: those written in place, and those
\* written while it was under way.  That is the user's own capture unless another
\* one has begun since; and only then may there be no backup, and the directory
\* stay as it is.
THEOREM RestoresUndo == SnapshotSpec => RestoreUndoes
<1>1. ASSUME SnapshotInv, [SnapshotNext]_snapshotVars, NEW u \in Users PROVE Undone(u)
  <2> SUFFICES ASSUME IsBack(u) PROVE Undone(u)
    BY DEF Undone
  <2>1. CASE Refill(u) /\ user[u] = "restoring"
    <3>1. backupThere /\ \A f \in Files \ dirty : root[f] = Absent
      BY <1>1, <2>1 DEF SnapshotInv, UserOK
    <3> QED
      BY <1>1, <2>1, <3>1 DEF Refill, SnapshotInv, BackupIsSeen, Undone
  <2>2. CASE user[u] = "running" /\ ~backupThere /\ UNCHANGED treeVars
    BY <1>1, <2>2 DEF SnapshotInv, UserOK, Undone, treeVars
  <2> QED
    BY <1>1, <2>1, <2>2, WaysBack
<1>2. SnapshotInv /\ [SnapshotNext]_snapshotVars => [\A u \in Users : Undone(u)]_snapshotVars
    BY <1>1
<1>3. SnapshotSpec => [][\A u \in Users : Undone(u)]_snapshotVars
    BY <1>2, SnapshotInvariance, PTL DEF SnapshotSpec
<1> QED
    BY <1>3 DEF RestoreUndoes, Undone

=============================================================================
