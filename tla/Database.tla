----------------------------- MODULE Database ------------------------------
(***************************************************************************)
(* core/db.py: coroutines of one event loop that share one database        *)
(* object, a NATSDatabase over the JetStream KV buckets UCSERSTATE (UCERs) *)
(* and UCSERKV, or a SQLiteDatabase, which runs each call in a thread with *)
(* a connection of its own.  One key of each bucket is modelled.           *)
(*                                                                         *)
(* An action of a coroutine is the code between two awaits.  The NATS      *)
(* server is external; a request to it may fail at the cost of one of      *)
(* MaxFailures failures, and what it was asked for may have been done.     *)
(***************************************************************************)
EXTENDS Integers, FiniteSets

CONSTANTS
    Coroutines,     \* each makes one call
    MaxFailures     \* bound: requests that fail

ASSUME DatabaseAssumption == MaxFailures \in Nat

VARIABLES
    backend,    \* which of the two classes the object is of
    nc,         \* NATSDatabase.nc: "none", "open" or "closed"
    closed,     \* close was called on an open connection
    replaced,   \* an earlier connection was replaced, and stays open for ever
    buckets,    \* which of kv_ucer, kv_store are set, by the bucket's name
    call,       \* the await at which each call is suspended
    op,         \* the operation of each call
    contents,   \* the buckets whose key has a value
    saved,      \* buckets a save to which had returned when the call began
    met,        \* calls that began while another one was connecting
    failures    \* failures left

connectionVars == <<backend, nc, closed, replaced, buckets>>
historyVars    == <<saved, met>>    \* read by properties only
databaseVars   == <<connectionVars, call, op, contents, historyVars, failures>>

\* Every operation by the bucket (or table) it uses.
BucketOf ==
    [save_ucer |-> "UCSERSTATE", get_ucer |-> "UCSERSTATE",
     list_ucers |-> "UCSERSTATE", set_kv |-> "UCSERKV", get_kv |-> "UCSERKV"]

Operations == DOMAIN BucketOf
Saves      == {"save_ucer", "set_kv"}
Bucket(c)  == BucketOf[op[c]]

CallStates == {"idle", "dialing", "creating state", "creating kv", "asking",
               "answering", "returned", "returned none", "raised"}
Connecting == {c \in Coroutines : call[c] \in {"dialing", "creating state", "creating kv"}}

Confirmed  == {c \in Coroutines : call[c] = "returned" /\ op[c] \in Saves}

\* A connection that was replaced may be the one the buckets are bound to, and
\* close does not reach it.
Reachable == nc # "closed" \/ replaced

Failure == failures > 0 /\ failures' = failures - 1
Goto(c, state) == call' = [call EXCEPT ![c] = state]

-----------------------------------------------------------------------------
(* The five operations.                                                    *)

\* With a connection, connect returns at once; the assertion that the bucket
\* is set comes next.  A SQLiteDatabase has made its tables when it was made.
Begin(c, o) ==
    /\ call[c] = "idle"
    /\ op' = [op EXCEPT ![c] = o]
    /\ Goto(c, CASE backend = "nats" /\ nc = "none" -> "dialing"
                 [] backend = "nats" /\ nc # "none" /\ BucketOf[o] \notin buckets -> "raised"
                 [] OTHER -> "asking")
    /\ saved' = [saved EXCEPT ![c] = {Bucket(d) : d \in Confirmed}]
    /\ met' = IF Connecting = {} THEN met ELSE met \union {c}
    /\ UNCHANGED <<connectionVars, contents, failures>>

\* nats.connect returns.  Two callers that found no connection make two.
Dialed(c) ==
    /\ call[c] = "dialing"
    /\ nc' = "open"
    /\ replaced' = (replaced \/ nc # "none")
    /\ Goto(c, "creating state")
    /\ UNCHANGED <<backend, closed, buckets, op, contents, historyVars, failures>>

StateBucketMade(c) ==
    /\ call[c] = "creating state" /\ Reachable
    /\ buckets' = buckets \union {"UCSERSTATE"}
    /\ Goto(c, "creating kv")
    /\ UNCHANGED <<backend, nc, closed, replaced, op, contents, historyVars, failures>>

\* Mutant of KvBucketMade: connect forgets the second bucket.
KvBucketForgotten(c) ==
    /\ call[c] = "creating kv" /\ Reachable
    /\ Goto(c, IF Bucket(c) \in buckets THEN "asking" ELSE "raised")
    /\ UNCHANGED <<connectionVars, op, contents, historyVars, failures>>

KvBucketMade(c) ==
    /\ call[c] = "creating kv" /\ Reachable
    /\ buckets' = buckets \union {"UCSERKV"}
    /\ Goto(c, "asking")
    /\ UNCHANGED <<backend, nc, closed, replaced, op, contents, historyVars, failures>>

\* Mutant of Store: the write is started and not awaited, and gets lost.
StoreForgotten(c) ==
    /\ call[c] = "asking" /\ op[c] \in Saves
    /\ Goto(c, "answering")
    /\ UNCHANGED <<connectionVars, op, contents, historyVars, failures>>

\* The value is there ...
Store(c) ==
    /\ call[c] = "asking" /\ op[c] \in Saves
    /\ contents' = contents \union {Bucket(c)}
    /\ Goto(c, "answering")
    /\ UNCHANGED <<connectionVars, op, historyVars, failures>>

Put(c) == backend = "nats" /\ Reachable /\ Store(c)
InsertOrReplace(c) == backend = "sqlite" /\ Store(c)

\* ... and the call returns.
Confirm(c) ==
    /\ call[c] = "answering"
    /\ Goto(c, "returned")
    /\ UNCHANGED <<connectionVars, op, contents, historyVars, failures>>

\* get_ucer, get_kv, list_ucers; an empty list counts as None.
Retrieve(c) ==
    /\ call[c] = "asking" /\ op[c] \notin Saves
    /\ Goto(c, IF Bucket(c) \in contents THEN "returned" ELSE "returned none")
    /\ UNCHANGED <<connectionVars, op, contents, historyVars, failures>>

GetEntry(c) == backend = "nats" /\ Reachable /\ Retrieve(c)
Select(c) == backend = "sqlite" /\ Retrieve(c)

\* An exception of a request: the reads of NATSDatabase turn it into None.
GiveUp(c) ==
    /\ call[c] \in {"dialing", "creating state", "creating kv", "asking", "answering"}
    /\ Goto(c, IF backend = "nats" /\ call[c] = "asking" /\ op[c] \notin Saves
               THEN "returned none" ELSE "raised")
    /\ UNCHANGED <<connectionVars, op, contents, historyVars>>

RequestFails(c) == Failure /\ GiveUp(c)

\* A request over a connection that was closed, or a bucket bound to it.
ConnectionIsClosed(c) ==
    /\ backend = "nats" /\ closed /\ call[c] \notin {"dialing", "answering"}
    /\ GiveUp(c)
    /\ UNCHANGED failures

\* close leaves nc set: no later call connects again.
Close ==
    /\ nc = "open"
    /\ nc' = "closed"
    /\ closed' = TRUE
    /\ UNCHANGED <<backend, replaced, buckets, call, op, contents, historyVars, failures>>

-----------------------------------------------------------------------------

DatabaseInit ==
    /\ backend \in {"nats", "sqlite"}
    /\ nc = "none"
    /\ closed = FALSE /\ replaced = FALSE
    /\ buckets = {}
    /\ call = [c \in Coroutines |-> "idle"]
    /\ op = [c \in Coroutines |-> "save_ucer"]
    /\ contents = {}
    /\ saved = [c \in Coroutines |-> {}]
    /\ met = {}
    /\ failures = MaxFailures

DatabaseNext ==
    \/ \E c \in Coroutines :
          \/ \E o \in Operations : Begin(c, o)
          \/ Dialed(c) \/ StateBucketMade(c) \/ KvBucketMade(c)
          \/ Put(c) \/ InsertOrReplace(c) \/ Confirm(c) \/ GetEntry(c) \/ Select(c)
          \/ RequestFails(c) \/ ConnectionIsClosed(c)
    \/ Close

DatabaseSpec == DatabaseInit /\ [][DatabaseNext]_databaseVars

-----------------------------------------------------------------------------
(* Properties.                                                             *)

DatabaseTypeOK ==
    /\ backend \in {"nats", "sqlite"}
    /\ nc \in {"none", "open", "closed"}
    /\ backend = "sqlite" => nc = "none"
    /\ closed \in BOOLEAN /\ replaced \in BOOLEAN
    /\ buckets \subseteq {"UCSERSTATE", "UCSERKV"}
    /\ call \in [Coroutines -> CallStates]
    /\ op \in [Coroutines -> Operations]
    /\ contents \subseteq {"UCSERSTATE", "UCSERKV"}
    /\ saved \in [Coroutines -> SUBSET {"UCSERSTATE", "UCSERKV"}]
    /\ met \subseteq Coroutines
    /\ failures \in 0 .. MaxFailures

\* As long as no request fails and nobody calls close, an operation raises
\* only if it began while another one was still connecting: nc is set before
\* the buckets are, and the assertion that a bucket is set fails.
DatabaseRaisesNeedCause ==
    \A c \in Coroutines : call[c] = "raised" =>
        failures < MaxFailures \/ closed \/ c \in met

\* A read that begins after a save of the same key has returned finds the
\* value, although connections are replaced and buckets made twice meanwhile;
\* it can be told that there is none only after a failure or a close.
SavedIsFound ==
    \A c \in Coroutines : call[c] = "returned none" /\ Bucket(c) \in saved[c] =>
        failures < MaxFailures \/ closed

=============================================================================
