------------------------------ MODULE Secrets ------------------------------
(***************************************************************************)
(* EncryptedLocalBackend of core/secrets_management.py behind a            *)
(* SecretsManager, in several processes that share one storage directory:  *)
(* the key file, which the first process makes, and the file of one        *)
(* secret.  The Vault and AWS backends are clients of other services and   *)
(* are left out.                                                           *)
(*                                                                         *)
(* An action is one file operation.  open(path, "wb") truncates, and the   *)
(* content arrives with a later write; two calls that have a file open for *)
(* writing together may leave any mixture.  What goes wrong is noted in    *)
(* troubled, which only the properties read.                               *)
(***************************************************************************)
EXTENDS Integers

CONSTANTS
    Processes,      \* each makes at most one key, and is named for it
    Values,         \* the values of the secret
    MaxCrashes      \* bound: processes that die and writes that fail

ASSUME SecretsAssumption == MaxCrashes \in Nat

VARIABLES
    keyFile,    \* the content of .key
    file,       \* the content of the secret's .enc file
    process,    \* what each process is about to do
    key,        \* EncryptedLocalBackend.key of each
    writing,    \* the value a process has opened the file for
    stored,     \* the value last stored: set_secret returned True
    troubled,   \* what went wrong so far
    crashes     \* crashes left

secretsVars == <<keyFile, file, process, key, writing, stored, troubled, crashes>>

\* What a file holds, as a tuple; a key file holds the process whose key it is.
Missing == <<"no file">>
Empty   == << >>
Garbage == <<"garbage">>
KeyOf(p) == <<p>>
Encrypted(k, v) == <<k, v>>

NoKey == <<"no key">>
None  == "none"

\* The marks are no values, and no process is named like one.
ASSUME MarksAssumption ==
    /\ None \notin Values
    /\ \A p \in Processes : KeyOf(p) \notin {Missing, NoKey}

ProcessStates == {"down", "generating", "keying", "ready", "writing", "detached"}
Ready(p) == process[p] = "ready"
Become(p, state) == process' = [process EXCEPT ![p] = state]
Writers == {p \in Processes : process[p] \in {"writing", "detached"}}

Crash == crashes > 0 /\ crashes' = crashes - 1
Note(troubles) == troubled' = troubled \union troubles

-----------------------------------------------------------------------------
(* EncryptedLocalBackend.__init__.                                         *)

\* os.path.exists(key_path): read it, or make a new key.  Fernet raises
\* ValueError for an empty key, and the process does not come up.
LoadKey(p) ==
    /\ process[p] = "down"
    /\ IF keyFile = Missing
       THEN Become(p, "generating") /\ UNCHANGED key
       ELSE /\ keyFile # Empty
            /\ key' = [key EXCEPT ![p] = keyFile]
            /\ Become(p, "ready")
    /\ UNCHANGED <<keyFile, file, writing, stored, troubled, crashes>>

OpenKey(p) ==
    /\ process[p] = "generating"
    /\ keyFile' = Empty
    /\ Note(IF keyFile = Missing THEN {} ELSE {"two keys"})
    /\ Become(p, "keying")
    /\ UNCHANGED <<file, key, writing, stored, crashes>>

WriteKey(p) ==
    /\ process[p] = "keying"
    /\ keyFile' = KeyOf(p)
    /\ key' = [key EXCEPT ![p] = KeyOf(p)]
    /\ Become(p, "ready")
    /\ UNCHANGED <<file, writing, stored, troubled, crashes>>

-----------------------------------------------------------------------------
(* set_secret (and rotate_secret), delete_secret, get_secret.              *)

OpenSecret(p, v) ==
    /\ Ready(p)
    /\ file' = Empty
    /\ writing' = [writing EXCEPT ![p] = v]
    /\ Note(IF Writers = {} THEN {} ELSE {"overlap"})
    /\ Become(p, "writing")
    /\ UNCHANGED <<keyFile, key, stored, crashes>>

\* The content is written, and set_secret returns True.
WriteSecret(p) ==
    /\ process[p] = "writing"
    /\ file' \in {Encrypted(key[p], writing[p])}
                 \union (IF "overlap" \in troubled THEN {Garbage} ELSE {})
    /\ stored' = writing[p]
    /\ writing' = [writing EXCEPT ![p] = None]
    /\ Become(p, "ready")
    /\ UNCHANGED <<keyFile, key, troubled, crashes>>

\* Its file was deleted meanwhile: the content is gone, and os.chmod tells
\* whether somebody has made a new file, that is whether True is returned.
WriteNowhere(p) ==
    /\ process[p] = "detached"
    /\ stored' = IF file = Missing THEN stored ELSE writing[p]
    /\ writing' = [writing EXCEPT ![p] = None]
    /\ Become(p, "ready")
    /\ UNCHANGED <<keyFile, file, key, troubled, crashes>>

\* The write raises and set_secret returns False.
WriteFails(p) ==
    /\ Crash
    /\ p \in Writers
    /\ Note({"cut off"})
    /\ writing' = [writing EXCEPT ![p] = None]
    /\ Become(p, "ready")
    /\ UNCHANGED <<keyFile, file, key, stored>>

\* Mutant of DeleteSecret: the path lacks its .enc, and nothing is removed.
DeleteElsewhere(p) ==
    /\ Ready(p)
    /\ file # Missing
    /\ stored' = None
    /\ UNCHANGED <<keyFile, file, process, key, writing, troubled, crashes>>

DeleteSecret(p) ==
    /\ Ready(p)
    /\ file # Missing
    /\ file' = Missing
    /\ stored' = None
    /\ Note(IF Writers = {} THEN {} ELSE {"overlap"})
    /\ process' = [q \in Processes |-> IF q \in Writers THEN "detached" ELSE process[q]]
    /\ UNCHANGED <<keyFile, key, writing, crashes>>

Die(p) ==
    /\ Crash
    /\ process[p] # "down"
    /\ Note(IF process[p] \in {"keying", "writing", "detached"} THEN {"cut off"} ELSE {})
    /\ key' = [key EXCEPT ![p] = NoKey]
    /\ writing' = [writing EXCEPT ![p] = None]
    /\ Become(p, "down")
    /\ UNCHANGED <<keyFile, file, stored>>

\* What get_secret returns: None for a missing file and for everything that
\* this process cannot decrypt.  list_secrets names the file if it exists.
get_secret(p) ==
    IF \E v \in Values : file = Encrypted(key[p], v)
    THEN CHOOSE v \in Values : file = Encrypted(key[p], v)
    ELSE None

-----------------------------------------------------------------------------

SecretsInit ==
    /\ keyFile = Missing
    /\ file = Missing
    /\ process = [p \in Processes |-> "down"]
    /\ key = [p \in Processes |-> NoKey]
    /\ writing = [p \in Processes |-> None]
    /\ stored = None
    /\ troubled = {}
    /\ crashes = MaxCrashes

SecretsNext ==
    \E p \in Processes :
        \/ LoadKey(p) \/ OpenKey(p) \/ WriteKey(p)
        \/ \E v \in Values : OpenSecret(p, v)
        \/ WriteSecret(p) \/ WriteNowhere(p) \/ WriteFails(p)
        \/ DeleteSecret(p) \/ Die(p)

SecretsSpec == SecretsInit /\ [][SecretsNext]_secretsVars

-----------------------------------------------------------------------------
(* Properties.                                                             *)

Keys == {KeyOf(p) : p \in Processes}

SecretsTypeOK ==
    /\ keyFile \in Keys \union {Missing, Empty}
    /\ file \in {Missing, Empty, Garbage} \union (Keys \X Values)
    /\ process \in [Processes -> ProcessStates]
    /\ key \in [Processes -> Keys \union {NoKey}]
    /\ writing \in [Processes -> Values \union {None}]
    /\ \A p \in Processes : p \in Writers <=> writing[p] # None
    /\ stored \in Values \union {None}
    /\ troubled \subseteq {"two keys", "overlap", "cut off"}
    /\ crashes \in 0 .. MaxCrashes

\* Every process reads the value that was stored last, whichever process
\* stored it and however they are restarted, unless two of them made a key,
\* two calls had the secret open for writing at once (or one deleted it under
\* the other), or a write was cut off; and while a call of set_secret is under
\* way, a reader finds nothing rather than something else.
StoredIsRead ==
    troubled = {} =>
        \A p \in Processes : Ready(p) =>
            get_secret(p) = IF Writers = {} THEN stored ELSE None

=============================================================================
