------------------------------ MODULE CredStore -------------------------------
(***************************************************************************)
(* One credential file of the store and the two ways processes touch it    *)
(* (internal/store: store.go, lock.go, lock_unix.go, credential.go).       *)
(*                                                                         *)
(* Save writes <id>.credentials.json.tmp and renames it over the file.     *)
(* Every writer of the credential uses the same temporary name, so a       *)
(* handle a process has open follows its inode: once somebody else renames *)
(* the temporary file, that handle writes into the published file.         *)
(***************************************************************************)
EXTENDS Integers, FiniteSets

CONSTANTS
    Procs,          \* ccm processes
    NoProc,         \* nobody
    MaxTokens       \* bound on the tokens the OAuth server hands out

ASSUME StoreAssumption ==
    /\ NoProc \notin Procs
    /\ MaxTokens \in Nat \ {0}

VARIABLES
    file,           \* <id>.credentials.json
    tmp,            \* <id>.credentials.json.tmp
    fd,             \* where the handle of a process in os.WriteFile leads
    lock            \* the process holding flock on <id>.credentials.json.lock

storeVars == <<file, tmp, fd, lock>>

Tokens == 1..MaxTokens

(* A credential in memory: an access and a refresh token, and the access   *)
(* token whose expiry sits in the field expiresAtMillis.                   *)
Cred   == [access : Tokens, refresh : Tokens, exp : Tokens]
NoCred == [access |-> 0, refresh |-> 0, exp |-> 0]

Missing  == [kind |-> "missing", access |-> 0, refresh |-> 0]
Torn     == [kind |-> "torn", access |-> 0, refresh |-> 0]
Contents == {Missing, Torn} \cup [kind : {"whole"}, access : Tokens, refresh : Tokens]

(* Marshalling keeps the tokens; unmarshalling recomputes the cached       *)
(* expiry from what the file says of its own access token.                 *)
Marshal(c)   == [kind |-> "whole", access |-> c.access, refresh |-> c.refresh]
Unmarshal(f) == [access |-> f.access, refresh |-> f.refresh, exp |-> f.access]

(* Load and Resolve find the credential only in a file they can parse.     *)
Loadable == file.kind = "whole"

StoreTypeOK ==
    /\ file \in Contents
    /\ tmp \in Contents
    /\ fd \in [Procs -> {"none", "tmp", "file", "gone"}]
    /\ lock \in Procs \cup {NoProc}

-------------------------------------------------------------------------------
(* os.WriteFile opens the temporary file with O_TRUNC.                     *)
Open(p) ==
    /\ tmp' = Torn
    /\ fd' = [fd EXCEPT ![p] = "tmp"]
    /\ UNCHANGED <<file, lock>>

(* A write over bytes another process has already put there may leave the  *)
(* tail of the longer text behind.                                         *)
Written(old, c) == {Marshal(c)} \cup IF old.kind = "whole" THEN {Torn} ELSE {}

Write(p, c) ==
    /\ CASE fd[p] = "tmp"  -> tmp' \in Written(tmp, c) /\ file' = file
         [] fd[p] = "file" -> file' \in Written(file, c) /\ tmp' = tmp
         [] OTHER          -> UNCHANGED <<file, tmp>>
    /\ fd' = [fd EXCEPT ![p] = "none"]
    /\ lock' = lock

(* os.Rename: the handles of the others follow the two inodes.             *)
Publish ==
    /\ tmp.kind # "missing"
    /\ file' = tmp
    /\ tmp' = Missing
    /\ fd' = [q \in Procs |-> CASE fd[q] = "tmp"  -> "file"
                                [] fd[q] = "file" -> "gone"
                                [] OTHER          -> fd[q]]
    /\ lock' = lock

(* Removing a file that is gone is an error and changes nothing.           *)
Delete ==
    /\ file' = Missing
    /\ fd' = [q \in Procs |-> IF fd[q] = "file" THEN "gone" ELSE fd[q]]
    /\ UNCHANGED <<tmp, lock>>

(* Mutant: a shared lock, which others may hold too.                       *)
FlockShared(p) ==
    /\ lock' = p
    /\ UNCHANGED <<file, tmp, fd>>

(* acquireLock succeeds: LOCK_EX, granted when nobody holds the lock.      *)
Flock(p) ==
    /\ lock = NoProc
    /\ lock' = p
    /\ UNCHANGED <<file, tmp, fd>>

Funlock ==
    /\ lock' = NoProc
    /\ UNCHANGED <<file, tmp, fd>>

(* The kernel closes what a dead process had open, the lock file included. *)
Exit(p) ==
    /\ fd' = [fd EXCEPT ![p] = "none"]
    /\ lock' = IF lock = p THEN NoProc ELSE lock
    /\ UNCHANGED <<file, tmp>>

StoreInit ==
    /\ file = Marshal([access |-> 1, refresh |-> 1])
    /\ tmp = Missing
    /\ fd = [p \in Procs |-> "none"]
    /\ lock = NoProc
===============================================================================
