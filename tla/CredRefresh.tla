----------------------------- MODULE CredRefresh ------------------------------
(***************************************************************************)
(* The life of one stored credential (internal/credflow/refresh*.go,       *)
(* internal/share/credstate.go and refresh_timer.go, cmd/refresh.go,       *)
(* rename.go, relogin.go, logout.go).                                      *)
(*                                                                         *)
(* Sessions keep the credential in memory and refresh it when it is about  *)
(* to expire; `ccm refresh` refreshes it at once; both go through          *)
(* RefreshCredential, which takes the credential's lock.  `ccm rename`,    *)
(* `ccm relogin` and `ccm logout` change the same file without the lock.   *)
(* The OAuth server spends a refresh token when it replaces it.            *)
(***************************************************************************)
EXTENDS CredStore

CONSTANTS
    Provider,       \* the credential's provider
    Sessions,       \* processes serving with a credState
    Refreshers,     \* one-shot callers of RefreshCredential
    Renamers,       \* `ccm rename`
    Relogins,       \* `ccm relogin`
    Logouts,        \* `ccm logout`
    Mortal          \* processes that may be killed at any point

Callers  == Sessions \cup Refreshers
Unlocked == Renamers \cup Relogins \cup Logouts

ASSUME RefreshAssumption ==
    /\ Provider \in {"claude", "codex", "grok"}
    /\ Procs = Callers \cup Unlocked
    /\ Callers \cap Unlocked = {}
    /\ Sessions \cap Refreshers = {}
    /\ Mortal \subseteq Procs

VARIABLES
    pc,             \* where a process is
    resolved,       \* the access token store.Resolve saw
    out,            \* the credential a process is about to save or return
    cred,           \* credState.cred
    seen,           \* credState.mtime is the file's
    live,           \* refresh tokens the OAuth server honours
    issued,         \* tokens it has handed out
    expired         \* access tokens that are expired or expiring soon

vars == <<file, tmp, fd, lock, pc, resolved, out, cred, seen, live, issued, expired>>

CallPcs == {"resolve", "lock", "load", "provider", "reread",
            "open", "write", "publish", "unlock", "adopt"}
LockPcs == {"load", "provider", "reread", "open", "write", "publish", "unlock"}
SavePcs == {"open", "write", "publish"}
Rest(p)  == IF p \in Sessions THEN "idle" ELSE "done"
(* Where Save returns to: out of the locked section, or out of the command. *)
Leave(p) == IF p \in Callers THEN "unlock" ELSE "done"

TypeOK ==
    /\ StoreTypeOK
    /\ pc \in [Procs -> CallPcs \cup {"idle", "login", "delete", "done"}]
    /\ resolved \in [Procs -> 0..MaxTokens]
    /\ out \in [Procs -> Cred \cup {NoCred}]
    /\ cred \in [Sessions -> Cred]
    /\ seen \in [Sessions -> BOOLEAN]
    /\ live \subseteq Tokens
    /\ issued \in Tokens
    /\ expired \subseteq Tokens

Init ==
    /\ StoreInit
    /\ pc = [p \in Procs |-> IF p \in Sessions THEN "idle" ELSE "resolve"]
    /\ resolved = [p \in Procs |-> 0]
    /\ out = [p \in Procs |-> NoCred]
    /\ cred = [s \in Sessions |-> Unmarshal(file)]
    /\ seen = [s \in Sessions |-> FALSE]
    /\ live = {1}
    /\ issued = 1
    /\ expired = {}

Goto(p, l)  == pc' = [pc EXCEPT ![p] = l]
Keep(p, c)  == out' = [out EXCEPT ![p] = c]
Unseen      == seen' = [s \in Sessions |-> FALSE]
serverVars  == <<live, issued, expired>>
sessionVars == <<cred, seen>>

-------------------------------------------------------------------------------
(* Sessions: credState.Fresh, called by requests and by the refresh timer. *)

(* reloadIfPeerWrote: what is in memory once the file has been looked at.  *)
Reloaded(s) == IF ~seen[s] /\ Loadable THEN Unmarshal(file) ELSE cred[s]

Fresh(s) ==
    /\ pc[s] = "idle"
    /\ cred' = [cred EXCEPT ![s] = Reloaded(s)]
    /\ seen' = [seen EXCEPT ![s] = seen[s] \/ Loadable]
    /\ IF Reloaded(s).exp \in expired THEN Goto(s, "resolve") ELSE pc' = pc
    /\ UNCHANGED <<storeVars, resolved, out, serverVars>>

(* The refreshed credential replaces the one in memory and the file's time *)
(* is taken now, after RefreshCredential has let go of the lock.           *)
Adopt(s) ==
    /\ pc[s] = "adopt"
    /\ cred' = [cred EXCEPT ![s] = out[s]]
    /\ seen' = [seen EXCEPT ![s] = seen[s] \/ file.kind # "missing"]
    /\ Goto(s, "idle")
    /\ Keep(s, NoCred)
    /\ UNCHANGED <<storeVars, resolved, serverVars>>

-------------------------------------------------------------------------------
(* RefreshCredential.                                                      *)

(* The unlocked reading whose access token is compared under the lock.     *)
ResolveToRefresh(p) ==
    /\ pc[p] = "resolve"
    /\ IF Loadable
       THEN resolved' = [resolved EXCEPT ![p] = file.access] /\ Goto(p, "lock")
       ELSE resolved' = resolved /\ Goto(p, Rest(p))
    /\ UNCHANGED <<storeVars, out, sessionVars, serverVars>>

Lock(p) ==
    /\ pc[p] = "lock"
    /\ Flock(p)
    /\ Goto(p, "load")
    /\ UNCHANGED <<resolved, out, sessionVars, serverVars>>

(* Mutant: the poll has no deadline.                                       *)
LockWithoutDeadline(p) == FALSE

(* acquireLock polls for 30 seconds and gives up.                          *)
LockTimeout(p) ==
    /\ pc[p] = "lock"
    /\ lock # NoProc
    /\ Goto(p, Rest(p))
    /\ UNCHANGED <<storeVars, resolved, out, sessionVars, serverVars>>

(* Mutant: the credential is loaded under the lock but not compared.       *)
LoadWithoutComparing(p) ==
    /\ pc[p] = "load"
    /\ IF Loadable
       THEN Keep(p, Unmarshal(file)) /\ Goto(p, "provider")
       ELSE Keep(p, NoCred) /\ Goto(p, "unlock")
    /\ UNCHANGED <<storeVars, resolved, sessionVars, serverVars>>

(* Under the lock: another access token than the one resolved means that a *)
(* peer has refreshed, and its result is taken over.                       *)
LoadLocked(p) ==
    /\ pc[p] = "load"
    /\ IF Loadable
       THEN /\ Keep(p, Unmarshal(file))
            /\ Goto(p, IF file.access # resolved[p] THEN "unlock" ELSE "provider")
       ELSE Keep(p, NoCred) /\ Goto(p, "unlock")
    /\ UNCHANGED <<storeVars, resolved, sessionVars, serverVars>>

(* Mutants: the new refresh token is not taken over; the expiry is not.    *)
RefreshedKeepsOldToken(c, a, r) == [access |-> a, refresh |-> c.refresh, exp |-> a]
RefreshedKeepsExpiry(c, a, r)   == [access |-> a, refresh |-> r, exp |-> c.exp]

(* Only grok goes through SetTokens, which moves the cached expiry along.  *)
Refreshed(c, a, r) ==
    [access |-> a, refresh |-> r, exp |-> IF Provider = "grok" THEN a ELSE c.exp]

(* The server answers with a new access token and, when it rotates, a new  *)
(* refresh token in exchange for the old one.                              *)
Issue(p, r) ==
    /\ issued < MaxTokens
    /\ out[p].refresh \in live
    /\ issued' = issued + 1
    /\ r \in {out[p].refresh, issued + 1}
    /\ live' = (live \ {out[p].refresh}) \cup {r}
    /\ expired' = expired

Answered(p) ==
    /\ pc[p] = "provider"
    /\ \E r \in Tokens :
        /\ Issue(p, r)
        /\ Keep(p, Refreshed(out[p], issued + 1, r))
    /\ Goto(p, "open")
    /\ UNCHANGED <<storeVars, resolved, sessionVars>>

(* The server has rotated but the answer is lost or cannot be parsed.      *)
AnswerLost(p) ==
    /\ pc[p] = "provider"
    /\ \E r \in Tokens : Issue(p, r)
    /\ Keep(p, NoCred)
    /\ Goto(p, "unlock")
    /\ UNCHANGED <<storeVars, resolved, sessionVars>>

(* A transport failure, a timeout or a 5xx: nothing happened at the server. *)
Unanswered(p) ==
    /\ pc[p] = "provider"
    /\ Keep(p, NoCred)
    /\ Goto(p, "unlock")
    /\ UNCHANGED <<storeVars, resolved, sessionVars, serverVars>>

(* A spent refresh token.  Codex and grok look at the file once more.      *)
Rejected(p) ==
    /\ pc[p] = "provider"
    /\ out[p].refresh \notin live
    /\ Keep(p, NoCred)
    /\ Goto(p, IF Provider = "claude" THEN "unlock" ELSE "reread")
    /\ UNCHANGED <<storeVars, resolved, sessionVars, serverVars>>

Reread(p) ==
    /\ pc[p] = "reread"
    /\ Keep(p, IF Loadable /\ file.access # resolved[p] THEN Unmarshal(file) ELSE NoCred)
    /\ Goto(p, "unlock")
    /\ UNCHANGED <<storeVars, resolved, sessionVars, serverVars>>

Unlock(p) ==
    /\ pc[p] = "unlock"
    /\ Funlock
    /\ IF p \in Sessions /\ out[p] # NoCred
       THEN Goto(p, "adopt") /\ out' = out
       ELSE Goto(p, Rest(p)) /\ Keep(p, NoCred)
    /\ resolved' = [resolved EXCEPT ![p] = 0]
    /\ UNCHANGED <<sessionVars, serverVars>>

-------------------------------------------------------------------------------
(* store.Save, by a holder of the lock and by commands that do without it. *)

OpenTmp(p) ==
    /\ pc[p] = "open"
    /\ Open(p)
    /\ Goto(p, "write")
    /\ UNCHANGED <<resolved, out, sessionVars, serverVars>>

WriteTmp(p) ==
    /\ pc[p] = "write"
    /\ Write(p, out[p])
    /\ IF fd[p] = "file" THEN Unseen ELSE seen' = seen
    /\ Goto(p, "publish")
    /\ UNCHANGED <<resolved, out, cred, serverVars>>

PublishTmp(p) ==
    /\ pc[p] = "publish"
    /\ Publish
    /\ Unseen
    /\ Goto(p, Leave(p))
    /\ UNCHANGED <<resolved, out, cred, serverVars>>

(* Save fails before the write or, the temporary file gone, at the rename. *)
SaveFails(p) ==
    /\ \/ pc[p] = "open"
       \/ pc[p] = "publish" /\ tmp.kind = "missing"
    /\ Keep(p, NoCred)
    /\ Goto(p, Leave(p))
    /\ UNCHANGED <<storeVars, resolved, sessionVars, serverVars>>

-------------------------------------------------------------------------------
(* The commands that do not take the lock.                                 *)

ResolveToRename(p) ==
    /\ pc[p] = "resolve"
    /\ IF Loadable
       THEN Keep(p, Unmarshal(file)) /\ Goto(p, "open")
       ELSE out' = out /\ Goto(p, "done")
    /\ UNCHANGED <<storeVars, resolved, sessionVars, serverVars>>

ResolveTo(p, next) ==
    /\ pc[p] = "resolve"
    /\ Goto(p, IF Loadable THEN next ELSE "done")
    /\ UNCHANGED <<storeVars, resolved, out, sessionVars, serverVars>>

(* The login mints tokens of its own and grafts them onto the identity.    *)
Login(p) ==
    /\ pc[p] = "login"
    /\ issued < MaxTokens
    /\ issued' = issued + 1
    /\ live' = live \cup {issued + 1}
    /\ Keep(p, [access |-> issued + 1, refresh |-> issued + 1, exp |-> issued + 1])
    /\ Goto(p, "open")
    /\ UNCHANGED <<storeVars, resolved, sessionVars, expired>>

DoLogout(p) ==
    /\ pc[p] = "delete"
    /\ Delete
    /\ Goto(p, "done")
    /\ UNCHANGED <<resolved, out, sessionVars, serverVars>>

-------------------------------------------------------------------------------
(* The world: time passes; processes are killed, and sessions started anew. *)

Expire(t) ==
    /\ t <= issued
    /\ expired' = expired \cup {t}
    /\ UNCHANGED <<storeVars, pc, resolved, out, sessionVars, live, issued>>

Kill(p) ==
    /\ pc[p] # "done"
    /\ Exit(p)
    /\ Goto(p, "done")
    /\ Keep(p, NoCred)
    /\ UNCHANGED <<resolved, sessionVars, serverVars>>

Restart(s) ==
    /\ pc[s] = "done"
    /\ Loadable
    /\ cred' = [cred EXCEPT ![s] = Unmarshal(file)]
    /\ seen' = [seen EXCEPT ![s] = FALSE]
    /\ Goto(s, "idle")
    /\ UNCHANGED <<storeVars, resolved, out, serverVars>>

(* The steps of one call of Fresh or RefreshCredential.                    *)
Step(p) ==
    \/ ResolveToRefresh(p) \/ Lock(p) \/ LockTimeout(p) \/ LoadLocked(p)
    \/ Answered(p) \/ AnswerLost(p) \/ Unanswered(p) \/ Rejected(p) \/ Reread(p)
    \/ OpenTmp(p) \/ WriteTmp(p) \/ PublishTmp(p) \/ SaveFails(p) \/ Unlock(p)

Next ==
    \/ \E p \in Callers : Step(p)
    \/ \E s \in Sessions : Fresh(s) \/ Adopt(s) \/ Restart(s)
    \/ \E p \in Unlocked : OpenTmp(p) \/ WriteTmp(p) \/ PublishTmp(p) \/ SaveFails(p)
    \/ \E p \in Renamers : ResolveToRename(p)
    \/ \E p \in Relogins : ResolveTo(p, "login") \/ Login(p)
    \/ \E p \in Logouts : ResolveTo(p, "delete") \/ DoLogout(p)
    \/ \E t \in Tokens : Expire(t)
    \/ \E p \in Mortal : Kill(p)

(* A process that is alive runs, and neither the poll for the lock nor an  *)
(* HTTP client waits for ever.                                             *)
Fairness ==
    /\ \A p \in Callers : WF_vars(Step(p))
    /\ \A s \in Sessions : WF_vars(Adopt(s))

Spec == Init /\ [][Next]_vars /\ Fairness

-------------------------------------------------------------------------------
(* Properties.  As long as no command that does without the lock has       *)
(* touched the file, the lock is all that protects the rotating token.     *)
Quiet == \A p \in Unlocked : pc[p] \in {"resolve", "login", "open", "delete"}

(* The file the store publishes is never half written: two Saves of one    *)
(* credential share their temporary name, and only the lock of             *)
(* RefreshCredential keeps one from renaming what the other is writing.    *)
PublishedIsWhole == Quiet => file.kind = "whole"
Inv == TypeOK /\ PublishedIsWhole

(* A refresh that reaches the provider presents the refresh token the file *)
(* holds at that moment, and only if no peer has replaced the access token *)
(* since it resolved the credential: of two racing refreshes of one token  *)
(* the loser takes over the winner's (SeamBetweenResolveAndLock).          *)
PresentsWhatIsStored ==
    \A p \in Callers :
        Quiet /\ pc[p] = "provider" =>
            out[p] = Unmarshal(file) /\ file.access = resolved[p]

(* The token by which the credential can still be refreshed is in the file *)
(* or in the hands of the process that holds the lock and is saving it.    *)
GrantInReach ==
    \/ file.kind = "whole" /\ file.refresh \in live
    \/ lock # NoProc /\ pc[lock] \in SavePcs /\ out[lock].refresh \in live

(* Concurrent refreshes never lose the credential: it goes out of reach    *)
(* only when the rotation's answer is lost, when the save fails, or when   *)
(* the process is killed between the rotation and the rename.              *)
GrantIsKept ==
    [][Quiet /\ Quiet' /\ GrantInReach /\ ~GrantInReach' =>
        lock # NoProc /\ (AnswerLost(lock) \/ SaveFails(lock) \/ Kill(lock))]_vars

(* A session whose access token is good for a while, as its provider says, *)
(* answers from memory and leaves the OAuth server alone (the cheap path   *)
(* of credState.Fresh, whether the token was loaded or just refreshed).    *)
CheapPathIsTaken ==
    [][\A s \in Sessions :
        pc[s] = "idle" /\ pc'[s] = "resolve" => cred'[s].access \in expired]_vars

(* Every call of Fresh and RefreshCredential returns, whoever holds the    *)
(* lock and whatever becomes of the holder.                                *)
RefreshReturns ==
    \A p \in Callers : pc[p] \in CallPcs ~> pc[p] \notin CallPcs
===============================================================================
