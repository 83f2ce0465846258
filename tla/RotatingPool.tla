---------------------------- MODULE RotatingPool -----------------------------
(***************************************************************************)
(* The load-balance pool with one activated entry (internal/share: pool.go,*)
(* scheduler.go, the single-active branches of proxy.go and localproxy.go, *)
(* failEntryInvalidGrant of sticky.go).                                    *)
(*                                                                         *)
(* Three kinds of actors interleave at the granularity of p.mu: request    *)
(* handlers, which read the activated slot, leave the lock to refresh a    *)
(* token and come back to it when an answer arrives; the scheduler, which  *)
(* probes without the lock, ranks under it, leaves it again to capture     *)
(* headers and re-takes it to promote; and the world, which revokes and    *)
(* renews refresh tokens and lets cached usage reports age.                *)
(***************************************************************************)
EXTENDS PoolEntries

CONSTANTS
    Requests,       \* request handlers in flight at once
    SkipCapture,    \* TRUE for ccm launch, FALSE for ccm share
    Flaky,          \* entries whose usage probe may fail with a live token
    Revocable,      \* local entries whose refresh token may be revoked
    CaptureFlaky,   \* local entries whose header capture may fail
    DegradedSeeds,  \* passthroughs whose bootstrap probe returned 503
    MaxFeas         \* feasibility levels the ranking tells apart

ASSUME RotatingAssumption ==
    /\ SkipCapture \in BOOLEAN
    /\ Flaky \subseteq Entries
    /\ Revocable \subseteq Locals
    /\ CaptureFlaky \subseteq Locals
    /\ DegradedSeeds \subseteq Passthroughs
    /\ MaxFeas \in Nat

VARIABLES
    activated,      \* credPool.activated
    wake,           \* a token sits in the one-place channel credPool.wake
    captured,       \* entries whose poolEntry.captured is set
    dead,           \* entries whose refresh token the OAuth server rejects
    spc,            \* where runOnce is: "idle", "probe" or "promote"
    todo,           \* jobs of this tick still to be probed
    preFail,        \* consecutiveFail at the tick's snapshot
    winner,         \* the entry being captured and promoted
    req             \* the request handlers

schedVars == <<spc, todo, preFail, winner>>
vars == <<status, fail, usage, activated, wake, captured, dead,
          spc, todo, preFail, winner, req>>

NoRequest  == [pc |-> "idle", entry |-> NoEntry, view |-> NoEntry]
NoFailures == [e \in Entries |-> 0]
Slot       == Entries \cup {NoEntry}

RequestTypes ==
    [pc : {"idle", "fresh", "dead", "token", "upstream"}, entry : Slot, view : Slot]

TypeOK ==
    /\ EntriesTypeOK
    /\ activated \in Slot
    /\ wake \in BOOLEAN
    /\ captured \in SUBSET Entries
    /\ dead \in SUBSET Entries
    /\ spc \in {"idle", "probe", "promote"}
    /\ todo \in SUBSET Entries
    /\ preFail \in [Entries -> FailCount]
    /\ winner \in Slot
    /\ req \in [Requests -> RequestTypes]

-----------------------------------------------------------------------------
(* What BuildPoolFromMixed hands over.  Every local entry was refreshed and *)
(* probed (a lone one may not have been); one local entry was captured, the *)
(* activated one if it is local.  Ids of passthroughs ("pt:...") sort after *)
(* those of local credentials (hexadecimal), so a degraded seed, whose      *)
(* feasibility is 0, comes first only in a pool without local entries.      *)
Init ==
    \E first \in Entries, held \in SUBSET Locals :
        /\ first \in DegradedSeeds => Locals = {}
        /\ \A e \in held : held = {e}
        /\ held = {} <=> (SkipCapture \/ Locals = {})
        /\ first \in Locals /\ ~SkipCapture => first \in held
        /\ activated = first
        /\ status = [e \in Entries |-> IF e \in DegradedSeeds THEN "degraded"
                                       ELSE IF e = first THEN "activated"
                                       ELSE "candidate"]
        /\ fail = NoFailures
        /\ \E seen \in IF Singleton THEN {"none", "fresh"} ELSE {"fresh"} :
               usage = [e \in Entries |-> IF e \in Passthroughs THEN "none" ELSE seen]
        /\ captured = held
        /\ wake = FALSE
        /\ dead = {}
        /\ spc = "idle"
        /\ todo = {}
        /\ preFail = NoFailures
        /\ winner = NoEntry
        /\ req = [r \in Requests |-> NoRequest]

-----------------------------------------------------------------------------
(* The world.                                                              *)

Revoke(e) ==
    /\ e \in Revocable \ dead
    /\ dead' = dead \cup {e}
    /\ UNCHANGED <<entryVars, activated, wake, captured, schedVars, req>>

(* ccm relogin writes new tokens; credState picks them up by mtime.        *)
Relogin(e) ==
    /\ e \in dead
    /\ dead' = dead \ {e}
    /\ UNCHANGED <<entryVars, activated, wake, captured, schedVars, req>>

Age(e) ==
    /\ AgeUsage(e)
    /\ UNCHANGED <<activated, wake, captured, dead, schedVars, req>>

-----------------------------------------------------------------------------
(* Request handlers.  A request that finds the slot empty is answered 503  *)
(* and changes nothing.                                                    *)

ReadActivated(r) ==
    /\ req[r].pc = "idle"
    /\ activated # NoEntry
    /\ req' = [req EXCEPT ![r] = [NoRequest EXCEPT !.pc = "fresh", !.entry = activated]]
    /\ UNCHANGED <<entryVars, activated, wake, captured, dead, schedVars>>

(* Fresh() succeeds.  An entry whose refresh token is dead still serves    *)
(* its access token until that expires.  ccm launch reads no view.         *)
FreshOk(r) ==
    /\ req[r].pc = "fresh"
    /\ req' = [req EXCEPT ![r].pc = IF SkipCapture THEN "upstream" ELSE "token"]
    /\ UNCHANGED <<entryVars, activated, wake, captured, dead, schedVars>>

FreshTransientError(r) ==
    /\ req[r].pc = "fresh"
    /\ req[r].entry \in Locals
    /\ req' = [req EXCEPT ![r] = NoRequest]
    /\ UNCHANGED <<entryVars, activated, wake, captured, dead, schedVars>>

FreshInvalidGrant(r) ==
    /\ req[r].pc = "fresh"
    /\ req[r].entry \in dead
    /\ req' = [req EXCEPT ![r].pc = "dead"]
    /\ UNCHANGED <<entryVars, activated, wake, captured, dead, schedVars>>

(* Mutant: the scheduler is not woken after the slot is cleared.           *)
FailEntryWithoutWake(r) ==
    /\ req[r].pc = "dead"
    /\ activated # NoEntry
    /\ req' = [req EXCEPT ![r] = NoRequest]
    /\ DegradeInvalidGrant(activated)
    /\ activated' = NoEntry
    /\ UNCHANGED <<wake, captured, dead, schedVars>>

(* failEntryInvalidGrant("", ""): the entry is the one activated NOW.      *)
FailEntryInvalidGrant(r) ==
    /\ req[r].pc = "dead"
    /\ req' = [req EXCEPT ![r] = NoRequest]
    /\ \/ /\ activated = NoEntry
          /\ UNCHANGED <<entryVars, activated, wake>>
       \/ /\ activated # NoEntry
          /\ DegradeInvalidGrant(activated)
          /\ activated' = NoEntry
          /\ wake' = TRUE
    /\ UNCHANGED <<captured, dead, schedVars>>

(* handleServe takes the view the director replays after it has the token. *)
ReadView(r) ==
    /\ req[r].pc = "token"
    /\ req' = [req EXCEPT ![r].pc = "upstream", ![r].view = activated]
    /\ UNCHANGED <<entryVars, activated, wake, captured, dead, schedVars>>

(* SignalActivatedFailed: a 401 is charged to the entry activated now.     *)
Respond401(r) ==
    /\ req[r].pc = "upstream"
    /\ req' = [req EXCEPT ![r] = NoRequest]
    /\ fail' = [e \in Entries |-> IF e = activated THEN Bump(fail[e]) ELSE fail[e]]
    /\ UNCHANGED <<status, usage, activated, wake, captured, dead, schedVars>>

(* UpdateActiveFromHeaders: only ccm share, for a view that is not a       *)
(* passthrough, when the answer carries rate-limit headers.                *)
Respond2xxWithHeaders(r) ==
    /\ req[r].pc = "upstream"
    /\ ~SkipCapture
    /\ req[r].view \notin Passthroughs
    /\ req' = [req EXCEPT ![r] = NoRequest]
    /\ fail' = [e \in Entries |-> IF e = activated THEN 0 ELSE fail[e]]
    /\ usage' = [e \in Entries |-> IF e = activated THEN "fresh" ELSE usage[e]]
    /\ UNCHANGED <<status, activated, wake, captured, dead, schedVars>>

RespondOther(r) ==
    /\ req[r].pc = "upstream"
    /\ req' = [req EXCEPT ![r] = NoRequest]
    /\ UNCHANGED <<entryVars, activated, wake, captured, dead, schedVars>>

RequestStep(r) ==
    \/ ReadActivated(r) \/ FreshOk(r) \/ FreshTransientError(r)
    \/ FreshInvalidGrant(r) \/ FailEntryInvalidGrant(r) \/ ReadView(r)
    \/ Respond401(r) \/ Respond2xxWithHeaders(r) \/ RespondOther(r)

-----------------------------------------------------------------------------
(* The scheduler.                                                          *)

(* The snapshot at the head of runOnce.                                    *)
BeginTick ==
    /\ spc' = "probe"
    /\ todo' = {e \in Entries : ~CacheHit(e)}
    /\ preFail' = fail
    /\ winner' = NoEntry

EndTick ==
    /\ spc' = "idle"
    /\ todo' = {}
    /\ preFail' = NoFailures
    /\ winner' = NoEntry

Tick ==
    /\ spc = "idle"
    /\ ~Singleton
    /\ BeginTick
    /\ UNCHANGED <<entryVars, activated, wake, captured, dead, req>>

(* The select of Run takes the wake token; a singleton pool drops it.      *)
WakeUp ==
    /\ spc = "idle"
    /\ wake
    /\ wake' = FALSE
    /\ IF Singleton THEN UNCHANGED schedVars ELSE BeginTick
    /\ UNCHANGED <<entryVars, activated, captured, dead, req>>

(* One probe, made without the lock, and its MarkProbe.                    *)
ProbeOk(e) ==
    /\ spc = "probe"
    /\ e \in todo
    /\ MarkProbeOk(e)
    /\ todo' = todo \ {e}
    /\ UNCHANGED <<activated, wake, captured, dead, spc, preFail, winner, req>>

ProbeErr(e) ==
    /\ spc = "probe"
    /\ e \in todo
    /\ e \in dead \cup Flaky
    /\ MarkProbeErr(e)
    /\ todo' = todo \ {e}
    /\ UNCHANGED <<activated, wake, captured, dead, spc, preFail, winner, req>>

(* The failures that count for the activated entry: those seen before the  *)
(* tick's own probe could reset them, or those counted since.              *)
TickFail(e) == IF preFail[e] > fail[e] THEN preFail[e] ELSE fail[e]

(* Mutant: the ranking forgets to leave degraded entries out.              *)
EligibleDegraded ==
    {e \in Entries : HasSignal(e) /\ (status[e] # "activated" \/ TickFail(e) < FailThreshold)}

Eligible ==
    {e \in Entries :
        /\ HasSignal(e)
        /\ \/ status[e] = "candidate"
           \/ status[e] = "activated" /\ TickFail(e) < FailThreshold}

(* Mutant: the activated entry is degraded and stays in the slot.          *)
RankNoneKeepsSlot ==
    /\ spc = "probe"
    /\ todo = {}
    /\ Eligible = {}
    /\ activated # NoEntry
    /\ TickFail(activated) >= FailThreshold
    /\ status' = [status EXCEPT ![activated] = "degraded"]
    /\ EndTick
    /\ UNCHANGED <<activated, fail, usage, wake, captured, dead, req>>

(* Branches (c) and (d): nobody is eligible.                               *)
RankNone ==
    /\ spc = "probe"
    /\ todo = {}
    /\ Eligible = {}
    /\ IF activated # NoEntry /\ TickFail(activated) >= FailThreshold
       THEN /\ status' = [status EXCEPT ![activated] = "degraded"]
            /\ activated' = NoEntry
       ELSE UNCHANGED <<status, activated>>
    /\ EndTick
    /\ UNCHANGED <<fail, usage, wake, captured, dead, req>>

(* The feasibilities are what the usage reports project at this instant:   *)
(* any assignment can come up, so one is chosen here.                      *)
BestEligible(w) == \E feas \in [Eligible -> 0..MaxFeas] : IsBest(feas, w, Eligible)

(* Branch (a): the activated entry still ranks first.                      *)
RankKeep ==
    /\ spc = "probe"
    /\ todo = {}
    /\ activated \in Eligible
    /\ BestEligible(activated)
    /\ EndTick
    /\ UNCHANGED <<entryVars, activated, wake, captured, dead, req>>

(* Branch (b), first half: the loser's failures are carried over and the   *)
(* lock is released for the capture.                                       *)
RankRotate(w) ==
    /\ spc = "probe"
    /\ todo = {}
    /\ w \in Eligible \ {activated}
    /\ BestEligible(w)
    /\ fail' = [e \in Entries |-> IF e = activated THEN TickFail(e) ELSE fail[e]]
    /\ winner' = w
    /\ spc' = "promote"
    /\ UNCHANGED <<status, usage, activated, wake, captured, dead, todo, preFail, req>>

NeedsCapture(w) == w \in Locals /\ ~SkipCapture

CaptureFails ==
    /\ spc = "promote"
    /\ NeedsCapture(winner)
    /\ winner \in CaptureFlaky
    /\ EndTick
    /\ UNCHANGED <<entryVars, activated, wake, captured, dead, req>>

(* Mutants: the loser keeps its status; the headers are not stored.        *)
PromoteKeepsLoser ==
    /\ spc = "promote"
    /\ status' = [status EXCEPT ![winner] = "activated"]
    /\ fail' = [fail EXCEPT ![winner] = 0]
    /\ captured' = IF NeedsCapture(winner) THEN captured \cup {winner} ELSE captured
    /\ activated' = winner
    /\ EndTick
    /\ UNCHANGED <<usage, wake, dead, req>>

PromoteWithoutHeaders ==
    /\ spc = "promote"
    /\ status' = [e \in Entries |->
                    IF e = winner THEN "activated"
                    ELSE IF e = activated THEN "candidate" ELSE status[e]]
    /\ activated' = winner
    /\ EndTick
    /\ UNCHANGED <<fail, usage, captured, wake, dead, req>>

(* Branch (b), second half: Promote, whatever is activated by then.        *)
Promote ==
    /\ spc = "promote"
    /\ status' = [e \in Entries |->
                    IF e = winner THEN "activated"
                    ELSE IF e # activated THEN status[e]
                    ELSE IF fail[e] >= FailThreshold THEN "degraded"
                    ELSE "candidate"]
    /\ fail' = [e \in Entries |->
                    IF e = winner \/ (e = activated /\ fail[e] < FailThreshold)
                    THEN 0 ELSE fail[e]]
    /\ captured' = IF NeedsCapture(winner) THEN captured \cup {winner} ELSE captured
    /\ activated' = winner
    /\ EndTick
    /\ UNCHANGED <<usage, wake, dead, req>>

SchedulerStep ==
    \/ WakeUp
    \/ \E e \in Entries : ProbeOk(e) \/ ProbeErr(e)
    \/ RankNone \/ RankKeep \/ \E w \in Entries : RankRotate(w)
    \/ CaptureFails \/ Promote

-----------------------------------------------------------------------------
Next ==
    \/ \E e \in Entries : Revoke(e) \/ Relogin(e) \/ Age(e)
    \/ \E r \in Requests : RequestStep(r)
    \/ Tick
    \/ SchedulerStep

Spec == Init /\ [][Next]_vars

(* The scheduler goroutine keeps running and its ticker keeps firing, and  *)
(* time passes: a usage report that stays cached grows old.  Nothing is    *)
(* assumed of requests, of tokens, or of which entry ranks first.          *)
Fairness ==
    /\ WF_vars(SchedulerStep)
    /\ WF_vars(Tick)
    /\ \A e \in Entries : WF_vars(Age(e))

FairSpec == Spec /\ Fairness

-----------------------------------------------------------------------------
(* SAFETY                                                                  *)

(* pool.go keeps the slot and the statuses in step although a request may  *)
(* clear the slot while the scheduler has left the lock to capture: an     *)
(* entry marked activated is the one in the slot, and the entry in the     *)
(* slot is marked activated, unless it was seeded degraded.                *)
SlotMatchesStatus ==
    /\ \A e \in Entries : status[e] = "activated" => activated = e
    /\ activated # NoEntry => status[activated] = "activated" \/ activated \in DegradedSeeds
Inv == TypeOK /\ SlotMatchesStatus

(* In ccm share an activated local entry always has the captured headers   *)
(* the director replays for it (pool_builder.go's capture loop, runOnce's  *)
(* capture before Promote).                                                *)
ActivatedHasHeaders ==
    ~SkipCapture /\ activated \in Locals => activated \in captured

(* The wake token of failEntryInvalidGrant is never lost: when the         *)
(* scheduler rests, no wake is pending and the slot is empty, there is no  *)
(* candidate it could have promoted.  The pool does not sit in 503 over a  *)
(* usable credential waiting for the next tick.                            *)
NoRestingOutage ==
    spc = "idle" /\ ~wake /\ activated = NoEntry =>
        \A e \in Entries : HasSignal(e) => status[e] # "candidate"

(* ACTION PROPERTIES                                                       *)

(* Whatever happened while the lock was released for the capture, the slot *)
(* is only ever filled with a healthy entry: a candidate that no probe and *)
(* no request has degraded.                                                *)
OnlyCandidatesArePromoted ==
    [][activated' \notin {activated, NoEntry} => status[activated'] = "candidate"]_vars

(* An activated entry loses its place to "degraded" only for cause: two    *)
(* failures in this tick's count or a request holding an invalid_grant.    *)
(* A usage probe never demotes it (MarkProbe's promise).                   *)
NoDemotionWithoutCause ==
    [][\A e \in Entries :
        status[e] = "activated" /\ status'[e] = "degraded" =>
            \/ TickFail(e) >= FailThreshold
            \/ \E r \in Requests : req[r].pc = "dead" /\ req'[r].pc = "idle"]_vars

(* IMPLEMENTATION                                                          *)

(* A pool seeded without degraded entries keeps the promise of ServingSlot *)
(* (pool.go, "activated" and the statuses; scheduler.go's rotation rule).  *)
Healthy == {e \in Entries : status[e] # "degraded"}

Promise == INSTANCE ServingSlot WITH slot <- activated, healthy <- Healthy

KeepsThePromise == Promise!Spec

(* LIVENESS                                                                *)

(* A pool that holds an entry whose token stays alive and whose probe is   *)
(* reliable does not stay in 503 (README: "a load-balance pool rotates to  *)
(* one").                                                                  *)
Recovers ==
    \A e \in Entries \ Flaky : <>[](e \notin dead) => []<>(activated # NoEntry)
=============================================================================
