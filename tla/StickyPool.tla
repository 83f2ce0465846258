----------------------------- MODULE StickyPool ------------------------------
(***************************************************************************)
(* The load-balance pool of ccm share --sticky (internal/share: sticky.go, *)
(* the sticky branches of handleServe, ModifyResponse and runOnce).  There *)
(* is no activated entry: every Claude Code session is pinned to one entry *)
(* for as long as that entry can serve it.                                 *)
(*                                                                         *)
(* A request selects an entry under p.mu, refreshes its token without the  *)
(* lock, pins the session, waits for the upstream answer without the lock, *)
(* and charges the answer to the entry and to the session.  The scheduler  *)
(* probes, recomputes feasibilities and evicts pins in separate critical   *)
(* sections.                                                               *)
(*                                                                         *)
(* Abstractions.  lastFeasibility is a level 0..MaxFeas; a used-up quota   *)
(* has level 0 (between 99 and 100 percent computeFeasibility leaves a few *)
(* minutes, below every other level).  A pin remembers whether the         *)
(* cache-grace TTL has passed since its lastSuccess; the idle TTL is a     *)
(* choice of the sweep, since a pin that is not cold may have been left    *)
(* unused long enough at any sweep.                                        *)
(***************************************************************************)
EXTENDS PoolEntries

CONSTANTS
    Sessions,       \* valid X-Claude-Code-Session-Id values
    NoSession,      \* a missing or invalid session id
    Requests,       \* request handlers in flight at once
    SessionOf,      \* the session each request belongs to
    Flaky,          \* entries whose usage probe may fail with a live token
    Revocable,      \* local entries whose refresh token may be revoked
    Capped,         \* entries whose quota may be used up
    DegradedSeeds,  \* passthroughs whose bootstrap probe returned 503
    MaxFeas,        \* feasibility levels the selection tells apart
    MaxFailovers    \* maxInvalidGrantFailovers

ASSUME StickyAssumption ==
    /\ NoSession \notin Sessions
    /\ SessionOf \in [Requests -> Sessions \cup {NoSession}]
    /\ Flaky \subseteq Entries
    /\ Revocable \subseteq Locals
    /\ Capped \subseteq Entries
    /\ DegradedSeeds \subseteq Passthroughs
    /\ MaxFeas \in Nat
    /\ MaxFailovers \in Nat

VARIABLES
    spent,          \* entries whose lastUsage reports a used-up quota
    override,       \* poolEntry.feasibilityOverride of the passthroughs
    feas,           \* poolEntry.lastFeasibility
    pins,           \* credPool.sessions
    dead,           \* entries whose refresh token the OAuth server rejects
    spc,            \* where runOnce is: "idle", "probe", "refresh" or "evict"
    todo,           \* jobs of this tick still to be probed
    req,            \* the request handlers
    capped          \* auxiliary: the entry whose quota 429 last moved the
                    \* session, until there is newer word of that quota

quotaVars == <<spent, override, feas>>
schedVars == <<spc, todo>>
vars == <<status, fail, usage, spent, override, feas, pins, dead, spc, todo, req, capped>>

Slot      == Entries \cup {NoEntry}
Levels    == 0..MaxFeas
NoPin     == [entry |-> NoEntry, cold |-> FALSE]
NoRequest == [pc |-> "idle", entry |-> NoEntry, pinned |-> FALSE, attempt |-> 0]

RequestTypes ==
    [pc : {"idle", "route", "fresh", "dead", "commit", "upstream", "spent"},
     entry : Slot, pinned : BOOLEAN, attempt : 0..MaxFailovers]

TypeOK ==
    /\ EntriesTypeOK
    /\ spent \in SUBSET Entries
    /\ override \in [Passthroughs -> Levels]
    /\ feas \in [Entries -> Levels]
    /\ pins \in [Sessions -> [entry : Slot, cold : BOOLEAN]]
    /\ dead \in SUBSET Entries
    /\ spc \in {"idle", "probe", "refresh", "evict"}
    /\ todo \in SUBSET Entries
    /\ req \in [Requests -> RequestTypes]
    /\ capped \in [Sessions -> Slot]

(* bestCandidate: a clean record is required of a new selection, a looser  *)
(* one of an entry that a session is already pinned to.                    *)
Clean(e)  == status[e] # "degraded" /\ fail[e] = 0
Serves(e) == status[e] # "degraded" /\ fail[e] < FailThreshold
Best(e)   == IsBest(feas, e, {o \in Entries : Clean(o)})

(* computeFeasibility of a usage report, at this level of detail.          *)
LevelsOf(isSpent) == IF isSpent THEN {0} ELSE Levels

(* A new usage report of entry e, from a probe or from response headers.   *)
Report(e, isSpent) ==
    /\ isSpent => e \in Capped
    /\ spent' = IF isSpent THEN spent \cup {e} ELSE spent \ {e}

NewerWord(e) == capped' = [s \in Sessions |-> IF capped[s] = e THEN NoEntry ELSE capped[s]]

-----------------------------------------------------------------------------
(* The pool after enableSticky and the preflight tick of StartSession,     *)
(* which goes on only with at least one clean entry.  The preflight probes *)
(* the passthroughs; the reports of the local entries are still cached.    *)
Init ==
    \E down \in SUBSET DegradedSeeds, shaky \in SUBSET (Passthroughs \cap Flaky) :
        /\ status = [e \in Entries |-> IF e \in down THEN "degraded" ELSE "candidate"]
        /\ fail = [e \in Entries |-> IF e \in shaky /\ ~Singleton THEN 1 ELSE 0]
        /\ \E seen \in IF Singleton THEN {"none", "fresh"} ELSE {"fresh"} :
               usage = [e \in Entries |-> IF e \in Passthroughs THEN "none" ELSE seen]
        /\ spent = {}
        /\ override \in [Passthroughs -> Levels]
        /\ feas \in [Entries -> Levels]
        /\ \A e \in Passthroughs \ down : feas[e] = override[e]
        /\ \E e \in Entries : Clean(e)
        /\ pins = [s \in Sessions |-> NoPin]
        /\ dead = {}
        /\ spc = "idle"
        /\ todo = {}
        /\ req = [r \in Requests |-> NoRequest]
        /\ capped = [s \in Sessions |-> NoEntry]

-----------------------------------------------------------------------------
(* The world.                                                              *)

Revoke(e) ==
    /\ e \in Revocable \ dead
    /\ dead' = dead \cup {e}
    /\ UNCHANGED <<entryVars, quotaVars, pins, schedVars, req, capped>>

Relogin(e) ==
    /\ e \in dead
    /\ dead' = dead \ {e}
    /\ UNCHANGED <<entryVars, quotaVars, pins, schedVars, req, capped>>

Age(e) ==
    /\ AgeUsage(e)
    /\ UNCHANGED <<quotaVars, pins, dead, schedVars, req, capped>>

(* An hour without a successful response passes for session s.             *)
Cool(s) ==
    /\ pins[s].entry # NoEntry
    /\ ~pins[s].cold
    /\ pins' = [pins EXCEPT ![s].cold = TRUE]
    /\ UNCHANGED <<entryVars, quotaVars, dead, schedVars, req, capped>>

-----------------------------------------------------------------------------
(* Request handlers: selection and failover.                               *)

(* The pin map without the pin of r's session; none for NoSession.         *)
Unpinned(r) == [s \in Sessions |-> IF s = SessionOf[r] THEN NoPin ELSE pins[s]]

(* Mutant: a pinned entry must be as clean as a newly selected one.        *)
KeepsCleanPin(r) ==
    /\ SessionOf[r] \in Sessions
    /\ pins[SessionOf[r]].entry # NoEntry
    /\ Clean(pins[SessionOf[r]].entry)

KeepsPin(r) ==
    /\ SessionOf[r] \in Sessions
    /\ pins[SessionOf[r]].entry # NoEntry
    /\ Serves(pins[SessionOf[r]].entry)

(* routeCandidate, the first time and after each failover.                 *)
RoutePinned(r) ==
    /\ req[r].pc \in {"idle", "route"}
    /\ KeepsPin(r)
    /\ req' = [req EXCEPT ![r].pc = "fresh", ![r].entry = pins[SessionOf[r]].entry,
                          ![r].pinned = TRUE]
    /\ UNCHANGED <<entryVars, quotaVars, pins, dead, schedVars, capped>>

RouteFresh(r, e) ==
    /\ req[r].pc \in {"idle", "route"}
    /\ ~KeepsPin(r)
    /\ Best(e)
    /\ pins' = Unpinned(r)
    /\ req' = [req EXCEPT ![r].pc = "fresh", ![r].entry = e, ![r].pinned = FALSE]
    /\ UNCHANGED <<entryVars, quotaVars, dead, schedVars, capped>>

RouteNowhere(r) ==
    /\ req[r].pc \in {"idle", "route"}
    /\ ~KeepsPin(r)
    /\ \A e \in Entries : ~Clean(e)
    /\ pins' = Unpinned(r)
    /\ req' = [req EXCEPT ![r] = NoRequest]
    /\ UNCHANGED <<entryVars, quotaVars, dead, schedVars, capped>>

(* An entry whose refresh token is dead still serves its access token      *)
(* until that expires.                                                     *)
FreshOk(r) ==
    /\ req[r].pc = "fresh"
    /\ req' = [req EXCEPT ![r].pc = IF req[r].pinned THEN "upstream" ELSE "commit"]
    /\ UNCHANGED <<entryVars, quotaVars, pins, dead, schedVars, capped>>

(* A transient refresh error, or an invalid_grant beyond the budget.       *)
FreshGivesUp(r) ==
    /\ req[r].pc = "fresh"
    /\ req[r].entry \in Locals
    /\ req' = [req EXCEPT ![r] = NoRequest]
    /\ UNCHANGED <<entryVars, quotaVars, pins, dead, schedVars, capped>>

FreshInvalidGrant(r) ==
    /\ req[r].pc = "fresh"
    /\ req[r].entry \in dead
    /\ req[r].attempt < MaxFailovers
    /\ req' = [req EXCEPT ![r].pc = "dead"]
    /\ UNCHANGED <<entryVars, quotaVars, pins, dead, schedVars, capped>>

FailEntryInvalidGrant(r) ==
    /\ req[r].pc = "dead"
    /\ DegradeInvalidGrant(req[r].entry)
    /\ pins' = Unpinned(r)
    /\ req' = [req EXCEPT ![r] = [NoRequest EXCEPT !.pc = "route",
                                                   !.attempt = req[r].attempt + 1]]
    /\ UNCHANGED <<quotaVars, dead, schedVars, capped>>

CommitPin(r) ==
    /\ req[r].pc = "commit"
    /\ pins' = [s \in Sessions |-> IF s = SessionOf[r]
                                   THEN [entry |-> req[r].entry, cold |-> FALSE]
                                   ELSE pins[s]]
    /\ req' = [req EXCEPT ![r].pc = "upstream"]
    /\ UNCHANGED <<entryVars, quotaVars, dead, schedVars, capped>>

-----------------------------------------------------------------------------
(* Request handlers: the upstream answer.                                  *)

(* Mutant: the second 401 does not degrade.                                *)
Respond401WithoutDegrading(r) ==
    /\ req[r].pc = "upstream"
    /\ fail' = [fail EXCEPT ![req[r].entry] = Bump(@)]
    /\ pins' = Unpinned(r)
    /\ req' = [req EXCEPT ![r] = NoRequest]
    /\ UNCHANGED <<status, usage, quotaVars, dead, schedVars, capped>>

(* signalEntryFailed.                                                      *)
Respond401(r) ==
    LET e == req[r].entry IN
    /\ req[r].pc = "upstream"
    /\ fail' = [fail EXCEPT ![e] = Bump(@)]
    /\ status' = [status EXCEPT ![e] = IF @ = "candidate" /\ Bump(fail[e]) >= FailThreshold
                                       THEN "degraded" ELSE @]
    /\ pins' = Unpinned(r)
    /\ req' = [req EXCEPT ![r] = NoRequest]
    /\ UNCHANGED <<usage, quotaVars, dead, schedVars, capped>>

(* Mutant: the report is cached and the feasibility is left for the tick.  *)
NoteEntryUsageOnly(e, isSpent) ==
    /\ Report(e, isSpent)
    /\ usage' = [usage EXCEPT ![e] = "fresh"]
    /\ UNCHANGED <<status, fail, override, feas>>

(* noteEntryUsage: a 429 whose headers carry a usage report.               *)
NoteEntryUsage(e, isSpent) ==
    /\ Report(e, isSpent)
    /\ usage' = [usage EXCEPT ![e] = "fresh"]
    /\ \E f \in LevelsOf(isSpent) : feas' = [feas EXCEPT ![e] = f]
    /\ UNCHANGED <<status, fail, override>>

RespondTransient429(r) ==
    /\ req[r].pc = "upstream"
    /\ NoteEntryUsage(req[r].entry, FALSE)
    /\ NewerWord(req[r].entry)
    /\ req' = [req EXCEPT ![r] = NoRequest]
    /\ UNCHANGED <<pins, dead, schedVars>>

RespondQuota429(r) ==
    /\ req[r].pc = "upstream"
    /\ NoteEntryUsage(req[r].entry, TRUE)
    /\ capped' = [s \in Sessions |-> IF s = SessionOf[r] THEN req[r].entry ELSE capped[s]]
    /\ req' = [req EXCEPT ![r].pc = "spent"]
    /\ UNCHANGED <<pins, dead, schedVars>>

(* The pin of a used-up entry is dropped in a second critical section.     *)
DropPin(r) ==
    /\ req[r].pc = "spent"
    /\ pins' = Unpinned(r)
    /\ req' = [req EXCEPT ![r] = NoRequest]
    /\ UNCHANGED <<entryVars, quotaVars, dead, schedVars, capped>>

(* noteSuccess, without and with a usage report.                           *)
NoteSuccess(r) ==
    /\ req[r].pc = "upstream"
    /\ fail' = [fail EXCEPT ![req[r].entry] = 0]
    /\ pins' = [s \in Sessions |-> IF s = SessionOf[r] THEN [pins[s] EXCEPT !.cold = FALSE]
                                   ELSE pins[s]]
    /\ req' = [req EXCEPT ![r] = NoRequest]
    /\ UNCHANGED <<status, override, dead, schedVars>>

Respond2xx(r) ==
    /\ NoteSuccess(r)
    /\ UNCHANGED <<usage, spent, feas, capped>>

Respond2xxWithHeaders(r) ==
    /\ NoteSuccess(r)
    /\ req[r].entry \in Locals
    /\ usage' = [usage EXCEPT ![req[r].entry] = "fresh"]
    /\ NewerWord(req[r].entry)
    /\ \E isSpent \in BOOLEAN :
        /\ Report(req[r].entry, isSpent)
        /\ \E f \in LevelsOf(isSpent) : feas' = [feas EXCEPT ![req[r].entry] = f]

RespondOther(r) ==
    /\ req[r].pc = "upstream"
    /\ req' = [req EXCEPT ![r] = NoRequest]
    /\ UNCHANGED <<entryVars, quotaVars, pins, dead, schedVars, capped>>

RequestStep(r) ==
    \/ RoutePinned(r) \/ RouteNowhere(r) \/ \E e \in Entries : RouteFresh(r, e)
    \/ FreshOk(r) \/ FreshGivesUp(r) \/ FreshInvalidGrant(r)
    \/ FailEntryInvalidGrant(r) \/ CommitPin(r)
    \/ Respond401(r) \/ RespondTransient429(r) \/ RespondQuota429(r) \/ DropPin(r)
    \/ Respond2xx(r) \/ Respond2xxWithHeaders(r) \/ RespondOther(r)

-----------------------------------------------------------------------------
(* The scheduler.                                                          *)

Tick ==
    /\ spc = "idle"
    /\ ~Singleton
    /\ spc' = "probe"
    /\ todo' = {e \in Entries : ~CacheHit(e)}
    /\ UNCHANGED <<entryVars, quotaVars, pins, dead, req, capped>>

ProbeOk(e) ==
    /\ spc = "probe"
    /\ e \in todo
    /\ MarkProbeOk(e)
    /\ IF e \in Passthroughs
       THEN /\ \E f \in Levels : override' = [override EXCEPT ![e] = f]
            /\ spent' = spent \ {e}
       ELSE /\ \E isSpent \in BOOLEAN : Report(e, isSpent)
            /\ UNCHANGED override
    /\ NewerWord(e)
    /\ todo' = todo \ {e}
    /\ UNCHANGED <<feas, pins, dead, spc, req>>

ProbeErr(e) ==
    /\ spc = "probe"
    /\ e \in todo
    /\ e \in dead \cup Flaky
    /\ MarkProbeErr(e)
    /\ todo' = todo \ {e}
    /\ UNCHANGED <<quotaVars, pins, dead, spc, req, capped>>

(* An override beats a usage report; a degraded entry is left alone.       *)
RefreshedLevels(e) ==
    IF status[e] = "degraded" THEN {feas[e]}
    ELSE IF e \in Passthroughs THEN {override[e]}
    ELSE IF usage[e] = "none" THEN {feas[e]}
    ELSE LevelsOf(e \in spent)

RefreshFeasibilities ==
    /\ spc = "probe"
    /\ todo = {}
    /\ feas' \in [Entries -> Levels]
    /\ \A e \in Entries : feas'[e] \in RefreshedLevels(e)
    /\ spc' = "evict"
    /\ UNCHANGED <<entryVars, spent, override, pins, dead, todo, req, capped>>

(* Mutant: only idle pins are swept.                                       *)
EvictIdleSessions ==
    /\ spc = "evict"
    /\ \E idle \in SUBSET Sessions :
        pins' = [s \in Sessions |-> IF s \in idle THEN NoPin ELSE pins[s]]
    /\ spc' = "idle"
    /\ UNCHANGED <<entryVars, quotaVars, dead, todo, req, capped>>

EvictSessions ==
    /\ spc = "evict"
    /\ \E idle \in SUBSET Sessions :
        pins' = [s \in Sessions |-> IF s \in idle \/ pins[s].cold THEN NoPin ELSE pins[s]]
    /\ spc' = "idle"
    /\ UNCHANGED <<entryVars, quotaVars, dead, todo, req, capped>>

SchedulerStep ==
    \/ \E e \in Entries : ProbeOk(e) \/ ProbeErr(e)
    \/ RefreshFeasibilities
    \/ EvictSessions

-----------------------------------------------------------------------------
Next ==
    \/ \E e \in Entries : Revoke(e) \/ Relogin(e) \/ Age(e)
    \/ \E s \in Sessions : Cool(s)
    \/ \E r \in Requests : RequestStep(r)
    \/ Tick
    \/ SchedulerStep

Spec == Init /\ [][Next]_vars

(* The ticker and the scheduler goroutine keep running and time passes: a  *)
(* usage report that is not renewed ages, a pin whose session stops        *)
(* succeeding cools.  Nothing is assumed of requests or of tokens.         *)
Succeeds(s) == \E r \in Requests : SessionOf[r] = s /\ NoteSuccess(r)

Fairness ==
    /\ WF_vars(SchedulerStep)
    /\ WF_vars(Tick)
    /\ \A e \in Entries : WF_vars(Age(e))
    /\ \A s \in Sessions : WF_vars(Cool(s)) \/ []<><<Succeeds(s)>>_vars

FairSpec == Spec /\ Fairness

-----------------------------------------------------------------------------
(* SAFETY                                                                  *)

(* An entry with two unresolved failures is degraded, whoever counted them *)
(* (probes in MarkProbe, requests in signalEntryFailed): the retention     *)
(* check of routeCandidate and the scheduler agree on who can serve.       *)
StatusTracksFailures ==
    \A e \in Entries : status[e] = "candidate" => fail[e] < FailThreshold
Inv == TypeOK /\ StatusTracksFailures

(* ACTION PROPERTIES                                                       *)

(* Entry e fails a request of session s: with an invalid_grant, with a     *)
(* quota-exhausted 429, or with a 401, which is counted.                   *)
Fails(e, r, s) ==
    /\ SessionOf[r] = s
    /\ req[r].entry = e
    /\ req'[r].pc \in {"route", "idle"}
    /\ req[r].pc \in {"dead", "spent"} \/ (req[r].pc = "upstream" /\ fail'[e] > fail[e])

(* What may take session s off entry e: the sweep (an idle or a cold pin), *)
(* that the entry does not serve, or that it fails a request of s.  An     *)
(* answer with a transient 429 or a 5xx is none.                           *)
Cause(s, e) ==
    \/ spc = "evict" /\ spc' = "idle"
    \/ ~Serves(e)
    \/ \E r \in Requests : Fails(e, r, s)

(* README: "A session is re-pinned only when its credential can no longer  *)
(* serve it".  Violated by two first requests of a session: commitPin      *)
(* overwrites the pin that the other one has committed meanwhile.  A late  *)
(* 401 or quota 429 violates it as well: signalEntryFailed, failEntry-     *)
(* InvalidGrant and dropPin delete the pin, whichever entry it is to.      *)
PinMovesForCause ==
    [][\A s \in Sessions :
        pins[s].entry \notin {NoEntry, pins'[s].entry} => Cause(s, pins[s].entry)]_vars

(* A session is settled while it has a pin and every request of it that is *)
(* under way was sent where the pin points.                                *)
Settled(s) ==
    /\ pins[s].entry # NoEntry
    /\ \A r \in Requests :
        SessionOf[r] = s /\ req[r].pc \notin {"idle", "route"} => req[r].entry = pins[s].entry

Stays(s) == Settled(s)' /\ pins'[s].entry = pins[s].entry

(* What is left of that promise when a session has several requests in     *)
(* flight: once it is settled it stays so, on the same entry, until there  *)
(* is a cause.  No overlap of its requests splits it, no answer to another *)
(* session, no tick, no report that makes another entry the better one.    *)
SettledSessionStays ==
    [][\A s \in Sessions :
        Settled(s) => Stays(s) \/ Cause(s, pins[s].entry)]_vars

(* README: a quota-exhausted 429 moves the session.  It is not sent back   *)
(* to the used-up entry while a clean entry with quota left exists and     *)
(* nothing newer is known of the used-up one.                              *)
SpentEntryIsLeft ==
    [][\A r \in Requests : \A o \in Entries \ {req'[r].entry} :
        /\ req[r].pc \in {"idle", "route"}
        /\ req'[r].pc = "fresh"
        /\ ~req'[r].pinned
        /\ SessionOf[r] \in Sessions
        /\ capped[SessionOf[r]] = req'[r].entry
        /\ Clean(o)
        => feas[o] = 0]_vars

(* LIVENESS                                                                *)

(* README: if failures persist with no success for about an hour, the pin  *)
(* is released: a session stays pinned for good only if it keeps warm.     *)
ColdPinIsReleased ==
    \A s \in Sessions, e \in Entries :
        <>[](pins[s].entry = e) => []<>(~pins[s].cold)

(* A credential that works is offered to new sessions again and again: no  *)
(* mix of stray 401s, rate limits that keep its usage report cached and    *)
(* sessions pinned to it keeps it out of the selection forever.            *)
WorkingEntryComesBack ==
    \A e \in Entries \ Flaky : <>[](e \notin dead) => []<>Clean(e)
=============================================================================
