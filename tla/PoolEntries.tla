----------------------------- MODULE PoolEntries -----------------------------
(***************************************************************************)
(* The entries of a credential pool (internal/share/pool.go, poolEntry)    *)
(* and the per-entry state machine that the rotating pool (RotatingPool)   *)
(* and the sticky pool (StickyPool) share: what a usage probe, a dead      *)
(* refresh token and the passing of time do to one entry.                  *)
(*                                                                         *)
(* Abstractions.  An entry is a natural number: the place of its id in the *)
(* lexical order that breaks ties.  consecutiveFail is only ever compared  *)
(* with 0 and with the threshold 2, incremented, reset and maximised, so   *)
(* it saturates at FailThreshold, which preserves every one of these       *)
(* tests.  The usage report itself is reduced to whether it is there and   *)
(* whether it is younger than the scheduler's TTL.                         *)
(***************************************************************************)
EXTENDS Naturals, FiniteSets

CONSTANTS
    Entries,        \* the pool's entries, ranked by id
    Passthroughs,   \* those that forward to another ccm share
    NoEntry         \* the empty id "": no entry

ASSUME EntriesAssumption ==
    /\ Entries \subseteq Nat
    /\ Entries # {}
    /\ Passthroughs \subseteq Entries
    /\ NoEntry \in Nat \ Entries

VARIABLES
    status,         \* poolEntry.status
    fail,           \* poolEntry.consecutiveFail, saturated
    usage           \* poolEntry.lastUsage with the age of lastUsageAt

entryVars == <<status, fail, usage>>

FailThreshold == 2
FailCount     == 0..FailThreshold
Statuses      == {"activated", "candidate", "degraded"}
UsageStates   == {"none", "fresh", "stale"}

Locals    == Entries \ Passthroughs
Singleton == \E e \in Entries : Entries = {e}

EntriesTypeOK ==
    /\ status \in [Entries -> Statuses]
    /\ fail \in [Entries -> FailCount]
    /\ usage \in [Entries -> UsageStates]

Bump(n) == IF n < FailThreshold THEN n + 1 ELSE n

-----------------------------------------------------------------------------
(* Mutant: a successful probe resets the counter and revives nobody.       *)
MarkProbeOkWithoutRevival(e) ==
    /\ fail' = [fail EXCEPT ![e] = 0]
    /\ usage' = [usage EXCEPT ![e] = IF e \in Passthroughs THEN "none" ELSE "fresh"]
    /\ UNCHANGED status

(* A probe succeeded.  A local probe leaves a new usage report, a          *)
(* passthrough probe stores an override and clears the report.             *)
MarkProbeOk(e) ==
    /\ fail' = [fail EXCEPT ![e] = 0]
    /\ status' = [status EXCEPT ![e] = IF @ = "degraded" THEN "candidate" ELSE @]
    /\ usage' = [usage EXCEPT ![e] = IF e \in Passthroughs THEN "none" ELSE "fresh"]

(* Mutant: a failed probe degrades the activated entry too.                *)
MarkProbeErrDemotesActivated(e) ==
    /\ fail' = [fail EXCEPT ![e] = Bump(@)]
    /\ status' = [status EXCEPT ![e] = IF Bump(fail[e]) >= FailThreshold THEN "degraded" ELSE @]
    /\ UNCHANGED usage

(* A probe failed: only a candidate can be degraded by it.                 *)
MarkProbeErr(e) ==
    /\ fail' = [fail EXCEPT ![e] = Bump(@)]
    /\ status' = [status EXCEPT ![e] =
                    IF @ = "candidate" /\ Bump(fail[e]) >= FailThreshold
                    THEN "degraded" ELSE @]
    /\ UNCHANGED usage

(* The part of failEntryInvalidGrant that concerns the entry itself.       *)
DegradeInvalidGrant(e) ==
    /\ status' = [status EXCEPT ![e] = "degraded"]
    /\ fail' = [fail EXCEPT ![e] = FailThreshold]
    /\ UNCHANGED usage

(* The cache TTL of one usage report runs out.                             *)
AgeUsage(e) ==
    /\ usage[e] = "fresh"
    /\ usage' = [usage EXCEPT ![e] = "stale"]
    /\ UNCHANGED <<status, fail>>

-----------------------------------------------------------------------------
(* A tick probes an entry unless it holds a usage report younger than TTL. *)
CacheHit(e) == usage[e] = "fresh"

(* A passthrough is seeded with an override that is never cleared; a local *)
(* entry can be ranked only once it has a usage report.                    *)
HasSignal(e) == e \in Passthroughs \/ usage[e] # "none"

(* The order of the ranking: feasibility descending, then id ascending.    *)
Outranks(feas, e, o) == feas[e] > feas[o] \/ (feas[e] = feas[o] /\ e < o)
IsBest(feas, e, S)   == e \in S /\ \A o \in S \ {e} : Outranks(feas, e, o)
=============================================================================
