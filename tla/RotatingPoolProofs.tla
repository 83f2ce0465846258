------------------------- MODULE RotatingPoolProofs --------------------------
(***************************************************************************)
(* Proofs about RotatingPool for every pool, every number of requests in   *)
(* flight and every choice of flaky entries.                               *)
(***************************************************************************)
EXTENDS RotatingPool, TLAPS

(* The entry the scheduler left the lock to capture is still a candidate,  *)
(* and is not the one in the slot, when it comes back to promote it: while *)
(* the lock is free only the entry in the slot can be degraded.            *)
WinnerIsCandidate ==
    spc = "promote" => winner \in Entries \ {activated} /\ status[winner] = "candidate"

(* runOnce returns before its snapshot in a singleton pool, so its entry   *)
(* never becomes a candidate.                                              *)
SingletonRests ==
    Singleton => spc = "idle" /\ \A e \in Entries : status[e] # "candidate"

IInv ==
    /\ TypeOK
    /\ SlotMatchesStatus
    /\ WinnerIsCandidate
    /\ SingletonRests
    /\ ActivatedHasHeaders

LEMMA BumpInRange ==
    ASSUME NEW n \in FailCount PROVE Bump(n) \in FailCount
BY DEF Bump, FailCount, FailThreshold

(* MarkProbe keeps the types and leaves an activated entry activated.      *)
LEMMA MarkProbeKeeps ==
    ASSUME EntriesTypeOK, NEW e \in Entries, MarkProbeOk(e) \/ MarkProbeErr(e)
    PROVE  /\ EntriesTypeOK'
           /\ \A o \in Entries : status[o] = "activated" <=> status'[o] = "activated"
<1>1. CASE MarkProbeOk(e)
  BY <1>1 DEF MarkProbeOk, EntriesTypeOK, Statuses, FailCount, FailThreshold, UsageStates
<1>2. CASE MarkProbeErr(e)
  <2>1. Bump(fail[e]) \in FailCount
    BY BumpInRange DEF EntriesTypeOK
  <2>2. QED
    BY <1>2, <2>1 DEF MarkProbeErr, EntriesTypeOK, Statuses
<1>3. QED
  BY <1>1, <1>2

-----------------------------------------------------------------------------
LEMMA InitIInv == Init => IInv
<1> SUFFICES ASSUME Init PROVE IInv
  OBVIOUS
<1>1. PICK first \in Entries, held \in SUBSET Locals :
        /\ first \in DegradedSeeds => Locals = {}
        /\ first \in Locals /\ ~SkipCapture => first \in held
        /\ activated = first
        /\ status = [e \in Entries |-> IF e \in DegradedSeeds THEN "degraded"
                                       ELSE IF e = first THEN "activated"
                                       ELSE "candidate"]
        /\ captured = held
  BY DEF Init
<1>2. TypeOK
  <2>1. EntriesTypeOK
    BY <1>1 DEF Init, EntriesTypeOK, NoFailures, Statuses, FailCount, FailThreshold,
                UsageStates
  <2>2. preFail \in [Entries -> FailCount] /\ winner \in Slot /\ todo \in SUBSET Entries
    BY DEF Init, NoFailures, FailCount, FailThreshold, Slot
  <2>3. req \in [Requests -> RequestTypes]
    BY DEF Init, NoRequest, RequestTypes, Slot
  <2>4. captured \in SUBSET Entries /\ dead \in SUBSET Entries /\ activated \in Slot
    BY <1>1 DEF Init, Locals, Slot
  <2>5. wake \in BOOLEAN /\ spc \in {"idle", "probe", "promote"}
    BY DEF Init
  <2>6. QED
    BY <2>1, <2>2, <2>3, <2>4, <2>5 DEF TypeOK
<1>3. SlotMatchesStatus /\ ActivatedHasHeaders
  BY <1>1 DEF SlotMatchesStatus, ActivatedHasHeaders
<1>4. WinnerIsCandidate /\ SingletonRests
  BY <1>1 DEF Init, WinnerIsCandidate, SingletonRests, Singleton
<1>5. QED
  BY <1>2, <1>3, <1>4 DEF IInv

-----------------------------------------------------------------------------
(* Steps that touch neither the entries, the slot nor the scheduler: they  *)
(* only have to keep their own variables in their types.                   *)
LEMMA QuietStep ==
    ASSUME IInv, UNCHANGED <<entryVars, activated, captured, schedVars>>,
           wake' \in BOOLEAN, dead' \in SUBSET Entries,
           req' \in [Requests -> RequestTypes]
    PROVE  IInv'
BY DEF IInv, TypeOK, EntriesTypeOK, SlotMatchesStatus, WinnerIsCandidate, SingletonRests,
       ActivatedHasHeaders, entryVars, schedVars

(* Every step of a request handler keeps the handlers in their types.      *)
LEMMA RequestTyped ==
    ASSUME TypeOK, NEW r \in Requests, RequestStep(r)
    PROVE  req' \in [Requests -> RequestTypes]
<1>1. /\ req \in [Requests -> RequestTypes]
      /\ activated \in Slot
      /\ NoRequest \in RequestTypes
  BY DEF TypeOK, NoRequest, RequestTypes, Slot
<1>2. CASE ReadActivated(r)
  BY <1>1, <1>2 DEF ReadActivated, NoRequest, RequestTypes
<1>3. CASE FreshOk(r) \/ FreshInvalidGrant(r) \/ ReadView(r)
  BY <1>1, <1>3 DEF FreshOk, FreshInvalidGrant, ReadView, RequestTypes
<1>4. CASE FreshTransientError(r) \/ FailEntryInvalidGrant(r) \/ Respond401(r)
           \/ Respond2xxWithHeaders(r) \/ RespondOther(r)
  BY <1>1, <1>4 DEF FreshTransientError, FailEntryInvalidGrant, Respond401,
                    Respond2xxWithHeaders, RespondOther
<1>5. QED
  BY <1>2, <1>3, <1>4 DEF RequestStep

LEMMA RequestKeepsIInv ==
    ASSUME IInv, NEW r \in Requests, RequestStep(r)
    PROVE  IInv'
<1> USE EntriesAssumption, RotatingAssumption
<1>1. req' \in [Requests -> RequestTypes]
  BY RequestTyped DEF IInv
<1>2. CASE ReadActivated(r) \/ FreshOk(r) \/ FreshTransientError(r)
           \/ FreshInvalidGrant(r) \/ ReadView(r) \/ RespondOther(r)
  BY <1>1, <1>2, QuietStep DEF IInv, TypeOK, ReadActivated, FreshOk, FreshTransientError,
     FreshInvalidGrant, ReadView, RespondOther
<1>3. CASE FailEntryInvalidGrant(r)
  <2>1. CASE activated = NoEntry
    BY <1>1, <1>3, <2>1, QuietStep
       DEF IInv, TypeOK, FailEntryInvalidGrant, entryVars, schedVars
  <2>2. CASE activated # NoEntry
    <3>1. /\ activated \in Entries
          /\ status' = [status EXCEPT ![activated] = "degraded"]
          /\ fail' = [fail EXCEPT ![activated] = FailThreshold]
          /\ activated' = NoEntry
          /\ wake' = TRUE
          /\ UNCHANGED <<usage, captured, dead, spc, todo, preFail, winner>>
      BY <1>3, <2>2 DEF FailEntryInvalidGrant, DegradeInvalidGrant, IInv, TypeOK, Slot,
         schedVars, entryVars
    <3>2. TypeOK'
      BY <1>1, <3>1 DEF IInv, TypeOK, EntriesTypeOK, Statuses, FailCount, FailThreshold, Slot
    <3>3. SlotMatchesStatus' /\ ActivatedHasHeaders'
      BY <3>1 DEF IInv, TypeOK, EntriesTypeOK, SlotMatchesStatus, ActivatedHasHeaders, Locals
    <3>4. WinnerIsCandidate' /\ SingletonRests'
      BY <3>1 DEF IInv, TypeOK, EntriesTypeOK, WinnerIsCandidate, SingletonRests, Singleton
    <3>5. QED
      BY <3>2, <3>3, <3>4 DEF IInv
  <2>3. QED
    BY <2>1, <2>2
<1>4. CASE Respond401(r) \/ Respond2xxWithHeaders(r)
  <2>1. /\ fail' \in [Entries -> FailCount]
        /\ usage' \in [Entries -> UsageStates]
        /\ UNCHANGED <<status, activated, wake, captured, dead, schedVars>>
    BY <1>4, BumpInRange DEF Respond401, Respond2xxWithHeaders, IInv, TypeOK, EntriesTypeOK,
       UsageStates, FailCount, FailThreshold
  <2>2. QED
    BY <1>1, <2>1 DEF IInv, TypeOK, EntriesTypeOK, SlotMatchesStatus, WinnerIsCandidate,
       SingletonRests, ActivatedHasHeaders, schedVars
<1>5. QED
  BY <1>2, <1>3, <1>4 DEF RequestStep

-----------------------------------------------------------------------------
LEMMA WorldKeepsIInv ==
    ASSUME IInv, NEW e \in Entries, Revoke(e) \/ Relogin(e) \/ Age(e)
    PROVE  IInv'
<1>1. CASE Revoke(e) \/ Relogin(e)
  BY <1>1, QuietStep DEF Revoke, Relogin, IInv, TypeOK
<1>2. CASE Age(e)
  BY <1>2 DEF Age, AgeUsage, IInv, TypeOK, EntriesTypeOK, UsageStates, SlotMatchesStatus,
     WinnerIsCandidate, SingletonRests, ActivatedHasHeaders, schedVars
<1>3. QED
  BY <1>1, <1>2

(* Ending a tick leaves the scheduler's own invariants vacuous.            *)
LEMMA EndTickKeeps ==
    ASSUME EndTick, NoEntry \in Nat
    PROVE  /\ spc' = "idle" /\ todo' = {} /\ winner' = NoEntry
           /\ preFail' \in [Entries -> FailCount]
           /\ WinnerIsCandidate'
BY DEF EndTick, NoFailures, FailCount, FailThreshold, WinnerIsCandidate

LEMMA SchedulerKeepsIInv ==
    ASSUME IInv, Tick \/ SchedulerStep
    PROVE  IInv'
<1> USE EntriesAssumption, RotatingAssumption
<1>1. CASE Tick
  BY <1>1 DEF Tick, BeginTick, IInv, TypeOK, EntriesTypeOK, SlotMatchesStatus, Slot,
     WinnerIsCandidate, SingletonRests, Singleton, ActivatedHasHeaders, entryVars
<1>2. CASE WakeUp
  BY <1>2 DEF WakeUp, BeginTick, IInv, TypeOK, EntriesTypeOK, SlotMatchesStatus, Slot,
     WinnerIsCandidate, SingletonRests, Singleton, ActivatedHasHeaders, entryVars, schedVars
<1>3. ASSUME NEW e \in Entries, ProbeOk(e) \/ ProbeErr(e) PROVE IInv'
  <2>1. /\ MarkProbeOk(e) \/ MarkProbeErr(e)
        /\ spc = "probe" /\ todo' = todo \ {e}
        /\ UNCHANGED <<activated, wake, captured, dead, spc, preFail, winner, req>>
    BY <1>3 DEF ProbeOk, ProbeErr
  <2>2. /\ EntriesTypeOK'
        /\ \A o \in Entries : status[o] = "activated" <=> status'[o] = "activated"
    BY <2>1, MarkProbeKeeps DEF IInv, TypeOK
  <2>3. TypeOK'
    BY <2>1, <2>2 DEF IInv, TypeOK
  <2>4. SlotMatchesStatus' /\ ActivatedHasHeaders'
    BY <2>1, <2>2 DEF IInv, TypeOK, SlotMatchesStatus, ActivatedHasHeaders, Slot
  <2>5. WinnerIsCandidate' /\ SingletonRests'
    BY <2>1 DEF IInv, WinnerIsCandidate, SingletonRests
  <2>6. QED
    BY <2>3, <2>4, <2>5 DEF IInv
<1>4. CASE RankNone
  <2>1. /\ EndTick
        /\ UNCHANGED <<fail, usage, wake, captured, dead, req>>
        /\ \/ UNCHANGED <<status, activated>>
           \/ /\ activated # NoEntry
              /\ status' = [status EXCEPT ![activated] = "degraded"]
              /\ activated' = NoEntry
        /\ spc = "probe"
    BY <1>4 DEF RankNone
  <2>2. TypeOK'
    BY <2>1, EndTickKeeps DEF IInv, TypeOK, EntriesTypeOK, Statuses, Slot
  <2>3. SlotMatchesStatus' /\ ActivatedHasHeaders'
    BY <2>1 DEF IInv, TypeOK, EntriesTypeOK, SlotMatchesStatus, ActivatedHasHeaders, Locals, Slot
  <2>4. WinnerIsCandidate' /\ SingletonRests'
    BY <2>1, EndTickKeeps DEF IInv, SingletonRests
  <2>5. QED
    BY <2>2, <2>3, <2>4 DEF IInv
<1>5. CASE RankKeep \/ CaptureFails
  <2>1. EndTick /\ spc # "idle" /\ UNCHANGED <<entryVars, activated, wake, captured, dead, req>>
    BY <1>5 DEF RankKeep, CaptureFails
  <2>2. TypeOK'
    BY <2>1, EndTickKeeps DEF IInv, TypeOK, EntriesTypeOK, entryVars, Slot
  <2>3. QED
    BY <2>1, <2>2, EndTickKeeps DEF IInv, SlotMatchesStatus, SingletonRests,
       ActivatedHasHeaders, entryVars
<1>6. ASSUME NEW w \in Entries, RankRotate(w) PROVE IInv'
  <2>1. /\ w \in Entries \ {activated} /\ status[w] = "candidate"
        /\ fail' = [e \in Entries |-> IF e = activated THEN TickFail(e) ELSE fail[e]]
        /\ winner' = w /\ spc' = "promote" /\ spc = "probe"
        /\ UNCHANGED <<status, usage, activated, wake, captured, dead, todo, preFail, req>>
    BY <1>6 DEF RankRotate, Eligible, IInv, SlotMatchesStatus
  <2>2. fail' \in [Entries -> FailCount]
    BY <2>1 DEF IInv, TypeOK, EntriesTypeOK, TickFail
  <2>3. QED
    BY <2>1, <2>2 DEF IInv, TypeOK, EntriesTypeOK, SlotMatchesStatus, WinnerIsCandidate,
       SingletonRests, ActivatedHasHeaders, Slot
<1>7. CASE Promote
  <2>1. winner \in Entries \ {activated} /\ status[winner] = "candidate" /\ ~Singleton
    BY <1>7 DEF Promote, IInv, WinnerIsCandidate, SingletonRests
  <2>2. /\ EndTick
        /\ captured' = IF NeedsCapture(winner) THEN captured \cup {winner} ELSE captured
        /\ activated' = winner
        /\ status' = [e \in Entries |->
                        IF e = winner THEN "activated"
                        ELSE IF e # activated THEN status[e]
                        ELSE IF fail[e] >= FailThreshold THEN "degraded"
                        ELSE "candidate"]
        /\ fail' = [e \in Entries |->
                        IF e = winner \/ (e = activated /\ fail[e] < FailThreshold)
                        THEN 0 ELSE fail[e]]
        /\ UNCHANGED <<usage, wake, dead, req>>
    BY <1>7 DEF Promote
  <2>3. EntriesTypeOK'
    BY <2>2 DEF IInv, TypeOK, EntriesTypeOK, Statuses, FailCount, FailThreshold
  <2>4. TypeOK'
    BY <2>1, <2>2, <2>3, EndTickKeeps DEF IInv, TypeOK, Slot
  <2>5. SlotMatchesStatus' /\ ActivatedHasHeaders'
    BY <2>1, <2>2 DEF IInv, TypeOK, SlotMatchesStatus, ActivatedHasHeaders, NeedsCapture
  <2>6. QED
    BY <2>1, <2>2, <2>4, <2>5, EndTickKeeps DEF IInv, SingletonRests
<1>8. QED
  BY <1>1, <1>2, <1>3, <1>4, <1>5, <1>6, <1>7 DEF SchedulerStep

LEMMA NextKeepsIInv == IInv /\ [Next]_vars => IInv'
<1> SUFFICES ASSUME IInv, [Next]_vars PROVE IInv'
  OBVIOUS
<1>1. CASE Next
  BY <1>1, WorldKeepsIInv, RequestKeepsIInv, SchedulerKeepsIInv DEF Next
<1>2. CASE UNCHANGED vars
  BY <1>2, QuietStep DEF vars, entryVars, schedVars, IInv, TypeOK
<1>3. QED
  BY <1>1, <1>2

(* The inductive invariant of the rotating pool.                           *)
LEMMA Invariance == Spec => []IInv
BY InitIInv, NextKeepsIInv, PTL DEF Spec

-----------------------------------------------------------------------------
(* Every variable keeps its type, and the slot and the statuses agree in   *)
(* every reachable state, whatever the requests do while the scheduler has *)
(* left the lock.                                                          *)
THEOREM SlotIsConsistent == Spec => []Inv
BY Invariance, PTL DEF IInv, Inv

(* An activated local entry of ccm share has captured headers.             *)
THEOREM HeadersAreThere == Spec => []ActivatedHasHeaders
BY Invariance, PTL DEF IInv

-----------------------------------------------------------------------------
(* A step of the pool under the invariant either leaves the slot alone,    *)
(* empties it, or fills it with the winner, which is still a candidate.    *)
LEMMA SlotMoves ==
    ASSUME IInv, [Next]_vars, activated' \notin {activated, NoEntry}
    PROVE  status[activated'] = "candidate"
<1>1. CASE Promote
  BY <1>1 DEF Promote, IInv, WinnerIsCandidate
<1>2. CASE Next /\ ~Promote
  <2>1. ASSUME NEW e \in Entries, Revoke(e) \/ Relogin(e) \/ Age(e) PROVE FALSE
    BY <2>1 DEF Revoke, Relogin, Age
  <2>2. ASSUME NEW r \in Requests, RequestStep(r) PROVE FALSE
    BY <2>2 DEF RequestStep, ReadActivated, FreshOk, FreshTransientError, FreshInvalidGrant,
       FailEntryInvalidGrant, ReadView, Respond401, Respond2xxWithHeaders, RespondOther
  <2>3. ASSUME Tick \/ SchedulerStep PROVE FALSE
    BY <1>2, <2>3 DEF Tick, SchedulerStep, WakeUp, ProbeOk, ProbeErr, RankNone, RankKeep,
       RankRotate, CaptureFails
  <2>4. QED
    BY <1>2, <2>1, <2>2, <2>3 DEF Next
<1>3. CASE UNCHANGED vars
  BY <1>3 DEF vars
<1>4. QED
  BY <1>1, <1>2, <1>3

(* The slot is only ever filled with a candidate: what happens to the pool *)
(* while the scheduler captures headers without the lock cannot make it    *)
(* promote a degraded entry.                                               *)
THEOREM OnlyCandidates == Spec => OnlyCandidatesArePromoted
<1>1. IInv /\ [Next]_vars
        => [activated' \notin {activated, NoEntry} => status[activated'] = "candidate"]_vars
  BY SlotMoves
<1>2. QED
  BY <1>1, Invariance, PTL DEF Spec, OnlyCandidatesArePromoted

-----------------------------------------------------------------------------
(* A tick that ends without emptying the slot by surprise: the scheduler's *)
(* own steps lead to rest over an empty slot only when nobody is eligible. *)
LEMMA SchedulerKeepsResting ==
    ASSUME SkipCapture \/ CaptureFlaky = {}, IInv, NoRestingOutage, Tick \/ SchedulerStep
    PROVE  NoRestingOutage'
<1> USE EntriesAssumption, RotatingAssumption
<1>1. CASE Tick
  BY <1>1 DEF Tick, BeginTick, NoRestingOutage
<1>2. CASE WakeUp
  BY <1>2 DEF WakeUp, BeginTick, NoRestingOutage, IInv, SingletonRests, entryVars
<1>3. ASSUME NEW e \in Entries, ProbeOk(e) \/ ProbeErr(e) PROVE NoRestingOutage'
  BY <1>3 DEF ProbeOk, ProbeErr, NoRestingOutage
<1>4. CASE RankNone
  BY <1>4 DEF RankNone, Eligible, HasSignal, NoRestingOutage, IInv, TypeOK, EntriesTypeOK
<1>5. CASE RankKeep
  BY <1>5 DEF RankKeep, Eligible, NoRestingOutage
<1>6. ASSUME NEW w \in Entries, RankRotate(w) PROVE NoRestingOutage'
  BY <1>6 DEF RankRotate, NoRestingOutage
<1>7. CASE CaptureFails
  BY <1>7 DEF CaptureFails, NeedsCapture
<1>8. CASE Promote
  BY <1>8 DEF Promote, IInv, WinnerIsCandidate, NoRestingOutage
<1>9. QED
  BY <1>1, <1>2, <1>3, <1>4, <1>5, <1>6, <1>7, <1>8 DEF SchedulerStep

LEMMA RequestKeepsResting ==
    ASSUME IInv, NoRestingOutage, NEW r \in Requests, RequestStep(r)
    PROVE  NoRestingOutage'
<1>1. CASE FailEntryInvalidGrant(r)
  BY <1>1 DEF FailEntryInvalidGrant, NoRestingOutage, HasSignal, entryVars, schedVars
<1>2. CASE Respond401(r) \/ Respond2xxWithHeaders(r)
  BY <1>2, EntriesAssumption DEF Respond401, Respond2xxWithHeaders, NoRestingOutage, HasSignal,
     schedVars, IInv, TypeOK, EntriesTypeOK
<1>3. CASE ReadActivated(r) \/ FreshOk(r) \/ FreshTransientError(r)
           \/ FreshInvalidGrant(r) \/ ReadView(r) \/ RespondOther(r)
  BY <1>3 DEF ReadActivated, FreshOk, FreshTransientError, FreshInvalidGrant, ReadView,
     RespondOther, NoRestingOutage, HasSignal, entryVars, schedVars
<1>4. QED
  BY <1>1, <1>2, <1>3 DEF RequestStep

LEMMA NextKeepsResting ==
    ASSUME SkipCapture \/ CaptureFlaky = {}, IInv, NoRestingOutage, [Next]_vars
    PROVE  NoRestingOutage'
<1>1. ASSUME NEW e \in Entries, Revoke(e) \/ Relogin(e) \/ Age(e) PROVE NoRestingOutage'
  BY <1>1 DEF Revoke, Relogin, Age, AgeUsage, NoRestingOutage, HasSignal, entryVars, schedVars,
     IInv, TypeOK, EntriesTypeOK
<1>2. CASE UNCHANGED vars
  BY <1>2 DEF vars, NoRestingOutage, HasSignal
<1>3. QED
  BY <1>1, <1>2, SchedulerKeepsResting, RequestKeepsResting DEF Next

(* No wake-up is lost: when header capture cannot fail, a pool at rest     *)
(* with an empty slot has no candidate left to promote.                    *)
THEOREM WakeIsNotLost ==
    ASSUME SkipCapture \/ CaptureFlaky = {}
    PROVE  Spec => []NoRestingOutage
<1>1. Init => NoRestingOutage
  BY EntriesAssumption DEF Init, NoRestingOutage
<1>2. IInv /\ NoRestingOutage /\ [Next]_vars => NoRestingOutage'
  BY NextKeepsResting
<1>3. QED
  BY <1>1, <1>2, Invariance, PTL DEF Spec

-----------------------------------------------------------------------------
(* A pool that is seeded without degraded entries implements ServingSlot.  *)
LEMMA InitIsAbstract ==
    ASSUME DegradedSeeds = {}, Init PROVE Promise!Init
BY DEF Init, Promise!Init, Healthy

(* One probe degrades, revives or leaves alone one entry that is not in    *)
(* the slot, or revives the one that is.                                   *)
LEMMA ProbeIsAbstract ==
    ASSUME DegradedSeeds = {}, IInv, NEW e \in Entries, ProbeOk(e) \/ ProbeErr(e)
    PROVE  Promise!Next \/ UNCHANGED <<activated, Healthy>>
<1> DEFINE s == status'[e]
<1>1. /\ UNCHANGED activated
      /\ status' = [status EXCEPT ![e] = s]
      /\ \/ s = "candidate"
         \/ s = status[e]
         \/ s = "degraded" /\ status[e] = "candidate"
  BY DEF ProbeOk, ProbeErr, MarkProbeOk, MarkProbeErr, IInv, TypeOK, EntriesTypeOK
<1>2. CASE s = status[e]
  <2>1. \A o \in Entries : status'[o] = status[o]
    BY <1>1, <1>2 DEF IInv, TypeOK, EntriesTypeOK
  <2>2. UNCHANGED Healthy
    BY <2>1 DEF Healthy
  <2>3. QED
    BY <1>1, <2>2
<1>3. CASE s = "candidate" /\ s # status[e]
  <2>1. Healthy' = Healthy \cup {e}
    BY <1>1, <1>3 DEF Healthy, IInv, TypeOK, EntriesTypeOK
  <2>2. QED
    BY <1>1, <2>1 DEF Promise!Next, Promise!Recover
<1>4. CASE s = "degraded" /\ status[e] = "candidate"
  <2>1. Healthy' = Healthy \ {e} /\ e \in Healthy
    BY <1>1, <1>4 DEF Healthy, IInv, TypeOK, EntriesTypeOK
  <2>2. e # activated
    BY <1>4, EntriesAssumption DEF IInv, SlotMatchesStatus
  <2>3. QED
    BY <1>1, <2>1, <2>2 DEF Promise!Next, Promise!Degrade
<1>5. QED
  BY <1>1, <1>2, <1>3, <1>4

(* The two ways the slot is emptied.                                       *)
LEMMA VacateIsAbstract ==
    ASSUME DegradedSeeds = {}, IInv, activated # NoEntry, activated' = NoEntry,
           status' = [status EXCEPT ![activated] = "degraded"]
    PROVE  Promise!Next
<1>1. activated \in Entries /\ status[activated] = "activated"
  BY DEF IInv, TypeOK, Slot, SlotMatchesStatus
<1>2. activated \in Healthy /\ Healthy' = Healthy \ {activated}
  BY <1>1 DEF Healthy, IInv, TypeOK, EntriesTypeOK
<1>3. QED
  BY <1>2 DEF Promise!Next, Promise!Vacate

LEMMA PromoteIsAbstract ==
    ASSUME DegradedSeeds = {}, IInv, Promote PROVE Promise!Next
<1>1. /\ winner \in Entries \ {activated} /\ status[winner] = "candidate"
      /\ activated' = winner
      /\ status' = [e \in Entries |->
                      IF e = winner THEN "activated"
                      ELSE IF e # activated THEN status[e]
                      ELSE IF fail[e] >= FailThreshold THEN "degraded"
                      ELSE "candidate"]
  BY DEF Promote, IInv, WinnerIsCandidate
<1>2. winner \in Healthy \ {activated}
  BY <1>1 DEF Healthy
<1>3. Healthy' = Healthy \cup {e \in {activated} \cap Entries : fail[e] < FailThreshold}
      \/ Healthy' = Healthy \ {activated}
  <2>1. CASE activated \in Entries /\ fail[activated] >= FailThreshold
    BY <1>1, <2>1 DEF Healthy
  <2>2. CASE activated \notin Entries
    BY <1>1, <2>2 DEF Healthy
  <2>3. CASE activated \in Entries /\ ~(fail[activated] >= FailThreshold)
    <3>1. fail[activated] < FailThreshold
      BY <2>3 DEF FailThreshold, IInv, TypeOK, EntriesTypeOK, FailCount
    <3>2. QED
      BY <1>1, <2>3, <3>1 DEF Healthy
  <2>4. QED
    BY <2>1, <2>2, <2>3
<1>4. activated \in Entries => activated \in Healthy
  BY EntriesAssumption DEF Healthy, IInv, SlotMatchesStatus
<1>5. QED
  BY <1>1, <1>2, <1>3, <1>4 DEF Promise!Next, Promise!HandOver

LEMMA StepIsAbstract ==
    ASSUME DegradedSeeds = {}, IInv, [Next]_vars
    PROVE  [Promise!Next]_<<activated, Healthy>>
<1> USE DEF entryVars, schedVars
<1>1. ASSUME UNCHANGED <<status, activated>>
      PROVE  UNCHANGED <<activated, Healthy>>
  BY <1>1 DEF Healthy
<1>2. CASE UNCHANGED vars
  BY <1>1, <1>2 DEF vars
<1>3. CASE \E e \in Entries : Revoke(e) \/ Relogin(e) \/ Age(e)
  BY <1>1, <1>3 DEF Revoke, Relogin, Age, AgeUsage
<1>4. CASE \E r \in Requests : RequestStep(r)
  <2>1. PICK r \in Requests : RequestStep(r)
    BY <1>4
  <2>2. CASE FailEntryInvalidGrant(r)
    <3>1. CASE activated = NoEntry
      BY <1>1, <2>2, <3>1 DEF FailEntryInvalidGrant
    <3>2. CASE activated # NoEntry
      BY <2>2, <3>2, VacateIsAbstract DEF FailEntryInvalidGrant, DegradeInvalidGrant
    <3>3. QED
      BY <3>1, <3>2
  <2>3. CASE ~FailEntryInvalidGrant(r)
    BY <1>1, <2>1, <2>3
       DEF RequestStep, ReadActivated, FreshOk, FreshTransientError, FreshInvalidGrant,
           ReadView, Respond401, Respond2xxWithHeaders, RespondOther
  <2>4. QED
    BY <2>2, <2>3
<1>5. CASE Tick \/ WakeUp
  BY <1>1, <1>5 DEF Tick, WakeUp
<1>6. CASE \E e \in Entries : ProbeOk(e) \/ ProbeErr(e)
  BY <1>6, ProbeIsAbstract
<1>7. CASE RankNone
  <2>1. CASE activated # NoEntry /\ TickFail(activated) >= FailThreshold
    BY <1>7, <2>1, VacateIsAbstract DEF RankNone
  <2>2. CASE ~(activated # NoEntry /\ TickFail(activated) >= FailThreshold)
    BY <1>1, <1>7, <2>2 DEF RankNone
  <2>3. QED
    BY <2>1, <2>2
<1>8. CASE RankKeep \/ \E w \in Entries : RankRotate(w)
  BY <1>1, <1>8 DEF RankKeep, RankRotate
<1>9. CASE CaptureFails
  BY <1>1, <1>9 DEF CaptureFails
<1>10. CASE Promote
  BY <1>10, PromoteIsAbstract
<1>11. QED
  BY <1>2, <1>3, <1>4, <1>5, <1>6, <1>7, <1>8, <1>9, <1>10 DEF Next, SchedulerStep

(* The rotating pool implements the one-slot promise for every number of   *)
(* entries and requests: probes, wake-ups and captures are stutters, and   *)
(* each change of credPool.activated is a HandOver or a Vacate.            *)
THEOREM ImplementsServingSlot ==
    ASSUME DegradedSeeds = {}
    PROVE  Spec => KeepsThePromise
<1>1. Init => Promise!Init
  BY InitIsAbstract
<1>2. IInv /\ [Next]_vars => [Promise!Next]_<<activated, Healthy>>
  BY StepIsAbstract
<1>3. QED
  BY <1>1, <1>2, Invariance, PTL DEF Spec, KeepsThePromise, Promise!Spec

-----------------------------------------------------------------------------
(* A demotion has a cause, step by step.                                   *)
LEMMA DemotionHasCause ==
    ASSUME IInv, [Next]_vars, NEW e \in Entries,
           status[e] = "activated", status'[e] = "degraded"
    PROVE  \/ TickFail(e) >= FailThreshold
           \/ \E r \in Requests : req[r].pc = "dead" /\ req'[r].pc = "idle"
<1> USE DEF entryVars, schedVars
<1>1. status' # status
  OBVIOUS
<1>2. CASE \E r \in Requests : RequestStep(r)
  <2>1. PICK r \in Requests : FailEntryInvalidGrant(r)
    BY <1>1, <1>2
       DEF RequestStep, ReadActivated, FreshOk, FreshTransientError, FreshInvalidGrant,
           ReadView, Respond401, Respond2xxWithHeaders, RespondOther
  <2>2. req[r].pc = "dead" /\ req'[r].pc = "idle"
    BY <2>1 DEF FailEntryInvalidGrant, NoRequest, IInv, TypeOK
  <2>3. QED
    BY <2>2
<1>3. CASE \E o \in Entries : ProbeOk(o) \/ ProbeErr(o)
  BY <1>3 DEF ProbeOk, ProbeErr, MarkProbeOk, MarkProbeErr, IInv, TypeOK, EntriesTypeOK
<1>4. CASE RankNone
  BY <1>1, <1>4 DEF RankNone, IInv, TypeOK, EntriesTypeOK
<1>5. CASE Promote
  <2>1. fail[e] >= FailThreshold
    BY <1>5 DEF Promote, IInv, TypeOK, EntriesTypeOK
  <2>2. fail[e] \in Nat /\ preFail[e] \in Nat
    BY DEF IInv, TypeOK, EntriesTypeOK, FailCount, FailThreshold
  <2>3. QED
    BY <2>1, <2>2 DEF TickFail, FailThreshold
<1>6. QED
  BY <1>1, <1>2, <1>3, <1>4, <1>5
     DEF Next, vars, SchedulerStep, Revoke, Relogin, Age, AgeUsage, Tick, WakeUp,
         RankKeep, RankRotate, CaptureFails

(* An activated entry is degraded only for two counted failures or by a    *)
(* request that holds an invalid_grant: no usage probe demotes it.         *)
THEOREM DemotionsHaveCauses ==
    Spec => NoDemotionWithoutCause
<1>1. IInv /\ [Next]_vars =>
        [\A e \in Entries :
            status[e] = "activated" /\ status'[e] = "degraded" =>
                \/ TickFail(e) >= FailThreshold
                \/ \E r \in Requests : req[r].pc = "dead" /\ req'[r].pc = "idle"]_vars
  BY DemotionHasCause
<1>2. QED
  BY <1>1, Invariance, PTL DEF Spec, NoDemotionWithoutCause
=============================================================================
