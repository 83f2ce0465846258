--------------------------- MODULE StickyPoolProofs ---------------------------
(***************************************************************************)
(* Proofs about StickyPool for every pool, every set of sessions and every *)
(* number of requests in flight.                                           *)
(***************************************************************************)
EXTENDS StickyPool, TLAPS

(* What the locals of handleServe hold outside the lock: a handler past    *)
(* its selection holds an entry of the pool, and one that is about to fail *)
(* over has failovers left.                                                *)
HandlersAreSound ==
    \A r \in Requests :
        /\ req[r].pc \notin {"idle", "route"} => req[r].entry \in Entries
        /\ req[r].pc = "dead" => req[r].attempt < MaxFailovers

IInv ==
    /\ TypeOK
    /\ HandlersAreSound
    /\ StatusTracksFailures

LEMMA BumpInRange ==
    ASSUME NEW n \in FailCount PROVE Bump(n) \in FailCount
BY DEF Bump, FailCount, FailThreshold

LEMMA UnpinnedTyped ==
    ASSUME TypeOK, NEW r \in Requests
    PROVE  Unpinned(r) \in [Sessions -> [entry : Slot, cold : BOOLEAN]]
BY DEF TypeOK, Unpinned, NoPin, Slot

LEMMA NoRequestTyped == NoRequest \in RequestTypes
BY StickyAssumption DEF NoRequest, RequestTypes, Slot

-----------------------------------------------------------------------------
(* Each group of variables keeps its type, and the counters their meaning, *)
(* under the operators the actions are built from.                         *)
LEMMA MarkProbeKeeps ==
    ASSUME EntriesTypeOK, StatusTracksFailures, NEW e \in Entries,
           MarkProbeOk(e) \/ MarkProbeErr(e)
    PROVE  EntriesTypeOK' /\ StatusTracksFailures'
<1>1. CASE MarkProbeOk(e)
  BY <1>1 DEF MarkProbeOk, EntriesTypeOK, Statuses, FailCount, FailThreshold, UsageStates,
     StatusTracksFailures
<1>2. CASE MarkProbeErr(e)
  <2>1. Bump(fail[e]) \in FailCount
    BY BumpInRange DEF EntriesTypeOK
  <2>2. EntriesTypeOK'
    BY <1>2, <2>1 DEF MarkProbeErr, EntriesTypeOK, Statuses
  <2>3. \A o \in Entries : status'[o] = "candidate" => fail'[o] < FailThreshold
    BY <1>2, <2>1 DEF MarkProbeErr, EntriesTypeOK, StatusTracksFailures, FailCount,
       FailThreshold
  <2>4. QED
    BY <2>2, <2>3 DEF StatusTracksFailures
<1>3. QED
  BY <1>1, <1>2

LEMMA DegradeKeeps ==
    ASSUME EntriesTypeOK, StatusTracksFailures, NEW e \in Entries, DegradeInvalidGrant(e)
    PROVE  EntriesTypeOK' /\ StatusTracksFailures'
BY DEF DegradeInvalidGrant, EntriesTypeOK, Statuses, FailCount, FailThreshold,
       StatusTracksFailures

LEMMA Respond401Keeps ==
    ASSUME EntriesTypeOK, StatusTracksFailures, NEW r \in Requests,
           req[r].entry \in Entries, Respond401(r)
    PROVE  EntriesTypeOK' /\ StatusTracksFailures'
<1> DEFINE e == req[r].entry
<1>1. Bump(fail[e]) \in FailCount
  BY BumpInRange DEF EntriesTypeOK
<1>2. EntriesTypeOK'
  BY <1>1 DEF Respond401, EntriesTypeOK, Statuses
<1>3. \A o \in Entries : status'[o] = "candidate" => fail'[o] < FailThreshold
  BY <1>1 DEF Respond401, EntriesTypeOK, StatusTracksFailures, FailCount, FailThreshold
<1>4. QED
  BY <1>2, <1>3 DEF StatusTracksFailures

(* A usage report leaves a well-typed level: LevelsOf is a set of levels.  *)
LEMMA LevelsTyped ==
    ASSUME NEW b PROVE LevelsOf(b) \subseteq Levels
BY StickyAssumption DEF LevelsOf, Levels

LEMMA RefreshedTyped ==
    ASSUME TypeOK, NEW e \in Entries PROVE RefreshedLevels(e) \subseteq Levels
BY LevelsTyped DEF RefreshedLevels, TypeOK

-----------------------------------------------------------------------------
LEMMA InitIInv == Init => IInv
<1> SUFFICES ASSUME Init PROVE IInv
  OBVIOUS
<1> USE EntriesAssumption, StickyAssumption
<1>1. EntriesTypeOK /\ StatusTracksFailures
  BY DEF Init, EntriesTypeOK, StatusTracksFailures, Statuses, FailCount, FailThreshold,
         UsageStates
<1>2. override \in [Passthroughs -> Levels] /\ feas \in [Entries -> Levels]
  BY DEF Init
<1>3. pins \in [Sessions -> [entry : Slot, cold : BOOLEAN]]
  BY DEF Init, NoPin, Slot
<1>4. req \in [Requests -> RequestTypes] /\ HandlersAreSound
  BY NoRequestTyped DEF Init, HandlersAreSound, NoRequest
<1>5. /\ spent \in SUBSET Entries
      /\ dead \in SUBSET Entries
      /\ spc \in {"idle", "probe", "refresh", "evict"}
      /\ todo \in SUBSET Entries
      /\ capped \in [Sessions -> Slot]
  BY DEF Init, Slot
<1>6. QED
  BY <1>1, <1>2, <1>3, <1>4, <1>5 DEF IInv, TypeOK

-----------------------------------------------------------------------------
(* The world changes nothing but its own variable, a cached report or the  *)
(* warmth of a pin.                                                        *)
LEMMA WorldKeepsIInv ==
    ASSUME IInv, \/ \E e \in Entries : Revoke(e) \/ Relogin(e) \/ Age(e)
                 \/ \E s \in Sessions : Cool(s)
    PROVE  IInv'
<1>1. ASSUME NEW e \in Entries, Revoke(e) PROVE IInv'
  BY <1>1 DEF Revoke, IInv, TypeOK, EntriesTypeOK, HandlersAreSound, StatusTracksFailures,
     Locals, entryVars, quotaVars, schedVars
<1>2. ASSUME NEW e \in Entries, Relogin(e) PROVE IInv'
  BY <1>2 DEF Relogin, IInv, TypeOK, EntriesTypeOK, HandlersAreSound, StatusTracksFailures,
     entryVars, quotaVars, schedVars
<1>3. ASSUME NEW e \in Entries, Age(e) PROVE IInv'
  BY <1>3 DEF Age, AgeUsage, IInv, TypeOK, EntriesTypeOK, UsageStates, HandlersAreSound,
     StatusTracksFailures, quotaVars, schedVars
<1>4. ASSUME NEW s \in Sessions, Cool(s) PROVE IInv'
  <2>1. pins' \in [Sessions -> [entry : Slot, cold : BOOLEAN]]
    BY <1>4, ZenonT(40) DEF Cool, IInv, TypeOK
  <2>2. QED
    BY <1>4, <2>1 DEF Cool, IInv, TypeOK, EntriesTypeOK, HandlersAreSound,
       StatusTracksFailures, entryVars, quotaVars, schedVars
<1>5. QED
  BY <1>1, <1>2, <1>3, <1>4

-----------------------------------------------------------------------------
(* Every step of a handler keeps all handlers typed and sound.             *)
LEMMA HandlersStaySound ==
    ASSUME TypeOK, HandlersAreSound, NEW r \in Requests, RequestStep(r)
    PROVE  req' \in [Requests -> RequestTypes] /\ HandlersAreSound'
<1>0. /\ req \in [Requests -> RequestTypes]
      /\ NoRequest \in RequestTypes
      /\ NoRequest.pc = "idle"
  BY NoRequestTyped DEF TypeOK, NoRequest
<1>1. CASE RoutePinned(r)
  <2>1. pins[SessionOf[r]].entry \in Entries
    BY <1>1, StickyAssumption DEF RoutePinned, KeepsPin, TypeOK, Slot
  <2>2. QED
    BY <1>0, <1>1, <2>1, ZenonT(40) DEF RoutePinned, RequestTypes, Slot, HandlersAreSound
<1>2. ASSUME NEW e \in Entries, RouteFresh(r, e)
      PROVE  req' \in [Requests -> RequestTypes] /\ HandlersAreSound'
  BY <1>0, <1>2 DEF RouteFresh, RequestTypes, Slot, HandlersAreSound
<1>3. CASE FreshOk(r) \/ FreshInvalidGrant(r) \/ CommitPin(r) \/ RespondQuota429(r)
  <2>1. PICK pc \in {"dead", "commit", "upstream", "spent"} :
          req' = [req EXCEPT ![r].pc = pc]
    BY <1>3 DEF FreshOk, FreshInvalidGrant, CommitPin, RespondQuota429
  <2>2. /\ req[r].pc \notin {"idle", "route"}
        /\ pc = "dead" => req[r].attempt < MaxFailovers
    <3>1. CASE FreshInvalidGrant(r)
      BY <3>1 DEF FreshInvalidGrant
    <3>2. CASE FreshOk(r) \/ CommitPin(r) \/ RespondQuota429(r)
      <4>1. req'[r].pc # "dead" /\ req[r].pc \notin {"idle", "route"}
        BY <1>0, <3>2, ZenonT(60) DEF FreshOk, CommitPin, RespondQuota429, RequestTypes
      <4>2. req'[r].pc = pc
        BY <1>0, <2>1 DEF RequestTypes
      <4>3. QED
        BY <4>1, <4>2
    <3>3. QED
      BY <1>3, <3>1, <3>2
  <2>3. QED
    BY <1>0, <2>1, <2>2 DEF RequestTypes, HandlersAreSound
<1>4. CASE FailEntryInvalidGrant(r)
  <2>1. req[r].attempt + 1 \in 0..MaxFailovers
    BY <1>0, <1>4, StickyAssumption DEF FailEntryInvalidGrant, HandlersAreSound, RequestTypes
  <2>2. QED
    BY <1>0, <1>4, <2>1 DEF FailEntryInvalidGrant, NoRequest, RequestTypes, HandlersAreSound,
       Slot
<1>5. CASE \/ RouteNowhere(r) \/ FreshGivesUp(r) \/ Respond401(r) \/ RespondTransient429(r)
           \/ DropPin(r) \/ RespondOther(r) \/ NoteSuccess(r)
  BY <1>0, <1>5, ZenonT(60) DEF RouteNowhere, FreshGivesUp, Respond401, RespondTransient429, DropPin,
     RespondOther, NoteSuccess, HandlersAreSound
<1>6. QED
  BY <1>1, <1>2, <1>3, <1>4, <1>5 DEF RequestStep, Respond2xx, Respond2xxWithHeaders

(* Selecting, refreshing and pinning leave the entries alone.              *)
LEMMA SelectionKeepsIInv ==
    ASSUME IInv, NEW r \in Requests,
           \/ RoutePinned(r) \/ RouteNowhere(r) \/ \E e \in Entries : RouteFresh(r, e)
           \/ FreshOk(r) \/ FreshGivesUp(r) \/ FreshInvalidGrant(r) \/ CommitPin(r)
           \/ DropPin(r) \/ RespondOther(r)
    PROVE  IInv'
<1>1. req' \in [Requests -> RequestTypes] /\ HandlersAreSound'
  BY HandlersStaySound DEF IInv, RequestStep
<1>2. pins' \in [Sessions -> [entry : Slot, cold : BOOLEAN]]
  <2>1. CASE CommitPin(r)
    <3>1. req[r].entry \in Slot
      BY DEF IInv, TypeOK, RequestTypes
    <3>2. QED
      BY <2>1, <3>1 DEF CommitPin, IInv, TypeOK
  <2>2. CASE ~CommitPin(r)
    <3>1. pins' \in {pins, Unpinned(r)}
      BY <2>2 DEF RoutePinned, RouteNowhere, RouteFresh, FreshOk, FreshGivesUp,
         FreshInvalidGrant, DropPin, RespondOther
    <3>2. QED
      BY <3>1, UnpinnedTyped DEF IInv, TypeOK
  <2>3. QED
    BY <2>1, <2>2
<1>3. UNCHANGED <<entryVars, quotaVars, dead, schedVars, capped>>
  BY DEF RoutePinned, RouteNowhere, RouteFresh, FreshOk, FreshGivesUp, FreshInvalidGrant,
     CommitPin, DropPin, RespondOther
<1>4. QED
  BY <1>1, <1>2, <1>3 DEF IInv, TypeOK, EntriesTypeOK, StatusTracksFailures, entryVars,
     quotaVars, schedVars

LEMMA FailuresKeepIInv ==
    ASSUME IInv, NEW r \in Requests, FailEntryInvalidGrant(r) \/ Respond401(r)
    PROVE  IInv'
<1>1. req' \in [Requests -> RequestTypes] /\ HandlersAreSound'
  BY HandlersStaySound DEF IInv, RequestStep
<1>2. req[r].entry \in Entries
  BY DEF IInv, HandlersAreSound, FailEntryInvalidGrant, Respond401
<1>3. EntriesTypeOK' /\ StatusTracksFailures'
  BY <1>2, DegradeKeeps, Respond401Keeps DEF IInv, TypeOK, FailEntryInvalidGrant
<1>4. pins' \in [Sessions -> [entry : Slot, cold : BOOLEAN]]
  BY UnpinnedTyped DEF IInv, FailEntryInvalidGrant, Respond401
<1>5. QED
  BY <1>1, <1>3, <1>4 DEF IInv, TypeOK, FailEntryInvalidGrant, Respond401, quotaVars, schedVars

LEMMA ReportTyped ==
    ASSUME TypeOK, NEW e \in Entries, NEW isSpent \in BOOLEAN, NEW f \in LevelsOf(isSpent),
           Report(e, isSpent), feas' = [feas EXCEPT ![e] = f]
    PROVE  spent' \in SUBSET Entries /\ feas' \in [Entries -> Levels]
<1>1. f \in Levels
  BY LevelsTyped
<1>2. QED
  BY <1>1 DEF Report, TypeOK

LEMMA LimitsKeepIInv ==
    ASSUME IInv, NEW r \in Requests, RespondTransient429(r) \/ RespondQuota429(r)
    PROVE  IInv'
<1>1. req' \in [Requests -> RequestTypes] /\ HandlersAreSound'
  BY HandlersStaySound DEF IInv, RequestStep
<1>2. req[r].entry \in Entries
  BY DEF IInv, HandlersAreSound, RespondTransient429, RespondQuota429
<1>3. capped' \in [Sessions -> Slot]
  BY <1>2, EntriesAssumption
  DEF RespondTransient429, RespondQuota429, NewerWord, IInv, TypeOK, Slot
<1>4. EntriesTypeOK' /\ StatusTracksFailures'
  BY DEF RespondTransient429, RespondQuota429, NoteEntryUsage, IInv, TypeOK, EntriesTypeOK,
         UsageStates, StatusTracksFailures
<1>5. spent' \in SUBSET Entries /\ feas' \in [Entries -> Levels]
  BY <1>2, ReportTyped DEF RespondTransient429, RespondQuota429, NoteEntryUsage, IInv
<1>6. QED
  BY <1>1, <1>3, <1>4, <1>5 DEF RespondTransient429, RespondQuota429, NoteEntryUsage, IInv,
     TypeOK, schedVars

LEMMA SuccessKeepsIInv ==
    ASSUME IInv, NEW r \in Requests, Respond2xx(r) \/ Respond2xxWithHeaders(r)
    PROVE  IInv'
<1>1. req' \in [Requests -> RequestTypes] /\ HandlersAreSound'
  BY HandlersStaySound DEF IInv, RequestStep
<1>2. NoteSuccess(r) /\ req[r].entry \in Entries
  BY DEF IInv, HandlersAreSound, NoteSuccess, Respond2xx, Respond2xxWithHeaders
<1>3. EntriesTypeOK' /\ StatusTracksFailures'
  BY <1>2 DEF NoteSuccess, Respond2xx, Respond2xxWithHeaders, IInv, TypeOK, EntriesTypeOK,
     UsageStates, FailCount, FailThreshold, StatusTracksFailures
<1>4. pins' \in [Sessions -> [entry : Slot, cold : BOOLEAN]]
  BY <1>2 DEF NoteSuccess, IInv, TypeOK
<1>5. spent' \in SUBSET Entries /\ feas' \in [Entries -> Levels]
  BY <1>2, ReportTyped DEF Respond2xx, Respond2xxWithHeaders, IInv, TypeOK
<1>6. capped' \in [Sessions -> Slot]
  BY DEF Respond2xx, Respond2xxWithHeaders, NewerWord, IInv, TypeOK, Slot
<1>7. QED
  BY <1>1, <1>2, <1>3, <1>4, <1>5, <1>6 DEF NoteSuccess, IInv, TypeOK, schedVars

-----------------------------------------------------------------------------
LEMMA SchedulerKeepsIInv ==
    ASSUME IInv, Tick \/ SchedulerStep
    PROVE  IInv'
<1>1. CASE Tick
  BY <1>1 DEF Tick, IInv, TypeOK, EntriesTypeOK, HandlersAreSound, StatusTracksFailures,
     entryVars, quotaVars
<1>2. ASSUME NEW e \in Entries, ProbeOk(e) PROVE IInv'
  <2>1. EntriesTypeOK' /\ StatusTracksFailures'
    BY <1>2, MarkProbeKeeps DEF ProbeOk, IInv, TypeOK
  <2>2. spent' \in SUBSET Entries /\ override' \in [Passthroughs -> Levels]
    BY <1>2 DEF ProbeOk, Report, IInv, TypeOK
  <2>3. capped' \in [Sessions -> Slot]
    BY <1>2 DEF ProbeOk, NewerWord, IInv, TypeOK, Slot
  <2>4. QED
    BY <1>2, <2>1, <2>2, <2>3 DEF ProbeOk, IInv, TypeOK, HandlersAreSound
<1>3. ASSUME NEW e \in Entries, ProbeErr(e) PROVE IInv'
  <2>1. EntriesTypeOK' /\ StatusTracksFailures'
    BY <1>3, MarkProbeKeeps DEF ProbeErr, IInv, TypeOK
  <2>2. QED
    BY <1>3, <2>1 DEF ProbeErr, IInv, TypeOK, HandlersAreSound, quotaVars
<1>4. CASE RefreshFeasibilities
  BY <1>4 DEF RefreshFeasibilities, IInv, TypeOK, EntriesTypeOK, HandlersAreSound,
     StatusTracksFailures, entryVars
<1>5. CASE EvictSessions
  <2>1. pins' \in [Sessions -> [entry : Slot, cold : BOOLEAN]]
    BY <1>5 DEF EvictSessions, IInv, TypeOK, NoPin, Slot
  <2>2. QED
    BY <1>5, <2>1 DEF EvictSessions, IInv, TypeOK, EntriesTypeOK, HandlersAreSound,
       StatusTracksFailures, entryVars, quotaVars
<1>6. QED
  BY <1>1, <1>2, <1>3, <1>4, <1>5 DEF SchedulerStep

LEMMA Invariance == Spec => []IInv
<1>1. IInv /\ [Next]_vars => IInv'
  <2> SUFFICES ASSUME IInv, [Next]_vars PROVE IInv'
    OBVIOUS
  <2>1. ASSUME NEW r \in Requests, RequestStep(r) PROVE IInv'
    BY <2>1, SelectionKeepsIInv, FailuresKeepIInv, LimitsKeepIInv, SuccessKeepsIInv
    DEF RequestStep
  <2>2. CASE UNCHANGED vars
    BY <2>2 DEF vars, IInv, TypeOK, EntriesTypeOK, HandlersAreSound, StatusTracksFailures
  <2>3. QED
    BY <2>1, <2>2, WorldKeepsIInv, SchedulerKeepsIInv DEF Next
<1>2. QED
  BY <1>1, InitIInv, PTL DEF Spec

(* Every reachable state of the sticky pool is well typed; in particular   *)
(* the failovers of a request stay within their budget.  An entry with two *)
(* unresolved failures is never left a candidate, by whichever mixture of  *)
(* probes and answers they were counted.                                   *)
THEOREM FailingIsDegraded == Spec => []Inv
BY Invariance, PTL DEF IInv, Inv

-----------------------------------------------------------------------------
(* The steps of other actors move no handler.                              *)
LEMMA OthersMoveNoHandler ==
    ASSUME \/ \E e \in Entries : Revoke(e) \/ Relogin(e) \/ Age(e)
           \/ \E s \in Sessions : Cool(s)
           \/ Tick \/ SchedulerStep
           \/ UNCHANGED vars
    PROVE  UNCHANGED req
BY DEF Revoke, Relogin, Age, Cool, Tick, SchedulerStep, ProbeOk, ProbeErr, EvictSessions,
       RefreshFeasibilities, vars

(* A step of a handler leaves the pins of other sessions alone.            *)
LEMMA HandlerTouchesOwnPin ==
    ASSUME NEW r \in Requests, RequestStep(r), TypeOK
    PROVE  /\ \A s \in Sessions : s # SessionOf[r] => pins'[s] = pins[s]
           /\ \A q \in Requests : q # r => req'[q] = req[q]
<1>1. \/ UNCHANGED pins
      \/ pins' = Unpinned(r)
      \/ CommitPin(r)
      \/ NoteSuccess(r)
  BY DEF RequestStep, RoutePinned, RouteNowhere, RouteFresh, FreshOk, FreshGivesUp,
     FreshInvalidGrant, FailEntryInvalidGrant, Respond401, RespondTransient429,
     RespondQuota429, DropPin, Respond2xx, Respond2xxWithHeaders, RespondOther
<1>2. \A s \in Sessions : s # SessionOf[r] => pins'[s] = pins[s]
  BY <1>1 DEF Unpinned, CommitPin, NoteSuccess
<1>3. \E h : req' = [req EXCEPT ![r] = h]
  BY DEF RequestStep, RoutePinned, RouteNowhere, RouteFresh, FreshOk, FreshGivesUp,
     FreshInvalidGrant, FailEntryInvalidGrant, CommitPin, Respond401, RespondTransient429,
     RespondQuota429, DropPin, Respond2xx, Respond2xxWithHeaders, NoteSuccess, RespondOther
<1>4. QED
  BY <1>2, <1>3 DEF TypeOK

(* A handler that answers is idle again, one that fails over re-selects.   *)
LEMMA HandlerLetsGo ==
    ASSUME TypeOK, NEW r \in Requests,
           \/ RouteNowhere(r) \/ FreshGivesUp(r) \/ FailEntryInvalidGrant(r) \/ Respond401(r)
           \/ RespondTransient429(r) \/ DropPin(r) \/ NoteSuccess(r) \/ RespondOther(r)
    PROVE  req'[r].pc \in {"idle", "route"}
<1>1. CASE FailEntryInvalidGrant(r)
  <2>1. req'[r] = [NoRequest EXCEPT !.pc = "route", !.attempt = req[r].attempt + 1]
    BY <1>1 DEF FailEntryInvalidGrant, TypeOK
  <2>2. QED
    BY <2>1 DEF NoRequest
<1>2. CASE ~FailEntryInvalidGrant(r)
  <2>1. req'[r] = NoRequest
    BY <1>2 DEF TypeOK, RouteNowhere, FreshGivesUp, Respond401, RespondTransient429, DropPin,
       NoteSuccess, RespondOther
  <2>2. QED
    BY <2>1 DEF NoRequest
<1>3. QED
  BY <1>1, <1>2

(* A settled session stays on its entry while one of its own requests      *)
(* takes a step, unless that step is the cause of its going.               *)
LEMMA HandlerKeepsSettled ==
    ASSUME TypeOK, NEW r \in Requests, RequestStep(r), NEW s \in Sessions, Settled(s),
           SessionOf[r] = s
    PROVE  Stays(s) \/ Cause(s, pins[s].entry)
<1> DEFINE e == pins[s].entry
<1>0. ASSUME pins'[s].entry = e, req'[r].pc \notin {"idle", "route"} => req'[r].entry = e
      PROVE  Stays(s)
  <2>1. \A q \in Requests : SessionOf[q] = s /\ req'[q].pc \notin {"idle", "route"} =>
                              req'[q].entry = e
    BY <1>0, HandlerTouchesOwnPin DEF Settled
  <2>2. QED
    BY <1>0, <2>1 DEF Stays, Settled
<1>1. CASE RoutePinned(r)
  <2>1. pins' = pins /\ req'[r].entry = e
    BY <1>1 DEF RoutePinned, TypeOK, RequestTypes
  <2>2. QED
    BY <1>0, <2>1
<1>2. CASE RouteNowhere(r) \/ \E o \in Entries : RouteFresh(r, o)
  <2>1. ~Serves(e)
    BY <1>2 DEF RouteNowhere, RouteFresh, KeepsPin, Settled
  <2>2. QED
    BY <2>1 DEF Cause
<1>3. CASE FreshOk(r) \/ FreshInvalidGrant(r) \/ RespondQuota429(r)
  <2>1. pins' = pins /\ req[r].pc \notin {"idle", "route"}
    BY <1>3 DEF FreshOk, FreshInvalidGrant, RespondQuota429
  <2>2. \E pc : req' = [req EXCEPT ![r].pc = pc]
    BY <1>3 DEF FreshOk, FreshInvalidGrant, RespondQuota429
  <2>3. req'[r].entry = req[r].entry
    BY <2>2 DEF TypeOK, RequestTypes
  <2>4. req[r].entry = e
    BY <2>1 DEF Settled
  <2>5. QED
    BY <1>0, <2>1, <2>3, <2>4
<1>4. CASE CommitPin(r)
  <2>1. req[r].entry = e
    BY <1>4 DEF CommitPin, Settled
  <2>2. pins'[s].entry = e /\ req'[r].entry = e
    BY <1>4, <2>1 DEF CommitPin, TypeOK, RequestTypes
  <2>3. QED
    BY <1>0, <2>2
<1>5. CASE FreshGivesUp(r) \/ RespondTransient429(r) \/ NoteSuccess(r) \/ RespondOther(r)
  <2>1. CASE NoteSuccess(r)
    BY <1>0, <2>1, HandlerLetsGo, ZenonT(40) DEF NoteSuccess, TypeOK
  <2>2. CASE pins' = pins
    BY <1>0, <1>5, <2>2, HandlerLetsGo
  <2>3. QED
    BY <1>5, <2>1, <2>2 DEF FreshGivesUp, RespondTransient429, RespondOther
<1>6. CASE FailEntryInvalidGrant(r) \/ Respond401(r) \/ DropPin(r)
  <2>1. req[r].pc \in {"dead", "upstream", "spent"}
    BY <1>6 DEF FailEntryInvalidGrant, Respond401, DropPin
  <2>2. req'[r].pc \in {"route", "idle"}
    BY <1>6, HandlerLetsGo
  <2>3. req[r].entry = e
    BY <2>1 DEF Settled
  <2>4. CASE req[r].pc \in {"dead", "spent"}
    BY <2>2, <2>3, <2>4 DEF Fails, Cause
  <2>5. CASE req[r].pc = "upstream" /\ Serves(e)
    <3>1. fail' = [fail EXCEPT ![e] = Bump(@)]
      BY <1>6, <2>3, <2>5 DEF FailEntryInvalidGrant, Respond401, DropPin
    <3>2. e \in Entries
      BY DEF Settled, TypeOK, Slot
    <3>3. fail[e] \in Nat /\ fail[e] < FailThreshold /\ fail'[e] = Bump(fail[e])
      BY <2>5, <3>1, <3>2 DEF TypeOK, EntriesTypeOK, FailCount, Serves, FailThreshold
    <3>4. fail'[e] > fail[e]
      BY <3>3 DEF Bump
    <3>5. QED
      BY <2>2, <2>3, <2>5, <3>4 DEF Fails, Cause
  <2>6. CASE ~Serves(e)
    BY <2>6 DEF Cause
  <2>7. QED
    BY <2>1, <2>4, <2>5, <2>6
<1>7. QED
  BY <1>1, <1>2, <1>3, <1>4, <1>5, <1>6 DEF RequestStep, Respond2xx, Respond2xxWithHeaders

(* Whatever its requests overlap with, a session that has settled on an    *)
(* entry leaves it only for a cause: the entry stops serving, it fails a   *)
(* request of the session, or the sweep releases the pin.                  *)
THEOREM SettledSessionsStay == Spec => SettledSessionStays
<1>1. ASSUME IInv, Next, NEW s \in Sessions, Settled(s)
      PROVE  Stays(s) \/ Cause(s, pins[s].entry)
  <2>1. ASSUME NEW r \in Requests, RequestStep(r)
        PROVE  Stays(s) \/ Cause(s, pins[s].entry)
    <3>1. CASE SessionOf[r] = s
      BY <1>1, <2>1, <3>1, HandlerKeepsSettled DEF IInv
    <3>2. CASE SessionOf[r] # s
      <4>1. /\ pins'[s] = pins[s]
            /\ \A q \in Requests : q # r => req'[q] = req[q]
        BY <1>1, <2>1, <3>2, HandlerTouchesOwnPin DEF IInv
      <4>2. QED
        BY <1>1, <3>2, <4>1 DEF Stays, Settled
    <3>3. QED
      BY <3>1, <3>2
  <2>2. CASE EvictSessions
    BY <2>2 DEF EvictSessions, Cause
  <2>3. ASSUME NEW t \in Sessions, Cool(t) PROVE Stays(s)
    <3>1. pins'[s].entry = pins[s].entry /\ req' = req
      BY <1>1, <2>3 DEF Cool, IInv, TypeOK
    <3>2. QED
      BY <1>1, <3>1 DEF Stays, Settled
  <2>4. CASE UNCHANGED <<pins, req>>
    BY <1>1, <2>4 DEF Stays, Settled
  <2>5. \/ \E r \in Requests : RequestStep(r)
        \/ EvictSessions
        \/ \E t \in Sessions : Cool(t)
        \/ UNCHANGED <<pins, req>>
    BY <1>1 DEF Next, Revoke, Relogin, Age, Tick, SchedulerStep, ProbeOk, ProbeErr,
       RefreshFeasibilities
  <2>6. QED
    BY <2>1, <2>2, <2>3, <2>4, <2>5
<1>2. IInv /\ [Next]_vars =>
        [\A s \in Sessions : Settled(s) => Stays(s) \/ Cause(s, pins[s].entry)]_vars
  BY <1>1
<1>3. QED
  BY <1>2, Invariance, PTL DEF Spec, SettledSessionStays

-----------------------------------------------------------------------------
(* A quota 429 is not forgotten before there is newer word of the quota:   *)
(* for local entries the cached report that the 429 left is what every     *)
(* later tick recomputes the feasibility from.                             *)
CappedIsSpent ==
    \A s \in Sessions : capped[s] # NoEntry =>
        /\ capped[s] \in Capped
        /\ capped[s] \in spent
        /\ feas[capped[s]] = 0

LEMMA HandlerKeepsCapped ==
    ASSUME IInv, CappedIsSpent, NEW r \in Requests, RequestStep(r)
    PROVE  CappedIsSpent'
<1> SUFFICES ASSUME NEW s \in Sessions, capped'[s] # NoEntry
             PROVE  capped'[s] \in Capped /\ capped'[s] \in spent' /\ feas'[capped'[s]] = 0
  BY DEF CappedIsSpent
<1> USE DEF IInv, TypeOK
<1>0. capped[s] # NoEntry => capped[s] \in Entries
  BY DEF Slot
<1>1. CASE RespondQuota429(r)
  <2>1. req[r].entry \in Entries
    BY <1>1 DEF RespondQuota429, HandlersAreSound
  <2>2. /\ req[r].entry \in Capped
        /\ spent' = spent \cup {req[r].entry}
        /\ feas' = [feas EXCEPT ![req[r].entry] = 0]
    BY <1>1 DEF RespondQuota429, NoteEntryUsage, Report, LevelsOf
  <2>3. capped'[s] \in {capped[s], req[r].entry}
    BY <1>1 DEF RespondQuota429
  <2>4. QED
    BY <1>0, <2>1, <2>2, <2>3 DEF CappedIsSpent
<1>2. CASE RespondTransient429(r) \/ Respond2xxWithHeaders(r)
  <2>1. /\ capped'[s] = capped[s]
        /\ capped[s] # req[r].entry
    BY <1>2 DEF RespondTransient429, Respond2xxWithHeaders, NewerWord
  <2>2. /\ spent \ {req[r].entry} \subseteq spent'
        /\ \E f : feas' = [feas EXCEPT ![req[r].entry] = f]
    BY <1>2 DEF RespondTransient429, Respond2xxWithHeaders, NoteEntryUsage, Report
  <2>3. QED
    BY <1>0, <2>1, <2>2 DEF CappedIsSpent
<1>3. CASE UNCHANGED <<capped, spent, feas>>
  BY <1>3 DEF CappedIsSpent
<1>4. QED
  BY <1>1, <1>2, <1>3 DEF RequestStep, RoutePinned, RouteNowhere, RouteFresh, FreshOk,
     FreshGivesUp, FreshInvalidGrant, FailEntryInvalidGrant, CommitPin, Respond401, DropPin,
     Respond2xx, RespondOther, quotaVars

LEMMA SchedulerKeepsCapped ==
    ASSUME Capped \subseteq Locals, IInv, CappedIsSpent, SchedulerStep
    PROVE  CappedIsSpent'
<1> SUFFICES ASSUME NEW s \in Sessions, capped'[s] # NoEntry
             PROVE  capped'[s] \in Capped /\ capped'[s] \in spent' /\ feas'[capped'[s]] = 0
  BY DEF CappedIsSpent
<1> USE DEF IInv, TypeOK
<1>0. capped[s] # NoEntry => capped[s] \in Entries
  BY DEF Slot
<1>1. ASSUME NEW e \in Entries, ProbeOk(e)
      PROVE  capped'[s] \in Capped /\ capped'[s] \in spent' /\ feas'[capped'[s]] = 0
  <2>1. capped'[s] = capped[s] /\ capped[s] # e
    BY <1>1 DEF ProbeOk, NewerWord
  <2>2. spent \ {e} \subseteq spent' /\ UNCHANGED feas
    BY <1>1 DEF ProbeOk, Report
  <2>3. QED
    BY <2>1, <2>2 DEF CappedIsSpent
<1>2. CASE RefreshFeasibilities
  <2>1. UNCHANGED <<capped, spent>>
    BY <1>2 DEF RefreshFeasibilities
  <2>2. /\ capped[s] \in Capped
        /\ capped[s] \in spent
        /\ feas[capped[s]] = 0
    BY <2>1 DEF CappedIsSpent
  <2>3. RefreshedLevels(capped[s]) = {0}
    BY <2>2 DEF RefreshedLevels, LevelsOf, Locals
  <2>4. QED
    BY <1>0, <1>2, <2>1, <2>2, <2>3 DEF RefreshFeasibilities
<1>3. CASE UNCHANGED <<capped, spent, feas>>
  BY <1>3 DEF CappedIsSpent
<1>4. QED
  BY <1>1, <1>2, <1>3 DEF SchedulerStep, ProbeErr, EvictSessions, quotaVars

LEMMA CappedStaysSpent ==
    ASSUME Capped \subseteq Locals
    PROVE  Spec => []CappedIsSpent
<1>1. Init => CappedIsSpent
  BY DEF Init, CappedIsSpent
<1>2. IInv /\ CappedIsSpent /\ [Next]_vars => CappedIsSpent'
  <2> SUFFICES ASSUME IInv, CappedIsSpent, [Next]_vars PROVE CappedIsSpent'
    OBVIOUS
  <2>1. ASSUME UNCHANGED <<capped, spent, feas>> PROVE CappedIsSpent'
    BY <2>1 DEF CappedIsSpent
  <2>2. QED
    BY <2>1, HandlerKeepsCapped, SchedulerKeepsCapped
    DEF Next, Revoke, Relogin, Age, Cool, Tick, quotaVars, vars
<1>3. QED
  BY <1>1, <1>2, Invariance, PTL DEF Spec

(* A session whose quota 429 came from a local entry is not sent back to it *)
(* while another clean entry has quota left.  For passthrough entries it   *)
(* can be: a later tick restores their override from before the 429.       *)
THEOREM SpentLocalsAreLeft ==
    ASSUME Capped \subseteq Locals
    PROVE  Spec => SpentEntryIsLeft
<1> DEFINE Left ==
        \A r \in Requests : \A o \in Entries \ {req'[r].entry} :
            /\ req[r].pc \in {"idle", "route"}
            /\ req'[r].pc = "fresh"
            /\ ~req'[r].pinned
            /\ SessionOf[r] \in Sessions
            /\ capped[SessionOf[r]] = req'[r].entry
            /\ Clean(o)
            => feas[o] = 0
<1>1. ASSUME IInv, CappedIsSpent, Next,
             NEW r \in Requests, NEW o \in Entries \ {req'[r].entry},
             req[r].pc \in {"idle", "route"}, req'[r].pc = "fresh", ~req'[r].pinned,
             SessionOf[r] \in Sessions, capped[SessionOf[r]] = req'[r].entry, Clean(o)
      PROVE  feas[o] = 0
  <2>1. PICK e \in Entries : RouteFresh(r, e)
    <3>1. req'[r] # req[r]
      BY <1>1
    <3>2. PICK q \in Requests : RequestStep(q)
      BY <1>1, <3>1, OthersMoveNoHandler DEF Next
    <3>3. q = r
      BY <3>1, <3>2, HandlerTouchesOwnPin, <1>1 DEF IInv
    <3>4. ~RoutePinned(r)
      BY <1>1 DEF RoutePinned, IInv, TypeOK, RequestTypes
    <3>5. req[r].pc \in {"idle", "route"} /\ req'[r].pc \notin {"idle", "route"}
      BY <1>1
    <3>6. QED
      BY <3>2, <3>3, <3>4, <3>5, HandlerLetsGo, <1>1
      DEF RequestStep, FreshOk, FreshInvalidGrant, CommitPin, RespondQuota429, IInv,
          Respond2xx, Respond2xxWithHeaders
  <2>2. req'[r].entry = e
    BY <1>1, <2>1 DEF RouteFresh, IInv, TypeOK, RequestTypes
  <2>3. feas[e] = 0
    BY <1>1, <2>2, EntriesAssumption DEF CappedIsSpent
  <2>4. Outranks(feas, e, o)
    BY <1>1, <2>1, <2>2 DEF RouteFresh, Best, IsBest
  <2>5. feas[o] \in Nat
    BY <1>1, StickyAssumption DEF IInv, TypeOK, Levels
  <2>6. QED
    BY <2>3, <2>4, <2>5 DEF Outranks
<1>2. IInv /\ CappedIsSpent /\ [Next]_vars => [Left]_vars
  BY <1>1
<1>3. QED
  BY <1>2, Invariance, CappedStaysSpent, PTL DEF Spec, SpentEntryIsLeft
=============================================================================
