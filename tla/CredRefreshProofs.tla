-------------------------- MODULE CredRefreshProofs ---------------------------
(***************************************************************************)
(* Proofs about CredRefresh for every number of processes of every role,   *)
(* every provider and every number of tokens.                              *)
(***************************************************************************)
EXTENDS CredRefresh, TLAPS

(* A process that presents, saves or adopts a credential holds one.        *)
InHand ==
    \A p \in Procs : pc[p] \in SavePcs \cup {"provider", "adopt"} => out[p] \in Cred

(* The lock is held by the process that is inside the locked section.      *)
Holders ==
    /\ lock \in Callers \cup {NoProc}
    /\ \A p \in Callers : lock = p <=> pc[p] \in LockPcs
    /\ \A p \in Unlocked :
        pc[p] \in {"resolve", "login", "delete", "done"} \cup SavePcs

(* What the holder of the lock can count on while nobody else writes: the  *)
(* temporary file is its own, from the opening to the rename.              *)
SaveIsPrivate ==
    Quiet =>
        /\ file.kind = "whole"
        /\ \A p \in Procs : fd[p] # "none" => p \in Callers /\ pc[p] = "write"
        /\ \A p \in Callers : pc[p] = "write" => fd[p] = "tmp" /\ tmp = Torn
        /\ \A p \in Callers : pc[p] = "publish" => tmp = Marshal(out[p])

IInv ==
    /\ TypeOK
    /\ InHand
    /\ Holders
    /\ SaveIsPrivate
    /\ PresentsWhatIsStored

-----------------------------------------------------------------------------
(* Facts about the credential's two shapes.                                *)
LEMMA MarshalTyped ==
    ASSUME NEW c \in Cred PROVE Marshal(c) \in Contents /\ Marshal(c).kind = "whole"
BY DEF Marshal, Cred, Contents

LEMMA UnmarshalTyped ==
    ASSUME NEW f \in Contents, f.kind = "whole" PROVE Unmarshal(f) \in Cred
BY DEF Unmarshal, Cred, Contents, Missing, Torn

LEMMA NoCredIsNone == NoCred \notin Cred
BY DEF NoCred, Cred, Tokens

LEMMA InitIInv == Init => IInv
<1> SUFFICES ASSUME Init PROVE IInv
  OBVIOUS
<1> USE StoreAssumption, RefreshAssumption
<1>1. 1 \in Tokens
  BY DEF Tokens
<1>2. file \in Contents /\ file.kind = "whole" /\ tmp \in Contents
  BY <1>1 DEF Init, StoreInit, Marshal, Contents
<1>3. cred \in [Sessions -> Cred]
  BY <1>2, UnmarshalTyped DEF Init
<1>4. pc \in [Procs -> CallPcs \cup {"idle", "login", "delete", "done"}]
  BY DEF Init, CallPcs
<1>5. \A p \in Procs : pc[p] \in {"idle", "resolve"}
  BY DEF Init
<1>6. TypeOK
  BY <1>1, <1>2, <1>3, <1>4 DEF Init, StoreInit, StoreTypeOK, TypeOK
<1>7. Holders
  <2>1. \A p \in Callers : lock # p /\ pc[p] \notin LockPcs
    BY <1>5 DEF Init, StoreInit, LockPcs
  <2>2. \A p \in Unlocked : pc[p] = "resolve"
    BY DEF Init, Callers, Unlocked
  <2>3. QED
    BY <2>1, <2>2 DEF Holders, Init, StoreInit
<1>8. InHand /\ PresentsWhatIsStored
  BY <1>5 DEF InHand, PresentsWhatIsStored, SavePcs
<1>9. SaveIsPrivate
  BY <1>2, <1>5 DEF SaveIsPrivate, Init, StoreInit
<1>10. QED
  BY <1>6, <1>7, <1>8, <1>9 DEF IInv

-----------------------------------------------------------------------------
(* A step of a process that takes the lock says nothing of the commands    *)
(* that do not; and a process inside the locked section excludes others.   *)
LEMMA QuietIsOfTheUnlocked ==
    ASSUME TypeOK, NEW p \in Callers, NEW l, Goto(p, l)
    PROVE  Quiet' = Quiet
<1>1. \A q \in Unlocked : pc'[q] = pc[q]
  BY RefreshAssumption DEF TypeOK, Goto
<1>2. QED
  BY <1>1 DEF Quiet

LEMMA HoldersExclude ==
    ASSUME Holders, NEW p \in Callers, pc[p] \in LockPcs,
           NEW q \in Callers, q # p
    PROVE  pc[q] \notin LockPcs
BY DEF Holders

(* Fresh and Adopt, and the start of a session, change its memory only.    *)
LEMMA SessionKeepsIInv ==
    ASSUME IInv, NEW s \in Sessions, Fresh(s) \/ Adopt(s) \/ Restart(s)
    PROVE  IInv'
<1> USE RefreshAssumption
<1>0. s \in Callers /\ s \in Procs
  BY DEF Callers
<1>1. \E l \in {"idle", "resolve"} : Goto(s, l)
  BY DEF Fresh, Adopt, Restart, Goto, IInv, TypeOK
<1>2. Quiet' = Quiet
  BY <1>0, <1>1, QuietIsOfTheUnlocked DEF IInv
<1>3. pc[s] \notin LockPcs /\ pc'[s] \notin LockPcs /\ pc'[s] \notin SavePcs \cup {"provider", "adopt"}
  BY <1>0, <1>1 DEF Fresh, Adopt, Restart, Goto, LockPcs, SavePcs, IInv, TypeOK
<1>4. UNCHANGED <<storeVars, resolved, serverVars>>
  BY DEF Fresh, Adopt, Restart
<1>5. \A q \in Procs : q # s => pc'[q] = pc[q] /\ out'[q] = out[q]
  BY <1>1 DEF Fresh, Adopt, Restart, Goto, Keep, IInv, TypeOK
<1>6. TypeOK'
  <2>1. cred' \in [Sessions -> Cred]
    BY <1>0, UnmarshalTyped DEF Fresh, Adopt, Restart, Reloaded, Loadable, IInv, TypeOK, StoreTypeOK,
       InHand
  <2>2. seen' \in [Sessions -> BOOLEAN]
    BY DEF Fresh, Adopt, Restart, IInv, TypeOK
  <2>3. out' \in [Procs -> Cred \cup {NoCred}]
    BY DEF Fresh, Adopt, Restart, Keep, IInv, TypeOK
  <2>4. pc' \in [Procs -> CallPcs \cup {"idle", "login", "delete", "done"}]
    BY <1>1 DEF Goto, CallPcs, IInv, TypeOK
  <2>5. QED
    BY <1>4, <2>1, <2>2, <2>3, <2>4 DEF IInv, TypeOK, StoreTypeOK, storeVars, serverVars
<1>7. InHand'
  BY <1>3, <1>5 DEF IInv, InHand
<1>8. Holders'
  BY <1>0, <1>3, <1>4, <1>5 DEF IInv, Holders, storeVars, Unlocked, Callers
<1>9. SaveIsPrivate'
  BY <1>0, <1>2, <1>3, <1>4, <1>5 DEF IInv, SaveIsPrivate, storeVars, Marshal, LockPcs, SavePcs, Callers
<1>10. PresentsWhatIsStored'
  BY <1>0, <1>2, <1>3, <1>4, <1>5 DEF IInv, PresentsWhatIsStored, storeVars, Unmarshal, Callers
<1>11. QED
  BY <1>6, <1>7, <1>8, <1>9, <1>10 DEF IInv

(* A step of RefreshCredential that leaves the files alone.                *)
LEMMA FilesUntouched ==
    ASSUME IInv, NEW p \in Callers, NEW l, Goto(p, l), TypeOK',
           UNCHANGED <<file, tmp, fd>>,
           pc[p] # "write", l \notin {"write", "publish"},
           \A q \in Procs : q # p => out'[q] = out[q] /\ resolved'[q] = resolved[q],
           \/ lock' = lock /\ (pc[p] \in LockPcs <=> l \in LockPcs)
           \/ lock = NoProc /\ lock' = p /\ l \in LockPcs
           \/ lock = p /\ lock' = NoProc /\ l \notin LockPcs,
           l \in SavePcs \cup {"provider", "adopt"} => out'[p] \in Cred,
           Quiet /\ l = "provider" =>
               out'[p] = Unmarshal(file) /\ file.access = resolved'[p]
    PROVE  IInv'
<1> USE RefreshAssumption, StoreAssumption
<1>1. Quiet' = Quiet
  BY QuietIsOfTheUnlocked DEF IInv
<1>2. p \in Procs /\ pc'[p] = l /\ \A q \in Procs : q # p => pc'[q] = pc[q]
  BY DEF IInv, TypeOK, Goto, Callers
<1>3. InHand'
  BY <1>2 DEF IInv, InHand
<1>4. Holders'
  <2>1. lock' \in Callers \cup {NoProc}
    BY DEF IInv, Holders
  <2>2. ASSUME NEW q \in Callers PROVE lock' = q <=> pc'[q] \in LockPcs
    <3>1. q \in Procs /\ q # NoProc /\ p # NoProc
      OBVIOUS
    <3>2. (lock = q <=> pc[q] \in LockPcs) /\ (lock = p <=> pc[p] \in LockPcs)
      BY DEF IInv, Holders
    <3>3. CASE q = p
      BY <1>2, <3>1, <3>2, <3>3
    <3>4. CASE q # p
      BY <1>2, <3>1, <3>2, <3>4
    <3>5. QED
      BY <3>3, <3>4
  <2>3. \A q \in Unlocked : pc'[q] = pc[q]
    BY <1>2 DEF Unlocked
  <2>4. QED
    BY <2>1, <2>2, <2>3 DEF IInv, Holders
<1>5. SaveIsPrivate'
  BY <1>1, <1>2 DEF IInv, SaveIsPrivate, Marshal, Callers
<1>6. PresentsWhatIsStored'
  BY <1>1, <1>2 DEF IInv, PresentsWhatIsStored, Unmarshal, Callers
<1>7. QED
  BY <1>3, <1>4, <1>5, <1>6 DEF IInv

(* The provider's answers are tokens.                                      *)
LEMMA IssueTyped ==
    ASSUME TypeOK, NEW p \in Procs, NEW r \in Tokens, Issue(p, r)
    PROVE  /\ issued' \in Tokens
           /\ live' \subseteq Tokens
           /\ expired' \subseteq Tokens
<1>1. issued \in Tokens /\ live \subseteq Tokens /\ expired \subseteq Tokens
  BY DEF TypeOK
<1>2. issued' = issued + 1 /\ issued < MaxTokens
  BY DEF Issue
<1>3. issued' \in Tokens
  BY <1>1, <1>2, StoreAssumption DEF Tokens
<1>4. live' \subseteq live \cup {r} /\ expired' = expired
  BY DEF Issue
<1>5. QED
  BY <1>1, <1>3, <1>4

LEMMA RefreshStepKeepsIInv ==
    ASSUME IInv, NEW p \in Callers,
           \/ ResolveToRefresh(p) \/ LockTimeout(p) \/ LoadLocked(p) \/ Answered(p)
           \/ AnswerLost(p) \/ Unanswered(p) \/ Rejected(p) \/ Reread(p)
           \/ SaveFails(p) \/ Lock(p) \/ Unlock(p)
    PROVE  IInv'
<1> USE RefreshAssumption, StoreAssumption
<1>0. /\ p \in Procs
      /\ Rest(p) \in {"idle", "done"}
      /\ Leave(p) = "unlock"
      /\ p \in Callers /\ p # NoProc
  BY DEF Callers, Rest, Leave
<1>1. /\ pc \in [Procs -> CallPcs \cup {"idle", "login", "delete", "done"}]
      /\ resolved \in [Procs -> 0..MaxTokens]
      /\ out \in [Procs -> Cred \cup {NoCred}]
      /\ file \in Contents
  BY DEF IInv, TypeOK, StoreTypeOK
<1>2. file.kind = "whole" => file.access \in Tokens /\ Unmarshal(file) \in Cred
  BY <1>1, UnmarshalTyped DEF Contents, Missing, Torn
<1>3. CASE ResolveToRefresh(p)
  <2>1. \E l \in {"lock", "idle", "done"} : Goto(p, l)
    BY <1>0, <1>3 DEF ResolveToRefresh
  <2>2. TypeOK'
    BY <1>0, <1>1, <1>2, <1>3 DEF ResolveToRefresh, Goto, CallPcs, IInv, TypeOK, StoreTypeOK,
       Loadable, Tokens, storeVars, sessionVars, serverVars
  <2>3. QED
    BY <1>0, <1>1, <1>3, <2>1, <2>2, FilesUntouched DEF ResolveToRefresh, LockPcs, SavePcs,
       storeVars
<1>4. CASE LockTimeout(p)
  <2>2. TypeOK'
    BY <1>0, <1>1, <1>4 DEF LockTimeout, Goto, CallPcs, IInv, TypeOK, StoreTypeOK,
       storeVars, sessionVars, serverVars
  <2>3. QED
    BY <1>0, <1>1, <1>4, <2>2, FilesUntouched DEF LockTimeout, LockPcs, SavePcs, storeVars
<1>5. CASE LoadLocked(p)
  <2>1. \E l \in {"unlock", "provider"} : Goto(p, l)
    BY <1>5 DEF LoadLocked
  <2>2. TypeOK'
    BY <1>0, <1>1, <1>2, <1>5 DEF LoadLocked, Goto, Keep, Loadable, CallPcs, IInv, TypeOK,
       StoreTypeOK, storeVars, sessionVars, serverVars
  <2>3. pc'[p] = "provider" => out'[p] = Unmarshal(file) /\ out'[p] \in Cred /\ file.access = resolved'[p]
    BY <1>0, <1>1, <1>2, <1>5 DEF LoadLocked, Goto, Keep, Loadable
  <2>4. \A q \in Procs : q # p => out'[q] = out[q] /\ resolved'[q] = resolved[q]
    BY <1>1, <1>5 DEF LoadLocked, Keep
  <2>5. PICK l \in {"unlock", "provider"} : Goto(p, l)
    BY <2>1
  <2>6. pc'[p] = l
    BY <1>0, <1>1, <2>5 DEF Goto
  <2>7. QED
    BY <1>0, <1>5, <2>2, <2>3, <2>4, <2>5, <2>6, FilesUntouched DEF LoadLocked, LockPcs, SavePcs,
       storeVars
<1>6. CASE Answered(p)
  <2>1. PICK r \in Tokens : Issue(p, r) /\ Keep(p, Refreshed(out[p], issued + 1, r))
    BY <1>6 DEF Answered
  <2>2. out[p] \in Cred
    BY <1>0, <1>6 DEF Answered, IInv, InHand
  <2>3. issued' \in Tokens /\ issued' = issued + 1 /\ live' \subseteq Tokens /\ expired' \subseteq Tokens
    BY <1>0, <2>1, IssueTyped DEF IInv, Issue
  <2>4. out'[p] \in Cred
    BY <1>0, <1>1, <2>1, <2>2, <2>3 DEF Keep, Refreshed, Cred
  <2>5. \A q \in Procs : q # p => out'[q] = out[q]
    BY <1>1, <2>1 DEF Keep
  <2>6. out' \in [Procs -> Cred \cup {NoCred}]
    BY <1>0, <1>1, <2>1, <2>4 DEF Keep
  <2>7. TypeOK'
    BY <1>0, <1>1, <1>6, <2>3, <2>6 DEF Answered, Goto, CallPcs, IInv, TypeOK, StoreTypeOK,
       storeVars, sessionVars
  <2>8. QED
    BY <1>0, <1>6, <2>4, <2>5, <2>7, FilesUntouched DEF Answered, LockPcs, SavePcs, storeVars
<1>7. CASE AnswerLost(p)
  <2>1. PICK r \in Tokens : Issue(p, r)
    BY <1>7 DEF AnswerLost
  <2>2. issued' \in Tokens /\ live' \subseteq Tokens /\ expired' \subseteq Tokens
    BY <1>0, <2>1, IssueTyped DEF IInv
  <2>3. TypeOK'
    BY <1>0, <1>1, <1>7, <2>2 DEF AnswerLost, Goto, Keep, CallPcs, IInv, TypeOK, StoreTypeOK,
       storeVars, sessionVars
  <2>4. QED
    BY <1>0, <1>1, <1>7, <2>3, FilesUntouched DEF AnswerLost, Keep, LockPcs, SavePcs, storeVars
<1>8. CASE Unanswered(p)
  <2>1. TypeOK'
    BY <1>0, <1>1, <1>8 DEF Unanswered, Goto, Keep, CallPcs, IInv, TypeOK, StoreTypeOK,
       storeVars, sessionVars, serverVars
  <2>2. QED
    BY <1>0, <1>1, <1>8, <2>1, FilesUntouched DEF Unanswered, Keep, LockPcs, SavePcs, storeVars
<1>9. CASE Rejected(p)
  <2>1. \E l \in {"unlock", "reread"} : Goto(p, l)
    BY <1>9 DEF Rejected
  <2>2. TypeOK'
    BY <1>0, <1>1, <1>9 DEF Rejected, Goto, Keep, CallPcs, IInv, TypeOK, StoreTypeOK,
       storeVars, sessionVars, serverVars
  <2>3. QED
    BY <1>0, <1>1, <1>9, <2>1, <2>2, FilesUntouched DEF Rejected, Keep, LockPcs, SavePcs, storeVars
<1>10. CASE Reread(p)
  <2>1. TypeOK'
    BY <1>0, <1>1, <1>2, <1>10 DEF Reread, Loadable, Goto, Keep, CallPcs, IInv, TypeOK,
       StoreTypeOK, storeVars, sessionVars, serverVars
  <2>2. QED
    BY <1>0, <1>1, <1>10, <2>1, FilesUntouched DEF Reread, Keep, LockPcs, SavePcs, storeVars
<1>11. CASE SaveFails(p)
  <2>1. TypeOK'
    BY <1>0, <1>1, <1>11 DEF SaveFails, Goto, Keep, CallPcs, IInv, TypeOK, StoreTypeOK,
       storeVars, sessionVars, serverVars
  <2>2. QED
    BY <1>0, <1>1, <1>11, <2>1, FilesUntouched DEF SaveFails, Keep, LockPcs, SavePcs, storeVars
<1>12. CASE Lock(p)
  <2>1. TypeOK'
    BY <1>0, <1>1, <1>12 DEF Lock, Flock, Goto, CallPcs, IInv, TypeOK, StoreTypeOK,
       sessionVars, serverVars
  <2>2. QED
    BY <1>0, <1>1, <1>12, <2>1, FilesUntouched DEF Lock, Flock, LockPcs, SavePcs
<1>13. CASE Unlock(p)
  <2>1. \E l \in {"adopt", "idle", "done"} : Goto(p, l) /\ (l = "adopt" => out' = out /\ out[p] # NoCred)
    BY <1>0, <1>13 DEF Unlock
  <2>2. TypeOK'
    BY <1>0, <1>1, <1>13, <2>1 DEF Unlock, Funlock, Goto, Keep, CallPcs, IInv, TypeOK, StoreTypeOK,
       sessionVars, serverVars
  <2>3. \A q \in Procs : q # p => out'[q] = out[q] /\ resolved'[q] = resolved[q]
    BY <1>1, <1>13 DEF Unlock, Keep
  <2>4. lock = p /\ lock' = NoProc
    BY <1>13 DEF Unlock, Funlock, IInv, Holders, LockPcs
  <2>5. PICK l \in {"adopt", "idle", "done"} : Goto(p, l) /\ (l = "adopt" => out' = out /\ out[p] # NoCred)
    BY <2>1
  <2>6. l = "adopt" => out'[p] \in Cred
    BY <1>0, <1>1, <2>5
  <2>7. QED
    BY <1>0, <1>13, <2>2, <2>3, <2>4, <2>5, <2>6, FilesUntouched
    DEF Unlock, Funlock, LockPcs, SavePcs
<1>14. QED
  BY <1>3, <1>4, <1>5, <1>6, <1>7, <1>8, <1>9, <1>10, <1>11, <1>12, <1>13

-----------------------------------------------------------------------------
(* The three steps of Save, by the holder of the lock and by the others.   *)
LEMMA SaveTyped ==
    ASSUME IInv, NEW p \in Procs, OpenTmp(p) \/ WriteTmp(p) \/ PublishTmp(p)
    PROVE  TypeOK'
<1>1. /\ pc \in [Procs -> CallPcs \cup {"idle", "login", "delete", "done"}]
      /\ file \in Contents /\ tmp \in Contents
      /\ fd \in [Procs -> {"none", "tmp", "file", "gone"}]
      /\ Torn \in Contents /\ Missing \in Contents
      /\ Leave(p) \in {"unlock", "done"}
  BY DEF IInv, TypeOK, StoreTypeOK, Contents, Leave
<1>2. CASE OpenTmp(p)
  BY <1>1, <1>2 DEF OpenTmp, Open, Goto, CallPcs, IInv, TypeOK, StoreTypeOK,
     sessionVars, serverVars
<1>3. CASE WriteTmp(p)
  <2>1. Marshal(out[p]) \in Contents
    BY <1>3, MarshalTyped DEF WriteTmp, IInv, InHand, SavePcs
  <2>2. file' \in Contents /\ tmp' \in Contents
    BY <1>1, <1>3, <2>1 DEF WriteTmp, Write, Written
  <2>3. fd' \in [Procs -> {"none", "tmp", "file", "gone"}] /\ lock' = lock
    BY <1>1, <1>3 DEF WriteTmp, Write
  <2>4. seen' \in [Sessions -> BOOLEAN]
    BY <1>3 DEF WriteTmp, Unseen, IInv, TypeOK
  <2>5. pc' \in [Procs -> CallPcs \cup {"idle", "login", "delete", "done"}]
    BY <1>1, <1>3 DEF WriteTmp, Goto, CallPcs
  <2>6. QED
    BY <1>3, <2>2, <2>3, <2>4, <2>5 DEF WriteTmp, IInv, TypeOK, StoreTypeOK, serverVars
<1>4. CASE PublishTmp(p)
  <2>1. fd' \in [Procs -> {"none", "tmp", "file", "gone"}]
    BY <1>1, <1>4 DEF PublishTmp, Publish
  <2>2. seen' \in [Sessions -> BOOLEAN]
    BY <1>4 DEF PublishTmp, Unseen
  <2>3. pc' \in [Procs -> CallPcs \cup {"idle", "login", "delete", "done"}]
    BY <1>1, <1>4 DEF PublishTmp, Goto, CallPcs
  <2>4. QED
    BY <1>1, <1>4, <2>1, <2>2, <2>3 DEF PublishTmp, Publish, IInv, TypeOK, StoreTypeOK, serverVars
<1>5. QED
  BY <1>2, <1>3, <1>4

LEMMA LockedSaveKeepsIInv ==
    ASSUME IInv, NEW p \in Callers, OpenTmp(p) \/ WriteTmp(p) \/ PublishTmp(p)
    PROVE  IInv'
<1> USE RefreshAssumption, StoreAssumption
<1>0. /\ p \in Procs
      /\ pc[p] \in SavePcs /\ pc[p] \in LockPcs
      /\ lock = p /\ lock' = p
      /\ Leave(p) = "unlock"
      /\ out' = out /\ resolved' = resolved
  BY DEF Callers, Leave, OpenTmp, Open, WriteTmp, Write, PublishTmp, Publish, SavePcs, LockPcs,
         IInv, Holders
<1>1. \E l \in {"write", "publish", "unlock"} : Goto(p, l)
  BY <1>0 DEF OpenTmp, WriteTmp, PublishTmp
<1>2. PICK l \in {"write", "publish", "unlock"} : Goto(p, l)
  BY <1>1
<1>3. Quiet' = Quiet
  BY <1>2, QuietIsOfTheUnlocked DEF IInv
<1>4. pc'[p] = l /\ \A q \in Procs : q # p => pc'[q] = pc[q]
  BY <1>0, <1>2 DEF IInv, TypeOK, Goto
<1>5. \A q \in Callers : q # p => pc[q] \notin LockPcs
  BY <1>0, HoldersExclude DEF IInv
<1>6. TypeOK'
  BY <1>0, SaveTyped
<1>7. InHand'
  BY <1>0, <1>4 DEF IInv, InHand, SavePcs
<1>8. Holders'
  <2>1. \A q \in Callers : lock' = q <=> pc'[q] \in LockPcs
    BY <1>0, <1>4, <1>5 DEF LockPcs, Callers
  <2>2. \A q \in Unlocked : pc'[q] = pc[q]
    BY <1>4
  <2>3. QED
    BY <1>0, <2>1, <2>2 DEF IInv, Holders
<1>9. SaveIsPrivate'
  <2> SUFFICES ASSUME Quiet PROVE SaveIsPrivate'
    BY <1>3 DEF SaveIsPrivate
  <2>1. /\ file.kind = "whole"
        /\ \A q \in Procs : q # p => fd[q] = "none"
        /\ pc[p] = "write" => fd[p] = "tmp" /\ tmp = Torn
        /\ pc[p] # "write" => fd[p] = "none"
        /\ pc[p] = "publish" => tmp = Marshal(out[p])
    BY <1>0, <1>5 DEF IInv, SaveIsPrivate, LockPcs
  <2>2. \A q \in Callers : q # p => pc'[q] \notin {"write", "publish"}
    BY <1>4, <1>5 DEF LockPcs, Callers
  <2>3. fd \in [Procs -> {"none", "tmp", "file", "gone"}]
    BY DEF IInv, TypeOK, StoreTypeOK
  <2>4. CASE OpenTmp(p)
    <3>1. pc'[p] = "write" /\ file' = file /\ tmp' = Torn /\ fd' = [fd EXCEPT ![p] = "tmp"]
      BY <1>0, <2>4 DEF OpenTmp, Open, Goto, IInv, TypeOK
    <3>2. QED
      BY <1>0, <2>1, <2>2, <2>3, <3>1 DEF SaveIsPrivate
  <2>5. CASE WriteTmp(p)
    <3>1. /\ pc'[p] = "publish" /\ file' = file
          /\ tmp' = Marshal(out[p]) /\ fd' = [fd EXCEPT ![p] = "none"]
      BY <1>0, <2>1, <2>5 DEF WriteTmp, Write, Written, Torn, Goto, IInv, TypeOK
    <3>2. Marshal(out[p])' = Marshal(out[p])
      BY <1>0 DEF Marshal
    <3>3. QED
      BY <1>0, <2>1, <2>2, <2>3, <3>1, <3>2 DEF SaveIsPrivate
  <2>6. CASE PublishTmp(p)
    <3>1. pc'[p] = "unlock" /\ file' = Marshal(out[p])
      BY <1>0, <2>1, <2>6 DEF PublishTmp, Publish, Goto, IInv, TypeOK
    <3>2. \A q \in Procs : fd'[q] = "none"
      BY <2>1, <2>3, <2>6 DEF PublishTmp, Publish
    <3>3. file'.kind = "whole"
      BY <3>1 DEF Marshal
    <3>4. QED
      BY <2>2, <3>1, <3>2, <3>3 DEF SaveIsPrivate
  <2>7. QED
    BY <2>4, <2>5, <2>6
<1>10. PresentsWhatIsStored'
  <2>1. \A q \in Callers : pc'[q] # "provider"
    BY <1>2, <1>4, <1>5 DEF LockPcs, Callers
  <2>2. QED
    BY <2>1 DEF PresentsWhatIsStored
<1>11. QED
  BY <1>6, <1>7, <1>8, <1>9, <1>10 DEF IInv

-----------------------------------------------------------------------------
(* The commands that do without the lock: either they leave the files      *)
(* alone, or it is quiet no longer.                                        *)
UnlockedStep(p) ==
    \/ OpenTmp(p) \/ WriteTmp(p) \/ PublishTmp(p) \/ SaveFails(p)
    \/ ResolveToRename(p) \/ ResolveTo(p, "login") \/ ResolveTo(p, "delete")
    \/ Login(p) \/ DoLogout(p)

LEMMA UnlockedDisturbs ==
    ASSUME TypeOK, NEW p \in Unlocked, UnlockedStep(p)
    PROVE  /\ lock' = lock
           /\ \A q \in Procs : q # p => pc'[q] = pc[q] /\ out'[q] = out[q]
           /\ resolved' = resolved
           /\ pc'[p] \in {"login", "delete", "done"} \cup SavePcs
           /\ Quiet' => Quiet /\ UNCHANGED storeVars
<1> USE RefreshAssumption
<1>0. p \in Procs /\ Leave(p) = "done" /\ Unlocked \subseteq Procs
  BY DEF Leave
<1>1. /\ pc \in [Procs -> CallPcs \cup {"idle", "login", "delete", "done"}]
      /\ out \in [Procs -> Cred \cup {NoCred}]
  BY DEF TypeOK
<1>2. PICK l \in {"login", "delete", "done"} \cup SavePcs : Goto(p, l)
  BY <1>0 DEF UnlockedStep, OpenTmp, WriteTmp, PublishTmp, SaveFails, ResolveToRename,
     ResolveTo, Login, DoLogout, SavePcs
<1>3. pc'[p] = l /\ \A q \in Procs : q # p => pc'[q] = pc[q]
  BY <1>0, <1>1, <1>2 DEF Goto
<1>4. lock' = lock /\ resolved' = resolved
  BY DEF UnlockedStep, OpenTmp, Open, WriteTmp, Write, PublishTmp, Publish, SaveFails,
     ResolveToRename, ResolveTo, Login, DoLogout, Delete, storeVars
<1>5. \A q \in Procs : q # p => out'[q] = out[q]
  BY <1>0, <1>1 DEF UnlockedStep, OpenTmp, WriteTmp, PublishTmp, SaveFails, ResolveToRename,
     ResolveTo, Login, DoLogout, Keep
<1>6. ASSUME Quiet' PROVE Quiet /\ UNCHANGED storeVars
  <2>1. pc'[p] \in {"resolve", "login", "open", "delete"}
    BY <1>6 DEF Quiet
  <2>2. ResolveToRename(p) \/ ResolveTo(p, "login") \/ ResolveTo(p, "delete") \/ Login(p)
    BY <1>0, <1>1, <2>1 DEF UnlockedStep, OpenTmp, WriteTmp, PublishTmp, SaveFails, DoLogout,
       Goto
  <2>3. pc[p] \in {"resolve", "login"} /\ UNCHANGED storeVars
    BY <2>2 DEF ResolveToRename, ResolveTo, Login
  <2>4. QED
    BY <1>0, <1>3, <1>6, <2>3 DEF Quiet
<1>7. QED
  BY <1>3, <1>4, <1>5, <1>6

LEMMA UnlockedKeepsIInv ==
    ASSUME IInv, NEW p \in Unlocked, UnlockedStep(p)
    PROVE  IInv'
<1> USE RefreshAssumption, StoreAssumption
<1>0. p \in Procs /\ p \notin Callers /\ Leave(p) = "done"
  BY DEF Leave
<1>1. /\ lock' = lock
      /\ \A q \in Procs : q # p => pc'[q] = pc[q] /\ out'[q] = out[q]
      /\ resolved' = resolved
      /\ pc'[p] \in {"login", "delete", "done"} \cup SavePcs
      /\ Quiet' => Quiet /\ UNCHANGED storeVars
  BY UnlockedDisturbs DEF IInv
<1>2. /\ pc \in [Procs -> CallPcs \cup {"idle", "login", "delete", "done"}]
      /\ out \in [Procs -> Cred \cup {NoCred}]
      /\ file \in Contents
  BY DEF IInv, TypeOK, StoreTypeOK
<1>3. file.kind = "whole" => Unmarshal(file) \in Cred
  BY <1>2, UnmarshalTyped
<1>4. CASE OpenTmp(p) \/ WriteTmp(p) \/ PublishTmp(p)
  <2>1. TypeOK'
    BY <1>0, <1>4, SaveTyped
  <2>2. InHand'
    BY <1>0, <1>1, <1>2, <1>4 DEF OpenTmp, WriteTmp, PublishTmp, Goto, IInv, InHand, SavePcs
  <2>3. QED
    <3>1. Holders'
      BY <1>0, <1>1 DEF IInv, Holders, Callers, Unlocked
    <3>2. SaveIsPrivate' /\ PresentsWhatIsStored'
      <4>1. pc'[p] \notin {"resolve", "login", "open", "delete"}
        BY <1>0, <1>2, <1>4 DEF OpenTmp, WriteTmp, PublishTmp, Goto
      <4>2. ~Quiet'
        BY <4>1 DEF Quiet
      <4>3. QED
        BY <4>2 DEF SaveIsPrivate, PresentsWhatIsStored
    <3>3. QED
      BY <2>1, <2>2, <3>1, <3>2 DEF IInv
<1>5. CASE ~(OpenTmp(p) \/ WriteTmp(p) \/ PublishTmp(p))
  <2>1. \/ SaveFails(p) \/ ResolveToRename(p) \/ ResolveTo(p, "login")
        \/ ResolveTo(p, "delete") \/ Login(p) \/ DoLogout(p)
    BY <1>5 DEF UnlockedStep
  <2>2. out' \in [Procs -> Cred \cup {NoCred}] /\ (pc'[p] \in SavePcs => out'[p] \in Cred)
    <3>1. CASE Login(p)
      <4>1. issued + 1 \in Tokens
        BY <3>1 DEF Login, IInv, TypeOK, Tokens
      <4>2. [access |-> issued + 1, refresh |-> issued + 1, exp |-> issued + 1] \in Cred
        BY <4>1 DEF Cred
      <4>3. QED
        BY <1>0, <1>2, <3>1, <4>2 DEF Login, Keep
    <3>2. CASE ResolveToRename(p)
      BY <1>0, <1>2, <1>3, <3>2 DEF ResolveToRename, Keep, Goto, Loadable, SavePcs
    <3>3. CASE SaveFails(p)
      BY <1>0, <1>2, <3>3 DEF SaveFails, Keep, Goto, SavePcs
    <3>4. CASE ResolveTo(p, "login") \/ ResolveTo(p, "delete") \/ DoLogout(p)
      BY <1>0, <1>2, <3>4 DEF ResolveTo, DoLogout, Goto, SavePcs
    <3>5. QED
      BY <2>1, <3>1, <3>2, <3>3, <3>4
  <2>3. pc' \in [Procs -> CallPcs \cup {"idle", "login", "delete", "done"}]
    BY <1>0, <1>2, <2>1 DEF SaveFails, ResolveToRename, ResolveTo, Login, DoLogout, Goto, CallPcs
  <2>4. issued' \in Tokens /\ live' \subseteq Tokens /\ expired' \subseteq Tokens
    <3>1. CASE Login(p)
      <4>1. issued + 1 \in Tokens
        BY <3>1 DEF Login, IInv, TypeOK, Tokens
      <4>2. QED
        BY <3>1, <4>1 DEF Login, IInv, TypeOK
    <3>2. CASE ~Login(p)
      BY <2>1, <3>2 DEF SaveFails, ResolveToRename, ResolveTo, DoLogout, serverVars, IInv, TypeOK
    <3>3. QED
      BY <3>1, <3>2
  <2>5. StoreTypeOK' /\ UNCHANGED sessionVars
    <3>1. CASE DoLogout(p)
      BY <1>1, <3>1 DEF DoLogout, Delete, IInv, TypeOK, StoreTypeOK, Contents
    <3>2. CASE ~DoLogout(p)
      BY <2>1, <3>2 DEF SaveFails, ResolveToRename, ResolveTo, Login, storeVars, IInv, TypeOK,
         StoreTypeOK
    <3>3. QED
      BY <3>1, <3>2
  <2>6. TypeOK'
    BY <1>1, <2>2, <2>3, <2>4, <2>5 DEF IInv, TypeOK, sessionVars
  <2>7. InHand'
    BY <1>1, <2>2 DEF IInv, InHand, SavePcs
  <2>8. Holders'
    BY <1>0, <1>1 DEF IInv, Holders, Callers, Unlocked
  <2>9. SaveIsPrivate'
    BY <1>0, <1>1 DEF IInv, SaveIsPrivate, storeVars, Marshal, Callers
  <2>10. PresentsWhatIsStored'
    BY <1>0, <1>1 DEF IInv, PresentsWhatIsStored, storeVars, Unmarshal, Callers
  <2>11. QED
    BY <2>6, <2>7, <2>8, <2>9, <2>10 DEF IInv
<1>6. QED
  BY <1>4, <1>5

-----------------------------------------------------------------------------
(* A killed process lets go of its handle and its lock, and the temporary  *)
(* file it leaves behind belongs to nobody.                                *)
LEMMA KillKeepsIInv ==
    ASSUME IInv, NEW p \in Mortal, Kill(p)
    PROVE  IInv'
<1> USE RefreshAssumption, StoreAssumption
<1>0. p \in Procs /\ p # NoProc
  OBVIOUS
<1>1. /\ pc'[p] = "done" /\ fd'[p] = "none" /\ out'[p] = NoCred
      /\ \A q \in Procs : q # p => pc'[q] = pc[q] /\ fd'[q] = fd[q] /\ out'[q] = out[q]
      /\ file' = file /\ tmp' = tmp /\ resolved' = resolved
      /\ lock' = IF lock = p THEN NoProc ELSE lock
  BY <1>0 DEF Kill, Exit, Goto, Keep, IInv, TypeOK, StoreTypeOK
<1>2. TypeOK'
  BY <1>0 DEF Kill, Exit, Goto, Keep, IInv, TypeOK, StoreTypeOK, CallPcs, sessionVars, serverVars
<1>3. InHand'
  BY <1>1 DEF IInv, InHand, SavePcs
<1>4. Holders'
  <2>1. \A q \in Callers : lock' = q <=> pc'[q] \in LockPcs
    BY <1>0, <1>1 DEF IInv, Holders, LockPcs, Callers
  <2>2. \A q \in Unlocked : pc'[q] \in {"resolve", "login", "delete", "done"} \cup SavePcs
    BY <1>0, <1>1 DEF IInv, Holders
  <2>3. lock' \in Callers \cup {NoProc}
    BY <1>1 DEF IInv, Holders
  <2>4. QED
    BY <2>1, <2>2, <2>3 DEF Holders
<1>5. Quiet' => Quiet
  BY <1>0, <1>1 DEF Quiet
<1>6. SaveIsPrivate'
  <2> SUFFICES ASSUME Quiet PROVE SaveIsPrivate'
    BY <1>5 DEF SaveIsPrivate
  <2>1. \A q \in Callers : q \in Procs
    OBVIOUS
  <2>2. \A q \in Callers : q # p => Marshal(out[q])' = Marshal(out[q])
    BY <1>1, <2>1 DEF Marshal
  <2>3. /\ file'.kind = "whole"
        /\ \A q \in Procs : fd'[q] # "none" => q \in Callers /\ pc'[q] = "write"
        /\ \A q \in Callers : pc'[q] = "write" => fd'[q] = "tmp" /\ tmp' = Torn
    BY <1>0, <1>1, <2>1 DEF IInv, SaveIsPrivate
  <2>4. \A q \in Callers : pc'[q] = "publish" => tmp' = Marshal(out[q])'
    BY <1>0, <1>1, <2>1, <2>2 DEF IInv, SaveIsPrivate
  <2>5. QED
    BY <2>3, <2>4 DEF SaveIsPrivate
<1>7. PresentsWhatIsStored'
  BY <1>0, <1>1, <1>5 DEF IInv, PresentsWhatIsStored, Unmarshal, Callers
<1>8. QED
  BY <1>2, <1>3, <1>4, <1>6, <1>7 DEF IInv

LEMMA QuietStepKeepsIInv ==
    ASSUME IInv, NEW t \in Tokens, Expire(t) \/ UNCHANGED vars
    PROVE  IInv'
<1>1. CASE Expire(t)
  BY <1>1 DEF Expire, IInv, TypeOK, StoreTypeOK, InHand, Holders, SaveIsPrivate, Quiet,
     PresentsWhatIsStored, Marshal, Unmarshal, storeVars, sessionVars
<1>2. CASE UNCHANGED vars
  BY <1>2 DEF vars, IInv, TypeOK, StoreTypeOK, InHand, Holders, SaveIsPrivate, Quiet,
     PresentsWhatIsStored, Marshal, Unmarshal
<1>3. QED
  BY <1>1, <1>2

LEMMA NextKeepsIInv == IInv /\ [Next]_vars => IInv'
<1> SUFFICES ASSUME IInv, [Next]_vars PROVE IInv'
  OBVIOUS
<1> USE RefreshAssumption, StoreAssumption
<1>1. ASSUME NEW p \in Callers, Step(p) PROVE IInv'
  BY <1>1, RefreshStepKeepsIInv, LockedSaveKeepsIInv DEF Step
<1>2. ASSUME NEW s \in Sessions, Fresh(s) \/ Adopt(s) \/ Restart(s) PROVE IInv'
  BY <1>2, SessionKeepsIInv
<1>3. ASSUME NEW p \in Unlocked, UnlockedStep(p) PROVE IInv'
  BY <1>3, UnlockedKeepsIInv
<1>4. ASSUME NEW t \in Tokens, Expire(t) PROVE IInv'
  BY <1>4, QuietStepKeepsIInv
<1>5. ASSUME NEW p \in Mortal, Kill(p) PROVE IInv'
  BY <1>5, KillKeepsIInv
<1>6. CASE UNCHANGED vars
  BY <1>6, QuietStepKeepsIInv DEF IInv, TypeOK
<1>7. QED
  BY <1>1, <1>2, <1>3, <1>4, <1>5, <1>6 DEF Next, UnlockedStep, Unlocked

-----------------------------------------------------------------------------
(* IInv is an invariant, and with it its conjuncts.                        *)
LEMMA Invariance == Spec => []IInv
<1>1. QED
  BY InitIInv, NextKeepsIInv, PTL DEF Spec

(* Every reachable state is well typed, whatever the processes do to the   *)
(* file and to each other's temporary file.  While no command without the  *)
(* lock has written, no reader of the store ever meets a half-written      *)
(* credential file.                                                        *)
THEOREM PublishedFileIsWhole == Spec => []Inv
<1>1. IInv => Inv
  BY DEF IInv, SaveIsPrivate, PublishedIsWhole, Inv
<1>2. QED
  BY <1>1, Invariance, PTL

(* A refresh presents the stored refresh token and only on behalf of the   *)
(* access token its caller resolved: the loser of a race never rotates.    *)
THEOREM LoserTakesOver == Spec => []PresentsWhatIsStored
<1>1. IInv => PresentsWhatIsStored
  BY DEF IInv
<1>2. QED
  BY <1>1, Invariance, PTL

(* What the holder of the lock is saving is honoured by the server: only   *)
(* the holder itself spends a token, and it has done so before.            *)
SavedIsLive ==
    \A p \in Callers : pc[p] \in SavePcs => out[p].refresh \in live

LEMMA SavedStaysLive == IInv /\ SavedIsLive /\ [Next]_vars => SavedIsLive'
<1> SUFFICES ASSUME IInv, SavedIsLive, [Next]_vars,
                    NEW p \in Callers, pc'[p] \in SavePcs
             PROVE  out'[p].refresh \in live'
  BY DEF SavedIsLive
<1> USE RefreshAssumption, StoreAssumption
<1>0. /\ p \in Procs
      /\ pc \in [Procs -> CallPcs \cup {"idle", "login", "delete", "done"}]
      /\ out \in [Procs -> Cred \cup {NoCred}]
  BY DEF Callers, IInv, TypeOK
<1>1. ASSUME pc'[p] = pc[p], out'[p] = out[p], live \subseteq live' PROVE out'[p].refresh \in live'
  BY <1>1 DEF SavedIsLive
<1>2. ASSUME NEW q \in Callers, Step(q) PROVE out'[p].refresh \in live'
  <2>0. q \in Procs
    BY DEF Callers
  <2>1. CASE Answered(q) /\ q = p
    <3>1. PICK r \in Tokens : Issue(p, r) /\ Keep(p, Refreshed(out[p], issued + 1, r))
      BY <2>1 DEF Answered
    <3>2. QED
      BY <1>0, <3>1 DEF Keep, Refreshed, Issue
  <2>2. CASE (Answered(q) \/ AnswerLost(q)) /\ q # p
    <3>1. pc[q] \in LockPcs /\ pc'[p] = pc[p] /\ pc[p] \in LockPcs
      BY <1>0, <2>0, <2>2 DEF Answered, AnswerLost, Goto, LockPcs, SavePcs
    <3>2. QED
      BY <2>2, <3>1, HoldersExclude DEF IInv
  <2>3. CASE AnswerLost(q) /\ q = p
    BY <1>0, <2>3 DEF AnswerLost, Goto, SavePcs
  <2>4. CASE OpenTmp(q) \/ WriteTmp(q) \/ PublishTmp(q)
    <3>1. live' = live /\ out' = out
      BY <2>4 DEF OpenTmp, WriteTmp, PublishTmp, serverVars
    <3>2. pc[p] \in SavePcs
      BY <1>0, <2>0, <2>4 DEF OpenTmp, WriteTmp, PublishTmp, Goto, SavePcs
    <3>3. QED
      BY <3>1, <3>2 DEF SavedIsLive
  <2>5. CASE \/ ResolveToRefresh(q) \/ Lock(q) \/ LockTimeout(q) \/ LoadLocked(q)
             \/ Unanswered(q) \/ Rejected(q) \/ Reread(q) \/ SaveFails(q) \/ Unlock(q)
    <3>1. live' = live /\ (q = p => pc'[p] \notin SavePcs)
      BY <1>0, <2>5 DEF ResolveToRefresh, Lock, LockTimeout, LoadLocked, Unanswered, Rejected,
         Reread, SaveFails, Unlock, Goto, Rest, Leave, SavePcs, serverVars
    <3>2. q # p
      BY <3>1
    <3>3. pc'[p] = pc[p] /\ out'[p] = out[p]
      BY <1>0, <2>0, <2>5, <3>2 DEF ResolveToRefresh, Lock, LockTimeout, LoadLocked, Unanswered,
         Rejected, Reread, SaveFails, Unlock, Goto, Keep
    <3>4. QED
      BY <1>1, <3>1, <3>3
  <2>6. QED
    BY <1>2, <2>1, <2>2, <2>3, <2>4, <2>5 DEF Step
<1>3. ASSUME NEW s \in Sessions, Fresh(s) \/ Adopt(s) \/ Restart(s) PROVE out'[p].refresh \in live'
  <2>1. live' = live /\ (s = p => pc'[p] \notin SavePcs)
    BY <1>0, <1>3 DEF Fresh, Adopt, Restart, Goto, SavePcs, serverVars
  <2>2. pc'[p] = pc[p] /\ out'[p] = out[p]
    BY <1>0, <1>3, <2>1 DEF Fresh, Adopt, Restart, Goto, Keep, Callers
  <2>3. QED
    BY <1>1, <2>1, <2>2
<1>4. ASSUME NEW q \in Unlocked, UnlockedStep(q) PROVE out'[p].refresh \in live'
  <2>1. pc'[p] = pc[p] /\ out'[p] = out[p]
    BY <1>0, <1>4, UnlockedDisturbs DEF IInv
  <2>2. live \subseteq live'
    BY <1>4 DEF UnlockedStep, OpenTmp, WriteTmp, PublishTmp, SaveFails, ResolveToRename, ResolveTo,
       Login, DoLogout, serverVars
  <2>3. QED
    BY <1>1, <2>1, <2>2
<1>5. ASSUME NEW q \in Mortal, Kill(q) PROVE out'[p].refresh \in live'
  <2>1. live' = live /\ q # p
    BY <1>0, <1>5 DEF Kill, Goto, SavePcs, serverVars
  <2>2. pc'[p] = pc[p] /\ out'[p] = out[p]
    BY <1>0, <1>5, <2>1 DEF Kill, Goto, Keep
  <2>3. QED
    BY <1>1, <2>1, <2>2
<1>6. CASE (\E t \in Tokens : Expire(t)) \/ UNCHANGED vars
  BY <1>1, <1>6 DEF Expire, vars
<1>7. QED
  BY <1>2, <1>3, <1>4, <1>5, <1>6 DEF Next, UnlockedStep, Unlocked

LEMMA SavingIsLive == Spec => []SavedIsLive
<1>1. Init => SavedIsLive
  <2> SUFFICES ASSUME Init, NEW p \in Callers PROVE pc[p] \notin SavePcs
    BY DEF SavedIsLive
  <2>1. p \in Procs
    BY RefreshAssumption
  <2>2. QED
    BY <2>1 DEF Init, SavePcs
<1>2. QED
  BY <1>1, SavedStaysLive, Invariance, PTL DEF Spec

(* The steps of the lock's holder.  Between the rotation and the rename    *)
(* the grant is in its hands.                                              *)
LEMMA HolderKeepsGrant ==
    ASSUME IInv, SavedIsLive, NEW p \in Callers, Step(p),
           Quiet, GrantInReach, ~GrantInReach'
    PROVE  lock = p /\ (AnswerLost(p) \/ SaveFails(p))
<1> USE RefreshAssumption, StoreAssumption
<1>0. /\ p \in Procs /\ p # NoProc
      /\ pc \in [Procs -> CallPcs \cup {"idle", "login", "delete", "done"}]
      /\ out \in [Procs -> Cred \cup {NoCred}]
      /\ lock = p <=> pc[p] \in LockPcs
      /\ pc[p] \in SavePcs \cup {"provider"} => lock = p
  BY DEF Callers, IInv, TypeOK, Holders, LockPcs, SavePcs
<1>1. CASE ResolveToRefresh(p) \/ Lock(p) \/ LockTimeout(p)
  <2>1. /\ UNCHANGED <<file, live, out>>
        /\ pc[p] \notin LockPcs
        /\ \A q \in Procs : q # p => pc'[q] = pc[q]
        /\ lock' = lock \/ lock = NoProc
    BY <1>0, <1>1 DEF ResolveToRefresh, Lock, Flock, LockTimeout, Goto, storeVars, serverVars,
       LockPcs
  <2>2. lock \in Procs \cup {NoProc} /\ lock # p
    BY <1>0, <2>1 DEF IInv, Holders
  <2>3. QED
    BY <2>1, <2>2 DEF GrantInReach
<1>2. CASE LoadLocked(p) \/ Unanswered(p) \/ Rejected(p) \/ Reread(p) \/ Unlock(p)
  <2>1. UNCHANGED <<file, live>> /\ pc[p] \in LockPcs /\ pc[p] \notin SavePcs
    BY <1>2 DEF LoadLocked, Unanswered, Rejected, Reread, Unlock, Funlock, storeVars, serverVars,
       LockPcs, SavePcs
  <2>2. file.kind = "whole" /\ file.refresh \in live
    BY <1>0, <2>1 DEF GrantInReach
  <2>3. QED
    BY <2>1, <2>2 DEF GrantInReach
<1>3. CASE Answered(p)
  <2>1. PICK r \in Tokens : Issue(p, r) /\ Keep(p, Refreshed(out[p], issued + 1, r))
    BY <1>3 DEF Answered
  <2>2. out'[p].refresh = r /\ r \in live'
    BY <1>0, <2>1 DEF Keep, Refreshed, Issue
  <2>3. lock' = p /\ pc'[p] = "open"
    BY <1>0, <1>3 DEF Answered, Goto, storeVars, LockPcs
  <2>4. QED
    BY <1>0, <2>2, <2>3 DEF GrantInReach, SavePcs
<1>4. CASE AnswerLost(p)
  BY <1>0, <1>4 DEF AnswerLost
<1>5. CASE SaveFails(p)
  BY <1>0, <1>5 DEF SaveFails, SavePcs
<1>6. CASE OpenTmp(p) \/ WriteTmp(p)
  <2>1. /\ lock = p /\ lock' = p /\ out' = out /\ live' = live
        /\ pc'[p] \in SavePcs
    BY <1>0, <1>6 DEF OpenTmp, Open, WriteTmp, Write, Goto, serverVars, SavePcs
  <2>2. file' = file
    BY <1>0, <1>6 DEF OpenTmp, Open, WriteTmp, Write, IInv, SaveIsPrivate
  <2>3. QED
    BY <1>0, <2>1, <2>2 DEF GrantInReach
<1>7. CASE PublishTmp(p)
  <2>1. file' = Marshal(out[p]) /\ live' = live /\ lock = p
    BY <1>0, <1>7 DEF PublishTmp, Publish, IInv, SaveIsPrivate, serverVars, SavePcs
  <2>2. out[p].refresh \in live
    BY <1>7 DEF SavedIsLive, PublishTmp, SavePcs
  <2>3. QED
    BY <2>1, <2>2 DEF GrantInReach, Marshal
<1>8. QED
  BY <1>1, <1>2, <1>3, <1>4, <1>5, <1>6, <1>7 DEF Step

(* Everybody else leaves the file, the holder and the server's tokens as   *)
(* they are, unless the holder is killed.                                  *)
LEMMA OthersKeepGrant ==
    ASSUME IInv, GrantInReach,
           UNCHANGED <<file, lock>>, live \subseteq live',
           lock # NoProc => pc'[lock] = pc[lock] /\ out'[lock] = out[lock]
    PROVE  GrantInReach'
BY DEF GrantInReach

(* Concurrent refreshes never lose the way back to the OAuth server: only  *)
(* a lost answer, a failed save or a killed process does.                  *)
THEOREM GrantSurvives == Spec => GrantIsKept
<1>1. ASSUME IInv, SavedIsLive, [Next]_vars,
             Quiet, Quiet', GrantInReach, ~GrantInReach'
      PROVE  lock # NoProc /\ (AnswerLost(lock) \/ SaveFails(lock) \/ Kill(lock))
  <2> USE <1>1, RefreshAssumption, StoreAssumption
  <2>0. /\ pc \in [Procs -> CallPcs \cup {"idle", "login", "delete", "done"}]
        /\ out \in [Procs -> Cred \cup {NoCred}]
        /\ lock \in Callers \cup {NoProc}
        /\ lock # NoProc => lock \in Procs /\ lock \notin Unlocked /\ pc[lock] \in LockPcs
    BY DEF IInv, TypeOK, Holders
  <2>1. ASSUME NEW p \in Callers, Step(p)
        PROVE  lock # NoProc /\ (AnswerLost(lock) \/ SaveFails(lock))
    <3>1. lock = p /\ (AnswerLost(p) \/ SaveFails(p)) /\ p # NoProc
      BY <2>1, HolderKeepsGrant
    <3>2. QED
      BY <3>1
  <2>2. ASSUME NEW s \in Sessions, Fresh(s) \/ Adopt(s) \/ Restart(s) PROVE FALSE
    <3>1. UNCHANGED <<file, lock, live>> /\ pc[s] \notin LockPcs
      BY <2>2 DEF Fresh, Adopt, Restart, storeVars, serverVars, LockPcs
    <3>2. lock # NoProc => pc'[lock] = pc[lock] /\ out'[lock] = out[lock]
      BY <2>0, <2>2, <3>1 DEF Fresh, Adopt, Restart, Goto, Keep
    <3>3. QED
      BY <3>1, <3>2, OthersKeepGrant
  <2>3. ASSUME NEW p \in Unlocked, UnlockedStep(p) PROVE FALSE
    <3>1. UNCHANGED storeVars /\ (lock # NoProc => pc'[lock] = pc[lock] /\ out'[lock] = out[lock])
      BY <2>0, <2>3, UnlockedDisturbs DEF IInv
    <3>2. live \subseteq live'
      BY <2>3 DEF UnlockedStep, OpenTmp, WriteTmp, PublishTmp, SaveFails, ResolveToRename,
         ResolveTo, Login, DoLogout, serverVars
    <3>3. QED
      BY <3>1, <3>2, OthersKeepGrant DEF storeVars
  <2>4. ASSUME NEW p \in Mortal, Kill(p) PROVE lock # NoProc /\ Kill(lock)
    <3>1. CASE lock = p
      BY <2>4, <3>1
    <3>2. CASE lock # p
      <4>1. UNCHANGED <<file, lock, live>>
        BY <2>4, <3>2 DEF Kill, Exit, serverVars
      <4>2. lock # NoProc => pc'[lock] = pc[lock] /\ out'[lock] = out[lock]
        BY <2>0, <2>4, <3>2 DEF Kill, Goto, Keep
      <4>3. QED
        BY <4>1, <4>2, OthersKeepGrant
    <3>3. QED
      BY <3>1, <3>2
  <2>5. CASE (\E t \in Tokens : Expire(t)) \/ UNCHANGED vars
    BY <2>5, OthersKeepGrant DEF Expire, storeVars, vars
  <2>6. QED
    BY <2>1, <2>2, <2>3, <2>4, <2>5 DEF Next, UnlockedStep, Unlocked
<1>2. IInv /\ SavedIsLive /\ [Next]_vars =>
        [Quiet /\ Quiet' /\ GrantInReach /\ ~GrantInReach' =>
            lock # NoProc /\ (AnswerLost(lock) \/ SaveFails(lock) \/ Kill(lock))]_vars
  BY <1>1
<1>3. QED
  BY <1>2, Invariance, SavingIsLive, PTL DEF Spec, GrantIsKept

-----------------------------------------------------------------------------
(* Where SetTokens is used the cached expiry belongs to the access token.  *)
ExpiryMovesAlong ==
    /\ \A s \in Sessions : cred[s].exp = cred[s].access
    /\ \A p \in Procs : out[p].exp = out[p].access

LEMMA ExpiryStaysAlong ==
    ASSUME Provider = "grok"
    PROVE  IInv /\ ExpiryMovesAlong /\ [Next]_vars => ExpiryMovesAlong'
<1> SUFFICES ASSUME IInv, ExpiryMovesAlong, [Next]_vars PROVE ExpiryMovesAlong'
  OBVIOUS
<1> USE RefreshAssumption
<1>0. /\ out \in [Procs -> Cred \cup {NoCred}]
      /\ cred \in [Sessions -> Cred]
      /\ NoCred.exp = NoCred.access
      /\ Unmarshal(file).exp = Unmarshal(file).access
  BY DEF IInv, TypeOK, NoCred, Unmarshal
<1>1. ASSUME NEW p \in Callers, Step(p) PROVE ExpiryMovesAlong'
  <2>0. p \in Procs
    BY DEF Callers
  <2>1. CASE Answered(p)
    <3>1. PICK r \in Tokens : Keep(p, Refreshed(out[p], issued + 1, r))
      BY <2>1 DEF Answered
    <3>2. cred' = cred
      BY <2>1 DEF Answered, sessionVars
    <3>3. QED
      BY <1>0, <2>0, <3>1, <3>2 DEF ExpiryMovesAlong, Keep, Refreshed
  <2>2. CASE ~Answered(p)
    <3>1. cred' = cred
      BY <1>1, <2>2 DEF Step, ResolveToRefresh, Lock, LockTimeout, LoadLocked, AnswerLost,
         Unanswered, Rejected, Reread, OpenTmp, WriteTmp, PublishTmp, SaveFails, Unlock, sessionVars
    <3>2. out' = out \/ Keep(p, NoCred) \/ Keep(p, Unmarshal(file))
      BY <1>1, <2>2 DEF Step, ResolveToRefresh, Lock, LockTimeout, LoadLocked, AnswerLost,
         Unanswered, Rejected, Reread, OpenTmp, WriteTmp, PublishTmp, SaveFails, Unlock
    <3>3. QED
      BY <1>0, <2>0, <3>1, <3>2 DEF ExpiryMovesAlong, Keep
  <2>3. QED
    BY <2>1, <2>2
<1>2. ASSUME NEW s \in Sessions, Fresh(s) \/ Adopt(s) \/ Restart(s) PROVE ExpiryMovesAlong'
  <2>1. s \in Procs
    BY DEF Callers
  <2>2. out' = out \/ Keep(s, NoCred)
    BY <1>2 DEF Fresh, Adopt, Restart
  <2>3. \/ cred' = [cred EXCEPT ![s] = Unmarshal(file)]
        \/ cred' = [cred EXCEPT ![s] = out[s]]
        \/ cred' = [cred EXCEPT ![s] = cred[s]]
    BY <1>2 DEF Fresh, Adopt, Restart, Reloaded
  <2>4. QED
    BY <1>0, <2>1, <2>2, <2>3 DEF ExpiryMovesAlong, Keep
<1>3. ASSUME NEW p \in Unlocked, UnlockedStep(p) PROVE ExpiryMovesAlong'
  <2>1. cred' = cred /\ p \in Procs
    BY <1>3 DEF UnlockedStep, OpenTmp, WriteTmp, PublishTmp, SaveFails, ResolveToRename, ResolveTo,
       Login, DoLogout, sessionVars
  <2>2. \/ out' = out \/ Keep(p, NoCred) \/ Keep(p, Unmarshal(file))
        \/ Keep(p, [access |-> issued + 1, refresh |-> issued + 1, exp |-> issued + 1])
    BY <1>3 DEF UnlockedStep, OpenTmp, WriteTmp, PublishTmp, SaveFails, ResolveToRename, ResolveTo,
       Login, DoLogout
  <2>3. QED
    BY <1>0, <2>1, <2>2 DEF ExpiryMovesAlong, Keep
<1>4. ASSUME NEW p \in Mortal, Kill(p) PROVE ExpiryMovesAlong'
  BY <1>0, <1>4 DEF Kill, Keep, sessionVars, ExpiryMovesAlong
<1>5. CASE (\E t \in Tokens : Expire(t)) \/ UNCHANGED vars
  BY <1>5 DEF Expire, vars, sessionVars, ExpiryMovesAlong
<1>6. QED
  BY <1>1, <1>2, <1>3, <1>4, <1>5 DEF Next, UnlockedStep, Unlocked

(* With a provider whose refresh goes through SetTokens a session contacts *)
(* the OAuth server only for an access token that is about to expire.      *)
THEOREM CheapPathOfGrok ==
    ASSUME Provider = "grok"
    PROVE  Spec => CheapPathIsTaken
<1>1. Init => ExpiryMovesAlong
  <2> SUFFICES ASSUME Init PROVE ExpiryMovesAlong
    OBVIOUS
  <2>1. \A s \in Sessions : cred[s].exp = cred[s].access
    BY DEF Init, Unmarshal
  <2>2. \A p \in Procs : out[p].exp = out[p].access
    BY DEF Init, NoCred
  <2>3. QED
    BY <2>1, <2>2 DEF ExpiryMovesAlong
<1>2. ASSUME IInv, ExpiryMovesAlong, [Next]_vars, NEW s \in Sessions,
             pc[s] = "idle", pc'[s] = "resolve"
      PROVE  cred'[s].access \in expired
  <2> USE <1>2, RefreshAssumption
  <2>0. /\ s \in Procs /\ s \notin Unlocked /\ s \in Callers
        /\ pc \in [Procs -> CallPcs \cup {"idle", "login", "delete", "done"}]
        /\ cred \in [Sessions -> Cred]
    BY DEF Callers, IInv, TypeOK
  <2>1. ASSUME NEW p \in Callers, Step(p) PROVE FALSE
    <3>1. pc[p] # "idle" /\ \E l : Goto(p, l)
      BY <2>1 DEF Step, ResolveToRefresh, Lock, LockTimeout, LoadLocked, Answered, AnswerLost,
         Unanswered, Rejected, Reread, OpenTmp, WriteTmp, PublishTmp, SaveFails, Unlock
    <3>2. p # s
      BY <3>1
    <3>3. QED
      BY <2>0, <3>1, <3>2 DEF Goto
  <2>2. ASSUME NEW q \in Sessions, Fresh(q) \/ Adopt(q) \/ Restart(q)
        PROVE  cred'[s].access \in expired
    <3>1. Fresh(s)
      BY <2>0, <2>2 DEF Fresh, Adopt, Restart, Goto
    <3>2. Reloaded(s).exp \in expired /\ cred'[s] = Reloaded(s)
      BY <2>0, <3>1 DEF Fresh
    <3>3. Reloaded(s).exp = Reloaded(s).access
      BY DEF Reloaded, ExpiryMovesAlong, Unmarshal
    <3>4. QED
      BY <3>2, <3>3
  <2>3. ASSUME NEW p \in Unlocked, UnlockedStep(p) PROVE FALSE
    <3>1. pc'[s] = pc[s]
      BY <2>0, <2>3, UnlockedDisturbs DEF IInv
    <3>2. QED
      BY <3>1
  <2>4. ASSUME NEW p \in Mortal, Kill(p) PROVE FALSE
    BY <2>0, <2>4 DEF Kill, Goto
  <2>5. CASE (\E t \in Tokens : Expire(t)) \/ UNCHANGED vars
    BY <2>5 DEF Expire, vars
  <2>6. QED
    BY <2>1, <2>2, <2>3, <2>4, <2>5 DEF Next, UnlockedStep, Unlocked
<1>3. IInv /\ ExpiryMovesAlong /\ [Next]_vars =>
        [\A s \in Sessions :
            pc[s] = "idle" /\ pc'[s] = "resolve" => cred'[s].access \in expired]_vars
  BY <1>2
<1>4. Spec => []ExpiryMovesAlong
  BY <1>1, ExpiryStaysAlong, Invariance, PTL DEF Spec
<1>5. QED
  BY <1>3, <1>4, Invariance, PTL DEF Spec, CheapPathIsTaken
=============================================================================
