------------------------------- MODULE LoginFlow -------------------------------
(***************************************************************************)
(* Logging in: the two dialogs of the dashboard (serve/loginflow.go, the   *)
(* login handlers of serve/web.go) and `ccm login`, `ccm relogin` in the   *)
(* terminal (cmd/login*.go, cmd/relogin.go, credflow/login.go, and the     *)
(* Login of the codex and grok packages).                                  *)
(*                                                                         *)
(* A handshake is a PKCE pair; the user visits its address, perhaps more   *)
(* than once, and each visit yields a code the OAuth server exchanges once *)
(* for a grant.  A grant is named by its handshake and the number of its   *)
(* code.  A file of the store is atomic here (CredStore opens it up).      *)
(***************************************************************************)
EXTENDS Integers, FiniteSets

CONSTANTS
    Dialogs,        \* logins begun in the dashboard, Claude or codex ones
    Requests,       \* finish requests the server may be handling at once
    Runs,           \* processes running `ccm login` or `ccm relogin`
    TTL,            \* loginHandshakeTTL, in ticks of the clock
    MaxCodes,       \* bound: codes the user fetches for one handshake
    Old,            \* the credential that is logged in again
    OldGrant, NoGrant, NoHandshake

Handshakes == Dialogs \cup Runs
Actors == Requests \cup Runs
Grants == Handshakes \X (1..MaxCodes)
Ids == Grants \cup {Old}         \* every login mints a uuid of its own

ASSUME LoginAssumption ==
    /\ TTL \in Nat /\ MaxCodes \in Nat \ {0}
    /\ {Old, OldGrant, NoGrant} \cap Grants = {} /\ OldGrant # NoGrant
    /\ Requests \cap Runs = {} /\ Dialogs \cap Runs = {}
    /\ NoHandshake \notin Handshakes

VARIABLES
    dialog,     \* handshakeStore.entries, codexHandshakeMap.entries
    codes,      \* the OAuth server: codes fetched and spent, by handshake
    actor,      \* the finish requests and the processes
    store,      \* the grant each credential file holds
    lost,       \* grants that a failed save or a kill threw away
    strays      \* minted files a relogin did not get to delete

loginVars == <<dialog, codes, actor, store, lost, strays>>

Actor == [pc : {"idle", "look", "ask", "exchange", "save", "graft", "discard",
                "drop", "ok", "failed"},
          h : Handshakes \cup {NoHandshake}, right : BOOLEAN,
          claude : BOOLEAN, relogin : BOOLEAN, grant : Grants \cup {NoGrant}]
Idle == [pc |-> "idle", h |-> NoHandshake, right |-> FALSE,
         claude |-> FALSE, relogin |-> FALSE, grant |-> NoGrant]

LoginTypeOK ==
    /\ dialog \in [Dialogs -> [at : {"new", "held", "gone"}, claude : BOOLEAN, age : 0..(TTL + 1)]]
    /\ codes \in [Handshakes -> [got : 0..MaxCodes, spent : 0..MaxCodes]]
    /\ actor \in [Actors -> Actor]
    /\ store \in [Ids -> Grants \cup {OldGrant, NoGrant}]
    /\ lost \subseteq Grants /\ strays \subseteq Grants
    /\ \A a \in Actors :
          actor[a].grant # NoGrant <=> actor[a].pc \in {"save", "graft", "discard", "drop"}

LoginInit ==
    /\ dialog = [h \in Dialogs |-> [at |-> "new", claude |-> FALSE, age |-> 0]]
    /\ codes = [h \in Handshakes |-> [got |-> 0, spent |-> 0]]
    /\ actor = [a \in Actors |-> Idle]
    /\ store = [i \in Ids |-> IF i = Old THEN OldGrant ELSE NoGrant]
    /\ lost = {} /\ strays = {}

Doing(a, pc) == actor[a].pc = pc
Proceed(a, pc) == actor' = [actor EXCEPT ![a].pc = pc]
(* A request answers, a process ends.                                      *)
Finish(a, result) ==
    actor' = [actor EXCEPT ![a] = IF a \in Requests THEN Idle
                                  ELSE [Idle EXCEPT !.pc = result, !.relogin = actor[a].relogin]]

-------------------------------------------------------------------------------
(* The dashboard's registries of handshakes.                               *)
Gone(h) == [dialog[h] EXCEPT !.at = "gone", !.age = 0]
Drop(h) == dialog' = [dialog EXCEPT ![h] = Gone(h)]
Young(h) == dialog[h].at = "held" /\ dialog[h].age <= TTL

LoginStart(h, claude) ==
    /\ dialog[h].at = "new"
    /\ dialog' = [dialog EXCEPT ![h].at = "held", ![h].claude = claude]
    /\ UNCHANGED <<codes, actor, store, lost, strays>>

Tick ==
    /\ dialog' = [h \in Dialogs |->
          IF dialog[h].at = "held" /\ dialog[h].age <= TTL
          THEN [dialog[h] EXCEPT !.age = @ + 1] ELSE dialog[h]]
    /\ UNCHANGED <<codes, actor, store, lost, strays>>

(* Mutant: the comparison with the cutoff is turned round.                 *)
SweepYoung ==
    /\ dialog' = [h \in Dialogs |->
          IF dialog[h].claude /\ dialog[h].at = "held" /\ Young(h) THEN Gone(h) ELSE dialog[h]]
    /\ UNCHANGED <<codes, actor, store, lost, strays>>

(* handshakeStore.sweep; codexHandshakeMap has none.                       *)
Sweep ==
    /\ dialog' = [h \in Dialogs |->
          IF dialog[h].claude /\ dialog[h].at = "held" /\ ~Young(h) THEN Gone(h) ELSE dialog[h]]
    /\ UNCHANGED <<codes, actor, store, lost, strays>>

(* The server is stopped and started again: its registries are empty, its  *)
(* requests are cut off.                                                   *)
ServerRestarts ==
    /\ dialog' = [h \in Dialogs |-> IF dialog[h].at = "held" THEN Gone(h) ELSE dialog[h]]
    /\ lost' = lost \cup {g \in Grants : \E k \in Requests : Doing(k, "save") /\ actor[k].grant = g}
    /\ actor' = [a \in Actors |-> IF a \in Requests THEN Idle ELSE actor[a]]
    /\ UNCHANGED <<codes, store, strays>>

-------------------------------------------------------------------------------
(* The user fetches a code while it is asked for (a process asks once),    *)
(* and pastes it or something else.                                        *)
Authorize(h) ==
    /\ IF h \in Runs THEN Doing(h, "ask") /\ codes[h].got = 0
       ELSE dialog[h].at = "held" /\ codes[h].got < MaxCodes
    /\ codes' = [codes EXCEPT ![h].got = @ + 1]
    /\ UNCHANGED <<dialog, actor, store, lost, strays>>

FinishCall(k, h, right) ==
    /\ Doing(k, "idle") /\ dialog[h].at # "new"
    /\ actor' = [actor EXCEPT ![k] = [Idle EXCEPT !.pc = "look", !.h = h, !.right = right]]
    /\ UNCHANGED <<dialog, codes, store, lost, strays>>

(* handshakeStore.Peek leaves the entry, codexHandshakeMap.take does not;  *)
(* both drop one that is too old.                                          *)
Look(k) ==
    /\ Doing(k, "look")
    /\ LET h == actor[k].h IN
       /\ IF Young(h) THEN Proceed(k, "exchange") ELSE Finish(k, "failed")
       /\ IF ~dialog[h].claude \/ ~Young(h) THEN Drop(h) ELSE dialog' = dialog
    /\ UNCHANGED <<codes, store, lost, strays>>

(* `ccm login <provider>`, and `ccm relogin` of the credential Old.        *)
Command(r, claude, relogin) ==
    /\ Doing(r, "idle")
    /\ actor' = [actor EXCEPT ![r] = [Idle EXCEPT !.pc = "ask", !.h = r,
                                        !.claude = claude, !.relogin = relogin]]
    /\ UNCHANGED <<dialog, codes, store, lost, strays>>

(* Nothing pasted, an error in the URL, or a state that does not match     *)
(* ends it; everything else goes to the server.                            *)
Paste(r) ==
    /\ Doing(r, "ask")
    /\ \/ Finish(r, "failed")
       \/ \E right \in BOOLEAN :
             actor' = [actor EXCEPT ![r].pc = "exchange", ![r].right = right]
    /\ UNCHANGED <<dialog, codes, store, lost, strays>>

Unspent(a) == actor[a].right /\ codes[actor[a].h].spent < codes[actor[a].h].got
Spend(a) == codes' = [codes EXCEPT ![actor[a].h].spent = @ + 1]
Grant(a) == <<actor[a].h, codes[actor[a].h].spent + 1>>

(* Where a grant goes first: codex and grok relogins never save it under   *)
(* the minted id.                                                          *)
FirstSave(a) == IF actor[a].relogin /\ ~actor[a].claude THEN "graft" ELSE "save"

(* Mutant: a refused exchange drops the handshake.                         *)
ExchangeDrops(a) ==
    /\ Doing(a, "exchange")
    /\ \/ /\ Finish(a, "failed") /\ codes' = codes
          /\ IF actor[a].h \in Dialogs THEN Drop(actor[a].h) ELSE dialog' = dialog
       \/ /\ Unspent(a) /\ Spend(a) /\ dialog' = dialog
          /\ actor' = [actor EXCEPT ![a].pc = FirstSave(a), ![a].grant = Grant(a)]
    /\ UNCHANGED <<store, lost, strays>>

(* Refused or lost on the way; granted; granted and the answer lost.       *)
Exchange(a) ==
    /\ Doing(a, "exchange")
    /\ \/ Finish(a, "failed") /\ UNCHANGED <<codes, lost>>
       \/ /\ Unspent(a) /\ Spend(a) /\ lost' = lost
          /\ actor' = [actor EXCEPT ![a].pc = FirstSave(a), ![a].grant = Grant(a)]
       \/ Unspent(a) /\ Spend(a) /\ Finish(a, "failed") /\ lost' = lost \cup {Grant(a)}
    /\ UNCHANGED <<dialog, store, strays>>

(* store.Save under the minted id.  A request for a Claude dialog then     *)
(* drops the handshake, saved or not: the code is spent.                   *)
Save(a) ==
    /\ Doing(a, "save")
    /\ LET g == actor[a].grant
           next == CASE a \in Requests /\ dialog[actor[a].h].claude -> "drop"
                     [] actor[a].relogin -> "graft"
                     [] OTHER -> "ok"
       IN \/ /\ store' = [store EXCEPT ![g] = g] /\ lost' = lost
             /\ IF next = "ok" THEN Finish(a, "ok") ELSE Proceed(a, next)
          \/ /\ store' = store /\ lost' = lost \cup {g}
             /\ IF next = "drop" THEN Proceed(a, "drop") ELSE Finish(a, "failed")
    /\ UNCHANGED <<dialog, codes, strays>>

DropHandshake(k) ==
    /\ Doing(k, "drop") /\ Drop(actor[k].h) /\ Finish(k, "ok")
    /\ UNCHANGED <<codes, store, lost, strays>>

(* Mutant: the minted file is deleted whether the save succeeds or not.    *)
GraftAndDiscard(r) ==
    /\ Doing(r, "graft")
    /\ LET g == actor[r].grant IN
       \/ /\ store' = [store EXCEPT ![Old] = g, ![g] = NoGrant]
          /\ Finish(r, "ok") /\ lost' = lost
       \/ /\ store' = [store EXCEPT ![g] = NoGrant] /\ Finish(r, "failed")
          /\ lost' = IF store[g] = g THEN lost ELSE lost \cup {g}
    /\ UNCHANGED <<dialog, codes, strays>>

(* The fresh tokens under the old id.                                      *)
Graft(r) ==
    /\ Doing(r, "graft")
    /\ LET g == actor[r].grant IN
       \/ store' = [store EXCEPT ![Old] = g] /\ Proceed(r, "discard") /\ lost' = lost
       \/ /\ store' = store /\ Finish(r, "failed")
          /\ lost' = IF store[g] = g THEN lost ELSE lost \cup {g}
    /\ UNCHANGED <<dialog, codes, strays>>

(* Mutant: the minted file stays.                                          *)
DiscardNothing(r) ==
    /\ Doing(r, "discard") /\ Finish(r, "ok")
    /\ UNCHANGED <<dialog, codes, store, lost, strays>>

(* "Best-effort": the error of store.Delete is ignored.                    *)
Discard(r) ==
    /\ Doing(r, "discard") /\ Finish(r, "ok")
    /\ LET g == actor[r].grant IN
       \/ store' = [store EXCEPT ![g] = NoGrant] /\ strays' = strays
       \/ store[g] = g /\ store' = store /\ strays' = strays \cup {g}
    /\ UNCHANGED <<dialog, codes, lost>>

CommandKilled(r) ==
    /\ actor[r].pc \in {"ask", "exchange", "save", "graft", "discard"}
    /\ LET g == actor[r].grant IN
       /\ lost' = IF Doing(r, "save") \/ (Doing(r, "graft") /\ store[g] # g)
                  THEN lost \cup {g} ELSE lost
       /\ strays' = IF Doing(r, "discard") /\ store[g] = g THEN strays \cup {g} ELSE strays
    /\ Finish(r, "failed")
    /\ UNCHANGED <<dialog, codes, store>>

-------------------------------------------------------------------------------
LoginNext ==
    \/ \E h \in Dialogs, claude \in BOOLEAN : LoginStart(h, claude)
    \/ \E h \in Handshakes : Authorize(h)
    \/ Tick \/ Sweep \/ ServerRestarts
    \/ \E k \in Requests :
          \/ \E h \in Dialogs, right \in BOOLEAN : FinishCall(k, h, right)
          \/ Look(k) \/ DropHandshake(k)
    \/ \E r \in Runs :
          \/ \E claude, relogin \in BOOLEAN : Command(r, claude, relogin)
          \/ Paste(r) \/ Graft(r) \/ Discard(r) \/ CommandKilled(r)
    \/ \E a \in Actors : Exchange(a) \/ Save(a)

(* The clock runs and the sweeper's ticker fires while the server is up.   *)
LoginSpec == LoginInit /\ [][LoginNext]_loginVars /\ WF_loginVars(Sweep)

-------------------------------------------------------------------------------
(* A grant the server gave is in the store, or about to be saved, unless   *)
(* a save failed, a process was killed or the answer was lost; a relogin   *)
(* alone may replace one.  In particular a relogin that cannot save under  *)
(* the old id leaves the credential its login has saved.                   *)
NoGrantIsLost ==
    \A h \in Handshakes, n \in 1..MaxCodes : n <= codes[h].spent =>
        LET g == <<h, n>> IN
        \/ g \in lost
        \/ \E i \in Ids : store[i] = g
        \/ \E a \in Actors : actor[a].grant = g /\ actor[a].pc \in {"save", "graft"}
        \/ h \in Runs /\ actor[h].relogin /\ store[Old] # OldGrant

(* Two credentials hold one grant (the rotation of either would ruin the   *)
(* other) only while a relogin moves it, or when its clean-up failed.      *)
NoTwins ==
    \A i, j \in Ids : i # j /\ store[i] = store[j] /\ store[i] # NoGrant =>
        \/ store[i] \in strays
        \/ \E r \in Runs : Doing(r, "discard") /\ actor[r].grant = store[i]

(* A codex dialog logs in once, however often it is finished at a time:    *)
(* its handshake is taken, not looked at.                                  *)
CodexLogsInOnce ==
    \A h \in Dialogs : ~dialog[h].claude =>
        \A m, n \in 1..MaxCodes :
            store[<<h, m>>] # NoGrant /\ store[<<h, n>>] # NoGrant => m = n
LoginInv == LoginTypeOK /\ NoTwins /\ CodexLogsInOnce

(* A Claude handshake that is young enough stays for another try as long   *)
(* as no code has been spent on it: "On a pure exchange failure the        *)
(* handshake is retained so the user can fix a typo and retry".            *)
TypoIsForgiven ==
    [][~ServerRestarts => \A h \in Dialogs :
          dialog[h].claude /\ Young(h) /\ codes[h].spent = 0 => dialog'[h].at = "held"]_loginVars

(* An abandoned Claude handshake "doesn't pile up indefinitely".           *)
Expired(h) == dialog[h].at = "held" /\ ~Young(h)
AbandonedGo ==
    \A h \in Dialogs : dialog[h].claude /\ Expired(h) ~> dialog[h].at = "gone"
===============================================================================
