---------------------------- MODULE ActiveBlobProofs ----------------------------
(***************************************************************************)
(* Proofs about ActiveBlob for every number of commands, credentials,      *)
(* accounts and tokens.  Four invariants, each inductive given those       *)
(* before it:                                                              *)
(*   IInv  types, marked logins, what a command has made sure of           *)
(*         (StoreHoldsItsOwn);                                             *)
(*   SInv  where a login without marker may come from, and that an older   *)
(*         ccm's entry meets Migrate first (SnapshotIsTheOriginal);        *)
(*   QInv  the order of the files around a command that runs alone, stage  *)
(*         by stage (LogoutDeactivates);                                   *)
(*   Kept  an honoured token lies in an entry, the backup or the store     *)
(*         (GrantIsKept).                                                  *)
(***************************************************************************)
EXTENDS ActiveBlob, TLAPS

(* A login with ccm's marker has the tokens of the account the credential  *)
(* of that id was made for.  owner is never changed once it is known.      *)
GoodIn(x, own) ==
    /\ x \in Contents
    /\ x.kind \in {"file", "rel"} /\ x.id # NoCred => own[x.id] = x.tok.acct
Marks ==
    /\ GoodIn(path, owner) /\ GoodIn(key, owner) /\ GoodIn(backup, owner)
    /\ \A p \in Procs : GoodIn(held[p], owner)

Known ==
    /\ store \in [Creds -> Tok \cup {NoTok}]
    /\ owner \in [Creds -> Accounts \cup {NoAcct}]
    /\ live \in [Accounts -> 1..MaxVer]

(* What a command has made sure of before it writes to the store.          *)
Naming == {"inspect", "isactive", "activate", "symlink"}
Sure(p) ==
    /\ pc[p] \in Naming => held[p].id \in Creds
    /\ pc[p] = "save" => held[p].id \in Creds /\ held[p].kind \in {"file", "rel"}
    /\ pc[p] = "login" => owner[job[p].cred] \in Accounts
    /\ pc[p] \in {"unlink", "rewrite"} => provider = "codex"
    /\ pc[p] = "rewrite" /\ clean => path.kind # "link"

Control ==
    /\ provider \in Providers /\ home \in {"file", "keychain"}
    /\ sidecar \in Creds \cup {NoCred}
    /\ stub \in {"idle", "write", "written", "compare", "remove"}
    /\ pc \in [Procs -> Pcs]
    /\ job \in [Procs -> [cmd : Commands, cred : Creds, again : BOOLEAN]]
    /\ be \in [Procs -> {"file", "keychain"}]
    /\ clean \in BOOLEAN
    /\ gone \subseteq Accounts

IInv ==
    /\ Control
    /\ Known
    /\ Marks
    /\ held \in [Procs -> Contents]
    /\ \A p \in Procs : Sure(p)
    /\ StoreHoldsItsOwn

-------------------------------------------------------------------------------
(* The values a place may hold.                                            *)
LEMMA Kinds ==
    ASSUME NEW x \in Contents
    PROVE  /\ x.kind \in {"none", "torn", "link", "file", "rel"}
           /\ x.id \in Creds \cup {NoCred}
           /\ x.tok \in Tok \cup {NoTok}
           /\ x.kind \in {"file", "rel"} =>
                 x.tok \in Tok /\ x \in [kind : {"file", "rel"}, id : Creds \cup {NoCred}, tok : Tok]
           /\ x.kind \notin {"file", "rel"} => x.tok = NoTok
           /\ x.kind = "link" => x.id \in Creds
<1>1. CASE x \in {None, Torn}
  BY <1>1 DEF None, Torn
<1>2. CASE x \in {Link(c) : c \in Creds}
  BY <1>2 DEF Link
<1>3. CASE x \in [kind : {"file", "rel"}, id : Creds \cup {NoCred}, tok : Tok]
  BY <1>3
<1> QED
  BY <1>1, <1>2, <1>3 DEF Contents

LEMMA Tokens ==
    /\ NoTok \notin Tok
    /\ \A t \in Tok : t.acct \in Accounts /\ t.ver \in 1..MaxVer
    /\ \A a \in Accounts, v \in 1..MaxVer : [acct |-> a, ver |-> v] \in Tok
<1>1. NoTok \notin Tok
  BY BlobAssumption DEF NoTok, Tok
<1> QED
  BY <1>1 DEF Tok

LEMMA GoodNothing ==
    ASSUME NEW own
    PROVE  GoodIn(None, own) /\ GoodIn(Torn, own)
BY DEF GoodIn, None, Torn, Contents

LEMMA GoodLink ==
    ASSUME NEW own, NEW c \in Creds
    PROVE  GoodIn(Link(c), own)
BY DEF GoodIn, Link, Contents

LEMMA GoodLogin ==
    ASSUME NEW own, NEW c \in Creds \cup {NoCred}, NEW t \in Tok,
           c # NoCred => own[c] = t.acct
    PROVE  GoodIn(Login(c, t), own)
<1>1. Login(c, t) \in Contents
  BY DEF Login, Contents
<1> QED
  BY <1>1 DEF GoodIn, Login

LEMMA LoadableGood ==
    ASSUME Known, NEW c, Loadable(c)
    PROVE  /\ c \in Creds /\ store[c] \in Tok /\ owner[c] \in Accounts /\ owner[c] = store[c].acct
           /\ GoodIn(Login(c, store[c]), owner)
<1>1. c \in Creds /\ store[c] \in Tok /\ owner[c] = store[c].acct
  BY DEF Known, Loadable
<1> QED
  BY <1>1, Tokens, GoodLogin

LEMMA RotatableGood ==
    ASSUME Known, NEW c, Rotatable(c)
    PROVE  /\ c \in Creds /\ owner[c] \in Accounts /\ live[owner[c]] + 1 \in 1..MaxVer
           /\ Rotated(c) \in Tok /\ Rotated(c).acct = owner[c]
           /\ GoodIn(Login(c, Rotated(c)), owner)
<1>1. c \in Creds /\ store[c] \in Tok /\ owner[c] \in Accounts /\ owner[c] = store[c].acct
  BY LoadableGood DEF Rotatable
<1>2. live[owner[c]] \in 1..MaxVer /\ live[owner[c]] < MaxVer /\ store[c].ver = live[owner[c]]
      /\ MaxVer \in Nat
  BY <1>1, BlobAssumption DEF Known, Rotatable
<1>3. live[owner[c]] + 1 \in 1..MaxVer
  BY <1>2
<1>4. Rotated(c) = [acct |-> owner[c], ver |-> live[owner[c]] + 1]
  BY <1>1, <1>2 DEF Rotated, Tok
<1>5. Rotated(c) \in Tok /\ Rotated(c).acct = owner[c]
  BY <1>1, <1>3, <1>4, Tokens
<1> QED
  BY <1>1, <1>3, <1>5, GoodLogin

LEMMA SeenGood ==
    ASSUME Known, NEW x, GoodIn(x, owner)
    PROVE  /\ GoodIn(Seen(x), owner) /\ Seen(x).kind # "link" /\ Seen(x).kind # "rel"
<1>0. x \in Contents
  BY DEF GoodIn
<1>1. CASE x.kind = "link"
  <2>1. x.id \in Creds
    BY <1>0, <1>1, Kinds
  <2>2. CASE store[x.id] = NoTok
    BY <1>1, <2>2, GoodNothing DEF Seen, None
  <2>3. CASE store[x.id] # NoTok
    <3>1. store[x.id] \in Tok
      BY <2>1, <2>3 DEF Known
    <3>2. CASE provider = "codex" /\ Loadable(x.id)
      BY <1>1, <2>3, <3>2, LoadableGood DEF Seen, Login
    <3>3. CASE ~(provider = "codex" /\ Loadable(x.id))
      BY <1>1, <2>3, <3>1, <3>3, GoodLogin DEF Seen, Login
    <3> QED
      BY <3>2, <3>3
  <2> QED
    BY <2>2, <2>3
<1>2. CASE x.kind = "rel"
  <2>1. x \in [kind : {"file", "rel"}, id : Creds \cup {NoCred}, tok : Tok]
    BY <1>0, <1>2, Kinds
  <2>2. Seen(x) = Login(x.id, x.tok)
    BY <1>2, <2>1 DEF Seen, Login
  <2> QED
    BY <1>2, <2>1, <2>2, GoodLogin DEF GoodIn, Login
<1>3. CASE x.kind \notin {"link", "rel"}
  BY <1>3 DEF Seen
<1> QED
  BY <1>1, <1>2, <1>3

LEMMA EntryGood ==
    ASSUME Known, Marks, NEW b
    PROVE  GoodIn(Entry(b), owner)
BY SeenGood DEF Marks, Entry

(* A marked login keeps its account while owner only learns new ids.       *)
LEMMA GoodStays ==
    ASSUME NEW x, NEW own \in [Creds -> Accounts \cup {NoAcct}], NEW own2, GoodIn(x, own),
           \A c \in Creds : own[c] \in Accounts => own2[c] = own[c]
    PROVE  GoodIn(x, own2)
BY Kinds, Tokens DEF GoodIn

LEMMA Moves ==
    ASSUME NEW p \in Procs, NEW l \in Pcs, NEW x \in Contents, Control,
           held \in [Procs -> Contents], Goes(p, l, x)
    PROVE  /\ pc' \in [Procs -> Pcs] /\ held' \in [Procs -> Contents] /\ UNCHANGED <<job, be>>
           /\ pc'[p] = l /\ held'[p] = x
           /\ \A q \in Procs : q # p => pc'[q] = pc[q] /\ held'[q] = held[q]
BY DEF Goes, Goto, Hold, Control

LEMMA Finishes ==
    ASSUME NEW p \in Procs, Control, held \in [Procs -> Contents], Finish(p)
    PROVE  /\ pc' \in [Procs -> Pcs] /\ held' \in [Procs -> Contents]
           /\ job' \in [Procs -> [cmd : Commands, cred : Creds, again : BOOLEAN]]
           /\ be' \in [Procs -> {"file", "keychain"}]
           /\ pc'[p] = "idle" /\ held'[p] = None
           /\ \A q \in Procs : q # p =>
                 pc'[q] = pc[q] /\ held'[q] = held[q] /\ job'[q] = job[q] /\ be'[q] = be[q]
<1>1. NoJob \in [cmd : Commands, cred : Creds, again : BOOLEAN]
  BY BlobAssumption DEF NoJob, Commands
<1>2. None \in Contents /\ "idle" \in Pcs
  BY DEF Contents, Pcs
<1> QED
  BY <1>1, <1>2 DEF Finish, Control

-------------------------------------------------------------------------------
(* What one step of command p may do: its own registers, good places, an   *)
(* owner that only learns, and a store whose entries are their own.        *)
Turn(p) ==
    /\ pc' \in [Procs -> Pcs] /\ held' \in [Procs -> Contents]
    /\ job' \in [Procs -> [cmd : Commands, cred : Creds, again : BOOLEAN]]
    /\ be' \in [Procs -> {"file", "keychain"}]
    /\ \A q \in Procs : q # p => pc'[q] = pc[q] /\ held'[q] = held[q] /\ job'[q] = job[q]
    /\ GoodIn(held'[p], owner)
    /\ pc'[p] \in Naming => held'[p].id \in Creds
    /\ pc'[p] = "save" => held'[p].id \in Creds /\ held'[p].kind \in {"file", "rel"}
    /\ pc'[p] = "login" => owner[job'[p].cred] \in Accounts
    /\ pc'[p] \in {"unlink", "rewrite"} => provider = "codex"
    /\ pc'[p] = "rewrite" => path'.kind # "link"

GoodEntry == GoodIn(path', owner) /\ GoodIn(key', owner)
GoodFiles == GoodEntry /\ GoodIn(backup', owner)
Books ==
    /\ Known' /\ StoreHoldsItsOwn'
    /\ \A c \in Creds : owner[c] \in Accounts => owner'[c] = owner[c]
Clean(p) == clean' \in BOOLEAN /\ (clean' => clean /\ InFlight \subseteq {p})

Outcome(p) ==
    /\ Turn(p) /\ GoodFiles /\ Books /\ Clean(p)
    /\ UNCHANGED <<fixed, stub>>
    /\ sidecar' \in Creds \cup {NoCred} /\ gone' \subseteq Accounts

Calm == Pcs \ (Naming \cup {"save", "login", "unlink", "rewrite"})

LEMMA MovesTurn ==
    ASSUME IInv, NEW p \in Procs, NEW l \in Calm, NEW x, GoodIn(x, owner), Goes(p, l, x)
    PROVE  Turn(p)
<1>1. x \in Contents /\ l \in Pcs
  BY DEF GoodIn, Calm
<1>2. /\ pc' \in [Procs -> Pcs] /\ held' \in [Procs -> Contents] /\ UNCHANGED <<job, be>>
      /\ pc'[p] = l /\ held'[p] = x
      /\ \A q \in Procs : q # p => pc'[q] = pc[q] /\ held'[q] = held[q]
  BY <1>1, Moves DEF IInv
<1>3. l \notin Naming \cup {"save", "login", "unlink", "rewrite"}
  BY DEF Calm
<1> QED
  BY <1>2, <1>3 DEF Turn, IInv, Control

LEMMA NamingTurn ==
    ASSUME IInv, NEW p \in Procs, NEW l \in Naming, NEW x, GoodIn(x, owner), x.id \in Creds,
           Goes(p, l, x)
    PROVE  Turn(p)
<1>1. x \in Contents /\ l \in Pcs /\ l \notin {"save", "login", "unlink", "rewrite"}
  BY DEF GoodIn, Naming, Pcs
<1>2. /\ pc' \in [Procs -> Pcs] /\ held' \in [Procs -> Contents] /\ UNCHANGED <<job, be>>
      /\ pc'[p] = l /\ held'[p] = x
      /\ \A q \in Procs : q # p => pc'[q] = pc[q] /\ held'[q] = held[q]
  BY <1>1, Moves DEF IInv
<1> QED
  BY <1>1, <1>2 DEF Turn, IInv, Control

LEMMA FinishesTurn ==
    ASSUME IInv, NEW p \in Procs, Finish(p)
    PROVE  Turn(p)
<1>1. /\ pc' \in [Procs -> Pcs] /\ held' \in [Procs -> Contents]
      /\ job' \in [Procs -> [cmd : Commands, cred : Creds, again : BOOLEAN]]
      /\ be' \in [Procs -> {"file", "keychain"}]
      /\ pc'[p] = "idle" /\ held'[p] = None
      /\ \A q \in Procs : q # p =>
            pc'[q] = pc[q] /\ held'[q] = held[q] /\ job'[q] = job[q] /\ be'[q] = be[q]
  BY Finishes DEF IInv
<1> QED
  BY <1>1, GoodNothing DEF Turn, Naming

LEMMA AloneClean == ASSUME IInv, NEW p, Alone(p) PROVE Clean(p)
BY DEF Alone, Clean, IInv, Control

LEMMA BooksKept ==
    ASSUME IInv, clean' => clean, UNCHANGED <<provider, known>>
    PROVE  Books
BY DEF IInv, Known, Books, StoreHoldsItsOwn, known

LEMMA FilesKept == ASSUME IInv, UNCHANGED files PROVE GoodFiles
BY DEF IInv, Marks, GoodFiles, GoodEntry, files

LEMMA PutGood ==
    ASSUME IInv, NEW b, NEW x, GoodIn(x, owner), Put(b, x)
    PROVE  GoodEntry
BY DEF IInv, Marks, GoodEntry, Put

(* A command that only looks.                                              *)
LEMMA LookOutcome ==
    ASSUME IInv, NEW p \in Procs, Turn(p), Alone(p), UNCHANGED <<fixed, files, known, stub, gone>>
    PROVE  Outcome(p)
<1>1. Clean(p)
  BY AloneClean
<1>2. Books
  BY <1>1, BooksKept DEF Clean, fixed
<1>3. GoodFiles
  BY FilesKept
<1>4. sidecar' \in Creds \cup {NoCred} /\ gone' \subseteq Accounts
  BY DEF IInv, Control, files
<1> QED
  BY <1>1, <1>2, <1>3, <1>4 DEF Outcome

(* A command that writes the entry, the backup or the sidecar.             *)
LEMMA WriteOutcome ==
    ASSUME IInv, NEW p \in Procs, Turn(p), Alone(p), GoodFiles, UNCHANGED <<fixed, known, stub>>,
           sidecar' \in {sidecar, NoCred}, gone' \subseteq Accounts
    PROVE  Outcome(p)
<1>1. Clean(p)
  BY AloneClean
<1>2. Books
  BY <1>1, BooksKept DEF Clean, fixed
<1>3. sidecar' \in Creds \cup {NoCred}
  BY DEF IInv, Control
<1> QED
  BY <1>1, <1>2, <1>3 DEF Outcome

(* A command that writes the store.                                        *)
LEMMA StoreOutcome ==
    ASSUME IInv, NEW p \in Procs, Turn(p), Clean(p), Books, UNCHANGED <<fixed, files, stub>>,
           gone' \subseteq Accounts
    PROVE  Outcome(p)
<1>1. GoodFiles
  BY FilesKept
<1>2. sidecar' \in Creds \cup {NoCred}
  BY DEF IInv, Control, files
<1> QED
  BY <1>1, <1>2 DEF Outcome

LEMMA BooksRotated ==
    ASSUME IInv, NEW c, Rotatable(c), RotateStored(c), owner' = owner, provider' = provider,
           clean' => clean
    PROVE  Books
<1>1. /\ c \in Creds /\ owner[c] \in Accounts /\ live[owner[c]] + 1 \in 1..MaxVer
      /\ Rotated(c) \in Tok /\ Rotated(c).acct = owner[c]
  BY RotatableGood DEF IInv
<1>2. /\ store' = [store EXCEPT ![c] = Rotated(c)]
      /\ live' = [live EXCEPT ![owner[c]] = live[owner[c]] + 1]
  BY DEF RotateStored
<1>3. Known'
  BY <1>1, <1>2 DEF IInv, Known
<1>4. StoreHoldsItsOwn'
  BY <1>1, <1>2 DEF IInv, Known, StoreHoldsItsOwn
<1> QED
  BY <1>3, <1>4 DEF Books

(* Storing tokens t of the right account under c.                          *)
LEMMA BooksWritten ==
    ASSUME IInv, NEW c \in Creds, NEW t \in Tok \cup {NoTok}, t = NoTok \/ t.acct = owner[c],
           store' = [store EXCEPT ![c] = t], UNCHANGED <<owner, live, provider>>, clean' => clean
    PROVE  Books
BY DEF IInv, Known, StoreHoldsItsOwn, Books

-------------------------------------------------------------------------------
(* The outcome of every action of a command.                               *)

LEMMA BeginOutcome ==
    ASSUME IInv, NEW p \in Procs, NEW cmd \in Commands, NEW c \in Creds, Begin(p, cmd, c)
    PROVE  Outcome(p)
<1>1. /\ job' = [job EXCEPT ![p] = [cmd |-> cmd, cred |-> c, again |-> FALSE]]
      /\ be' = [be EXCEPT ![p] = Probe] /\ held' = held
      /\ pc' = [pc EXCEPT ![p] = IF provider = "claude" THEN "migrate" ELSE "run"]
      /\ Alone(p) /\ UNCHANGED <<fixed, files, known, stub, gone>>
  BY DEF Begin, Goto
<1>2. Probe \in {"file", "keychain"}
  BY DEF Probe
<1>3. [cmd |-> cmd, cred |-> c, again |-> FALSE] \in [cmd : Commands, cred : Creds, again : BOOLEAN]
  OBVIOUS
<1>4. (IF provider = "claude" THEN "migrate" ELSE "run") \in Calm
  BY DEF Calm, Naming, Pcs
<1>5. /\ job' \in [Procs -> [cmd : Commands, cred : Creds, again : BOOLEAN]]
      /\ be' \in [Procs -> {"file", "keychain"}]
      /\ pc' \in [Procs -> Pcs] /\ pc'[p] \in Calm
      /\ \A q \in Procs : q # p => pc'[q] = pc[q] /\ held'[q] = held[q] /\ job'[q] = job[q]
  BY <1>1, <1>2, <1>3, <1>4 DEF IInv, Control, Calm
<1>6. Turn(p)
  BY <1>1, <1>5 DEF Turn, IInv, Marks, Calm, Naming
<1> QED
  BY <1>1, <1>6, LookOutcome

LEMMA MigrateOutcome ==
    ASSUME IInv, NEW p \in Procs, Migrate(p)
    PROVE  Outcome(p)
<1> DEFINE write == Active(be[p]) = NoCred /\ Loadable(Legacy)
           x == IF write THEN Login(Legacy, store[Legacy]) ELSE None
<1>1. Goes(p, "cleanup", x) /\ Alone(p) /\ UNCHANGED <<fixed, backup, sidecar, known, stub>>
  BY DEF Migrate, Goes, Goto
<1>2. GoodIn(x, owner)
  BY LoadableGood, GoodNothing DEF IInv
<1>3. Turn(p)
  BY <1>1, <1>2, MovesTurn DEF Calm, Naming, Pcs
<1>4. GoodEntry
  <2>1. CASE write
    BY <1>2, <2>1, PutGood DEF Migrate
  <2>2. CASE Put("file", Seen(path))
    BY <2>2, SeenGood, PutGood DEF IInv, Marks
  <2>3. CASE UNCHANGED entryVars
    BY <2>3 DEF entryVars, IInv, Marks, GoodEntry
  <2> QED
    BY <2>1, <2>2, <2>3 DEF Migrate
<1>5. gone' \subseteq Accounts
  <2>1. Entry(be[p]).tok.acct \in Accounts \cup {NoAcct}
    <3>1. Entry(be[p]).tok \in Tok \cup {NoTok}
      BY EntryGood, Kinds DEF IInv, GoodIn
    <3> QED
      BY <3>1, Tokens DEF NoTok
  <2>2. gone' = gone \/ gone' = gone \cup ({Entry(be[p]).tok.acct} \ {NoAcct})
    BY DEF Migrate
  <2> QED
    BY <2>1, <2>2 DEF IInv, Control
<1>6. GoodFiles
  BY <1>1, <1>4 DEF GoodFiles, IInv, Marks
<1> QED
  BY <1>1, <1>3, <1>5, <1>6, WriteOutcome

LEMMA CleanupOutcome ==
    ASSUME IInv, NEW p \in Procs, Cleanup(p)
    PROVE  Outcome(p)
<1>1. /\ Goes(p, "read", None) /\ Alone(p) /\ sidecar' = NoCred /\ path' \in {path, None}
      /\ UNCHANGED <<fixed, key, backup, known, stub, gone>>
  BY DEF Cleanup
<1>2. Turn(p)
  BY <1>1, GoodNothing, MovesTurn DEF Calm, Naming, Pcs
<1>3. GoodFiles /\ gone' \subseteq Accounts
  BY <1>1, GoodNothing DEF GoodFiles, GoodEntry, IInv, Marks, Control
<1> QED
  BY <1>1, <1>2, <1>3, WriteOutcome

LEMMA SyncReadOutcome ==
    ASSUME IInv, NEW p \in Procs, SyncRead(p)
    PROVE  Outcome(p)
<1>1. Turn(p)
  <2>1. CASE Goes(p, "load", Entry(be[p]))
    BY <2>1, EntryGood, MovesTurn DEF Calm, Naming, Pcs, IInv
  <2>2. CASE Goes(p, "run", None)
    BY <2>2, GoodNothing, MovesTurn DEF Calm, Naming, Pcs
  <2> QED
    BY <2>1, <2>2, FinishesTurn DEF SyncRead
<1> QED
  BY <1>1, LookOutcome DEF SyncRead

LEMMA SyncLoadOutcome ==
    ASSUME IInv, NEW p \in Procs, SyncLoad(p)
    PROVE  Outcome(p)
<1>1. Turn(p)
  <2>1. CASE /\ Loadable(held[p].id) /\ held[p].tok.ver > store[held[p].id].ver
             /\ Goes(p, "save", held[p])
    <3>1. held[p] \in Contents /\ GoodIn(held[p], owner)
      BY DEF IInv, Marks, GoodIn
    <3>2. held[p].id \in Creds /\ store[held[p].id].ver \in 1..MaxVer
      BY <2>1, LoadableGood, Tokens DEF IInv
    <3>3. held[p].kind \in {"file", "rel"}
      <4>1. held[p].tok = NoTok => held[p].tok.ver = 0
        BY DEF NoTok
      <4>2. held[p].tok # NoTok
        BY <2>1, <3>2, <4>1, BlobAssumption
      <4> QED
        BY <3>1, <4>2, Kinds
    <3>4. /\ pc' \in [Procs -> Pcs] /\ held' \in [Procs -> Contents] /\ UNCHANGED <<job, be>>
          /\ pc'[p] = "save" /\ held'[p] = held[p]
          /\ \A q \in Procs : q # p => pc'[q] = pc[q] /\ held'[q] = held[q]
      BY <2>1, <3>1, Moves DEF IInv, Pcs
    <3> QED
      BY <3>1, <3>2, <3>3, <3>4 DEF Turn, IInv, Control, Naming
  <2>2. CASE Goes(p, "run", None)
    BY <2>2, GoodNothing, MovesTurn DEF Calm, Naming, Pcs
  <2> QED
    BY <2>1, <2>2, FinishesTurn DEF SyncLoad
<1> QED
  BY <1>1, LookOutcome DEF SyncLoad

LEMMA SyncSaveOutcome ==
    ASSUME IInv, NEW p \in Procs, SyncSave(p)
    PROVE  Outcome(p)
<1>1. Turn(p)
  <2>1. CASE Goes(p, "run", None)
    BY <2>1, GoodNothing, MovesTurn DEF Calm, Naming, Pcs
  <2> QED
    BY <2>1, FinishesTurn DEF SyncSave
<1>2. Clean(p)
  BY AloneClean DEF SyncSave
<1>3. held[p].id \in Creds /\ held[p].tok \in Tok /\ held[p].tok.acct = owner[held[p].id]
  <2>1. held[p].id \in Creds /\ held[p].kind \in {"file", "rel"} /\ GoodIn(held[p], owner)
    BY DEF SyncSave, IInv, Sure, Marks
  <2> QED
    BY <2>1, Kinds, BlobAssumption DEF GoodIn
<1>4. Books
  BY <1>2, <1>3, BooksWritten DEF SyncSave, Clean, fixed
<1> QED
  BY <1>1, <1>2, <1>4, StoreOutcome DEF SyncSave, IInv, Control

-------------------------------------------------------------------------------
(* The commands themselves.                                                *)

LEMMA FailOutcome ==
    ASSUME IInv, NEW p \in Procs, NEW cmd, Fail(p, cmd)
    PROVE  Outcome(p)
BY FinishesTurn, LookOutcome DEF Fail

LEMMA UseSyncAgainOutcome ==
    ASSUME IInv, NEW p \in Procs, UseSyncAgain(p)
    PROVE  Outcome(p)
<1>1. /\ job' = [job EXCEPT ![p] = [job[p] EXCEPT !.again = TRUE]]
      /\ pc' = [pc EXCEPT ![p] = "migrate"] /\ UNCHANGED <<be, held>>
  BY DEF UseSyncAgain, Goto
<1>2. [job[p] EXCEPT !.again = TRUE] \in [cmd : Commands, cred : Creds, again : BOOLEAN]
  BY DEF IInv, Control
<1>3. /\ job' \in [Procs -> [cmd : Commands, cred : Creds, again : BOOLEAN]]
      /\ pc' \in [Procs -> Pcs] /\ pc'[p] = "migrate"
      /\ \A q \in Procs : q # p => pc'[q] = pc[q] /\ held'[q] = held[q] /\ job'[q] = job[q]
  BY <1>1, <1>2 DEF IInv, Control, Pcs
<1>4. Turn(p)
  BY <1>1, <1>3 DEF Turn, IInv, Control, Marks, Naming
<1> QED
  BY <1>4, LookOutcome DEF UseSyncAgain

LEMMA UseResolveOutcome ==
    ASSUME IInv, NEW p \in Procs, UseResolve(p)
    PROVE  Outcome(p)
<1> DEFINE c == job[p].cred
<1>1. Loadable(c) /\ Alone(p) /\ UNCHANGED <<fixed, files, owner, stub, gone>>
  BY DEF UseResolve
<1>2. Clean(p)
  BY <1>1, AloneClean
<1>3. CASE Goes(p, "inspect", Login(c, store[c])) /\ UNCHANGED <<store, live>>
  <2>1. Turn(p)
    BY <1>1, <1>3, LoadableGood, NamingTurn DEF IInv, Naming, Login
  <2> QED
    BY <1>1, <1>3, <2>1, LookOutcome DEF known
<1>4. CASE Rotatable(c) /\ RotateStored(c) /\ Goes(p, "inspect", Login(c, Rotated(c)))
  <2>1. Turn(p)
    BY <1>4, RotatableGood, NamingTurn DEF IInv, Naming, Login
  <2>2. Books
    BY <1>1, <1>2, <1>4, BooksRotated DEF Clean, fixed
  <2> QED
    BY <1>1, <1>2, <2>1, <2>2, StoreOutcome DEF IInv, Control
<1> QED
  BY <1>3, <1>4 DEF UseResolve

LEMMA InspectOutcome ==
    ASSUME IInv, NEW p \in Procs, Inspect(p)
    PROVE  Outcome(p)
<1>1. /\ pc' = [pc EXCEPT ![p] = "activate"] /\ Alone(p)
      /\ backup' \in {Entry(be[p]), backup}
      /\ UNCHANGED <<fixed, entryVars, sidecar, known, stub, workVars, gone>>
  BY DEF Inspect, Goto
<1>2. /\ pc' \in [Procs -> Pcs] /\ pc'[p] = "activate"
      /\ \A q \in Procs : q # p => pc'[q] = pc[q]
  BY <1>1 DEF IInv, Control, Pcs
<1>3. Turn(p)
  <2>1. held[p].id \in Creds
    BY DEF Inspect, IInv, Sure, Naming
  <2> QED
    BY <1>1, <1>2, <2>1 DEF Turn, workVars, IInv, Control, Marks
<1>4. GoodFiles
  BY <1>1, EntryGood DEF GoodFiles, GoodEntry, entryVars, IInv, Marks
<1> QED
  BY <1>1, <1>3, <1>4, WriteOutcome DEF IInv, Control

LEMMA ActivateOutcome ==
    ASSUME IInv, NEW p \in Procs, Activate(p)
    PROVE  Outcome(p)
<1>0. GoodIn(held[p], owner) /\ held[p].id \in Creds
  BY DEF Activate, IInv, Marks, Sure, Naming
<1>1. Turn(p)
  BY <1>0, NamingTurn, FinishesTurn DEF Activate, Naming
<1>2. GoodEntry
  BY <1>0, PutGood, GoodNothing DEF Activate, GoodEntry, IInv, Marks
<1> QED
  BY <1>1, <1>2, WriteOutcome DEF Activate, GoodFiles, IInv, Marks, Control

LEMMA SymlinkOutcome ==
    ASSUME IInv, NEW p \in Procs, Symlink(p)
    PROVE  Outcome(p)
<1>1. Turn(p)
  BY FinishesTurn DEF Symlink
<1>2. GoodIn(path', owner)
  <2>1. held[p].id \in Creds
    BY DEF Symlink, IInv, Sure, Naming
  <2> QED
    BY <2>1, GoodLink DEF Symlink, IInv, Marks
<1> QED
  BY <1>1, <1>2, WriteOutcome DEF Symlink, GoodFiles, GoodEntry, IInv, Marks, Control

LEMMA RefreshOutcome ==
    ASSUME IInv, NEW p \in Procs, Refresh(p)
    PROVE  Outcome(p)
<1> DEFINE c == job[p].cred
<1>1. Alone(p) /\ UNCHANGED <<fixed, files, owner, stub, gone>>
  BY DEF Refresh
<1>2. Clean(p)
  BY <1>1, AloneClean
<1>3. CASE Rotatable(c) /\ RotateStored(c) /\ Goes(p, "isactive", Login(c, Rotated(c)))
  <2>1. Turn(p)
    BY <1>3, RotatableGood, NamingTurn DEF IInv, Naming, Login
  <2>2. Books
    BY <1>1, <1>2, <1>3, BooksRotated DEF Clean, fixed
  <2> QED
    BY <1>1, <1>2, <2>1, <2>2, StoreOutcome DEF IInv, Control
<1>4. CASE Rotatable(c) /\ RotateStored(c) /\ Finish(p)
  <2>2. Books
    BY <1>1, <1>2, <1>4, BooksRotated DEF Clean, fixed
  <2> QED
    BY <1>1, <1>2, <1>4, <2>2, FinishesTurn, StoreOutcome DEF IInv, Control
<1>5. CASE Finish(p) /\ UNCHANGED <<store, live>>
  BY <1>1, <1>5, FinishesTurn, LookOutcome DEF known
<1> QED
  BY <1>3, <1>4, <1>5 DEF Refresh

LEMMA ReloginOutcome ==
    ASSUME IInv, NEW p \in Procs, Relogin(p)
    PROVE  Outcome(p)
<1>1. Goes(p, "login", None) /\ Loadable(job[p].cred)
  BY DEF Relogin
<1>2. owner[job[p].cred] \in Accounts
  BY <1>1, LoadableGood DEF IInv
<1>3. /\ pc' \in [Procs -> Pcs] /\ held' \in [Procs -> Contents] /\ UNCHANGED <<job, be>>
      /\ pc'[p] = "login" /\ held'[p] = None
      /\ \A q \in Procs : q # p => pc'[q] = pc[q] /\ held'[q] = held[q]
  BY <1>1, Moves, GoodNothing DEF IInv, Pcs, GoodIn
<1>4. Turn(p)
  BY <1>2, <1>3, GoodNothing DEF Turn, IInv, Control, Naming
<1> QED
  BY <1>4, LookOutcome DEF Relogin

LEMMA ReloginSaveOutcome ==
    ASSUME IInv, NEW p \in Procs, ReloginSave(p)
    PROVE  Outcome(p)
<1> DEFINE c == job[p].cred
           a == owner[c]
           t == [acct |-> a, ver |-> live[a] + 1]
<1>1. Alone(p) /\ UNCHANGED <<fixed, files, owner, stub, gone>>
  BY DEF ReloginSave
<1>2. Clean(p)
  BY <1>1, AloneClean
<1>3. CASE /\ live[a] < MaxVer /\ live' = [live EXCEPT ![a] = live[a] + 1]
           /\ store' = [store EXCEPT ![c] = t]
           /\ Goes(p, "isactive", Login(c, t))
  <2>1. c \in Creds /\ a \in Accounts
    BY DEF ReloginSave, IInv, Control, Sure
  <2>2. live[a] + 1 \in 1..MaxVer
    <3>1. live[a] \in 1..MaxVer /\ MaxVer \in Nat
      BY <2>1, BlobAssumption DEF IInv, Known
    <3> QED
      BY <1>3, <3>1
  <2>3. t \in Tok /\ t.acct = a
    BY <2>1, <2>2, Tokens
  <2>4. Turn(p)
    BY <1>3, <2>1, <2>3, GoodLogin, NamingTurn DEF Naming, Login
  <2>5. Known' /\ StoreHoldsItsOwn'
    <3> HIDE DEF c, a, t
    <3>1. Known'
      BY <1>1, <1>3, <2>1, <2>2, <2>3 DEF IInv, Known
    <3>2. provider' = provider /\ (clean' => clean)
      BY <1>1, <1>2 DEF Clean, fixed
    <3>3. owner[c] = a
      BY DEF c, a
    <3>4. StoreHoldsItsOwn'
      BY <1>1, <1>3, <2>1, <2>3, <3>2, <3>3 DEF IInv, Known, StoreHoldsItsOwn
    <3> QED
      BY <3>1, <3>4
  <2>6. Books
    BY <1>1, <2>5 DEF Books
  <2> QED
    BY <1>1, <1>2, <2>4, <2>6, StoreOutcome DEF IInv, Control
<1>4. CASE Finish(p) /\ UNCHANGED <<live, store>>
  BY <1>1, <1>4, FinishesTurn, LookOutcome DEF known
<1> QED
  BY <1>3, <1>4 DEF ReloginSave

LEMMA IsActiveOutcome ==
    ASSUME IInv, NEW p \in Procs, IsActive(p)
    PROVE  Outcome(p)
<1>0. GoodIn(held[p], owner) /\ held[p].id \in Creds
  BY DEF IsActive, IInv, Marks, Sure, Naming
<1>1. Turn(p)
  BY <1>0, NamingTurn, FinishesTurn DEF IsActive, Naming
<1> QED
  BY <1>1, LookOutcome DEF IsActive

-------------------------------------------------------------------------------
(* Restore and logout.                                                     *)

LEMMA LeftTurn ==
    ASSUME IInv, NEW p \in Procs, Left(p)
    PROVE  Turn(p)
BY GoodNothing, MovesTurn, FinishesTurn DEF Left, Calm, Naming, Pcs

(* The codex branch of Restore and Logout, which goes for the symlink.     *)
LEMMA UnlinkTurn ==
    ASSUME IInv, NEW p \in Procs, provider = "codex", Goes(p, "unlink", backup)
    PROVE  Turn(p)
<1>1. backup \in Contents /\ GoodIn(backup, owner)
  BY DEF IInv, Marks, GoodIn
<1>2. /\ pc' \in [Procs -> Pcs] /\ held' \in [Procs -> Contents] /\ UNCHANGED <<job, be>>
      /\ pc'[p] = "unlink" /\ held'[p] = backup
      /\ \A q \in Procs : q # p => pc'[q] = pc[q] /\ held'[q] = held[q]
  BY <1>1, Moves DEF IInv, Pcs
<1> QED
  BY <1>1, <1>2 DEF Turn, IInv, Control, Naming

LEMMA ProviderIs == IInv => provider \in {"claude", "codex"}
BY BlobAssumption DEF IInv, Control

LEMMA RestoreBeginOutcome ==
    ASSUME IInv, NEW p \in Procs, RestoreBegin(p)
    PROVE  Outcome(p)
<1>1. Turn(p)
  <2>1. CASE Goes(p, "managed", None)
    BY <2>1, GoodNothing, MovesTurn DEF Calm, Naming, Pcs
  <2> QED
    BY <2>1, FinishesTurn, UnlinkTurn, ProviderIs DEF RestoreBegin
<1> QED
  BY <1>1, LookOutcome DEF RestoreBegin

LEMMA RestoreManagedOutcome ==
    ASSUME IInv, NEW p \in Procs, RestoreManaged(p)
    PROVE  Outcome(p)
<1>1. Turn(p)
  <2>1. CASE Goes(p, "clear", None)
    BY <2>1, GoodNothing, MovesTurn DEF Calm, Naming, Pcs
  <2>2. CASE Goes(p, "putback", backup)
    BY <2>2, MovesTurn DEF Calm, Naming, Pcs, IInv, Marks
  <2> QED
    BY <2>1, <2>2, LeftTurn DEF RestoreManaged
<1> QED
  BY <1>1, LookOutcome DEF RestoreManaged

LEMMA PutBackOutcome ==
    ASSUME IInv, NEW p \in Procs, PutBack(p)
    PROVE  Outcome(p)
<1>1. Turn(p)
  BY GoodNothing, MovesTurn DEF PutBack, Calm, Naming, Pcs
<1>2. GoodEntry
  BY PutGood DEF PutBack, IInv, Marks
<1> QED
  BY <1>1, <1>2, WriteOutcome DEF PutBack, GoodFiles, IInv, Marks, Control

LEMMA RemoveBackupOutcome ==
    ASSUME IInv, NEW p \in Procs, RemoveBackup(p)
    PROVE  Outcome(p)
<1>1. Turn(p)
  BY LeftTurn DEF RemoveBackup
<1> QED
  BY <1>1, GoodNothing, WriteOutcome
     DEF RemoveBackup, GoodFiles, GoodEntry, entryVars, IInv, Marks, Control

LEMMA ClearOutcome ==
    ASSUME IInv, NEW p \in Procs, Clear(p)
    PROVE  Outcome(p)
<1>1. Turn(p)
  BY LeftTurn DEF Clear
<1>2. GoodEntry
  BY GoodNothing, PutGood DEF Clear
<1> QED
  BY <1>1, <1>2, WriteOutcome DEF Clear, GoodFiles, IInv, Marks, Control

LEMMA UnlinkOutcome ==
    ASSUME IInv, NEW p \in Procs, Unlink(p)
    PROVE  Outcome(p)
<1>1. held[p] \in Contents /\ GoodIn(held[p], owner) /\ provider = "codex"
  BY DEF Unlink, IInv, Marks, GoodIn, Sure
<1>2. /\ pc' \in [Procs -> Pcs] /\ held' \in [Procs -> Contents] /\ UNCHANGED <<job, be>>
      /\ pc'[p] = "rewrite" /\ held'[p] = held[p]
      /\ \A q \in Procs : q # p => pc'[q] = pc[q] /\ held'[q] = held[q]
  BY <1>1, Moves DEF Unlink, IInv, Pcs
<1>3. path' = None /\ None.kind # "link"
  BY DEF Unlink, None
<1>4. Turn(p)
  BY <1>1, <1>2, <1>3 DEF Turn, IInv, Control, Naming
<1> QED
  BY <1>4, GoodNothing, WriteOutcome
     DEF Unlink, GoodFiles, GoodEntry, IInv, Marks, Control

(* A rewrite that follows a symlink needs a second command, so it is not   *)
(* clean.                                                                  *)
LEMMA RewriteOutcome ==
    ASSUME IInv, NEW p \in Procs, Rewrite(p)
    PROVE  Outcome(p)
<1>1. Turn(p)
  BY LeftTurn DEF Rewrite
<1>2. Clean(p)
  BY AloneClean DEF Rewrite
<1>3. provider = "codex" /\ provider' = provider /\ (clean => path.kind # "link")
  BY DEF Rewrite, IInv, Sure, fixed
<1>4. CASE path.kind = "link"
  <2>1. path.id \in Creds /\ held[p].tok \in Tok \cup {NoTok}
    BY <1>4, Kinds DEF IInv, Marks, GoodIn
  <2>2. Known'
    BY <1>4, <2>1 DEF Rewrite, IInv, Known
  <2>3. StoreHoldsItsOwn'
    BY <1>2, <1>3, <1>4 DEF Clean, StoreHoldsItsOwn
  <2>4. Books
    BY <2>2, <2>3 DEF Rewrite, Books
  <2>5. GoodFiles
    BY <1>4, FilesKept DEF Rewrite, files
  <2> QED
    BY <1>1, <1>2, <2>4, <2>5 DEF Rewrite, Outcome, IInv, Control
<1>5. CASE path.kind # "link"
  <2>1. path' = held[p] /\ UNCHANGED <<fixed, key, backup, sidecar, known, stub, gone>> /\ Alone(p)
    BY <1>5 DEF Rewrite, known
  <2>2. GoodFiles
    BY <2>1 DEF GoodFiles, GoodEntry, IInv, Marks
  <2> QED
    BY <1>1, <2>1, <2>2, WriteOutcome DEF IInv, Control
<1> QED
  BY <1>4, <1>5

LEMMA LogoutOutcome ==
    ASSUME IInv, NEW p \in Procs, Logout(p)
    PROVE  Outcome(p)
<1>1. Turn(p)
  <2>1. CASE Goes(p, "managed", None)
    BY <2>1, GoodNothing, MovesTurn DEF Calm, Naming, Pcs
  <2>2. CASE Goes(p, "delete", None)
    BY <2>2, GoodNothing, MovesTurn DEF Calm, Naming, Pcs
  <2> QED
    BY <2>1, <2>2, UnlinkTurn, ProviderIs DEF Logout
<1> QED
  BY <1>1, LookOutcome DEF Logout

LEMMA DeleteOutcome ==
    ASSUME IInv, NEW p \in Procs, Delete(p)
    PROVE  Outcome(p)
<1>1. Turn(p)
  BY FinishesTurn DEF Delete
<1>2. Clean(p)
  BY AloneClean DEF Delete
<1>3. job[p].cred \in Creds
  BY DEF IInv, Control
<1>4. Books
  BY <1>2, <1>3, BooksWritten DEF Delete, Clean, fixed
<1>5. gone' \subseteq Accounts
  BY <1>3 DEF Delete, IInv, Control, Known
<1> QED
  BY <1>1, <1>2, <1>4, <1>5, StoreOutcome DEF Delete

LEMMA BackupOutcome ==
    ASSUME IInv, NEW p \in Procs, Backup(p)
    PROVE  Outcome(p)
<1>1. CASE /\ job' = [job EXCEPT ![p].again = TRUE]
           /\ Goto(p, "migrate") /\ UNCHANGED <<be, held>>
  <2>1. /\ job' = [job EXCEPT ![p] = [job[p] EXCEPT !.again = TRUE]]
        /\ pc' = [pc EXCEPT ![p] = "migrate"] /\ UNCHANGED <<be, held>>
    BY <1>1 DEF Goto
  <2>2. [job[p] EXCEPT !.again = TRUE] \in [cmd : Commands, cred : Creds, again : BOOLEAN]
    BY DEF IInv, Control
  <2>3. /\ job' \in [Procs -> [cmd : Commands, cred : Creds, again : BOOLEAN]]
        /\ pc' \in [Procs -> Pcs] /\ pc'[p] = "migrate"
        /\ \A q \in Procs : q # p => pc'[q] = pc[q] /\ held'[q] = held[q] /\ job'[q] = job[q]
    BY <2>1, <2>2 DEF IInv, Control, Pcs
  <2>4. Turn(p)
    BY <2>1, <2>3 DEF Turn, IInv, Control, Marks, Naming
  <2> QED
    BY <2>4, LookOutcome DEF Backup
<1>2. CASE Finish(p)
  BY <1>2, FinishesTurn, LookOutcome DEF Backup
<1>3. CASE Goes(p, "import", Entry(be[p]))
  <2>1. Turn(p)
    BY <1>3, EntryGood, MovesTurn DEF IInv, Calm, Naming, Pcs
  <2> QED
    BY <2>1, LookOutcome DEF Backup
<1> QED
  BY <1>1, <1>2, <1>3 DEF Backup

LEMMA ImportOutcome ==
    ASSUME IInv, NEW p \in Procs, Import(p)
    PROVE  Outcome(p)
<1>1. Turn(p)
  BY FinishesTurn DEF Import
<1>2. Clean(p)
  BY AloneClean DEF Import
<1>3. PICK c \in Fresh : /\ owner[c] = NoAcct
                         /\ store' = [store EXCEPT ![c] = held[p].tok]
                         /\ owner' = [owner EXCEPT ![c] = held[p].tok.acct]
  BY DEF Import
<1>4. c \in Creds /\ NoAcct \notin Accounts
  BY BlobAssumption
<1>5. held[p].tok \in Tok \cup {NoTok} /\ held[p].tok.acct \in Accounts \cup {NoAcct}
  <2>1. held[p].tok \in Tok \cup {NoTok}
    BY Kinds DEF IInv
  <2> QED
    BY <2>1, Tokens DEF NoTok
<1>6. Known'
  BY <1>3, <1>4, <1>5 DEF Import, IInv, Known
<1>7. StoreHoldsItsOwn'
  <2>1. provider' = provider /\ (clean' => clean)
    BY <1>2 DEF Import, Clean, fixed
  <2> QED
    BY <1>3, <1>4, <2>1 DEF IInv, Known, StoreHoldsItsOwn
<1>8. \A d \in Creds : owner[d] \in Accounts => owner'[d] = owner[d]
  BY <1>3, <1>4 DEF IInv, Known
<1> QED
  BY <1>1, <1>2, <1>6, <1>7, <1>8, StoreOutcome DEF Import, Books, IInv, Control

LEMMA KillOutcome ==
    ASSUME IInv, NEW p \in Procs, Kill(p)
    PROVE  Outcome(p)
<1>1. Turn(p)
  BY FinishesTurn DEF Kill
<1>2. GoodFiles
  BY GoodNothing DEF Kill, GoodFiles, GoodEntry, IInv, Marks
<1>3. Clean(p)
  BY DEF Kill, Clean
<1>4. Books
  BY <1>3, BooksKept DEF Kill, Clean, fixed
<1> QED
  BY <1>1, <1>2, <1>3, <1>4 DEF Kill, Outcome, IInv, Control

-------------------------------------------------------------------------------
(* Every command, everybody else, and the start.                           *)

LEMMA CommandOutcome ==
    ASSUME IInv, NEW p \in Procs, Command(p)
    PROVE  Outcome(p)
<1>1. CASE \/ \E cmd \in Commands, c \in Creds : Begin(p, cmd, c)
           \/ Migrate(p) \/ Cleanup(p) \/ SyncRead(p) \/ SyncLoad(p) \/ SyncSave(p)
           \/ \E cmd \in Commands : Fail(p, cmd)
  BY <1>1, BeginOutcome, MigrateOutcome, CleanupOutcome, SyncReadOutcome, SyncLoadOutcome,
     SyncSaveOutcome, FailOutcome
<1>2. CASE \/ UseSyncAgain(p) \/ UseResolve(p) \/ Inspect(p) \/ Activate(p) \/ Symlink(p)
           \/ Refresh(p) \/ Relogin(p) \/ ReloginSave(p) \/ IsActive(p)
  BY <1>2, UseSyncAgainOutcome, UseResolveOutcome, InspectOutcome, ActivateOutcome,
     SymlinkOutcome, RefreshOutcome, ReloginOutcome, ReloginSaveOutcome, IsActiveOutcome
<1>3. CASE \/ RestoreBegin(p) \/ RestoreManaged(p) \/ PutBack(p) \/ RemoveBackup(p)
           \/ Clear(p) \/ Unlink(p) \/ Rewrite(p)
  BY <1>3, RestoreBeginOutcome, RestoreManagedOutcome, PutBackOutcome, RemoveBackupOutcome,
     ClearOutcome, UnlinkOutcome, RewriteOutcome
<1>4. CASE Logout(p) \/ Delete(p) \/ Backup(p) \/ Import(p) \/ Kill(p)
  BY <1>4, LogoutOutcome, DeleteOutcome, BackupOutcome, ImportOutcome, KillOutcome
<1> QED
  BY <1>1, <1>2, <1>3, <1>4 DEF Command

LEMMA OutcomeIInv ==
    ASSUME IInv, NEW p \in Procs, Outcome(p)
    PROVE  IInv'
<1>1. owner \in [Creds -> Accounts \cup {NoAcct}]
      /\ \A c \in Creds : owner[c] \in Accounts => owner'[c] = owner[c]
  BY DEF IInv, Known, Outcome, Books
<1>2. Marks'
  <2>1. GoodIn(path', owner') /\ GoodIn(key', owner') /\ GoodIn(backup', owner')
    BY <1>1, GoodStays DEF Outcome, GoodFiles, GoodEntry
  <2>2. GoodIn(held'[p], owner')
    BY <1>1, GoodStays DEF Outcome, Turn
  <2>3. ASSUME NEW q \in Procs, q # p
        PROVE  GoodIn(held'[q], owner')
    <3>1. GoodIn(held[q], owner) /\ held'[q] = held[q]
      BY <2>3 DEF IInv, Marks, Outcome, Turn
    <3> QED
      BY <1>1, <3>1, GoodStays
  <2> QED
    BY <2>1, <2>2, <2>3 DEF Marks
<1>3. Control'
  BY DEF Control, IInv, Outcome, Turn, Clean, fixed
<1>4. ASSUME NEW q \in Procs
      PROVE  Sure(q)'
  <2>1. CASE q = p
    <3>1. job'[p].cred \in Creds
      BY DEF Outcome, Turn
    <3> QED
      BY <1>1, <2>1, <3>1 DEF Outcome, Turn, Sure, fixed
  <2>2. CASE q # p
    <3>1. pc'[q] = pc[q] /\ held'[q] = held[q] /\ job'[q] = job[q] /\ provider' = provider
      BY <2>2 DEF Outcome, Turn, fixed
    <3>2. pc[q] # "idle" => ~clean'
      BY <2>2 DEF Outcome, Clean, InFlight
    <3>3. owner[job[q].cred] \in Accounts => owner'[job[q].cred] = owner[job[q].cred]
      BY <1>1 DEF IInv, Control
    <3> QED
      BY <3>1, <3>2, <3>3 DEF IInv, Sure
  <2> QED
    BY <2>1, <2>2
<1>5. held' \in [Procs -> Contents] /\ Known' /\ StoreHoldsItsOwn'
  BY DEF Outcome, Turn, Books
<1> QED
  BY <1>2, <1>3, <1>4, <1>5 DEF IInv

(* A step of somebody else, which leaves every command where it is.        *)
LEMMA BystanderIInv ==
    ASSUME IInv, UNCHANGED <<fixed, owner, procVars, backup, sidecar>>, GoodEntry, Known',
           StoreHoldsItsOwn', gone' \subseteq Accounts,
           clean' \in BOOLEAN, clean' => InFlight \subseteq {"capture"} /\ clean,
           stub' \in {"idle", "write", "written", "compare", "remove"}
    PROVE  IInv'
<1>1. UNCHANGED <<provider, home, pc, job, be, held>>
  BY DEF fixed, procVars
<1>2. Marks'
  BY <1>1 DEF GoodEntry, IInv, Marks
<1>3. Control'
  BY <1>1 DEF IInv, Control
<1>4. ASSUME NEW q \in Procs
      PROVE  Sure(q)'
  <2>1. pc[q] # "idle" => ~clean'
    BY BlobAssumption DEF InFlight
  <2> QED
    BY <1>1, <2>1 DEF IInv, Sure
<1> QED
  BY <1>1, <1>2, <1>3, <1>4 DEF IInv

LEMMA SessionRefreshIInv ==
    ASSUME IInv, NEW c \in Creds, SessionRefresh(c)
    PROVE  IInv'
<1>1. Books
  BY BooksRotated DEF SessionRefresh, Bystander, fixed
<1>2. GoodEntry
  BY DEF SessionRefresh, files, GoodEntry, IInv, Marks
<1> QED
  BY <1>1, <1>2, BystanderIInv
     DEF SessionRefresh, Bystander, Books, files, IInv, Control

LEMMA CliRotatesIInv ==
    ASSUME IInv, CliRotates
    PROVE  IInv'
<1> DEFINE x == Home
           y == [x EXCEPT !.tok = [x.tok EXCEPT !.ver = x.tok.ver + 1]]
           a == x.tok.acct
<1>1. GoodIn(x, owner) /\ x.kind = "file"
  BY EntryGood DEF CliRotates, IInv, Home
<1>2. /\ x.id \in Creds \cup {NoCred} /\ x.tok \in Tok
      /\ x \in [kind : {"file", "rel"}, id : Creds \cup {NoCred}, tok : Tok]
  BY <1>1, Kinds DEF GoodIn
<1>3. /\ a \in Accounts /\ x.tok.ver = live[a] /\ live[a] < MaxVer /\ live[a] \in 1..MaxVer
      /\ MaxVer \in Nat
  BY <1>2, Tokens, BlobAssumption DEF CliRotates, IInv, Known
<1>4. live[a] + 1 \in 1..MaxVer
  BY <1>3
<1>5. [x.tok EXCEPT !.ver = x.tok.ver + 1] = [acct |-> a, ver |-> live[a] + 1]
  BY <1>2, <1>3 DEF Tok
<1>6. y = Login(x.id, [acct |-> a, ver |-> live[a] + 1])
  BY <1>1, <1>2, <1>5 DEF Login
<1>7. GoodIn(y, owner)
  <2>1. [acct |-> a, ver |-> live[a] + 1] \in Tok
    BY <1>3, <1>4, Tokens
  <2>2. x.id # NoCred => owner[x.id] = a
    BY <1>1 DEF GoodIn
  <2> HIDE DEF x, a, y
  <2> QED
    BY <1>2, <1>6, <2>1, <2>2, GoodLogin
<1>8. Put(home, y)
  BY DEF CliRotates
<1>9. GoodEntry
  BY <1>7, <1>8, PutGood
<1>10. Known'
  <2>1. live' = [live EXCEPT ![a] = live[a] + 1] /\ UNCHANGED <<store, owner>>
    BY DEF CliRotates
  <2> HIDE DEF a
  <2> QED
    BY <1>3, <1>4, <2>1 DEF IInv, Known
<1>11. StoreHoldsItsOwn'
  BY DEF CliRotates, Bystander, fixed, IInv, StoreHoldsItsOwn
<1> QED
  BY <1>9, <1>10, <1>11, BystanderIInv DEF CliRotates, Bystander, IInv, Control

LEMMA CliLoginIInv ==
    ASSUME IInv, CliLogin
    PROVE  IInv'
<1> DEFINE t == [acct |-> Outside, ver |-> live[Outside] + 1]
<1>1. Outside \in Accounts /\ MaxVer \in Nat /\ live[Outside] \in 1..MaxVer
  BY BlobAssumption DEF IInv, Known
<1>2. live[Outside] + 1 \in 1..MaxVer
  BY <1>1 DEF CliLogin
<1>3. GoodIn(Login(NoCred, t), owner)
  <2>1. t \in Tok
    BY <1>1, <1>2, Tokens
  <2> QED
    BY <2>1, GoodLogin
<1>4. GoodEntry
  BY <1>3, PutGood DEF CliLogin
<1>5. Known'
  BY <1>1, <1>2 DEF CliLogin, IInv, Known
<1>6. StoreHoldsItsOwn'
  BY DEF CliLogin, Bystander, fixed, IInv, StoreHoldsItsOwn
<1>7. gone' \subseteq Accounts
  <2>1. Home.tok \in Tok \cup {NoTok}
    BY EntryGood, Kinds DEF Home, IInv, GoodIn
  <2>2. Home.tok.acct \in Accounts \cup {NoAcct}
    BY <2>1, Tokens DEF NoTok
  <2> QED
    BY <2>2 DEF CliLogin, IInv, Control
<1> QED
  BY <1>4, <1>5, <1>6, <1>7, BystanderIInv DEF CliLogin, Bystander, IInv, Control

LEMMA CaptureIInv ==
    ASSUME IInv, Capture
    PROVE  IInv'
<1>1. /\ path' \in {path, None, Login(NoCred, StubTok)}
      /\ stub' \in {"idle", "write", "written", "compare", "remove"}
  BY DEF Capture, EnsureStub, WriteStub, CompareStub, RemoveStub, StubStep
<1>2. StubTok \in Tok
  BY BlobAssumption, Tokens DEF StubTok
<1>3. GoodIn(path', owner)
  BY <1>1, <1>2, GoodNothing, GoodLogin DEF IInv, Marks
<1>4. GoodEntry
  BY <1>3 DEF Capture, GoodEntry, IInv, Marks
<1>5. Known' /\ StoreHoldsItsOwn'
  BY DEF Capture, known, fixed, IInv, Known, StoreHoldsItsOwn
<1> QED
  BY <1>1, <1>4, <1>5, BystanderIInv DEF Capture, known, IInv, Control

-------------------------------------------------------------------------------
LEMMA InitIInv == Init => IInv
<1> SUFFICES ASSUME Init PROVE IInv
  OBVIOUS
<1>1. Known
  <2>1. \A c \in Creds : store[c].acct \in Accounts \cup {NoAcct}
    BY Tokens DEF Init, NoTok
  <2>2. 1 \in 1..MaxVer
    BY BlobAssumption
  <2> QED
    BY <2>1, <2>2 DEF Init, Known
<1>2. \A c \in Creds : owner[c] = store[c].acct
  BY DEF Init
<1>3. ASSUME NEW c \in Creds \ Fresh
      PROVE  store[c] \in Tok /\ store[c].acct = owner[c] /\ GoodIn(Login(c, store[c]), owner)
  <2>1. store[c].ver = 1 /\ store[c] \in Tok \cup {NoTok}
    BY <1>3 DEF Init
  <2>2. store[c] \in Tok
    BY <2>1 DEF NoTok
  <2> QED
    BY <1>2, <1>3, <2>2, GoodLogin
<1>4. [acct |-> Outside, ver |-> 1] \in Tok
  BY BlobAssumption, Tokens
<1>5. GoodIn(path, owner) /\ GoodIn(key, owner) /\ sidecar \in Creds \cup {NoCred}
  <2>1. CASE /\ sidecar = NoCred
             /\ \E x \in {None, Login(NoCred, [acct |-> Outside, ver |-> 1])} :
                   IF home = "file" THEN path = x /\ key = None ELSE key = x /\ path = None
    BY <1>4, <2>1, GoodLogin, GoodNothing
  <2>2. CASE /\ provider = "claude"
             /\ \E c \in Creds \ Fresh :
                   \/ path = Link(c) /\ sidecar = NoCred
                   \/ path = [Login(c, store[c]) EXCEPT !.kind = "rel"] /\ sidecar = NoCred
                   \/ path = Login(c, store[c]) /\ sidecar = NoCred
                   \/ path = Login(NoCred, store[c]) /\ sidecar = c
             /\ key = IF home = "file" THEN None ELSE Login(NoCred, Seen(path).tok)
    <3>1. PICK c \in Creds \ Fresh :
                   \/ path = Link(c) /\ sidecar = NoCred
                   \/ path = [Login(c, store[c]) EXCEPT !.kind = "rel"] /\ sidecar = NoCred
                   \/ path = Login(c, store[c]) /\ sidecar = NoCred
                   \/ path = Login(NoCred, store[c]) /\ sidecar = c
      BY <2>2
    <3>2. store[c] \in Tok /\ store[c].acct = owner[c] /\ GoodIn(Login(c, store[c]), owner)
      BY <1>3
    <3>3. GoodIn([Login(c, store[c]) EXCEPT !.kind = "rel"], owner)
      <4>1. [Login(c, store[c]) EXCEPT !.kind = "rel"] = [kind |-> "rel", id |-> c, tok |-> store[c]]
        BY DEF Login
      <4>2. [kind |-> "rel", id |-> c, tok |-> store[c]] \in Contents
        BY <3>2 DEF Contents
      <4> QED
        BY <3>2, <4>1, <4>2 DEF GoodIn
    <3>4. GoodIn(path, owner)
      BY <3>1, <3>2, <3>3, GoodLink, GoodLogin
    <3>5. Seen(path).tok = store[c]
      <4>1. CASE path = Link(c)
        BY <3>2, <4>1, Tokens DEF Seen, Link, Login
      <4>2. CASE path = [Login(c, store[c]) EXCEPT !.kind = "rel"]
        BY <4>2 DEF Seen, Login
      <4>3. CASE path \in {Login(c, store[c]), Login(NoCred, store[c])}
        BY <4>3 DEF Seen, Login
      <4> QED
        BY <3>1, <4>1, <4>2, <4>3
    <3>6. GoodIn(key, owner)
      BY <2>2, <3>2, <3>5, GoodLogin, GoodNothing
    <3> QED
      BY <3>1, <3>4, <3>6
  <2> QED
    BY <2>1, <2>2 DEF Init
<1>6. NoJob \in [cmd : Commands, cred : Creds, again : BOOLEAN] /\ None \in Contents
  BY BlobAssumption DEF NoJob, Commands, Contents
<1>7. /\ pc = [p \in Procs |-> "idle"] /\ job = [p \in Procs |-> NoJob]
      /\ be = [p \in Procs |-> "file"] /\ held = [p \in Procs |-> None]
      /\ backup = None /\ stub = "idle" /\ clean = TRUE /\ provider \in Providers
      /\ home \in {"file", "keychain"} /\ gone \subseteq Accounts
  BY DEF Init
<1>8. Control
  BY <1>5, <1>6, <1>7 DEF Control, Pcs
<1>9. Marks /\ held \in [Procs -> Contents]
  BY <1>5, <1>6, <1>7, GoodNothing DEF Marks
<1>10. \A p \in Procs : Sure(p)
  BY <1>7 DEF Sure, Naming
<1>11. StoreHoldsItsOwn
  BY <1>2 DEF StoreHoldsItsOwn
<1> QED
  BY <1>1, <1>8, <1>9, <1>10, <1>11 DEF IInv

LEMMA IInvStep == IInv /\ [Next]_vars => IInv'
<1> SUFFICES ASSUME IInv, [Next]_vars PROVE IInv'
  OBVIOUS
<1>1. CASE UNCHANGED vars
  BY <1>1 DEF vars, IInv, Control, Known, Marks, Sure, StoreHoldsItsOwn
<1> QED
  BY <1>1, CommandOutcome, OutcomeIInv, SessionRefreshIInv, CliRotatesIInv, CliLoginIInv,
     CaptureIInv DEF Next

(* StoreHoldsItsOwn, which says two things.  Of claude: whatever commands   *)
(* run side by side, whatever dies and whatever the CLI does meanwhile,    *)
(* Sync, Use, Restore and the logins write into a stored credential only   *)
(* tokens of the account it was made for.  Of codex: the same, as long as  *)
(* the history is clean, with one command at a time and none killed; what  *)
(* Restore writes through a symlink of a racing `ccm use` is not excluded. *)
THEOREM NoForeignTokens == Spec => []Inv
<1>1. IInv => Inv
  BY DEF IInv, Inv, TypeOK, Control, Known, Marks, GoodIn
<1> QED
  BY <1>1, InitIInv, IInvStep, PTL DEF Spec

-------------------------------------------------------------------------------
(* The accounts whose unmarked logins may be taken for the original.       *)
Claimed(x, g) == x.id = NoCred => x.tok.acct \in {Outside, Stub, NoAcct} \cup g
StrayLink == /\ provider = "claude" /\ path.kind = "link"
             /\ owner[path.id] \notin {Outside, Stub} \cup gone
Strayed   == ~Claimed(path, gone) \/ ~Claimed(key, gone) \/ StrayLink

(* An older ccm's entry, unmarked and of a stored account, is there only   *)
(* until the first Migrate, which recognises it.                           *)
Legacies ==
    Strayed =>
        /\ provider = "claude" /\ stub = "idle" /\ path.kind # "none"
        /\ \A p \in Procs : pc[p] = "idle" \/ (pc[p] = "migrate" /\ be[p] = home)
        /\ Loadable(Legacy)
        /\ ~Claimed(key, gone)  => key.tok.acct = owner[Legacy]
        /\ ~Claimed(path, gone) => path.tok.acct = owner[Legacy]
        /\ StrayLink => Legacy = path.id
        /\ home = "keychain" => ~Claimed(key, gone)

Carries(p) ==
    /\ be[p] = "keychain" => home = "keychain"
    /\ pc[p] \in {"putback", "unlink", "rewrite"} => held[p].id = NoCred /\ Claimed(held[p], gone)
    /\ pc[p] \in Naming => held[p].kind # "link"
    /\ pc[p] = "symlink" => provider = "codex"
    /\ clean => held[p].tok.acct # Stub

Originals ==
    /\ home = "file" => key = None
    /\ key.kind # "link"
    /\ backup.id = NoCred /\ Claimed(backup, gone)
    /\ \A c \in Creds : store[c].acct \in {owner[c], NoAcct, Outside, Stub} \cup gone

(* A placeholder stays where the capture has put it.                       *)
Stubs ==
    clean =>
        /\ backup.tok.acct # Stub /\ key.tok.acct # Stub
        /\ \A c \in Creds : owner[c] # Stub /\ store[c].acct # Stub
        /\ path.tok.acct = Stub => stub \in {"written", "remove"} /\ path = Login(NoCred, StubTok)

SInv ==
    /\ Legacies /\ Originals /\ Stubs
    /\ \A p \in Procs : Carries(p)

-------------------------------------------------------------------------------
(* What is claimed stays so.                                               *)

LEMMA TokNames ==
    ASSUME NEW t \in Tok \cup {NoTok}
    PROVE  t.acct \in Accounts \cup {NoAcct} /\ (t.acct = NoAcct <=> t = NoTok)
BY Tokens, BlobAssumption DEF NoTok

LEMMA ClaimedNothing ==
    ASSUME NEW g, NEW x, x.id # NoCred \/ x.tok = NoTok \/ x \in {None, Torn}
    PROVE  Claimed(x, g)
BY DEF Claimed, None, Torn, NoTok

LEMMA ClaimedStays ==
    ASSUME NEW x, NEW g, NEW h, Claimed(x, g), g \subseteq h \cup {Outside}
    PROVE  Claimed(x, h)
BY DEF Claimed

(* What an entry shows is claimed and, between commands, no placeholder.   *)
LEMMA EntryClaimed ==
    ASSUME IInv, SInv, ~Strayed, NEW b
    PROVE  Claimed(Entry(b), gone)
<1>1. CASE b = "keychain"
  BY <1>1 DEF Entry, Strayed
<1>2. CASE b # "keychain" /\ path.kind = "link"
  <2>1. path.id \in Creds /\ Entry(b) = Seen(path)
    BY <1>2, Kinds DEF IInv, Marks, GoodIn, Entry
  <2>2. CASE store[path.id] = NoTok
    BY <1>2, <2>1, <2>2, ClaimedNothing DEF Seen
  <2>3. CASE store[path.id] # NoTok /\ provider = "codex" /\ Loadable(path.id)
    <3>1. Entry(b).id = path.id
      BY <1>2, <2>1, <2>3 DEF Seen, Login
    <3> QED
      BY <2>1, <3>1, BlobAssumption DEF Claimed
  <2>4. CASE store[path.id] # NoTok /\ ~(provider = "codex" /\ Loadable(path.id))
    <3>1. Entry(b).tok = store[path.id]
      BY <1>2, <2>1, <2>4 DEF Seen, Login
    <3>2. store[path.id].acct \in {owner[path.id], NoAcct, Outside, Stub} \cup gone
      BY <2>1 DEF SInv, Originals
    <3>3. CASE provider = "claude"
      BY <1>2, <3>1, <3>2, <3>3 DEF Strayed, StrayLink, Claimed
    <3>4. CASE provider # "claude"
      <4>1. ~Loadable(path.id)
        BY <2>4, <3>4, ProviderIs
      <4>2. store[path.id].acct # owner[path.id]
        BY <2>1, <2>4, <4>1 DEF Loadable
      <4> QED
        BY <3>1, <3>2, <4>2 DEF Claimed
    <3> QED
      BY <3>3, <3>4
  <2> QED
    BY <2>2, <2>3, <2>4
<1>3. CASE b # "keychain" /\ path.kind # "link"
  <2>1. Entry(b).id = path.id /\ Entry(b).tok = path.tok
    <3>1. CASE path.kind = "rel"
      <4>1. path \in [kind : {"file", "rel"}, id : Creds \cup {NoCred}, tok : Tok]
        BY <3>1, Kinds DEF IInv, Marks, GoodIn
      <4> QED
        BY <1>3, <3>1, <4>1 DEF Entry, Seen
    <3>2. CASE path.kind # "rel"
      BY <1>3, <3>2 DEF Entry, Seen
    <3> QED
      BY <3>1, <3>2
  <2> QED
    BY <2>1 DEF Strayed, Claimed
<1> QED
  BY <1>1, <1>2, <1>3

LEMMA EntryNotStub ==
    ASSUME IInv, SInv, clean, stub = "idle", NEW b
    PROVE  Entry(b).tok.acct # Stub
<1>1. key.tok.acct # Stub /\ path.tok.acct # Stub /\ \A c \in Creds : store[c].acct # Stub
  BY DEF SInv, Stubs
<1>2. NoTok.acct # Stub
  BY BlobAssumption DEF NoTok
<1>3. path \in Contents
  BY DEF IInv, Marks, GoodIn
<1>4. Seen(path).tok.acct # Stub
  <2>1. CASE path.kind = "link"
    BY <1>1, <1>2, <1>3, <2>1, Kinds DEF Seen, None, Login
  <2>2. CASE path.kind = "rel"
    <3>1. path \in [kind : {"file", "rel"}, id : Creds \cup {NoCred}, tok : Tok]
      BY <1>3, <2>2, Kinds
    <3> QED
      BY <1>1, <2>2, <3>1 DEF Seen
  <2>3. CASE path.kind \notin {"link", "rel"}
    BY <1>1, <2>3 DEF Seen
  <2> QED
    BY <2>1, <2>2, <2>3
<1> QED
  BY <1>1, <1>4 DEF Entry

LEMMA EntryNoLink ==
    ASSUME IInv, SInv, NEW b
    PROVE  Entry(b).kind # "link" /\ Entry(b) \in Contents /\ GoodIn(Entry(b), owner)
BY EntryGood, SeenGood DEF IInv, Marks, SInv, Originals, Entry, GoodIn

(* A place may be given x.                                                 *)
Fits(x) == /\ GoodIn(x, owner) /\ x.kind # "link" /\ Claimed(x, gone')
           /\ clean' => x.tok.acct # Stub

(* What one step of command p does to the places.                          *)
Tidy(p) ==
    /\ UNCHANGED <<fixed, stub>> /\ gone \subseteq gone'
    /\ \A c \in Creds : owner[c] \in Accounts => owner'[c] = owner[c]
    /\ path' = path \/ Fits(path') \/ (provider = "codex" /\ path'.tok = NoTok)
    /\ key' = key \/ (Fits(key') /\ home = "keychain")
    /\ backup' = backup \/ (Fits(backup') /\ backup'.id = NoCred)
    /\ \A q \in Procs : q # p => pc'[q] = pc[q] /\ held'[q] = held[q] /\ be'[q] = be[q]
    /\ Carries(p)'
    /\ clean' => \A c \in Creds : owner'[c] # Stub /\ store'[c].acct # Stub
    /\ \A c \in Creds : store'[c].acct \in {owner'[c], NoAcct, Outside, Stub} \cup gone'

LEMMA TidySInv ==
    ASSUME IInv, IInv', SInv, NEW p \in Procs, Tidy(p), Clean(p), Legacies'
    PROVE  SInv'
<1>1. UNCHANGED <<provider, home, stub>> /\ gone \subseteq gone' /\ gone \subseteq gone' \cup {Outside}
  BY DEF Tidy, fixed
<1>2. clean' => clean /\ stub = "idle"
  BY BlobAssumption DEF Clean, InFlight
<1>3. Originals'
  <2>1. home' = "file" => key' = None
    BY <1>1 DEF Tidy, SInv, Originals
  <2>2. key'.kind # "link"
    BY DEF Tidy, Fits, SInv, Originals
  <2>3. backup'.id = NoCred /\ Claimed(backup', gone')
    BY <1>1, ClaimedStays DEF Tidy, Fits, SInv, Originals
  <2> QED
    BY <2>1, <2>2, <2>3 DEF Tidy, Originals
<1>4. Stubs'
  <2>1. SUFFICES ASSUME clean'
                 PROVE  /\ backup'.tok.acct # Stub /\ key'.tok.acct # Stub /\ path'.tok.acct # Stub
                        /\ \A c \in Creds : owner'[c] # Stub /\ store'[c].acct # Stub
    BY DEF Stubs
  <2>2. backup.tok.acct # Stub /\ key.tok.acct # Stub /\ path.tok.acct # Stub
    BY <1>2, <2>1 DEF SInv, Stubs
  <2>3. NoTok.acct # Stub
    BY BlobAssumption DEF NoTok
  <2> QED
    BY <2>1, <2>2, <2>3 DEF Tidy, Fits
<1>5. ASSUME NEW q \in Procs
      PROVE  Carries(q)'
  <2>1. CASE q = p
    BY <2>1 DEF Tidy
  <2>2. CASE q # p
    <3>1. pc'[q] = pc[q] /\ held'[q] = held[q] /\ be'[q] = be[q] /\ Carries(q)
      BY <2>2 DEF Tidy, SInv
    <3>2. Claimed(held[q], gone) => Claimed(held[q], gone')
      BY <1>1, ClaimedStays
    <3> QED
      BY <1>1, <1>2, <3>1, <3>2 DEF Carries
  <2> QED
    BY <2>1, <2>2
<1> QED
  BY <1>3, <1>4, <1>5 DEF SInv

(* Past an older ccm's entry, none comes back.                             *)
LEMMA TidyStray ==
    ASSUME IInv, SInv, ~Strayed, NEW p \in Procs, Tidy(p)
    PROVE  ~Strayed'
<1>0. UNCHANGED <<provider, home, stub>> /\ gone \subseteq gone' /\ gone \subseteq gone' \cup {Outside}
  BY DEF Tidy, fixed
<1>1. Claimed(path', gone')
  BY <1>0, ClaimedStays, ClaimedNothing DEF Tidy, Fits, Strayed
<1>2. Claimed(key', gone')
  BY <1>0, ClaimedStays DEF Tidy, Fits, Strayed
<1>3. ~StrayLink'
  <2>1. SUFFICES ASSUME provider = "claude", path'.kind = "link", path' = path
                 PROVE  owner'[path.id] \in {Outside, Stub} \cup gone'
    BY <1>0 DEF StrayLink, Tidy, Fits
  <2>2. path.id \in Creds
    BY <2>1, Kinds DEF IInv, Marks, GoodIn
  <2>3. owner[path.id] \in {Outside, Stub} \cup gone
    BY <2>1 DEF Strayed, StrayLink
  <2>4. owner[path.id] \in Accounts
    BY <2>3, BlobAssumption DEF IInv, Control
  <2> QED
    BY <1>0, <2>2, <2>3, <2>4 DEF Tidy
<1> QED
  BY <1>1, <1>2, <1>3 DEF Strayed

-------------------------------------------------------------------------------
(* The registers of a command after a step.                                *)

Steps(p) ==
    /\ \A q \in Procs : q # p => pc'[q] = pc[q] /\ held'[q] = held[q] /\ be'[q] = be[q]
    /\ Carries(p)'
TidyStore ==
    /\ \A c \in Creds : owner[c] \in Accounts => owner'[c] = owner[c]
    /\ clean' => \A c \in Creds : owner'[c] # Stub /\ store'[c].acct # Stub
    /\ \A c \in Creds : store'[c].acct \in {owner'[c], NoAcct, Outside, Stub} \cup gone'

LEMMA MovesSteps ==
    ASSUME IInv, SInv, NEW p \in Procs, NEW l \in Pcs \ {"putback", "unlink", "rewrite", "symlink"},
           NEW x \in Contents, Goes(p, l, x), home' = home,
           l \in Naming => x.kind # "link", clean' => x.tok.acct # Stub
    PROVE  Steps(p)
<1>1. /\ UNCHANGED <<job, be>> /\ pc'[p] = l /\ held'[p] = x
      /\ \A q \in Procs : q # p => pc'[q] = pc[q] /\ held'[q] = held[q]
  BY Moves DEF IInv
<1>2. Carries(p)
  BY DEF SInv
<1> QED
  BY <1>1, <1>2 DEF Steps, Carries

LEMMA ReturnSteps ==
    ASSUME IInv, SInv, NEW p \in Procs, NEW l \in {"putback", "unlink", "rewrite"},
           NEW x \in Contents, Goes(p, l, x), home' = home, x.id = NoCred, Claimed(x, gone'),
           clean' => x.tok.acct # Stub
    PROVE  Steps(p)
<1>1. l \in Pcs /\ l \notin Naming /\ l # "symlink"
  BY DEF Pcs, Naming
<1>2. /\ UNCHANGED <<job, be>> /\ pc'[p] = l /\ held'[p] = x
      /\ \A q \in Procs : q # p => pc'[q] = pc[q] /\ held'[q] = held[q]
  BY <1>1, Moves DEF IInv
<1>3. Carries(p)
  BY DEF SInv
<1> QED
  BY <1>1, <1>2, <1>3 DEF Steps, Carries

LEMMA FinishSteps ==
    ASSUME IInv, NEW p \in Procs, Finish(p)
    PROVE  Steps(p)
<1>1. /\ pc'[p] = "idle" /\ held'[p] = None /\ be'[p] = "file"
      /\ \A q \in Procs : q # p => pc'[q] = pc[q] /\ held'[q] = held[q] /\ be'[q] = be[q]
  BY Finishes DEF IInv, Finish, Control
<1>2. None.tok.acct # Stub
  BY BlobAssumption DEF None, NoTok
<1> QED
  BY <1>1, <1>2 DEF Steps, Carries, Naming

LEMMA IdleSteps ==
    ASSUME IInv, SInv, NEW p \in Procs, home' = home,
           NEW l \in Pcs \ {"putback", "unlink", "rewrite", "symlink"}, Goes(p, l, None)
    PROVE  Steps(p)
<1>1. None.tok.acct # Stub /\ None \in Contents /\ None.kind # "link"
  BY BlobAssumption DEF None, NoTok, Contents
<1> QED
  BY <1>1, MovesSteps

(* The program counter alone moves.                                        *)
LEMMA GotoSteps ==
    ASSUME IInv, SInv, NEW p \in Procs, home' = home,
           NEW l \in Pcs \ {"putback", "unlink", "rewrite", "symlink"},
           pc' = [pc EXCEPT ![p] = l], UNCHANGED <<be, held>>, clean' => clean,
           l \in Naming => held[p].kind # "link"
    PROVE  Steps(p)
<1>1. Carries(p) /\ pc \in [Procs -> Pcs]
  BY DEF SInv, IInv, Control
<1> QED
  BY <1>1 DEF Steps, Carries

LEMMA StoreKept ==
    ASSUME IInv, SInv, clean' => clean, gone \subseteq gone', UNCHANGED <<store, owner>>
    PROVE  TidyStore
BY DEF TidyStore, SInv, Originals, Stubs

(* One stored credential gets tokens t.                                    *)
LEMMA StoreWritten ==
    ASSUME IInv, SInv, clean' => clean, gone \subseteq gone', NEW c \in Creds, NEW t,
           store' = [store EXCEPT ![c] = t], owner' = owner,
           t.acct \in {owner[c], NoAcct, Outside, Stub} \cup gone', clean' => t.acct # Stub
    PROVE  TidyStore
<1>1. \A d \in Creds : store'[d] = IF d = c THEN t ELSE store[d]
  BY DEF IInv, Known
<1> QED
  BY <1>1 DEF TidyStore, SInv, Originals, Stubs

LEMMA TidyLook ==
    ASSUME IInv, SInv, NEW p \in Procs, Steps(p), Alone(p),
           UNCHANGED <<fixed, files, known, stub, gone>>
    PROVE  Tidy(p)
<1>1. TidyStore
  BY StoreKept, AloneClean DEF Clean, known
<1> QED
  BY <1>1 DEF Tidy, TidyStore, Steps, files

LEMMA TidyWrite ==
    ASSUME IInv, SInv, NEW p \in Procs, Steps(p), Alone(p), UNCHANGED <<fixed, known, stub>>,
           gone \subseteq gone',
           path' = path \/ Fits(path') \/ (provider = "codex" /\ path'.tok = NoTok),
           key' = key \/ (Fits(key') /\ home = "keychain"),
           backup' = backup \/ (Fits(backup') /\ backup'.id = NoCred)
    PROVE  Tidy(p)
<1>1. TidyStore
  BY StoreKept, AloneClean DEF Clean, known
<1> QED
  BY <1>1 DEF Tidy, TidyStore, Steps

LEMMA TidyBooks ==
    ASSUME IInv, SInv, NEW p \in Procs, Steps(p), TidyStore, UNCHANGED <<fixed, files, stub>>,
           gone \subseteq gone'
    PROVE  Tidy(p)
BY DEF Tidy, TidyStore, Steps, files

LEMMA FitsNothing == ASSUME NEW x \in {None, Torn} PROVE Fits(x)
<1>1. x.tok.acct # Stub /\ x.kind # "link"
  BY BlobAssumption DEF None, Torn, NoTok
<1> QED
  BY <1>1, GoodNothing, ClaimedNothing DEF Fits

LEMMA FitsStored ==
    ASSUME IInv, SInv, NEW c, Loadable(c), clean' => clean
    PROVE  Fits(Login(c, store[c])) /\ Login(c, store[c]) \in Contents
<1>1. c \in Creds /\ GoodIn(Login(c, store[c]), owner)
  BY LoadableGood DEF IInv
<1>2. Login(c, store[c]).id = c /\ Login(c, store[c]).tok = store[c] /\ Login(c, store[c]).kind = "file"
  BY DEF Login
<1>3. Claimed(Login(c, store[c]), gone')
  BY <1>1, <1>2, BlobAssumption DEF Claimed
<1>4. clean' => store[c].acct # Stub
  BY <1>1 DEF SInv, Stubs
<1> QED
  BY <1>1, <1>2, <1>3, <1>4 DEF Fits, GoodIn

(* What is put through backend.Write.                                      *)
LEMMA PutFits ==
    ASSUME SInv, NEW b \in {"file", "keychain"}, NEW x, Fits(x), Put(b, x),
           b = "keychain" => home = "keychain"
    PROVE  /\ path' = path \/ Fits(path')
           /\ key' = key \/ (Fits(key') /\ home = "keychain")
BY DEF Put

-------------------------------------------------------------------------------
(* Every action of a command is tidy.                                      *)

LEMMA AloneIs ==
    ASSUME IInv, NEW p \in Procs, Alone(p) \/ clean' = FALSE, clean'
    PROVE  clean /\ stub = "idle" /\ \A q \in Procs : q # p => pc[q] = "idle"
BY BlobAssumption, ZenonT(40) DEF Alone, InFlight, IInv, Control

LEMMA HeldIs ==
    ASSUME IInv, SInv, NEW p \in Procs
    PROVE  /\ held[p] \in Contents /\ GoodIn(held[p], owner) /\ Carries(p)
           /\ clean => held[p].tok.acct # Stub
           /\ be[p] \in {"file", "keychain"} /\ (be[p] = "keychain" => home = "keychain")
           /\ job[p].cred \in Creds
BY DEF IInv, SInv, Marks, Carries, Control

LEMMA BeginTidy ==
    ASSUME IInv, SInv, NEW p \in Procs, NEW cmd \in Commands, NEW c \in Creds, Begin(p, cmd, c)
    PROVE  Tidy(p)
<1>1. /\ be' = [be EXCEPT ![p] = Probe] /\ held' = held
      /\ pc' = [pc EXCEPT ![p] = IF provider = "claude" THEN "migrate" ELSE "run"]
      /\ Alone(p) /\ UNCHANGED <<fixed, files, known, stub, gone>>
  BY DEF Begin, Goto
<1>2. Probe = "keychain" => home = "keychain"
  BY DEF Probe, SInv, Originals, IInv, Control
<1>3. pc'[p] \in {"migrate", "run"} /\ be'[p] = Probe /\ held'[p] = held[p]
      /\ \A q \in Procs : q # p => pc'[q] = pc[q] /\ held'[q] = held[q] /\ be'[q] = be[q]
  BY <1>1 DEF IInv, Control
<1>4. Steps(p)
  BY <1>1, <1>2, <1>3, HeldIs, AloneIs DEF Steps, Carries, Naming, fixed
<1> QED
  BY <1>1, <1>4, TidyLook

LEMMA MigrateTidy ==
    ASSUME IInv, SInv, NEW p \in Procs, Migrate(p)
    PROVE  Tidy(p)
<1> DEFINE write == Active(be[p]) = NoCred /\ Loadable(Legacy)
           x == IF write THEN Login(Legacy, store[Legacy]) ELSE None
<1>1. /\ Goes(p, "cleanup", x) /\ Alone(p) /\ UNCHANGED <<fixed, backup, sidecar, known, stub>>
      /\ gone \subseteq gone' /\ (clean' => clean)
  BY AloneClean DEF Migrate, Goes, Goto, Clean
<1>2. Fits(x) /\ x \in Contents
  <2>1. CASE write
    BY <1>1, <2>1, FitsStored
  <2>2. CASE ~write
    BY <2>2, FitsNothing DEF Contents
  <2> QED
    BY <2>1, <2>2
<1>3. Steps(p)
  BY <1>1, <1>2, MovesSteps DEF Pcs, Naming, Fits, fixed
<1>4. /\ path' = path \/ Fits(path')
      /\ key' = key \/ (Fits(key') /\ home = "keychain")
  <2>1. CASE write
    BY <1>2, <2>1, PutFits, HeldIs DEF Migrate
  <2>2. CASE Active(be[p]) # NoCred /\ be[p] = "file" /\ Put("file", Seen(path))
    <3>1. Seen(path) = Entry(be[p]) /\ Claimed(Entry(be[p]), gone')
      BY <2>2 DEF Entry, Active, Claimed
    <3>2. clean' => Entry(be[p]).tok.acct # Stub
      BY <1>1, AloneIs, EntryNotStub
    <3>3. Fits(Seen(path))
      BY <3>1, <3>2, EntryNoLink DEF Fits
    <3> QED
      BY <2>2, <3>3, PutFits
  <2>3. CASE UNCHANGED entryVars
    BY <2>3 DEF entryVars
  <2> QED
    BY <2>1, <2>2, <2>3 DEF Migrate
<1> QED
  BY <1>1, <1>3, <1>4, TidyWrite

LEMMA CleanupTidy ==
    ASSUME IInv, SInv, NEW p \in Procs, Cleanup(p)
    PROVE  Tidy(p)
<1>1. /\ Goes(p, "read", None) /\ Alone(p) /\ path' \in {path, None}
      /\ UNCHANGED <<fixed, key, backup, known, stub, gone>>
  BY DEF Cleanup
<1>2. Steps(p)
  BY <1>1, IdleSteps DEF Pcs, fixed
<1> QED
  BY <1>1, <1>2, FitsNothing, TidyWrite

LEMMA SyncReadTidy ==
    ASSUME IInv, SInv, NEW p \in Procs, SyncRead(p)
    PROVE  Tidy(p)
<1>1. Alone(p) /\ UNCHANGED <<fixed, files, known, stub, gone>>
  BY DEF SyncRead
<1>2. CASE Goes(p, "load", Entry(be[p]))
  <2>1. Steps(p)
    BY <1>1, <1>2, MovesSteps, EntryNoLink, AloneIs, EntryNotStub DEF Pcs, fixed
  <2> QED
    BY <1>1, <2>1, TidyLook
<1>3. CASE Goes(p, "run", None) \/ Finish(p)
  BY <1>1, <1>3, IdleSteps, FinishSteps, TidyLook DEF Pcs, fixed
<1> QED
  BY <1>2, <1>3 DEF SyncRead

LEMMA SyncLoadTidy ==
    ASSUME IInv, SInv, NEW p \in Procs, SyncLoad(p)
    PROVE  Tidy(p)
<1>1. Alone(p) /\ UNCHANGED <<fixed, files, known, stub, gone>>
  BY DEF SyncLoad
<1>2. CASE Goes(p, "save", held[p])
  <2>1. Steps(p)
    BY <1>1, <1>2, MovesSteps, HeldIs, AloneIs DEF Pcs, Naming, fixed
  <2> QED
    BY <1>1, <2>1, TidyLook
<1>3. CASE Goes(p, "run", None) \/ Finish(p)
  BY <1>1, <1>3, IdleSteps, FinishSteps, TidyLook DEF Pcs, fixed
<1> QED
  BY <1>2, <1>3 DEF SyncLoad

LEMMA SyncSaveTidy ==
    ASSUME IInv, SInv, NEW p \in Procs, SyncSave(p)
    PROVE  Tidy(p)
<1>1. /\ store' = [store EXCEPT ![held[p].id] = held[p].tok] /\ owner' = owner
      /\ UNCHANGED <<fixed, files, stub, gone>> /\ Alone(p)
      /\ Goes(p, "run", None) \/ Finish(p)
  BY DEF SyncSave
<1>2. Steps(p)
  BY <1>1, IdleSteps, FinishSteps DEF Pcs, fixed
<1>3. /\ held[p].id \in Creds /\ held[p].tok.acct = owner[held[p].id]
      /\ clean' => clean /\ held[p].tok.acct # Stub
  BY <1>1, AloneIs, HeldIs, BlobAssumption DEF SyncSave, IInv, Sure, GoodIn
<1>4. TidyStore
  BY <1>1, <1>3, StoreWritten
<1> QED
  BY <1>1, <1>2, <1>4, TidyBooks

-------------------------------------------------------------------------------
LEMMA FailTidy ==
    ASSUME IInv, SInv, NEW p \in Procs, NEW cmd, Fail(p, cmd)
    PROVE  Tidy(p)
BY FinishSteps, TidyLook DEF Fail

LEMMA UseSyncAgainTidy ==
    ASSUME IInv, SInv, NEW p \in Procs, UseSyncAgain(p)
    PROVE  Tidy(p)
<1>1. /\ pc' = [pc EXCEPT ![p] = "migrate"] /\ UNCHANGED <<be, held>> /\ Alone(p)
      /\ UNCHANGED <<fixed, files, known, stub, gone>>
  BY DEF UseSyncAgain, Goto
<1>2. Steps(p)
  BY <1>1, GotoSteps, AloneIs DEF Pcs, Naming, fixed
<1> QED
  BY <1>1, <1>2, TidyLook

(* The command rotates c: its tokens stay those of its account.            *)
LEMMA RotatedTidy ==
    ASSUME IInv, SInv, NEW c, Rotatable(c), RotateStored(c), owner' = owner, clean' => clean,
           gone' = gone
    PROVE  /\ TidyStore /\ Login(c, Rotated(c)) \in Contents /\ Login(c, Rotated(c)).kind # "link"
           /\ clean' => Login(c, Rotated(c)).tok.acct # Stub
<1>1. c \in Creds /\ Rotated(c).acct = owner[c] /\ GoodIn(Login(c, Rotated(c)), owner)
  BY RotatableGood DEF IInv
<1>2. clean' => owner[c] # Stub
  BY <1>1 DEF SInv, Stubs
<1>3. TidyStore
  BY <1>1, <1>2, StoreWritten DEF RotateStored
<1> QED
  BY <1>1, <1>2, <1>3 DEF GoodIn, Login

LEMMA UseResolveTidy ==
    ASSUME IInv, SInv, NEW p \in Procs, UseResolve(p)
    PROVE  Tidy(p)
<1> DEFINE c == job[p].cred
<1>1. Loadable(c) /\ Alone(p) /\ UNCHANGED <<fixed, files, owner, stub, gone>>
  BY DEF UseResolve
<1>2. clean' => clean
  BY <1>1, AloneIs
<1>3. CASE Goes(p, "inspect", Login(c, store[c])) /\ UNCHANGED <<store, live>>
  <2>1. Steps(p)
    BY <1>1, <1>2, <1>3, FitsStored, MovesSteps DEF Fits, Pcs, fixed
  <2> QED
    BY <1>1, <1>3, <2>1, TidyLook DEF known
<1>4. CASE Rotatable(c) /\ RotateStored(c) /\ Goes(p, "inspect", Login(c, Rotated(c)))
  <2>1. Steps(p) /\ TidyStore
    BY <1>1, <1>2, <1>4, RotatedTidy, MovesSteps DEF Pcs, fixed
  <2> QED
    BY <1>1, <2>1, TidyBooks
<1> QED
  BY <1>3, <1>4 DEF UseResolve

LEMMA InspectTidy ==
    ASSUME IInv, SInv, NEW p \in Procs, Inspect(p)
    PROVE  Tidy(p)
<1>0. ~Strayed
  BY DEF Inspect, SInv, Legacies
<1>1. /\ pc' = [pc EXCEPT ![p] = "activate"] /\ Alone(p)
      /\ UNCHANGED <<fixed, path, key, sidecar, known, stub, job, be, held, gone>>
  BY DEF Inspect, Goto, entryVars, workVars
<1>2. Steps(p)
  <2>1. held[p].kind # "link"
    BY DEF Inspect, SInv, Carries, Naming
  <2> QED
    BY <1>1, <2>1, GotoSteps, AloneIs DEF Pcs, fixed
<1>3. backup' = backup \/ (Fits(backup') /\ backup'.id = NoCred)
  <2>1. CASE Original(be[p])
    <3>1. backup' = Entry(be[p]) /\ backup'.id = NoCred
      BY <2>1 DEF Inspect, Original, Active
    <3>2. clean' => Entry(be[p]).tok.acct # Stub
      BY <1>1, AloneIs, EntryNotStub
    <3> QED
      BY <1>0, <1>1, <3>1, <3>2, EntryClaimed, EntryNoLink DEF Fits
  <2> QED
    BY <2>1 DEF Inspect
<1> QED
  BY <1>1, <1>2, <1>3, TidyWrite

LEMMA ActivateTidy ==
    ASSUME IInv, SInv, NEW p \in Procs, Activate(p)
    PROVE  Tidy(p)
<1>1. Alone(p) /\ UNCHANGED <<fixed, backup, sidecar, known, stub, gone>>
  BY DEF Activate
<1>2. held[p].id \in Creds /\ held[p].kind # "link"
  BY DEF Activate, IInv, Sure, SInv, Carries, Naming
<1>3. Fits(held[p])
  BY <1>1, <1>2, HeldIs, AloneIs, BlobAssumption DEF Fits, Claimed
<1>4. CASE Put(be[p], held[p]) /\ Finish(p)
  <2>1. Steps(p)
    BY <1>4, FinishSteps
  <2> QED
    BY <1>1, <1>3, <1>4, <2>1, PutFits, HeldIs, TidyWrite
<1>5. CASE provider # "claude" /\ path' = None /\ key' = key /\ Goes(p, "symlink", held[p])
  <2>1. Steps(p)
    <3>1. /\ be' = be /\ pc'[p] = "symlink" /\ held'[p] = held[p]
          /\ \A q \in Procs : q # p => pc'[q] = pc[q] /\ held'[q] = held[q]
      BY <1>5, HeldIs, Moves DEF IInv, Pcs
    <3>2. provider' = "codex" /\ home' = home
      BY <1>1, <1>5, ProviderIs DEF fixed
    <3> QED
      BY <1>1, <1>2, <3>1, <3>2, HeldIs, AloneIs DEF Steps, Carries
  <2> QED
    BY <1>1, <1>5, <2>1, FitsNothing, TidyWrite
<1> QED
  BY <1>4, <1>5 DEF Activate

LEMMA SymlinkTidy ==
    ASSUME IInv, SInv, NEW p \in Procs, Symlink(p)
    PROVE  Tidy(p)
<1>1. /\ Alone(p) /\ Finish(p) /\ UNCHANGED <<fixed, key, backup, sidecar, known, stub, gone>>
      /\ path' = path \/ path' = Link(held[p].id)
  BY DEF Symlink
<1>2. provider = "codex" /\ (path' # path => path'.tok = NoTok)
  BY <1>1 DEF Symlink, SInv, Carries, Link
<1> QED
  BY <1>1, <1>2, FinishSteps, TidyWrite

LEMMA RefreshTidy ==
    ASSUME IInv, SInv, NEW p \in Procs, Refresh(p)
    PROVE  Tidy(p)
<1> DEFINE c == job[p].cred
<1>1. Alone(p) /\ UNCHANGED <<fixed, files, owner, stub, gone>>
  BY DEF Refresh
<1>2. clean' => clean
  BY <1>1, AloneIs
<1>3. CASE Rotatable(c) /\ RotateStored(c) /\ Goes(p, "isactive", Login(c, Rotated(c)))
  <2>1. Steps(p) /\ TidyStore
    BY <1>1, <1>2, <1>3, RotatedTidy, MovesSteps DEF Pcs, fixed
  <2> QED
    BY <1>1, <2>1, TidyBooks
<1>4. CASE Rotatable(c) /\ RotateStored(c) /\ Finish(p)
  <2>1. Steps(p) /\ TidyStore
    BY <1>1, <1>2, <1>4, RotatedTidy, FinishSteps
  <2> QED
    BY <1>1, <2>1, TidyBooks
<1>5. CASE Finish(p) /\ UNCHANGED <<store, live>>
  BY <1>1, <1>5, FinishSteps, TidyLook DEF known
<1> QED
  BY <1>3, <1>4, <1>5 DEF Refresh

LEMMA ReloginTidy ==
    ASSUME IInv, SInv, NEW p \in Procs, Relogin(p)
    PROVE  Tidy(p)
<1>1. Steps(p)
  BY IdleSteps DEF Relogin, Pcs, fixed
<1> QED
  BY <1>1, TidyLook DEF Relogin

LEMMA ReloginSaveTidy ==
    ASSUME IInv, SInv, NEW p \in Procs, ReloginSave(p)
    PROVE  Tidy(p)
<1> DEFINE c == job[p].cred
           a == owner[c]
           t == [acct |-> a, ver |-> live[a] + 1]
<1>1. Alone(p) /\ UNCHANGED <<fixed, files, owner, stub, gone>>
  BY DEF ReloginSave
<1>2. (clean' => clean) /\ c \in Creds
  BY <1>1, AloneIs, HeldIs
<1>3. CASE /\ live[a] < MaxVer /\ live' = [live EXCEPT ![a] = live[a] + 1]
           /\ store' = [store EXCEPT ![c] = t]
           /\ Goes(p, "isactive", Login(c, t))
  <2>1. clean' => a # Stub
    BY <1>2 DEF SInv, Stubs
  <2>2. TidyStore
    <3>1. t.acct \in {owner[c], NoAcct, Outside, Stub} \cup gone' /\ (clean' => t.acct # Stub)
      BY <2>1
    <3>2. gone \subseteq gone' /\ owner' = owner
      BY <1>1
    <3> HIDE DEF c, a, t
    <3> QED
      BY <1>2, <1>3, <3>1, <3>2, StoreWritten
  <2>3. Login(c, t) \in Contents
    <3>1. a \in Accounts
      BY <1>2 DEF ReloginSave, IInv, Sure
    <3>2. live[a] \in 1..MaxVer /\ MaxVer \in Nat
      BY <3>1, BlobAssumption DEF IInv, Known
    <3>3. live[a] + 1 \in 1..MaxVer
      BY <1>3, <3>2
    <3> QED
      BY <1>2, <3>1, <3>3, Tokens DEF Login, Contents
  <2>4. Login(c, t).kind = "file" /\ Login(c, t).tok.acct = a
    BY DEF Login
  <2>5. Steps(p)
    <3> HIDE DEF c, a, t
    <3> QED
      BY <1>1, <1>3, <2>1, <2>3, <2>4, MovesSteps DEF Pcs, fixed
  <2> QED
    BY <1>1, <2>2, <2>5, TidyBooks
<1>4. CASE Finish(p) /\ UNCHANGED <<live, store>>
  BY <1>1, <1>4, FinishSteps, TidyLook DEF known
<1> QED
  BY <1>3, <1>4 DEF ReloginSave

LEMMA IsActiveTidy ==
    ASSUME IInv, SInv, NEW p \in Procs, IsActive(p)
    PROVE  Tidy(p)
<1>1. Alone(p) /\ UNCHANGED <<fixed, files, known, stub, gone>>
  BY DEF IsActive
<1>2. held[p].kind # "link"
  BY DEF IsActive, SInv, Carries, Naming
<1>3. Steps(p)
  BY <1>1, <1>2, FinishSteps, MovesSteps, HeldIs, AloneIs DEF IsActive, Pcs, fixed
<1> QED
  BY <1>1, <1>3, TidyLook

-------------------------------------------------------------------------------
LEMMA LeftSteps ==
    ASSUME IInv, SInv, NEW p \in Procs, home' = home, Left(p)
    PROVE  Steps(p)
BY IdleSteps, FinishSteps DEF Left, Pcs

(* The backup is taken along to be put back.                               *)
LEMMA BackupSteps ==
    ASSUME IInv, SInv, NEW p \in Procs, NEW l \in {"putback", "unlink"}, Goes(p, l, backup),
           Alone(p), UNCHANGED <<fixed, gone>>
    PROVE  Steps(p)
<1>1. backup \in Contents /\ backup.id = NoCred /\ Claimed(backup, gone)
  BY DEF IInv, Marks, GoodIn, SInv, Originals
<1>2. clean' => backup.tok.acct # Stub
  BY AloneIs DEF SInv, Stubs
<1> QED
  BY <1>1, <1>2, ReturnSteps DEF fixed

LEMMA RestoreBeginTidy ==
    ASSUME IInv, SInv, NEW p \in Procs, RestoreBegin(p)
    PROVE  Tidy(p)
<1>1. Alone(p) /\ UNCHANGED <<fixed, files, known, stub, gone>>
  BY DEF RestoreBegin
<1>2. Steps(p)
  BY <1>1, IdleSteps, FinishSteps, BackupSteps DEF RestoreBegin, Pcs, fixed
<1> QED
  BY <1>1, <1>2, TidyLook

LEMMA RestoreManagedTidy ==
    ASSUME IInv, SInv, NEW p \in Procs, RestoreManaged(p)
    PROVE  Tidy(p)
<1>1. Alone(p) /\ UNCHANGED <<fixed, files, known, stub, gone>>
  BY DEF RestoreManaged
<1>2. Steps(p)
  BY <1>1, IdleSteps, LeftSteps, BackupSteps DEF RestoreManaged, Pcs, fixed
<1> QED
  BY <1>1, <1>2, TidyLook

(* What a command carries back to the entry.                               *)
LEMMA CarriedFits ==
    ASSUME IInv, SInv, NEW p \in Procs, pc[p] \in {"putback", "unlink", "rewrite"}, Alone(p),
           gone' = gone
    PROVE  Fits(held[p]) /\ held[p].id = NoCred
<1>1. held[p].id = NoCred /\ Claimed(held[p], gone) /\ GoodIn(held[p], owner) /\ held[p] \in Contents
  BY HeldIs DEF Carries
<1>2. held[p].kind # "link"
  BY <1>1, Kinds, BlobAssumption
<1> QED
  BY <1>1, <1>2, HeldIs, AloneIs DEF Fits

LEMMA PutBackTidy ==
    ASSUME IInv, SInv, NEW p \in Procs, PutBack(p)
    PROVE  Tidy(p)
<1>1. Alone(p) /\ UNCHANGED <<fixed, backup, sidecar, known, stub, gone>>
  BY DEF PutBack
<1>2. Steps(p)
  BY <1>1, IdleSteps DEF PutBack, Pcs, fixed
<1>3. Fits(held[p])
  BY <1>1, CarriedFits DEF PutBack
<1>4. /\ path' = path \/ Fits(path')
      /\ key' = key \/ (Fits(key') /\ home = "keychain")
  BY <1>3, PutFits, HeldIs DEF PutBack
<1> QED
  BY <1>1, <1>2, <1>4, TidyWrite

LEMMA RemoveBackupTidy ==
    ASSUME IInv, SInv, NEW p \in Procs, RemoveBackup(p)
    PROVE  Tidy(p)
<1>1. /\ Alone(p) /\ UNCHANGED <<fixed, path, key, sidecar, known, stub, gone>>
      /\ backup' = None /\ None.id = NoCred
  BY DEF RemoveBackup, entryVars, None
<1>2. Steps(p)
  BY <1>1, LeftSteps DEF RemoveBackup, fixed
<1> QED
  BY <1>1, <1>2, FitsNothing, TidyWrite

LEMMA ClearTidy ==
    ASSUME IInv, SInv, NEW p \in Procs, Clear(p)
    PROVE  Tidy(p)
<1>1. Alone(p) /\ UNCHANGED <<fixed, backup, sidecar, known, stub, gone>>
  BY DEF Clear
<1>2. Steps(p)
  BY <1>1, LeftSteps DEF Clear, fixed
<1>3. /\ path' = path \/ Fits(path')
      /\ key' = key \/ (Fits(key') /\ home = "keychain")
  BY FitsNothing, PutFits, HeldIs DEF Clear
<1> QED
  BY <1>1, <1>2, <1>3, TidyWrite

LEMMA UnlinkTidy ==
    ASSUME IInv, SInv, NEW p \in Procs, Unlink(p)
    PROVE  Tidy(p)
<1>1. /\ Alone(p) /\ UNCHANGED <<fixed, key, backup, sidecar, known, stub, gone>>
      /\ path' = None /\ Goes(p, "rewrite", held[p])
  BY DEF Unlink
<1>2. Steps(p)
  <2>1. Fits(held[p]) /\ held[p].id = NoCred /\ held[p] \in Contents
    BY <1>1, CarriedFits, HeldIs DEF Unlink
  <2> QED
    BY <1>1, <2>1, ReturnSteps DEF Fits, fixed
<1> QED
  BY <1>1, <1>2, FitsNothing, TidyWrite

LEMMA RewriteTidy ==
    ASSUME IInv, SInv, NEW p \in Procs, Rewrite(p)
    PROVE  Tidy(p)
<1>1. Alone(p) /\ UNCHANGED <<fixed, key, backup, sidecar, owner, live, stub, gone>>
  BY DEF Rewrite
<1>2. Steps(p)
  BY <1>1, LeftSteps DEF Rewrite, fixed
<1>3. Fits(held[p]) /\ held[p].id = NoCred
  BY <1>1, CarriedFits DEF Rewrite
<1>4. CASE path.kind = "link"
  <2>1. /\ path.id \in Creds /\ store' = [store EXCEPT ![path.id] = held[p].tok] /\ path' = path
        /\ held[p].tok.acct \in {NoAcct, Outside, Stub} \cup gone'
    BY <1>1, <1>3, <1>4, Kinds DEF Rewrite, IInv, Marks, GoodIn, Fits, Claimed
  <2>2. TidyStore
    BY <1>1, <1>3, <2>1, StoreWritten, AloneIs DEF Fits
  <2> QED
    BY <1>1, <1>2, <2>1, <2>2, TidyBooks DEF files
<1>5. CASE path.kind # "link"
  <2>1. path' = held[p] /\ store' = store
    BY <1>5 DEF Rewrite
  <2> QED
    BY <1>1, <1>2, <1>3, <2>1, TidyWrite DEF known
<1> QED
  BY <1>4, <1>5

LEMMA LogoutTidy ==
    ASSUME IInv, SInv, NEW p \in Procs, Logout(p)
    PROVE  Tidy(p)
<1>1. Alone(p) /\ UNCHANGED <<fixed, files, known, stub, gone>>
  BY DEF Logout
<1>2. Steps(p)
  BY <1>1, IdleSteps, BackupSteps DEF Logout, Pcs, fixed
<1> QED
  BY <1>1, <1>2, TidyLook

LEMMA DeleteTidy ==
    ASSUME IInv, SInv, NEW p \in Procs, Delete(p)
    PROVE  Tidy(p)
<1>1. /\ Alone(p) /\ Finish(p) /\ gone \subseteq gone' /\ UNCHANGED <<fixed, files, owner, stub>>
      /\ store' = [store EXCEPT ![job[p].cred] = NoTok] /\ (clean' => clean) /\ job[p].cred \in Creds
  BY AloneIs, HeldIs DEF Delete
<1>2. NoTok.acct = NoAcct /\ NoAcct # Stub
  BY BlobAssumption DEF NoTok
<1>3. TidyStore
  BY <1>1, <1>2, StoreWritten
<1> QED
  BY <1>1, <1>3, FinishSteps, TidyBooks

LEMMA BackupTidy ==
    ASSUME IInv, SInv, NEW p \in Procs, Backup(p)
    PROVE  Tidy(p)
<1>1. Alone(p) /\ UNCHANGED <<fixed, files, known, stub, gone>>
  BY DEF Backup
<1>2. Steps(p)
  <2>1. CASE Goto(p, "migrate") /\ UNCHANGED <<be, held>>
    BY <1>1, <2>1, GotoSteps, AloneIs DEF Goto, Pcs, Naming, fixed
  <2>2. CASE Goes(p, "import", Entry(be[p]))
    BY <1>1, <2>2, MovesSteps, EntryNoLink, AloneIs, EntryNotStub DEF Pcs, fixed
  <2> QED
    BY <2>1, <2>2, FinishSteps DEF Backup
<1> QED
  BY <1>1, <1>2, TidyLook

LEMMA ImportTidy ==
    ASSUME IInv, SInv, NEW p \in Procs, Import(p)
    PROVE  Tidy(p)
<1>1. Alone(p) /\ Finish(p) /\ UNCHANGED <<fixed, files, live, stub, gone>>
  BY DEF Import
<1>2. PICK c \in Fresh : /\ owner[c] = NoAcct
                         /\ store' = [store EXCEPT ![c] = held[p].tok]
                         /\ owner' = [owner EXCEPT ![c] = held[p].tok.acct]
  BY DEF Import
<1>3. c \in Creds /\ NoAcct \notin Accounts
  BY BlobAssumption
<1>4. \A d \in Creds : /\ store'[d] = IF d = c THEN held[p].tok ELSE store[d]
                       /\ owner'[d] = IF d = c THEN held[p].tok.acct ELSE owner[d]
  BY <1>2 DEF IInv, Known
<1>5. clean' => clean /\ held[p].tok.acct # Stub
  BY <1>1, AloneIs, HeldIs
<1>6. TidyStore
  BY <1>1, <1>2, <1>3, <1>4, <1>5 DEF TidyStore, SInv, Originals, Stubs
<1> QED
  BY <1>1, <1>6, FinishSteps, TidyBooks

LEMMA KillTidy ==
    ASSUME IInv, SInv, NEW p \in Procs, Kill(p)
    PROVE  Tidy(p)
<1>1. /\ Finish(p) /\ clean' = FALSE /\ UNCHANGED <<fixed, key, sidecar, known, stub, gone>>
      /\ path' \in {path, Torn} /\ backup' \in {backup, Torn}
  BY DEF Kill
<1>2. TidyStore
  BY <1>1, StoreKept DEF known
<1>3. Torn.id = NoCred
  BY DEF Torn
<1> QED
  BY <1>1, <1>2, <1>3, FinishSteps, FitsNothing DEF Tidy, TidyStore, Steps

LEMMA CommandTidy ==
    ASSUME IInv, SInv, NEW p \in Procs, Command(p)
    PROVE  Tidy(p)
<1>1. CASE \/ \E cmd \in Commands, c \in Creds : Begin(p, cmd, c)
           \/ Migrate(p) \/ Cleanup(p) \/ SyncRead(p) \/ SyncLoad(p) \/ SyncSave(p)
           \/ \E cmd \in Commands : Fail(p, cmd)
  BY <1>1, BeginTidy, MigrateTidy, CleanupTidy, SyncReadTidy, SyncLoadTidy,
     SyncSaveTidy, FailTidy
<1>2. CASE \/ UseSyncAgain(p) \/ UseResolve(p) \/ Inspect(p) \/ Activate(p) \/ Symlink(p)
           \/ Refresh(p) \/ Relogin(p) \/ ReloginSave(p) \/ IsActive(p)
  BY <1>2, UseSyncAgainTidy, UseResolveTidy, InspectTidy, ActivateTidy,
     SymlinkTidy, RefreshTidy, ReloginTidy, ReloginSaveTidy, IsActiveTidy
<1>3. CASE \/ RestoreBegin(p) \/ RestoreManaged(p) \/ PutBack(p) \/ RemoveBackup(p)
           \/ Clear(p) \/ Unlink(p) \/ Rewrite(p)
  BY <1>3, RestoreBeginTidy, RestoreManagedTidy, PutBackTidy, RemoveBackupTidy,
     ClearTidy, UnlinkTidy, RewriteTidy
<1>4. CASE Logout(p) \/ Delete(p) \/ Backup(p) \/ Import(p) \/ Kill(p)
  BY <1>4, LogoutTidy, DeleteTidy, BackupTidy, ImportTidy, KillTidy
<1> QED
  BY <1>1, <1>2, <1>3, <1>4 DEF Command

-------------------------------------------------------------------------------
(* An older ccm's entry until it is migrated.                              *)

LEMMA StillLegacies ==
    ASSUME SInv, Strayed, UNCHANGED <<fixed, path, key, sidecar, known, stub, gone>>,
           \A p \in Procs : pc'[p] = "idle" \/ (pc'[p] = "migrate" /\ be'[p] = home)
    PROVE  Legacies'
BY DEF SInv, Legacies, Legacy, Loadable, Strayed, StrayLink, Claimed, fixed, known

LEMMA BeginLegacies ==
    ASSUME IInv, SInv, Strayed, NEW p \in Procs, NEW cmd, NEW c, Begin(p, cmd, c)
    PROVE  Legacies'
<1>1. /\ provider = "claude"
      /\ \A q \in Procs : pc[q] = "idle" \/ (pc[q] = "migrate" /\ be[q] = home)
      /\ home = "keychain" => key # None
  BY ClaimedNothing DEF SInv, Legacies
<1>2. Probe = home
  BY <1>1 DEF Probe, SInv, Originals, IInv, Control
<1>3. /\ pc' = [pc EXCEPT ![p] = "migrate"] /\ be' = [be EXCEPT ![p] = home]
      /\ UNCHANGED <<fixed, path, key, sidecar, known, stub, gone>>
  BY <1>1, <1>2 DEF Begin, Goto, files
<1>4. \A q \in Procs : pc'[q] = "idle" \/ (pc'[q] = "migrate" /\ be'[q] = home)
  BY <1>1, <1>3 DEF IInv, Control
<1> QED
  BY <1>3, <1>4, StillLegacies

(* The first Migrate writes over the older entry.                          *)
LEMMA MigrateEnds ==
    ASSUME IInv, SInv, Strayed, NEW p \in Procs, Migrate(p)
    PROVE  ~Strayed'
<1> DEFINE c == Legacy
<1>1. /\ provider = "claude" /\ be[p] = home /\ Loadable(c) /\ c \in Creds /\ NoCred \notin Creds
      /\ owner[c] = store[c].acct /\ store[c] # NoTok
      /\ ~Claimed(key, gone)  => key.tok.acct = owner[c]
      /\ ~Claimed(path, gone) => path.tok.acct = owner[c]
      /\ StrayLink => c = path.id
      /\ home = "keychain" => ~Claimed(key, gone)
      /\ home = "file" => key = None
  BY LoadableGood, BlobAssumption DEF Migrate, SInv, Legacies, Originals, IInv, Loadable
<1>2. path \in Contents /\ home \in {"file", "keychain"}
  BY DEF IInv, Marks, GoodIn, Control
<1>3. Entry(home).id = NoCred /\ Entry(home).tok.acct = owner[c]
  <2>1. CASE home = "keychain"
    BY <1>1, <2>1 DEF Entry, Claimed
  <2>2. CASE home = "file" /\ ~Claimed(path, gone)
    <3>1. path.id = NoCred /\ path.kind # "link"
      BY <1>1, <1>2, <2>2, Kinds DEF Claimed
    <3>2. Seen(path).id = path.id /\ Seen(path).tok = path.tok
      <4>1. CASE path.kind = "rel"
        <5>1. path \in [kind : {"file", "rel"}, id : Creds \cup {NoCred}, tok : Tok]
          BY <1>2, <4>1, Kinds
        <5> QED
          BY <4>1, <5>1 DEF Seen
      <4>2. CASE path.kind # "rel"
        BY <3>1, <4>2 DEF Seen
      <4> QED
        BY <4>1, <4>2
    <3> QED
      BY <1>1, <2>2, <3>1, <3>2 DEF Entry
  <2>3. CASE home = "file" /\ StrayLink
    <3>1. path.kind = "link" /\ path.id = c
      BY <1>1, <2>3 DEF StrayLink
    <3>2. Seen(path) = Login(NoCred, store[c])
      BY <1>1, <3>1 DEF Seen
    <3> QED
      BY <1>1, <2>3, <3>2 DEF Entry, Login
  <2>4. Claimed(None, gone)
    BY ClaimedNothing
  <2> QED
    BY <1>1, <1>2, <2>1, <2>2, <2>3, <2>4 DEF Strayed
<1>4. /\ Put(home, Login(c, store[c])) /\ gone' = gone \cup ({owner[c]} \ {NoAcct})
      /\ UNCHANGED <<provider, owner>>
  BY <1>1, <1>3 DEF Migrate, Active, fixed, known
<1>5. owner[c] \in Accounts /\ owner[c] # NoAcct
  BY <1>1, LoadableGood, BlobAssumption DEF IInv
<1>6. owner[c] \in gone' /\ gone \subseteq gone' \cup {Outside}
  BY <1>4, <1>5
<1>7. Claimed(Login(c, store[c]), gone') /\ Login(c, store[c]).kind = "file"
  BY <1>1 DEF Claimed, Login
<1>8. Claimed(path', gone') /\ Claimed(key', gone')
  <2>1. Claimed(path, gone')
    BY <1>1, <1>6, ClaimedStays DEF Claimed
  <2>2. Claimed(key, gone')
    BY <1>1, <1>6, ClaimedStays DEF Claimed
  <2> QED
    BY <1>4, <1>7, <2>1, <2>2 DEF Put
<1>9. ~StrayLink'
  <2>1. SUFFICES ASSUME path' = path, path.kind = "link"
                 PROVE  owner[path.id] \in {Outside, Stub} \cup gone'
    BY <1>4, <1>7 DEF StrayLink, Put
  <2> QED
    BY <1>1, <1>4, <1>6, <2>1 DEF StrayLink
<1> QED
  BY <1>8, <1>9 DEF Strayed

LEMMA KillLegacies ==
    ASSUME IInv, SInv, Strayed, NEW p \in Procs, Kill(p)
    PROVE  Legacies'
<1>1. \A q \in Procs : pc[q] = "idle" \/ (pc[q] = "migrate" /\ be[q] = home)
  BY DEF SInv, Legacies
<1>2. pc[p] = "migrate"
  BY <1>1 DEF Kill
<1>3. /\ pc' = [pc EXCEPT ![p] = "idle"] /\ be' = [be EXCEPT ![p] = "file"]
      /\ UNCHANGED <<fixed, path, key, sidecar, known, stub, gone>>
  BY <1>2 DEF Kill, Finish
<1>4. \A q \in Procs : pc'[q] = "idle" \/ (pc'[q] = "migrate" /\ be'[q] = home)
  BY <1>1, <1>3 DEF IInv, Control
<1> QED
  BY <1>3, <1>4, StillLegacies

LEMMA CommandLegacies ==
    ASSUME IInv, SInv, NEW p \in Procs, Command(p)
    PROVE  Legacies'
<1>1. CASE ~Strayed
  BY <1>1, CommandTidy, TidyStray DEF Legacies
<1>2. CASE Strayed
  <2>1. pc[p] \in {"idle", "migrate"}
    BY <1>2 DEF SInv, Legacies
  <2>2. \/ \E cmd \in Commands, c \in Creds : Begin(p, cmd, c)
        \/ Migrate(p) \/ Kill(p)
    BY <2>1 DEF Command, Cleanup, SyncRead, SyncLoad, SyncSave, Fail, UseSyncAgain, UseResolve,
       Inspect, Activate, Symlink, Refresh, Relogin, ReloginSave, IsActive, RestoreBegin,
       RestoreManaged, PutBack, RemoveBackup, Clear, Unlink, Rewrite, Logout, Delete, Backup,
       Import, Running
  <2> QED
    BY <1>2, <2>2, BeginLegacies, MigrateEnds, KillLegacies DEF Legacies
<1> QED
  BY <1>1, <1>2

LEMMA CommandSInv ==
    ASSUME IInv, SInv, NEW p \in Procs, Command(p)
    PROVE  SInv'
BY CommandTidy, CommandOutcome, OutcomeIInv, CommandLegacies, TidySInv DEF Outcome

-------------------------------------------------------------------------------
(* A step of somebody else keeps what the commands carry.                  *)
LEMMA BystanderCarries ==
    ASSUME SInv, UNCHANGED <<fixed, procVars>>, clean' => clean, gone \subseteq gone' \cup {Outside},
           NEW p \in Procs
    PROVE  Carries(p)'
<1>1. UNCHANGED <<provider, home, pc, be, held>> /\ Carries(p)
  BY DEF fixed, procVars, SInv
<1>2. Claimed(held[p], gone) => Claimed(held[p], gone')
  BY ClaimedStays
<1> QED
  BY <1>1, <1>2 DEF Carries

LEMMA SessionRefreshSInv ==
    ASSUME IInv, SInv, NEW c \in Creds, SessionRefresh(c)
    PROVE  SInv'
<1>1. /\ UNCHANGED <<fixed, files, owner, stub, procVars, gone>> /\ (clean' => clean)
      /\ UNCHANGED <<provider, home, path, key, backup, sidecar, pc, job, be, held>>
  BY DEF SessionRefresh, Bystander, fixed, files, procVars
<1>2. /\ Rotated(c).acct = owner[c] /\ Rotated(c) \in Tok
      /\ \A d \in Creds : store'[d] = IF d = c THEN Rotated(c) ELSE store[d]
  BY RotatableGood DEF SessionRefresh, RotateStored, IInv, Known
<1>3. TidyStore
  <2>1. clean' => owner[c] # Stub
    BY <1>1 DEF SInv, Stubs
  <2> QED
    BY <1>1, <1>2, <2>1, StoreWritten DEF SessionRefresh, RotateStored
<1>4. Originals' /\ Stubs'
  BY <1>1, <1>3 DEF TidyStore, SInv, Originals, Stubs
<1>5. Legacies'
  <2>1. \A d \in Creds : Loadable(d) => Loadable(d)'
    BY <1>1, <1>2, Tokens DEF Loadable
  <2>2. Legacy' = Legacy
    BY <1>1 DEF Legacy
  <2> QED
    BY <1>1, <2>1, <2>2 DEF SInv, Legacies, Strayed, StrayLink, Claimed, Loadable
<1>6. \A p \in Procs : Carries(p)'
  BY <1>1, BystanderCarries
<1> QED
  BY <1>4, <1>5, <1>6 DEF SInv

LEMMA CliRotatesSInv ==
    ASSUME IInv, SInv, CliRotates
    PROVE  SInv'
<1> DEFINE y == [Home EXCEPT !.tok.ver = @ + 1]
<1>1. /\ Home.kind = "file" /\ (home = "file" => path.kind = "file") /\ Home.tok.acct # Stub
      /\ Put(home, y) /\ UNCHANGED <<fixed, backup, sidecar, store, owner, stub, procVars, gone>>
      /\ (clean' => clean)
      /\ UNCHANGED <<provider, home, backup, sidecar, pc, job, be, held>>
  BY DEF CliRotates, Bystander, fixed, procVars
<1>2. Home.kind = "file" /\ Home \in Contents /\ home \in {"file", "keychain"}
  BY <1>1, EntryNoLink DEF Home, IInv, Control
<1>3. Home \in [kind : {"file", "rel"}, id : Creds \cup {NoCred}, tok : Tok]
  BY <1>2, Kinds
<1>4. y.kind = "file" /\ y.id = Home.id /\ y.tok.acct = Home.tok.acct
  BY <1>2, <1>3 DEF Tok
<1>5. /\ home = "file" => Home = path
      /\ home = "keychain" => Home = key
  BY <1>1 DEF Home, Entry, Seen
<1> HIDE DEF y
<1>6. /\ home = "file" => path' = y /\ key' = key
      /\ home = "keychain" => key' = y /\ path' = path
  BY <1>1 DEF Put
<1>7. /\ path'.kind = path.kind /\ path'.id = path.id /\ path'.tok.acct = path.tok.acct
      /\ key'.id = key.id /\ key'.tok.acct = key.tok.acct /\ (key'.kind = key.kind \/ key' = y)
  BY <1>1, <1>2, <1>4, <1>5, <1>6
<1>8. Originals'
  BY <1>1, <1>4, <1>6, <1>7 DEF SInv, Originals
<1>9. Stubs'
  <2>1. path.tok.acct = Stub => path' = path
    BY <1>1, <1>2, <1>5, <1>6
  <2> QED
    BY <1>1, <1>7, <2>1 DEF SInv, Stubs
<1>10. Legacies'
  <2>1. Legacy' = Legacy
    BY <1>1, <1>7 DEF Legacy
  <2>2. Strayed' <=> Strayed
    BY <1>1, <1>7 DEF Strayed, StrayLink, Claimed
  <2> QED
    BY <1>1, <1>7, <2>1, <2>2 DEF SInv, Legacies, StrayLink, Claimed, Loadable
<1>11. \A p \in Procs : Carries(p)'
  BY <1>1, BystanderCarries
<1> QED
  BY <1>8, <1>9, <1>10, <1>11 DEF SInv

LEMMA CliLoginSInv ==
    ASSUME IInv, SInv, CliLogin
    PROVE  SInv'
<1> DEFINE y == Login(NoCred, [acct |-> Outside, ver |-> live[Outside] + 1])
<1>1. /\ Put(home, y) /\ path.kind \in {"none", "file"}
      /\ gone' = (gone \cup ({Home.tok.acct} \ {NoAcct})) \ {Outside}
      /\ UNCHANGED <<fixed, backup, sidecar, store, owner, stub, procVars>>
      /\ (clean' => clean)
      /\ UNCHANGED <<provider, home, backup, sidecar, pc, job, be, held>>
  BY DEF CliLogin, Bystander, fixed, procVars
<1>2. y.kind = "file" /\ y.id = NoCred /\ y.tok.acct = Outside
  BY DEF Login
<1> HIDE DEF y
<1>3. home \in {"file", "keychain"} /\ gone \subseteq gone' \cup {Outside} /\ Outside # Stub
  BY <1>1, BlobAssumption DEF IInv, Control
<1>4. /\ home = "file" => path' = y /\ key' = key
      /\ home = "keychain" => key' = y /\ path' = path
  BY <1>1 DEF Put
<1>5. Claimed(y, gone')
  BY <1>2 DEF Claimed
<1>6. ~Strayed'
  <2>1. Claimed(key', gone')
    BY <1>3, <1>4, <1>5, ClaimedNothing DEF SInv, Originals
  <2>2. Claimed(path', gone')
    <3>1. CASE home = "file" \/ Claimed(path, gone)
      BY <1>3, <1>4, <1>5, <3>1, ClaimedStays
    <3>2. CASE home = "keychain" /\ ~Claimed(path, gone)
      <4>1. ~Claimed(key, gone) /\ path.tok.acct = key.tok.acct
        BY <3>2 DEF SInv, Legacies, Strayed
      <4>2. Home = key
        BY <3>2 DEF Home, Entry
      <4>3. key.tok.acct \in gone'
        BY <1>1, <4>1, <4>2 DEF Claimed
      <4> QED
        BY <1>4, <3>2, <4>1, <4>3 DEF Claimed
    <3> QED
      BY <1>3, <3>1, <3>2
  <2>3. path'.kind # "link"
    BY <1>1, <1>2, <1>3, <1>4
  <2> QED
    BY <2>1, <2>2, <2>3 DEF Strayed, StrayLink
<1>7. Originals'
  <2>1. Claimed(backup, gone')
    BY <1>3, ClaimedStays DEF SInv, Originals
  <2> QED
    BY <1>1, <1>2, <1>3, <1>4, <2>1 DEF SInv, Originals
<1>8. Stubs'
  BY <1>1, <1>2, <1>3, <1>4 DEF SInv, Stubs
<1>9. \A p \in Procs : Carries(p)'
  BY <1>1, <1>3, BystanderCarries
<1> QED
  BY <1>6, <1>7, <1>8, <1>9 DEF SInv, Legacies

LEMMA CaptureSInv ==
    ASSUME IInv, SInv, Capture
    PROVE  SInv'
<1>1. /\ UNCHANGED <<fixed, key, backup, sidecar, known, procVars, gone>> /\ (clean' => clean)
      /\ UNCHANGED <<provider, home, store, owner, pc, job, be, held>>
  BY DEF Capture, fixed, known, procVars
<1>2. \/ path = None /\ path' = path
      \/ path' = Login(NoCred, StubTok) /\ stub = "write" /\ stub' = "written"
      \/ path' = path /\ stub = "written"
         /\ stub' = IF path = Login(NoCred, StubTok) THEN "remove" ELSE "idle"
      \/ path' = None /\ stub = "remove"
  BY DEF Capture, EnsureStub, WriteStub, CompareStub, RemoveStub, StubStep
<1>3. ~Strayed
  <2>1. stub = "idle" => path = None
    BY <1>2
  <2> QED
    BY <2>1 DEF SInv, Legacies, None
<1>4. /\ Login(NoCred, StubTok).tok.acct = Stub /\ Login(NoCred, StubTok).kind = "file"
      /\ None.tok.acct = NoAcct /\ None.kind = "none" /\ NoAcct # Stub
  BY BlobAssumption DEF Login, StubTok, None, NoTok
<1>5. ~Strayed'
  <2>1. Claimed(path', gone) /\ (path'.kind = "link" => path' = path)
    BY <1>2, <1>3, <1>4 DEF Claimed, Strayed
  <2> QED
    BY <1>1, <1>3, <2>1 DEF Strayed, StrayLink
<1>6. Stubs'
  BY <1>1, <1>2, <1>4 DEF SInv, Stubs
<1>7. Originals'
  BY <1>1 DEF SInv, Originals
<1>8. \A p \in Procs : Carries(p)'
  BY <1>1, BystanderCarries
<1> QED
  BY <1>5, <1>6, <1>7, <1>8 DEF SInv, Legacies

-------------------------------------------------------------------------------
(* The start, the step and the theorem.                                    *)

LEMMA InitSInv == Init => SInv
<1> SUFFICES ASSUME Init PROVE SInv
  OBVIOUS
<1>1. /\ pc = [p \in Procs |-> "idle"] /\ be = [p \in Procs |-> "file"]
      /\ held = [p \in Procs |-> None] /\ backup = None /\ stub = "idle" /\ clean = TRUE
      /\ live = [a \in Accounts |-> 1] /\ gone = {a \in Accounts : ~Held(a)}
      /\ owner = [c \in Creds |-> store[c].acct] /\ store \in [Creds -> Tok \cup {NoTok}]
      /\ home \in {"file", "keychain"}
  BY DEF Init
<1>2. /\ None.tok.acct = NoAcct /\ None.kind = "none" /\ None.id = NoCred
      /\ NoTok.acct = NoAcct /\ NoAcct # Stub /\ Outside # Stub
      /\ Outside \in Accounts /\ NoAcct \notin Accounts
  BY BlobAssumption DEF None, NoTok
<1>3. \A p \in Procs : Carries(p)
  BY <1>1, <1>2 DEF Carries, Naming
<1>4. \A c \in Creds : owner[c] = store[c].acct /\ owner[c] # Stub
  BY <1>1, <1>2 DEF Init
<1>5. backup.id = NoCred /\ Claimed(backup, gone) /\ backup.tok.acct # Stub
  BY <1>1, <1>2, ClaimedNothing
<1>6. CASE \E x \in {None, Login(NoCred, [acct |-> Outside, ver |-> 1])} :
              IF home = "file" THEN path = x /\ key = None ELSE key = x /\ path = None
  <2>1. PICK x \in {None, Login(NoCred, [acct |-> Outside, ver |-> 1])} :
              IF home = "file" THEN path = x /\ key = None ELSE key = x /\ path = None
    BY <1>6
  <2>2. x.kind \in {"none", "file"} /\ x.tok.acct \in {NoAcct, Outside} /\ Claimed(x, gone)
    BY <1>2 DEF Login, Claimed
  <2>3. ~Strayed
    BY <1>2, <2>1, <2>2, ClaimedNothing DEF Strayed, StrayLink
  <2>4. Originals
    BY <1>2, <1>4, <1>5, <2>1, <2>2 DEF Originals
  <2>5. Stubs
    BY <1>2, <1>4, <1>5, <2>1, <2>2 DEF Stubs
  <2> QED
    BY <1>3, <2>3, <2>4, <2>5 DEF SInv, Legacies
<1>7. CASE /\ provider = "claude"
           /\ \E c \in Creds \ Fresh :
                 \/ path = Link(c) /\ sidecar = NoCred
                 \/ path = [Login(c, store[c]) EXCEPT !.kind = "rel"] /\ sidecar = NoCred
                 \/ path = Login(c, store[c]) /\ sidecar = NoCred
                 \/ path = Login(NoCred, store[c]) /\ sidecar = c
           /\ key = IF home = "file" THEN None ELSE Login(NoCred, Seen(path).tok)
  <2>1. PICK c \in Creds \ Fresh :
                 \/ path = Link(c) /\ sidecar = NoCred
                 \/ path = [Login(c, store[c]) EXCEPT !.kind = "rel"] /\ sidecar = NoCred
                 \/ path = Login(c, store[c]) /\ sidecar = NoCred
                 \/ path = Login(NoCred, store[c]) /\ sidecar = c
    BY <1>7
  <2>2. /\ store[c].ver = 1 /\ store[c].acct \notin {Outside, Stub} /\ c # NoCred
        /\ store[c] \in Tok /\ store[c] # NoTok /\ owner[c] = store[c].acct
    BY <1>1, <1>4, Tokens, BlobAssumption DEF Init, NoTok
  <2>3. Loadable(c)
    BY <2>1, <2>2 DEF Loadable
  <2>4. store[c].acct \notin gone /\ store[c].acct # NoAcct
    <3>1. store[c].acct \in Accounts /\ store[c] = [acct |-> store[c].acct, ver |-> 1]
      BY <2>2 DEF Tok
    <3>2. Held(store[c].acct)
      BY <1>1, <2>1, <3>1 DEF Held
    <3> QED
      BY <1>1, <1>2, <3>1, <3>2
  <2>5. Seen(path).tok = store[c]
    BY <1>7, <2>1, <2>2 DEF Seen, Link, Login
  <2>6. /\ path.kind \in {"link", "rel", "file"} /\ Legacy = c
        /\ path.tok \in {NoTok, store[c]}
        /\ path.id = NoCred => path.tok = store[c]
        /\ path.kind = "link" => path.id = c
    BY <2>1, <2>2 DEF Legacy, Link, Login
  <2>7. /\ key.kind # "link" /\ (home = "file" => key = None)
        /\ home = "keychain" => key.id = NoCred /\ key.tok = store[c]
    BY <1>2, <1>7, <2>5 DEF Login
  <2>8. Originals
    BY <1>4, <1>5, <2>7 DEF Originals
  <2>9. Stubs
    BY <1>1, <1>2, <1>4, <1>5, <2>2, <2>6, <2>7 DEF Stubs
  <2>10. Claimed(None, gone)
    BY ClaimedNothing
  <2>11. Legacies
    BY <1>1, <1>7, <2>2, <2>3, <2>4, <2>6, <2>7, <2>10 DEF Legacies, Claimed, Strayed, StrayLink
  <2> QED
    BY <1>3, <2>8, <2>9, <2>11 DEF SInv
<1> QED
  BY <1>6, <1>7 DEF Init

LEMMA SInvStep == IInv /\ SInv /\ [Next]_vars => SInv'
<1> SUFFICES ASSUME IInv, SInv, [Next]_vars PROVE SInv'
  OBVIOUS
<1>1. CASE UNCHANGED vars
  BY <1>1 DEF vars, SInv, Legacies, Originals, Stubs, Carries, Strayed, StrayLink, Claimed,
     Legacy, Loadable
<1> QED
  BY <1>1, CommandSInv, SessionRefreshSInv, CliRotatesSInv, CliLoginSInv, CaptureSInv DEF Next

(* Whatever commands run side by side and whatever dies: what `ccm use`    *)
(* snapshots as the login from before ccm carries no marker and is of an   *)
(* account from outside or one that has been given up.                     *)
THEOREM SnapshotIsFromOutside == Spec => []SnapshotIsTheOriginal
<1>1. IInv /\ SInv => SnapshotIsTheOriginal
  <2> SUFFICES ASSUME IInv, SInv, backup.kind = "file"
               PROVE  /\ backup.id = NoCred
                      /\ \/ backup.tok.acct \in {Outside} \cup (gone \ {Stub})
                         \/ backup.tok.acct = Stub /\ ~clean
    BY DEF SnapshotIsTheOriginal
  <2>1. backup.id = NoCred /\ backup.tok.acct \in {Outside, Stub, NoAcct} \cup gone
    BY DEF SInv, Originals, Claimed
  <2>2. backup.tok.acct # NoAcct
    BY Kinds, Tokens, BlobAssumption DEF IInv, Marks, GoodIn
  <2>3. clean => backup.tok.acct # Stub
    BY DEF SInv, Stubs
  <2> QED
    BY <2>1, <2>2, <2>3 DEF IInv, Control
<1> QED
  BY <1>1, InitIInv, IInvStep, InitSInv, SInvStep, PTL DEF Spec

-------------------------------------------------------------------------------
(* Which provider's commands pass through a place.                         *)
Roles(p) ==
    /\ pc[p] \in {"migrate", "cleanup", "read", "load", "save", "managed", "putback", "unback",
                  "clear", "import"} => provider = "claude"
    /\ pc[p] # "idle" /\ job[p].cmd = "backup" => provider = "claude"
    /\ pc[p] \in {"symlink", "unlink", "rewrite"} => provider = "codex"
Symlinked ==
    provider = "codex" =>
        /\ home = "file" /\ stub = "idle"
        /\ path.id # NoCred => path.kind = "link"

(* No token is newer than what its account's server has issued.            *)
IssuedTok(t) == t = NoTok \/ t.ver <= live[t.acct]
Issued ==
    /\ IssuedTok(path.tok) /\ IssuedTok(key.tok) /\ IssuedTok(backup.tok)
    /\ \A p \in Procs : IssuedTok(held[p].tok)
    /\ \A c \in Creds : IssuedTok(store[c])

(* The entry as it lies there.                                             *)
Raw(b) == IF b = "keychain" THEN key ELSE path

(* While nothing interferes, a marked entry names a stored credential, and *)
(* what the CLI left behind in the file is stored as well.                 *)
InOrder == clean /\ provider = "claude"
Leftover ==
    /\ Loadable(Legacy)
    /\ path.tok = NoTok \/ (path.tok.acct = owner[Legacy] /\ path.tok.ver <= store[Legacy].ver)
    /\ key.id = NoCred \/ \E p \in Procs : pc[p] = "cleanup" /\ held[p] # None
Layout ==
    /\ path.id # NoCred => Loadable(path.id)
    /\ key.id # NoCred => Loadable(key.id)
    /\ path.id # NoCred => Legacy = path.id
    /\ path.kind = "rel" => path.id # NoCred
    /\ key.kind # "rel" /\ backup.kind # "rel"
    /\ home = "keychain" => path = None \/ path.tok.acct = Stub \/ Leftover
    /\ home = "keychain" /\ key = None => backup = None
    /\ ~LoginOverBackup /\ backup # None =>
          Home.id # NoCred \/ \E p \in Procs : pc[p] \in {"activate", "unback"}
    /\ stub # "idle" => path \in {None, Login(NoCred, StubTok)}

Synced == {"run", "inspect", "activate", "isactive", "login", "managed", "putback", "clear"}
Stage(p) ==
    LET r == Raw(be[p])
    IN  /\ pc[p] \in {"idle", "migrate", "read", "run", "login", "managed", "clear", "unback",
                      "delete"} => held[p] = None
        /\ pc[p] # "idle" /\ be[p] = "file" => key = None
        /\ pc[p] = "cleanup" =>
              /\ held[p] # None => held[p] = r /\ r.id # NoCred
              /\ be[p] = "file" => path.kind \notin {"link", "rel"}
              /\ be[p] = "file" /\ path.id = NoCred => ~Loadable(Legacy)
              /\ be[p] = "keychain" /\ held[p] = None => path = None
        /\ pc[p] \notin {"idle", "migrate", "cleanup"} =>
              /\ sidecar = NoCred
              /\ be[p] = "file" => path.kind \notin {"link", "rel"}
              /\ be[p] = "keychain" => path = None
        /\ pc[p] \in {"load", "save"} => held[p] = r /\ r.id # NoCred
        /\ pc[p] = "save" => r.tok.ver > store[r.id].ver
        /\ pc[p] \in Synced /\ r.id # NoCred => r.tok.ver <= store[r.id].ver
        /\ pc[p] \in {"inspect", "activate", "isactive"} =>
              held[p].kind = "file" /\ Loadable(held[p].id) /\ held[p].tok = store[held[p].id]
        /\ pc[p] = "putback" => held[p] = backup /\ r.id # NoCred
        /\ pc[p] = "clear" => backup = None /\ r.id # NoCred
        /\ pc[p] = "unback" => r = backup
        /\ pc[p] = "import" => held[p] = r
        /\ pc[p] = "delete" => path.id # job[p].cred /\ key.id # job[p].cred
        /\ pc[p] = "activate" /\ r.id = NoCred => r = None \/ LoginOverBackup \/ backup.tok = r.tok

QInv ==
    /\ Issued /\ Symlinked
    /\ \A p \in Procs : Roles(p)
    /\ InOrder => Layout /\ \A p \in Procs : Stage(p)

-------------------------------------------------------------------------------
(* Tokens that have been issued.                                           *)

LEMMA GoesIs ==
    ASSUME IInv, NEW p \in Procs, NEW l, NEW x, Goes(p, l, x)
    PROVE  /\ pc'[p] = l /\ held'[p] = x /\ job' = job /\ be' = be
           /\ \A q \in Procs : q # p => pc'[q] = pc[q] /\ held'[q] = held[q]
BY DEF Goes, Goto, Hold, IInv, Control

LEMMA FinishIs ==
    ASSUME IInv, NEW p \in Procs, Finish(p)
    PROVE  /\ pc'[p] = "idle" /\ held'[p] = None
           /\ \A q \in Procs : q # p => /\ pc'[q] = pc[q] /\ held'[q] = held[q]
                                        /\ job'[q] = job[q] /\ be'[q] = be[q]
BY DEF Finish, IInv, Control

(* Tokens are copied from place to place, or minted by the server.         *)
Copies(p) ==
    {path, key, backup, held[p], None, Torn, Entry(be[p])}
        \cup {Link(c) : c \in Creds} \cup {Login(c, store[c]) : c \in Creds}
Copying(p) ==
    /\ live' = live
    /\ path' \in Copies(p) /\ key' \in Copies(p) /\ backup' \in Copies(p) /\ held'[p] \in Copies(p)
    /\ \A c \in Creds : store'[c] \in {store[c], NoTok, held[p].tok}
Minting(p) ==
    /\ UNCHANGED files
    /\ \E c \in Creds :
          LET t == [acct |-> owner[c], ver |-> live[owner[c]] + 1]
          IN  /\ owner[c] \in Accounts
              /\ live' = [live EXCEPT ![owner[c]] = @ + 1] /\ store' = [store EXCEPT ![c] = t]
              /\ held'[p] \in {None, Login(c, t)}

LEMMA CopiesIssued ==
    ASSUME IInv, Issued, NEW p \in Procs, NEW x \in Copies(p)
    PROVE  IssuedTok(x.tok)
<1>1. \A c \in Creds : IssuedTok(store[c])
  BY DEF Issued
<1>2. IssuedTok(NoTok)
  BY DEF IssuedTok
<1>3. IssuedTok(Seen(path).tok)
  <2>1. CASE path.kind = "link"
    BY <1>1, <1>2, <2>1, Kinds DEF Seen, None, Login, IInv, Marks, GoodIn
  <2>2. CASE path.kind = "rel"
    <3>1. path \in [kind : {"file", "rel"}, id : Creds \cup {NoCred}, tok : Tok]
      BY <2>2, Kinds DEF IInv, Marks, GoodIn
    <3>2. Seen(path).tok = path.tok
      BY <2>2, <3>1 DEF Seen
    <3> QED
      BY <3>2 DEF Issued
  <2>3. CASE path.kind \notin {"link", "rel"}
    BY <2>3 DEF Seen, Issued
  <2> QED
    BY <2>1, <2>2, <2>3
<1>4. IssuedTok(Entry(be[p]).tok)
  BY <1>3 DEF Entry, Issued
<1>5. CASE x \in {path, key, backup, held[p], None, Torn, Entry(be[p])}
  BY <1>2, <1>4, <1>5 DEF Issued, None, Torn
<1>6. CASE \E c \in Creds : x = Link(c) \/ x = Login(c, store[c])
  BY <1>1, <1>2, <1>6 DEF Link, Login
<1> QED
  BY <1>5, <1>6 DEF Copies

LEMMA CopyingIssued ==
    ASSUME IInv, Issued, NEW p \in Procs, Copying(p),
           \A q \in Procs : q # p => held'[q] = held[q]
    PROVE  Issued'
<1>1. \A t : IssuedTok(t) => IssuedTok(t)'
  BY DEF IssuedTok, Copying
<1>2. IssuedTok(path'.tok) /\ IssuedTok(key'.tok) /\ IssuedTok(backup'.tok) /\ IssuedTok(held'[p].tok)
  BY CopiesIssued DEF Copying
<1>3. \A c \in Creds : IssuedTok(store'[c])
  BY DEF Copying, Issued, IssuedTok
<1>4. \A q \in Procs : IssuedTok(held'[q].tok)
  BY <1>2 DEF Issued
<1> QED
  BY <1>1, <1>2, <1>3, <1>4 DEF Issued

(* The server of an account hands out one more token.                      *)
LEMMA MintedIssued ==
    ASSUME IInv, NEW a \in Accounts, NEW n, n = [acct |-> a, ver |-> live[a] + 1],
           live' = [live EXCEPT ![a] = live[a] + 1]
    PROVE  /\ \A t \in Tok \cup {NoTok} : IssuedTok(t) => IssuedTok(t)'
           /\ IssuedTok(n)' /\ IssuedTok(NoTok)'
           /\ live[a] \in Nat
<1>1. live[a] \in Nat /\ \A b \in Accounts : live[b] \in Nat
  BY BlobAssumption DEF IInv, Known
<1>2. \A b \in Accounts : live'[b] = IF b = a THEN live[a] + 1 ELSE live[b]
  BY DEF IInv, Known
<1>3. ASSUME NEW t \in Tok, t.ver <= live[t.acct]
      PROVE  t.ver <= live'[t.acct]
  BY <1>1, <1>2, <1>3, Tokens, BlobAssumption
<1>4. \A t \in Tok \cup {NoTok} : IssuedTok(t) => IssuedTok(t)'
  BY <1>3 DEF IssuedTok
<1>5. IssuedTok(n)' /\ IssuedTok(NoTok)'
  BY <1>1, <1>2 DEF IssuedTok
<1> QED
  BY <1>1, <1>4, <1>5

LEMMA MintingIssued ==
    ASSUME IInv, Issued, NEW p \in Procs, Minting(p),
           \A q \in Procs : q # p => held'[q] = held[q]
    PROVE  Issued'
<1>1. PICK c \in Creds :
          LET t == [acct |-> owner[c], ver |-> live[owner[c]] + 1]
          IN  /\ owner[c] \in Accounts
              /\ live' = [live EXCEPT ![owner[c]] = @ + 1] /\ store' = [store EXCEPT ![c] = t]
              /\ held'[p] \in {None, Login(c, t)}
  BY DEF Minting
<1>2. PICK t : t = [acct |-> owner[c], ver |-> live[owner[c]] + 1]
  OBVIOUS
<1>3. /\ owner[c] \in Accounts /\ live' = [live EXCEPT ![owner[c]] = live[owner[c]] + 1]
      /\ store' = [store EXCEPT ![c] = t] /\ held'[p].tok \in {NoTok, t}
  BY <1>1, <1>2 DEF None, Login
<1>4. /\ path.tok \in Tok \cup {NoTok} /\ key.tok \in Tok \cup {NoTok}
      /\ backup.tok \in Tok \cup {NoTok} /\ \A q \in Procs : held[q].tok \in Tok \cup {NoTok}
  BY Kinds DEF IInv, Marks, GoodIn
<1>5. /\ \A u \in Tok \cup {NoTok} : IssuedTok(u) => IssuedTok(u)'
      /\ IssuedTok(t)' /\ IssuedTok(NoTok)'
  BY <1>2, <1>3, MintedIssued
<1>6. IssuedTok(path.tok)' /\ IssuedTok(key.tok)' /\ IssuedTok(backup.tok)'
  BY <1>4, <1>5 DEF Issued, Minting, files, IssuedTok
<1>7. \A d \in Creds : IssuedTok(store[d])'
  BY <1>3, <1>5 DEF Issued, IInv, Known, IssuedTok
<1>8. ASSUME NEW q \in Procs
      PROVE  IssuedTok(held[q].tok)'
  <2>1. CASE q = p
    BY <1>3, <1>5, <2>1 DEF IssuedTok
  <2>2. CASE q # p
    BY <1>4, <1>5, <2>2 DEF Issued, IssuedTok
  <2> QED
    BY <2>1, <2>2
<1> QED
  BY <1>6, <1>7, <1>8 DEF Issued

(* The actions that copy, and those that mint.                             *)
LEMMA CopyingActions ==
    ASSUME IInv, NEW p \in Procs,
           \/ \E cmd \in Commands, c \in Creds : Begin(p, cmd, c)
           \/ Cleanup(p) \/ SyncRead(p) \/ SyncLoad(p) \/ SyncSave(p)
           \/ \E cmd \in Commands : Fail(p, cmd)
           \/ UseSyncAgain(p) \/ Inspect(p) \/ Symlink(p)
           \/ Relogin(p) \/ IsActive(p) \/ RestoreBegin(p) \/ RestoreManaged(p)
           \/ RemoveBackup(p) \/ Unlink(p) \/ Rewrite(p)
           \/ Logout(p) \/ Delete(p) \/ Backup(p) \/ Import(p) \/ Kill(p)
    PROVE  Copying(p)
<1> DEFINE S == {path, key, backup, held[p], None, Torn, Entry(be[p])}
<1>0. S \subseteq Copies(p)
  BY DEF Copies
<1>1. held'[p] \in S
  BY GoesIs, FinishIs
     DEF Begin, Cleanup, SyncRead, SyncLoad, SyncSave, Fail, UseSyncAgain, Inspect, Symlink,
         Relogin, IsActive, RestoreBegin, RestoreManaged, RemoveBackup, Unlink, Rewrite, Left,
         Logout, Delete, Backup, Import, Kill, workVars
<1>2. live' = live
  BY DEF Begin, Cleanup, SyncRead, SyncLoad, SyncSave, Fail, UseSyncAgain, Inspect, Symlink,
         Relogin, IsActive, RestoreBegin, RestoreManaged, RemoveBackup, Unlink, Rewrite,
         Logout, Delete, Backup, Import, Kill, known
<1>3. /\ path' \in S \cup {Link(c) : c \in Creds} /\ key' \in S /\ backup' \in S
  BY DEF Begin, Cleanup, SyncRead, SyncLoad, SyncSave, Fail, UseSyncAgain, Inspect, Symlink,
         Relogin, IsActive, RestoreBegin, RestoreManaged, RemoveBackup, Unlink, Rewrite,
         Logout, Delete, Backup, Import, Kill, files, entryVars, IInv, Sure, Naming
<1>4. \A c \in Creds : store'[c] \in {store[c], NoTok, held[p].tok}
  BY DEF Begin, Cleanup, SyncRead, SyncLoad, SyncSave, Fail, UseSyncAgain, Inspect, Symlink,
         Relogin, IsActive, RestoreBegin, RestoreManaged, RemoveBackup, Unlink, Rewrite,
         Logout, Delete, Backup, Import, Kill, known, IInv, Known
<1> QED
  BY <1>0, <1>1, <1>2, <1>3, <1>4 DEF Copying, Copies

LEMMA MigrateCopying ==
    ASSUME IInv, NEW p \in Procs, Migrate(p)
    PROVE  Copying(p)
<1> DEFINE write == Active(be[p]) = NoCred /\ Loadable(Legacy)
           x == IF write THEN Login(Legacy, store[Legacy]) ELSE None
<1>1. Goes(p, "cleanup", x) /\ UNCHANGED <<fixed, backup, sidecar, known, stub>>
  BY DEF Migrate, Goes, Goto
<1>2. x \in Copies(p)
  BY LoadableGood DEF Copies, IInv
<1>3. held'[p] \in Copies(p)
  BY <1>1, <1>2, GoesIs
<1>4. path' \in Copies(p) /\ key' \in Copies(p)
  <2>1. path \in Copies(p) /\ key \in Copies(p)
    BY DEF Copies
  <2>2. CASE write
    BY <1>2, <2>1, <2>2 DEF Migrate, Put
  <2>3. CASE be[p] = "file" /\ Put("file", Seen(path))
    <3>1. Seen(path) \in Copies(p)
      BY <2>3 DEF Copies, Entry
    <3> QED
      BY <2>1, <2>3, <3>1 DEF Put
  <2>4. CASE UNCHANGED entryVars
    BY <2>1, <2>4 DEF entryVars
  <2> QED
    BY <2>2, <2>3, <2>4 DEF Migrate
<1> QED
  BY <1>1, <1>3, <1>4 DEF Copying, Copies, known

LEMMA PuttingCopying ==
    ASSUME IInv, NEW p \in Procs, Activate(p) \/ PutBack(p) \/ Clear(p)
    PROVE  Copying(p)
<1>1. held'[p] \in {None, held[p]} /\ UNCHANGED <<backup, known>>
  BY GoesIs, FinishIs DEF Activate, PutBack, Clear, Left
<1>2. path' \in {path, held[p], None} /\ key' \in {key, held[p], None}
  BY DEF Activate, PutBack, Clear, Put
<1> QED
  BY <1>1, <1>2 DEF Copying, Copies, known

LEMMA RotatingMints ==
    ASSUME IInv, NEW p \in Procs, NEW c, Rotatable(c), RotateStored(c), UNCHANGED <<files, owner>>,
           held'[p] \in {None, Login(c, Rotated(c))}
    PROVE  Minting(p)
<1>1. c \in Creds /\ owner[c] \in Accounts /\ store[c] \in Tok /\ owner[c] = store[c].acct
      /\ store[c].ver = live[owner[c]]
  BY LoadableGood DEF Rotatable, IInv
<1>2. Rotated(c) = [acct |-> owner[c], ver |-> live[owner[c]] + 1]
  BY <1>1 DEF Rotated, Tok
<1> QED
  BY <1>1, <1>2 DEF Minting, RotateStored

LEMMA CommandTokens ==
    ASSUME IInv, NEW p \in Procs, Command(p)
    PROVE  Copying(p) \/ Minting(p)
<1>1. CASE UseResolve(p)
  <2>1. CASE Goes(p, "inspect", Login(job[p].cred, store[job[p].cred])) /\ UNCHANGED <<store, live>>
    BY <1>1, <2>1, GoesIs DEF UseResolve, Copying, Copies, files, IInv, Control
  <2>2. CASE /\ Rotatable(job[p].cred) /\ RotateStored(job[p].cred)
             /\ Goes(p, "inspect", Login(job[p].cred, Rotated(job[p].cred)))
    BY <1>1, <2>2, GoesIs, RotatingMints DEF UseResolve
  <2> QED
    BY <1>1, <2>1, <2>2 DEF UseResolve
<1>2. CASE Refresh(p)
  <2>1. CASE Finish(p) /\ UNCHANGED <<store, live>>
    BY <1>2, <2>1, FinishIs DEF Refresh, Copying, Copies, files
  <2>2. CASE /\ Rotatable(job[p].cred) /\ RotateStored(job[p].cred)
             /\ Goes(p, "isactive", Login(job[p].cred, Rotated(job[p].cred))) \/ Finish(p)
    BY <1>2, <2>2, GoesIs, FinishIs, RotatingMints DEF Refresh
  <2> QED
    BY <1>2, <2>1, <2>2 DEF Refresh
<1>3. CASE ReloginSave(p)
  <2>1. CASE Finish(p) /\ UNCHANGED <<live, store>>
    BY <1>3, <2>1, FinishIs DEF ReloginSave, Copying, Copies, files
  <2>2. CASE ~(Finish(p) /\ UNCHANGED <<live, store>>)
    <3>1. job[p].cred \in Creds /\ owner[job[p].cred] \in Accounts
      BY <1>3 DEF ReloginSave, IInv, Control, Sure
    <3>2. PICK c, t : c = job[p].cred /\ t = [acct |-> owner[c], ver |-> live[owner[c]] + 1]
      OBVIOUS
    <3>3. /\ live' = [live EXCEPT ![owner[c]] = live[owner[c]] + 1]
          /\ store' = [store EXCEPT ![c] = t] /\ Goes(p, "isactive", Login(c, t))
          /\ UNCHANGED files
      BY <1>3, <2>2, <3>2 DEF ReloginSave
    <3>4. held'[p] = Login(c, t)
      BY <3>3, GoesIs
    <3> QED
      BY <3>1, <3>2, <3>3, <3>4 DEF Minting
  <2> QED
    BY <2>1, <2>2
<1> QED
  BY <1>1, <1>2, <1>3, CopyingActions, MigrateCopying, PuttingCopying DEF Command

LEMMA CommandIssued ==
    ASSUME IInv, Issued, NEW p \in Procs, Command(p)
    PROVE  Issued'
<1>1. \A q \in Procs : q # p => held'[q] = held[q]
  BY CommandOutcome DEF Outcome, Turn
<1> QED
  BY <1>1, CommandTokens, CopyingIssued, MintingIssued

-------------------------------------------------------------------------------
(* The provider's places.                                                  *)

LEMMA CommandRoles ==
    ASSUME IInv, NEW p \in Procs, Roles(p), Command(p)
    PROVE  Roles(p)'
<1>0. provider' = provider /\ provider \in {"claude", "codex"}
  BY CommandOutcome, ProviderIs DEF Outcome, fixed
<1>1. CASE \E cmd \in Commands, c \in Creds : Begin(p, cmd, c)
  BY <1>0, <1>1 DEF Begin, Goto, Roles, IInv, Control
<1>2. CASE UseSyncAgain(p) \/ (Backup(p) /\ Goto(p, "migrate"))
  BY <1>0, <1>2 DEF UseSyncAgain, Backup, Running, Goto, Roles, IInv, Control
<1>3. CASE Inspect(p)
  BY <1>0, <1>3 DEF Inspect, Goto, workVars, Roles, IInv, Control
<1>4. CASE Migrate(p)
  <2>1. job' = job /\ pc'[p] = "cleanup" /\ pc[p] = "migrate"
    BY <1>4 DEF Migrate, Goto, IInv, Control
  <2> QED
    BY <1>0, <2>1 DEF Roles
<1>5. CASE \E l : /\ \/ \E x : Goes(p, l, x)
                     \/ Finish(p) /\ l = "idle"
                  /\ l \in {"migrate", "cleanup", "read", "load", "save", "managed", "putback",
                            "unback", "clear", "import"} => provider = "claude"
                  /\ l \in {"symlink", "unlink", "rewrite"} => provider = "codex"
                  /\ pc[p] # "idle"
  <2>1. PICK l : /\ \/ \E x : Goes(p, l, x)
                    \/ Finish(p) /\ l = "idle"
                 /\ l \in {"migrate", "cleanup", "read", "load", "save", "managed", "putback",
                           "unback", "clear", "import"} => provider = "claude"
                 /\ l \in {"symlink", "unlink", "rewrite"} => provider = "codex"
                 /\ pc[p] # "idle"
    BY <1>5
  <2>2. pc'[p] = l /\ (l = "idle" \/ job' = job)
    BY <2>1, GoesIs, FinishIs
  <2> QED
    BY <1>0, <2>1, <2>2 DEF Roles
<1>6. CASE Cleanup(p) \/ SyncRead(p) \/ SyncLoad(p) \/ SyncSave(p)
  BY <1>5, <1>6 DEF Cleanup, SyncRead, SyncLoad, SyncSave, Roles
<1>7. CASE (\E cmd \in Commands : Fail(p, cmd)) \/ UseResolve(p) \/ Symlink(p)
  BY <1>5, <1>7 DEF Fail, Running, UseResolve, Symlink
<1>8. CASE Refresh(p) \/ Relogin(p) \/ ReloginSave(p) \/ IsActive(p) \/ Delete(p) \/ Import(p)
           \/ Kill(p)
  BY <1>5, <1>8 DEF Refresh, Relogin, ReloginSave, IsActive, Delete, Import, Kill, Running
<1>9. CASE Activate(p)
  BY <1>0, <1>5, <1>9 DEF Activate
<1>10. CASE RestoreBegin(p) \/ Logout(p)
  BY <1>0, <1>5, <1>10 DEF RestoreBegin, Logout, Running
<1>11. CASE RestoreManaged(p) \/ PutBack(p) \/ RemoveBackup(p) \/ Clear(p) \/ Unlink(p) \/ Rewrite(p)
  BY <1>0, <1>5, <1>11 DEF RestoreManaged, PutBack, RemoveBackup, Clear, Unlink, Rewrite, Left, Roles
<1>12. CASE Backup(p) /\ ~Goto(p, "migrate")
  BY <1>5, <1>12 DEF Backup, Running, Roles
<1> QED
  BY <1>1, <1>2, <1>3, <1>4, <1>6, <1>7, <1>8, <1>9, <1>10, <1>11, <1>12 DEF Command

LEMMA CommandSymlinked ==
    ASSUME IInv, SInv, Symlinked, NEW p \in Procs, Roles(p), Command(p)
    PROVE  Symlinked'
<1>1. UNCHANGED <<provider, home, stub>>
  BY CommandOutcome DEF Outcome, fixed
<1>2. SUFFICES ASSUME provider = "codex"
               PROVE  path'.id # NoCred => path'.kind = "link"
  BY <1>1 DEF Symlinked
<1>3. pc[p] \notin {"migrate", "cleanup", "putback", "clear"} /\ provider # "claude"
  BY <1>2 DEF Roles
<1>4. pc[p] = "rewrite" => held[p].id = NoCred
  BY DEF SInv, Carries
<1>5. \/ path' \in {path, None, Torn} \/ \E c \in Creds : path' = Link(c)
      \/ path'.id = NoCred
  <2>1. CASE \/ \E cmd \in Commands, c \in Creds : Begin(p, cmd, c)
             \/ Migrate(p) \/ Cleanup(p) \/ SyncRead(p) \/ SyncLoad(p) \/ SyncSave(p)
             \/ \E cmd \in Commands : Fail(p, cmd)
    BY <1>3, <2>1 DEF Begin, Migrate, Cleanup, SyncRead, SyncLoad, SyncSave, Fail, files
  <2>2. CASE \/ UseSyncAgain(p) \/ UseResolve(p) \/ Inspect(p) \/ Activate(p) \/ Symlink(p)
             \/ Refresh(p) \/ Relogin(p) \/ ReloginSave(p) \/ IsActive(p)
    BY <1>3, <2>2 DEF UseSyncAgain, UseResolve, Inspect, Activate, Symlink, Refresh, Relogin,
       ReloginSave, IsActive, files, entryVars, IInv, Sure, Naming
  <2>3. CASE \/ RestoreBegin(p) \/ RestoreManaged(p) \/ PutBack(p) \/ RemoveBackup(p)
             \/ Clear(p) \/ Unlink(p) \/ Rewrite(p)
    BY <1>3, <1>4, <2>3 DEF RestoreBegin, RestoreManaged, PutBack, RemoveBackup, Clear, Unlink,
       Rewrite, files, entryVars
  <2>4. CASE Logout(p) \/ Delete(p) \/ Backup(p) \/ Import(p) \/ Kill(p)
    BY <2>4 DEF Logout, Delete, Backup, Import, Kill, files
  <2> QED
    BY <2>1, <2>2, <2>3, <2>4 DEF Command
<1>6. None.id = NoCred /\ Torn.id = NoCred /\ \A c : Link(c).kind = "link"
  BY DEF None, Torn, Link
<1> QED
  BY <1>2, <1>5, <1>6 DEF Symlinked

-------------------------------------------------------------------------------
(* Command p runs and nobody else is about.                                *)
Single(p) ==
    /\ clean /\ provider = "claude" /\ stub = "idle"
    /\ \A q \in Procs : q # p => pc[q] = "idle" /\ held[q] = None
    /\ Layout /\ Stage(p) /\ Issued
    /\ path.tok.acct # Stub /\ path \in Contents /\ key \in Contents /\ key.kind # "link"
    /\ home \in {"file", "keychain"} /\ (home = "file" => key = None)
    /\ be[p] \in {"file", "keychain"} /\ (be[p] = "keychain" => home = "keychain")
    /\ job[p].cred \in Creds /\ held[p] \in Contents

LEMMA SingleIs ==
    ASSUME IInv, SInv, QInv, NEW p \in Procs, Alone(p), clean', provider = "claude"
    PROVE  Single(p)
<1>1. clean /\ stub = "idle" /\ \A q \in Procs : q # p => pc[q] = "idle"
  BY AloneIs
<1>2. InOrder /\ Layout /\ \A q \in Procs : Stage(q)
  BY <1>1 DEF QInv, InOrder
<1>3. \A q \in Procs : pc[q] = "idle" => held[q] = None
  BY <1>2 DEF Stage
<1>4. path.tok.acct # Stub
  BY <1>1 DEF SInv, Stubs
<1>5. /\ path \in Contents /\ key \in Contents /\ key.kind # "link"
      /\ home \in {"file", "keychain"} /\ (home = "file" => key = None)
  BY DEF IInv, Marks, GoodIn, SInv, Originals, Control
<1> QED
  BY <1>1, <1>2, <1>3, <1>4, <1>5, HeldIs DEF Single, QInv

NothingThere == None.kind = "none" /\ None.id = NoCred /\ None.tok = NoTok /\ NoTok.acct = NoAcct
LEMMA NothingIs == NothingThere /\ NoAcct # Stub /\ NoCred \notin Creds
BY BlobAssumption DEF NothingThere, None, NoTok

(* Past the clean-up the command sees the entry as it lies there.          *)
Past(p) == pc[p] \notin {"idle", "migrate", "cleanup"}
LEMMA PastIs ==
    ASSUME NEW p \in Procs, Single(p), Past(p)
    PROVE  /\ Entry(be[p]) = Raw(be[p]) /\ Active(be[p]) = Raw(be[p]).id
           /\ sidecar = NoCred
           /\ be[p] = "file" => key = None /\ path.kind \notin {"link", "rel"}
           /\ be[p] = "keychain" => path = None /\ home = "keychain"
           /\ Home = IF be[p] = "file" /\ home = "keychain" THEN None ELSE Raw(be[p])
<1>1. /\ sidecar = NoCred
      /\ be[p] = "file" => key = None /\ path.kind \notin {"link", "rel"}
      /\ be[p] = "keychain" => path = None /\ home = "keychain"
  BY DEF Single, Stage, Past
<1>2. Entry(be[p]) = Raw(be[p])
  BY <1>1 DEF Single, Entry, Raw, Seen
<1>3. Home = IF be[p] = "file" /\ home = "keychain" THEN None ELSE Raw(be[p])
  BY <1>1 DEF Single, Home, Entry, Raw, Seen
<1> QED
  BY <1>1, <1>2, <1>3 DEF Active

(* A command that leaves the files alone leaves them in order.             *)
LEMMA LookLayout ==
    ASSUME NEW p \in Procs, Single(p), UNCHANGED <<fixed, files, known, stub>>,
           pc[p] \notin {"cleanup", "activate", "unback"}
    PROVE  Layout'
<1>1. UNCHANGED <<provider, home, path, key, backup, sidecar, store, owner, live, stub>>
  BY DEF fixed, files, known
<1>2. Legacy' = Legacy /\ Home' = Home /\ \A c : Loadable(c)' <=> Loadable(c)
  BY <1>1 DEF Legacy, Home, Entry, Seen, Loadable
<1>3. Layout /\ \A q \in Procs : pc[q] \notin {"cleanup", "activate", "unback"}
  BY DEF Single
<1> QED
  BY <1>1, <1>2, <1>3 DEF Layout, Leftover, Loadable

LEMMA BeginStage ==
    ASSUME IInv, SInv, QInv, NEW p \in Procs, NEW cmd, NEW c, Begin(p, cmd, c), clean',
           provider = "claude"
    PROVE  Layout' /\ Stage(p)'
<1>1. /\ pc[p] = "idle" /\ pc'[p] = "migrate" /\ be'[p] = Probe /\ held'[p] = held[p]
      /\ UNCHANGED <<fixed, files, known, stub>> /\ Alone(p)
  BY DEF Begin, Goto, IInv, Control
<1>2. Single(p)
  BY <1>1, SingleIs
<1>3. Probe = "file" => key = None
  BY DEF Probe
<1>4. key' = key /\ held[p] = None
  BY <1>1, <1>2 DEF files, Single, Stage
<1>5. Stage(p)'
  BY <1>1, <1>3, <1>4 DEF Stage, Synced
<1> QED
  BY <1>1, <1>2, <1>5, LookLayout

LEMMA AgainStage ==
    ASSUME IInv, SInv, QInv, NEW p \in Procs, clean', provider = "claude",
           UseSyncAgain(p) \/ (Backup(p) /\ Goto(p, "migrate"))
    PROVE  Layout' /\ Stage(p)'
<1>1. /\ pc[p] = "run" /\ pc'[p] = "migrate"
      /\ UNCHANGED <<fixed, files, known, stub>> /\ Alone(p)
  BY DEF UseSyncAgain, Backup, Running, Goto, IInv, Control
<1>2. UNCHANGED <<be, held>>
  <2>1. Backup(p) /\ Goto(p, "migrate") => UNCHANGED <<be, held>>
    BY GoesIs, FinishIs DEF Backup, Goto, IInv, Control, Running
  <2> QED
    BY <2>1 DEF UseSyncAgain
<1>3. Single(p)
  BY <1>1, SingleIs
<1>4. key' = key /\ held[p] = None /\ (be[p] = "file" => key = None)
  BY <1>1, <1>3 DEF files, Single, Stage
<1>5. Stage(p)'
  BY <1>1, <1>2, <1>4 DEF Stage, Synced
<1> QED
  BY <1>1, <1>3, <1>5, LookLayout

LEMMA NamedKind ==
    ASSUME NEW x \in Contents, x.id # NoCred
    PROVE  x.kind \in {"link", "rel", "file"}
<1>1. None.id = NoCred /\ Torn.id = NoCred /\ \A c : Link(c).kind = "link"
  BY DEF None, Torn, Link
<1> QED
  BY <1>1 DEF Contents

LEMMA MigrateStage ==
    ASSUME IInv, SInv, QInv, NEW p \in Procs, Migrate(p), clean', provider = "claude"
    PROVE  Layout' /\ Stage(p)'
<1> DEFINE write == Active(be[p]) = NoCred /\ Loadable(Legacy)
           x == IF write THEN Login(Legacy, store[Legacy]) ELSE None
<1>1. /\ Goes(p, "cleanup", x) /\ Alone(p) /\ UNCHANGED <<fixed, backup, sidecar, known, stub>>
      /\ pc[p] = "migrate"
  BY DEF Migrate, Goes, Goto
<1>2. Single(p)
  BY <1>1, SingleIs
<1>3. /\ pc'[p] = "cleanup" /\ held'[p] = x /\ be' = be
      /\ UNCHANGED <<provider, home, backup, sidecar, store, owner, live, stub>>
      /\ \A c : Loadable(c)' <=> Loadable(c)
  BY <1>1, GoesIs DEF fixed, known, Loadable
<1>4. /\ Layout /\ (be[p] = "file" => key = None) /\ (be[p] = "keychain" => home = "keychain")
      /\ be[p] \in {"file", "keychain"} /\ home \in {"file", "keychain"}
      /\ (home = "file" => key = None) /\ stub = "idle" /\ path.tok.acct # Stub
      /\ \A q \in Procs : pc[q] \notin {"cleanup", "activate", "unback"}
  BY <1>1, <1>2 DEF Single, Stage
<1>5. CASE write
  <2> DEFINE c == Legacy
             y == Login(c, store[c])
  <2>1. /\ c \in Creds /\ store[c] \in Tok /\ store[c].acct = owner[c] /\ Loadable(c)
        /\ store[c].ver \in Nat
    BY <1>5, LoadableGood, Tokens, BlobAssumption DEF IInv
  <2>2. y.kind = "file" /\ y.id = c /\ y.tok = store[c] /\ y # None /\ y.id # NoCred
    BY <2>1, NothingIs DEF Login, NothingThere
  <2>3. Put(be[p], y) /\ held'[p] = y
    BY <1>3, <1>5 DEF Migrate
  <2>4. c = sidecar \/ (sidecar = NoCred /\ c = path.id)
    BY <2>1, NothingIs DEF Legacy
  <2> HIDE DEF c, y
  <2>5. CASE be[p] = "keychain"
    <3>1. key' = y /\ path' = path /\ home = "keychain"
      BY <1>4, <2>3, <2>5 DEF Put
    <3>2. Legacy' = Legacy /\ Home' = y
      BY <1>3, <3>1 DEF Legacy, Home, Entry
    <3>3. Leftover \/ path = None
      BY <1>4, <3>1 DEF Layout, Loadable
    <3>4. path # None => Leftover'
      <4>1. pc'[p] = "cleanup" /\ held'[p] # None
        BY <1>3, <2>2, <2>3
      <4>2. path # None => Loadable(Legacy)'
        BY <1>3, <3>2, <3>3 DEF Leftover, Loadable
      <4> QED
        BY <1>3, <3>1, <3>2, <3>3, <4>1, <4>2 DEF Leftover
    <3>5. Layout'
      <4>1. key'.id # NoCred => Loadable(key.id)'
        BY <1>3, <2>1, <2>2, <3>1 DEF Loadable
      <4>2. /\ path'.id # NoCred => Loadable(path.id)' /\ Legacy' = path'.id
            /\ path'.kind = "rel" => path'.id # NoCred
            /\ backup'.kind # "rel" /\ key'.kind # "rel"
        BY <1>3, <1>4, <2>2, <3>1, <3>2 DEF Layout, Loadable
      <4>3. key' # None /\ Home'.id # NoCred /\ stub' = "idle" /\ (path' = None \/ Leftover')
        BY <1>3, <1>4, <2>2, <3>1, <3>2, <3>4
      <4> QED
        BY <4>1, <4>2, <4>3 DEF Layout, Loadable
    <3>6. Stage(p)'
      BY <1>3, <2>2, <2>3, <2>5, <3>1 DEF Stage, Raw, Synced
    <3> QED
      BY <3>5, <3>6
  <2>6. CASE be[p] = "file"
    <3>1. path' = y /\ key' = key /\ key = None
      BY <1>4, <2>3, <2>6 DEF Put
    <3>2. Legacy' = c
      BY <1>3, <2>2, <2>4, <3>1 DEF Legacy
    <3>3. home = "file" => Home' = y
      BY <1>3, <2>2, <3>1 DEF Home, Entry, Seen
    <3>4. Layout'
      BY <1>3, <1>4, <2>1, <2>2, <3>1, <3>2, <3>3, NothingIs DEF Layout, Leftover, NothingThere
    <3>5. Stage(p)'
      BY <1>3, <2>2, <2>3, <2>6, <3>1 DEF Stage, Raw, Synced
    <3> QED
      BY <3>4, <3>5
  <2> QED
    BY <1>4, <2>5, <2>6
<1>6. CASE ~write /\ Active(be[p]) # NoCred /\ be[p] = "file" /\ path.kind = "rel"
  <2>1. Put("file", Seen(path)) /\ path.kind = "rel" /\ held'[p] = None
    BY <1>3, <1>6 DEF Migrate
  <2>2. path \in [kind : {"file", "rel"}, id : Creds \cup {NoCred}, tok : Tok]
    BY <1>2, <2>1, Kinds DEF Single
  <2>3. /\ path'.kind = "file" /\ path'.id = path.id /\ path'.tok = path.tok /\ key' = key
        /\ path' = Seen(path) /\ path' # None
    BY <2>1, <2>2, NothingIs DEF Put, Seen, NothingThere
  <2>4. Legacy' = Legacy /\ Home' = Home
    BY <1>3, <2>1, <2>3 DEF Legacy, Home, Entry, Seen
  <2>5. Layout'
    <3>1. key.id = NoCred
      BY <1>4, <1>6, NothingIs DEF NothingThere
    <3>2. Leftover => Leftover'
      BY <1>3, <2>1, <2>3, <2>4, <3>1 DEF Leftover, Loadable
    <3>3. path # None
      BY <2>1, NothingIs DEF NothingThere
    <3>4. home' = "keychain" => path'.tok.acct = Stub \/ Leftover'
      BY <1>3, <1>4, <2>1, <2>3, <3>2, <3>3 DEF Layout
    <3>5. /\ path'.id # NoCred => Loadable(path.id)' /\ Legacy' = path'.id
          /\ key'.id # NoCred => Loadable(key.id)'
      BY <1>3, <1>4, <2>3, <2>4 DEF Layout, Loadable
    <3> QED
      BY <1>3, <1>4, <2>3, <2>4, <3>4, <3>5 DEF Layout
  <2>6. path.id # NoCred
    BY <1>4, <2>1 DEF Layout, Loadable
  <2>7. Stage(p)'
    BY <1>3, <1>4, <1>6, <2>1, <2>3, <2>6 DEF Stage, Raw, Synced
  <2> QED
    BY <2>5, <2>7
<1>7. CASE ~write /\ ~(Active(be[p]) # NoCred /\ be[p] = "file" /\ path.kind = "rel")
  <2>1. UNCHANGED <<path, key>> /\ held'[p] = None
    BY <1>3, <1>7 DEF Migrate, entryVars
  <2>2. Legacy' = Legacy /\ Home' = Home
    BY <1>3, <2>1 DEF Legacy, Home, Entry, Seen
  <2>3. Layout'
    BY <1>3, <1>4, <2>1, <2>2 DEF Layout, Leftover, Loadable
  <2>4. be[p] = "file" => path.kind \notin {"link", "rel"}
    <3>1. CASE be[p] = "file" /\ path.kind = "rel"
      <4>1. Active(be[p]) = path.id
        <5>1. path \in [kind : {"file", "rel"}, id : Creds \cup {NoCred}, tok : Tok]
          BY <1>2, <3>1, Kinds DEF Single
        <5> QED
          BY <3>1, <5>1 DEF Active, Entry, Seen
      <4> QED
        BY <1>4, <1>7, <3>1, <4>1 DEF Layout, Loadable
    <3>2. CASE be[p] = "file" /\ path.kind = "link"
      <4>1. Active(be[p]) = NoCred
        BY <1>2, <3>2 DEF Single, Active, Entry, Seen, None, Login
      <4>2. Loadable(Legacy)
        BY <1>2, <1>4, <3>2, Kinds, NothingIs DEF Single, Layout
      <4> QED
        BY <1>7, <4>1, <4>2
    <3> QED
      BY <3>1, <3>2
  <2>5. be[p] = "keychain" => path = None
    <3>1. be[p] = "keychain" => Active(be[p]) = key.id
      BY DEF Active, Entry
    <3> QED
      BY <1>4, <1>7, <3>1 DEF Layout, Leftover, Loadable
  <2>6. be[p] = "file" /\ path.id = NoCred => ~Loadable(Legacy)
    <3>1. be[p] = "file" /\ path.id = NoCred => Active(be[p]) = NoCred
      <4>1. path.kind = "rel" => path.id # NoCred
        BY <1>4 DEF Layout, Loadable
      <4> QED
        BY <1>2, <4>1, <2>4 DEF Active, Entry, Seen
    <3> QED
      BY <1>7, <3>1
  <2>7. Stage(p)'
    BY <1>3, <1>4, <2>1, <2>2, <2>4, <2>5, <2>6 DEF Stage, Raw, Synced
  <2> QED
    BY <2>3, <2>7
<1> QED
  BY <1>5, <1>6, <1>7

LEMMA CleanupStage ==
    ASSUME IInv, SInv, QInv, NEW p \in Procs, Cleanup(p), clean', provider = "claude"
    PROVE  Layout' /\ Stage(p)'
<1>1. /\ Goes(p, "read", None) /\ Alone(p) /\ sidecar' = NoCred /\ pc[p] = "cleanup"
      /\ path' = IF path.kind = "rel" \/ (held[p] # None /\ be[p] = "keychain") THEN None ELSE path
      /\ UNCHANGED <<fixed, key, backup, known, stub>>
  BY DEF Cleanup
<1>2. Single(p)
  BY <1>1, SingleIs
<1>3. /\ pc'[p] = "read" /\ held'[p] = None /\ be' = be
      /\ UNCHANGED <<provider, home, key, backup, store, owner, live, stub>>
      /\ \A c : Loadable(c)' <=> Loadable(c)
  BY <1>1, GoesIs DEF fixed, known, Loadable
<1>4. /\ Layout /\ (be[p] = "file" => key = None) /\ (be[p] = "keychain" => home = "keychain")
      /\ be[p] \in {"file", "keychain"} /\ home \in {"file", "keychain"}
      /\ (home = "file" => key = None) /\ stub = "idle" /\ path.tok.acct # Stub
      /\ be[p] = "file" => path.kind \notin {"link", "rel"}
      /\ be[p] = "keychain" /\ held[p] = None => path = None
      /\ held[p] # None => held[p] = Raw(be[p]) /\ held[p].id # NoCred
      /\ be[p] = "file" /\ path.id = NoCred => ~Loadable(Legacy)
      /\ \A q \in Procs : pc[q] \notin {"activate", "unback"} /\ (q # p => pc[q] # "cleanup")
  BY <1>1, <1>2 DEF Single, Stage
<1>5. CASE be[p] = "keychain"
  <2>1. path' = None
    BY <1>1, <1>4, <1>5, NothingIs DEF NothingThere
  <2>2. Home' = Home
    BY <1>3, <1>4, <1>5 DEF Home, Entry
  <2>3. Layout'
    BY <1>3, <1>4, <2>1, <2>2, NothingIs DEF Layout, NothingThere
  <2>4. Stage(p)'
    BY <1>1, <1>3, <1>5, <2>1 DEF Stage, Synced
  <2> QED
    BY <2>3, <2>4
<1>6. CASE be[p] = "file"
  <2>1. path' = path
    BY <1>1, <1>4, <1>6
  <2>2. Home' = Home
    BY <1>3, <2>1 DEF Home, Entry, Seen
  <2>3. path'.id # NoCred => Legacy = path'.id /\ Legacy' = path'.id
    <3>1. path.id # NoCred => path.kind \in {"link", "rel", "file"}
      BY <1>2, NamedKind DEF Single
    <3> QED
      BY <1>1, <1>4, <2>1, <3>1 DEF Legacy, Layout
  <2>4. Leftover /\ home = "keychain" /\ path # None => Leftover'
    <3>1. ASSUME Leftover, home = "keychain", path # None
          PROVE  Leftover'
      <4>1. path.id # NoCred
        BY <1>4, <1>6, <3>1 DEF Leftover, Loadable
      <4>2. key'.id = NoCred
        BY <1>3, <1>4, <1>6, NothingIs DEF NothingThere
      <4>3. Loadable(Legacy)'
        BY <1>3, <2>1, <2>3, <3>1, <4>1 DEF Leftover, Loadable
      <4>4. Legacy' = Legacy
        BY <1>4, <2>1, <2>3, <4>1 DEF Layout
      <4> QED
        BY <1>3, <2>1, <3>1, <4>2, <4>3, <4>4 DEF Leftover, Loadable
    <3> QED
      BY <3>1
  <2>5. Layout'
    <3>1. /\ path'.id # NoCred => Loadable(path.id)' /\ Legacy' = path'.id
          /\ path'.kind = "rel" => path'.id # NoCred
          /\ key'.id # NoCred => Loadable(key.id)'
          /\ key'.kind # "rel" /\ backup'.kind # "rel" /\ stub' = "idle"
      BY <1>3, <1>4, <2>1, <2>3 DEF Layout, Loadable
    <3>2. home' = "keychain" => path' = None \/ path'.tok.acct = Stub \/ Leftover'
      BY <1>3, <1>4, <2>1, <2>4 DEF Layout, Loadable
    <3>3. home' = "keychain" /\ key' = None => backup' = None
      BY <1>3, <1>4 DEF Layout, Loadable
    <3>4. ~LoginOverBackup /\ backup' # None => Home'.id # NoCred
      BY <1>3, <1>4, <2>2, <1>1 DEF Layout, Loadable
    <3> QED
      BY <3>1, <3>2, <3>3, <3>4 DEF Layout, Loadable
  <2>6. Stage(p)'
    BY <1>1, <1>3, <1>4, <1>6, <2>1 DEF Stage, Synced
  <2> QED
    BY <2>5, <2>6
<1> QED
  BY <1>4, <1>5, <1>6

-------------------------------------------------------------------------------
(* What a command past the clean-up may leave behind at be[p].             *)
Settled(p, r, st, own) ==
    /\ r \in Contents /\ r.kind \notin {"link", "rel"}
    /\ r.id # NoCred => /\ r.id \in Creds /\ st[r.id] # NoTok /\ st[r.id].acct = own[r.id]
                        /\ own[r.id] = r.tok.acct
    /\ home = "keychain" /\ be[p] = "file" =>
          r = None \/ (r.id # NoCred /\ r.tok.ver <= st[r.id].ver)
Lies(p, r) ==
    IF be[p] = "keychain" THEN key' = r /\ path' = None ELSE path' = r /\ key' = None

LEMMA SettledLayout ==
    ASSUME NEW p \in Procs, Single(p), Past(p), UNCHANGED <<fixed, stub>>, sidecar' = NoCred,
           NEW r, Lies(p, r), Settled(p, r, store', owner'), backup'.kind # "rel",
           home = "keychain" /\ (be[p] = "file" \/ r = None) => backup' = None,
           ~LoginOverBackup /\ backup' # None => r.id # NoCred \/ pc'[p] \in {"activate", "unback"}
    PROVE  Layout'
<1>1. UNCHANGED <<provider, home>> /\ stub' = "idle" /\ home \in {"file", "keychain"}
      /\ be[p] \in {"file", "keychain"} /\ (be[p] = "keychain" => home = "keychain")
  BY DEF fixed, Single
<1>2. r.id # NoCred => r.kind = "file"
  BY NamedKind DEF Settled
<1>3. r.id # NoCred => Loadable(path.id)' \/ path'.id # r.id
  BY DEF Settled, Loadable
<1>4. r.id # NoCred => Loadable(key.id)' \/ key'.id # r.id
  BY DEF Settled, Loadable
<1>5. /\ path'.id # NoCred => Loadable(path.id)'
      /\ key'.id # NoCred => Loadable(key.id)'
      /\ path'.kind # "rel" /\ key'.kind # "rel"
  BY <1>1, <1>3, <1>4, NothingIs DEF Lies, NothingThere, Settled
<1>6. path'.id # NoCred => Legacy' = path'.id
  BY <1>1, <1>2, NothingIs DEF Lies, NothingThere, Legacy
<1>7. home = "keychain" => path' = None \/ Leftover'
  <2>1. CASE be[p] = "keychain"
    BY <2>1 DEF Lies
  <2>2. CASE be[p] = "file" /\ home = "keychain" /\ r # None
    <3>1. /\ path' = r /\ key' = None /\ r.id # NoCred /\ r.tok.ver <= store'[r.id].ver
          /\ owner'[r.id] = r.tok.acct
      BY <2>2 DEF Lies, Settled
    <3>2. Legacy' = r.id
      BY <1>6, <3>1
    <3>3. Loadable(Legacy)'
      BY <3>1, <3>2 DEF Loadable, Settled
    <3> QED
      BY <3>1, <3>2, <3>3, NothingIs DEF Leftover, NothingThere
  <2> QED
    BY <1>1, <2>1, <2>2 DEF Lies
<1>8. home = "keychain" /\ key' = None => backup' = None
  BY <1>1 DEF Lies
<1>9. ~LoginOverBackup /\ backup' # None =>
         Home'.id # NoCred \/ \E q \in Procs : pc'[q] \in {"activate", "unback"}
  <2>1. ~(home = "keychain" /\ be[p] = "file") => Home' = r
    BY <1>1 DEF Lies, Settled, Home, Entry, Seen
  <2> QED
    BY <1>1, <2>1
<1> QED
  BY <1>1, <1>5, <1>6, <1>7, <1>8, <1>9 DEF Layout

(* What lies there before the step is settled too.                         *)
LEMMA RawSettled ==
    ASSUME IInv, NEW p \in Procs, Single(p), Past(p)
    PROVE  /\ Raw(be[p]) = IF be[p] = "keychain" THEN key ELSE path
           /\ be[p] = "keychain" => path = None
           /\ be[p] # "keychain" => key = None
           /\ Settled(p, Raw(be[p]), store, owner)
           /\ Raw(be[p]) \in Contents /\ Raw(be[p]).kind \notin {"link", "rel"}
           /\ Raw(be[p]).id # NoCred => Loadable(Raw(be[p]).id) /\ Raw(be[p]).kind = "file"
                                        /\ owner[Raw(be[p]).id] = Raw(be[p]).tok.acct
           /\ home = "keychain" /\ (be[p] = "file" \/ Raw(be[p]) = None) => backup = None
           /\ home = "keychain" /\ be[p] = "file" => Raw(be[p]) = None \/ Raw(be[p]).id # NoCred
           /\ ~LoginOverBackup /\ backup # None =>
                 Raw(be[p]).id # NoCred \/ pc[p] \in {"activate", "unback"}
<1> DEFINE r == Raw(be[p])
<1>1. r = IF be[p] = "keychain" THEN key ELSE path
  BY DEF Raw
<1>2. /\ be[p] \in {"file", "keychain"} /\ (be[p] = "keychain" => home = "keychain")
      /\ sidecar = NoCred /\ stub = "idle" /\ path.tok.acct # Stub
      /\ (be[p] = "keychain" => path = None) /\ (be[p] = "file" => key = None)
      /\ Layout /\ home \in {"file", "keychain"}
  BY PastIs DEF Single
<1>3. r \in Contents /\ r.kind \notin {"link", "rel"}
  BY <1>1, <1>2, PastIs DEF Single, Layout
<1>4. r.id # NoCred => r.kind = "file" /\ Loadable(r.id)
  BY <1>1, <1>2, <1>3, NamedKind DEF Layout
<1>5. r.id # NoCred => owner[r.id] = r.tok.acct
  BY <1>1, <1>4 DEF IInv, Marks, GoodIn
<1>6. home = "keychain" /\ be[p] = "file" => r = None \/ r.id # NoCred
  <2>1. Leftover => path.id # NoCred
    BY <1>2, BlobAssumption DEF Leftover, Loadable, Legacy
  <2> QED
    BY <1>1, <1>2, <2>1 DEF Layout
<1>7. home = "keychain" /\ (be[p] = "file" \/ r = None) => backup = None
  BY <1>1, <1>2 DEF Layout
<1>8. Settled(p, r, store, owner)
  <2>1. home = "keychain" /\ be[p] = "file" /\ r # None => r.tok.ver <= store[r.id].ver
    <3>1. r.kind = "file" => r.tok # NoTok
      BY <1>3, Kinds, Tokens
    <3> QED
      BY <1>1, <1>2, <1>4, <1>6, <3>1 DEF Layout, Leftover
  <2> QED
    BY <1>3, <1>4, <1>5, <1>6, <2>1 DEF Settled, Loadable
<1>9. ~LoginOverBackup /\ backup # None => r.id # NoCred \/ pc[p] \in {"activate", "unback"}
  <2>1. ~(home = "keychain" /\ be[p] = "file") => Home = r
    BY PastIs
  <2>2. \A q \in Procs : q # p => pc[q] = "idle"
    BY DEF Single
  <2> QED
    BY <1>2, <1>7, <2>1, <2>2 DEF Layout
<1> QED
  BY <1>1, <1>2, <1>3, <1>4, <1>5, <1>6, <1>7, <1>8, <1>9

-------------------------------------------------------------------------------
(* What stage l asks of a command that holds x.                            *)
Ready(p, l, x, r, st, own, bk) ==
    /\ l \notin {"idle", "migrate", "cleanup"}
    /\ l \in {"read", "run", "login", "managed", "clear", "unback", "delete"} => x = None
    /\ l \in {"load", "save"} => x = r /\ r.id # NoCred
    /\ l = "save" => r.tok.ver > st[r.id].ver
    /\ l \in Synced /\ r.id # NoCred => r.tok.ver <= st[r.id].ver
    /\ l \in {"inspect", "activate", "isactive"} =>
          /\ x.kind = "file" /\ x.id \in Creds
          /\ st[x.id] # NoTok /\ st[x.id].acct = own[x.id] /\ x.tok = st[x.id]
    /\ l = "putback" => x = bk /\ r.id # NoCred
    /\ l = "clear" => bk = None /\ r.id # NoCred
    /\ l = "unback" => r = bk
    /\ l = "import" => x = r
    /\ l = "delete" => r.id # job[p].cred
    /\ l = "activate" /\ r.id = NoCred => r = None \/ LoginOverBackup \/ bk.tok = r.tok
Reaches(p, r) ==
    \/ pc'[p] = "idle" /\ held'[p] = None
    \/ /\ Ready(p, pc'[p], held'[p], r, store', owner', backup')
       /\ job'[p] = job[p] /\ be'[p] = be[p]

LEMMA ReachesStage ==
    ASSUME NEW p \in Procs, Single(p), sidecar' = NoCred,
           NEW r, Lies(p, r), r.kind \notin {"link", "rel"}, Reaches(p, r)
    PROVE  Stage(p)'
<1>1. CASE pc'[p] = "idle" /\ held'[p] = None
  BY <1>1 DEF Stage, Synced
<1>2. CASE /\ Ready(p, pc'[p], held'[p], r, store', owner', backup')
           /\ job'[p] = job[p] /\ be'[p] = be[p]
  <2>1. Raw(be[p])' = r
    BY <1>2 DEF Raw, Lies
  <2>2. be[p] \in {"file", "keychain"} /\ job[p].cred \in Creds
    BY DEF Single
  <2>3. /\ be'[p] = "file" => key' = None /\ path'.kind \notin {"link", "rel"}
        /\ be'[p] = "keychain" => path' = None
    BY <1>2 DEF Lies
  <2>4. pc'[p] = "delete" => path'.id # job'[p].cred /\ key'.id # job'[p].cred
    BY <1>2, <2>2, NothingIs DEF Lies, Ready, NothingThere
  <2>5. pc'[p] \in {"inspect", "activate", "isactive"} => Loadable(held[p].id)'
    BY <1>2 DEF Ready, Loadable
  <2> QED
    BY <1>2, <2>1, <2>3, <2>4, <2>5 DEF Stage, Ready
<1> QED
  BY <1>1, <1>2 DEF Reaches

(* One step of a command past the clean-up.                                *)
Leaves(p, r) ==
    /\ UNCHANGED <<fixed, stub, sidecar>>
    /\ Lies(p, r) /\ Settled(p, r, store', owner') /\ backup'.kind # "rel"
    /\ home = "keychain" /\ (be[p] = "file" \/ r = None) => backup' = None
    /\ ~LoginOverBackup /\ backup' # None => r.id # NoCred \/ pc'[p] \in {"activate", "unback"}
    /\ Reaches(p, r)
LEMMA LeavesStage ==
    ASSUME NEW p \in Procs, Single(p), Past(p), NEW r, Leaves(p, r)
    PROVE  Layout' /\ Stage(p)'
<1>1. sidecar' = NoCred
  BY PastIs DEF Leaves
<1>2. r.kind \notin {"link", "rel"}
  BY DEF Leaves, Settled
<1> QED
  BY <1>1, <1>2, SettledLayout, ReachesStage DEF Leaves

(* The command looks, and goes on with what it has seen.                   *)
LEMMA LookStage ==
    ASSUME IInv, NEW p \in Procs, Single(p), Past(p), UNCHANGED <<fixed, files, known, stub>>,
           pc[p] \notin {"activate", "unback"}, Reaches(p, Raw(be[p]))
    PROVE  Layout' /\ Stage(p)'
<1> DEFINE r == Raw(be[p])
<1>1. UNCHANGED <<fixed, path, key, backup, sidecar, store, owner, live, stub>>
  BY DEF files, known
<1>2. Lies(p, r)
  BY <1>1, RawSettled DEF Lies
<1>3. Settled(p, r, store', owner')
  BY <1>1, RawSettled
<1>4. backup'.kind # "rel"
  BY <1>1 DEF Single, Layout
<1>5. /\ home = "keychain" /\ (be[p] = "file" \/ r = None) => backup' = None
      /\ ~LoginOverBackup /\ backup' # None => r.id # NoCred
  BY <1>1, RawSettled
<1> QED
  BY <1>1, <1>2, <1>3, <1>4, <1>5, LeavesStage DEF Leaves

LEMMA SyncStage ==
    ASSUME IInv, SInv, QInv, NEW p \in Procs, SyncRead(p) \/ SyncLoad(p), clean', provider = "claude"
    PROVE  Layout' /\ Stage(p)'
<1> DEFINE r == Raw(be[p])
<1>1. /\ UNCHANGED <<fixed, files, known, stub>> /\ Alone(p) /\ pc[p] \in {"read", "load"}
  BY DEF SyncRead, SyncLoad
<1>2. Single(p) /\ Past(p)
  BY <1>1, SingleIs DEF Past
<1>3. UNCHANGED <<store, owner, backup>>
  BY <1>1 DEF known, files
<1>4. Active(be[p]) = r.id /\ Entry(be[p]) = r
  BY <1>2, PastIs
<1>5. pc[p] = "load" => held[p] = r /\ r.id # NoCred
  BY <1>2 DEF Single, Stage
<1>6. r.id # NoCred => Loadable(r.id) /\ r.tok.ver \in Int /\ store[r.id].ver \in Int
  <2>1. r \in Contents /\ (r.id # NoCred => Loadable(r.id) /\ r.kind = "file")
    BY <1>2, RawSettled
  <2> QED
    BY <2>1, Kinds, Tokens, BlobAssumption DEF Loadable, IInv, Known
<1>7. ASSUME Goes(p, "run", None), r.id = NoCred \/ r.tok.ver <= store[r.id].ver
      PROVE  Reaches(p, r)
  BY <1>3, <1>7, GoesIs DEF Reaches, Ready
<1>8. Finish(p) => Reaches(p, r)
  BY FinishIs DEF Reaches
<1>9. Goes(p, "load", r) /\ r.id # NoCred => Reaches(p, r)
  BY GoesIs DEF Reaches, Ready, Synced
<1>10. Goes(p, "save", r) /\ r.id # NoCred /\ r.tok.ver > store[r.id].ver => Reaches(p, r)
  BY <1>3, GoesIs DEF Reaches, Ready, Synced
<1>11. CASE SyncRead(p)
  <2>1. Reaches(p, r)
    BY <1>4, <1>7, <1>8, <1>9, <1>11 DEF SyncRead
  <2> QED
    BY <1>1, <1>2, <2>1, LookStage
<1>12. CASE SyncLoad(p)
  <2>1. pc[p] = "load" /\ held[p] = r /\ Loadable(r.id) /\ r.id # NoCred
    BY <1>5, <1>6, <1>12 DEF SyncLoad
  <2>2. Reaches(p, r)
    BY <1>6, <1>7, <1>8, <1>10, <1>12, <2>1 DEF SyncLoad
  <2> QED
    BY <1>1, <1>2, <2>2, LookStage
<1> QED
  BY <1>11, <1>12

LEMMA SyncSaveStage ==
    ASSUME IInv, SInv, QInv, NEW p \in Procs, SyncSave(p), clean', provider = "claude"
    PROVE  Layout' /\ Stage(p)'
<1> DEFINE r == Raw(be[p])
<1>1. /\ UNCHANGED <<fixed, files, owner, live, stub>> /\ Alone(p) /\ pc[p] = "save"
      /\ store' = [store EXCEPT ![held[p].id] = held[p].tok]
      /\ Finish(p) \/ Goes(p, "run", None)
  BY DEF SyncSave
<1>2. Single(p) /\ Past(p)
  BY <1>1, SingleIs DEF Past
<1>3. held[p] = r /\ r.id # NoCred
  BY <1>1, <1>2 DEF Single, Stage
<1>4. UNCHANGED <<path, key, backup, sidecar>>
  BY <1>1 DEF files
<1>5. r.id \in Creds /\ r.tok \in Tok /\ owner[r.id] = r.tok.acct /\ r \in Contents
  BY <1>2, <1>3, RawSettled, Kinds DEF Loadable
<1>6. store'[r.id] = r.tok /\ r.tok # NoTok /\ r.tok.ver \in Int
  BY <1>1, <1>3, <1>5, Tokens, BlobAssumption DEF IInv, Known
<1>7. Lies(p, r) /\ Settled(p, r, store', owner')
  BY <1>1, <1>2, <1>3, <1>4, <1>5, <1>6, RawSettled DEF Lies, Settled
<1>8. Reaches(p, r)
  BY <1>1, <1>6, GoesIs, FinishIs DEF Reaches, Ready
<1>9. backup'.kind # "rel" /\ (home = "keychain" /\ (be[p] = "file" \/ r = None) => backup' = None)
  BY <1>2, <1>4, RawSettled DEF Single, Layout
<1> QED
  BY <1>1, <1>2, <1>3, <1>4, <1>7, <1>8, <1>9, LeavesStage DEF Leaves

-------------------------------------------------------------------------------
(* Commands that go on without touching the files.                         *)
LEMMA TurnStage ==
    ASSUME IInv, SInv, QInv, NEW p \in Procs, clean', provider = "claude",
           \/ \E cmd \in Commands : Fail(p, cmd)
           \/ Relogin(p) \/ IsActive(p) \/ RestoreBegin(p) \/ RestoreManaged(p) \/ Logout(p)
           \/ (Backup(p) /\ ~Goto(p, "migrate"))
    PROVE  Layout' /\ Stage(p)'
<1> DEFINE r == Raw(be[p])
<1>1. /\ UNCHANGED <<fixed, files, known, stub>> /\ Alone(p)
      /\ pc[p] \in {"run", "isactive", "managed"}
  BY DEF Fail, Relogin, IsActive, RestoreBegin, RestoreManaged, Logout, Backup, Running
<1>2. Single(p) /\ Past(p)
  BY <1>1, SingleIs DEF Past
<1>3. UNCHANGED <<store, owner, backup>>
  BY <1>1 DEF known, files
<1>4. Active(be[p]) = r.id /\ Entry(be[p]) = r
  BY <1>2, PastIs
<1>5. r.id # NoCred => r.tok.ver <= store[r.id].ver
  BY <1>1, <1>2 DEF Single, Stage, Synced
<1>6. pc[p] = "isactive" => /\ held[p].kind = "file" /\ Loadable(held[p].id)
                            /\ held[p].tok = store[held[p].id]
  BY <1>2 DEF Single, Stage
<1>7. Finish(p) => Reaches(p, r)
  BY FinishIs DEF Reaches
<1>8. Goes(p, "delete", None) /\ r.id # job[p].cred => Reaches(p, r)
  BY GoesIs DEF Reaches, Ready, Synced
<1>9. Left(p) /\ r.id = NoCred => Reaches(p, r)
  BY <1>2, <1>7, <1>8, NothingIs DEF Left, Single
<1>10. Goes(p, "managed", None) \/ Goes(p, "login", None) => Reaches(p, r)
  BY <1>3, <1>5, GoesIs DEF Reaches, Ready, Synced
<1>11. CASE (\E cmd \in Commands : Fail(p, cmd)) \/ Relogin(p) \/ RestoreBegin(p)
  <2>1. Reaches(p, r)
    BY <1>7, <1>10, <1>11 DEF Fail, Relogin, RestoreBegin
  <2> QED
    BY <1>1, <1>2, <2>1, LookStage
<1>12. CASE IsActive(p)
  <2>1. Goes(p, "activate", held[p]) /\ r.id = job[p].cred /\ pc[p] = "isactive" => Reaches(p, r)
    BY <1>2, <1>3, <1>5, <1>6, GoesIs, NothingIs DEF Reaches, Ready, Synced, Loadable, Single
  <2>2. Reaches(p, r)
    BY <1>4, <1>7, <1>12, <2>1 DEF IsActive
  <2> QED
    BY <1>1, <1>2, <2>2, LookStage
<1>13. CASE RestoreManaged(p)
  <2>1. Goes(p, "clear", None) /\ r.id # NoCred /\ backup = None => Reaches(p, r)
    BY <1>3, <1>5, GoesIs DEF Reaches, Ready, Synced
  <2>2. Goes(p, "putback", backup) /\ r.id # NoCred => Reaches(p, r)
    BY <1>3, <1>5, GoesIs DEF Reaches, Ready, Synced
  <2>3. Reaches(p, r)
    BY <1>4, <1>9, <1>13, <2>1, <2>2 DEF RestoreManaged
  <2> QED
    BY <1>1, <1>2, <2>3, LookStage
<1>14. CASE Logout(p)
  <2>1. Reaches(p, r)
    BY <1>4, <1>8, <1>10, <1>14 DEF Logout
  <2> QED
    BY <1>1, <1>2, <2>1, LookStage
<1>15. CASE Backup(p) /\ ~Goto(p, "migrate")
  <2>1. Goes(p, "import", r) => Reaches(p, r)
    BY GoesIs DEF Reaches, Ready, Synced
  <2>2. Reaches(p, r)
    BY <1>4, <1>7, <1>15, <2>1 DEF Backup
  <2> QED
    BY <1>1, <1>2, <2>2, LookStage
<1> QED
  BY <1>11, <1>12, <1>13, <1>14, <1>15

(* Commands that renew a stored credential, by a refresh or a login.       *)
LEMMA RenewStage ==
    ASSUME IInv, SInv, QInv, NEW p \in Procs, Single(p), Past(p), pc[p] \in Synced \ {"activate"},
           UNCHANGED <<fixed, files, owner, stub>>,
           NEW c \in Creds, NEW t, t \in Tok, t.acct = owner[c],
           store' = [store EXCEPT ![c] = t],
           Loadable(c) => store[c].ver <= t.ver,
           \/ Finish(p)
           \/ Goes(p, "inspect", Login(c, t)) \/ Goes(p, "isactive", Login(c, t))
    PROVE  Layout' /\ Stage(p)'
<1> DEFINE r == Raw(be[p])
<1>1. UNCHANGED <<fixed, path, key, backup, sidecar, owner, stub>>
  BY DEF files
<1>2. store'[c] = t /\ (\A d \in Creds : d # c => store'[d] = store[d]) /\ t # NoTok
  BY Tokens DEF IInv, Known
<1>3. r.id # NoCred => r.tok.ver <= store[r.id].ver
  BY DEF Single, Stage, Synced
<1>4. /\ r.id # NoCred => Loadable(r.id) /\ r.tok.ver \in Int /\ store[r.id].ver \in Int
      /\ t.ver \in Int
  <2>1. r \in Contents /\ (r.id # NoCred => Loadable(r.id) /\ r.kind = "file")
    BY RawSettled
  <2> QED
    BY <2>1, Kinds, Tokens, BlobAssumption DEF Loadable, IInv, Known
<1>5. r.id # NoCred => /\ r.tok.ver <= store'[r.id].ver /\ r.id \in Creds /\ store'[r.id] # NoTok
                       /\ store'[r.id].acct = owner[r.id]
  <2>1. CASE r.id = c
    BY <1>2, <1>3, <1>4, <2>1
  <2>2. CASE r.id # c
    BY <1>2, <1>3, <1>4, <2>2 DEF Loadable
  <2> QED
    BY <2>1, <2>2
<1>6. Lies(p, r) /\ Settled(p, r, store', owner')
  BY <1>1, <1>5, RawSettled DEF Lies, Settled
<1>7. Reaches(p, r)
  <2>1. /\ Login(c, t).kind = "file" /\ Login(c, t).id = c /\ Login(c, t).tok = t
    BY DEF Login
  <2> QED
    BY <1>1, <1>2, <1>5, <2>1, GoesIs, FinishIs DEF Reaches, Ready
<1>8. /\ backup'.kind # "rel"
      /\ home = "keychain" /\ (be[p] = "file" \/ r = None) => backup' = None
      /\ ~LoginOverBackup /\ backup' # None => r.id # NoCred \/ pc'[p] \in {"activate", "unback"}
  BY <1>1, RawSettled DEF Single, Layout, Synced
<1> QED
  BY <1>1, <1>6, <1>7, <1>8, LeavesStage DEF Leaves

LEMMA RotateRenews ==
    ASSUME IInv, NEW c, Rotatable(c), RotateStored(c)
    PROVE  /\ c \in Creds /\ Rotated(c) \in Tok /\ Rotated(c).acct = owner[c]
           /\ store' = [store EXCEPT ![c] = Rotated(c)] /\ store[c].ver <= Rotated(c).ver
<1>1. c \in Creds /\ store[c] \in Tok
  BY LoadableGood DEF Rotatable, IInv
<1>2. store[c].ver \in Int
  BY <1>1, Tokens, BlobAssumption
<1>3. Rotated(c).ver = store[c].ver + 1
  BY <1>1 DEF Rotated, Tok
<1> QED
  BY <1>1, <1>2, <1>3, RotatableGood DEF IInv, RotateStored

LEMMA ResolveStage ==
    ASSUME IInv, SInv, QInv, NEW p \in Procs, UseResolve(p) \/ Refresh(p), clean',
           provider = "claude"
    PROVE  Layout' /\ Stage(p)'
<1> DEFINE c == job[p].cred
<1>1. /\ UNCHANGED <<fixed, files, owner, stub>> /\ Alone(p) /\ pc[p] = "run" /\ Loadable(c)
      /\ \/ Rotatable(c) /\ RotateStored(c)
         \/ UNCHANGED <<store, live>>
  BY DEF UseResolve, Refresh, Running, Rotatable
<1>2. Single(p) /\ Past(p) /\ pc[p] \in Synced \ {"activate"} /\ c \in Creds
  BY <1>1, SingleIs DEF Past, Synced, Single
<1>3. CASE Rotatable(c) /\ RotateStored(c) /\
           (Goes(p, "inspect", Login(c, Rotated(c))) \/ Goes(p, "isactive", Login(c, Rotated(c))))
  BY <1>1, <1>2, <1>3, RotateRenews, RenewStage
<1>4. CASE UNCHANGED <<store, live>> /\ (Goes(p, "inspect", Login(c, store[c])) \/ Finish(p))
  <2>1. store' = [store EXCEPT ![c] = store[c]] /\ store[c] \in Tok /\ store[c].acct = owner[c]
    BY <1>1, <1>2, <1>4, LoadableGood DEF IInv, Known
  <2>2. store[c].ver <= store[c].ver
    BY <2>1, Tokens, BlobAssumption
  <2> QED
    BY <1>1, <1>2, <1>4, <2>1, <2>2, RenewStage
<1> QED
  BY <1>3, <1>4 DEF UseResolve, Refresh

LEMMA ReloginSaveStage ==
    ASSUME IInv, SInv, QInv, NEW p \in Procs, ReloginSave(p), clean', provider = "claude"
    PROVE  Layout' /\ Stage(p)'
<1> DEFINE c == job[p].cred
           t == [acct |-> owner[c], ver |-> live[owner[c]] + 1]
<1>1. /\ UNCHANGED <<fixed, files, owner, stub>> /\ Alone(p) /\ pc[p] = "login"
      /\ \/ /\ live[owner[c]] < MaxVer /\ store' = [store EXCEPT ![c] = t]
            /\ Goes(p, "isactive", Login(c, t))
         \/ Finish(p) /\ UNCHANGED <<live, store>>
  BY DEF ReloginSave
<1>2. Single(p) /\ Past(p) /\ pc[p] \in Synced \ {"activate"} /\ c \in Creds
  BY <1>1, SingleIs DEF Past, Synced, Single
<1>3. owner[c] \in Accounts
  BY <1>1 DEF IInv, Sure
<1>4. live[owner[c]] \in 1..MaxVer /\ MaxVer \in Nat
  BY <1>3, BlobAssumption DEF IInv, Known
<1>5. CASE Goes(p, "isactive", Login(c, t)) /\ store' = [store EXCEPT ![c] = t]
           /\ live[owner[c]] < MaxVer
  <2>1. t \in Tok /\ t.acct = owner[c]
    BY <1>3, <1>4, <1>5, Tokens
  <2>2. Loadable(c) => store[c].ver <= t.ver
    <3>1. Loadable(c) => store[c].ver <= live[owner[c]] /\ store[c].ver \in Int
      BY LoadableGood, Tokens, BlobAssumption DEF QInv, Issued, IssuedTok, IInv
    <3> QED
      BY <1>4, <3>1
  <2> QED
    BY <1>1, <1>2, <1>5, <2>1, <2>2, RenewStage
<1>6. CASE Finish(p) /\ UNCHANGED <<live, store>>
  <2>1. Single(p) /\ UNCHANGED <<fixed, files, known, stub>>
    BY <1>1, <1>2, <1>6 DEF known
  <2> QED
    BY <1>1, <1>2, <1>6, <2>1, FinishIs, LookStage DEF Reaches
<1> QED
  BY <1>1, <1>5, <1>6

LEMMA InspectStage ==
    ASSUME IInv, SInv, QInv, NEW p \in Procs, Inspect(p), clean', provider = "claude"
    PROVE  Layout' /\ Stage(p)'
<1> DEFINE r == Raw(be[p])
<1>1. /\ UNCHANGED <<fixed, entryVars, sidecar, known, stub, workVars, gone>>
      /\ Alone(p) /\ pc[p] = "inspect" /\ pc'[p] = "activate"
      /\ backup' = IF Original(be[p]) THEN Entry(be[p]) ELSE backup
  BY DEF Inspect, Goto, IInv, Control
<1>2. Single(p) /\ Past(p)
  BY <1>1, SingleIs DEF Past
<1>3. UNCHANGED <<path, key, sidecar, store, owner, job, be, held>>
  BY <1>1 DEF entryVars, known, workVars
<1>4. Active(be[p]) = r.id /\ Entry(be[p]) = r
  BY <1>2, PastIs
<1>5. backup' = IF r # None /\ r.id = NoCred /\ backup = None THEN r ELSE backup
  BY <1>1, <1>4 DEF Original
<1>6. /\ r.id # NoCred => r.tok.ver <= store[r.id].ver
      /\ held[p].kind = "file" /\ Loadable(held[p].id) /\ held[p].tok = store[held[p].id]
  BY <1>1, <1>2 DEF Single, Stage, Synced
<1>7. Lies(p, r) /\ Settled(p, r, store', owner')
  BY <1>2, <1>3, RawSettled DEF Lies
<1>8. backup'.kind # "rel" /\ (home = "keychain" /\ (be[p] = "file" \/ r = None) => backup' = None)
  <2>1. backup.kind # "rel" /\ r.kind # "rel"
    BY <1>2, RawSettled DEF Single, Layout
  <2>2. home = "keychain" /\ (be[p] = "file" \/ r = None) => backup = None
    BY <1>2, RawSettled
  <2>3. home = "keychain" /\ be[p] = "file" => r = None \/ r.id # NoCred
    BY <1>2, RawSettled
  <2> QED
    BY <1>5, <2>1, <2>2, <2>3
<1>9. r.id = NoCred => r = None \/ LoginOverBackup \/ backup'.tok = r.tok
  BY <1>1, <1>2, <1>5, RawSettled
<1>10. Reaches(p, r)
  BY <1>1, <1>3, <1>6, <1>9 DEF Reaches, Ready, Loadable
<1> QED
  BY <1>1, <1>2, <1>3, <1>7, <1>8, <1>10, LeavesStage DEF Leaves

LEMMA ActivateStage ==
    ASSUME IInv, SInv, QInv, NEW p \in Procs, Activate(p), clean', provider = "claude"
    PROVE  Layout' /\ Stage(p)'
<1> DEFINE r == held[p]
<1>1. /\ UNCHANGED <<fixed, backup, sidecar, known, stub>> /\ Alone(p) /\ pc[p] = "activate"
      /\ Put(be[p], r) /\ Finish(p)
  BY DEF Activate
<1>2. Single(p) /\ Past(p)
  BY <1>1, SingleIs DEF Past
<1>3. r.kind = "file" /\ Loadable(r.id) /\ r.tok = store[r.id] /\ r \in Contents
  BY <1>1, <1>2 DEF Single, Stage
<1>4. r.id \in Creds /\ r.id # NoCred /\ r # None /\ r.tok.ver \in Int
  BY <1>3, LoadableGood, NothingIs, Tokens, BlobAssumption DEF NothingThere, IInv
<1>5. UNCHANGED <<store, owner>>
  BY <1>1 DEF known
<1>6. Lies(p, r)
  BY <1>1, <1>2, RawSettled DEF Lies, Put, Single
<1>7. Settled(p, r, store', owner')
  BY <1>3, <1>4, <1>5 DEF Settled, Loadable
<1>8. backup'.kind # "rel" /\ (home = "keychain" /\ (be[p] = "file" \/ r = None) => backup' = None)
  BY <1>1, <1>2, <1>4, RawSettled DEF Single, Layout
<1>9. Reaches(p, r)
  BY <1>1, FinishIs DEF Reaches
<1> QED
  BY <1>1, <1>2, <1>4, <1>6, <1>7, <1>8, <1>9, LeavesStage DEF Leaves

LEMMA PutBackStage ==
    ASSUME IInv, SInv, QInv, NEW p \in Procs, PutBack(p) \/ RemoveBackup(p) \/ Clear(p), clean',
           provider = "claude"
    PROVE  Layout' /\ Stage(p)'
<1> DEFINE r == Raw(be[p])
<1>1. /\ UNCHANGED <<fixed, sidecar, known, stub>> /\ Alone(p)
      /\ pc[p] \in {"putback", "unback", "clear"}
  BY DEF PutBack, RemoveBackup, Clear
<1>2. Single(p) /\ Past(p)
  BY <1>1, SingleIs DEF Past
<1>3. UNCHANGED <<store, owner>> /\ job[p].cred \in Creds
  BY <1>1, <1>2 DEF known, Single
<1>4. backup \in Contents /\ backup.id = NoCred /\ backup.kind \notin {"link", "rel"}
  <2>1. backup \in Contents /\ backup.id = NoCred
    BY DEF IInv, Marks, GoodIn, SInv, Originals
  <2> QED
    BY <1>2, <2>1, Kinds, NothingIs DEF Single, Layout
<1>5. None \in Contents /\ None.kind = "none" /\ None.id = NoCred /\ NoCred \notin Creds
  BY NothingIs DEF NothingThere, Contents
<1>6. ASSUME NEW x, Finish(p) \/ Goes(p, "delete", None), x.id = NoCred
      PROVE  Reaches(p, x)
  BY <1>3, <1>5, <1>6, GoesIs, FinishIs DEF Reaches, Ready, Synced
<1>7. CASE PutBack(p)
  <2>1. /\ pc[p] = "putback" /\ Put(be[p], held[p]) /\ Goes(p, "unback", None)
        /\ backup' = backup
    BY <1>7 DEF PutBack
  <2>2. held[p] = backup
    BY <1>2, <2>1 DEF Single, Stage
  <2>3. Lies(p, backup)
    BY <1>2, <2>1, <2>2, RawSettled DEF Lies, Put
  <2>4. home = "keychain" /\ be[p] = "file" => backup = None
    BY <1>2, RawSettled
  <2>5. Settled(p, backup, store', owner')
    BY <1>4, <2>4 DEF Settled
  <2>6. Reaches(p, backup)
    BY <2>1, GoesIs DEF Reaches, Ready, Synced
  <2>7. pc'[p] = "unback"
    BY <2>1, GoesIs
  <2> QED
    BY <1>1, <1>2, <1>4, <2>1, <2>3, <2>4, <2>5, <2>6, <2>7, LeavesStage DEF Leaves
<1>8. CASE RemoveBackup(p)
  <2>1. /\ pc[p] = "unback" /\ Left(p) /\ backup' = None /\ UNCHANGED <<path, key>>
    BY <1>8 DEF RemoveBackup, entryVars
  <2>2. r = backup
    BY <1>2, <2>1 DEF Single, Stage
  <2>3. Lies(p, r) /\ Settled(p, r, store', owner')
    BY <1>2, <1>3, <2>1, RawSettled DEF Lies
  <2>4. Reaches(p, r)
    BY <1>4, <1>6, <2>1, <2>2 DEF Left
  <2> QED
    BY <1>1, <1>2, <1>5, <2>1, <2>3, <2>4, LeavesStage DEF Leaves
<1>9. CASE Clear(p)
  <2>1. /\ pc[p] = "clear" /\ Left(p) /\ Put(be[p], None) /\ backup' = backup
    BY <1>9 DEF Clear
  <2>2. backup = None
    BY <1>2, <2>1 DEF Single, Stage
  <2>3. Lies(p, None)
    BY <1>2, <2>1, RawSettled DEF Lies, Put
  <2>4. Settled(p, None, store', owner')
    BY <1>5 DEF Settled
  <2>5. Reaches(p, None)
    BY <1>5, <1>6, <2>1 DEF Left
  <2> QED
    BY <1>1, <1>2, <1>5, <2>1, <2>2, <2>3, <2>4, <2>5, LeavesStage DEF Leaves
<1> QED
  BY <1>7, <1>8, <1>9

LEMMA DeleteStage ==
    ASSUME IInv, SInv, QInv, NEW p \in Procs, Delete(p) \/ Import(p), clean', provider = "claude"
    PROVE  Layout' /\ Stage(p)'
<1> DEFINE r == Raw(be[p])
<1>1. /\ UNCHANGED <<fixed, files, live, stub>> /\ Alone(p) /\ Finish(p)
      /\ pc[p] \in {"delete", "import"}
  BY DEF Delete, Import
<1>2. Single(p) /\ Past(p)
  BY <1>1, SingleIs DEF Past
<1>3. UNCHANGED <<path, key, backup, sidecar>>
  BY <1>1 DEF files
<1>4. Settled(p, r, store, owner) /\ (r.id # NoCred => Loadable(r.id))
  BY <1>2, RawSettled
<1>5. r.id # NoCred => store'[r.id] = store[r.id] /\ owner'[r.id] = owner[r.id]
  <2>1. CASE Delete(p)
    <3>1. /\ pc[p] = "delete" /\ store' = [store EXCEPT ![job[p].cred] = NoTok]
          /\ owner' = owner
      BY <2>1 DEF Delete
    <3>2. r.id # NoCred => r.id # job[p].cred
      BY <1>2, <3>1, RawSettled DEF Single, Stage
    <3> QED
      BY <1>4, <3>1, <3>2 DEF IInv, Known, Loadable
  <2>2. CASE Import(p)
    <3>1. PICK c \in Fresh : /\ owner[c] = NoAcct
                             /\ store' = [store EXCEPT ![c] = held[p].tok]
                             /\ owner' = [owner EXCEPT ![c] = held[p].tok.acct]
      BY <2>2 DEF Import
    <3>2. r.id # NoCred => r.id # c
      BY <1>4, <3>1, LoadableGood, BlobAssumption DEF IInv
    <3> QED
      BY <1>4, <3>1, <3>2 DEF IInv, Known, Loadable
  <2> QED
    BY <2>1, <2>2
<1>6. Lies(p, r) /\ Settled(p, r, store', owner')
  BY <1>2, <1>3, <1>4, <1>5, RawSettled DEF Lies, Settled
<1>7. Reaches(p, r)
  BY <1>1, FinishIs DEF Reaches
<1>8. /\ backup'.kind # "rel"
      /\ home = "keychain" /\ (be[p] = "file" \/ r = None) => backup' = None
      /\ ~LoginOverBackup /\ backup' # None => r.id # NoCred \/ pc'[p] \in {"activate", "unback"}
  BY <1>1, <1>2, <1>3, RawSettled DEF Single, Layout
<1> QED
  BY <1>1, <1>2, <1>3, <1>6, <1>7, <1>8, LeavesStage DEF Leaves

LEMMA CommandStage ==
    ASSUME IInv, SInv, QInv, NEW p \in Procs, Command(p), clean', provider = "claude"
    PROVE  Layout' /\ Stage(p)'
<1>1. pc[p] \notin {"symlink", "unlink", "rewrite"}
  BY DEF QInv, Roles
<1>2. CASE (\E cmd \in Commands, c \in Creds : Begin(p, cmd, c)) \/ Migrate(p) \/ Cleanup(p)
  BY <1>2, BeginStage, MigrateStage, CleanupStage
<1>3. CASE SyncRead(p) \/ SyncLoad(p) \/ SyncSave(p)
  BY <1>3, SyncStage, SyncSaveStage
<1>4. CASE \/ \E cmd \in Commands : Fail(p, cmd)
           \/ Relogin(p) \/ IsActive(p) \/ RestoreBegin(p) \/ RestoreManaged(p) \/ Logout(p)
  BY <1>4, TurnStage
<1>5. CASE Backup(p) \/ UseSyncAgain(p)
  BY <1>5, TurnStage, AgainStage
<1>6. CASE UseResolve(p) \/ Refresh(p) \/ ReloginSave(p) \/ Inspect(p) \/ Activate(p)
  BY <1>6, ResolveStage, ReloginSaveStage, InspectStage, ActivateStage
<1>7. CASE PutBack(p) \/ RemoveBackup(p) \/ Clear(p) \/ Delete(p) \/ Import(p)
  BY <1>7, PutBackStage, DeleteStage
<1>8. CASE Symlink(p) \/ Unlink(p) \/ Rewrite(p) \/ Kill(p)
  <2>1. ~Kill(p)
    BY DEF Kill
  <2> QED
    BY <1>1, <1>8, <2>1 DEF Symlink, Unlink, Rewrite
<1> QED
  BY <1>2, <1>3, <1>4, <1>5, <1>6, <1>7, <1>8 DEF Command

(* What everybody else needs to keep.                                      *)
LEMMA IdleStage ==
    ASSUME NEW q \in Procs, pc'[q] = "idle", held'[q] = None
    PROVE  Stage(q)'
BY DEF Stage, Synced

LEMMA CommandQInv ==
    ASSUME IInv, SInv, QInv, NEW p \in Procs, Command(p)
    PROVE  QInv'
<1>1. Issued'
  BY CommandIssued DEF QInv
<1>2. Symlinked'
  BY CommandSymlinked DEF QInv
<1>3. /\ UNCHANGED <<provider, home>>
      /\ \A q \in Procs : q # p => pc'[q] = pc[q] /\ held'[q] = held[q] /\ job'[q] = job[q]
  BY CommandOutcome DEF Outcome, fixed, Turn
<1>4. \A q \in Procs : Roles(q)'
  BY <1>3, CommandRoles DEF QInv, Roles
<1>5. InOrder' => Layout' /\ \A q \in Procs : Stage(q)'
  <2>1. SUFFICES ASSUME clean', provider = "claude"
                 PROVE  Layout' /\ \A q \in Procs : Stage(q)'
    BY <1>3 DEF InOrder
  <2>2. Layout' /\ Stage(p)'
    BY <2>1, CommandStage
  <2>3. clean /\ \A q \in Procs : q # p => pc[q] = "idle"
    BY <2>1, CommandOutcome, BlobAssumption DEF Outcome, Clean, InFlight, IInv, Control
  <2>4. \A q \in Procs : q # p => held[q] = None
    BY <2>1, <2>3 DEF QInv, InOrder, Stage
  <2>5. \A q \in Procs : q # p => Stage(q)'
    BY <1>3, <2>3, <2>4, IdleStage
  <2> QED
    BY <2>2, <2>5
<1> QED
  BY <1>1, <1>2, <1>4, <1>5 DEF QInv

-------------------------------------------------------------------------------
(* Everybody else: one more token, and nobody is about.                    *)
LEMMA MintedEverywhere ==
    ASSUME IInv, Issued, NEW a \in Accounts, NEW n, n = [acct |-> a, ver |-> live[a] + 1],
           live' = [live EXCEPT ![a] = live[a] + 1],
           path'.tok \in {path.tok, n}, key'.tok \in {key.tok, n}, UNCHANGED <<backup, held>>,
           \A c \in Creds : store'[c] \in {store[c], n}
    PROVE  Issued'
<1>1. /\ \A t \in Tok \cup {NoTok} : IssuedTok(t) => IssuedTok(t)'
      /\ IssuedTok(n)' /\ IssuedTok(NoTok)'
  BY MintedIssued
<1>2. /\ path.tok \in Tok \cup {NoTok} /\ key.tok \in Tok \cup {NoTok}
      /\ backup.tok \in Tok \cup {NoTok} /\ \A q \in Procs : held[q].tok \in Tok \cup {NoTok}
      /\ \A c \in Creds : store[c] \in Tok \cup {NoTok}
  BY Kinds DEF IInv, Marks, GoodIn, Known
<1>3. IssuedTok(path.tok)'
  BY <1>1, <1>2 DEF Issued, IssuedTok
<1>4. IssuedTok(key.tok)'
  BY <1>1, <1>2 DEF Issued, IssuedTok
<1>5. IssuedTok(backup.tok)' /\ \A q \in Procs : IssuedTok(held[q].tok)'
  BY <1>1, <1>2 DEF Issued, IssuedTok
<1>6. \A c \in Creds : IssuedTok(store[c])'
  BY <1>1, <1>2 DEF Issued, IssuedTok
<1> QED
  BY <1>3, <1>4, <1>5, <1>6 DEF Issued

LEMMA NobodyAbout ==
    ASSUME IInv, QInv, Bystander \/ clean' = (clean /\ InFlight \subseteq {"capture"}), clean'
    PROVE  /\ clean /\ (Bystander => stub = "idle") /\ \A q \in Procs : pc[q] = "idle"
           /\ provider = "claude" => Layout /\ \A q \in Procs : held[q] = None
<1>1. clean /\ (Bystander => stub = "idle") /\ \A q \in Procs : pc[q] = "idle"
  <2>1. clean /\ InFlight \subseteq {"capture"} /\ (Bystander => InFlight = {})
    BY DEF Bystander, IInv, Control
  <2>2. \A q \in Procs : pc[q] # "idle" => q \in InFlight
    BY DEF InFlight
  <2>3. stub # "idle" => "capture" \in InFlight
    BY DEF InFlight
  <2> QED
    BY <2>1, <2>2, <2>3, BlobAssumption
<1> QED
  BY <1>1 DEF QInv, InOrder, Stage

LEMMA RolesStay ==
    ASSUME QInv, UNCHANGED <<fixed, procVars>>
    PROVE  \A q \in Procs : Roles(q)'
BY DEF QInv, Roles, fixed, procVars

LEMMA SessionRefreshQInv ==
    ASSUME IInv, SInv, QInv, NEW c \in Creds, SessionRefresh(c)
    PROVE  QInv'
<1>1. /\ UNCHANGED <<provider, home, path, key, backup, sidecar, owner, stub, pc, job, be, held>>
      /\ Bystander /\ Rotatable(c) /\ RotateStored(c)
  BY DEF SessionRefresh, fixed, files, procVars
<1>2. /\ owner[c] \in Accounts /\ Rotated(c) = [acct |-> owner[c], ver |-> live[owner[c]] + 1]
      /\ store' = [store EXCEPT ![c] = Rotated(c)] /\ store[c].ver <= Rotated(c).ver
      /\ live' = [live EXCEPT ![owner[c]] = live[owner[c]] + 1] /\ Rotated(c) \in Tok
  <2>1. store[c] \in Tok /\ owner[c] = store[c].acct /\ store[c].ver = live[owner[c]]
    BY <1>1, LoadableGood DEF Rotatable, IInv
  <2>2. Rotated(c) = [acct |-> owner[c], ver |-> live[owner[c]] + 1]
    BY <2>1 DEF Rotated, Tok
  <2> QED
    BY <1>1, <2>2, RotatableGood, RotateRenews DEF IInv, RotateStored
<1>3. Issued'
  <2>1. \A d \in Creds : store'[d] \in {store[d], Rotated(c)}
    BY <1>2 DEF IInv, Known
  <2> HIDE DEF Rotated
  <2>2. PICK n : n = Rotated(c)
    OBVIOUS
  <2> QED
    BY <1>1, <1>2, <2>1, <2>2, MintedEverywhere DEF QInv
<1>4. Symlinked' /\ \A q \in Procs : Roles(q)'
  BY <1>1, RolesStay DEF QInv, Symlinked, fixed, procVars
<1>5. ASSUME InOrder' PROVE Layout' /\ \A q \in Procs : Stage(q)'
  <2>1. Layout /\ stub = "idle" /\ \A q \in Procs : pc[q] = "idle" /\ held[q] = None
    BY <1>1, <1>5, NobodyAbout DEF InOrder
  <2>2. \A d : Loadable(d) => /\ d \in Creds /\ store'[d] # NoTok /\ store'[d].acct = owner'[d]
                              /\ store[d].ver <= store'[d].ver
    <3>1. ASSUME NEW d, Loadable(d), d # c
          PROVE  store'[d] = store[d] /\ store[d].ver \in Int
      BY <1>2, <3>1, LoadableGood, Tokens, BlobAssumption DEF IInv, Known
    <3>2. store'[c] = Rotated(c) /\ Rotated(c) # NoTok
      BY <1>2, Tokens DEF IInv, Known
    <3>3. Rotated(c).acct = owner[c]
      BY <1>1, RotatableGood DEF IInv
    <3> HIDE DEF Rotated
    <3> QED
      BY <1>1, <1>2, <3>1, <3>2, <3>3 DEF Loadable
  <2>3. Legacy' = Legacy
    BY <1>1 DEF Legacy
  <2>4. Home'.id = Home.id
    <3>1. CASE path.kind = "link"
      BY <1>1, <1>5, <3>1, NothingIs DEF InOrder, Home, Entry, Seen, Login, NothingThere
    <3>2. CASE path.kind # "link"
      BY <1>1, <3>2 DEF Home, Entry, Seen
    <3> QED
      BY <3>1, <3>2
  <2>5. Leftover => Leftover'
    <3>1. ASSUME Leftover PROVE Loadable(Legacy)'
      BY <2>2, <2>3, <3>1 DEF Leftover, Loadable
    <3>2. ASSUME Leftover, path.tok # NoTok
          PROVE  path.tok.acct = owner'[Legacy] /\ path.tok.ver <= store'[Legacy].ver
      <4>1. /\ path.tok \in Tok /\ store[Legacy] \in Tok /\ store'[Legacy] \in Tok \cup {NoTok}
            /\ store'[Legacy] # NoTok
        BY <1>2, <2>2, <3>2, Kinds, LoadableGood DEF Leftover, IInv, Marks, GoodIn, Known
      <4>2. path.tok.ver \in Int /\ store[Legacy].ver \in Int /\ store'[Legacy].ver \in Int
        BY <4>1, Tokens, BlobAssumption
      <4> QED
        BY <1>1, <2>2, <3>2, <4>2 DEF Leftover
    <3>3. Leftover => key'.id = NoCred
      BY <1>1, <2>1 DEF Leftover
    <3> QED
      BY <1>1, <2>3, <3>1, <3>2, <3>3 DEF Leftover
  <2>6. /\ path.id # NoCred => Loadable(path.id)'
        /\ key.id # NoCred => Loadable(key.id)'
    BY <1>1, <2>1, <2>2 DEF Layout, Loadable
  <2>7. Layout'
    BY <1>1, <2>1, <2>3, <2>4, <2>5, <2>6 DEF Layout
  <2> QED
    BY <1>1, <2>1, <2>7, IdleStage
<1> QED
  BY <1>3, <1>4, <1>5 DEF QInv

(* The CLI's own refresh puts one more token of its account where it was.  *)
LEMMA CliRotatesIs ==
    ASSUME IInv, CliRotates
    PROVE  \E a \in Accounts : LET n == [acct |-> a, ver |-> live[a] + 1]
                               IN  /\ live' = [live EXCEPT ![a] = live[a] + 1]
                                   /\ Put(home, Login(Home.id, n))
                                   /\ Home.kind = "file" /\ (home = "file" => path.kind = "file" /\ Home = path)
                                   /\ Home.tok = [acct |-> a, ver |-> live[a]]
                                   /\ (Home.id # NoCred => owner[Home.id] = a)
<1> DEFINE x == Home
           a == x.tok.acct
           n == [acct |-> a, ver |-> live[a] + 1]
<1>1. GoodIn(x, owner) /\ x.kind = "file"
  BY EntryGood DEF CliRotates, IInv, Home
<1>2. /\ x.tok \in Tok
      /\ x \in [kind : {"file", "rel"}, id : Creds \cup {NoCred}, tok : Tok]
  BY <1>1, Kinds DEF GoodIn
<1>3. a \in Accounts /\ x.tok.ver = live[a]
  BY <1>2, Tokens DEF CliRotates
<1>4. [x.tok EXCEPT !.ver = x.tok.ver + 1] = n /\ x.tok = [acct |-> a, ver |-> live[a]]
  BY <1>2, <1>3 DEF Tok
<1>5. [x EXCEPT !.tok = [x.tok EXCEPT !.ver = x.tok.ver + 1]] = Login(x.id, n)
  BY <1>1, <1>2, <1>4 DEF Login
<1>6. Put(home, Login(x.id, n)) /\ live' = [live EXCEPT ![a] = live[a] + 1]
  BY <1>5 DEF CliRotates
<1>7. home = "file" => path.kind = "file" /\ Home = path
  BY DEF CliRotates, Home, Entry, Seen
<1>8. x.id # NoCred => owner[x.id] = a
  BY <1>1 DEF GoodIn
<1>9. /\ live' = [live EXCEPT ![a] = live[a] + 1] /\ Put(home, Login(Home.id, n))
      /\ Home.kind = "file" /\ (home = "file" => path.kind = "file" /\ Home = path)
      /\ Home.tok = [acct |-> a, ver |-> live[a]] /\ (Home.id # NoCred => owner[Home.id] = a)
  BY <1>1, <1>4, <1>6, <1>7, <1>8
<1> HIDE DEF a
<1> QED
  BY <1>3, <1>9

LEMMA CliRotatesQInv ==
    ASSUME IInv, SInv, QInv, CliRotates
    PROVE  QInv'
<1>1. PICK a \in Accounts : LET n == [acct |-> a, ver |-> live[a] + 1]
                            IN  /\ live' = [live EXCEPT ![a] = live[a] + 1]
                                /\ Put(home, Login(Home.id, n))
                                /\ Home.kind = "file" /\ (home = "file" => path.kind = "file" /\ Home = path)
  BY CliRotatesIs
<1>2. PICK n : n = [acct |-> a, ver |-> live[a] + 1]
  OBVIOUS
<1>3. /\ UNCHANGED <<provider, home, backup, sidecar, store, owner, stub, pc, job, be, held>>
      /\ Bystander
  BY DEF CliRotates, fixed, procVars
<1>4. PICK x : x = Login(Home.id, n)
  OBVIOUS
<1>5. x.kind = "file" /\ x.id = Home.id /\ x.tok = n
  BY <1>4 DEF Login
<1>6. /\ Put(home, x) /\ Home.kind = "file" /\ (home = "file" => path.kind = "file" /\ Home = path)
      /\ live' = [live EXCEPT ![a] = live[a] + 1] /\ home \in {"file", "keychain"}
  BY <1>1, <1>2, <1>4 DEF IInv, Control
<1>7. Issued'
  <2>1. path'.tok \in {path.tok, n} /\ key'.tok \in {key.tok, n}
    BY <1>5, <1>6 DEF Put
  <2> QED
    BY <1>2, <1>3, <1>6, <2>1, MintedEverywhere DEF QInv
<1>8. Symlinked' /\ \A q \in Procs : Roles(q)'
  <2>1. \A q \in Procs : Roles(q)'
    BY <1>3, RolesStay DEF fixed, procVars
  <2> QED
    BY <1>3, <1>5, <1>6, <2>1 DEF QInv, Symlinked, Put
<1>9. ASSUME InOrder' PROVE Layout' /\ \A q \in Procs : Stage(q)'
  <2>1. Layout /\ stub = "idle" /\ \A q \in Procs : pc[q] = "idle" /\ held[q] = None
    BY <1>3, <1>9, NobodyAbout DEF InOrder
  <2>2. CASE home = "keychain"
    <3>1. path' = path /\ key' = x /\ Home = key /\ Home' = x
      BY <1>3, <1>6, <2>2 DEF Put, Home, Entry
    <3>2. Legacy' = Legacy /\ x # None /\ key # None
      BY <1>3, <1>5, <1>6, <3>1, NothingIs DEF Legacy, NothingThere
    <3>3. Leftover => Leftover'
      BY <1>3, <1>5, <2>1, <3>1, <3>2 DEF Leftover, Loadable
    <3> QED
      BY <1>3, <1>5, <2>1, <3>1, <3>2, <3>3, IdleStage DEF Layout, Loadable
  <2>3. CASE home = "file"
    <3>1. path' = x /\ key' = key /\ Home = path /\ Home' = x
      BY <1>3, <1>5, <1>6, <2>3 DEF Put, Home, Entry, Seen
    <3>2. Legacy' = Legacy
      BY <1>3, <1>5, <1>6, <2>3, <3>1 DEF Legacy
    <3> QED
      BY <1>3, <1>5, <2>1, <2>3, <3>1, <3>2, IdleStage DEF Layout, Loadable
  <2> QED
    BY <1>6, <2>2, <2>3
<1> QED
  BY <1>7, <1>8, <1>9 DEF QInv

LEMMA CliLoginQInv ==
    ASSUME IInv, SInv, QInv, CliLogin
    PROVE  QInv'
<1>1. PICK n : n = [acct |-> Outside, ver |-> live[Outside] + 1]
  OBVIOUS
<1>2. PICK x : x = Login(NoCred, n)
  OBVIOUS
<1>3. /\ UNCHANGED <<provider, home, backup, sidecar, store, owner, stub, pc, job, be, held>>
      /\ Bystander /\ (LoginOverBackup \/ backup = None) /\ path.kind \in {"none", "file"}
      /\ live' = [live EXCEPT ![Outside] = live[Outside] + 1] /\ Put(home, x)
  BY <1>1, <1>2 DEF CliLogin, fixed, procVars
<1>4. x.kind = "file" /\ x.id = NoCred /\ x.tok = n /\ x # None /\ home \in {"file", "keychain"}
  BY <1>2, NothingIs DEF Login, NothingThere, IInv, Control
<1>5. Issued'
  <2>1. path'.tok \in {path.tok, n} /\ key'.tok \in {key.tok, n}
    BY <1>3, <1>4 DEF Put
  <2> QED
    BY <1>1, <1>3, <2>1, MintedEverywhere, BlobAssumption DEF QInv
<1>6. Symlinked' /\ \A q \in Procs : Roles(q)'
  <2>1. \A q \in Procs : Roles(q)'
    BY <1>3, RolesStay DEF fixed, procVars
  <2> QED
    BY <1>3, <1>4, <2>1 DEF QInv, Symlinked, Put
<1>7. ASSUME InOrder' PROVE Layout' /\ \A q \in Procs : Stage(q)'
  <2>1. Layout /\ stub = "idle" /\ \A q \in Procs : pc[q] = "idle" /\ held[q] = None
    BY <1>3, <1>7, NobodyAbout DEF InOrder
  <2>2. CASE home = "keychain"
    <3>1. path' = path /\ key' = x
      BY <1>3, <2>2 DEF Put
    <3>2. Legacy' = Legacy
      BY <1>3, <3>1 DEF Legacy
    <3>3. Leftover => Leftover'
      BY <1>3, <1>4, <3>1, <3>2 DEF Leftover, Loadable
    <3> QED
      BY <1>3, <1>4, <2>1, <3>1, <3>2, <3>3, IdleStage DEF Layout, Loadable
  <2>3. CASE home = "file"
    <3>1. path' = x /\ key' = key
      BY <1>3, <2>3 DEF Put
    <3> QED
      BY <1>3, <1>4, <2>1, <2>3, <3>1, IdleStage DEF Layout, Loadable
  <2> QED
    BY <1>4, <2>2, <2>3
<1> QED
  BY <1>5, <1>6, <1>7 DEF QInv

LEMMA CaptureQInv ==
    ASSUME IInv, SInv, QInv, Capture
    PROVE  QInv'
<1>1. /\ UNCHANGED <<provider, home, key, backup, sidecar, store, owner, live, pc, job, be, held>>
      /\ clean' = (clean /\ InFlight \subseteq {"capture"}) /\ provider = "claude"
  BY DEF Capture, fixed, known, procVars, EnsureStub, WriteStub, CompareStub, RemoveStub, StubStep
<1>2. PICK s : s = Login(NoCred, StubTok)
  OBVIOUS
<1>3. /\ s.id = NoCred /\ s.kind = "file" /\ s.tok = StubTok /\ s.tok.acct = Stub
  BY <1>2 DEF Login, StubTok
<1>4. \/ path = None /\ path' = path /\ stub = "idle"
      \/ path' = s /\ stub = "write"
      \/ path' = path /\ stub = "written"
      \/ path' = None /\ stub = "remove"
  BY <1>2 DEF Capture, EnsureStub, WriteStub, CompareStub, RemoveStub, StubStep
<1>5. Issued'
  <2>1. IssuedTok(StubTok) /\ IssuedTok(NoTok)
    <3>1. live[Stub] \in 1..MaxVer /\ MaxVer \in Nat
      BY BlobAssumption DEF IInv, Known
    <3> QED
      BY <3>1 DEF IssuedTok, StubTok
  <2>2. IssuedTok(path'.tok)
    BY <1>3, <1>4, <2>1, NothingIs DEF NothingThere, QInv, Issued
  <2>3. IssuedTok(path.tok)'
    BY <1>1, <2>2 DEF IssuedTok
  <2> QED
    BY <1>1, <2>3 DEF QInv, Issued, IssuedTok
<1>6. Symlinked' /\ \A q \in Procs : Roles(q)'
  BY <1>1, ProviderIs, RolesStay DEF Symlinked, fixed, procVars
<1>7. ASSUME InOrder' PROVE Layout' /\ \A q \in Procs : Stage(q)'
  <2>1. Layout /\ \A q \in Procs : pc[q] = "idle" /\ held[q] = None
    BY <1>1, <1>7, NobodyAbout DEF InOrder
  <2>2. path \in {None, s} /\ path' \in {None, s}
    BY <1>2, <1>4, <2>1 DEF Layout
  <2>3. path' \in {path, None} \/ path'.tok.acct = Stub
    BY <1>3, <1>4
  <2>4. Home'.id = Home.id
    <3>1. path.kind # "link" /\ path'.kind # "link"
      BY <1>3, <2>2, NothingIs DEF NothingThere
    <3>2. Seen(path).id = NoCred /\ Seen(path)'.id = NoCred
      BY <1>3, <2>2, NothingIs DEF Seen, NothingThere
    <3> QED
      BY <1>1, <3>2 DEF Home, Entry
  <2>5. path' = path /\ Leftover => Leftover'
    BY <1>1 DEF Leftover, Legacy, Loadable
  <2>6. Layout'
    <3>1. path'.id = NoCred /\ path'.kind # "rel" /\ path' \in {None, Login(NoCred, StubTok)}
      BY <1>2, <1>3, <2>2, NothingIs DEF NothingThere
    <3> QED
      BY <1>1, <2>1, <2>3, <2>4, <2>5, <3>1 DEF Layout, Loadable
  <2> QED
    BY <1>1, <2>1, <2>6, IdleStage
<1> QED
  BY <1>5, <1>6, <1>7 DEF QInv

-------------------------------------------------------------------------------
(* The start, the step and the theorem.                                    *)

LEMMA InitQInv == Init => QInv
<1> SUFFICES ASSUME Init PROVE QInv
  OBVIOUS
<1>1. /\ pc = [p \in Procs |-> "idle"] /\ be = [p \in Procs |-> "file"]
      /\ held = [p \in Procs |-> None] /\ backup = None /\ stub = "idle"
      /\ live = [a \in Accounts |-> 1]
      /\ owner = [c \in Creds |-> store[c].acct] /\ store \in [Creds -> Tok \cup {NoTok}]
      /\ home \in {"file", "keychain"} /\ (provider = "codex" => home = "file")
      /\ \A c \in Creds : IF c \in Fresh THEN store[c] = NoTok
                          ELSE store[c].ver = 1 /\ store[c].acct \notin {Outside, Stub}
  BY DEF Init
<1>2. /\ None.kind = "none" /\ None.id = NoCred /\ None.tok = NoTok /\ NoCred \notin Creds
      /\ Outside \in Accounts /\ NoAcct \notin Accounts /\ NoTok.acct = NoAcct
  BY NothingIs, BlobAssumption DEF NothingThere
<1>3. \A p \in Procs : Roles(p) /\ Stage(p)
  BY <1>1 DEF Roles, Stage, Synced
<1>4. \A t \in Tok : t.ver = 1 => IssuedTok(t)
  BY <1>1, Tokens DEF IssuedTok
<1>5. \A c \in Creds : IssuedTok(store[c])
  BY <1>1, <1>4 DEF IssuedTok
<1>6. IssuedTok(NoTok) /\ IssuedTok([acct |-> Outside, ver |-> 1])
  BY <1>1, <1>2 DEF IssuedTok
<1>7. CASE /\ sidecar = NoCred
           /\ \E x \in {None, Login(NoCred, [acct |-> Outside, ver |-> 1])} :
                 IF home = "file" THEN path = x /\ key = None ELSE key = x /\ path = None
  <2>1. PICK x \in {None, Login(NoCred, [acct |-> Outside, ver |-> 1])} :
              IF home = "file" THEN path = x /\ key = None ELSE key = x /\ path = None
    BY <1>7
  <2>2. x.kind \in {"none", "file"} /\ x.id = NoCred /\ IssuedTok(x.tok)
    BY <1>2, <1>6 DEF Login
  <2>3. Issued
    BY <1>1, <1>2, <1>5, <1>6, <2>1, <2>2 DEF Issued
  <2>4. Symlinked /\ Layout
    BY <1>1, <1>2, <2>1, <2>2 DEF Symlinked, Layout
  <2> QED
    BY <1>3, <2>3, <2>4 DEF QInv
<1>8. CASE /\ provider = "claude"
           /\ \E c \in Creds \ Fresh :
                 \/ path = Link(c) /\ sidecar = NoCred
                 \/ path = [Login(c, store[c]) EXCEPT !.kind = "rel"] /\ sidecar = NoCred
                 \/ path = Login(c, store[c]) /\ sidecar = NoCred
                 \/ path = Login(NoCred, store[c]) /\ sidecar = c
           /\ key = IF home = "file" THEN None ELSE Login(NoCred, Seen(path).tok)
  <2>1. PICK c \in Creds \ Fresh :
                 \/ path = Link(c) /\ sidecar = NoCred
                 \/ path = [Login(c, store[c]) EXCEPT !.kind = "rel"] /\ sidecar = NoCred
                 \/ path = Login(c, store[c]) /\ sidecar = NoCred
                 \/ path = Login(NoCred, store[c]) /\ sidecar = c
    BY <1>8
  <2>2. /\ store[c].ver = 1 /\ c # NoCred /\ store[c] \in Tok /\ store[c] # NoTok
        /\ owner[c] = store[c].acct
    BY <1>1, <1>2, <2>1, Tokens DEF NoTok
  <2>3. Loadable(c)
    BY <2>1, <2>2 DEF Loadable
  <2>4. Seen(path).tok = store[c]
    BY <1>8, <2>1, <2>2 DEF Seen, Link, Login
  <2>5. /\ path.kind \in {"link", "rel", "file"} /\ Legacy = c
        /\ path.tok \in {NoTok, store[c]}
        /\ path.id \in {c, NoCred} /\ (path.kind = "rel" => path.id = c)
    BY <2>1, <2>2 DEF Legacy, Link, Login
  <2>6. /\ key.id = NoCred /\ key.kind # "rel" /\ key.tok \in {NoTok, store[c]}
        /\ home = "keychain" => key # None
    BY <1>2, <1>8, <2>4 DEF Login
  <2>7. Issued
    BY <1>1, <1>2, <1>5, <1>6, <2>1, <2>5, <2>6 DEF Issued
  <2>8. path.tok = NoTok \/ (path.tok.acct = owner[c] /\ path.tok.ver <= store[c].ver)
    BY <2>2, <2>5
  <2>9. Leftover
    BY <2>3, <2>5, <2>6, <2>8 DEF Leftover
  <2>10. Symlinked /\ Layout
    BY <1>1, <1>2, <1>8, <2>3, <2>5, <2>6, <2>9 DEF Symlinked, Layout
  <2> QED
    BY <1>3, <2>7, <2>10 DEF QInv
<1> QED
  BY <1>7, <1>8 DEF Init

LEMMA QInvStep == IInv /\ SInv /\ QInv /\ [Next]_vars => QInv'
<1> SUFFICES ASSUME IInv, SInv, QInv, [Next]_vars PROVE QInv'
  OBVIOUS
<1>1. CASE UNCHANGED vars
  <2>1. UNCHANGED <<provider, home, path, key, backup, sidecar, store, owner, live, stub,
                    pc, job, be, held, clean>>
    BY <1>1 DEF vars
  <2>2. Issued' /\ Symlinked' /\ \A p \in Procs : Roles(p)'
    BY <2>1 DEF QInv, Issued, IssuedTok, Symlinked, Roles
  <2>3. Legacy' = Legacy /\ Home' = Home /\ \A c : Loadable(c)' <=> Loadable(c)
    BY <2>1 DEF Legacy, Home, Entry, Seen, Loadable
  <2>4. Leftover' <=> Leftover
    BY <2>1, <2>3 DEF Leftover, Loadable
  <2>5. Layout => Layout'
    BY <2>1, <2>3, <2>4 DEF Layout, Loadable
  <2>6. ASSUME NEW p \in Procs, Stage(p) PROVE Stage(p)'
    BY <2>1, <2>3, <2>6 DEF Stage, Raw, Loadable
  <2> QED
    BY <2>1, <2>2, <2>5, <2>6 DEF QInv, InOrder
<1> QED
  BY <1>1, CommandQInv, SessionRefreshQInv, CliRotatesQInv, CliLoginQInv, CaptureQInv DEF Next

(* Once no command is running and nothing has interfered, the entry of the *)
(* CLI does not name a credential that has been logged out, whatever older *)
(* layout there was and in whatever order the commands have run.           *)
THEOREM LoggedOutIsOut == Spec => []LogoutDeactivates
<1>1. IInv /\ SInv /\ QInv => LogoutDeactivates
  <2> SUFFICES ASSUME IInv, SInv, QInv, clean, InFlight = {}, NEW c \in Creds,
                      owner[c] # NoAcct, store[c] = NoTok
               PROVE  Home.id # c
    BY DEF LogoutDeactivates
  <2>1. \A x : Loadable(x) => x # c
    BY DEF Loadable
  <2>2. c # NoCred
    BY NothingIs
  <2>3. CASE provider = "claude"
    <3>1. path.id # c /\ key.id # c
      BY <2>1, <2>2, <2>3 DEF QInv, InOrder, Layout
    <3>2. Seen(path).id # c
      <4>1. CASE path.kind = "link"
        BY <2>2, <2>3, <4>1, NothingIs DEF Seen, Login, NothingThere
      <4>2. CASE path.kind # "link"
        <5>1. path.kind = "rel" => Seen(path).id = path.id
          BY Kinds DEF Seen, IInv, Marks, GoodIn
        <5> QED
          BY <3>1, <4>2, <5>1 DEF Seen
      <4> QED
        BY <4>1, <4>2
    <3> QED
      BY <3>1, <3>2 DEF Home, Entry
  <2>4. CASE provider = "codex"
    <3>1. home = "file" /\ (path.id # NoCred => path.kind = "link")
      BY <2>4 DEF QInv, Symlinked
    <3>2. CASE path.kind = "link"
      BY <2>1, <2>2, <3>1, <3>2, NothingIs DEF Home, Entry, Seen, Login, NothingThere
    <3>3. CASE path.kind # "link"
      <4>1. path.id = NoCred /\ path.kind # "link"
        BY <3>1, <3>3
      <4>2. Seen(path).id = NoCred
        <5>1. path.kind = "rel" => Seen(path).id = path.id
          BY Kinds DEF Seen, IInv, Marks, GoodIn
        <5> QED
          BY <4>1, <5>1 DEF Seen
      <4> QED
        BY <2>2, <3>1, <4>2 DEF Home, Entry
    <3> QED
      BY <3>2, <3>3
  <2> QED
    BY <2>3, <2>4, ProviderIs
<1> QED
  BY <1>1, InitIInv, IInvStep, InitSInv, SInvStep, InitQInv, QInvStep, PTL DEF Spec

-------------------------------------------------------------------------------
(* Where a token lies between commands: in an entry, the backup, the store.*)
Stored(t)    == \E c \in Creds : store[c] = t
Deposited(t) == t \in {path.tok, key.tok, backup.tok} \/ Stored(t)
GivenUp      == gone \cup {Stub} \cup IF LoginOverBackup THEN {Outside} ELSE {}
Kept ==
    /\ InOrder =>
          \A a \in Accounts \ GivenUp : Deposited([acct |-> a, ver |-> live[a]])
    /\ clean /\ provider = "codex" =>
          \A a \in Accounts \ (gone \cup {Stub, Outside}) : Stored([acct |-> a, ver |-> live[a]])

(* A token that may be overwritten: it is somewhere else, or of no use.    *)
Safe(t) == Deposited(t) \/ t.acct \in GivenUp \/ t.ver # live[t.acct]

LEMMA SafeKept ==
    ASSUME IInv, Kept, InOrder, NEW M,
           \A a \in M \ GivenUp' : \E n : n = [acct |-> a, ver |-> live'[a]] /\ Deposited(n)',
           \A a \in Accounts \ M : live'[a] = live[a] /\ (a \in GivenUp => a \in GivenUp'),
           \A t \in Tok : Deposited(t) /\ t.acct \notin M => Safe(t)'
    PROVE  \A a \in Accounts \ GivenUp' : Deposited([acct |-> a, ver |-> live[a]])'
<1> SUFFICES ASSUME NEW a \in Accounts, a \notin GivenUp'
             PROVE  Deposited([acct |-> a, ver |-> live[a]])'
  OBVIOUS
<1>1. CASE a \in M
  <2>1. PICK n : n = [acct |-> a, ver |-> live'[a]] /\ Deposited(n)'
    BY <1>1
  <2> QED
    BY <2>1 DEF Deposited, Stored
<1>2. CASE a \notin M
  <2>1. PICK t : t = [acct |-> a, ver |-> live[a]]
    OBVIOUS
  <2>2. t \in Tok /\ t.acct = a /\ t.ver = live[a]
    BY <2>1, Tokens DEF IInv, Known
  <2>3. Deposited(t) /\ live'[a] = live[a]
    BY <1>2, <2>1 DEF Kept
  <2>4. Deposited(t)'
    BY <1>2, <2>2, <2>3 DEF Safe
  <2> QED
    BY <2>1, <2>3, <2>4 DEF Deposited, Stored
<1> QED
  BY <1>1, <1>2

(* One step of a command or of the CLI that hands out no token.            *)
LEMMA NothingLost ==
    ASSUME IInv, Kept, InOrder, live' = live, gone \subseteq gone',
           \A t \in Tok : Deposited(t) => Safe(t)'
    PROVE  \A a \in Accounts \ GivenUp' : Deposited([acct |-> a, ver |-> live[a]])'
<1>1. \A a \in GivenUp : a \in GivenUp'
  BY DEF GivenUp
<1> QED
  BY <1>1, SafeKept

LEMMA UntouchedSafe ==
    ASSUME UNCHANGED <<path, key, backup, store>>, NEW t, Deposited(t)
    PROVE  Safe(t)'
BY DEF Safe, Deposited, Stored

(* Only what lay in one entry needs a reason.                              *)
LEMMA PutSafe ==
    ASSUME NEW b, NEW x, Put(b, x), UNCHANGED <<backup, store>>, NEW t, Deposited(t),
           t = Raw(b).tok => Safe(t)'
    PROVE  Safe(t)'
<1>1. CASE t = Raw(b).tok
  BY <1>1
<1>2. CASE t # Raw(b).tok
  BY <1>2 DEF Put, Raw, Safe, Deposited, Stored
<1> QED
  BY <1>1, <1>2

(* A marked entry whose stored credential is at least as new.              *)
LEMMA MarkedSafe ==
    ASSUME IInv, Issued, NEW x \in Contents, NEW c, Loadable(c), owner[c] = x.tok.acct,
           x.tok \in Tok, x.tok.ver <= store[c].ver, UNCHANGED <<store, live>>
    PROVE  Safe(x.tok)'
<1>1. c \in Creds /\ store[c] \in Tok /\ store[c].acct = x.tok.acct
  BY LoadableGood DEF IInv
<1>2. store[c].ver <= live[x.tok.acct]
  BY <1>1, Tokens DEF Issued, IssuedTok
<1>3. store[c].ver \in Int /\ x.tok.ver \in Int /\ live[x.tok.acct] \in Int
  BY <1>1, Tokens, BlobAssumption DEF IInv, Known
<1>4. CASE x.tok.ver = live[x.tok.acct]
  <2>1. store[c] = x.tok
    BY <1>1, <1>2, <1>3, <1>4 DEF Tok
  <2>2. Deposited(x.tok)'
    BY <1>1, <2>1 DEF Deposited, Stored
  <2> QED
    BY <2>2 DEF Safe
<1>5. CASE x.tok.ver # live[x.tok.acct]
  <2>1. PICK t : t = x.tok
    OBVIOUS
  <2>2. Safe(t)'
    BY <1>5, <2>1 DEF Safe
  <2> QED
    BY <2>1, <2>2
<1> QED
  BY <1>4, <1>5

(* What a command does with the tokens that lie about.                     *)
Keeps == live' = live /\ gone \subseteq gone' /\ \A t \in Tok : Deposited(t) => Safe(t)'

LEMMA UntouchedKeeps ==
    ASSUME UNCHANGED <<path, key, backup, store, live, gone>>
    PROVE  Keeps
BY UntouchedSafe DEF Keeps

LEMMA LookKeeps ==
    ASSUME NEW p \in Procs,
           \/ \E cmd \in Commands, c \in Creds : Begin(p, cmd, c)
           \/ SyncRead(p) \/ SyncLoad(p) \/ (\E cmd \in Commands : Fail(p, cmd))
           \/ UseSyncAgain(p) \/ Relogin(p) \/ IsActive(p) \/ RestoreBegin(p)
           \/ RestoreManaged(p) \/ Logout(p) \/ Backup(p)
    PROVE  Keeps
<1>1. UNCHANGED <<files, known, gone>>
  BY DEF Begin, SyncRead, SyncLoad, Fail, UseSyncAgain, Relogin, IsActive, RestoreBegin,
     RestoreManaged, Logout, Backup
<1> QED
  BY <1>1, UntouchedKeeps DEF files, known

(* The write of a command past the clean-up over a marked entry.           *)
LEMMA OverMarkedKeeps ==
    ASSUME IInv, QInv, NEW p \in Procs, Single(p), Past(p), pc[p] \in Synced,
           NEW x, Put(be[p], x), UNCHANGED <<backup, known, gone>>,
           NEW t \in Tok, Deposited(t), Raw(be[p]).id # NoCred \/ t # Raw(be[p]).tok
    PROVE  Safe(t)'
<1>1. PICK r : r = Raw(be[p])
  OBVIOUS
<1>2. UNCHANGED <<backup, store, live>>
  BY DEF known
<1>3. ASSUME t = r.tok
      PROVE  Safe(t)'
  <2>1. r.id # NoCred
    BY <1>1, <1>3
  <2>2. /\ r \in Contents /\ Loadable(r.id) /\ owner[r.id] = r.tok.acct
        /\ r.tok.ver <= store[r.id].ver
    BY <1>1, <2>1, RawSettled DEF Single, Stage
  <2> QED
    BY <1>2, <1>3, <2>2, MarkedSafe DEF QInv
<1> QED
  BY <1>1, <1>2, <1>3, PutSafe

LEMMA MigrateKeeps ==
    ASSUME IInv, NEW p \in Procs, Migrate(p)
    PROVE  Keeps
<1>1. UNCHANGED <<backup, store, live>> /\ gone \subseteq gone'
  BY DEF Migrate, known
<1> SUFFICES ASSUME NEW t \in Tok, Deposited(t)
               PROVE  Safe(t)'
  BY <1>1 DEF Keeps
<1>3. ASSUME path.kind # "link" \/ be[p] = "keychain"
      PROVE  Entry(be[p]).tok = Raw(be[p]).tok
  <2>1. path.kind = "rel" => Seen(path).tok = path.tok
    BY Kinds DEF Seen, IInv, Marks, GoodIn
  <2> QED
    BY <1>3, <2>1 DEF Entry, Raw, Seen
<1>4. path.kind = "link" => path.tok # t
  BY Kinds, Tokens DEF IInv, Marks, GoodIn
<1>5. CASE Active(be[p]) = NoCred /\ Loadable(Legacy)
  <2>1. /\ Put(be[p], Login(Legacy, store[Legacy]))
        /\ gone' = gone \cup ({Entry(be[p]).tok.acct} \ {NoAcct})
    BY <1>5 DEF Migrate
  <2>2. t = Raw(be[p]).tok => Safe(t)'
    <3>1. ASSUME t = Raw(be[p]).tok
          PROVE  t.acct \in gone'
      <4>1. t = Entry(be[p]).tok
        BY <1>3, <1>4, <3>1 DEF Raw
      <4> QED
        BY <2>1, <4>1, Tokens, BlobAssumption
    <3> QED
      BY <3>1 DEF Safe, GivenUp
  <2>3. PICK x : x = Login(Legacy, store[Legacy])
    OBVIOUS
  <2>4. PICK b : b = be[p]
    OBVIOUS
  <2> QED
    BY <1>1, <2>1, <2>2, <2>3, <2>4, PutSafe
<1>6. CASE Put("file", Seen(path)) /\ path.kind = "rel"
  <2>1. Seen(path).tok = path.tok
    BY <1>6, Kinds DEF Seen, IInv, Marks, GoodIn
  <2> QED
    BY <1>1, <1>6, <2>1 DEF Put, Safe, Deposited, Stored
<1>7. CASE UNCHANGED entryVars
  BY <1>1, <1>7, UntouchedSafe DEF entryVars
<1> QED
  BY <1>5, <1>6, <1>7 DEF Migrate

LEMMA CleanupKeeps ==
    ASSUME IInv, SInv, QInv, NEW p \in Procs, Cleanup(p), clean', provider = "claude"
    PROVE  Keeps
<1>1. /\ Alone(p) /\ pc[p] = "cleanup" /\ UNCHANGED <<key, backup, store, live, gone>>
      /\ path' = IF path.kind = "rel" \/ (held[p] # None /\ be[p] = "keychain") THEN None ELSE path
  BY DEF Cleanup, known
<1>2. Single(p)
  BY <1>1, SingleIs
<1> SUFFICES ASSUME NEW t \in Tok, Deposited(t)
               PROVE  Safe(t)'
  BY <1>1 DEF Keeps
<1>4. CASE t # path.tok \/ path' = path
  BY <1>1, <1>4 DEF Safe, Deposited, Stored
<1>5. CASE t = path.tok /\ path' # path
  <2>1. /\ be[p] = "keychain" /\ held[p] # None /\ home = "keychain" /\ path # None
        /\ path.tok.acct # Stub
    BY <1>1, <1>2, <1>5 DEF Single, Stage
  <2>2. Leftover /\ path.tok # NoTok
    BY <1>2, <1>5, <2>1, Tokens DEF Single, Layout
  <2>3. PICK x, c : x = path /\ c = Legacy
    OBVIOUS
  <2>4. /\ Loadable(c) /\ x.tok.acct = owner[c] /\ x.tok.ver <= store[c].ver
        /\ x \in Contents /\ x.tok \in Tok
    BY <1>2, <1>5, <2>2, <2>3 DEF Leftover, Single
  <2>5. Safe(x.tok)'
    BY <1>1, <2>4, MarkedSafe DEF QInv
  <2> QED
    BY <1>5, <2>3, <2>5
<1> QED
  BY <1>4, <1>5

LEMMA SyncSaveKeeps ==
    ASSUME IInv, SInv, QInv, NEW p \in Procs, SyncSave(p), clean', provider = "claude"
    PROVE  Keeps
<1> DEFINE r == Raw(be[p])
<1>1. /\ UNCHANGED <<files, live, gone>> /\ Alone(p) /\ pc[p] = "save"
      /\ store' = [store EXCEPT ![held[p].id] = held[p].tok]
  BY DEF SyncSave
<1>2. Single(p) /\ Past(p)
  BY <1>1, SingleIs DEF Past
<1>3. held[p] = r /\ r.id # NoCred /\ r.tok.ver > store[r.id].ver
  BY <1>1, <1>2 DEF Single, Stage
<1>4. r.id \in Creds /\ r.tok \in Tok /\ owner[r.id] = r.tok.acct /\ Loadable(r.id)
      /\ r \in Contents
  BY <1>2, <1>3, RawSettled, Kinds DEF Loadable
<1>5. r.tok.ver <= live[r.tok.acct]
  BY <1>3, <1>4, Tokens DEF QInv, Issued, IssuedTok
<1> SUFFICES ASSUME NEW t \in Tok, Deposited(t)
               PROVE  Safe(t)'
  BY <1>1 DEF Keeps
<1>7. CASE t = store[r.id]
  <2>1. t.acct = r.tok.acct /\ t.ver < r.tok.ver
    BY <1>3, <1>4, <1>7, Tokens, BlobAssumption DEF Loadable
  <2>2. t.ver # live[t.acct]
    BY <1>4, <1>5, <2>1, Tokens, BlobAssumption DEF IInv, Known
  <2> QED
    BY <1>1, <2>2 DEF Safe
<1>8. CASE t # store[r.id]
  BY <1>1, <1>3, <1>4, <1>8 DEF files, Safe, Deposited, Stored, IInv, Known
<1> QED
  BY <1>7, <1>8

LEMMA InspectKeeps ==
    ASSUME IInv, NEW p \in Procs, Inspect(p)
    PROVE  Keeps
<1>1. /\ UNCHANGED <<path, key, store, live, gone>>
      /\ backup' = backup \/ backup = None
  BY DEF Inspect, entryVars, known, Original
<1>2. \A t \in Tok : t # None.tok
  BY Tokens DEF None
<1> QED
  BY <1>1, <1>2 DEF Keeps, Safe, Deposited, Stored

LEMMA ActivateKeeps ==
    ASSUME IInv, SInv, QInv, NEW p \in Procs, Activate(p), clean', provider = "claude"
    PROVE  Keeps
<1>1. /\ Put(be[p], held[p]) /\ UNCHANGED <<backup, known, gone>> /\ UNCHANGED <<store, live>>
      /\ Alone(p) /\ pc[p] = "activate"
  BY DEF Activate, known
<1>2. Single(p) /\ Past(p) /\ pc[p] \in Synced
  BY <1>1, SingleIs DEF Past, Synced
<1> SUFFICES ASSUME NEW t \in Tok, Deposited(t)
             PROVE  Safe(t)'
  BY <1>1 DEF Keeps
<1>3. PICK x : x = held[p]
  OBVIOUS
<1>4. PICK r, b : r = Raw(be[p]) /\ b = be[p]
  OBVIOUS
<1>5. CASE r.id # NoCred \/ t # r.tok
  BY <1>1, <1>2, <1>3, <1>4, <1>5, OverMarkedKeeps
<1>6. CASE r.id = NoCred /\ t = r.tok
  <2>1. r = None \/ LoginOverBackup \/ backup.tok = r.tok
    BY <1>1, <1>2, <1>4, <1>6 DEF Single, Stage
  <2>2. r # None
    BY <1>6, Tokens DEF None
  <2>3. backup.tok = r.tok => Safe(t)'
    BY <1>1, <1>6 DEF Safe, Deposited
  <2>4. ~Strayed
    BY <1>1 DEF SInv, Legacies
  <2>5. LoginOverBackup => Safe(t)'
    <3>1. r.tok.acct \in {Outside, Stub, NoAcct} \cup gone
      BY <1>4, <1>6, <2>4 DEF Raw, Strayed, Claimed
    <3>2. t.acct \in {Outside, Stub} \cup gone
      BY <1>6, <3>1, Tokens, BlobAssumption
    <3> QED
      BY <1>1, <3>2 DEF Safe, GivenUp
  <2> QED
    BY <2>1, <2>2, <2>3, <2>5
<1> QED
  BY <1>5, <1>6

LEMMA RestoreKeeps ==
    ASSUME IInv, SInv, QInv, NEW p \in Procs, PutBack(p) \/ RemoveBackup(p) \/ Clear(p), clean',
           provider = "claude"
    PROVE  Keeps
<1>1. /\ UNCHANGED <<known, gone>> /\ UNCHANGED <<store, live>> /\ Alone(p)
      /\ pc[p] \in {"putback", "unback", "clear"}
  BY DEF PutBack, RemoveBackup, Clear, known
<1>2. Single(p) /\ Past(p)
  BY <1>1, SingleIs DEF Past
<1> SUFFICES ASSUME NEW t \in Tok, Deposited(t)
             PROVE  Safe(t)'
  BY <1>1 DEF Keeps
<1>3. CASE PutBack(p) \/ Clear(p)
  <2>1. PICK x : Put(be[p], x) /\ backup' = backup /\ pc[p] \in {"putback", "clear"}
    BY <1>3 DEF PutBack, Clear
  <2>2. Raw(be[p]).id # NoCred /\ pc[p] \in Synced
    BY <1>2, <2>1 DEF Single, Stage, Synced
  <2> QED
    BY <1>1, <1>2, <2>1, <2>2, OverMarkedKeeps
<1>4. CASE RemoveBackup(p)
  <2>1. UNCHANGED <<path, key>> /\ pc[p] = "unback"
    BY <1>4 DEF RemoveBackup, entryVars
  <2>2. Raw(be[p]) = backup
    BY <1>2, <2>1 DEF Single, Stage
  <2>3. backup.tok \in {path.tok, key.tok}
    BY <2>2 DEF Raw
  <2> QED
    BY <1>1, <2>1, <2>3 DEF Safe, Deposited, Stored
<1> QED
  BY <1>3, <1>4

(* The store loses what has been logged out, and nothing else.             *)
LEMMA DeleteStored ==
    ASSUME IInv, StoreHoldsItsOwn, provider = "claude" \/ clean, NEW p \in Procs, Delete(p),
           NEW t \in Tok, Stored(t)
    PROVE  Stored(t)' \/ t.acct \in gone'
<1>1. /\ store' = [store EXCEPT ![job[p].cred] = NoTok]
      /\ gone' = gone \cup ({owner[job[p].cred]} \ {NoAcct})
  BY DEF Delete
<1>2. PICK c \in Creds : store[c] = t
  BY DEF Stored
<1>3. store[c].acct = owner[c] /\ store[c].acct # NoAcct
  BY <1>2, Tokens, BlobAssumption DEF StoreHoldsItsOwn
<1>4. CASE c = job[p].cred
  BY <1>1, <1>2, <1>3, <1>4
<1>5. CASE c # job[p].cred
  BY <1>1, <1>2, <1>5 DEF Stored, IInv, Known
<1> QED
  BY <1>4, <1>5

LEMMA DeleteKeeps ==
    ASSUME IInv, NEW p \in Procs, Delete(p) \/ Import(p), provider = "claude"
    PROVE  Keeps
<1>1. UNCHANGED <<path, key, backup, live>> /\ gone \subseteq gone'
  BY DEF Delete, Import, files
<1> SUFFICES ASSUME NEW t \in Tok, Deposited(t)
             PROVE  Safe(t)'
  BY <1>1 DEF Keeps
<1>2. CASE ~Stored(t)
  BY <1>1, <1>2 DEF Deposited, Safe
<1>3. CASE Delete(p) /\ Stored(t)
  BY <1>3, DeleteStored DEF IInv, Deposited, Safe, GivenUp
<1>4. CASE Import(p) /\ Stored(t)
  <2>1. PICK c \in Creds : store[c] = t
    BY <1>4 DEF Stored
  <2>2. PICK d \in Fresh : owner[d] = NoAcct /\ store' = [store EXCEPT ![d] = held[p].tok]
    BY <1>4 DEF Import
  <2>3. store[c].acct = owner[c] /\ store[c].acct # NoAcct
    BY <2>1, Tokens, BlobAssumption DEF IInv, StoreHoldsItsOwn
  <2>4. store'[c] = t
    BY <2>1, <2>2, <2>3 DEF IInv, Known
  <2> QED
    BY <2>4 DEF Stored, Deposited, Safe
<1> QED
  BY <1>2, <1>3, <1>4

(* The actions that hand out a token.                                      *)
Mints == \E c \in Creds :
    LET t == [acct |-> owner[c], ver |-> live[owner[c]] + 1]
    IN  /\ owner[c] \in Accounts
        /\ live' = [live EXCEPT ![owner[c]] = @ + 1] /\ store' = [store EXCEPT ![c] = t]

LEMMA RenewMints ==
    ASSUME IInv, NEW p \in Procs, UseResolve(p) \/ Refresh(p) \/ ReloginSave(p)
    PROVE  UNCHANGED <<files, gone>> /\ (Mints \/ UNCHANGED <<store, live>>)
<1>1. UNCHANGED <<files, gone, owner>>
  BY DEF UseResolve, Refresh, ReloginSave
<1>2. ASSUME NEW c, Rotatable(c), RotateStored(c)
      PROVE  Mints
  <2>1. c \in Creds /\ owner[c] \in Accounts /\ store[c] \in Tok /\ owner[c] = store[c].acct
        /\ store[c].ver = live[owner[c]]
    BY <1>2, LoadableGood DEF Rotatable, IInv
  <2>2. Rotated(c) = [acct |-> owner[c], ver |-> live[owner[c]] + 1]
    BY <2>1 DEF Rotated, Tok
  <2> QED
    BY <1>2, <2>1, <2>2 DEF Mints, RotateStored
<1>3. CASE UseResolve(p) \/ Refresh(p)
  BY <1>1, <1>2, <1>3 DEF UseResolve, Refresh
<1>4. CASE ReloginSave(p)
  <2>1. job[p].cred \in Creds /\ owner[job[p].cred] \in Accounts
    BY <1>4 DEF ReloginSave, IInv, Control, Sure
  <2> QED
    BY <1>1, <1>4, <2>1 DEF ReloginSave, Mints
<1> QED
  BY <1>3, <1>4

LEMMA MintsKept ==
    ASSUME IInv, Kept, StoreHoldsItsOwn, Mints, UNCHANGED <<provider, files, gone>>, clean' => clean
    PROVE  Kept'
<1>1. PICK c \in Creds :
        LET t == [acct |-> owner[c], ver |-> live[owner[c]] + 1]
        IN  /\ owner[c] \in Accounts
            /\ live' = [live EXCEPT ![owner[c]] = @ + 1] /\ store' = [store EXCEPT ![c] = t]
  BY DEF Mints
<1>2. PICK a, n : a = owner[c] /\ n = [acct |-> a, ver |-> live[a] + 1]
  OBVIOUS
<1>3. /\ a \in Accounts /\ store'[c] = n /\ live'[a] = live[a] + 1
      /\ \A b \in Accounts \ {a} : live'[b] = live[b]
      /\ \A d \in Creds \ {c} : store'[d] = store[d]
      /\ UNCHANGED <<path, key, backup, gone>>
  BY <1>1, <1>2 DEF IInv, Known, files
<1>4. n = [acct |-> a, ver |-> live'[a]] /\ Stored(n)'
  BY <1>2, <1>3 DEF Stored
<1>5. ASSUME clean, NEW t \in Tok, t.acct # a, Stored(t)
      PROVE  Stored(t)'
  <2>1. PICK d \in Creds : store[d] = t
    BY <1>5 DEF Stored
  <2>2. d # c
    BY <1>2, <1>5, <2>1, Tokens DEF StoreHoldsItsOwn
  <2> QED
    BY <1>3, <2>1, <2>2 DEF Stored
<1>6. ASSUME InOrder'
      PROVE  \A b \in Accounts \ GivenUp' : Deposited([acct |-> b, ver |-> live[b]])'
  <2>1. InOrder /\ clean /\ GivenUp' = GivenUp
    BY <1>3, <1>6 DEF InOrder, GivenUp
  <2>2. \A t \in Tok : Deposited(t) /\ t.acct \notin {a} => Safe(t)'
    BY <1>3, <1>5, <2>1 DEF Safe, Deposited
  <2>3. Deposited(n)'
    BY <1>4 DEF Deposited
  <2> QED
    BY <1>3, <1>4, <2>1, <2>2, <2>3, SafeKept
<1>7. ASSUME clean', provider = "codex", NEW b \in Accounts \ (gone \cup {Stub, Outside})
      PROVE  Stored([acct |-> b, ver |-> live[b]])'
  <2>1. CASE b = a
    BY <1>4, <2>1 DEF Stored
  <2>2. CASE b # a
    <3>1. PICK t : t = [acct |-> b, ver |-> live[b]]
      OBVIOUS
    <3>2. t \in Tok /\ t.acct = b /\ Stored(t)
      BY <1>7, <3>1, Tokens DEF Kept, IInv, Known
    <3>3. Stored(t)'
      BY <1>5, <1>7, <2>2, <3>2
    <3> QED
      BY <1>3, <2>2, <3>1, <3>3 DEF Stored
  <2> QED
    BY <2>1, <2>2
<1> QED
  BY <1>3, <1>6, <1>7 DEF Kept

-------------------------------------------------------------------------------
(* Every step keeps the tokens.                                            *)

LEMMA ClaudeKeeps ==
    ASSUME IInv, SInv, QInv, NEW p \in Procs, Command(p), clean', provider = "claude"
    PROVE  Keeps \/ (Mints /\ UNCHANGED <<files, gone>>)
<1>1. pc[p] \notin {"symlink", "unlink", "rewrite"}
  BY DEF QInv, Roles
<1>2. CASE \/ \E cmd \in Commands, c \in Creds : Begin(p, cmd, c)
           \/ SyncRead(p) \/ SyncLoad(p) \/ (\E cmd \in Commands : Fail(p, cmd))
           \/ UseSyncAgain(p) \/ Relogin(p) \/ IsActive(p) \/ RestoreBegin(p)
           \/ RestoreManaged(p) \/ Logout(p) \/ Backup(p)
  BY <1>2, LookKeeps
<1>3. CASE Migrate(p) \/ Cleanup(p) \/ SyncSave(p) \/ Inspect(p) \/ Activate(p)
  BY <1>3, MigrateKeeps, CleanupKeeps, SyncSaveKeeps, InspectKeeps, ActivateKeeps
<1>4. CASE PutBack(p) \/ RemoveBackup(p) \/ Clear(p) \/ Delete(p) \/ Import(p)
  BY <1>4, RestoreKeeps, DeleteKeeps
<1>5. CASE UseResolve(p) \/ Refresh(p) \/ ReloginSave(p)
  BY <1>5, RenewMints, UntouchedKeeps DEF files
<1>6. CASE Symlink(p) \/ Unlink(p) \/ Rewrite(p) \/ Kill(p)
  <2>1. ~Kill(p)
    BY DEF Kill
  <2> QED
    BY <1>1, <1>6, <2>1 DEF Symlink, Unlink, Rewrite
<1> QED
  BY <1>2, <1>3, <1>4, <1>5, <1>6 DEF Command

LEMMA CodexKeeps ==
    ASSUME IInv, SInv, QInv, NEW p \in Procs, Command(p), clean', provider = "codex", clean
    PROVE  \/ /\ live' = live /\ gone \subseteq gone'
              /\ \A t \in Tok : Stored(t) => Stored(t)' \/ t.acct \in gone'
           \/ Mints /\ UNCHANGED <<files, gone>>
<1>1. /\ pc[p] \notin {"migrate", "cleanup", "read", "load", "save", "managed", "putback", "unback",
                       "clear", "import"}
      /\ pc[p] = "rewrite" => path.kind # "link"
  BY DEF QInv, Roles, IInv, Sure
<1>2. UNCHANGED <<store, live, gone>> => /\ live' = live /\ gone \subseteq gone'
              /\ \A t \in Tok : Stored(t) => Stored(t)' \/ t.acct \in gone'
  BY DEF Stored
<1>3. CASE Delete(p)
  <2>1. live' = live /\ gone \subseteq gone'
    BY <1>3 DEF Delete
  <2> QED
    BY <1>3, <2>1, DeleteStored DEF IInv
<1>4. CASE UseResolve(p) \/ Refresh(p) \/ ReloginSave(p)
  BY <1>2, <1>4, RenewMints
<1>5. CASE \/ \E cmd \in Commands, c \in Creds : Begin(p, cmd, c)
           \/ (\E cmd \in Commands : Fail(p, cmd))
           \/ UseSyncAgain(p) \/ Inspect(p) \/ Activate(p) \/ Symlink(p) \/ Relogin(p)
           \/ IsActive(p) \/ RestoreBegin(p) \/ Unlink(p) \/ Logout(p) \/ Backup(p)
  BY <1>2, <1>5 DEF Begin, Fail, UseSyncAgain, Inspect, Activate, Symlink, Relogin, IsActive,
     RestoreBegin, Unlink, Logout, Backup, known
<1>6. CASE Rewrite(p)
  BY <1>1, <1>2, <1>6 DEF Rewrite
<1>7. CASE \/ Migrate(p) \/ Cleanup(p) \/ SyncRead(p) \/ SyncLoad(p) \/ SyncSave(p)
           \/ RestoreManaged(p) \/ PutBack(p) \/ RemoveBackup(p) \/ Clear(p) \/ Import(p) \/ Kill(p)
  BY <1>1, <1>7 DEF Migrate, Cleanup, SyncRead, SyncLoad, SyncSave, RestoreManaged, PutBack,
     RemoveBackup, Clear, Import, Kill
<1> QED
  BY <1>3, <1>4, <1>5, <1>6, <1>7 DEF Command

(* The codex half of a step that hands out no token to a stored account.   *)
LEMMA StoredKept ==
    ASSUME IInv, Kept, clean, provider = "codex",
           \A a \in Accounts \ (gone' \cup {Stub, Outside}) : a \notin gone /\ live'[a] = live[a],
           \A t \in Tok : Stored(t) => Stored(t)' \/ t.acct \in gone'
    PROVE  \A a \in Accounts \ (gone' \cup {Stub, Outside}) :
              Stored([acct |-> a, ver |-> live[a]])'
<1> SUFFICES ASSUME NEW a \in Accounts \ (gone' \cup {Stub, Outside})
             PROVE  Stored([acct |-> a, ver |-> live[a]])'
  OBVIOUS
<1>1. PICK t : t = [acct |-> a, ver |-> live[a]]
  OBVIOUS
<1>2. a \notin gone /\ live'[a] = live[a]
  OBVIOUS
<1>3. t \in Tok /\ t.acct = a /\ Stored(t)
  BY <1>1, <1>2, Tokens DEF Kept, IInv, Known
<1>4. Stored(t)'
  BY <1>3
<1> QED
  BY <1>1, <1>2, <1>4 DEF Stored

LEMMA CommandKept ==
    ASSUME IInv, SInv, QInv, Kept, NEW p \in Procs, Command(p)
    PROVE  Kept'
<1>1. UNCHANGED <<provider, home>> /\ (clean' => clean)
  BY CommandOutcome DEF Outcome, fixed, Clean
<1>2. StoreHoldsItsOwn
  BY DEF IInv
<1>3. CASE Mints /\ UNCHANGED <<files, gone>>
  BY <1>1, <1>2, <1>3, MintsKept
<1>4. CASE ~(Mints /\ UNCHANGED <<files, gone>>)
  <2>1. InOrder' => \A a \in Accounts \ GivenUp' : Deposited([acct |-> a, ver |-> live[a]])'
    <3> SUFFICES ASSUME InOrder'
                 PROVE  \A a \in Accounts \ GivenUp' : Deposited([acct |-> a, ver |-> live[a]])'
      OBVIOUS
    <3>1. InOrder /\ Keeps
      BY <1>1, <1>4, ClaudeKeeps DEF InOrder
    <3> QED
      BY <3>1, NothingLost DEF Keeps
  <2>2. clean' /\ provider' = "codex" =>
          \A a \in Accounts \ (gone' \cup {Stub, Outside}) : Stored([acct |-> a, ver |-> live[a]])'
    <3> SUFFICES ASSUME clean', provider = "codex"
                 PROVE  \A a \in Accounts \ (gone' \cup {Stub, Outside}) :
                           Stored([acct |-> a, ver |-> live[a]])'
      BY <1>1
    <3>1. /\ live' = live /\ gone \subseteq gone' /\ clean
          /\ \A t \in Tok : Stored(t) => Stored(t)' \/ t.acct \in gone'
      BY <1>1, <1>4, CodexKeeps
    <3> QED
      BY <3>1, StoredKept
  <2> QED
    BY <2>1, <2>2 DEF Kept
<1> QED
  BY <1>3, <1>4

LEMMA SessionRefreshKept ==
    ASSUME IInv, Kept, NEW c \in Creds, SessionRefresh(c)
    PROVE  Kept'
<1>1. /\ UNCHANGED <<provider, files, gone>> /\ (clean' => clean)
      /\ Rotatable(c) /\ RotateStored(c)
  BY DEF SessionRefresh, Bystander, fixed, IInv, Control
<1>2. c \in Creds /\ owner[c] \in Accounts /\ store[c] \in Tok /\ owner[c] = store[c].acct
      /\ store[c].ver = live[owner[c]]
  BY <1>1, LoadableGood DEF Rotatable, IInv
<1>3. Rotated(c) = [acct |-> owner[c], ver |-> live[owner[c]] + 1]
  BY <1>2 DEF Rotated, Tok
<1>4. Mints
  BY <1>1, <1>2, <1>3 DEF Mints, RotateStored
<1> QED
  BY <1>1, <1>4, MintsKept DEF IInv

(* The CLI puts a new token over what the entry has held.                  *)
LEMMA EntryRenewed ==
    ASSUME IInv, Kept, NEW a \in Accounts, NEW n, n = [acct |-> a, ver |-> live[a] + 1],
           live' = [live EXCEPT ![a] = live[a] + 1],
           NEW x, x.tok = n, Put(home, x), UNCHANGED <<provider, home, backup, store>>,
           \A b \in Accounts \ {a} : b \in gone => b \in gone',
           Raw(home).tok.acct \in {a, NoAcct} \cup GivenUp',
           InOrder
    PROVE  \A b \in Accounts \ GivenUp' : Deposited([acct |-> b, ver |-> live[b]])'
<1>1. /\ live'[a] = live[a] + 1 /\ \A b \in Accounts \ {a} : live'[b] = live[b]
  BY DEF IInv, Known
<1>2. Deposited(n)' /\ n = [acct |-> a, ver |-> live'[a]]
  BY <1>1 DEF Put, Deposited
<1>3. \A b \in Accounts \ {a} : b \in GivenUp => b \in GivenUp'
  BY DEF GivenUp
<1>4. ASSUME NEW t \in Tok, Deposited(t), t.acct \notin {a}
      PROVE  Safe(t)'
  <2>1. t = Raw(home).tok => t.acct \in GivenUp'
    BY <1>4, Tokens, BlobAssumption
  <2>2. t = Raw(home).tok => Safe(t)'
    BY <2>1 DEF Safe
  <2>3. PICK b : b = home
    OBVIOUS
  <2> QED
    BY <1>4, <2>2, <2>3, PutSafe
<1> QED
  BY <1>1, <1>2, <1>3, <1>4, SafeKept

LEMMA CliRotatesKept ==
    ASSUME IInv, SInv, QInv, Kept, CliRotates
    PROVE  Kept'
<1>1. PICK a \in Accounts :
        LET n == [acct |-> a, ver |-> live[a] + 1]
        IN  /\ live' = [live EXCEPT ![a] = live[a] + 1]
            /\ Put(home, Login(Home.id, n))
            /\ (home = "file" => path.kind = "file" /\ Home = path)
            /\ Home.tok = [acct |-> a, ver |-> live[a]]
  BY CliRotatesIs
<1>2. PICK n, x : n = [acct |-> a, ver |-> live[a] + 1] /\ x = Login(Home.id, n)
  OBVIOUS
<1>3. /\ UNCHANGED <<provider, home, backup, store, gone>> /\ (clean' => clean)
      /\ live' = [live EXCEPT ![a] = live[a] + 1] /\ Put(home, x) /\ x.tok = n
      /\ home \in {"file", "keychain"}
  BY <1>1, <1>2 DEF CliRotates, Bystander, fixed, IInv, Control, Login
<1>4. Raw(home) = Home /\ Home.tok.acct = a
  BY <1>1, <1>3 DEF Home, Entry, Raw
<1>5. InOrder' => \A b \in Accounts \ GivenUp' : Deposited([acct |-> b, ver |-> live[b]])'
  BY <1>2, <1>3, <1>4, EntryRenewed DEF InOrder
<1>6. clean' /\ provider' = "codex" =>
        \A b \in Accounts \ (gone' \cup {Stub, Outside}) : Stored([acct |-> b, ver |-> live[b]])'
  <2> SUFFICES ASSUME clean', provider = "codex"
               PROVE  \A b \in Accounts \ (gone' \cup {Stub, Outside}) :
                         Stored([acct |-> b, ver |-> live[b]])'
    BY <1>3
  <2>1. a \in {Outside, Stub} \cup gone
    <3>1. home = "file" /\ path.kind = "file" /\ path.tok.acct = a
      BY <1>1 DEF QInv, Symlinked
    <3>2. path.id = NoCred
      BY <3>1 DEF QInv, Symlinked
    <3>3. ~Strayed
      BY DEF SInv, Legacies
    <3> QED
      BY <3>1, <3>2, <3>3, BlobAssumption DEF Strayed, Claimed
  <2>2. \A b \in Accounts \ (gone' \cup {Stub, Outside}) : b \notin gone /\ live'[b] = live[b]
    BY <1>3, <2>1 DEF IInv, Known
  <2>3. \A t \in Tok : Stored(t) => Stored(t)'
    BY <1>3 DEF Stored
  <2> QED
    BY <1>3, <2>2, <2>3, StoredKept
<1> QED
  BY <1>5, <1>6 DEF Kept

LEMMA CliLoginKept ==
    ASSUME IInv, SInv, QInv, Kept, CliLogin
    PROVE  Kept'
<1>1. PICK n, x : n = [acct |-> Outside, ver |-> live[Outside] + 1] /\ x = Login(NoCred, n)
  OBVIOUS
<1>2. /\ UNCHANGED <<provider, home, backup, store>> /\ (clean' => clean)
      /\ live' = [live EXCEPT ![Outside] = live[Outside] + 1] /\ Put(home, x) /\ x.tok = n
      /\ gone' = (gone \cup ({Home.tok.acct} \ {NoAcct})) \ {Outside}
      /\ path.kind \in {"none", "file"} /\ Outside \in Accounts
  BY <1>1, BlobAssumption DEF CliLogin, Bystander, fixed, IInv, Control, Login
<1>3. Raw(home) = Home
  BY <1>2 DEF Home, Entry, Raw, Seen
<1>4. Raw(home).tok.acct \in {Outside, NoAcct} \cup GivenUp'
  BY <1>2, <1>3 DEF GivenUp
<1>5. InOrder' => \A b \in Accounts \ GivenUp' : Deposited([acct |-> b, ver |-> live[b]])'
  BY <1>1, <1>2, <1>4, EntryRenewed DEF InOrder
<1>6. clean' /\ provider' = "codex" =>
        \A b \in Accounts \ (gone' \cup {Stub, Outside}) : Stored([acct |-> b, ver |-> live[b]])'
  <2> SUFFICES ASSUME clean', provider = "codex"
               PROVE  \A b \in Accounts \ (gone' \cup {Stub, Outside}) :
                         Stored([acct |-> b, ver |-> live[b]])'
    BY <1>2
  <2>1. \A b \in Accounts \ (gone' \cup {Stub, Outside}) : b \notin gone /\ live'[b] = live[b]
    BY <1>2 DEF IInv, Known
  <2>2. \A t \in Tok : Stored(t) => Stored(t)'
    BY <1>2 DEF Stored
  <2> QED
    BY <1>2, <2>1, <2>2, StoredKept
<1> QED
  BY <1>5, <1>6 DEF Kept

LEMMA CaptureKept ==
    ASSUME IInv, SInv, QInv, Kept, Capture
    PROVE  Kept'
<1>1. /\ UNCHANGED <<provider, home, key, backup, store, live, gone>>
      /\ clean' = (clean /\ InFlight \subseteq {"capture"}) /\ provider = "claude"
  BY DEF Capture, fixed, known, procVars, EnsureStub, WriteStub, CompareStub, RemoveStub, StubStep
<1>2. ASSUME InOrder'
      PROVE  \A a \in Accounts \ GivenUp' : Deposited([acct |-> a, ver |-> live[a]])'
  <2>1. InOrder /\ Layout
    BY <1>1, <1>2, NobodyAbout DEF InOrder
  <2>2. path' = path \/ path \in {None, Login(NoCred, StubTok)}
    BY <2>1 DEF Capture, EnsureStub, WriteStub, CompareStub, RemoveStub, StubStep, Layout
  <2>3. ASSUME NEW t \in Tok, Deposited(t)
        PROVE  Safe(t)'
    <3>1. path \in {None, Login(NoCred, StubTok)} /\ t = path.tok => t.acct = Stub
      BY Tokens DEF None, Login, StubTok
    <3>2. t = path.tok /\ path' # path => Safe(t)'
      BY <2>2, <3>1 DEF Safe, GivenUp
    <3>3. t # path.tok \/ path' = path => Safe(t)'
      BY <1>1, <2>3 DEF Safe, Deposited, Stored
    <3> QED
      BY <3>2, <3>3
  <2> QED
    BY <1>1, <2>1, <2>3, NothingLost
<1> QED
  BY <1>1, <1>2 DEF Kept

LEMMA InitKept == Init => Kept
<1> SUFFICES ASSUME Init PROVE Kept
  OBVIOUS
<1>1. /\ gone = {a \in Accounts : ~Held(a)} /\ held = [p \in Procs |-> None] /\ backup = None
      /\ owner = [c \in Creds |-> store[c].acct] /\ live = [a \in Accounts |-> 1]
      /\ provider = "codex" => home = "file"
  BY DEF Init
<1>2. None.tok = NoTok /\ NoTok.acct = NoAcct /\ NoAcct \notin Accounts
  BY BlobAssumption DEF None, NoTok
<1>3. ASSUME NEW a \in Accounts, a \notin gone
      PROVE  Deposited([acct |-> a, ver |-> live[a]])
  <2>1. Held(a)
    BY <1>1, <1>3
  <2>2. \A p \in Procs : held[p].tok # [acct |-> a, ver |-> live[a]]
    BY <1>1, <1>2
  <2> QED
    BY <2>1, <2>2 DEF Held, Places, Deposited, Stored
<1>4. ASSUME provider = "codex", NEW a \in Accounts, a \notin gone, a # Outside
      PROVE  Stored([acct |-> a, ver |-> live[a]])
  <2>1. \E x \in {None, Login(NoCred, [acct |-> Outside, ver |-> 1])} : path = x /\ key = None
    BY <1>1, <1>4 DEF Init
  <2>2. path.tok.acct \in {NoAcct, Outside} /\ key.tok.acct = NoAcct /\ backup.tok.acct = NoAcct
    BY <1>1, <1>2, <2>1 DEF Login
  <2> QED
    BY <1>2, <1>3, <1>4, <2>2 DEF Deposited
<1> QED
  BY <1>3, <1>4 DEF Kept, GivenUp

LEMMA KeptStep == IInv /\ SInv /\ QInv /\ Kept /\ [Next]_vars => Kept'
<1> SUFFICES ASSUME IInv, SInv, QInv, Kept, [Next]_vars PROVE Kept'
  OBVIOUS
<1>1. CASE UNCHANGED vars
  BY <1>1 DEF vars, Kept, InOrder, GivenUp, Deposited, Stored
<1> QED
  BY <1>1, CommandKept, SessionRefreshKept, CliRotatesKept, CliLoginKept, CaptureKept DEF Next

(* Nothing a sequence of commands does overwrites the last copy of a token *)
(* its server still honours, but for the CLI's own first login when the    *)
(* user logs in again while ccm keeps a backup of it.                      *)
OthersKept == clean => \A a \in Accounts \ (gone \cup {Stub, Outside}) : Held(a)
LEMMA KeptIsHeld ==
    ASSUME IInv, Kept
    PROVE  OthersKept /\ (~LoginOverBackup => GrantIsKept)
<1>1. ASSUME NEW a, Deposited([acct |-> a, ver |-> live[a]])
      PROVE  Held(a)
  BY <1>1 DEF Deposited, Stored, Held, Places
<1>2. ASSUME NEW a, Stored([acct |-> a, ver |-> live[a]])
      PROVE  Held(a)
  BY <1>2 DEF Stored, Held
<1>3. ASSUME clean, NEW a \in Accounts \ (gone \cup {Stub, Outside})
      PROVE  Held(a)
  <2>1. CASE provider = "claude"
    BY <1>1, <1>3, <2>1 DEF Kept, InOrder, GivenUp
  <2>2. CASE provider = "codex"
    BY <1>2, <1>3, <2>2 DEF Kept
  <2> QED
    BY <2>1, <2>2, ProviderIs
<1>4. ASSUME ~LoginOverBackup, clean, provider = "claude", Outside \notin gone
      PROVE  Held(Outside)
  BY <1>1, <1>4, BlobAssumption DEF Kept, InOrder, GivenUp
<1> QED
  BY <1>3, <1>4, ProviderIs DEF OthersKept, GrantIsKept

(* While commands run one at a time and none is killed, the token that an  *)
(* account's server honours is kept somewhere: of every account that has   *)
(* not been given up, and of the CLI's own first one too when nobody logs  *)
(* in at the CLI while a backup is pending.                                *)
THEOREM GrantsAreKept ==
    Spec => /\ []OthersKept
            /\ ~LoginOverBackup => []GrantIsKept
<1>1. IInv /\ SInv /\ QInv /\ Kept => OthersKept
  BY KeptIsHeld
<1>2. CASE ~LoginOverBackup
  <2>1. IInv /\ SInv /\ QInv /\ Kept => GrantIsKept
    BY <1>2, KeptIsHeld
  <2> QED
    BY <1>1, <2>1, InitIInv, IInvStep, InitSInv, SInvStep, InitQInv, QInvStep, InitKept, KeptStep,
       PTL DEF Spec
<1>3. CASE LoginOverBackup
  BY <1>1, <1>3, InitIInv, IInvStep, InitSInv, SInvStep, InitQInv, QInvStep, InitKept, KeptStep,
     PTL DEF Spec
<1> QED
  BY <1>2, <1>3, BlobAssumption
===============================================================================
