------------------------------- MODULE ActiveBlob -------------------------------
(***************************************************************************)
(* The credential Claude Code (or the codex CLI) reads, and the commands   *)
(* that replace it (internal/claude, internal/codex/switch.go,             *)
(* cmd/use.go, restore.go, refresh.go, relogin.go, logout.go, backup.go).  *)
(*                                                                         *)
(* The CLI's login lives in one entry: ~/.claude/.credentials.json or the  *)
(* keychain, ~/.codex/auth.json.  `ccm use` replaces it by a stored        *)
(* credential and keeps what was there in a backup file; every command     *)
(* first copies newer tokens of the entry back into the store (Sync).      *)
(* Nothing here takes a lock.  The refresh of a stored credential is one   *)
(* step: CredRefresh has its details.                                      *)
(***************************************************************************)
EXTENDS Integers, FiniteSets

CONSTANTS
    Procs,          \* ccm commands running side by side
    Creds,          \* ids in the store
    Fresh,          \* ids `ccm backup` may mint
    Accounts,       \* accounts logged in somewhere
    Outside,        \* the account the CLI was logged in to before ccm
    Stub,           \* the placeholder login of the identity capture
    NoCred, NoAcct,
    MaxVer,         \* bound on the tokens of one account
    Providers,      \* the providers to consider
    LoginOverBackup,\* may the user log in at the CLI while a backup is pending?
    Together        \* bound: the providers whose commands run side by side

ASSUME BlobAssumption ==
    /\ Fresh \subseteq Creds /\ Creds # {} /\ "capture" \notin Procs
    /\ {Outside, Stub} \subseteq Accounts /\ Outside # Stub
    /\ NoCred \notin Creds /\ NoAcct \notin Accounts
    /\ MaxVer \in Nat \ {0}
    /\ Providers \subseteq {"claude", "codex"}
    /\ LoginOverBackup \in BOOLEAN /\ Together \subseteq Providers

VARIABLES
    provider,       \* whose entry this is
    home,           \* where the CLI keeps its login: "file" or "keychain"
    path,           \* the entry in the file system
    key,            \* the entry in the keychain
    backup,         \* bk.credentials.json, bk.auth.json
    sidecar,        \* the legacy ~/.ccm/active.json
    store,          \* the stored credentials
    owner,          \* the account a stored credential was made for
    live,           \* the token of an account that its server honours
    stub,           \* EnsureFileStub and its cleanup
    pc, job, be, held,
    clean,          \* nothing has interfered with a command so far
    gone            \* accounts the user has logged out or imported

fixed     == <<provider, home>>
entryVars == <<path, key>>
files     == <<path, key, backup, sidecar>>
known     == <<store, owner, live>>
workVars  == <<job, be, held>>
procVars  == <<pc, job, be, held>>
vars == <<provider, home, path, key, backup, sidecar, store, owner, live, stub,
          pc, job, be, held, clean, gone>>

Tok   == [acct : Accounts, ver : 1..MaxVer]
NoTok == [acct |-> NoAcct, ver |-> 0]

(* What a place may hold: a login, with ccm's marker or without; half a    *)
(* login; a symlink into the store; the legacy symlink to a marked copy.   *)
None     == [kind |-> "none", id |-> NoCred, tok |-> NoTok]
Torn     == [kind |-> "torn", id |-> NoCred, tok |-> NoTok]
Link(c)  == [kind |-> "link", id |-> c, tok |-> NoTok]
Login(c, t) == [kind |-> "file", id |-> c, tok |-> t]
Contents == {None, Torn} \cup {Link(c) : c \in Creds}
            \cup [kind : {"file", "rel"}, id : Creds \cup {NoCred}, tok : Tok]

Loadable(c) == c \in Creds /\ store[c] # NoTok /\ store[c].acct = owner[c]

Commands == {"use", "restore", "refresh", "relogin", "logout", "backup"}
Pcs == {"idle", "migrate", "cleanup", "read", "load", "save", "run", "login", "inspect",
        "activate", "symlink", "isactive", "managed", "putback", "unback",
        "clear", "unlink", "rewrite", "delete", "import"}

TypeOK ==
    /\ provider \in Providers /\ home \in {"file", "keychain"}
    /\ path \in Contents /\ key \in Contents /\ backup \in Contents
    /\ sidecar \in Creds \cup {NoCred}
    /\ store \in [Creds -> Tok \cup {NoTok}]
    /\ owner \in [Creds -> Accounts \cup {NoAcct}]
    /\ live \in [Accounts -> 1..MaxVer]
    /\ stub \in {"idle", "write", "written", "compare", "remove"}
    /\ pc \in [Procs -> Pcs]
    /\ job \in [Procs -> [cmd : Commands, cred : Creds, again : BOOLEAN]]
    /\ be \in [Procs -> {"file", "keychain"}]
    /\ held \in [Procs -> Contents]
    /\ clean \in BOOLEAN
    /\ gone \subseteq Accounts

-------------------------------------------------------------------------------
(* Reading an entry.  A symlink into the store shows the stored file: a    *)
(* codex credential there carries its id, a claude one no marker.          *)
Seen(x) ==
    CASE x.kind = "link" -> IF store[x.id] = NoTok THEN None
                            ELSE Login(IF provider = "codex" /\ Loadable(x.id)
                                       THEN x.id ELSE NoCred, store[x.id])
      [] x.kind = "rel"  -> [x EXCEPT !.kind = "file"]
      [] OTHER           -> x
Entry(b)  == IF b = "keychain" THEN key ELSE Seen(path)
Active(b) == Entry(b).id                        \* NoCred: not managed
Home      == Entry(home)

(* backend.Write: the keychain's entry, or a rename over the path.         *)
Put(b, x) == IF b = "keychain" THEN key' = x /\ path' = path ELSE path' = x /\ key' = key

(* probeBackend: the keychain if it has an entry, otherwise the file.      *)
Probe == IF key # None THEN "keychain" ELSE "file"

NoJob == [cmd |-> "use", cred |-> CHOOSE c \in Creds : TRUE, again |-> FALSE]
Goto(p, l)   == pc' = [pc EXCEPT ![p] = l]
Hold(p, x)   == held' = [held EXCEPT ![p] = x]
Finish(p)    == /\ pc' = [pc EXCEPT ![p] = "idle"]
                /\ held' = [held EXCEPT ![p] = None]
                /\ job' = [job EXCEPT ![p] = NoJob]
                /\ be' = [be EXCEPT ![p] = "file"]
Goes(p, l, x) == Goto(p, l) /\ Hold(p, x) /\ UNCHANGED <<job, be>>

InFlight == {p \in Procs : pc[p] # "idle"} \cup IF stub = "idle" THEN {} ELSE {"capture"}
(* `clean` is history: it turns FALSE once a step meets somebody else's    *)
(* unfinished work, or a process dies.                                     *)
Alone(p)  == clean' = (clean /\ InFlight \subseteq {p})

(* Whether the token an account's server honours is still somewhere.       *)
Places  == {path, key, backup} \cup {held[p] : p \in Procs}
Held(a) == \/ \E x \in Places : x.tok = [acct |-> a, ver |-> live[a]]
           \/ \E c \in Creds  : store[c] = [acct |-> a, ver |-> live[a]]

Init ==
    /\ provider \in Providers
    /\ store \in [Creds -> Tok \cup {NoTok}]
    /\ owner = [c \in Creds |-> store[c].acct]
    /\ \A c \in Creds : IF c \in Fresh THEN store[c] = NoTok
                        ELSE store[c].ver = 1 /\ store[c].acct \notin {Outside, Stub}
    /\ \A c, d \in Creds \ Fresh : owner[c] = owner[d] => c = d
    /\ live = [a \in Accounts |-> 1]
    /\ home \in IF provider = "codex" THEN {"file"} ELSE {"file", "keychain"}
    /\ backup = None
    /\ stub = "idle" /\ pc = [p \in Procs |-> "idle"] /\ clean = TRUE
    /\ job = [p \in Procs |-> NoJob] /\ be = [p \in Procs |-> "file"]
    /\ held = [p \in Procs |-> None]
    /\ \/ /\ sidecar = NoCred                   \* no ccm before, perhaps no login either
          /\ \E x \in {None, Login(NoCred, [acct |-> Outside, ver |-> 1])} :
                IF home = "file" THEN path = x /\ key = None ELSE key = x /\ path = None
       \/ /\ provider = "claude"                \* an older ccm has activated c
          /\ \E c \in Creds \ Fresh :
                \/ path = Link(c) /\ sidecar = NoCred
                \/ path = [Login(c, store[c]) EXCEPT !.kind = "rel"] /\ sidecar = NoCred
                \/ path = Login(c, store[c]) /\ sidecar = NoCred
                \/ path = Login(NoCred, store[c]) /\ sidecar = c
          /\ key = IF home = "file" THEN None    \* the CLI has moved its login over
                   ELSE Login(NoCred, Seen(path).tok)
    /\ gone = {a \in Accounts : ~Held(a)}

-------------------------------------------------------------------------------
(* A command starts.  PersistentPreRunE runs Sync, which is about the      *)
(* claude entry only.                                                      *)
Begin(p, cmd, c) ==
    /\ pc[p] = "idle"
    /\ provider \in Together \/ \A q \in Procs : pc[q] = "idle"
    /\ cmd = "backup" => provider = "claude"
    /\ cmd \in {"restore", "backup"} => c = NoJob.cred         \* no argument
    /\ job' = [job EXCEPT ![p] = [cmd |-> cmd, cred |-> c, again |-> FALSE]]
    /\ be' = [be EXCEPT ![p] = Probe]
    /\ Goto(p, IF provider = "claude" THEN "migrate" ELSE "run")
    /\ Alone(p)
    /\ UNCHANGED <<fixed, files, known, stub, held, gone>>

(* detectLegacyState.                                                      *)
Legacy ==
    IF sidecar # NoCred THEN sidecar
    ELSE IF path.kind \in {"link", "rel", "file"} THEN path.id ELSE NoCred

(* migrate up to its write.  A managed entry is kept, a symlink to it      *)
(* becomes a file; a recognised older layout is written in the new form.   *)
Migrate(p) ==
    /\ pc[p] = "migrate"
    /\ LET managed == Active(be[p]) # NoCred
           write   == ~managed /\ Loadable(Legacy)
       IN  /\ IF write THEN Put(be[p], Login(Legacy, store[Legacy]))
              ELSE IF managed /\ be[p] = "file" /\ path.kind = "rel"
                   THEN Put("file", Seen(path))
                   ELSE UNCHANGED entryVars
           /\ Hold(p, IF write THEN Login(Legacy, store[Legacy]) ELSE None)
           (* what the CLI has refreshed in the old layout is overwritten unread *)
           /\ gone' = IF write THEN gone \cup ({Entry(be[p]).tok.acct} \ {NoAcct}) ELSE gone
    /\ Goto(p, "cleanup")
    /\ Alone(p)
    /\ UNCHANGED <<fixed, backup, sidecar, known, stub, job, be>>

(* The file a keychain entry replaces, and cleanupLegacyArtifacts: without *)
(* its target a relative symlink shows nothing.                            *)
Cleanup(p) ==
    /\ pc[p] = "cleanup"
    /\ sidecar' = NoCred
    /\ path' = IF path.kind = "rel" \/ (held[p] # None /\ be[p] = "keychain") THEN None ELSE path
    /\ Goes(p, "read", None)
    /\ Alone(p)
    /\ UNCHANGED <<fixed, key, backup, known, stub, gone>>

(* Sync proper: read the entry, look at the stored credential, save.       *)
AfterSync(p) == IF job[p].cmd = "backup" /\ job[p].again THEN "idle" ELSE "run"
SyncRead(p) ==
    /\ pc[p] = "read"
    /\ IF Active(be[p]) # NoCred THEN Goes(p, "load", Entry(be[p]))
       ELSE IF AfterSync(p) = "idle" THEN Finish(p) ELSE Goes(p, "run", None)
    /\ Alone(p)
    /\ UNCHANGED <<fixed, files, known, stub, gone>>

(* Mutant: the older tokens win.                                           *)
SyncOlder(p) ==
    /\ pc[p] = "load"
    /\ IF Loadable(held[p].id) /\ held[p].tok.ver < store[held[p].id].ver
       THEN Goes(p, "save", held[p])
       ELSE IF AfterSync(p) = "idle" THEN Finish(p) ELSE Goes(p, "run", None)
    /\ Alone(p)
    /\ UNCHANGED <<fixed, files, known, stub, gone>>

SyncLoad(p) ==
    /\ pc[p] = "load"
    /\ IF Loadable(held[p].id) /\ held[p].tok.ver > store[held[p].id].ver
       THEN Goes(p, "save", held[p])
       ELSE IF AfterSync(p) = "idle" THEN Finish(p) ELSE Goes(p, "run", None)
    /\ Alone(p)
    /\ UNCHANGED <<fixed, files, known, stub, gone>>

(* Mutant: the tokens go to the credential the command is about.           *)
SyncToArgument(p) ==
    /\ pc[p] = "save"
    /\ store' = [store EXCEPT ![job[p].cred] = held[p].tok]
    /\ IF AfterSync(p) = "idle" THEN Finish(p) ELSE Goes(p, "run", None)
    /\ Alone(p)
    /\ UNCHANGED <<fixed, files, owner, live, stub, gone>>

SyncSave(p) ==
    /\ pc[p] = "save"
    /\ store' = [store EXCEPT ![held[p].id] = held[p].tok]
    /\ IF AfterSync(p) = "idle" THEN Finish(p) ELSE Goes(p, "run", None)
    /\ Alone(p)
    /\ UNCHANGED <<fixed, files, owner, live, stub, gone>>

-------------------------------------------------------------------------------
(* RunE: every command resolves its argument first.                        *)
Running(p, cmd) == pc[p] = "run" /\ job[p].cmd = cmd
Fail(p, cmd) ==
    /\ Running(p, cmd) /\ cmd \notin {"restore", "backup"}
    /\ ~Loadable(job[p].cred)
    /\ Finish(p)
    /\ Alone(p)
    /\ UNCHANGED <<fixed, files, known, stub, gone>>

(* RefreshCredential on c, whose stored token must be the honoured one.    *)
Rotatable(c) == Loadable(c) /\ store[c].ver = live[owner[c]] /\ live[owner[c]] < MaxVer
Rotated(c)   == [store[c] EXCEPT !.ver = @ + 1]
RotateStored(c) ==
    /\ store' = [store EXCEPT ![c] = Rotated(c)]
    /\ live' = [live EXCEPT ![owner[c]] = @ + 1]

(* `ccm use` syncs once more and resolves again.                           *)
UseSyncAgain(p) ==
    /\ Running(p, "use") /\ provider = "claude" /\ ~job[p].again
    /\ Loadable(job[p].cred)
    /\ job' = [job EXCEPT ![p].again = TRUE]
    /\ Goto(p, "migrate")
    /\ Alone(p)
    /\ UNCHANGED <<fixed, files, known, stub, be, held, gone>>

(* An expired credential is refreshed before it is activated.              *)
UseResolve(p) ==
    /\ Running(p, "use") /\ (provider = "claude" => job[p].again)
    /\ LET c == job[p].cred
       IN  /\ Loadable(c)
           /\ \/ Goes(p, "inspect", Login(c, store[c])) /\ UNCHANGED <<store, live>>
              \/ Rotatable(c) /\ RotateStored(c) /\ Goes(p, "inspect", Login(c, Rotated(c)))
    /\ Alone(p)
    /\ UNCHANGED <<fixed, files, owner, stub, gone>>

Original(b) == Entry(b) # None /\ Active(b) = NoCred /\ backup = None

(* Mutant: the snapshot is taken whatever the entry is.                    *)
InspectForgetsMarker(p) ==
    /\ pc[p] = "inspect"
    /\ backup' = IF Entry(be[p]) # None /\ backup = None THEN Entry(be[p]) ELSE backup
    /\ Goto(p, "activate")
    /\ Alone(p)
    /\ UNCHANGED <<fixed, entryVars, sidecar, known, stub, workVars, gone>>

(* Use: an entry without marker is copied to the backup file, unless there *)
(* is one already.                                                         *)
Inspect(p) ==
    /\ pc[p] = "inspect"
    /\ backup' = IF Original(be[p]) THEN Entry(be[p]) ELSE backup
    /\ Goto(p, "activate")
    /\ Alone(p)
    /\ UNCHANGED <<fixed, entryVars, sidecar, known, stub, workVars, gone>>

(* The write that activates: one rename or keychain call for claude; codex *)
(* removes the file and then makes the symlink.                            *)
Activate(p) ==
    /\ pc[p] = "activate"
    /\ IF provider = "claude" THEN Put(be[p], held[p]) /\ Finish(p)
       ELSE path' = None /\ key' = key /\ Goes(p, "symlink", held[p])
    /\ Alone(p)
    /\ UNCHANGED <<fixed, backup, sidecar, known, stub, gone>>

Symlink(p) ==
    /\ pc[p] = "symlink"
    /\ path' = IF path = None THEN Link(held[p].id) ELSE path
    /\ Finish(p)
    /\ Alone(p)
    /\ UNCHANGED <<fixed, key, backup, sidecar, known, stub, gone>>

(* `ccm refresh`, then the copy if the credential is the active one (the   *)
(* command asks the claude entry only).                                    *)
Refresh(p) ==
    /\ Running(p, "refresh")
    /\ LET c == job[p].cred
       IN  \/ /\ Rotatable(c) /\ RotateStored(c)
              /\ IF provider = "claude" THEN Goes(p, "isactive", Login(c, Rotated(c)))
                 ELSE Finish(p)
           \/ Loadable(c) /\ ~Rotatable(c) /\ Finish(p) /\ UNCHANGED <<store, live>>
    /\ Alone(p)
    /\ UNCHANGED <<fixed, files, owner, stub, gone>>

(* `ccm relogin` keeps the resolved identity during the whole login.       *)
Relogin(p) ==
    /\ Running(p, "relogin")
    /\ Loadable(job[p].cred)
    /\ Goes(p, "login", None)
    /\ Alone(p)
    /\ UNCHANGED <<fixed, files, known, stub, gone>>

ReloginSave(p) ==
    /\ pc[p] = "login"
    /\ LET a == owner[job[p].cred]
           t == [acct |-> a, ver |-> live[a] + 1]
       IN  \/ /\ live[a] < MaxVer
              /\ live' = [live EXCEPT ![a] = @ + 1]
              /\ store' = [store EXCEPT ![job[p].cred] = t]
              /\ Goes(p, "isactive", Login(job[p].cred, t))
           \/ Finish(p) /\ UNCHANGED <<live, store>>      \* the login fails
    /\ Alone(p)
    /\ UNCHANGED <<fixed, files, owner, stub, gone>>

IsActive(p) ==
    /\ pc[p] = "isactive"
    /\ IF Active(be[p]) = job[p].cred THEN Goes(p, "activate", held[p]) ELSE Finish(p)
    /\ Alone(p)
    /\ UNCHANGED <<fixed, files, known, stub, gone>>

-------------------------------------------------------------------------------
(* Restore.  Claude's wants a managed entry and drops the backup when it   *)
(* is done; codex's wants a backup and keeps it.                           *)
Left(p) == IF job[p].cmd = "logout" THEN Goes(p, "delete", None) ELSE Finish(p)

RestoreBegin(p) ==
    /\ Running(p, "restore")
    /\ IF backup = None THEN Finish(p)
       ELSE IF provider = "claude" THEN Goes(p, "managed", None)
       ELSE Goes(p, "unlink", backup)
    /\ Alone(p)
    /\ UNCHANGED <<fixed, files, known, stub, gone>>

RestoreManaged(p) ==
    /\ pc[p] = "managed"
    /\ IF Active(be[p]) = NoCred THEN Left(p)
       ELSE IF backup = None THEN Goes(p, "clear", None)
       ELSE Goes(p, "putback", backup)
    /\ Alone(p)
    /\ UNCHANGED <<fixed, files, known, stub, gone>>

PutBack(p) ==
    /\ pc[p] = "putback"
    /\ Put(be[p], held[p])
    /\ Goes(p, "unback", None)
    /\ Alone(p)
    /\ UNCHANGED <<fixed, backup, sidecar, known, stub, gone>>

RemoveBackup(p) ==
    /\ pc[p] = "unback"
    /\ backup' = None
    /\ Left(p)
    /\ Alone(p)
    /\ UNCHANGED <<fixed, entryVars, sidecar, known, stub, gone>>

Clear(p) ==
    /\ pc[p] = "clear"
    /\ Put(be[p], None)
    /\ Left(p)
    /\ Alone(p)
    /\ UNCHANGED <<fixed, backup, sidecar, known, stub, gone>>

Unlink(p) ==
    /\ pc[p] = "unlink"
    /\ path' = None
    /\ Goes(p, "rewrite", held[p])
    /\ Alone(p)
    /\ UNCHANGED <<fixed, key, backup, sidecar, known, stub, gone>>

(* os.WriteFile follows a symlink that another command has put there.      *)
Rewrite(p) ==
    /\ pc[p] = "rewrite"
    /\ IF path.kind = "link"
       THEN store' = [store EXCEPT ![path.id] = held[p].tok] /\ path' = path
       ELSE path' = held[p] /\ store' = store
    /\ Left(p)
    /\ Alone(p)
    /\ UNCHANGED <<fixed, key, backup, sidecar, owner, live, stub, gone>>

(* Mutant: the active credential is deleted without Restore.               *)
LogoutWithoutRestore(p) ==
    /\ Running(p, "logout")
    /\ Loadable(job[p].cred)
    /\ Goes(p, "delete", None)
    /\ Alone(p)
    /\ UNCHANGED <<fixed, files, known, stub, gone>>

Logout(p) ==
    /\ Running(p, "logout")
    /\ Loadable(job[p].cred)
    /\ IF Active(be[p]) # job[p].cred THEN Goes(p, "delete", None)
       ELSE IF provider = "claude" THEN Goes(p, "managed", None)
       ELSE IF backup = None THEN Goes(p, "delete", None)
       ELSE Goes(p, "unlink", backup)
    /\ Alone(p)
    /\ UNCHANGED <<fixed, files, known, stub, gone>>

Delete(p) ==
    /\ pc[p] = "delete"
    /\ store' = [store EXCEPT ![job[p].cred] = NoTok]
    /\ gone' = gone \cup ({owner[job[p].cred]} \ {NoAcct})
    /\ Finish(p)
    /\ Alone(p)
    /\ UNCHANGED <<fixed, files, owner, live, stub>>

(* `ccm backup`: a managed entry is synced, another one imported under a   *)
(* new id.                                                                 *)
Backup(p) ==
    /\ Running(p, "backup")
    /\ LET x == Entry(be[p])
       IN  IF Loadable(x.id)
           THEN /\ job' = [job EXCEPT ![p].again = TRUE]
                /\ Goto(p, "migrate") /\ UNCHANGED <<be, held>>
           ELSE IF x.tok = NoTok THEN Finish(p) ELSE Goes(p, "import", x)
    /\ Alone(p)
    /\ UNCHANGED <<fixed, files, known, stub, gone>>

Import(p) ==
    /\ pc[p] = "import"
    /\ \E c \in Fresh :
        /\ owner[c] = NoAcct
        /\ store' = [store EXCEPT ![c] = held[p].tok]
        /\ owner' = [owner EXCEPT ![c] = held[p].tok.acct]
    /\ Finish(p)
    /\ Alone(p)
    /\ UNCHANGED <<fixed, files, live, stub, gone>>

(* A command is killed, perhaps in the middle of an os.WriteFile.          *)
Kill(p) ==
    /\ pc[p] # "idle"
    /\ backup' \in {backup} \cup IF pc[p] = "inspect" /\ Original(be[p]) THEN {Torn} ELSE {}
    /\ path' \in {path} \cup IF pc[p] = "rewrite" /\ path.kind # "link" THEN {Torn} ELSE {}
    /\ Finish(p)
    /\ clean' = FALSE
    /\ UNCHANGED <<fixed, key, sidecar, known, stub, gone>>

-------------------------------------------------------------------------------
(* Everybody else.  A session (share, launch, serve) refreshes the stored  *)
(* credential without looking at the entry.                                *)
Bystander == clean' = (clean /\ InFlight = {})

SessionRefresh(c) ==
    /\ Rotatable(c) /\ RotateStored(c)
    /\ Bystander
    /\ UNCHANGED <<fixed, files, owner, stub, procVars, gone>>

(* The CLI refreshes its own login in place, marker and all.               *)
CliRotates ==
    /\ Home.kind = "file" /\ (home = "file" => path.kind = "file")
    /\ Home.tok.acct # Stub
    /\ Home.tok.ver = live[Home.tok.acct] /\ Home.tok.ver < MaxVer
    /\ live' = [live EXCEPT ![Home.tok.acct] = @ + 1]
    /\ Put(home, [Home EXCEPT !.tok.ver = @ + 1])
    /\ Bystander
    /\ UNCHANGED <<fixed, backup, sidecar, store, owner, stub, procVars, gone>>

(* The user logs in at the CLI: a new token, no marker; what the entry     *)
(* held before is given up.                                                *)
CliLogin ==
    /\ LoginOverBackup \/ backup = None
    /\ path.kind \in {"none", "file"} /\ live[Outside] < MaxVer
    /\ live' = [live EXCEPT ![Outside] = @ + 1]
    /\ Put(home, Login(NoCred, [acct |-> Outside, ver |-> live[Outside] + 1]))
    /\ gone' = (gone \cup ({Home.tok.acct} \ {NoAcct})) \ {Outside}
    /\ Bystander
    /\ UNCHANGED <<fixed, backup, sidecar, store, owner, stub, procVars>>

(* EnsureFileStub and its cleanup, each a check and an act.                *)
StubTok   == [acct |-> Stub, ver |-> 1]
StubStep(from, to) == provider = "claude" /\ stub = from /\ stub' = to
EnsureStub == StubStep("idle", "write") /\ path = None /\ path' = path
WriteStub  == StubStep("write", "written") /\ path' = Login(NoCred, StubTok)
CompareStub ==
    /\ StubStep("written", IF path = Login(NoCred, StubTok) THEN "remove" ELSE "idle")
    /\ path' = path
RemoveStub == StubStep("remove", "idle") /\ path' = None
Capture ==
    /\ EnsureStub \/ WriteStub \/ CompareStub \/ RemoveStub
    /\ clean' = (clean /\ InFlight \subseteq {"capture"})
    /\ UNCHANGED <<fixed, key, backup, sidecar, known, procVars, gone>>

Command(p) ==
    \/ \E cmd \in Commands, c \in Creds : Begin(p, cmd, c)
    \/ Migrate(p) \/ Cleanup(p) \/ SyncRead(p) \/ SyncLoad(p) \/ SyncSave(p)
    \/ \E cmd \in Commands : Fail(p, cmd)
    \/ UseSyncAgain(p) \/ UseResolve(p) \/ Inspect(p)
    \/ Activate(p) \/ Symlink(p)
    \/ Refresh(p) \/ Relogin(p) \/ ReloginSave(p) \/ IsActive(p)
    \/ RestoreBegin(p) \/ RestoreManaged(p) \/ PutBack(p) \/ RemoveBackup(p) \/ Clear(p)
    \/ Unlink(p) \/ Rewrite(p)
    \/ Logout(p) \/ Delete(p) \/ Backup(p) \/ Import(p) \/ Kill(p)

Next ==
    \/ \E p \in Procs : Command(p)
    \/ \E c \in Creds : SessionRefresh(c)
    \/ CliRotates \/ CliLogin \/ Capture

Spec == Init /\ [][Next]_vars

-------------------------------------------------------------------------------
(* While commands run one at a time and none is killed, the token an       *)
(* account's server honours is always kept somewhere: no sequence of       *)
(* commands, in whatever order with the CLI's own refreshes, overwrites    *)
(* the last copy.  An account is given up by `ccm logout`, by a login over *)
(* it, and by migrate, which overwrites an unmarked entry.  The codex      *)
(* CLI's own first login is excepted: Restore leaves a backup behind that  *)
(* is not renewed.                                                         *)
GrantIsKept ==
    clean => \A a \in Accounts \ (gone \cup {Stub}) :
                (provider = "codex" /\ a = Outside) \/ Held(a)

(* Even with commands side by side and killed ones, a stored credential    *)
(* never holds the tokens of another account.  Codex's needs commands one  *)
(* at a time: Restore writes through a symlink `ccm use` has just made.    *)
StoreHoldsItsOwn ==
    (provider = "claude" \/ clean) =>
        \A c \in Creds : store[c] = NoTok \/ store[c].acct = owner[c]
Inv == TypeOK /\ StoreHoldsItsOwn

(* The backup is a login from outside ccm: a credential that ccm has put   *)
(* into the entry is never mistaken for the original, whatever races or    *)
(* dies (a killed migrate, whose account counts as given up, aside); nor   *)
(* is the capture's placeholder, unless it meets a command.                *)
SnapshotIsTheOriginal ==
    backup.kind = "file" =>
        /\ backup.id = NoCred
        /\ \/ backup.tok.acct \in {Outside} \cup (gone \ {Stub})
           \/ backup.tok.acct = Stub /\ ~clean

(* Once a logout is through, the CLI no longer reads the credential.       *)
LogoutDeactivates ==
    clean /\ InFlight = {} =>
        \A c \in Creds : owner[c] # NoAcct /\ store[c] = NoTok => Home.id # c
===============================================================================
