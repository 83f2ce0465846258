-------------------------------- MODULE Dashboard --------------------------------
(***************************************************************************)
(* `ccm serve` (cmd/serve.go, internal/serve): the pid file that keeps a   *)
(* second server out, the manager of share sessions and the handlers that  *)
(* start and stop them, and the shutdown.                                  *)
(*                                                                         *)
(* A session is what SessionLifecycle says of it: StartSession takes its   *)
(* time and may fail, Stop takes its time.  A server process may be killed *)
(* at any moment; cloudflared survives the process that started it.        *)
(***************************************************************************)
EXTENDS Integers, FiniteSets

CONSTANTS
    Servers,        \* processes running `ccm serve`
    Creds,          \* credentials of the store
    Calls,          \* HTTP requests a server may be handling at once
    MaxSessions,    \* bound: StartSession calls made in all
    NoServer, NoSession

ASSUME DashboardAssumption ==
    /\ NoServer \notin Servers /\ Creds # {}
    /\ MaxSessions \in Nat \ {0} /\ NoSession = 0

VARIABLES
    pidfile,        \* the server it names; NoServer: absent or unreadable
    proc,           \* where each server process stands
    contended,      \* two servers have been starting at the same time
    map,            \* Manager.sessions of each server
    sess,           \* every session started so far
    late,           \* sessions entered into a map after Shutdown took it
    call            \* the requests being handled

Sessions == 1..MaxSessions

serverVars  == <<pidfile, proc, contended>>
sessionVars == <<map, sess, late>>
vars == <<pidfile, proc, contended, map, sess, late, call>>

Session == [st : {"none", "starting", "live", "stopping", "stopped", "failed", "left"},
            srv : Servers \cup {NoServer}]
Call == [pc : {"free", "check", "start", "insert", "wait", "stop"},
         srv : Servers \cup {NoServer}, cred : Creds, ses : 0..MaxSessions]
Free == [pc |-> "free", srv |-> NoServer, cred |-> CHOOSE c \in Creds : TRUE,
         ses |-> NoSession]

TypeOK ==
    /\ pidfile \in Servers \cup {NoServer}
    /\ proc \in [Servers -> {"off", "read", "truncate", "write", "listen", "running",
                             "shutdown", "drain", "exit", "broken"}]
    /\ contended \in BOOLEAN
    /\ map \in [Servers -> [Creds -> 0..MaxSessions]]
    /\ sess \in [Sessions -> Session]
    /\ late \subseteq Sessions
    /\ call \in [Calls -> Call]
    /\ \A k \in Calls : call[k].pc \in {"start", "insert", "wait"} => call[k].ses # NoSession

Init ==
    /\ pidfile = NoServer /\ contended = FALSE
    /\ proc = [s \in Servers |-> "off"]
    /\ map = [s \in Servers |-> [c \in Creds |-> NoSession]]
    /\ sess = [i \in Sessions |-> [st |-> "none", srv |-> NoServer]]
    /\ late = {}
    /\ call = [k \in Calls |-> Free]

-------------------------------------------------------------------------------
(* writePIDFile: look, judge, write; os.WriteFile empties the file first.  *)
StartingUp(s) == proc[s] \in {"read", "truncate", "write", "listen"}
Up(s) == proc[s] \in {"running", "shutdown", "drain", "exit", "broken"}
Overlapping(s) == \E t \in Servers \ {s} :
    StartingUp(t) \/ (contended /\ proc[t] # "off")

Launch(s) ==
    /\ proc[s] = "off"
    /\ proc' = [proc EXCEPT ![s] = "read"]
    /\ contended' = Overlapping(s)
    /\ UNCHANGED <<pidfile, sessionVars, call>>

(* Mutant: whether the process it names still runs is not asked.           *)
ReadPIDBlind(s) ==
    /\ proc[s] = "read" /\ proc' = [proc EXCEPT ![s] = "truncate"]
    /\ UNCHANGED <<pidfile, contended, sessionVars, call>>

ReadPID(s) ==
    /\ proc[s] = "read"
    /\ proc' = [proc EXCEPT ![s] =
          IF pidfile # NoServer /\ proc[pidfile] # "off" /\ pidfile # s
          THEN "off" ELSE "truncate"]
    /\ UNCHANGED <<pidfile, contended, sessionVars, call>>

TruncatePID(s) ==
    /\ proc[s] = "truncate" /\ pidfile' = NoServer
    /\ proc' = [proc EXCEPT ![s] = "write"]
    /\ UNCHANGED <<contended, sessionVars, call>>

WritePID(s) ==
    /\ proc[s] = "write" /\ pidfile' = s
    /\ proc' = [proc EXCEPT ![s] = "listen"]
    /\ UNCHANGED <<contended, sessionVars, call>>

(* The handler is built and the port is bound, or the server gives up.     *)
Listen(s) ==
    /\ proc[s] = "listen"
    /\ \E p \in {"running", "exit"} : proc' = [proc EXCEPT ![s] = p]
    /\ UNCHANGED <<pidfile, contended, sessionVars, call>>

(* The process is gone.  Its sessions' proxies go with it, a cloudflared   *)
(* that nobody told to stop does not.                                      *)
Vanish(s) ==
    /\ proc' = [proc EXCEPT ![s] = "off"]
    /\ map' = [map EXCEPT ![s] = [c \in Creds |-> NoSession]]
    /\ sess' = [i \in Sessions |->
          IF sess[i].srv # s THEN sess[i]
          ELSE CASE sess[i].st \in {"starting", "live"} -> [sess[i] EXCEPT !.st = "left"]
                 [] sess[i].st = "stopping" -> [sess[i] EXCEPT !.st = "stopped"]
                 [] OTHER -> sess[i]]
    /\ call' = [k \in Calls |-> IF call[k].srv = s THEN Free ELSE call[k]]
    /\ UNCHANGED <<contended, late>>

Exit(s)   == proc[s] \in {"exit", "broken"} /\ Vanish(s) /\ pidfile' = NoServer
Killed(s) == proc[s] # "off" /\ Vanish(s) /\ pidfile' = pidfile

(* The listener fails: the server returns without a shutdown.              *)
ServeFails(s) ==
    /\ proc[s] = "running" /\ proc' = [proc EXCEPT ![s] = "broken"]
    /\ UNCHANGED <<pidfile, contended, sessionVars, call>>

-------------------------------------------------------------------------------
(* Handlers.  The HTTP server takes requests until srv.Shutdown.           *)
Accepting(s) == proc[s] \in {"running", "shutdown"}
Enter(k, s, r) == call[k].pc = "free" /\ Accepting(s) /\ call' = [call EXCEPT ![k] = r]
At(k, from) == call[k].pc = from
Goto(k, to) == call' = [call EXCEPT ![k].pc = to]
Reply(k) == call' = [call EXCEPT ![k] = Free]
Mapped(k) == map[call[k].srv][call[k].cred]

(* The bound on sessions is met here, never halfway through a Start.       *)
StartCall(k, s, c) ==
    /\ Cardinality({i \in Sessions : sess[i].st = "none"})
         > Cardinality({j \in Calls : call[j].pc = "check"})
    /\ Enter(k, s, [Free EXCEPT !.pc = "check", !.srv = s, !.cred = c])
    /\ UNCHANGED <<serverVars, sessionVars>>

(* Manager.Start: look under the lock, start without it, look again.       *)
CheckMap(k) ==
    /\ At(k, "check")
    /\ \/ Mapped(k) # NoSession /\ Reply(k) /\ sess' = sess
       \/ /\ Mapped(k) = NoSession
          /\ \E i \in Sessions :
                /\ sess[i].st = "none" /\ \A j \in 1..(i - 1) : sess[j].st # "none"
                /\ sess' = [sess EXCEPT ![i] = [st |-> "starting", srv |-> call[k].srv]]
                /\ call' = [call EXCEPT ![k].pc = "start", ![k].ses = i]
    /\ UNCHANGED <<serverVars, map, late>>

StartSession(k) ==
    /\ At(k, "start")
    /\ \/ sess' = [sess EXCEPT ![call[k].ses].st = "live"] /\ Goto(k, "insert")
       \/ sess' = [sess EXCEPT ![call[k].ses].st = "failed"] /\ Reply(k)
    /\ UNCHANGED <<serverVars, map, late>>

StopSession(i) == sess' = [sess EXCEPT ![i].st = "stopping"]

(* Mutant: the loser of two Starts forgets the session it has started.     *)
InsertForgets(k) ==
    /\ At(k, "insert")
    /\ map' = IF Mapped(k) # NoSession THEN map
              ELSE [map EXCEPT ![call[k].srv][call[k].cred] = call[k].ses]
    /\ Reply(k)
    /\ UNCHANGED <<serverVars, sess, late>>

Insert(k) ==
    /\ At(k, "insert")
    /\ IF Mapped(k) # NoSession
       THEN StopSession(call[k].ses) /\ Goto(k, "wait") /\ UNCHANGED <<map, late>>
       ELSE /\ map' = [map EXCEPT ![call[k].srv][call[k].cred] = call[k].ses]
            /\ late' = IF proc[call[k].srv] = "running" THEN late ELSE late \cup {call[k].ses}
            /\ Reply(k) /\ sess' = sess
    /\ UNCHANGED <<serverVars>>

StopCall(k, s, c) ==
    /\ Enter(k, s, [Free EXCEPT !.pc = "stop", !.srv = s, !.cred = c])
    /\ UNCHANGED <<serverVars, sessionVars>>

Stop(k) ==
    /\ At(k, "stop")
    /\ IF Mapped(k) = NoSession THEN Reply(k) /\ UNCHANGED <<map, sess>>
       ELSE /\ map' = [map EXCEPT ![call[k].srv][call[k].cred] = NoSession]
            /\ StopSession(Mapped(k))
            /\ call' = [call EXCEPT ![k].pc = "wait", ![k].ses = Mapped(k)]
    /\ UNCHANGED <<serverVars, late>>

StopReturns(k) ==
    /\ At(k, "wait") /\ sess[call[k].ses].st = "stopped" /\ Reply(k)
    /\ UNCHANGED <<serverVars, sessionVars>>

SessionStops(i) ==
    /\ sess[i].st = "stopping" /\ sess' = [sess EXCEPT ![i].st = "stopped"]
    /\ UNCHANGED <<serverVars, map, late, call>>

(* Mutant: the loop runs over the map that has just been emptied.          *)
ShutdownOfNone(s) ==
    /\ proc[s] = "running"
    /\ proc' = [proc EXCEPT ![s] = "shutdown"]
    /\ map' = [map EXCEPT ![s] = [c \in Creds |-> NoSession]]
    /\ UNCHANGED <<pidfile, contended, sess, late, call>>

(* Ctrl-C: Manager.Shutdown takes the whole map and stops what is in it.   *)
Shutdown(s) ==
    /\ proc[s] = "running"
    /\ proc' = [proc EXCEPT ![s] = "shutdown"]
    /\ map' = [map EXCEPT ![s] = [c \in Creds |-> NoSession]]
    /\ sess' = [i \in Sessions |->
          IF \E c \in Creds : map[s][c] = i THEN [sess[i] EXCEPT !.st = "stopping"] ELSE sess[i]]
    /\ UNCHANGED <<pidfile, contended, late, call>>

(* Its deadline may pass before a session has stopped.  Then srv.Shutdown  *)
(* closes the listener and waits, up to the same deadline, for handlers.   *)
SessionsStopped(s) ==
    /\ proc[s] = "shutdown" /\ proc' = [proc EXCEPT ![s] = "drain"]
    /\ UNCHANGED <<pidfile, contended, sessionVars, call>>

Drained(s) ==
    /\ proc[s] = "drain" /\ proc' = [proc EXCEPT ![s] = "exit"]
    /\ UNCHANGED <<pidfile, contended, sessionVars, call>>

-------------------------------------------------------------------------------
ServerStep(s) ==
    \/ ReadPID(s) \/ TruncatePID(s) \/ WritePID(s) \/ Listen(s) \/ Exit(s)
    \/ SessionsStopped(s) \/ Drained(s)

CallStep(k) ==
    \/ CheckMap(k) \/ StartSession(k) \/ Insert(k) \/ Stop(k) \/ StopReturns(k)

Next ==
    \/ \E s \in Servers :
          \/ Launch(s) \/ ServerStep(s) \/ Killed(s) \/ ServeFails(s) \/ Shutdown(s)
          \/ \E k \in Calls, c \in Creds : StartCall(k, s, c) \/ StopCall(k, s, c)
    \/ \E k \in Calls : CallStep(k)
    \/ \E i \in Sessions : SessionStops(i)

Spec == Init /\ [][Next]_vars

-------------------------------------------------------------------------------
InFlight(i) == \E k \in Calls : call[k].pc = "insert" /\ call[k].ses = i

(* What the dashboard lists is what runs: a listed session has not been    *)
(* stopped, and a running one that is not listed is about to be, by the    *)
(* Start that has just begun it.  Two Starts of a credential, or a Stop    *)
(* that overtakes a Start, leave no share behind that nobody can stop.     *)
MapIsExact ==
    /\ \A s \in Servers, c \in Creds : map[s][c] # NoSession =>
          sess[map[s][c]] = [st |-> "live", srv |-> s]
    /\ \A i \in Sessions : sess[i].st = "live" =>
          InFlight(i) \/ \E c \in Creds : map[sess[i].srv][c] = i
Inv == TypeOK /\ MapIsExact

(* Ctrl-C stops every session, those excepted that were still being        *)
(* started when Shutdown took the map, or were asked for after it.         *)
ShutdownStops ==
    \A i \in Sessions :
        sess[i].st = "live" /\ proc[sess[i].srv] \in {"shutdown", "drain", "exit"} =>
            i \in late \/ InFlight(i)

(* Servers that do not start at the same moment keep each other out, after *)
(* a crash as well, and the one that runs is the one the pid file names.   *)
OneServer ==
    ~contended => \A s \in Servers : Up(s) =>
        pidfile = s /\ \A t \in Servers \ {s} : ~Up(t)
===============================================================================
