------------------------------ MODULE ServeProofs ------------------------------
(***************************************************************************)
(* Proofs about the dashboard's server, for every number of servers,       *)
(* credentials, requests and sessions (Dashboard), and about logging in,   *)
(* for every number of dialogs, requests, processes and codes (LoginFlow). *)
(***************************************************************************)
EXTENDS Dashboard, LoginFlow, TLAPS

-------------------------------------------------------------------------------
(* PART 1: Dashboard.                                                      *)

(* Servers that do not start at the same moment: at most one is starting,  *)
(* and once it has judged the pid file stale it is alone.                  *)
OneStarter ==
    ~contended =>
        /\ \A s, t \in Servers : StartingUp(s) /\ StartingUp(t) => s = t
        /\ \A s \in Servers : proc[s] \in {"truncate", "write", "listen"} =>
              \A t \in Servers \ {s} : proc[t] = "off"
        /\ \A s \in Servers : proc[s] = "listen" => pidfile = s

(* A session that is not over belongs to a server that is up, and so does  *)
(* a request.                                                              *)
Running == {"starting", "live", "stopping"}
SessionsAreHosted ==
    \A i \in Sessions : sess[i].st \in Running => sess[i].srv \in Servers /\ Up(sess[i].srv)
CallsAreHosted ==
    \A k \in Calls : call[k].pc # "free" => call[k].srv \in Servers /\ Up(call[k].srv)

(* A request that starts a session has it for itself until it is listed.   *)
Starts(k) == call[k].pc \in {"start", "insert"}
StartsAreOwn ==
    /\ \A k \in Calls : Starts(k) =>
          sess[call[k].ses] = [st |-> IF call[k].pc = "start" THEN "starting" ELSE "live",
                               srv |-> call[k].srv]
    /\ \A k \in Calls : call[k].pc = "insert" => \A c \in Creds : map[call[k].srv][c] # call[k].ses
    /\ \A j, k \in Calls : Starts(j) /\ Starts(k) /\ call[j].ses = call[k].ses => j = k

(* No session is listed twice.                                             *)
ListedOnce ==
    \A s \in Servers, c, d \in Creds : map[s][c] = map[s][d] /\ map[s][c] # NoSession => c = d

IInv ==
    /\ Inv
    /\ SessionsAreHosted
    /\ CallsAreHosted
    /\ StartsAreOwn
    /\ ListedOnce
    /\ ShutdownStops

ServerInv == TypeOK /\ OneStarter /\ OneServer

-------------------------------------------------------------------------------
(* What the records of a session and of a request are changed to.          *)
LEMMA FreeTyped == Free \in Call /\ Free.pc = "free"
BY DashboardAssumption DEF Free, Call

LEMMA SessionStep ==
    ASSUME NEW x \in Session, NEW v \in {"starting", "live", "stopping", "stopped", "failed", "left"}
    PROVE  [x EXCEPT !.st = v] \in Session
BY DEF Session

LEMMA CallStepTyped ==
    ASSUME NEW x \in Call, NEW v \in {"check", "start", "insert", "wait", "stop"},
           NEW i \in Sessions
    PROVE  /\ [x EXCEPT !.pc = v] \in Call
           /\ [x EXCEPT !.pc = v, !.ses = i] \in Call
           /\ [x EXCEPT !.pc = v, !.ses = i].ses # NoSession
           /\ [x EXCEPT !.pc = v, !.ses = i].srv = x.srv
           /\ [x EXCEPT !.pc = v].srv = x.srv /\ [x EXCEPT !.pc = v].ses = x.ses
<1>1. i \in 0..MaxSessions /\ i # NoSession
  BY DashboardAssumption DEF Sessions
<1>2. [x EXCEPT !.pc = v] \in Call /\ [x EXCEPT !.pc = v].srv = x.srv /\ [x EXCEPT !.pc = v].ses = x.ses
  BY DEF Call
<1>3. [x EXCEPT !.pc = v, !.ses = i] \in Call /\ [x EXCEPT !.pc = v, !.ses = i].ses = i
      /\ [x EXCEPT !.pc = v, !.ses = i].srv = x.srv
  BY <1>1 DEF Call
<1>4. QED
  BY <1>1, <1>2, <1>3

(* A request that is being handled is handled by a server.                  *)
CallsTyped ==
    /\ call \in [Calls -> Call]
    /\ \A k \in Calls : call[k].pc \in {"start", "insert", "wait"} => call[k].ses # NoSession
    /\ \A k \in Calls : call[k].pc # "free" => call[k].srv \in Servers

LEMMA TypeInit == Init => TypeOK /\ CallsTyped
<1> SUFFICES ASSUME Init PROVE TypeOK /\ CallsTyped
  OBVIOUS
<1>1. NoSession \in 0..MaxSessions
  BY DashboardAssumption
<1>2. [st |-> "none", srv |-> NoServer] \in Session
  BY DEF Session
<1>3. QED
  BY <1>1, <1>2, FreeTyped DEF Init, TypeOK, CallsTyped

LEMMA OneCallTyped ==
    ASSUME CallsTyped, NEW k \in Calls, NEW r \in Call,
           r.pc \in {"start", "insert", "wait"} => r.ses # NoSession,
           r.pc # "free" => r.srv \in Servers,
           call' = [call EXCEPT ![k] = r]
    PROVE  CallsTyped'
BY DEF CallsTyped

LEMMA OneSessionTyped ==
    ASSUME sess \in [Sessions -> Session], NEW i \in Sessions, NEW r \in Session,
           sess' = [sess EXCEPT ![i] = r]
    PROVE  sess' \in [Sessions -> Session]
OBVIOUS

LEMMA OneEntryTyped ==
    ASSUME map \in [Servers -> [Creds -> 0..MaxSessions]],
           NEW s \in Servers, NEW c \in Creds, NEW i \in 0..MaxSessions,
           map' = [map EXCEPT ![s][c] = i]
    PROVE  map' \in [Servers -> [Creds -> 0..MaxSessions]]
OBVIOUS

LEMMA NoEntryTyped ==
    ASSUME map \in [Servers -> [Creds -> 0..MaxSessions]], NEW s \in Servers,
           map' = [map EXCEPT ![s] = [c \in Creds |-> NoSession]]
    PROVE  map' \in [Servers -> [Creds -> 0..MaxSessions]]
<1>1. [c \in Creds |-> NoSession] \in [Creds -> 0..MaxSessions]
  BY DashboardAssumption
<1>2. QED
  BY <1>1

(* Every action keeps the types; the two records are the work.             *)
Typed == TypeOK /\ CallsTyped

LEMMA TypeNext == Typed /\ [Next]_vars => Typed'
<1> SUFFICES ASSUME Typed, [Next]_vars PROVE Typed'
  OBVIOUS
<1>0. /\ CallsTyped /\ sess \in [Sessions -> Session] /\ late \subseteq Sessions
      /\ map \in [Servers -> [Creds -> 0..MaxSessions]]
  BY DEF Typed, TypeOK
<1>1. ASSUME NEW s \in Servers, Launch(s) \/ ReadPID(s) \/ TruncatePID(s) \/ WritePID(s) \/ Listen(s)
             \/ ServeFails(s) \/ SessionsStopped(s) \/ Drained(s)
      PROVE  Typed'
  BY <1>1 DEF Typed, TypeOK, CallsTyped, Launch, ReadPID, TruncatePID, WritePID, Listen, ServeFails, SessionsStopped, Drained,
     sessionVars, Overlapping, StartingUp
<1>2. ASSUME NEW s \in Servers, Vanish(s), pidfile' \in Servers \cup {NoServer}
      PROVE  Typed'
  <2>1. sess' \in [Sessions -> Session]
    <3>1. \A i \in Sessions : sess'[i] \in {sess[i], [sess[i] EXCEPT !.st = "left"],
                                             [sess[i] EXCEPT !.st = "stopped"]}
      BY <1>2 DEF Vanish
    <3>2. \A i \in Sessions : sess'[i] \in Session
      BY <1>0, <3>1, SessionStep, ZenonT(60)
    <3>3. QED
      BY <1>2, <3>2 DEF Vanish
  <2>2. CallsTyped'
    BY <1>0, <1>2, FreeTyped DEF Vanish, CallsTyped
  <2>3. map' \in [Servers -> [Creds -> 0..MaxSessions]]
    BY <1>0, <1>2, NoEntryTyped DEF Vanish
  <2>4. QED
    BY <1>2, <2>1, <2>2, <2>3 DEF Vanish, Typed, TypeOK, CallsTyped
<1>3. ASSUME NEW s \in Servers, Shutdown(s) PROVE Typed'
  <2>1. \A i \in Sessions : sess'[i] \in {sess[i], [sess[i] EXCEPT !.st = "stopping"]}
    BY <1>3 DEF Shutdown
  <2>2. \A i \in Sessions : sess'[i] \in Session
    BY <1>0, <2>1, SessionStep, ZenonT(60)
  <2>3. map' \in [Servers -> [Creds -> 0..MaxSessions]]
    BY <1>0, <1>3, NoEntryTyped DEF Shutdown
  <2>4. QED
    BY <1>3, <2>2, <2>3 DEF Shutdown, Typed, TypeOK, CallsTyped
<1>4. ASSUME NEW k \in Calls, NEW s \in Servers, NEW c \in Creds, StartCall(k, s, c) \/ StopCall(k, s, c)
      PROVE  Typed'
  <2>1. PICK r \in Call : call' = [call EXCEPT ![k] = r] /\ r.pc \in {"check", "stop"} /\ r.srv = s
    <3>1. \A v \in {"check", "stop"} : [Free EXCEPT !.pc = v, !.srv = s, !.cred = c] \in Call
      BY FreeTyped DEF Call
    <3>2. \A v \in {"check", "stop"} : [Free EXCEPT !.pc = v, !.srv = s, !.cred = c].pc = v
                                    /\ [Free EXCEPT !.pc = v, !.srv = s, !.cred = c].srv = s
      BY FreeTyped DEF Call
    <3>3. QED
      BY <1>4, <3>1, <3>2 DEF StartCall, StopCall, Enter
  <2>2. CallsTyped'
    BY <1>0, <2>1, OneCallTyped
  <2>3. QED
    BY <1>4, <2>2 DEF StartCall, StopCall, serverVars, sessionVars, Typed, TypeOK, CallsTyped
<1>5. ASSUME NEW k \in Calls, NEW r \in Call, call' = [call EXCEPT ![k] = r],
             r.pc \in {"start", "insert", "wait"} => r.ses # NoSession,
             r.pc # "free" => r.srv \in Servers,
             UNCHANGED serverVars, late' \subseteq Sessions,
             map' = map \/ \E s \in Servers, c \in Creds, i \in 0..MaxSessions :
                              map' = [map EXCEPT ![s][c] = i],
             sess' = sess \/ \E i \in Sessions, x \in Session : sess' = [sess EXCEPT ![i] = x]
      PROVE  Typed'
  <2>1. CallsTyped'
    BY <1>0, <1>5, OneCallTyped
  <2>2. map' \in [Servers -> [Creds -> 0..MaxSessions]]
    BY <1>0, <1>5, OneEntryTyped
  <2>3. sess' \in [Sessions -> Session]
    BY <1>0, <1>5, OneSessionTyped
  <2>4. QED
    BY <1>5, <2>1, <2>2, <2>3 DEF Typed, TypeOK, serverVars
<1>6. ASSUME NEW k \in Calls, CallStep(k) PROVE Typed'
  <2>0. call[k] \in Call /\ call[k].pc # "free" /\ call[k].srv \in Servers /\ call[k].cred \in Creds
    BY <1>0, <1>6 DEF CallsTyped, Call, CallStep, CheckMap, StartSession, Insert, Stop, StopReturns, At
  <2>1. ASSUME Reply(k), UNCHANGED <<serverVars, map, late>>,
               sess' = sess \/ \E i \in Sessions, x \in Session : sess' = [sess EXCEPT ![i] = x]
        PROVE  Typed'
    BY <1>5, <2>1, <1>0, FreeTyped DEF Reply
  <2>2. CASE CheckMap(k)
    <3>1. CASE Mapped(k) # NoSession /\ Reply(k) /\ sess' = sess
      BY <2>1, <2>2, <3>1 DEF CheckMap
    <3>2. ASSUME NEW i \in Sessions,
                 sess' = [sess EXCEPT ![i] = [st |-> "starting", srv |-> call[k].srv]],
                 call' = [call EXCEPT ![k].pc = "start", ![k].ses = i]
          PROVE  Typed'
      <4>1. [st |-> "starting", srv |-> call[k].srv] \in Session
        BY <2>0 DEF Session
      <4>2. /\ [call[k] EXCEPT !.pc = "start", !.ses = i] \in Call
            /\ [call[k] EXCEPT !.pc = "start", !.ses = i].ses # NoSession
            /\ [call[k] EXCEPT !.pc = "start", !.ses = i].srv = call[k].srv
        BY <2>0, CallStepTyped
      <4>3. call' = [call EXCEPT ![k] = [call[k] EXCEPT !.pc = "start", !.ses = i]]
        BY <3>2, <1>0 DEF CallsTyped
      <4>4. UNCHANGED <<serverVars, map, late>>
        BY <2>2 DEF CheckMap
      <4>5. QED
        BY <1>0, <1>5, <2>0, <3>2, <4>1, <4>2, <4>3, <4>4
    <3>3. QED
      BY <2>2, <3>1, <3>2 DEF CheckMap
  <2>3. CASE StartSession(k)
    <3>1. call[k].ses \in Sessions /\ call[k].ses # NoSession
      <4>1. call[k].ses # NoSession
        BY <1>0, <2>3 DEF StartSession, At, CallsTyped
      <4>2. QED
        BY <2>0, <4>1, DashboardAssumption DEF Call, Sessions
    <3>2. \A v \in {"live", "failed"} : [sess[call[k].ses] EXCEPT !.st = v] \in Session
      BY <1>0, <3>1, SessionStep
    <3>3. sess' \in {[sess EXCEPT ![call[k].ses] = [sess[call[k].ses] EXCEPT !.st = v]] : v \in {"live", "failed"}}
      BY <1>0, <2>3, <3>1 DEF StartSession
    <3>4. CASE Reply(k)
      BY <2>1, <2>3, <3>1, <3>2, <3>3, <3>4 DEF StartSession
    <3>5. CASE Goto(k, "insert")
      <4>1. /\ [call[k] EXCEPT !.pc = "insert"] \in Call
            /\ [call[k] EXCEPT !.pc = "insert"].ses # NoSession
            /\ [call[k] EXCEPT !.pc = "insert"].srv = call[k].srv
        BY <2>0, <3>1, CallStepTyped
      <4>2. call' = [call EXCEPT ![k] = [call[k] EXCEPT !.pc = "insert"]]
        BY <1>0, <3>5 DEF Goto, CallsTyped
      <4>3. UNCHANGED <<serverVars, map, late>>
        BY <2>3 DEF StartSession
      <4>4. \E x \in Session : sess' = [sess EXCEPT ![call[k].ses] = x]
        BY <3>2, <3>3
      <4>5. QED
        BY <1>0, <1>5, <2>0, <3>1, <4>1, <4>2, <4>3, <4>4
    <3>6. QED
      BY <2>3, <3>4, <3>5 DEF StartSession
  <2>4. CASE Insert(k)
    <3>1. call[k].ses \in Sessions /\ call[k].ses \in 0..MaxSessions /\ call[k].ses # NoSession
      <4>1. call[k].ses # NoSession
        BY <1>0, <2>4 DEF Insert, At, CallsTyped
      <4>2. QED
        BY <2>0, <4>1, DashboardAssumption DEF Call, Sessions
    <3>2. CASE Mapped(k) # NoSession
      <4>1. /\ [call[k] EXCEPT !.pc = "wait"] \in Call
            /\ [call[k] EXCEPT !.pc = "wait"].ses # NoSession
            /\ [call[k] EXCEPT !.pc = "wait"].srv = call[k].srv
        BY <2>0, <3>1, CallStepTyped
      <4>2. [sess[call[k].ses] EXCEPT !.st = "stopping"] \in Session
        BY <1>0, <3>1, SessionStep
      <4>3. call' = [call EXCEPT ![k] = [call[k] EXCEPT !.pc = "wait"]]
        BY <1>0, <2>4, <3>2 DEF Insert, Goto, CallsTyped
      <4>4. sess' = [sess EXCEPT ![call[k].ses] = [sess[call[k].ses] EXCEPT !.st = "stopping"]]
        BY <1>0, <2>4, <3>1, <3>2 DEF Insert, StopSession
      <4>5. UNCHANGED <<serverVars, map, late>>
        BY <2>4, <3>2 DEF Insert
      <4>6. QED
        BY <1>0, <1>5, <2>0, <3>1, <4>1, <4>2, <4>3, <4>4, <4>5
    <3>3. CASE Mapped(k) = NoSession
      <4>1. \E s \in Servers, c \in Creds, i \in 0..MaxSessions : map' = [map EXCEPT ![s][c] = i]
        BY <2>0, <2>4, <3>1, <3>3 DEF Insert
      <4>2. late' \subseteq Sessions /\ sess' = sess
        BY <1>0, <2>4, <3>1, <3>3 DEF Insert
      <4>3. QED
        BY <1>5, <2>4, <3>3, <4>1, <4>2, FreeTyped DEF Insert, Reply
    <3>4. QED
      BY <3>2, <3>3
  <2>5. CASE Stop(k)
    <3>1. CASE Mapped(k) = NoSession
      BY <2>1, <2>5, <3>1 DEF Stop
    <3>2. CASE Mapped(k) # NoSession
      <4>1. Mapped(k) \in Sessions
        BY <1>0, <2>0, <3>2, DashboardAssumption DEF Mapped, Sessions
      <4>2. [sess[Mapped(k)] EXCEPT !.st = "stopping"] \in Session
        BY <1>0, <4>1, SessionStep
      <4>3. /\ [call[k] EXCEPT !.pc = "wait", !.ses = Mapped(k)] \in Call
            /\ [call[k] EXCEPT !.pc = "wait", !.ses = Mapped(k)].ses # NoSession
            /\ [call[k] EXCEPT !.pc = "wait", !.ses = Mapped(k)].srv = call[k].srv
        BY <2>0, <4>1, CallStepTyped
      <4>4. call' = [call EXCEPT ![k] = [call[k] EXCEPT !.pc = "wait", !.ses = Mapped(k)]]
        BY <1>0, <2>5, <3>2 DEF Stop, CallsTyped
      <4>5. NoSession \in 0..MaxSessions
        BY DashboardAssumption
      <4>6. sess' = [sess EXCEPT ![Mapped(k)] = [sess[Mapped(k)] EXCEPT !.st = "stopping"]]
        BY <1>0, <2>5, <3>2, <4>1 DEF Stop, StopSession
      <4>7. /\ UNCHANGED <<serverVars, late>>
            /\ map' = [map EXCEPT ![call[k].srv][call[k].cred] = NoSession]
        BY <2>5, <3>2 DEF Stop
      <4>8. QED
        BY <1>0, <1>5, <2>0, <4>1, <4>2, <4>3, <4>4, <4>5, <4>6, <4>7
    <3>3. QED
      BY <3>1, <3>2
  <2>6. CASE StopReturns(k)
    BY <2>1, <2>6 DEF StopReturns, sessionVars
  <2>7. QED
    BY <1>6, <2>2, <2>3, <2>4, <2>5, <2>6 DEF CallStep
<1>7. ASSUME NEW i \in Sessions, SessionStops(i) PROVE Typed'
  BY <1>0, <1>7, SessionStep DEF SessionStops, serverVars, Typed, TypeOK, CallsTyped
<1>8. CASE UNCHANGED vars
  BY <1>8 DEF vars, Typed, TypeOK, CallsTyped
<1>9. QED
  BY <1>1, <1>2, <1>3, <1>4, <1>6, <1>7, <1>8 DEF Next, ServerStep, Exit, Killed, Typed, TypeOK


-------------------------------------------------------------------------------
(* The servers: pid file and start-up.  Requests leave them alone.         *)
LEMMA ServerNext == ServerInv /\ [Next]_vars => OneStarter' /\ OneServer'
<1> SUFFICES ASSUME ServerInv, [Next]_vars PROVE OneStarter' /\ OneServer'
  OBVIOUS
<1> USE DEF StartingUp, Up
<1>0. /\ pidfile \in Servers \cup {NoServer} /\ NoServer \notin Servers /\ contended \in BOOLEAN
      /\ proc \in [Servers -> {"off", "read", "truncate", "write", "listen", "running",
                               "shutdown", "drain", "exit", "broken"}]
  BY DashboardAssumption DEF ServerInv, TypeOK
<1>1. CASE UNCHANGED serverVars
  BY <1>1 DEF ServerInv, OneStarter, OneServer, serverVars
<1>2. ASSUME NEW s \in Servers, Launch(s) PROVE OneStarter' /\ OneServer'
  <2>1. ~contended' => \A t \in Servers \ {s} :
            ~StartingUp(t) /\ (contended => proc[t] = "off")
    BY <1>0, <1>2 DEF Launch, Overlapping
  <2>2. proc' = [proc EXCEPT ![s] = "read"] /\ pidfile' = pidfile /\ proc[s] = "off"
    BY <1>2 DEF Launch
  <2>3. OneStarter'
    BY <1>0, <2>1, <2>2 DEF OneStarter
  <2>4. OneServer'
    BY <1>0, <2>1, <2>2 DEF ServerInv, OneServer
  <2>5. QED
    BY <2>3, <2>4
<1>3. ASSUME NEW s \in Servers, ReadPID(s) PROVE OneStarter' /\ OneServer'
  <2>1. ASSUME ~contended, proc'[s] = "truncate" PROVE \A t \in Servers \ {s} : proc[t] = "off"
    <3>1. \A t \in Servers \ {s} : ~StartingUp(t)
      BY <1>0, <1>3, <2>1 DEF ReadPID, ServerInv, OneStarter
    <3>2. \A t \in Servers \ {s} : ~Up(t)
      BY <1>0, <1>3, <2>1 DEF ReadPID, ServerInv, OneServer
    <3>3. QED
      BY <1>0, <3>1, <3>2
  <2>2. \/ proc' = [proc EXCEPT ![s] = "truncate"]
        \/ proc' = [proc EXCEPT ![s] = "off"]
    BY <1>3 DEF ReadPID
  <2>3. contended' = contended /\ pidfile' = pidfile /\ proc[s] = "read"
    BY <1>3 DEF ReadPID
  <2>4. OneStarter'
    BY <1>0, <2>1, <2>2, <2>3 DEF ServerInv, OneStarter
  <2>5. OneServer'
    BY <1>0, <2>1, <2>2, <2>3 DEF ServerInv, OneServer
  <2>6. QED
    BY <2>4, <2>5
<1>4. ASSUME NEW s \in Servers, TruncatePID(s) \/ WritePID(s) \/ Listen(s)
      PROVE  OneStarter' /\ OneServer'
  <2>1. OneStarter'
    BY <1>0, <1>4 DEF TruncatePID, WritePID, Listen, ServerInv, OneStarter
  <2>2. OneServer'
    BY <1>0, <1>4 DEF TruncatePID, WritePID, Listen, ServerInv, OneStarter, OneServer
  <2>3. QED
    BY <2>1, <2>2
<1>5. ASSUME NEW s \in Servers, ServeFails(s) \/ SessionsStopped(s) \/ Drained(s) \/ Shutdown(s)
      PROVE  OneStarter' /\ OneServer'
  BY <1>0, <1>5 DEF ServeFails, SessionsStopped, Drained, Shutdown, ServerInv, OneStarter, OneServer
<1>6. ASSUME NEW s \in Servers, Exit(s) \/ Killed(s) PROVE OneStarter' /\ OneServer'
  <2>1. proc' = [proc EXCEPT ![s] = "off"] /\ contended' = contended
    BY <1>6 DEF Exit, Killed, Vanish
  <2>2. (Up(s) /\ pidfile' = NoServer) \/ pidfile' = pidfile
    BY <1>6 DEF Exit, Killed, Up
  <2>3. OneStarter'
    BY <1>0, <2>1, <2>2 DEF ServerInv, OneStarter
  <2>4. OneServer'
    BY <1>0, <2>1, <2>2 DEF ServerInv, OneServer
  <2>5. QED
    BY <2>3, <2>4
<1>7. ASSUME NEW k \in Calls, CallStep(k) PROVE UNCHANGED serverVars
  BY <1>7 DEF CallStep, CheckMap, StartSession, Insert, Stop, StopReturns, serverVars
<1>8. ASSUME NEW i \in Sessions, SessionStops(i) PROVE UNCHANGED serverVars
  BY <1>8 DEF SessionStops
<1>9. ASSUME NEW s \in Servers, NEW k \in Calls, NEW c \in Creds, StartCall(k, s, c) \/ StopCall(k, s, c)
      PROVE  UNCHANGED serverVars
  BY <1>9 DEF StartCall, StopCall
<1>10. UNCHANGED vars => UNCHANGED serverVars
  BY DEF vars, serverVars
<1>11. QED
  BY <1>1, <1>2, <1>3, <1>4, <1>5, <1>6, <1>7, <1>8, <1>9, <1>10 DEF Next, ServerStep

(* The pid file keeps a second server out (cmd/serve.go:185).              *)
THEOREM ServesAlone == Spec => []OneServer
<1>1. Init => Typed /\ ServerInv
  BY TypeInit DEF Init, Typed, ServerInv, OneStarter, OneServer, StartingUp, Up
<1>2. Typed /\ ServerInv /\ [Next]_vars => (Typed /\ ServerInv)'
  BY TypeNext, ServerNext DEF Typed, ServerInv
<1>3. Typed /\ ServerInv => OneServer
  BY DEF ServerInv
<1>4. QED
  BY <1>1, <1>2, <1>3, PTL DEF Spec

-------------------------------------------------------------------------------
(* The sessions.  What a step leaves of the invariant, part by part, from  *)
(* what it does to the records, session by session and request by request. *)
Hosting == SessionsAreHosted /\ CallsAreHosted
Listing == MapIsExact /\ ListedOnce
Halted(s) == proc[s] \in {"shutdown", "drain", "exit"}

LEMMA Unpack ==
    ASSUME Typed
    PROVE  /\ \A i \in Sessions : sess[i].srv \in Servers \cup {NoServer}
           /\ \A s \in Servers, c \in Creds :
                 map[s][c] \in 0..MaxSessions /\ (map[s][c] # NoSession => map[s][c] \in Sessions)
           /\ \A k \in Calls : /\ call[k].cred \in Creds
                               /\ call[k].pc # "free" => call[k].srv \in Servers
                               /\ call[k].pc \in {"start", "insert", "wait"} => call[k].ses \in Sessions
<1>1. \A i \in Sessions : sess[i] \in Session
  BY DEF Typed, TypeOK
<1>2. \A k \in Calls : call[k] \in Call
  BY DEF Typed, TypeOK
<1>3. \A i \in 0..MaxSessions : i # NoSession => i \in Sessions
  BY DashboardAssumption DEF Sessions
<1>4. \A s \in Servers, c \in Creds : map[s][c] \in 0..MaxSessions
  BY DEF Typed, TypeOK
<1>5. \A k \in Calls : call[k].ses \in 0..MaxSessions /\ call[k].cred \in Creds
  BY <1>2 DEF Call
<1>6. \A i \in Sessions : sess[i].srv \in Servers \cup {NoServer}
  BY <1>1 DEF Session
<1>7. QED
  BY <1>3, <1>4, <1>5, <1>6 DEF Typed, CallsTyped

(* The sessions that are listed and those that are being started.          *)
LEMMA Fields ==
    ASSUME Typed, IInv
    PROVE  /\ \A s \in Servers, c \in Creds : map[s][c] # NoSession =>
                 map[s][c] \in Sessions /\ sess[map[s][c]].st = "live" /\ sess[map[s][c]].srv = s
           /\ \A k \in Calls : Starts(k) =>
                 /\ call[k].ses \in Sessions /\ call[k].srv \in Servers
                 /\ sess[call[k].ses].srv = call[k].srv
                 /\ sess[call[k].ses].st = IF call[k].pc = "start" THEN "starting" ELSE "live"
           /\ \A k \in Calls : Starts(k) => sess[call[k].ses].st \in {"starting", "live"}
<1>1. ASSUME NEW s \in Servers, NEW c \in Creds, map[s][c] # NoSession
      PROVE  map[s][c] \in Sessions /\ sess[map[s][c]].st = "live" /\ sess[map[s][c]].srv = s
  <2>1. sess[map[s][c]] = [st |-> "live", srv |-> s]
    BY <1>1 DEF IInv, Inv, MapIsExact
  <2>2. QED
    BY <1>1, <2>1, Unpack
<1>2. ASSUME NEW k \in Calls, Starts(k)
      PROVE  /\ call[k].ses \in Sessions /\ call[k].srv \in Servers
             /\ sess[call[k].ses].srv = call[k].srv
             /\ sess[call[k].ses].st = IF call[k].pc = "start" THEN "starting" ELSE "live"
  <2>1. sess[call[k].ses] = [st |-> IF call[k].pc = "start" THEN "starting" ELSE "live",
                             srv |-> call[k].srv]
    BY <1>2 DEF IInv, StartsAreOwn
  <2>2. QED
    BY <1>2, <2>1, Unpack DEF Starts
<1>3. QED
  BY <1>1, <1>2

(* A server's own steps touch no session; those that are up stay up.       *)
LEMMA ServerKeeps ==
    ASSUME IInv, UNCHANGED <<sessionVars, call>>,
           \A s \in Servers : Up(s) => Up(s)',
           \A s \in Servers : Up(s) /\ Halted(s)' => Halted(s)
    PROVE  (Hosting /\ StartsAreOwn /\ Listing /\ ShutdownStops)'
<1> USE DEF sessionVars
<1>1. Hosting'
  BY DEF IInv, Hosting, SessionsAreHosted, CallsAreHosted
<1>2. StartsAreOwn'
  BY DEF IInv, StartsAreOwn, Starts
<1>3. Listing'
  BY DEF IInv, Inv, Listing, MapIsExact, ListedOnce, InFlight
<1>4. ShutdownStops'
  <2>1. \A i \in Sessions : sess[i].st = "live" => sess[i].srv \in Servers /\ Up(sess[i].srv)
    BY DEF IInv, SessionsAreHosted, Running
  <2>2. QED
    BY <2>1 DEF IInv, ShutdownStops, InFlight, Halted
<1>5. QED
  BY <1>1, <1>2, <1>3, <1>4

(* A process that is gone takes its sessions, its list and its requests    *)
(* along, and nothing of another server's.                                 *)
LEMMA VanishKeeps ==
    ASSUME IInv, Typed, NEW s \in Servers, Vanish(s)
    PROVE  (Hosting /\ StartsAreOwn /\ Listing /\ ShutdownStops)'
<1>0. /\ \A t \in Servers \ {s} : proc'[t] = proc[t]
      /\ \A t \in Servers \ {s} : Up(t)' <=> Up(t)
      /\ \A t \in Servers \ {s} : map'[t] = map[t]
      /\ \A c \in Creds : map'[s][c] = NoSession
      /\ \A k \in Calls : call'[k] = IF call[k].srv = s THEN Free ELSE call[k]
      /\ \A i \in Sessions : sess[i].srv # s => sess'[i] = sess[i]
      /\ late' = late
  BY DEF Vanish, Typed, TypeOK, Up
<1>1. \A i \in Sessions : sess[i].srv = s => sess'[i].st \notin Running
  <2>1. ASSUME NEW i \in Sessions, sess[i].srv = s PROVE sess'[i].st \notin Running
    <3>1. /\ sess[i].st \in {"starting", "live"} => sess'[i] = [sess[i] EXCEPT !.st = "left"]
          /\ sess[i].st = "stopping" => sess'[i] = [sess[i] EXCEPT !.st = "stopped"]
          /\ sess[i].st \notin Running => sess'[i] = sess[i]
      BY <2>1 DEF Vanish, Running
    <3>2. sess[i] \in Session
      BY DEF Typed, TypeOK
    <3>3. QED
      BY <3>1, <3>2 DEF Running, Session
  <2>2. QED
    BY <2>1
<1>2. Hosting'
  <2>1. SessionsAreHosted'
    BY <1>0, <1>1 DEF IInv, SessionsAreHosted
  <2>2. CallsAreHosted'
    BY <1>0, FreeTyped DEF IInv, CallsAreHosted
  <2>3. QED
    BY <2>1, <2>2 DEF Hosting
<1>3. \A k \in Calls : call'[k].pc # "free" => call'[k] = call[k] /\ call[k].srv \in Servers \ {s}
  BY <1>0, FreeTyped DEF IInv, CallsAreHosted
<1>4. StartsAreOwn'
  <2>1. \A k \in Calls : Starts(k)' => Starts(k) /\ call'[k] = call[k] /\ call[k].srv \in Servers \ {s}
    BY <1>3 DEF Starts
  <2>2. \A k \in Calls : Starts(k) => sess[call[k].ses].srv = call[k].srv /\ call[k].ses \in Sessions
    BY Fields
  <2>3. \A k \in Calls : Starts(k)' => sess'[call[k].ses] = sess[call[k].ses]
    BY <1>0, <2>1, <2>2
  <2>4. QED
    BY <1>0, <2>1, <2>3 DEF IInv, StartsAreOwn, Starts
<1>5. \A t \in Servers, c \in Creds : map'[t][c] # NoSession =>
          t # s /\ map'[t][c] = map[t][c] /\ map[t][c] \in Sessions /\ sess'[map[t][c]] = sess[map[t][c]]
  <2>1. \A t \in Servers, c \in Creds : map[t][c] # NoSession =>
            sess[map[t][c]].srv = t /\ map[t][c] \in Sessions
    BY Fields
  <2>2. QED
    BY <1>0, <2>1
<1>6. \A i \in Sessions : sess'[i].st = "live" =>
          sess[i].srv # s /\ sess'[i] = sess[i] /\ sess[i].srv \in Servers
  BY <1>0, <1>1 DEF IInv, SessionsAreHosted, Running
<1>7. \A i \in Sessions : sess'[i].st = "live" /\ InFlight(i) => InFlight(i)'
  <2>1. \A k \in Calls : call[k].pc = "insert" => sess[call[k].ses].srv = call[k].srv
    BY Fields DEF Starts
  <2>2. QED
    BY <1>0, <1>6, <2>1 DEF InFlight
<1>8. Listing'
  BY <1>0, <1>5, <1>6, <1>7 DEF IInv, Inv, Listing, MapIsExact, ListedOnce
<1>9. ShutdownStops'
  BY <1>0, <1>6, <1>7 DEF IInv, ShutdownStops
<1>10. QED
  BY <1>2, <1>4, <1>8, <1>9

-------------------------------------------------------------------------------
(* The same invariant with the records taken apart, for the steps that     *)
(* change one session and one request.                                     *)
Listed(i) == i \in Sessions /\ sess[i].st = "live"
Stoppable(i) == InFlight(i) \/ \E c \in Creds : map[sess[i].srv][c] = i

Started ==
    /\ \A k \in Calls : Starts(k) => call[k].ses \in Sessions /\ sess[call[k].ses].srv = call[k].srv
    /\ \A k \in Calls : call[k].pc = "start" => sess[call[k].ses].st = "starting"
    /\ \A k \in Calls : call[k].pc = "insert" =>
          sess[call[k].ses].st = "live" /\ \A c \in Creds : map[call[k].srv][c] # call[k].ses
    /\ \A j, k \in Calls : Starts(j) /\ Starts(k) /\ call[j].ses = call[k].ses => j = k

Shown ==
    /\ \A s \in Servers, c \in Creds : map[s][c] # NoSession =>
          Listed(map[s][c]) /\ sess[map[s][c]].srv = s
    /\ \A i \in Sessions : sess[i].st = "live" => Stoppable(i)
    /\ ListedOnce

Parts == Hosting /\ Started /\ Shown /\ ShutdownStops

LEMMA TakeApart == Typed /\ IInv => Parts
<1> SUFFICES ASSUME Typed, IInv PROVE Parts
  OBVIOUS
<1>1. Started
  BY Fields DEF Started, Starts, IInv, StartsAreOwn
<1>2. Shown
  BY Fields DEF Shown, Listed, Stoppable, IInv, Inv, MapIsExact
<1>3. QED
  BY <1>1, <1>2 DEF Parts, Hosting, IInv

LEMMA PutTogether == Typed /\ Parts => IInv
<1> SUFFICES ASSUME Typed, Parts PROVE IInv
  OBVIOUS
<1>0. \A i \in Sessions : sess[i] \in Session
  BY DEF Typed, TypeOK
<1>1. ASSUME NEW s \in Servers, NEW c \in Creds, map[s][c] # NoSession
      PROVE  sess[map[s][c]] = [st |-> "live", srv |-> s]
  <2>1. map[s][c] \in Sessions /\ sess[map[s][c]].st = "live" /\ sess[map[s][c]].srv = s
    BY <1>1 DEF Parts, Shown, Listed
  <2>2. sess[map[s][c]] \in Session
    BY <1>0, <2>1
  <2>3. QED
    BY <2>1, <2>2 DEF Session
<1>2. ASSUME NEW k \in Calls, Starts(k)
      PROVE  sess[call[k].ses] = [st |-> IF call[k].pc = "start" THEN "starting" ELSE "live",
                                  srv |-> call[k].srv]
  <2>1. /\ call[k].ses \in Sessions /\ sess[call[k].ses].srv = call[k].srv
        /\ sess[call[k].ses].st = IF call[k].pc = "start" THEN "starting" ELSE "live"
    BY <1>2 DEF Parts, Started, Starts
  <2>2. sess[call[k].ses] \in Session
    BY <1>0, <2>1
  <2>3. QED
    BY <2>1, <2>2 DEF Session
<1>3. MapIsExact
  BY <1>1 DEF MapIsExact, Parts, Shown, Stoppable
<1>4. StartsAreOwn
  BY <1>2 DEF StartsAreOwn, Parts, Started
<1>5. QED
  BY <1>3, <1>4 DEF IInv, Inv, Typed, Parts, Hosting, Shown

(* A step of one request k, which leaves the servers alone: it stays with  *)
(* its server, or is answered.                                             *)
OnlyCall(k) ==
    /\ \A j \in Calls \ {k} : call'[j] = call[j]
    /\ call'[k].pc # "free" => call'[k].srv \in Servers /\ Up(call'[k].srv)
    /\ UNCHANGED serverVars

(* It neither starts a session nor has started one.                        *)
LEMMA RequestKeeps ==
    ASSUME Parts, NEW k \in Calls, OnlyCall(k), UNCHANGED sessionVars, ~Starts(k), ~Starts(k)'
    PROVE  Parts'
<1> USE DEF OnlyCall, serverVars, sessionVars
<1>1. Hosting'
  BY DEF Parts, Hosting, SessionsAreHosted, CallsAreHosted, Up
<1>2. \A j \in Calls : Starts(j)' => Starts(j) /\ call'[j] = call[j]
  BY DEF Starts
<1>3. Started'
  BY <1>2 DEF Parts, Started, Starts
<1>4. \A i \in Sessions : InFlight(i) => InFlight(i)'
  BY DEF InFlight, Starts
<1>5. Shown'
  BY <1>4 DEF Parts, Shown, Stoppable, Listed, ListedOnce
<1>6. ShutdownStops'
  BY <1>4 DEF Parts, ShutdownStops
<1>7. QED
  BY <1>1, <1>3, <1>5, <1>6 DEF Parts

(* One session changes, and nothing of another.                            *)
OnlySession(i, st, srv) ==
    /\ \A j \in Sessions \ {i} : sess'[j] = sess[j]
    /\ sess'[i].st = st /\ sess'[i].srv = srv

(* Manager.Start begins a session of its own: a new one.                   *)
LEMMA BeginKeeps ==
    ASSUME Parts, NEW k \in Calls, NEW i \in Sessions, OnlyCall(k), call[k].pc = "check",
           sess[i].st = "none", OnlySession(i, "starting", call[k].srv), UNCHANGED <<map, late>>,
           call'[k].pc = "start", call'[k].ses = i, call'[k].srv = call[k].srv
    PROVE  Parts'
<1> USE DEF OnlyCall, OnlySession, serverVars
<1>0. call[k].srv \in Servers /\ Up(call[k].srv)
  BY DEF Parts, Hosting, CallsAreHosted
<1>1. Hosting'
  <2>1. SessionsAreHosted'
    BY <1>0 DEF Parts, Hosting, SessionsAreHosted, Up
  <2>2. CallsAreHosted'
    BY <1>0 DEF Parts, Hosting, CallsAreHosted, Up
  <2>3. QED
    BY <2>1, <2>2 DEF Hosting
<1>2. /\ \A j \in Calls \ {k} : Starts(j)' <=> Starts(j)
      /\ \A j \in Calls \ {k} : Starts(j) => call[j].ses # i /\ call[j].ses \in Sessions
      /\ Starts(k)' /\ call'[k].pc # "insert"
  BY DEF Parts, Started, Starts
<1>3. \A s \in Servers, c \in Creds : map[s][c] # NoSession => map[s][c] # i
  BY DEF Parts, Shown, Listed
<1>4. Started'
  BY <1>2 DEF Parts, Started, Starts
<1>5. \A j \in Sessions : InFlight(j) => InFlight(j)'
  BY DEF InFlight
<1>6. Shown'
  BY <1>3, <1>5 DEF Parts, Shown, Stoppable, Listed, ListedOnce
<1>7. ShutdownStops'
  BY <1>5 DEF Parts, ShutdownStops
<1>8. QED
  BY <1>1, <1>4, <1>6, <1>7 DEF Parts

(* StartSession returns, with a session or without.                        *)
LEMMA StartedKeeps ==
    ASSUME Parts, NEW k \in Calls, OnlyCall(k), call[k].pc = "start", UNCHANGED <<map, late>>,
           \/ /\ OnlySession(call[k].ses, "live", call[k].srv)
              /\ call'[k].pc = "insert" /\ call'[k].ses = call[k].ses /\ call'[k].srv = call[k].srv
           \/ OnlySession(call[k].ses, "failed", call[k].srv) /\ call'[k].pc = "free"
    PROVE  Parts'
<1> DEFINE i == call[k].ses
<1> USE DEF OnlyCall, OnlySession, serverVars
<1>0. /\ call[k].srv \in Servers /\ Up(call[k].srv) /\ i \in Sessions
      /\ sess[i].st = "starting" /\ sess[i].srv = call[k].srv
  BY DEF Parts, Hosting, CallsAreHosted, Started, Starts
<1>1. Hosting'
  <2>1. SessionsAreHosted'
    BY <1>0 DEF Parts, Hosting, SessionsAreHosted, Up, Running
  <2>2. CallsAreHosted'
    BY <1>0 DEF Parts, Hosting, CallsAreHosted, Up
  <2>3. QED
    BY <2>1, <2>2 DEF Hosting
<1>2. /\ \A j \in Calls \ {k} : Starts(j)' <=> Starts(j)
      /\ \A j \in Calls \ {k} : Starts(j) => call[j].ses # i /\ call[j].ses \in Sessions
      /\ Starts(k) /\ (Starts(k)' => call'[k].ses = i /\ call'[k].pc = "insert")
  BY DEF Parts, Started, Starts
<1>3. \A s \in Servers, c \in Creds : map[s][c] # NoSession => map[s][c] # i
  BY <1>0 DEF Parts, Shown, Listed
<1>31. \A c \in Creds : map[call[k].srv][c] # i
  BY <1>0, <1>3, DashboardAssumption DEF Sessions
<1>4. Started'
  <2>1. \A j \in Calls \ {k} : Starts(j) => sess'[call[j].ses] = sess[call[j].ses]
    BY <1>2
  <2>2. QED
    BY <1>0, <1>2, <1>31, <2>1, SMTT(30) DEF Parts, Started, Starts
<1>5. \A j \in Sessions : InFlight(j) => InFlight(j)' /\ j # i
  BY <1>0, <1>2 DEF InFlight, Starts
<1>51. sess'[i].st = "live" => InFlight(i)'
  BY DEF InFlight
<1>6. Shown'
  BY <1>0, <1>3, <1>5, <1>51, SMTT(40) DEF Parts, Shown, Stoppable, Listed, ListedOnce
<1>7. ShutdownStops'
  BY <1>5, <1>51 DEF Parts, ShutdownStops
<1>8. QED
  BY <1>1, <1>4, <1>6, <1>7 DEF Parts

(* The winner of two Starts lists its session.                             *)
LEMMA ListKeeps ==
    ASSUME Typed, Parts, NEW k \in Calls, OnlyCall(k), call[k].pc = "insert", sess' = sess,
           Mapped(k) = NoSession, call[k].cred \in Creds,
           map' = [map EXCEPT ![call[k].srv][call[k].cred] = call[k].ses],
           late' = IF proc[call[k].srv] = "running" THEN late ELSE late \cup {call[k].ses},
           call'[k].pc = "free"
    PROVE  Parts'
<1> DEFINE i == call[k].ses
<1> USE DEF OnlyCall, serverVars
<1>0. /\ call[k].srv \in Servers /\ i \in Sessions
      /\ sess[i].st = "live" /\ sess[i].srv = call[k].srv
      /\ \A c \in Creds : map[call[k].srv][c] # i
  BY DEF Parts, Hosting, CallsAreHosted, Started, Starts
<1>1. Hosting'
  BY DEF Parts, Hosting, SessionsAreHosted, CallsAreHosted, Up
<1>2. /\ \A j \in Calls \ {k} : Starts(j)' <=> Starts(j)
      /\ \A j \in Calls \ {k} : Starts(j) => call[j].ses # i
      /\ ~Starts(k)'
  BY DEF Parts, Started, Starts
<1>3. \A s \in Servers, c \in Creds :
          \/ map'[s][c] = map[s][c] /\ ~(s = call[k].srv /\ c = call[k].cred)
          \/ map'[s][c] = i /\ s = call[k].srv /\ c = call[k].cred
  BY <1>0 DEF Typed, TypeOK
<1>4. Started'
  <2>1. \A j \in Calls \ {k}, c \in Creds : call[j].pc = "insert" => map'[call[j].srv][c] # call[j].ses
    <3>1. \A j \in Calls \ {k}, c \in Creds : call[j].pc = "insert" =>
              map[call[j].srv][c] # call[j].ses /\ call[j].ses # i /\ call[j].srv \in Servers
      BY <1>2 DEF Parts, Started, Starts, Hosting, CallsAreHosted
    <3>2. QED
      BY <1>3, <3>1
  <2>2. QED
    BY <1>2, <2>1 DEF Parts, Started, Starts
<1>5. \A j \in Sessions : InFlight(j) => InFlight(j)' \/ j = i
  BY DEF InFlight
<1>6. Shown'
  <2>1. \A s \in Servers, c \in Creds : map'[s][c] # NoSession =>
            Listed(map'[s][c]) /\ sess[map'[s][c]].srv = s
    BY <1>0, <1>3, SMTT(40) DEF Parts, Shown, Listed
  <2>2. ASSUME NEW j \in Sessions, sess[j].st = "live" PROVE Stoppable(j)'
    <3>1. CASE j = i
      BY <1>0, <1>3, <3>1 DEF Stoppable
    <3>2. ASSUME j # i, NEW c \in Creds, map[sess[j].srv][c] = j PROVE map'[sess[j].srv][c] = j
      <4>1. sess[j].srv \in Servers
        BY <2>2 DEF Parts, Hosting, SessionsAreHosted, Running
      <4>2. map[sess[j].srv][c] # NoSession
        BY <3>2, DashboardAssumption DEF Sessions
      <4>3. QED
        BY <1>3, <3>2, <4>1, <4>2 DEF Mapped
    <3>3. QED
      BY <1>5, <2>2, <3>1, <3>2 DEF Stoppable, Parts, Shown
  <2>3. \A s \in Servers, c, d \in Creds : map'[s][c] = map'[s][d] /\ map'[s][c] # NoSession => c = d
    BY <1>0, <1>3 DEF Parts, Shown, ListedOnce
  <2>4. QED
    BY <2>1, <2>2, <2>3, SMTT(30) DEF Shown, Listed, ListedOnce
<1>7. ShutdownStops'
  BY <1>0, <1>5 DEF Parts, ShutdownStops
<1>8. QED
  BY <1>1, <1>4, <1>6, <1>7 DEF Parts

(* A session is told to stop: by the Start that lost, which has not listed *)
(* it, or by a Stop, which takes it off the list.                          *)
LEMMA StopKeeps ==
    ASSUME Typed, Parts, NEW k \in Calls, OnlyCall(k), late' = late, NEW i \in Sessions,
           OnlySession(i, "stopping", call[k].srv), call'[k].pc = "wait", call[k].srv \in Servers,
           \/ call[k].pc = "insert" /\ i = call[k].ses /\ map' = map
           \/ /\ call[k].pc = "stop" /\ i = Mapped(k) /\ call[k].cred \in Creds
              /\ map' = [map EXCEPT ![call[k].srv][call[k].cred] = NoSession]
    PROVE  Parts'
<1> USE DEF OnlyCall, OnlySession, serverVars
<1>00. i # NoSession
  BY DashboardAssumption DEF Sessions
<1>0. sess[i].st = "live" /\ sess[i].srv = call[k].srv /\ call[k].pc # "free"
  <2>1. CASE call[k].pc = "insert" /\ i = call[k].ses
    BY <2>1 DEF Parts, Started, Starts
  <2>2. CASE i = Mapped(k) /\ call[k].cred \in Creds /\ call[k].pc = "stop"
    BY <1>00, <2>2 DEF Parts, Shown, Listed, Mapped
  <2>3. QED
    BY <2>1, <2>2
<1>1. Hosting'
  <2>1. SessionsAreHosted'
    BY <1>0 DEF Parts, Hosting, SessionsAreHosted, Up, Running
  <2>2. CallsAreHosted'
    BY <1>0 DEF Parts, Hosting, CallsAreHosted, Up
  <2>3. QED
    BY <2>1, <2>2 DEF Hosting
<1>2. /\ \A j \in Calls \ {k} : Starts(j)' <=> Starts(j)
      /\ ~Starts(k)'
      /\ \A j \in Calls \ {k} : Starts(j) => call[j].ses # i
  <2>1. \A j \in Calls \ {k} : Starts(j) => call[j].ses # i
    <3>1. CASE call[k].pc = "insert" /\ i = call[k].ses
      BY <3>1 DEF Parts, Started, Starts
    <3>2. CASE i = Mapped(k) /\ call[k].cred \in Creds
      BY <1>0, <3>2, SMTT(30) DEF Parts, Started, Starts, Mapped
    <3>3. QED
      BY <3>1, <3>2
  <2>2. QED
    BY <2>1 DEF Starts
<1>3. \A s \in Servers, c \in Creds :
          \/ map'[s][c] = map[s][c] /\ map[s][c] # i
          \/ map'[s][c] = NoSession /\ (map[s][c] = i \/ map[s][c] = NoSession)
  <2>1. CASE call[k].pc = "insert" /\ i = call[k].ses /\ map' = map
    BY <1>0, <1>00, <2>1 DEF Parts, Shown, Listed, Started
  <2>2. CASE /\ i = Mapped(k) /\ call[k].cred \in Creds
             /\ map' = [map EXCEPT ![call[k].srv][call[k].cred] = NoSession]
    <3>1. map'[call[k].srv][call[k].cred] = NoSession /\ map[call[k].srv][call[k].cred] = i
      BY <2>2 DEF Typed, TypeOK, Mapped
    <3>2. \A s \in Servers, c \in Creds : ~(s = call[k].srv /\ c = call[k].cred) => map'[s][c] = map[s][c]
      BY <2>2 DEF Typed, TypeOK
    <3>3. \A s \in Servers, c \in Creds : map[s][c] = i => s = call[k].srv
      BY <1>0, <1>00 DEF Parts, Shown
    <3>4. \A c \in Creds : map[call[k].srv][c] = i => c = call[k].cred
      BY <1>00, <2>2, <3>1 DEF Parts, Shown, ListedOnce
    <3>5. QED
      BY <3>1, <3>2, <3>3, <3>4
  <2>3. QED
    BY <2>1, <2>2
<1>4. Started'
  <2>1. \A j \in Calls \ {k} : Starts(j) => sess'[call[j].ses] = sess[call[j].ses] /\ call[j].ses \in Sessions
    BY <1>2 DEF Parts, Started
  <2>2. \A j \in Calls \ {k}, c \in Creds : call[j].pc = "insert" => map'[call[j].srv][c] # call[j].ses
    <3>1. \A j \in Calls \ {k}, c \in Creds : call[j].pc = "insert" =>
              /\ map[call[j].srv][c] # call[j].ses /\ call[j].srv \in Servers
              /\ call[j].ses # NoSession
      BY DashboardAssumption DEF Parts, Started, Starts, Hosting, CallsAreHosted, Sessions
    <3>2. QED
      BY <1>3, <3>1
  <2>3. QED
    BY <1>2, <2>1, <2>2 DEF Parts, Started, Starts
<1>5. \A j \in Sessions \ {i} : InFlight(j) => InFlight(j)'
  <2>1. call[k].pc = "insert" => i = call[k].ses
    OBVIOUS
  <2>2. QED
    BY <2>1 DEF InFlight
<1>6. Shown'
  <2>1. \A s \in Servers, c \in Creds : map'[s][c] # NoSession =>
            map'[s][c] = map[s][c] /\ map[s][c] \in Sessions \ {i}
    BY <1>3 DEF Parts, Shown, Listed
  <2>2. \A j \in Sessions \ {i}, s \in Servers, c \in Creds : map[s][c] = j => map'[s][c] = j
    BY <1>3, DashboardAssumption DEF Sessions
  <2>3. ASSUME NEW j \in Sessions, sess'[j].st = "live" PROVE Stoppable(j)'
    <3>1. j # i /\ sess'[j] = sess[j]
      BY <2>3
    <3>2. sess[j].srv \in Servers
      BY <2>3, <3>1 DEF Parts, Hosting, SessionsAreHosted, Running
    <3>3. QED
      BY <1>5, <2>2, <2>3, <3>1, <3>2 DEF Parts, Shown, Stoppable
  <2>4. \A s \in Servers, c \in Creds : map'[s][c] # NoSession =>
            map'[s][c] \in Sessions /\ sess'[map'[s][c]].st = "live" /\ sess'[map'[s][c]].srv = s
    BY <2>1 DEF Parts, Shown, Listed
  <2>5. ListedOnce'
    BY <2>1 DEF Parts, Shown, ListedOnce
  <2>6. QED
    BY <2>3, <2>4, <2>5 DEF Shown, Listed
<1>7. ShutdownStops'
  BY <1>0, <1>5 DEF Parts, ShutdownStops
<1>8. QED
  BY <1>1, <1>4, <1>6, <1>7 DEF Parts

(* It has stopped.                                                         *)
LEMMA StoppedKeeps ==
    ASSUME Typed, Parts, NEW i \in Sessions, SessionStops(i)
    PROVE  Parts'
<1>0. /\ \A j \in Sessions \ {i} : sess'[j] = sess[j]
      /\ sess'[i].st = "stopped" /\ sess'[i].srv = sess[i].srv /\ sess[i].st = "stopping"
      /\ UNCHANGED <<pidfile, proc, contended, map, late, call>>
  <2>1. sess' = [sess EXCEPT ![i] = [sess[i] EXCEPT !.st = "stopped"]] /\ sess[i].st = "stopping"
    BY DEF SessionStops
  <2>2. sess[i] \in Session /\ sess \in [Sessions -> Session]
    BY DEF Typed, TypeOK
  <2>3. [sess[i] EXCEPT !.st = "stopped"].st = "stopped"
        /\ [sess[i] EXCEPT !.st = "stopped"].srv = sess[i].srv
    BY <2>2 DEF Session
  <2>4. sess'[i] = [sess[i] EXCEPT !.st = "stopped"] /\ \A j \in Sessions \ {i} : sess'[j] = sess[j]
    BY <2>1, <2>2
  <2>5. QED
    BY <2>1, <2>3, <2>4 DEF SessionStops, serverVars
<1>1. Hosting'
  BY <1>0 DEF Parts, Hosting, SessionsAreHosted, CallsAreHosted, Up, Running
<1>2. \A k \in Calls : Starts(k) => call[k].ses # i
  BY <1>0 DEF Parts, Started, Starts
<1>3. Started'
  BY <1>0, <1>2 DEF Parts, Started, Starts
<1>4. \A s \in Servers, c \in Creds : map[s][c] # NoSession => map[s][c] # i
  BY <1>0 DEF Parts, Shown, Listed
<1>5. Shown'
  BY <1>0, <1>4 DEF Parts, Shown, Stoppable, Listed, ListedOnce, InFlight
<1>6. ShutdownStops'
  BY <1>0 DEF Parts, ShutdownStops, InFlight
<1>7. QED
  BY <1>1, <1>3, <1>5, <1>6 DEF Parts

(* Ctrl-C: what the list of the server named is told to stop, and a live   *)
(* session of that server that was not on it is a Start about to list one. *)
LEMMA ShutdownKeeps ==
    ASSUME Typed, Parts, NEW s \in Servers, Shutdown(s)
    PROVE  Parts'
<1>0. /\ \A t \in Servers \ {s} : map'[t] = map[t] /\ proc'[t] = proc[t]
      /\ \A c \in Creds : map'[s][c] = NoSession
      /\ proc[s] = "running" /\ proc'[s] = "shutdown"
      /\ call' = call /\ late' = late
  BY DEF Shutdown, Typed, TypeOK
<1>1. \A i \in Sessions :
          /\ (\A c \in Creds : map[s][c] # i) => sess'[i] = sess[i]
          /\ (\E c \in Creds : map[s][c] = i) => sess'[i].st = "stopping" /\ sess'[i].srv = sess[i].srv
  <2>1. ASSUME NEW i \in Sessions, NEW c \in Creds, map[s][c] = i
        PROVE  sess'[i].st = "stopping" /\ sess'[i].srv = sess[i].srv
    <3>1. sess'[i] = [sess[i] EXCEPT !.st = "stopping"]
      BY <2>1 DEF Shutdown
    <3>2. sess[i] \in Session
      BY DEF Typed, TypeOK
    <3>3. QED
      BY <3>1, <3>2 DEF Session
  <2>2. QED
    BY <2>1 DEF Shutdown
<1>2. \A i \in Sessions, c \in Creds : map[s][c] = i => sess[i].st = "live" /\ sess[i].srv = s
  BY DashboardAssumption DEF Parts, Shown, Listed, Sessions
<1>3. \A t \in Servers : Up(t) <=> Up(t)'
  BY <1>0 DEF Up
<1>4. Hosting'
  <2>1. SessionsAreHosted'
    BY <1>1, <1>2, <1>3 DEF Parts, Hosting, SessionsAreHosted, Running
  <2>2. CallsAreHosted'
    BY <1>0, <1>3 DEF Parts, Hosting, CallsAreHosted
  <2>3. QED
    BY <2>1, <2>2 DEF Hosting
<1>5. \A k \in Calls : Starts(k) => call[k].ses \in Sessions /\ sess'[call[k].ses] = sess[call[k].ses]
  <2>1. ASSUME NEW k \in Calls, Starts(k), NEW c \in Creds, map[s][c] = call[k].ses PROVE FALSE
    <3>1. call[k].ses \in Sessions /\ sess[call[k].ses].st = "live" /\ call[k].srv = s
      BY <1>2, <2>1 DEF Parts, Started
    <3>2. QED
      BY <2>1, <3>1 DEF Parts, Started, Starts
  <2>2. QED
    BY <1>1, <2>1 DEF Parts, Started
<1>6. Started'
  <2>1. \A k \in Calls, c \in Creds : call[k].pc = "insert" => map'[call[k].srv][c] # call[k].ses
    <3>1. \A k \in Calls, c \in Creds : call[k].pc = "insert" =>
              /\ map[call[k].srv][c] # call[k].ses /\ call[k].srv \in Servers
              /\ call[k].ses # NoSession
      BY DashboardAssumption DEF Parts, Started, Starts, Hosting, CallsAreHosted, Sessions
    <3>2. QED
      BY <1>0, <3>1
  <2>2. QED
    BY <1>0, <1>5, <2>1 DEF Parts, Started, Starts
<1>7. \A i \in Sessions : sess'[i].st = "live" => sess'[i] = sess[i] /\ \A c \in Creds : map[s][c] # i
  BY <1>1
<1>8. Shown'
  <2>1. \A t \in Servers, c \in Creds : map'[t][c] # NoSession => t # s /\ map'[t][c] = map[t][c]
    BY <1>0
  <2>2. \A t \in Servers, c \in Creds : map'[t][c] # NoSession =>
            /\ map[t][c] \in Sessions /\ sess'[map[t][c]] = sess[map[t][c]]
            /\ sess[map[t][c]].st = "live" /\ sess[map[t][c]].srv = t
    BY <1>1, <1>2, <2>1 DEF Parts, Shown, Listed
  <2>3. ASSUME NEW i \in Sessions, sess'[i].st = "live" PROVE Stoppable(i)'
    <3>1. sess[i].srv \in Servers /\ sess'[i] = sess[i]
      BY <1>7, <2>3 DEF Parts, Hosting, SessionsAreHosted, Running
    <3>2. QED
      BY <1>0, <1>7, <2>3, <3>1 DEF Parts, Shown, Stoppable, InFlight
  <2>4. ListedOnce'
    BY <2>1 DEF Parts, Shown, ListedOnce
  <2>5. QED
    BY <2>1, <2>2, <2>3, <2>4 DEF Shown, Listed
<1>9. ShutdownStops'
  <2>1. ASSUME NEW i \in Sessions, sess'[i].st = "live", sess'[i].srv = s PROVE InFlight(i)'
    BY <1>0, <1>7, <2>1 DEF Parts, Shown, Stoppable, InFlight
  <2>2. \A i \in Sessions : sess'[i].st = "live" => sess[i].srv \in Servers
    BY <1>7 DEF Parts, Hosting, SessionsAreHosted, Running
  <2>3. QED
    BY <1>0, <1>7, <2>1, <2>2 DEF Parts, ShutdownStops, InFlight
<1>10. QED
  BY <1>4, <1>6, <1>8, <1>9 DEF Parts

-------------------------------------------------------------------------------
(* The actions: each is one of the steps above.                            *)
LEMMA OneSession ==
    ASSUME Typed, NEW i \in Sessions,
           NEW v \in {"starting", "live", "stopping", "stopped", "failed", "left"},
           sess' = [sess EXCEPT ![i].st = v]
    PROVE  OnlySession(i, v, sess[i].srv)
<1>1. sess[i] \in Session /\ sess \in [Sessions -> Session]
  BY DEF Typed, TypeOK
<1>2. [sess[i] EXCEPT !.st = v].st = v /\ [sess[i] EXCEPT !.st = v].srv = sess[i].srv
  BY <1>1 DEF Session
<1>3. sess'[i] = [sess[i] EXCEPT !.st = v] /\ \A j \in Sessions \ {i} : sess'[j] = sess[j]
  BY <1>1
<1>4. QED
  BY <1>2, <1>3 DEF OnlySession

LEMMA OneRequest ==
    ASSUME Typed, Parts, NEW k \in Calls, call[k].pc # "free", UNCHANGED serverVars,
           \/ Reply(k)
           \/ \E v \in {"insert", "wait"} : Goto(k, v)
           \/ \E v \in {"start", "wait"}, i \in Sessions :
                 call' = [call EXCEPT ![k].pc = v, ![k].ses = i]
    PROVE  OnlyCall(k)
<1>1. call[k] \in Call /\ call \in [Calls -> Call]
  BY DEF Typed, TypeOK
<1>2. \A j \in Calls \ {k} : call'[j] = call[j]
  BY <1>1 DEF Reply, Goto
<1>3. call[k].srv \in Servers /\ Up(call[k].srv)
  BY DEF Parts, Hosting, CallsAreHosted
<1>4. call'[k] = Free \/ call'[k].srv = call[k].srv
  <2>1. CASE Reply(k)
    BY <1>1, <2>1 DEF Reply
  <2>2. ASSUME NEW v \in {"insert", "wait"}, Goto(k, v) PROVE call'[k].srv = call[k].srv
    <3>1. call'[k] = [call[k] EXCEPT !.pc = v]
      BY <1>1, <2>2 DEF Goto
    <3>2. QED
      BY <1>1, <3>1 DEF Call
  <2>3. ASSUME NEW v \in {"start", "wait"}, NEW i \in Sessions,
               call' = [call EXCEPT ![k].pc = v, ![k].ses = i]
        PROVE  call'[k].srv = call[k].srv
    <3>1. call'[k] = [call[k] EXCEPT !.pc = v, !.ses = i]
      BY <1>1, <2>3
    <3>2. QED
      BY <1>1, <3>1 DEF Call
  <2>4. QED
    BY <2>1, <2>2, <2>3
<1>5. QED
  BY <1>2, <1>3, <1>4, FreeTyped DEF OnlyCall, Up, serverVars

LEMMA CallStepKeeps ==
    ASSUME Typed, Parts, NEW k \in Calls, CallStep(k)
    PROVE  Parts'
<1>0. /\ call[k] \in Call /\ call \in [Calls -> Call] /\ sess \in [Sessions -> Session]
      /\ call[k].pc # "free" /\ call[k].srv \in Servers /\ call[k].cred \in Creds
  <2>1. call[k] \in Call /\ call \in [Calls -> Call] /\ sess \in [Sessions -> Session]
    BY DEF Typed, TypeOK
  <2>2. call[k].pc # "free"
    BY DEF CallStep, CheckMap, StartSession, Insert, Stop, StopReturns, At
  <2>3. QED
    BY <2>1, <2>2 DEF Call, Typed, CallsTyped
<1>1. ASSUME Reply(k), UNCHANGED <<serverVars, sessionVars>>, ~Starts(k) PROVE Parts'
  <2>1. OnlyCall(k)
    BY <1>0, <1>1, OneRequest
  <2>2. call'[k] = Free
    BY <1>0, <1>1 DEF Reply
  <2>3. QED
    BY <1>1, <2>1, <2>2, FreeTyped, RequestKeeps DEF Starts
<1>2. CASE CheckMap(k)
  <2>1. CASE Reply(k) /\ sess' = sess
    BY <1>1, <1>2, <2>1 DEF CheckMap, At, Starts, sessionVars
  <2>2. ASSUME NEW i \in Sessions, sess[i].st = "none",
               sess' = [sess EXCEPT ![i] = [st |-> "starting", srv |-> call[k].srv]],
               call' = [call EXCEPT ![k].pc = "start", ![k].ses = i]
        PROVE  Parts'
    <3>1. OnlyCall(k)
      BY <1>0, <1>2, <2>2, OneRequest DEF CheckMap
    <3>2. OnlySession(i, "starting", call[k].srv)
      BY <1>0, <2>2 DEF OnlySession
    <3>3. call'[k].pc = "start" /\ call'[k].ses = i /\ call'[k].srv = call[k].srv
      BY <1>0, <2>2 DEF Call
    <3>4. call[k].pc = "check" /\ UNCHANGED <<map, late>>
      BY <1>2 DEF CheckMap, At
    <3>5. QED
      BY <2>2, <3>1, <3>2, <3>3, <3>4, BeginKeeps
  <2>3. QED
    BY <1>2, <2>1, <2>2 DEF CheckMap
<1>3. CASE StartSession(k)
  <2>1. /\ call[k].pc = "start" /\ UNCHANGED <<map, late>> /\ UNCHANGED serverVars
        /\ call[k].ses \in Sessions /\ sess[call[k].ses].srv = call[k].srv
    BY <1>3 DEF StartSession, At, Parts, Started, Starts
  <2>2. CASE sess' = [sess EXCEPT ![call[k].ses].st = "live"] /\ Goto(k, "insert")
    <3>1. OnlySession(call[k].ses, "live", call[k].srv)
      BY <2>1, <2>2, OneSession
    <3>2. OnlyCall(k)
      BY <1>0, <2>1, <2>2, OneRequest
    <3>3. call'[k].pc = "insert" /\ call'[k].ses = call[k].ses /\ call'[k].srv = call[k].srv
      BY <1>0, <2>2 DEF Goto, Call
    <3>4. QED
      BY <2>1, <3>1, <3>2, <3>3, StartedKeeps
  <2>3. CASE sess' = [sess EXCEPT ![call[k].ses].st = "failed"] /\ Reply(k)
    <3>1. OnlySession(call[k].ses, "failed", call[k].srv)
      BY <2>1, <2>3, OneSession
    <3>2. OnlyCall(k)
      BY <1>0, <2>1, <2>3, OneRequest
    <3>3. call'[k].pc = "free"
      BY <1>0, <2>3, FreeTyped DEF Reply
    <3>4. QED
      BY <2>1, <3>1, <3>2, <3>3, StartedKeeps
  <2>4. QED
    BY <1>3, <2>2, <2>3 DEF StartSession
<1>4. CASE Insert(k)
  <2>1. /\ call[k].pc = "insert" /\ UNCHANGED serverVars
        /\ call[k].ses \in Sessions /\ sess[call[k].ses].srv = call[k].srv
    BY <1>4 DEF Insert, At, Parts, Started, Starts
  <2>2. CASE Mapped(k) # NoSession
    <3>1. sess' = [sess EXCEPT ![call[k].ses].st = "stopping"] /\ Goto(k, "wait") /\ UNCHANGED <<map, late>>
      BY <1>4, <2>2 DEF Insert, StopSession
    <3>2. OnlySession(call[k].ses, "stopping", call[k].srv)
      BY <2>1, <3>1, OneSession
    <3>3. OnlyCall(k)
      BY <1>0, <2>1, <3>1, OneRequest
    <3>4. call'[k].pc = "wait"
      BY <1>0, <3>1 DEF Goto, Call
    <3>5. QED
      BY <1>0, <2>1, <3>1, <3>2, <3>3, <3>4, StopKeeps
  <2>3. CASE Mapped(k) = NoSession
    <3>1. /\ map' = [map EXCEPT ![call[k].srv][call[k].cred] = call[k].ses]
          /\ late' = IF proc[call[k].srv] = "running" THEN late ELSE late \cup {call[k].ses}
          /\ Reply(k) /\ sess' = sess
      BY <1>4, <2>3 DEF Insert
    <3>2. OnlyCall(k)
      BY <1>0, <2>1, <3>1, OneRequest
    <3>3. call'[k].pc = "free"
      BY <1>0, <3>1, FreeTyped DEF Reply
    <3>4. QED
      BY <1>0, <2>1, <2>3, <3>1, <3>2, <3>3, ListKeeps
  <2>4. QED
    BY <2>2, <2>3
<1>5. CASE Stop(k)
  <2>1. CASE Mapped(k) = NoSession
    BY <1>1, <1>5, <2>1 DEF Stop, At, Starts, sessionVars
  <2>2. CASE Mapped(k) # NoSession
    <3>1. /\ map' = [map EXCEPT ![call[k].srv][call[k].cred] = NoSession]
          /\ sess' = [sess EXCEPT ![Mapped(k)].st = "stopping"]
          /\ call' = [call EXCEPT ![k].pc = "wait", ![k].ses = Mapped(k)]
          /\ UNCHANGED <<serverVars, late>> /\ call[k].pc = "stop"
      BY <1>5, <2>2 DEF Stop, StopSession, At
    <3>2. Mapped(k) \in Sessions /\ sess[Mapped(k)].srv = call[k].srv
      BY <1>0, <2>2 DEF Mapped, Parts, Shown, Listed
    <3>3. OnlySession(Mapped(k), "stopping", call[k].srv)
      BY <3>1, <3>2, OneSession
    <3>4. OnlyCall(k)
      BY <1>0, <3>1, <3>2, OneRequest
    <3>5. call'[k].pc = "wait"
      BY <1>0, <3>1 DEF Call
    <3>6. QED
      BY <1>0, <3>1, <3>2, <3>3, <3>4, <3>5, StopKeeps
  <2>3. QED
    BY <2>1, <2>2
<1>6. CASE StopReturns(k)
  BY <1>1, <1>6 DEF StopReturns, At, Starts
<1>7. QED
  BY <1>2, <1>3, <1>4, <1>5, <1>6 DEF CallStep

LEMMA SessionNext == Typed /\ IInv /\ [Next]_vars => IInv'
<1>a. (Typed /\ Parts => IInv)'
  BY PutTogether, PTL
<1> SUFFICES ASSUME Typed, IInv, [Next]_vars PROVE IInv'
  OBVIOUS
<1>b. Typed'
  BY TypeNext
<1>c. Parts' => IInv'
  BY <1>a, <1>b
<1>d. (Hosting /\ StartsAreOwn /\ Listing /\ ShutdownStops)' => IInv'
  BY <1>b DEF Typed, IInv, Inv, Hosting, Listing
<1>0. Parts
  BY TakeApart
<1>1. ASSUME NEW s \in Servers, Launch(s) \/ ReadPID(s) \/ TruncatePID(s) \/ WritePID(s) \/ Listen(s)
             \/ ServeFails(s) \/ SessionsStopped(s) \/ Drained(s)
      PROVE  IInv'
  <2>1. UNCHANGED <<sessionVars, call>>
    BY <1>1 DEF Launch, ReadPID, TruncatePID, WritePID, Listen, ServeFails, SessionsStopped, Drained
  <2>2. /\ \A t \in Servers : Up(t) => Up(t)'
        /\ \A t \in Servers : Up(t) /\ Halted(t)' => Halted(t)
    BY <1>1 DEF Launch, ReadPID, TruncatePID, WritePID, Listen, ServeFails, SessionsStopped, Drained,
       Up, Halted, Typed, TypeOK
  <2>3. QED
    BY <2>1, <2>2, <1>d, ServerKeeps
<1>2. ASSUME NEW s \in Servers, Shutdown(s) PROVE Parts'
  BY <1>0, <1>2, ShutdownKeeps
<1>3. ASSUME NEW s \in Servers, NEW k \in Calls, NEW c \in Creds, StartCall(k, s, c) \/ StopCall(k, s, c)
      PROVE  Parts'
  <2>1. PICK v \in {"check", "stop"} :
            call' = [call EXCEPT ![k] = [Free EXCEPT !.pc = v, !.srv = s, !.cred = c]]
    BY <1>3 DEF StartCall, StopCall, Enter
  <2>2. call'[k].pc = v /\ call'[k].srv = s /\ \A j \in Calls \ {k} : call'[j] = call[j]
    BY <2>1, FreeTyped DEF Call, Typed, TypeOK
  <2>3. Up(s) /\ call[k].pc = "free" /\ UNCHANGED <<serverVars, sessionVars>>
    BY <1>3 DEF StartCall, StopCall, Enter, Accepting, Up
  <2>4. OnlyCall(k)
    BY <2>2, <2>3 DEF OnlyCall, Up, serverVars
  <2>5. ~Starts(k) /\ ~Starts(k)'
    BY <2>2, <2>3 DEF Starts
  <2>6. QED
    BY <1>0, <2>3, <2>4, <2>5, RequestKeeps
<1>4. ASSUME NEW k \in Calls, CallStep(k) PROVE Parts'
  BY <1>0, <1>4, CallStepKeeps
<1>5. ASSUME NEW i \in Sessions, SessionStops(i) PROVE Parts'
  BY <1>0, <1>5, StoppedKeeps
<1>6. CASE UNCHANGED vars
  <2>1. UNCHANGED <<sessionVars, call>> /\ proc' = proc
    BY <1>6 DEF vars, sessionVars
  <2>2. /\ \A t \in Servers : Up(t) => Up(t)'
        /\ \A t \in Servers : Up(t) /\ Halted(t)' => Halted(t)
    BY <2>1 DEF Up, Halted
  <2>3. QED
    BY <2>1, <2>2, <1>d, ServerKeeps
<1>7. ASSUME NEW s \in Servers, Exit(s) \/ Killed(s) PROVE IInv'
  BY <1>7, <1>d, VanishKeeps DEF Exit, Killed
<1>8. QED
  BY <1>1, <1>2, <1>3, <1>4, <1>5, <1>6, <1>7, <1>c DEF Next, ServerStep

LEMMA SessionInit == Init => IInv
<1> SUFFICES ASSUME Init PROVE IInv
  OBVIOUS
<1>1. TypeOK
  BY TypeInit
<1>2. \A i \in Sessions : sess[i].st = "none"
  BY DEF Init
<1>3. \A k \in Calls : call[k].pc = "free"
  BY FreeTyped DEF Init
<1>4. \A s \in Servers, c \in Creds : map[s][c] = NoSession
  BY DEF Init
<1>5. MapIsExact /\ SessionsAreHosted /\ ShutdownStops
  BY <1>2, <1>4 DEF MapIsExact, SessionsAreHosted, Running, ShutdownStops
<1>6. CallsAreHosted /\ StartsAreOwn /\ ListedOnce
  BY <1>3, <1>4 DEF CallsAreHosted, StartsAreOwn, Starts, ListedOnce
<1>7. QED
  BY <1>1, <1>5, <1>6 DEF IInv, Inv

LEMMA Invariance == Spec => [](Typed /\ IInv)
<1>1. Init => Typed /\ IInv
  BY TypeInit, SessionInit DEF Typed
<1>2. Typed /\ IInv /\ [Next]_vars => (Typed /\ IInv)'
  BY TypeNext, SessionNext
<1>3. QED
  BY <1>1, <1>2, PTL DEF Spec

(* What the dashboard lists is what runs (serve/manager.go:68): no Start,  *)
(* Stop, Ctrl-C or kill leaves a share behind that nobody can stop.        *)
THEOREM ListIsExact == Spec => []Inv
<1>1. Typed /\ IInv => Inv
  BY DEF IInv
<1>2. QED
  BY <1>1, Invariance, PTL

(* Ctrl-C stops every session that was listed (Manager.Shutdown).          *)
THEOREM CtrlCStops == Spec => []ShutdownStops
<1>1. Typed /\ IInv => ShutdownStops
  BY DEF IInv
<1>2. QED
  BY <1>1, Invariance, PTL

-------------------------------------------------------------------------------
(* PART 2: LoginFlow.                                                      *)

(* What a request and a process may be doing.                              *)
Shapes ==
    /\ \A k \in Requests : /\ actor[k].pc \in {"idle", "look", "exchange", "save", "drop"}
                           /\ ~actor[k].relogin
                           /\ actor[k].pc # "idle" => actor[k].h \in Dialogs
    /\ \A r \in Runs : /\ actor[r].pc \notin {"look", "drop"}
                       /\ actor[r].pc \notin {"idle", "ok", "failed"} => actor[r].h = r
                       /\ actor[r].pc = "idle" => ~actor[r].relogin
                       /\ actor[r].pc \in {"graft", "discard"} => actor[r].relogin

(* A grant somebody has was given for a code that is spent.                *)
IsIssued(g) == g[2] <= codes[g[1]].spent
Issued ==
    /\ \A a \in Actors : actor[a].grant # NoGrant =>
          actor[a].grant[1] = actor[a].h /\ IsIssued(actor[a].grant)
    /\ \A i \in Ids : store[i] \in Grants => IsIssued(store[i])

(* It is in one pair of hands, and not under the old id before its relogin *)
(* has got there.                                                          *)
OwnGrants ==
    /\ \A a, b \in Actors : actor[a].grant = actor[b].grant /\ actor[a].grant # NoGrant => a = b
    /\ \A a \in Actors : actor[a].pc \in {"save", "graft"} => store[Old] # actor[a].grant

(* A minted file holds its own grant or nothing, the old credential what   *)
(* it had or what a relogin brought.                                       *)
Minted == \A g \in Grants : store[g] \in {NoGrant, g}
Relogged ==
    /\ \/ store[Old] = OldGrant
       \/ store[Old] \in Grants /\ store[Old][1] \in Runs /\ actor[store[Old][1]].relogin
    /\ \A r \in Runs : actor[r].pc = "discard" => store[Old] # OldGrant

(* NoTwins, of the only two files that can be twins.                       *)
Moved ==
    \A g \in Grants : store[Old] = g /\ store[g] = g =>
        g \in strays \/ \E r \in Runs : Doing(r, "discard") /\ actor[r].grant = g

(* A codex handshake that can still be taken has not been used, and one    *)
(* that is in use is in one request's hands.                               *)
Takeable(h) == dialog[h].at = "new" \/ (dialog[h].at = "held" /\ ~dialog[h].claude)
Using(k) == actor[k].pc \in {"exchange", "save"}
Taken ==
    /\ \A h \in Dialogs : Takeable(h) =>
          /\ \A k \in Requests : actor[k].h = h => ~Using(k)
          /\ \A g \in Grants : g[1] = h => store[g] = NoGrant
    /\ \A k \in Requests : Using(k) /\ ~dialog[actor[k].h].claude =>
          /\ \A j \in Requests : Using(j) /\ actor[j].h = actor[k].h => j = k
          /\ \A g \in Grants : g[1] = actor[k].h => store[g] = NoGrant

(* CodexLogsInOnce and NoGrantIsLost, said of grants instead of pairs.     *)
Once ==
    \A g, f \in Grants :
        g[1] = f[1] /\ g[1] \in Dialogs /\ ~dialog[g[1]].claude
            /\ store[g] # NoGrant /\ store[f] # NoGrant => g = f
Kept ==
    \A g \in Grants : IsIssued(g) =>
        \/ g \in lost
        \/ store[g] = g \/ store[Old] = g
        \/ \E a \in Actors : actor[a].grant = g /\ actor[a].pc \in {"save", "graft"}
        \/ g[1] \in Runs /\ actor[g[1]].relogin /\ store[Old] # OldGrant

LoginIInv ==
    /\ LoginTypeOK
    /\ Shapes
    /\ Issued
    /\ OwnGrants
    /\ Minted
    /\ Relogged
    /\ Moved
    /\ Taken
    /\ Once
    /\ Kept

-------------------------------------------------------------------------------
LEMMA Pairs ==
    /\ \A g \in Grants : g[1] \in Handshakes /\ g[2] \in 1..MaxCodes
    /\ \A f, g \in Grants : f[1] = g[1] /\ f[2] = g[2] => f = g
    /\ \A h \in Handshakes, n \in 1..MaxCodes :
          <<h, n>> \in Grants /\ <<h, n>>[1] = h /\ <<h, n>>[2] = n
BY DEF Grants

LEMMA Names ==
    /\ Old \in Ids /\ Grants \subseteq Ids
    /\ Old \notin Grants /\ OldGrant \notin Grants /\ NoGrant \notin Grants /\ OldGrant # NoGrant
    /\ \A i \in Ids : i # Old => i \in Grants
    /\ Requests \subseteq Actors /\ Runs \subseteq Actors /\ \A a \in Actors : a \in Requests \/ a \in Runs
    /\ \A a \in Requests : a \notin Runs
    /\ Dialogs \subseteq Handshakes /\ Runs \subseteq Handshakes
    /\ \A h \in Handshakes : h \in Dialogs \/ h \in Runs
    /\ \A h \in Dialogs : h \notin Runs
    /\ NoHandshake \notin Handshakes
BY LoginAssumption DEF Ids, Actors, Handshakes

(* The parts of the type invariant, record by record.                      *)
Holding == {"save", "graft", "discard", "drop"}
Dialog == [at : {"new", "held", "gone"}, claude : BOOLEAN, age : 0..(TTL + 1)]
Code == [got : 0..MaxCodes, spent : 0..MaxCodes]
ActorsTyped ==
    /\ actor \in [Actors -> Actor]
    /\ \A a \in Actors : actor[a].grant # NoGrant <=> actor[a].pc \in Holding

LEMMA TypeParts ==
    LoginTypeOK <=> /\ dialog \in [Dialogs -> Dialog]
                    /\ codes \in [Handshakes -> Code]
                    /\ ActorsTyped
                    /\ store \in [Ids -> Grants \cup {OldGrant, NoGrant}]
                    /\ lost \subseteq Grants /\ strays \subseteq Grants
BY DEF LoginTypeOK, Dialog, Code, ActorsTyped, Holding

LEMMA ActorFields ==
    ASSUME LoginTypeOK, NEW a \in Actors
    PROVE  /\ actor[a].h \in Handshakes \cup {NoHandshake} /\ actor[a].relogin \in BOOLEAN
           /\ actor[a].grant \in Grants \cup {NoGrant}
           /\ actor[a].grant # NoGrant <=> actor[a].pc \in Holding
BY TypeParts DEF ActorsTyped, Actor

LEMMA Idles ==
    /\ Idle \in Actor /\ Idle.pc = "idle" /\ Idle.grant = NoGrant /\ Idle.relogin = FALSE
    /\ Idle.h = NoHandshake
BY DEF Idle, Actor

(* One actor moves.  What Proceed, Finish and Exchange make of its record. *)
OnlyActor(a) == \A b \in Actors \ {a} : actor'[b] = actor[b]

LEMMA ActorMoves ==
    ASSUME LoginTypeOK, NEW a \in Actors, NEW r \in Actor, r.grant # NoGrant <=> r.pc \in Holding,
           actor' = [actor EXCEPT ![a] = r]
    PROVE  ActorsTyped' /\ OnlyActor(a) /\ actor'[a] = r
BY TypeParts DEF ActorsTyped, OnlyActor

LEMMA Goes ==
    ASSUME LoginTypeOK, NEW a \in Actors,
           NEW pc \in {"idle", "look", "ask", "exchange", "save", "graft", "discard",
                       "drop", "ok", "failed"},
           Proceed(a, pc), pc \in Holding <=> actor[a].pc \in Holding
    PROVE  /\ ActorsTyped' /\ OnlyActor(a)
           /\ actor'[a].pc = pc /\ actor'[a].h = actor[a].h
           /\ actor'[a].grant = actor[a].grant /\ actor'[a].relogin = actor[a].relogin
<1> DEFINE r == [actor[a] EXCEPT !.pc = pc]
<1>1. actor[a] \in Actor /\ actor' = [actor EXCEPT ![a] = r]
  BY TypeParts DEF ActorsTyped, Proceed
<1>2. r \in Actor /\ r.pc = pc /\ r.h = actor[a].h /\ r.grant = actor[a].grant /\ r.relogin = actor[a].relogin
  BY <1>1 DEF Actor
<1>3. r.grant # NoGrant <=> r.pc \in Holding
  BY <1>2, ActorFields
<1>4. QED
  BY <1>1, <1>2, <1>3, ActorMoves

LEMMA Finishes ==
    ASSUME LoginTypeOK, Shapes, NEW a \in Actors, NEW result \in {"ok", "failed"}, Finish(a, result)
    PROVE  /\ ActorsTyped' /\ OnlyActor(a)
           /\ actor'[a].pc = IF a \in Requests THEN "idle" ELSE result
           /\ actor'[a].grant = NoGrant /\ actor'[a].relogin = actor[a].relogin
           /\ actor'[a].h = NoHandshake
<1> DEFINE r == IF a \in Requests THEN Idle
                ELSE [Idle EXCEPT !.pc = result, !.relogin = actor[a].relogin]
<1>1. actor' = [actor EXCEPT ![a] = r]
  BY DEF Finish
<1>2. actor[a].relogin \in BOOLEAN /\ (a \in Requests => actor[a].relogin = FALSE)
  BY ActorFields DEF Shapes
<1>3. r \in Actor
  BY <1>2, Idles DEF Actor
<1>4. /\ r.pc = IF a \in Requests THEN "idle" ELSE result
      /\ r.grant = NoGrant /\ r.relogin = actor[a].relogin /\ r.h = NoHandshake
  BY <1>2, Idles DEF Actor
<1>5. r.grant # NoGrant <=> r.pc \in Holding
  BY <1>4 DEF Holding
<1>6. QED
  BY <1>1, <1>3, <1>4, <1>5, ActorMoves

-------------------------------------------------------------------------------
(* Steps that move no grant.                                               *)
Still ==
    /\ \A h \in Handshakes : codes'[h].spent = codes[h].spent
    /\ UNCHANGED <<store, lost, strays>>
    /\ \A a \in Actors :
          /\ actor'[a].grant = actor[a].grant
          /\ actor[a].grant # NoGrant => actor'[a].pc = actor[a].pc /\ actor'[a].h = actor[a].h
          /\ actor[a].relogin => actor'[a].relogin

LEMMA StillKeeps ==
    ASSUME LoginIInv, LoginTypeOK', Still
    PROVE  (Issued /\ OwnGrants /\ Minted /\ Relogged /\ Moved /\ Kept)'
<1> USE DEF Still
<1>1. \A a \in Actors : actor'[a].grant # NoGrant =>
          actor'[a].pc = actor[a].pc /\ actor'[a].h = actor[a].h
  OBVIOUS
<1>2. \A a \in Actors : actor[a].pc \in Holding => actor[a].grant # NoGrant
  BY ActorFields DEF LoginIInv
<1>3. \A a \in Actors : actor'[a].pc \in Holding => actor'[a].grant # NoGrant
  BY TypeParts DEF LoginTypeOK, Holding
<1>4. Issued'
  <2>1. \A g \in Grants : IsIssued(g)' <=> IsIssued(g)
    BY Pairs DEF IsIssued
  <2>2. QED
    BY <1>1, <2>1, ActorFields DEF LoginIInv, Issued
<1>5. OwnGrants'
  BY <1>1, <1>2, <1>3 DEF LoginIInv, OwnGrants, Holding
<1>6. Minted' /\ Relogged'
  BY <1>1, <1>3, Names DEF LoginIInv, Minted, Relogged, Holding
<1>7. Moved'
  BY <1>1, <1>2, Names DEF LoginIInv, Moved, Doing, Holding
<1>8. Kept'
  BY <1>1, <1>2, Pairs, Names DEF LoginIInv, Kept, IsIssued, Holding
<1>9. QED
  BY <1>4, <1>5, <1>6, <1>7, <1>8

(* A dialog begins, ages, expires; a code is fetched.                      *)
LEMMA DialogKeeps ==
    ASSUME LoginIInv, \/ \E h \in Dialogs, claude \in BOOLEAN : LoginStart(h, claude)
                      \/ Tick \/ Sweep \/ \E h \in Handshakes : Authorize(h)
    PROVE  LoginIInv'
<1>0. UNCHANGED <<actor, store, lost, strays>>
  BY DEF LoginStart, Tick, Sweep, Authorize
<1>1. /\ dialog' \in [Dialogs -> Dialog] /\ codes' \in [Handshakes -> Code]
      /\ \A h \in Handshakes : codes'[h].spent = codes[h].spent
      /\ \A h \in Dialogs : Takeable(h)' => Takeable(h)
      /\ \A h \in Dialogs : dialog'[h].claude = dialog[h].claude \/ Takeable(h)
  <2>1. ASSUME NEW h \in Dialogs, NEW claude \in BOOLEAN, LoginStart(h, claude) PROVE <1>1
    <3>1. dialog' = [dialog EXCEPT ![h] = [dialog[h] EXCEPT !.at = "held", !.claude = claude]]
      BY <2>1, TypeParts DEF LoginStart, LoginIInv
    <3>2. LET d == [dialog[h] EXCEPT !.at = "held", !.claude = claude]
          IN  d \in Dialog /\ d.at = "held" /\ d.claude = claude
      BY TypeParts DEF LoginIInv, Dialog
    <3>3. QED
      BY <2>1, <3>1, <3>2, TypeParts DEF LoginStart, LoginIInv, Takeable
  <2>2. ASSUME Tick PROVE <1>1
    <3>1. \A h \in Dialogs : /\ dialog'[h] \in Dialog
                             /\ dialog'[h].at = dialog[h].at /\ dialog'[h].claude = dialog[h].claude
      <4>1. ASSUME NEW h \in Dialogs, dialog[h].age <= TTL,
                   dialog'[h] = [dialog[h] EXCEPT !.age = dialog[h].age + 1]
            PROVE  /\ dialog'[h] \in Dialog
                   /\ dialog'[h].at = dialog[h].at /\ dialog'[h].claude = dialog[h].claude
        <5>1. dialog[h].age + 1 \in 0..(TTL + 1) /\ dialog[h] \in Dialog
          BY <4>1, TypeParts, LoginAssumption DEF LoginIInv, Dialog
        <5>2. QED
          BY <4>1, <5>1 DEF Dialog
      <4>2. QED
        BY <2>2, <4>1, TypeParts DEF Tick, LoginIInv
    <3>2. QED
      BY <2>2, <3>1, TypeParts DEF Tick, LoginIInv, Takeable
  <2>3. ASSUME Sweep PROVE <1>1
    <3>1. \A h \in Dialogs : Gone(h) \in Dialog /\ Gone(h).at = "gone" /\ Gone(h).claude = dialog[h].claude
      <4>1. 0 \in 0..(TTL + 1)
        BY LoginAssumption
      <4>2. \A h \in Dialogs : dialog[h] \in Dialog
        BY TypeParts DEF LoginIInv
      <4>3. QED
        BY <4>1, <4>2 DEF Gone, Dialog
    <3>2. \A h \in Dialogs : dialog'[h] = dialog[h] \/ dialog'[h] = Gone(h)
      BY <2>3 DEF Sweep
    <3>3. \A h \in Dialogs : dialog[h] \in Dialog
      BY TypeParts DEF LoginIInv
    <3>4. dialog' \in [Dialogs -> Dialog]
      BY <2>3, <3>1, <3>3 DEF Sweep
    <3>5. \A h \in Dialogs : dialog'[h].claude = dialog[h].claude /\ (Takeable(h)' => Takeable(h))
      BY <3>1, <3>2 DEF Takeable
    <3>6. codes' = codes /\ codes \in [Handshakes -> Code]
      BY <2>3, TypeParts DEF Sweep, LoginIInv
    <3>7. QED
      BY <3>4, <3>5, <3>6
  <2>4. ASSUME NEW h \in Handshakes, Authorize(h) PROVE <1>1
    <3>1. codes[h].got + 1 \in 0..MaxCodes /\ codes[h] \in Code
      BY <2>4, TypeParts, LoginAssumption DEF Authorize, LoginIInv, Code
    <3>2. codes' = [codes EXCEPT ![h] = [codes[h] EXCEPT !.got = codes[h].got + 1]]
      BY <2>4, TypeParts DEF Authorize, LoginIInv
    <3>3. LET c == [codes[h] EXCEPT !.got = codes[h].got + 1]
          IN  c \in Code /\ c.spent = codes[h].spent
      BY <3>1 DEF Code
    <3>4. QED
      BY <2>4, <3>2, <3>3, TypeParts DEF Authorize, LoginIInv, Takeable
  <2>5. QED
    BY <2>1, <2>2, <2>3, <2>4
<1>2. LoginTypeOK'
  BY <1>0, <1>1, TypeParts DEF LoginIInv, LoginTypeOK, Dialog, Code
<1>3. (Issued /\ OwnGrants /\ Minted /\ Relogged /\ Moved /\ Kept)'
  BY <1>0, <1>1, <1>2, StillKeeps DEF Still
<1>4. Shapes'
  BY <1>0 DEF LoginIInv, Shapes
<1>5. Taken'
  <2>1. \A k \in Requests : Using(k) => actor[k].h \in Dialogs /\ ~Takeable(actor[k].h)
    BY DEF LoginIInv, Shapes, Taken, Using
  <2>2. QED
    BY <1>0, <1>1, <2>1 DEF LoginIInv, Taken, Using
<1>6. Once'
  <2>1. \A g \in Grants : g[1] \in Dialogs /\ store[g] # NoGrant => dialog'[g[1]].claude = dialog[g[1]].claude
    BY <1>1 DEF LoginIInv, Taken
  <2>2. ASSUME NEW g \in Grants, NEW f \in Grants, g[1] = f[1], g[1] \in Dialogs,
               ~dialog'[g[1]].claude, store'[g] # NoGrant, store'[f] # NoGrant
        PROVE  g = f
    <3>1. ~dialog[g[1]].claude /\ store[g] # NoGrant /\ store[f] # NoGrant
      BY <1>0, <2>1, <2>2
    <3>2. QED
      BY <2>2, <3>1 DEF LoginIInv, Once
  <2>3. QED
    BY <2>2 DEF Once
<1>7. QED
  BY <1>2, <1>3, <1>4, <1>5, <1>6 DEF LoginIInv

(* A handshake is dropped.                                                 *)
LEMMA Drops ==
    ASSUME LoginTypeOK, NEW h \in Dialogs, Drop(h)
    PROVE  /\ dialog' \in [Dialogs -> Dialog] /\ dialog'[h].at = "gone"
           /\ \A i \in Dialogs : dialog'[i].claude = dialog[i].claude /\ (Takeable(i)' => Takeable(i) /\ i # h)
           /\ \A i \in Dialogs \ {h} : dialog'[i] = dialog[i]
<1>1. dialog[h] \in Dialog /\ dialog \in [Dialogs -> Dialog]
  BY TypeParts
<1>2. 0 \in 0..(TTL + 1)
  BY LoginAssumption
<1>3. Gone(h) \in Dialog /\ Gone(h).at = "gone" /\ Gone(h).claude = dialog[h].claude
  BY <1>1, <1>2 DEF Gone, Dialog
<1>4. QED
  BY <1>1, <1>3 DEF Drop, Takeable

(* A request or a process moves, with no grant in its hands and no code    *)
(* spent.                                                                  *)
LEMMA MoveKeeps ==
    ASSUME LoginIInv, NEW a \in Actors, ActorsTyped', OnlyActor(a), UNCHANGED <<codes, store, lost, strays>>,
           dialog' \in [Dialogs -> Dialog],
           \A h \in Dialogs : dialog'[h].claude = dialog[h].claude /\ (Takeable(h)' => Takeable(h)),
           actor[a].grant = NoGrant, actor'[a].grant = NoGrant,
           actor[a].relogin => actor'[a].relogin,
           Shapes',
           a \in Requests /\ Using(a)' =>
              \/ Using(a) /\ actor'[a].h = actor[a].h
              \/ \E h \in Dialogs : /\ actor'[a].h = h
                                    /\ Takeable(h) \/ dialog[h].claude
                                    /\ ~Takeable(h)'
    PROVE  LoginIInv'
<1> USE DEF OnlyActor
<1>1. LoginTypeOK'
  BY TypeParts DEF LoginIInv, LoginTypeOK, Dialog, Code, ActorsTyped, Holding
<1>2. Still
  BY DEF Still
<1>3. (Issued /\ OwnGrants /\ Minted /\ Relogged /\ Moved /\ Kept)'
  BY <1>1, <1>2, StillKeeps
<1>4. \A k \in Requests : Using(k)' => actor'[k].h \in Dialogs
  BY DEF Shapes, Using
<1>5. \A k \in Requests : Using(k) => actor[k].h \in Dialogs
  BY DEF LoginIInv, Shapes, Using
<1>6. \A k \in Requests \ {a} : Using(k)' <=> Using(k)
  BY Names DEF Using
<1>7. Taken'
  <2>1. \A h \in Dialogs, k \in Requests : Takeable(h)' /\ actor'[k].h = h => ~Using(k)'
    BY <1>6, Names DEF LoginIInv, Taken
  <2>2. \A h \in Dialogs, g \in Grants : Takeable(h)' /\ g[1] = h => store'[g] = NoGrant
    BY DEF LoginIInv, Taken
  <2>3. ASSUME NEW k \in Requests, Using(k)', ~dialog'[actor'[k].h].claude
        PROVE  /\ \A j \in Requests : Using(j)' /\ actor'[j].h = actor'[k].h => j = k
               /\ \A g \in Grants : g[1] = actor'[k].h => store'[g] = NoGrant
    <3>1. \/ Using(k) /\ actor'[k].h = actor[k].h
          \/ k = a /\ Takeable(actor'[k].h)
      BY <1>4, <1>6, <2>3, Names
    <3>2. \A g \in Grants : g[1] = actor'[k].h => store[g] = NoGrant
      BY <1>4, <1>5, <2>3, <3>1 DEF LoginIInv, Taken
    <3>3. ASSUME NEW j \in Requests, Using(j)', actor'[j].h = actor'[k].h, j # k PROVE FALSE
      <4>1. \/ Using(j) /\ actor'[j].h = actor[j].h
            \/ j = a /\ Takeable(actor'[j].h)
        BY <1>4, <1>6, <2>3, <3>3, Names
      <4>2. ~dialog[actor'[k].h].claude
        BY <1>4, <2>3
      <4>3. QED
        BY <1>4, <1>5, <2>3, <3>1, <3>3, <4>1, <4>2, Names DEF LoginIInv, Taken
    <3>4. QED
      BY <3>2, <3>3
  <2>4. QED
    BY <2>1, <2>2, <2>3 DEF Taken
<1>8. Once'
  <2>1. ASSUME NEW g \in Grants, NEW f \in Grants, g[1] = f[1], g[1] \in Dialogs,
               ~dialog'[g[1]].claude, store'[g] # NoGrant, store'[f] # NoGrant
        PROVE  g = f
    BY <2>1 DEF LoginIInv, Once
  <2>2. QED
    BY <2>1 DEF Once
<1>9. QED
  BY <1>1, <1>3, <1>7, <1>8 DEF LoginIInv

LEMMA ShapesKept ==
    ASSUME LoginIInv, NEW a \in Actors, OnlyActor(a),
           a \in Requests => /\ actor'[a].pc \in {"idle", "look", "exchange", "save", "drop"}
                             /\ ~actor'[a].relogin
                             /\ actor'[a].pc # "idle" => actor'[a].h \in Dialogs,
           a \in Runs => /\ actor'[a].pc \notin {"look", "drop"}
                         /\ actor'[a].pc \notin {"idle", "ok", "failed"} => actor'[a].h = a
                         /\ actor'[a].pc = "idle" => ~actor'[a].relogin
                         /\ actor'[a].pc \in {"graft", "discard"} => actor'[a].relogin
    PROVE  Shapes'
BY Names DEF LoginIInv, Shapes, OnlyActor

LEMMA FinishShapes ==
    ASSUME LoginIInv, NEW a \in Actors, NEW result \in {"ok", "failed"}, Finish(a, result)
    PROVE  Shapes'
<1>1. /\ OnlyActor(a) /\ actor'[a].pc = IF a \in Requests THEN "idle" ELSE result
      /\ actor'[a].relogin = actor[a].relogin
  BY Finishes DEF LoginIInv
<1>2. a \in Requests => ~actor[a].relogin
  BY DEF LoginIInv, Shapes
<1>3. QED
  BY <1>1, <1>2, ShapesKept, Names

(* A request or a process gives up with no grant in its hands.             *)
LEMMA FailKeeps ==
    ASSUME LoginIInv, NEW a \in Actors, Finish(a, "failed"), actor[a].grant = NoGrant,
           UNCHANGED <<codes, store, lost, strays>>, dialog' \in [Dialogs -> Dialog],
           \A h \in Dialogs : dialog'[h].claude = dialog[h].claude /\ (Takeable(h)' => Takeable(h))
    PROVE  LoginIInv'
<1>1. /\ ActorsTyped' /\ OnlyActor(a) /\ actor'[a].grant = NoGrant
      /\ actor'[a].pc = IF a \in Requests THEN "idle" ELSE "failed"
      /\ actor'[a].relogin = actor[a].relogin
  BY Finishes DEF LoginIInv
<1>2. Shapes'
  BY FinishShapes
<1>3. ~(a \in Requests /\ Using(a)')
  BY <1>1 DEF Using
<1>4. QED
  BY <1>1, <1>2, <1>3, MoveKeeps

LEMMA FinishCallKeeps ==
    ASSUME LoginIInv, NEW k \in Requests, NEW h \in Dialogs, NEW right \in BOOLEAN, FinishCall(k, h, right)
    PROVE  LoginIInv'
<1> DEFINE r == [Idle EXCEPT !.pc = "look", !.h = h, !.right = right]
<1>1. r \in Actor /\ r.pc = "look" /\ r.h = h /\ r.grant = NoGrant /\ r.relogin = FALSE
  BY Idles, Names DEF Actor
<1>2. actor' = [actor EXCEPT ![k] = r] /\ UNCHANGED <<dialog, codes, store, lost, strays>>
  BY DEF FinishCall
<1>3. k \in Actors /\ k \notin Runs /\ actor[k].grant = NoGrant /\ ~actor[k].relogin
  <2>1. k \in Actors /\ k \notin Runs
    BY Names
  <2>2. QED
    BY <2>1, ActorFields DEF FinishCall, Doing, Holding, LoginIInv, Shapes
<1>4. ActorsTyped' /\ OnlyActor(k) /\ actor'[k] = r
  BY <1>1, <1>2, <1>3, ActorMoves DEF LoginIInv, Holding
<1>5. Shapes'
  BY <1>1, <1>3, <1>4, ShapesKept
<1>6. ~Using(k)'
  BY <1>1, <1>4 DEF Using
<1>7. dialog \in [Dialogs -> Dialog]
  BY TypeParts DEF LoginIInv
<1>8. QED
  BY <1>1, <1>2, <1>3, <1>4, <1>5, <1>6, <1>7, MoveKeeps DEF Takeable

LEMMA CommandKeeps ==
    ASSUME LoginIInv, NEW p \in Runs, NEW claude \in BOOLEAN, NEW relogin \in BOOLEAN,
           Command(p, claude, relogin)
    PROVE  LoginIInv'
<1> DEFINE r == [Idle EXCEPT !.pc = "ask", !.h = p, !.claude = claude, !.relogin = relogin]
<1>1. r \in Actor /\ r.pc = "ask" /\ r.h = p /\ r.grant = NoGrant
  BY Idles, Names DEF Actor
<1>2. actor' = [actor EXCEPT ![p] = r] /\ UNCHANGED <<dialog, codes, store, lost, strays>>
  BY DEF Command
<1>3. p \in Actors /\ p \notin Requests /\ actor[p].grant = NoGrant /\ ~actor[p].relogin
  <2>1. p \in Actors /\ p \notin Requests
    BY Names
  <2>2. QED
    BY <2>1, ActorFields DEF Command, Doing, Holding, LoginIInv, Shapes
<1>4. ActorsTyped' /\ OnlyActor(p) /\ actor'[p] = r
  BY <1>1, <1>2, <1>3, ActorMoves DEF LoginIInv, Holding
<1>5. Shapes'
  BY <1>1, <1>3, <1>4, ShapesKept
<1>6. dialog \in [Dialogs -> Dialog]
  BY TypeParts DEF LoginIInv
<1>7. QED
  BY <1>1, <1>2, <1>3, <1>4, <1>5, <1>6, MoveKeeps DEF Takeable

LEMMA PasteKeeps ==
    ASSUME LoginIInv, NEW p \in Runs, Paste(p)
    PROVE  LoginIInv'
<1>1. dialog \in [Dialogs -> Dialog] /\ UNCHANGED <<dialog, codes, store, lost, strays>>
  BY TypeParts DEF LoginIInv, Paste
<1>2. p \in Actors /\ p \notin Requests /\ actor[p].grant = NoGrant /\ actor[p].h = p
  <2>1. p \in Actors /\ p \notin Requests
    BY Names
  <2>2. QED
    BY <2>1, ActorFields DEF Paste, Doing, Holding, LoginIInv, Shapes
<1>3. CASE Finish(p, "failed")
  BY <1>1, <1>2, <1>3, FailKeeps DEF Takeable
<1>4. ASSUME NEW right \in BOOLEAN, actor' = [actor EXCEPT ![p].pc = "exchange", ![p].right = right]
      PROVE  LoginIInv'
  <2> DEFINE r == [actor[p] EXCEPT !.pc = "exchange", !.right = right]
  <2>1. actor[p] \in Actor /\ actor' = [actor EXCEPT ![p] = r]
    BY <1>2, <1>4, TypeParts DEF LoginIInv, ActorsTyped
  <2>2. r \in Actor /\ r.pc = "exchange" /\ r.h = p /\ r.grant = NoGrant /\ r.relogin = actor[p].relogin
    BY <1>2, <2>1 DEF Actor
  <2>3. ActorsTyped' /\ OnlyActor(p) /\ actor'[p] = r
    BY <1>2, <2>1, <2>2, ActorMoves DEF LoginIInv, Holding
  <2>4. Shapes'
    BY <1>2, <2>2, <2>3, ShapesKept
  <2>5. QED
    BY <1>1, <1>2, <2>2, <2>3, <2>4, MoveKeeps DEF Takeable
<1>5. QED
  BY <1>3, <1>4 DEF Paste

LEMMA LookKeeps ==
    ASSUME LoginIInv, NEW k \in Requests, Look(k)
    PROVE  LoginIInv'
<1>0. PICK h \in Dialogs : actor[k].h = h
  BY DEF LoginIInv, Shapes, Look, Doing
<1>1. k \in Actors /\ k \notin Runs /\ actor[k].grant = NoGrant /\ ~actor[k].relogin
      /\ UNCHANGED <<codes, store, lost, strays>>
  <2>1. k \in Actors /\ k \notin Runs
    BY Names
  <2>2. QED
    BY <2>1, ActorFields DEF Look, Doing, Holding, LoginIInv, Shapes
<1>2. /\ dialog' \in [Dialogs -> Dialog]
      /\ \A i \in Dialogs : dialog'[i].claude = dialog[i].claude /\ (Takeable(i)' => Takeable(i))
      /\ dialog[h].claude \/ ~Takeable(h)'
  <2>1. CASE dialog[h].claude /\ Young(h)
    BY <1>0, <2>1, TypeParts DEF LoginIInv, Look, Takeable
  <2>2. CASE Drop(h)
    BY <2>2, Drops DEF LoginIInv
  <2>3. QED
    BY <1>0, <2>1, <2>2 DEF Look
<1>3. CASE Finish(k, "failed")
  BY <1>1, <1>2, <1>3, FailKeeps
<1>4. CASE Young(h) /\ Proceed(k, "exchange")
  <2>1. /\ ActorsTyped' /\ OnlyActor(k) /\ actor'[k].pc = "exchange" /\ actor'[k].h = h
        /\ actor'[k].grant = NoGrant /\ actor'[k].relogin = actor[k].relogin
    BY <1>0, <1>1, <1>4, Goes DEF LoginIInv, Look, Doing, Holding
  <2>2. Shapes'
    BY <1>1, <2>1, ShapesKept
  <2>3. Takeable(h) \/ dialog[h].claude
    BY <1>4 DEF Takeable, Young
  <2>4. dialog[h].claude => ~Takeable(h)'
    <3>1. dialog[h].claude => dialog' = dialog /\ dialog[h].at = "held"
      BY <1>0, <1>4 DEF Look, Young
    <3>2. QED
      BY <3>1 DEF Takeable
  <2>5. QED
    BY <1>1, <1>2, <2>1, <2>2, <2>3, <2>4, MoveKeeps
<1>5. QED
  BY <1>0, <1>3, <1>4 DEF Look

(* Steps after which no handshake can be taken that could not before, and  *)
(* no request uses one it did not use: those of the other actions.         *)
LEMMA TakenKept ==
    ASSUME LoginIInv, NEW a \in Actors, OnlyActor(a), dialog' = dialog,
           a \in Requests /\ Using(a)' => Using(a) /\ actor'[a].h = actor[a].h,
           \A g \in Grants : store'[g] = store[g] \/ store'[g] = NoGrant
    PROVE  Taken' /\ Once'
<1>1. \A k \in Requests : Using(k)' => Using(k) /\ actor'[k].h = actor[k].h
  BY Names DEF OnlyActor, Using
<1>2. \A h \in Dialogs : Takeable(h)' <=> Takeable(h)
  BY DEF Takeable
<1>3. Taken'
  BY <1>1, <1>2 DEF LoginIInv, Taken
<1>4. Once'
  BY DEF LoginIInv, Once
<1>5. QED
  BY <1>3, <1>4

(* A code is spent: the server remembers its grant, whoever has it.        *)
LEMMA ExchangeKeeps ==
    ASSUME LoginIInv, NEW a \in Actors, Exchange(a)
    PROVE  LoginIInv'
<1>0. PICK h \in Handshakes : actor[a].h = h
  BY Names DEF LoginIInv, Shapes, Exchange, Doing
<1>1. /\ actor[a].grant = NoGrant /\ actor[a].pc = "exchange" /\ UNCHANGED <<dialog, store, strays>>
      /\ a \in Requests => ~actor[a].relogin /\ h \in Dialogs
      /\ a \in Runs => h = a
  BY <1>0, ActorFields DEF Exchange, Doing, Holding, LoginIInv, Shapes
<1>2. CASE Finish(a, "failed") /\ UNCHANGED <<codes, lost>>
  BY <1>1, <1>2, FailKeeps, TypeParts DEF LoginIInv, Takeable
<1>3. ASSUME Unspent(a), Spend(a), lost' = lost \/ lost' = lost \cup {Grant(a)},
             OnlyActor(a), ActorsTyped', Shapes', actor[a].relogin => actor'[a].relogin,
             \/ /\ actor'[a].grant = Grant(a) /\ actor'[a].pc \in {"save", "graft"} /\ actor'[a].h = h
             \/ /\ actor'[a].grant = NoGrant /\ lost' = lost \cup {Grant(a)}
                /\ actor'[a].pc \in {"idle", "failed"}
      PROVE  LoginIInv'
  <2>1. PICK g \in Grants : g = Grant(a) /\ g[1] = h /\ g[2] = codes[h].spent + 1
    <3>1. codes[h].spent + 1 \in 1..MaxCodes
      BY <1>0, <1>3, TypeParts, LoginAssumption DEF LoginIInv, Code, Unspent
    <3>2. LET g == <<h, codes[h].spent + 1>>
          IN  g \in Grants /\ g[1] = h /\ g[2] = codes[h].spent + 1
      BY <3>1, Pairs
    <3>3. Grant(a) = <<h, codes[h].spent + 1>>
      BY <1>0 DEF Grant
    <3>4. QED
      BY <3>2, <3>3
  <2>2. /\ codes' \in [Handshakes -> Code]
        /\ codes'[h].spent = codes[h].spent + 1
        /\ \A i \in Handshakes \ {h} : codes'[i].spent = codes[i].spent
    <3>1. codes' = [codes EXCEPT ![h] = [codes[h] EXCEPT !.spent = codes[h].spent + 1]]
      BY <1>0, <1>3, TypeParts DEF Spend, LoginIInv
    <3>2. codes[h] \in Code /\ codes[h].spent + 1 \in 0..MaxCodes
      BY <1>0, <1>3, TypeParts, LoginAssumption DEF LoginIInv, Code, Unspent
    <3>3. LET c == [codes[h] EXCEPT !.spent = codes[h].spent + 1]
          IN  c \in Code /\ c.spent = codes[h].spent + 1
      BY <3>2 DEF Code
    <3>4. QED
      BY <3>1, <3>3, TypeParts DEF LoginIInv
  <2>3. ~IsIssued(g) /\ IsIssued(g)' /\ \A f \in Grants \ {g} : IsIssued(f)' <=> IsIssued(f)
    <3>1. codes[h].spent \in Int
      BY TypeParts, LoginAssumption DEF LoginIInv, Code
    <3>2. \A f \in Grants : f[1] \in Handshakes /\ f[2] \in Int /\ (f[1] = h /\ f[2] = g[2] => f = g)
      BY <2>1, Pairs, LoginAssumption
    <3>3. QED
      BY <2>1, <2>2, <3>1, <3>2 DEF IsIssued
  <2>4. LoginTypeOK'
    BY <1>1, <1>3, <2>1, <2>2, TypeParts DEF LoginIInv, LoginTypeOK, Dialog, Code, ActorsTyped, Holding
  <2>5. \A b \in Actors \ {a} : actor'[b] = actor[b]
                                /\ (actor[b].grant # NoGrant => actor[b].grant \in Grants \ {g} /\ IsIssued(actor[b].grant))
    BY <1>3, <2>3, ActorFields DEF OnlyActor, LoginIInv, Issued
  <2>6. \A i \in Ids : store[i] \in Grants => store[i] # g /\ IsIssued(store[i])
    BY <2>3 DEF LoginIInv, Issued
  <2>7. Issued'
    <3>1. \A f \in Grants : IsIssued(f) => f[2] <= codes'[f[1]].spent
      BY <2>3 DEF IsIssued
    <3>2. \A b \in Actors \ {a} : actor[b].grant # NoGrant =>
              actor[b].grant[1] = actor[b].h /\ actor[b].grant[2] <= codes'[actor[b].grant[1]].spent
      BY <2>5, <3>1 DEF LoginIInv, Issued
    <3>3. actor'[a].grant # NoGrant => actor'[a].grant = g /\ actor'[a].h = h
      BY <1>3, <2>1
    <3>4. \A i \in Ids : store[i] \in Grants => store[i][2] <= codes'[store[i][1]].spent
      BY <2>6, <3>1
    <3>5. g[2] <= codes'[g[1]].spent
      BY <2>3 DEF IsIssued
    <3>6. QED
      BY <1>1, <2>1, <2>5, <3>2, <3>3, <3>4, <3>5 DEF Issued, IsIssued
  <2>8. OwnGrants'
    <3>1. actor'[a].grant \in {NoGrant, g} /\ store[Old] # g
      BY <1>3, <2>1, <2>6, Names
    <3>2. \A b \in Actors \ {a} : actor'[b].grant # g
      BY <2>1, <2>5, Names
    <3>3. actor'[a].pc \in {"save", "graft"} => actor'[a].grant = g
      BY <1>3, <2>1
    <3>4. QED
      BY <1>1, <2>5, <3>1, <3>2, <3>3 DEF LoginIInv, OwnGrants
  <2>9. Minted'
    BY <1>1 DEF LoginIInv, Minted
  <2>91. \A b \in Actors : actor'[b].pc = "discard" => b # a /\ actor'[b] = actor[b]
    BY <1>3, <2>5
  <2>92. Relogged'
    BY <1>1, <1>3, <2>5, <2>91, Names DEF LoginIInv, Relogged
  <2>93. Moved'
    <3>1. \A r \in Runs : Doing(r, "discard") => r # a /\ actor'[r] = actor[r]
      BY <1>1, <2>5, Names DEF Doing
    <3>2. QED
      BY <1>1, <3>1 DEF LoginIInv, Moved, Doing
  <2>10. Taken' /\ Once'
    <3>1. a \in Requests /\ Using(a)' => Using(a) /\ actor'[a].h = actor[a].h
      BY <1>0, <1>1, <1>3 DEF Using
    <3>2. \A f \in Grants : store'[f] = store[f]
      BY <1>1
    <3>3. QED
      BY <1>1, <1>3, <3>1, <3>2, TakenKept
  <2>11. Kept'
    <3>1. \A f \in Grants \ {g} : IsIssued(f)' => IsIssued(f)
      BY <2>3
    <3>2. ASSUME NEW f \in Grants \ {g}, IsIssued(f)
          PROVE  \/ f \in lost'
                 \/ store'[f] = f \/ store'[Old] = f
                 \/ \E b \in Actors : actor'[b].grant = f /\ actor'[b].pc \in {"save", "graft"}
                 \/ f[1] \in Runs /\ actor'[f[1]].relogin /\ store'[Old] # OldGrant
      BY <1>1, <1>3, <2>5, <3>2, Names DEF LoginIInv, Kept
    <3>3. g \in lost' \/ (actor'[a].grant = g /\ actor'[a].pc \in {"save", "graft"})
      BY <1>3, <2>1
    <3>4. QED
      BY <3>1, <3>2, <3>3 DEF Kept
  <2>12. QED
    BY <1>3, <2>4, <2>7, <2>8, <2>9, <2>92, <2>93, <2>10, <2>11 DEF LoginIInv
<1>4. ASSUME Unspent(a), Spend(a), lost' = lost,
             actor' = [actor EXCEPT ![a].pc = FirstSave(a), ![a].grant = Grant(a)]
      PROVE  LoginIInv'
  <2> DEFINE r == [actor[a] EXCEPT !.pc = FirstSave(a), !.grant = Grant(a)]
  <2>1. actor[a] \in Actor /\ actor' = [actor EXCEPT ![a] = r]
    BY <1>4, TypeParts DEF LoginIInv, ActorsTyped
  <2>2. Grant(a) \in Grants /\ Grant(a) # NoGrant
    <3>1. codes[h].spent + 1 \in 1..MaxCodes
      BY <1>0, <1>4, TypeParts, LoginAssumption DEF LoginIInv, Code, Unspent
    <3>2. QED
      BY <1>0, <3>1, Pairs, Names DEF Grant
  <2>3. FirstSave(a) \in {"save", "graft"} /\ (~actor[a].relogin => FirstSave(a) = "save")
    BY DEF FirstSave
  <2>4. /\ r \in Actor /\ r.pc = FirstSave(a) /\ r.grant = Grant(a) /\ r.h = h
        /\ r.relogin = actor[a].relogin
    BY <1>0, <2>1, <2>2, <2>3 DEF Actor
  <2>5. ActorsTyped' /\ OnlyActor(a) /\ actor'[a] = r
    BY <2>1, <2>2, <2>3, <2>4, ActorMoves DEF LoginIInv, Holding
  <2>6. a \in Runs /\ FirstSave(a) = "graft" => actor[a].relogin
    BY DEF FirstSave
  <2>7. Shapes'
    BY <1>1, <2>3, <2>4, <2>5, <2>6, ShapesKept
  <2>8. QED
    BY <1>3, <1>4, <2>3, <2>4, <2>5, <2>7
<1>5. ASSUME Unspent(a), Spend(a), Finish(a, "failed"), lost' = lost \cup {Grant(a)}
      PROVE  LoginIInv'
  <2>1. /\ ActorsTyped' /\ OnlyActor(a) /\ actor'[a].grant = NoGrant
        /\ actor'[a].relogin = actor[a].relogin /\ actor'[a].pc \in {"idle", "failed"}
    BY <1>5, Finishes DEF LoginIInv
  <2>2. Shapes'
    BY <1>5, FinishShapes
  <2>3. QED
    BY <1>3, <1>5, <2>1, <2>2
<1>6. QED
  BY <1>2, <1>4, <1>5 DEF Exchange

-------------------------------------------------------------------------------
(* What is done with a grant in hand: it is kept, stored, put under the    *)
(* old id, taken out of its minted file or thrown away.                    *)
Handles(a, g) ==
    /\ g \in Grants /\ actor[a].grant = g /\ OnlyActor(a)
    /\ actor'[a].grant \in {g, NoGrant}
    /\ actor'[a].grant = g => actor'[a].h = actor[a].h
    /\ actor[a].relogin => actor'[a].relogin
    /\ actor'[a].pc \in {"save", "graft"} =>
          actor[a].pc \in {"save", "graft"} /\ store'[Old] = store[Old]
    /\ actor'[a].pc = "discard" => store'[Old] # OldGrant
    /\ codes' = codes
    /\ \A f \in Grants : store'[f] = store[f] \/ (f = g /\ store'[f] \in {NoGrant, g})
    /\ \/ store'[Old] = store[Old]
       \/ store'[Old] = g /\ a \in Runs /\ actor[a].relogin
    /\ lost \subseteq lost' /\ strays \subseteq strays'
    /\ store'[Old] = g /\ store'[g] = g =>
          g \in strays' \/ (a \in Runs /\ actor'[a].pc = "discard" /\ actor'[a].grant = g)
    /\ \/ g \in lost' \/ store'[g] = g \/ store'[Old] = g
       \/ actor'[a].grant = g /\ actor'[a].pc \in {"save", "graft"}
       \/ g[1] \in Runs /\ actor[g[1]].relogin /\ store'[Old] # OldGrant

LEMMA HandleKeeps ==
    ASSUME LoginIInv, LoginTypeOK', NEW a \in Actors, NEW g \in Grants, Handles(a, g)
    PROVE  (Issued /\ OwnGrants /\ Minted /\ Relogged /\ Moved /\ Kept)'
<1> USE DEF OnlyActor
<1>0. \A b \in Actors \ {a} : actor'[b] = actor[b] /\ actor[b].grant # g
  BY Names DEF Handles, LoginIInv, OwnGrants
<1>1. IsIssued(g) /\ g[1] = actor[a].h /\ g # NoGrant /\ g # OldGrant
  BY Names DEF Handles, LoginIInv, Issued
<1>2. \A f \in Grants : IsIssued(f)' <=> IsIssued(f)
  BY DEF Handles, IsIssued
<1>3. store[Old] = OldGrant \/ (store[Old] \in Grants /\ IsIssued(store[Old]))
  BY Names DEF LoginIInv, Relogged, Issued
<1>4. Issued'
  <2>1. \A b \in Actors : actor'[b].grant # NoGrant =>
            actor'[b].grant \in Grants /\ actor'[b].grant[1] = actor'[b].h /\ IsIssued(actor'[b].grant)
    <3>1. actor'[a].grant # NoGrant => actor'[a].grant = g /\ actor'[a].h = actor[a].h
      BY DEF Handles
    <3>2. \A b \in Actors \ {a} : actor[b].grant # NoGrant =>
              actor[b].grant \in Grants /\ actor[b].grant[1] = actor[b].h /\ IsIssued(actor[b].grant)
      BY ActorFields DEF LoginIInv, Issued
    <3>3. QED
      BY <1>0, <1>1, <3>1, <3>2
  <2>2. \A i \in Ids : store'[i] \in Grants => IsIssued(store'[i])
    <3>1. \A f \in Grants : store'[f] \in Grants => IsIssued(store'[f])
      BY <1>1, Names DEF Handles, LoginIInv, Issued
    <3>2. store'[Old] \in Grants => IsIssued(store'[Old])
      BY <1>1, <1>3, Names DEF Handles
    <3>3. QED
      BY <3>1, <3>2, Names
  <2>3. \A f \in Grants : IsIssued(f) => f[2] <= codes'[f[1]].spent
    BY DEF Handles, IsIssued
  <2>4. QED
    BY <2>1, <2>2, <2>3 DEF Issued, IsIssued
<1>5. OwnGrants'
  <2>1. \A b \in Actors \ {a} : actor'[b].pc \in {"save", "graft"} => store'[Old] # actor'[b].grant
    BY <1>0 DEF Handles, LoginIInv, OwnGrants
  <2>2. actor'[a].pc \in {"save", "graft"} => store'[Old] # actor'[a].grant
    <3>1. actor'[a].pc \in {"save", "graft"} => actor'[a].grant # NoGrant
      BY TypeParts DEF LoginTypeOK
    <3>2. QED
      BY <3>1 DEF Handles, LoginIInv, OwnGrants
  <2>3. \A b, c \in Actors : actor'[b].grant = actor'[c].grant /\ actor'[b].grant # NoGrant => b = c
    BY <1>0 DEF Handles, LoginIInv, OwnGrants
  <2>4. QED
    BY <2>1, <2>2, <2>3 DEF OwnGrants
<1>6. Minted'
  BY DEF Handles, LoginIInv, Minted
<1>7. Relogged'
  <2>1. \A r \in Runs : actor[r].relogin => actor'[r].relogin
    BY <1>0, Names DEF Handles
  <2>2. store'[Old] = store[Old] \/ (store'[Old] = g /\ g[1] \in Runs /\ actor'[g[1]].relogin)
    <3>1. actor[a].grant # NoGrant
      BY <1>1 DEF Handles
    <3>2. actor[a].pc \in Holding
      BY <3>1, ActorFields DEF LoginIInv
    <3>3. a \in Runs => g[1] = a
      BY <1>1, <3>2 DEF LoginIInv, Shapes, Holding
    <3>4. QED
      BY <2>1, <3>3 DEF Handles
  <2>3. \/ store'[Old] = OldGrant
        \/ store'[Old] \in Grants /\ store'[Old][1] \in Runs /\ actor'[store'[Old][1]].relogin
    BY <2>1, <2>2, <1>3 DEF Handles, LoginIInv, Relogged
  <2>4. \A r \in Runs : actor'[r].pc = "discard" => store'[Old] # OldGrant
    BY <1>0, <1>1, Names DEF Handles, LoginIInv, Relogged
  <2>5. QED
    BY <2>3, <2>4 DEF Relogged
<1>8. Moved'
  <2>1. ASSUME NEW f \in Grants, store'[Old] = f, store'[f] = f, f # g
        PROVE  f \in strays' \/ \E r \in Runs : Doing(r, "discard")' /\ actor'[r].grant = f
    <3>1. store[Old] = f /\ store[f] = f
      BY <2>1 DEF Handles
    <3>2. f \in strays \/ \E r \in Runs : Doing(r, "discard") /\ actor[r].grant = f /\ r # a
      BY <2>1, <3>1 DEF Handles, LoginIInv, Moved
    <3>3. QED
      BY <1>0, <3>2, Names DEF Handles, Doing
  <2>2. QED
    BY <2>1 DEF Handles, Moved, Doing
<1>9. Kept'
  <2>1. ASSUME NEW f \in Grants, IsIssued(f), f # g
        PROVE  \/ f \in lost'
               \/ store'[f] = f \/ store'[Old] = f
               \/ \E b \in Actors : actor'[b].grant = f /\ actor'[b].pc \in {"save", "graft"}
               \/ f[1] \in Runs /\ actor'[f[1]].relogin /\ store'[Old] # OldGrant
    <3>1. CASE f \in lost \/ store[f] = f
      BY <2>1, <3>1 DEF Handles
    <3>2. CASE store[Old] = f
      BY <1>0, <1>1, <1>3, <2>1, <3>2, Names DEF Handles, LoginIInv, Relogged
    <3>3. CASE \E b \in Actors : actor[b].grant = f /\ actor[b].pc \in {"save", "graft"}
      BY <1>0, <2>1, <3>3 DEF Handles
    <3>4. CASE f[1] \in Runs /\ actor[f[1]].relogin /\ store[Old] # OldGrant
      BY <1>0, <1>1, <3>4, Names DEF Handles
    <3>5. QED
      BY <2>1, <3>1, <3>2, <3>3, <3>4 DEF LoginIInv, Kept
  <2>2. \/ g \in lost'
        \/ store'[g] = g \/ store'[Old] = g
        \/ \E b \in Actors : actor'[b].grant = g /\ actor'[b].pc \in {"save", "graft"}
        \/ g[1] \in Runs /\ actor'[g[1]].relogin /\ store'[Old] # OldGrant
    BY <1>0, Names DEF Handles
  <2>3. QED
    BY <1>2, <2>1, <2>2 DEF Kept
<1>10. QED
  BY <1>4, <1>5, <1>6, <1>7, <1>8, <1>9

(* What follows from the types of the variables one by one.                *)
LEMMA TypeKept ==
    ASSUME LoginTypeOK, ActorsTyped', UNCHANGED codes, dialog' = dialog,
           store' \in [Ids -> Grants \cup {OldGrant, NoGrant}], lost' \subseteq Grants, strays' \subseteq Grants
    PROVE  LoginTypeOK'
BY TypeParts DEF LoginTypeOK, Dialog, Code, ActorsTyped, Holding

(* A grant in a process's or a request's hands.                            *)
LEMMA Hands ==
    ASSUME LoginIInv, NEW a \in Actors, actor[a].pc \in Holding
    PROVE  /\ actor[a].grant \in Grants /\ actor[a].grant \in Ids /\ actor[a].grant # Old
           /\ actor[a].grant[1] = actor[a].h
           /\ a \in Runs => actor[a].grant[1] = a
           /\ a \in Requests => actor[a].grant[1] \in Dialogs
BY ActorFields, Names DEF LoginIInv, Issued, Shapes, Holding

LEMMA SaveKeeps ==
    ASSUME LoginIInv, NEW a \in Actors, Save(a)
    PROVE  LoginIInv'
<1>0. PICK g \in Grants : actor[a].grant = g
  BY Hands DEF Save, Doing, Holding
<1>1. /\ actor[a].pc = "save" /\ UNCHANGED <<dialog, codes, strays>>
      /\ g \in Ids /\ g # Old /\ g # NoGrant /\ store[Old] # g /\ g[1] = actor[a].h
      /\ a \in Runs => g[1] = a
      /\ a \in Requests => g[1] \in Dialogs /\ ~actor[a].relogin
  BY <1>0, Hands, Names DEF Save, Doing, Holding, LoginIInv, OwnGrants, Shapes
<1>2. /\ store \in [Ids -> Grants \cup {OldGrant, NoGrant}]
      /\ lost \subseteq Grants /\ strays \subseteq Grants
  BY TypeParts DEF LoginIInv
<1>3. PICK next \in {"drop", "graft", "ok"} :
          /\ next = "drop" => a \in Requests
          /\ next = "graft" => a \in Runs /\ actor[a].relogin
          /\ \/ /\ store' = [store EXCEPT ![g] = g] /\ lost' = lost
                /\ IF next = "ok" THEN Finish(a, "ok") ELSE Proceed(a, next)
             \/ /\ store' = store /\ lost' = lost \cup {g}
                /\ IF next = "drop" THEN Proceed(a, "drop") ELSE Finish(a, "failed")
  <2> DEFINE n == CASE a \in Requests /\ dialog[actor[a].h].claude -> "drop"
                    [] actor[a].relogin -> "graft"
                    [] OTHER -> "ok"
  <2>1. /\ n \in {"drop", "graft", "ok"} /\ (n = "drop" => a \in Requests)
        /\ n = "graft" => actor[a].relogin
    OBVIOUS
  <2>2. n = "graft" => a \in Runs
    BY <1>1, <2>1, Names
  <2>3. \/ /\ store' = [store EXCEPT ![g] = g] /\ lost' = lost
           /\ IF n = "ok" THEN Finish(a, "ok") ELSE Proceed(a, n)
        \/ /\ store' = store /\ lost' = lost \cup {g}
           /\ IF n = "drop" THEN Proceed(a, "drop") ELSE Finish(a, "failed")
    BY <1>0 DEF Save
  <2>4. QED
    BY <2>1, <2>2, <2>3
<1>4. /\ ActorsTyped' /\ OnlyActor(a) /\ Shapes'
      /\ actor'[a].relogin = actor[a].relogin
      /\ \/ actor'[a].grant = NoGrant /\ actor'[a].pc \in {"idle", "ok", "failed"}
         \/ /\ actor'[a].grant = g /\ actor'[a].h = actor[a].h
            /\ actor'[a].pc = "drop" \/ (actor'[a].pc = "graft" /\ store'[g] = g)
  <2>1. CASE Proceed(a, next) /\ next # "ok"
    <3>1. /\ ActorsTyped' /\ OnlyActor(a) /\ actor'[a].pc = next /\ actor'[a].h = actor[a].h
          /\ actor'[a].grant = g /\ actor'[a].relogin = actor[a].relogin
      BY <1>0, <1>1, <2>1, Goes DEF Holding, LoginIInv
    <3>2. next = "drop" => a \notin Runs
      BY <1>3, Names
    <3>3. Shapes'
      BY <1>1, <1>3, <2>1, <3>1, <3>2, ShapesKept, Names
    <3>4. next = "graft" => store'[g] = g \/ Finish(a, "failed")
      BY <1>1, <1>2, <1>3
    <3>5. Finish(a, "failed") => actor'[a].pc \in {"idle", "failed"}
      BY Finishes DEF LoginIInv
    <3>6. QED
      BY <2>1, <3>1, <3>3, <3>4, <3>5
  <2>2. ASSUME NEW result \in {"ok", "failed"}, Finish(a, result) PROVE <1>4
    BY <2>2, Finishes, FinishShapes DEF LoginIInv
  <2>3. QED
    BY <1>3, <2>1, <2>2
<1>5. store' \in [Ids -> Grants \cup {OldGrant, NoGrant}] /\ lost' \subseteq Grants
  BY <1>1, <1>2, <1>3
<1>6. LoginTypeOK'
  BY <1>1, <1>2, <1>4, <1>5, TypeKept DEF LoginIInv
<1>7. /\ \A f \in Grants : f # g => store'[f] = store[f]
      /\ store'[g] \in {store[g], g} /\ store'[Old] = store[Old]
      /\ store'[g] = g \/ g \in lost'
  BY <1>1, <1>2, <1>3, Names
<1>8. (Issued /\ OwnGrants /\ Minted /\ Relogged /\ Moved /\ Kept)'
  <2>1. Handles(a, g)
    BY <1>0, <1>1, <1>3, <1>4, <1>7 DEF Handles
  <2>2. QED
    BY <1>6, <2>1, HandleKeeps
<1>9. \A k \in Requests : Using(k)' => Using(k) /\ k # a /\ actor'[k].h = actor[k].h
  BY <1>4, Names DEF OnlyActor, Using
<1>10. a \in Requests => Using(a)
  BY <1>1 DEF Using
<1>11. a \in Runs => g[1] \notin Dialogs
  BY <1>1, Names
<1>12. Taken'
  <2>1. \A h \in Dialogs : Takeable(h)' => Takeable(h) /\ h # g[1]
    BY <1>1, <1>10, <1>11, Names DEF Takeable, LoginIInv, Taken
  <2>2. \A k \in Requests : Using(k)' /\ ~dialog[actor[k].h].claude => actor[k].h # g[1]
    <3>1. ASSUME NEW k \in Requests, Using(k)', ~dialog[actor[k].h].claude, actor[k].h = g[1] PROVE FALSE
      <4>1. Using(k) /\ k # a /\ actor[k].h \in Dialogs
        BY <1>9, <3>1 DEF LoginIInv, Shapes, Using
      <4>2. a \in Requests /\ Using(a)
        BY <1>10, <1>11, <3>1, <4>1, Names
      <4>3. QED
        BY <1>1, <3>1, <4>1, <4>2 DEF LoginIInv, Taken
    <3>2. QED
      BY <3>1
  <2>3. \A h \in Dialogs : Takeable(h)' =>
            /\ \A k \in Requests : actor'[k].h = h => ~Using(k)'
            /\ \A f \in Grants : f[1] = h => store'[f] = NoGrant
    BY <1>7, <1>9, <2>1 DEF LoginIInv, Taken
  <2>4. \A k \in Requests : Using(k)' /\ ~dialog'[actor'[k].h].claude =>
            /\ \A j \in Requests : Using(j)' /\ actor'[j].h = actor'[k].h => j = k
            /\ \A f \in Grants : f[1] = actor'[k].h => store'[f] = NoGrant
    BY <1>1, <1>7, <1>9, <2>2 DEF LoginIInv, Taken
  <2>5. QED
    BY <2>3, <2>4 DEF Taken
<1>13. Once'
  <2>1. ASSUME NEW f \in Grants, NEW e \in Grants, e[1] = f[1], e[1] \in Dialogs, ~dialog'[e[1]].claude,
               store'[e] # NoGrant, store'[f] # NoGrant
        PROVE  e = f
    <3>1. CASE e[1] = g[1]
      <4>1. a \in Requests /\ Using(a)
        BY <1>10, <1>11, <2>1, <3>1, Names
      <4>2. \A d \in Grants : d[1] = g[1] => store[d] = NoGrant
        BY <1>1, <2>1, <3>1, <4>1 DEF LoginIInv, Taken
      <4>3. QED
        BY <1>7, <2>1, <3>1, <4>2
    <3>2. CASE e[1] # g[1]
      BY <1>1, <1>7, <2>1, <3>2 DEF LoginIInv, Once
    <3>3. QED
      BY <3>1, <3>2
  <2>2. QED
    BY <2>1 DEF Once
<1>14. QED
  BY <1>4, <1>6, <1>8, <1>12, <1>13 DEF LoginIInv

(* A Claude dialog is over.                                                *)
LEMMA DropKeeps ==
    ASSUME LoginIInv, NEW k \in Requests, DropHandshake(k)
    PROVE  LoginIInv'
<1>0. PICK h \in Dialogs : actor[k].h = h
  BY DEF LoginIInv, Shapes, DropHandshake, Doing
<1>1. k \in Actors /\ actor[k].pc = "drop" /\ UNCHANGED <<codes, store, lost, strays>>
  BY Names DEF DropHandshake, Doing
<1>2. PICK g \in Grants : actor[k].grant = g
  BY <1>1, Hands DEF Holding
<1>3. /\ ActorsTyped' /\ OnlyActor(k) /\ actor'[k].grant = NoGrant /\ actor'[k].pc = "idle"
      /\ actor'[k].relogin = actor[k].relogin /\ Shapes'
  BY <1>1, Finishes, FinishShapes DEF LoginIInv, DropHandshake
<1>4. /\ dialog' \in [Dialogs -> Dialog]
      /\ \A i \in Dialogs : dialog'[i].claude = dialog[i].claude /\ (Takeable(i)' => Takeable(i))
  BY <1>0, Drops DEF DropHandshake, LoginIInv
<1>5. LoginTypeOK'
  BY <1>1, <1>3, <1>4, TypeParts DEF LoginIInv, LoginTypeOK, Dialog, Code, ActorsTyped, Holding
<1>6. k \notin Runs
  BY Names
<1>7. store[g] = g \/ g \in lost \/ store[Old] = g \/ (g[1] \in Runs /\ actor[g[1]].relogin /\ store[Old] # OldGrant)
  <2>1. IsIssued(g)
    BY <1>1, <1>2, Names DEF LoginIInv, Issued
  <2>2. \A b \in Actors : actor[b].grant = g => b = k
    BY <1>1, <1>2, Names DEF LoginIInv, OwnGrants
  <2>3. QED
    BY <1>1, <2>1, <2>2 DEF LoginIInv, Kept
<1>8. store[Old] = g /\ store[g] = g => g \in strays
  BY <1>1, <1>2, Names DEF LoginIInv, Moved, OwnGrants, Doing
<1>9. Handles(k, g)
  BY <1>1, <1>2, <1>3, <1>7, <1>8, Names DEF Handles
<1>10. (Issued /\ OwnGrants /\ Minted /\ Relogged /\ Moved /\ Kept)'
  BY <1>1, <1>5, <1>9, HandleKeeps
<1>11. \A j \in Requests : Using(j)' => Using(j) /\ actor'[j].h = actor[j].h /\ actor[j].h \in Dialogs
  BY <1>3, Names DEF OnlyActor, Using, LoginIInv, Shapes
<1>12. Taken'
  BY <1>1, <1>4, <1>11 DEF LoginIInv, Taken
<1>13. Once'
  BY <1>1, <1>4 DEF LoginIInv, Once
<1>14. QED
  BY <1>3, <1>5, <1>10, <1>12, <1>13 DEF LoginIInv

(* The grant goes under the old id.                                        *)
LEMMA GraftKeeps ==
    ASSUME LoginIInv, NEW r \in Runs, Graft(r)
    PROVE  LoginIInv'
<1>0. PICK g \in Grants : actor[r].grant = g
  BY Hands, Names DEF Graft, Doing, Holding
<1>1. /\ r \in Actors /\ r \notin Requests /\ actor[r].pc = "graft" /\ UNCHANGED <<dialog, codes, strays>>
      /\ g # Old /\ g # NoGrant /\ g # OldGrant /\ store[Old] # g /\ g[1] = r /\ actor[r].relogin
      /\ actor[r].h = r
  BY <1>0, Hands, Names DEF Graft, Doing, Holding, LoginIInv, OwnGrants, Shapes
<1>2. /\ store \in [Ids -> Grants \cup {OldGrant, NoGrant}]
      /\ lost \subseteq Grants /\ strays \subseteq Grants
  BY TypeParts DEF LoginIInv
<1>3. CASE store' = [store EXCEPT ![Old] = g] /\ Proceed(r, "discard") /\ lost' = lost
  <2>1. /\ ActorsTyped' /\ OnlyActor(r) /\ actor'[r].pc = "discard" /\ actor'[r].h = actor[r].h
        /\ actor'[r].grant = g /\ actor'[r].relogin = actor[r].relogin
    BY <1>0, <1>1, <1>3, Goes DEF Holding, LoginIInv
  <2>2. Shapes'
    BY <1>1, <2>1, ShapesKept
  <2>3. /\ store' \in [Ids -> Grants \cup {OldGrant, NoGrant}]
        /\ store'[Old] = g /\ \A f \in Grants : store'[f] = store[f]
    BY <1>2, <1>3, Names
  <2>4. LoginTypeOK'
    BY <1>1, <1>2, <1>3, <2>1, <2>3, TypeKept DEF LoginIInv
  <2>5. Handles(r, g)
    BY <1>0, <1>1, <1>3, <2>1, <2>3 DEF Handles
  <2>6. (Issued /\ OwnGrants /\ Minted /\ Relogged /\ Moved /\ Kept)'
    BY <1>1, <2>4, <2>5, HandleKeeps
  <2>7. Taken' /\ Once'
    BY <1>1, <2>1, <2>3, TakenKept
  <2>8. QED
    BY <2>2, <2>4, <2>6, <2>7 DEF LoginIInv
<1>4. CASE store' = store /\ Finish(r, "failed") /\ lost' = IF store[g] = g THEN lost ELSE lost \cup {g}
  <2>1. /\ ActorsTyped' /\ OnlyActor(r) /\ actor'[r].grant = NoGrant /\ actor'[r].pc = "failed"
        /\ actor'[r].relogin = actor[r].relogin /\ Shapes'
    BY <1>1, <1>4, Finishes, FinishShapes DEF LoginIInv
  <2>2. LoginTypeOK'
    BY <1>1, <1>2, <1>4, <2>1, TypeKept DEF LoginIInv
  <2>3. Handles(r, g)
    BY <1>0, <1>1, <1>4, <2>1 DEF Handles
  <2>4. (Issued /\ OwnGrants /\ Minted /\ Relogged /\ Moved /\ Kept)'
    BY <1>1, <2>2, <2>3, HandleKeeps
  <2>5. Taken' /\ Once'
    BY <1>1, <1>4, <2>1, TakenKept
  <2>6. QED
    BY <2>1, <2>2, <2>4, <2>5 DEF LoginIInv
<1>5. QED
  BY <1>0, <1>3, <1>4 DEF Graft

(* The minted file is deleted, or stays a stray.                           *)
LEMMA DiscardKeeps ==
    ASSUME LoginIInv, NEW r \in Runs, Discard(r)
    PROVE  LoginIInv'
<1>0. PICK g \in Grants : actor[r].grant = g
  BY Hands, Names DEF Discard, Doing, Holding
<1>1. /\ r \in Actors /\ r \notin Requests /\ actor[r].pc = "discard" /\ UNCHANGED <<dialog, codes, lost>>
      /\ g # Old /\ g # NoGrant /\ g[1] = r /\ actor[r].relogin /\ store[Old] # OldGrant
  BY <1>0, Hands, Names DEF Discard, Doing, Holding, LoginIInv, Relogged, Shapes
<1>2. /\ store \in [Ids -> Grants \cup {OldGrant, NoGrant}]
      /\ lost \subseteq Grants /\ strays \subseteq Grants
  BY TypeParts DEF LoginIInv
<1>3. \/ store' = [store EXCEPT ![g] = NoGrant] /\ strays' = strays
      \/ store[g] = g /\ store' = store /\ strays' = strays \cup {g}
  BY <1>0 DEF Discard
<1>4. /\ ActorsTyped' /\ OnlyActor(r) /\ actor'[r].grant = NoGrant /\ actor'[r].pc = "ok"
      /\ actor'[r].relogin = actor[r].relogin /\ Shapes'
  BY <1>1, Finishes, FinishShapes DEF LoginIInv, Discard
<1>5. /\ store' \in [Ids -> Grants \cup {OldGrant, NoGrant}] /\ strays' \subseteq Grants
      /\ store'[Old] = store[Old]
      /\ \A f \in Grants : store'[f] = store[f] \/ (f = g /\ store'[f] = NoGrant)
      /\ store'[g] = NoGrant \/ g \in strays'
  BY <1>1, <1>2, <1>3, Names
<1>6. LoginTypeOK'
  BY <1>1, <1>2, <1>4, <1>5, TypeKept DEF LoginIInv
<1>7. strays \subseteq strays'
  BY <1>3
<1>8. Handles(r, g)
  BY <1>0, <1>1, <1>4, <1>5, <1>7 DEF Handles
<1>9. (Issued /\ OwnGrants /\ Minted /\ Relogged /\ Moved /\ Kept)'
  BY <1>1, <1>6, <1>8, HandleKeeps
<1>10. Taken' /\ Once'
  BY <1>1, <1>4, <1>5, TakenKept
<1>11. QED
  BY <1>4, <1>6, <1>9, <1>10 DEF LoginIInv

LEMMA KilledKeeps ==
    ASSUME LoginIInv, NEW r \in Runs, CommandKilled(r)
    PROVE  LoginIInv'
<1>1. /\ r \in Actors /\ r \notin Requests /\ Finish(r, "failed") /\ UNCHANGED <<dialog, codes, store>>
      /\ dialog \in [Dialogs -> Dialog]
  BY Names, TypeParts DEF CommandKilled, LoginIInv
<1>2. CASE actor[r].pc \in {"ask", "exchange"}
  <2>1. actor[r].grant = NoGrant
    BY <1>1, <1>2, ActorFields DEF Holding, LoginIInv
  <2>2. UNCHANGED <<lost, strays>>
    BY <1>2 DEF CommandKilled, Doing
  <2>3. QED
    BY <1>1, <2>1, <2>2, FailKeeps DEF Takeable
<1>3. CASE actor[r].pc \in {"save", "graft", "discard"}
  <2>1. PICK g \in Grants : actor[r].grant = g
    BY <1>1, <1>3, Hands DEF Holding
  <2>2. /\ g # Old /\ g # NoGrant /\ g # OldGrant /\ g[1] = r
        /\ actor[r].pc \in {"save", "graft"} => store[Old] # g
        /\ actor[r].pc = "discard" => actor[r].relogin /\ store[Old] # OldGrant
    BY <1>1, <1>3, <2>1, Hands, Names DEF Holding, LoginIInv, OwnGrants, Relogged, Shapes
  <2>3. /\ ActorsTyped' /\ OnlyActor(r) /\ actor'[r].grant = NoGrant /\ actor'[r].pc = "failed"
        /\ actor'[r].relogin = actor[r].relogin /\ Shapes'
    BY <1>1, Finishes, FinishShapes DEF LoginIInv
  <2>4. /\ lost' = IF Doing(r, "save") \/ (Doing(r, "graft") /\ store[g] # g) THEN lost \cup {g} ELSE lost
        /\ strays' = IF Doing(r, "discard") /\ store[g] = g THEN strays \cup {g} ELSE strays
    BY <2>1 DEF CommandKilled
  <2>5. /\ store' \in [Ids -> Grants \cup {OldGrant, NoGrant}]
        /\ lost' \subseteq Grants /\ strays' \subseteq Grants
    BY <1>1, <2>4, TypeParts DEF LoginIInv
  <2>6. LoginTypeOK'
    BY <1>1, <2>3, <2>5, TypeKept DEF LoginIInv
  <2>7. Handles(r, g)
    BY <1>1, <1>3, <2>1, <2>2, <2>3, <2>4 DEF Handles, Doing
  <2>8. (Issued /\ OwnGrants /\ Minted /\ Relogged /\ Moved /\ Kept)'
    BY <1>1, <2>6, <2>7, HandleKeeps
  <2>9. Taken' /\ Once'
    BY <1>1, <2>3, TakenKept
  <2>10. QED
    BY <2>3, <2>6, <2>8, <2>9 DEF LoginIInv
<1>4. QED
  BY <1>2, <1>3 DEF CommandKilled

(* The server's requests and registries are gone; its store is not.        *)
LEMMA RestartKeeps ==
    ASSUME LoginIInv, ServerRestarts
    PROVE  LoginIInv'
<1>1. /\ \A k \in Requests : actor'[k] = Idle
      /\ \A r \in Runs : actor'[r] = actor[r]
      /\ UNCHANGED <<codes, store, strays>>
      /\ lost \subseteq lost' /\ lost' \subseteq lost \cup Grants
      /\ \A k \in Requests, g \in Grants : Doing(k, "save") /\ actor[k].grant = g => g \in lost'
  BY Names DEF ServerRestarts
<1>2. ActorsTyped'
  <2>1. \A a \in Actors : actor'[a] \in Actor /\ (actor'[a].grant # NoGrant <=> actor'[a].pc \in Holding)
    BY <1>1, Idles, Names, TypeParts DEF LoginIInv, ActorsTyped, Holding
  <2>2. QED
    BY <2>1 DEF ActorsTyped, ServerRestarts
<1>3. /\ dialog' \in [Dialogs -> Dialog]
      /\ \A h \in Dialogs : dialog'[h].claude = dialog[h].claude /\ (Takeable(h)' => Takeable(h))
  <2>1. 0 \in 0..(TTL + 1)
    BY LoginAssumption
  <2>2. \A h \in Dialogs : dialog[h] \in Dialog
    BY TypeParts DEF LoginIInv
  <2>3. \A h \in Dialogs : Gone(h) \in Dialog /\ Gone(h).at = "gone" /\ Gone(h).claude = dialog[h].claude
    BY <2>1, <2>2 DEF Gone, Dialog
  <2>4. \A h \in Dialogs : dialog'[h] = dialog[h] \/ dialog'[h] = Gone(h)
    BY DEF ServerRestarts
  <2>5. QED
    BY <2>2, <2>3, <2>4 DEF ServerRestarts, Takeable
<1>4. LoginTypeOK'
  BY <1>1, <1>2, <1>3, TypeParts DEF LoginIInv, LoginTypeOK, Dialog, Code, ActorsTyped, Holding
<1>5. Shapes'
  BY <1>1, Idles DEF LoginIInv, Shapes
<1>6. \A a \in Actors : actor'[a].grant # NoGrant => actor'[a] = actor[a] /\ a \in Runs
  BY <1>1, Idles, Names
<1>7. Issued' /\ OwnGrants'
  <2>1. Issued'
    BY <1>1, <1>6 DEF LoginIInv, Issued, IsIssued
  <2>2. \A a \in Actors : actor'[a].pc \in {"save", "graft"} => actor'[a] = actor[a]
    BY <1>1, Idles, Names
  <2>3. OwnGrants'
    BY <1>1, <1>6, <2>2 DEF LoginIInv, OwnGrants
  <2>4. QED
    BY <2>1, <2>3
<1>8. Minted' /\ Relogged' /\ Moved'
  <2>1. Minted' /\ Relogged'
    BY <1>1, Names DEF LoginIInv, Minted, Relogged
  <2>2. Moved'
    BY <1>1, Names DEF LoginIInv, Moved, Doing
  <2>3. QED
    BY <2>1, <2>2
<1>9. Taken' /\ Once'
  BY <1>1, <1>3, Idles DEF LoginIInv, Taken, Using, Once
<1>10. Kept'
  <2>1. ASSUME NEW g \in Grants, IsIssued(g)
        PROVE  \/ g \in lost'
               \/ store'[g] = g \/ store'[Old] = g
               \/ \E a \in Actors : actor'[a].grant = g /\ actor'[a].pc \in {"save", "graft"}
               \/ g[1] \in Runs /\ actor'[g[1]].relogin /\ store'[Old] # OldGrant
    <3>1. ASSUME NEW a \in Actors, actor[a].grant = g, actor[a].pc \in {"save", "graft"}
          PROVE  g \in lost' \/ (actor'[a].grant = g /\ actor'[a].pc \in {"save", "graft"})
      <4>1. CASE a \in Requests
        BY <1>1, <3>1, <4>1 DEF LoginIInv, Shapes, Doing
      <4>2. CASE a \in Runs
        BY <1>1, <3>1, <4>2
      <4>3. QED
        BY <4>1, <4>2, Names
    <3>2. QED
      BY <1>1, <2>1, <3>1 DEF LoginIInv, Kept
  <2>2. QED
    BY <1>1, <2>1 DEF Kept, IsIssued
<1>11. QED
  BY <1>4, <1>5, <1>7, <1>8, <1>9, <1>10 DEF LoginIInv

-------------------------------------------------------------------------------
LEMMA LoginStarts == LoginInit => LoginIInv
<1> SUFFICES ASSUME LoginInit PROVE LoginIInv
  OBVIOUS
<1>1. /\ \A a \in Actors : actor[a] = Idle
      /\ \A g \in Grants : store[g] = NoGrant
      /\ store[Old] = OldGrant /\ lost = {} /\ strays = {}
      /\ \A h \in Handshakes : codes[h].spent = 0
  BY Names DEF LoginInit
<1>2. LoginTypeOK
  <2>1. 0 \in 0..(TTL + 1) /\ 0 \in 0..MaxCodes
    BY LoginAssumption
  <2>2. dialog \in [Dialogs -> Dialog] /\ codes \in [Handshakes -> Code]
    BY <2>1 DEF LoginInit, Dialog, Code
  <2>3. ActorsTyped
    BY <1>1, Idles DEF ActorsTyped, LoginInit, Holding
  <2>4. store \in [Ids -> Grants \cup {OldGrant, NoGrant}]
    BY DEF LoginInit
  <2>5. QED
    BY <1>1, <2>2, <2>3, <2>4, TypeParts
<1>3. Shapes /\ OwnGrants /\ Minted /\ Relogged /\ Moved
  BY <1>1, Idles, Names DEF Shapes, OwnGrants, Minted, Relogged, Moved
<1>4. Issued /\ Kept
  <2>1. \A g \in Grants : ~IsIssued(g)
    BY <1>1, Pairs, LoginAssumption DEF IsIssued
  <2>2. \A i \in Ids : store[i] \notin Grants
    BY <1>1, Names
  <2>3. QED
    BY <1>1, <2>1, <2>2, Idles DEF Issued, Kept
<1>5. Taken /\ Once
  BY <1>1, Idles, Names DEF Taken, Using, Once
<1>6. QED
  BY <1>2, <1>3, <1>4, <1>5 DEF LoginIInv

LEMMA LoginKeeps == LoginIInv /\ [LoginNext]_loginVars => LoginIInv'
<1> SUFFICES ASSUME LoginIInv, [LoginNext]_loginVars PROVE LoginIInv'
  OBVIOUS
<1>1. CASE \/ \E h \in Dialogs, claude \in BOOLEAN : LoginStart(h, claude)
           \/ Tick \/ Sweep \/ \E h \in Handshakes : Authorize(h)
  BY <1>1, DialogKeeps
<1>2. CASE ServerRestarts
  BY <1>2, RestartKeeps
<1>3. ASSUME NEW k \in Requests,
             (\E h \in Dialogs, right \in BOOLEAN : FinishCall(k, h, right)) \/ Look(k) \/ DropHandshake(k)
      PROVE  LoginIInv'
  BY <1>3, FinishCallKeeps, LookKeeps, DropKeeps
<1>4. ASSUME NEW r \in Runs,
             (\E claude, relogin \in BOOLEAN : Command(r, claude, relogin))
             \/ Paste(r) \/ Graft(r) \/ Discard(r) \/ CommandKilled(r)
      PROVE  LoginIInv'
  BY <1>4, CommandKeeps, PasteKeeps, GraftKeeps, DiscardKeeps, KilledKeeps
<1>5. ASSUME NEW a \in Actors, Exchange(a) \/ Save(a) PROVE LoginIInv'
  BY <1>5, ExchangeKeeps, SaveKeeps
<1>6. CASE UNCHANGED loginVars
  <2>1. UNCHANGED <<dialog, codes, actor, store, lost, strays>>
    BY <1>6 DEF loginVars
  <2>2. LoginTypeOK' /\ Shapes' /\ Minted' /\ Relogged' /\ Moved'
    BY <2>1 DEF LoginIInv, LoginTypeOK, Shapes, Minted, Relogged, Moved, Doing
  <2>3. Issued' /\ OwnGrants' /\ Kept'
    BY <2>1 DEF LoginIInv, Issued, IsIssued, OwnGrants, Kept
  <2>4. Taken' /\ Once'
    BY <2>1 DEF LoginIInv, Taken, Takeable, Using, Once
  <2>5. QED
    BY <2>2, <2>3, <2>4 DEF LoginIInv
<1>7. QED
  BY <1>1, <1>2, <1>3, <1>4, <1>5, <1>6 DEF LoginNext

LEMMA LoginInvariance == LoginSpec => []LoginIInv
BY LoginStarts, LoginKeeps, PTL DEF LoginSpec

(* Every grant the OAuth server gave is in the store or about to be, or    *)
(* was thrown away by a failed save, a kill or a lost answer               *)
(* (cmd/relogin.go, credflow/login.go, the login handlers of serve/web.go).*)
THEOREM GrantsAreKept == LoginSpec => []NoGrantIsLost
<1>1. LoginIInv => NoGrantIsLost
  <2> SUFFICES ASSUME LoginIInv, NEW h \in Handshakes, NEW n \in 1..MaxCodes, n <= codes[h].spent,
                      <<h, n>> \notin lost, ~\E i \in Ids : store[i] = <<h, n>>,
                      ~\E a \in Actors : actor[a].grant = <<h, n>> /\ actor[a].pc \in {"save", "graft"}
               PROVE  h \in Runs /\ actor[h].relogin /\ store[Old] # OldGrant
    BY DEF NoGrantIsLost
  <2>1. PICK g \in Grants : g = <<h, n>> /\ g[1] = h /\ g[2] = n
    BY Pairs
  <2>2. IsIssued(g)
    BY <2>1 DEF IsIssued
  <2>3. QED
    BY <2>1, <2>2, Names DEF LoginIInv, Kept
<1>2. QED
  BY <1>1, LoginInvariance, PTL

(* No two credentials hold one grant but while a relogin moves it or when  *)
(* its clean-up failed; a codex dialog logs in once.                       *)
THEOREM LoginsAreSound == LoginSpec => []LoginInv
<1>1. LoginIInv => NoTwins
  <2> SUFFICES ASSUME LoginIInv, NEW i \in Ids, NEW j \in Ids, i # j, store[i] = store[j], store[i] # NoGrant
               PROVE  \/ store[i] \in strays
                      \/ \E r \in Runs : Doing(r, "discard") /\ actor[r].grant = store[i]
    BY DEF NoTwins
  <2>1. PICK g \in Grants : store[g] = g /\ store[Old] = g /\ store[i] = g
    <3>1. CASE i = Old
      BY <3>1, Names DEF LoginIInv, Minted
    <3>2. CASE j = Old
      BY <3>2, Names DEF LoginIInv, Minted
    <3>3. CASE i # Old /\ j # Old
      BY <3>3, Names DEF LoginIInv, Minted
    <3>4. QED
      BY <3>1, <3>2, <3>3
  <2>2. QED
    BY <2>1 DEF LoginIInv, Moved
<1>2. LoginIInv => CodexLogsInOnce
  <2> SUFFICES ASSUME LoginIInv, NEW h \in Dialogs, ~dialog[h].claude,
                      NEW m \in 1..MaxCodes, NEW n \in 1..MaxCodes,
                      store[<<h, m>>] # NoGrant, store[<<h, n>>] # NoGrant
               PROVE  m = n
    BY DEF CodexLogsInOnce
  <2>1. PICK g \in Grants : g = <<h, m>> /\ g[1] = h /\ g[2] = m
    BY Pairs, Names
  <2>2. PICK f \in Grants : f = <<h, n>> /\ f[1] = h /\ f[2] = n
    BY Pairs, Names
  <2>3. g = f
    BY <2>1, <2>2 DEF LoginIInv, Once
  <2>4. QED
    BY <2>1, <2>2, <2>3
<1>3. LoginIInv => LoginInv
  BY <1>1, <1>2 DEF LoginIInv, LoginInv
<1>4. QED
  BY <1>3, LoginInvariance, PTL

(* A Claude handshake no code has been spent on stays for another try      *)
(* (handshakeStore.Peek) until it is too old or the server restarts.       *)
THEOREM TyposAreForgiven == LoginSpec => TypoIsForgiven
<1>1. LoginIInv /\ [LoginNext]_loginVars => [~ServerRestarts => \A h \in Dialogs :
          dialog[h].claude /\ Young(h) /\ codes[h].spent = 0 => dialog'[h].at = "held"]_loginVars
  <2> SUFFICES ASSUME LoginIInv, LoginNext, ~ServerRestarts, NEW h \in Dialogs, dialog[h].claude, Young(h),
                      codes[h].spent = 0
               PROVE  dialog'[h].at = "held"
    BY DEF loginVars
  <2>0. dialog[h].at = "held" /\ dialog \in [Dialogs -> Dialog] /\ dialog[h] \in Dialog
    BY TypeParts DEF Young, LoginIInv
  <2>1. CASE dialog' = dialog
    BY <2>0, <2>1
  <2>2. ASSUME NEW i \in Dialogs, NEW claude \in BOOLEAN, LoginStart(i, claude) PROVE i # h
    BY <2>0, <2>2 DEF LoginStart
  <2>3. ASSUME NEW i \in Dialogs, NEW claude \in BOOLEAN, LoginStart(i, claude)
        PROVE  dialog'[h].at = "held"
    BY <2>0, <2>2, <2>3 DEF LoginStart
  <2>4. CASE Tick
    <3>1. \A d \in Dialog, n \in Int : [d EXCEPT !.age = n].at = d.at
      BY DEF Dialog
    <3>2. dialog'[h] = [dialog[h] EXCEPT !.age = dialog[h].age + 1]
      BY <2>0, <2>4 DEF Tick, Young
    <3>3. dialog[h].age + 1 \in Int
      BY <2>0, LoginAssumption DEF Dialog
    <3>4. QED
      BY <2>0, <3>1, <3>2, <3>3
  <2>5. CASE Sweep
    BY <2>0, <2>5 DEF Sweep
  <2>6. ASSUME NEW k \in Requests, Look(k) PROVE dialog'[h].at = "held"
    <3>1. actor[k].h \in Dialogs
      BY <2>6 DEF LoginIInv, Shapes, Look, Doing
    <3>2. CASE Drop(actor[k].h)
      <4>1. actor[k].h # h \/ dialog' = dialog
        BY <2>6 DEF Look
      <4>2. actor[k].h # h => dialog'[h] = dialog[h]
        BY <2>0, <3>1, <3>2, Drops DEF LoginIInv
      <4>3. QED
        BY <2>0, <4>1, <4>2
    <3>3. QED
      BY <2>0, <2>6, <3>2 DEF Look
  <2>7. ASSUME NEW k \in Requests, DropHandshake(k) PROVE dialog'[h].at = "held"
    <3>1. k \in Actors /\ actor[k].pc \in Holding /\ actor[k].h \in Dialogs /\ Drop(actor[k].h)
      BY <2>7, Names DEF DropHandshake, Doing, Holding, LoginIInv, Shapes
    <3>2. actor[k].grant \in Grants /\ actor[k].grant[1] = actor[k].h /\ IsIssued(actor[k].grant)
      BY <3>1, Hands, ActorFields DEF LoginIInv, Issued
    <3>3. actor[k].h # h
      BY <3>2, Pairs, LoginAssumption DEF IsIssued
    <3>4. QED
      BY <2>0, <3>1, <3>3, Drops DEF LoginIInv
  <2>8. (\/ \E i \in Handshakes : Authorize(i)
         \/ \E k \in Requests, i \in Dialogs, right \in BOOLEAN : FinishCall(k, i, right)
         \/ \E r \in Runs : \/ \E claude, relogin \in BOOLEAN : Command(r, claude, relogin)
                            \/ Paste(r) \/ Graft(r) \/ Discard(r) \/ CommandKilled(r)
         \/ \E a \in Actors : Exchange(a) \/ Save(a)) => dialog' = dialog
    BY DEF Authorize, FinishCall, Command, Paste, Graft, Discard, CommandKilled, Exchange, Save
  <2>9. QED
    BY <2>1, <2>3, <2>4, <2>5, <2>6, <2>7, <2>8 DEF LoginNext
<1>2. QED
  BY <1>1, LoginInvariance, PTL DEF LoginSpec, TypoIsForgiven
===============================================================================
