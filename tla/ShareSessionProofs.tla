---------------------------- MODULE ShareSessionProofs ----------------------------
(***************************************************************************)
(* Proofs about ShareSession for every number of clients and of attempts   *)
(* at a tunnel.                                                            *)
(***************************************************************************)
EXTENDS ShareSession, TLAPS

Tunnelling == {"attempt", "url", "ready", "untunnel", "unwait", "retry"}
Hooked  == Tunnelling \cup {"enable", "preflight", "background", "live"}
Serving == Hooked \cup {"hook", "close", "drain", "failed"}

(* How far StartSession is tells what runs: the child only while it is     *)
(* waited for, the listener not before NewProxy and not after GiveUp.      *)
Steps ==
    /\ mode = "serving" => pc \in Serving
    /\ child # "none" => pc \in {"wait", "reap", "kill"}
    /\ pc = "new" => ~open /\ captured = NoHeaders /\ \A r \in Slots : req[r].pc = "idle"
    /\ pc \in {"drain", "failed"} => ~open

(* The one request that captured its headers will announce it, once.       *)
Captures ==
    /\ captured = NoHeaders => closes = 0
    /\ \A r \in Slots : At(r, "announce") => captured = r /\ closes = 0

(* What is set on the proxy at each step, and what its requests know of it.*)
Wiring ==
    /\ "handlers" \in wired => Terminal
    /\ pc \in Hooked => "hook" \in wired
    /\ pc \in Hooked \ {"enable"} /\ config.kind = "sticky" => "sticky" \in wired

Requests ==
    /\ \A r \in Slots : req[r].seen \subseteq wired
    /\ \A r \in Slots : req[r].auth => r # Child /\ (config.pinned \/ pc = "live")
    /\ \A r \in Slots :
        At(r, "upstream") /\ ~req[r].auth =>
            Terminal /\ "handlers" \in req[r].seen /\ "secret" \notin req[r].seen

(* A cloudflared that lives belongs to the attempt under way.              *)
Tunnels ==
    /\ \A a \in Attempts : cloudflared[a] \in Alive =>
          a = attempt /\ pc \in {"url", "ready", "untunnel", "unwait", "live"}
    /\ \A a \in Attempts : a = attempt /\ pc = "live" /\ stop \in {"none", "tunnel"} =>
          cloudflared[a] \in {"running", "gone"}
    /\ config.lan => attempt = 0 /\ pc \notin Tunnelling

Stops ==
    /\ stop # "none" => pc = "live"
    /\ stop \in {"drain", "done"} => ~open
    /\ stop \in {"proxy", "drain", "done"} => \A a \in Attempts : cloudflared[a] \notin Alive

IInv ==
    /\ TypeOK
    /\ Steps
    /\ Captures
    /\ Wiring
    /\ Requests
    /\ ForwardedIsConfigured
    /\ Tunnels
    /\ Stops

-------------------------------------------------------------------------------
LEMMA InitIInv == Init => IInv
<1> SUFFICES ASSUME Init PROVE IInv
  OBVIOUS
<1>0. Idle \in Request
  BY DEF Idle, Request, Wires
<1>1. TypeOK
  <2>1. req \in [Slots -> Request]
    BY <1>0 DEF Init
  <2>2. attempt \in 0..MaxAttempts
    BY SessionAssumption DEF Init
  <2>3. cloudflared \in [Attempts -> {"none", "running", "interrupted", "killed", "gone"}]
    BY DEF Init
  <2>4. config \in [kind : Kinds, lan : BOOLEAN, pinned : BOOLEAN]
    BY DEF Init
  <2>5. /\ pc = "new" /\ open = FALSE /\ done = FALSE /\ mode = "capturing"
        /\ captured = NoHeaders /\ closes \in 0..1 /\ wired = {} /\ child = "none"
        /\ url = FALSE /\ goroutines = {} /\ stop = "none"
    BY DEF Init
  <2> QED
    BY <2>1, <2>2, <2>3, <2>4, <2>5 DEF TypeOK
<1>2. \A r \in Slots : req[r].pc = "idle" /\ req[r].auth = FALSE /\ req[r].seen = {}
  BY DEF Init, Idle
<1>3. /\ pc = "new" /\ stop = "none" /\ open = FALSE /\ mode = "capturing" /\ child = "none"
      /\ captured = NoHeaders /\ closes = 0 /\ wired = {}
  BY DEF Init
<1>5. Steps /\ Captures
  BY <1>2, <1>3 DEF Steps, Captures, At
<1>6. Wiring
  BY <1>3 DEF Wiring, Hooked, Tunnelling
<1>7. Requests
  BY <1>2, <1>3 DEF Requests, At, Slots
<1>8. ForwardedIsConfigured
  BY <1>2 DEF ForwardedIsConfigured, At
<1>4. Tunnels /\ Stops
  BY SessionAssumption
     DEF Init, Tunnels, Stops, Alive, Attempts, Tunnelling
<1> QED
  BY <1>1, <1>4, <1>5, <1>6, <1>7, <1>8 DEF IInv

-------------------------------------------------------------------------------
(* What a step of a request does to the requests.                          *)
RequestStep(r) ==
    \/ BuildPipeline(r) \/ Refuse(r) \/ Pipeline(r) \/ Handle(r) \/ Probe(r)
    \/ HandleCapture(r) \/ Announce(r) \/ HandleServe(r) \/ Answer(r)
    \/ HandleSessionDie(r)

LEMMA RequestsTyped ==
    ASSUME TypeOK, NEW r \in Slots, Accept(r) \/ RequestStep(r)
    PROVE  req' \in [Slots -> Request]
<1>1. req[r] \in Request /\ Idle \in Request /\ wired \in SUBSET Wires
  BY DEF TypeOK, Idle, Request
<1>2. ASSUME NEW to \in {"handle", "capture", "announce", "serve", "upstream"}, Step(r, to)
      PROVE  req' \in [Slots -> Request]
  <2>1. [req[r] EXCEPT !.pc = to] \in Request
    BY <1>1 DEF Request
  <2>2. req' = [req EXCEPT ![r] = [req[r] EXCEPT !.pc = to]]
    BY <1>2 DEF Step
  <2> QED
    BY <2>1, <2>2 DEF TypeOK
<1>3. ASSUME Reply(r)
      PROVE  req' \in [Slots -> Request]
  BY <1>1, <1>3 DEF Reply, TypeOK
<1>4. CASE Accept(r)
  <2>1. PICK a \in BOOLEAN : req' = [req EXCEPT ![r] = [Idle EXCEPT !.pc = "accepted", !.auth = a]]
    BY <1>4 DEF Accept
  <2>2. [Idle EXCEPT !.pc = "accepted", !.auth = a] \in Request
    BY DEF Idle, Request
  <2> QED
    BY <2>1, <2>2 DEF TypeOK
<1>5. ASSUME NEW to \in {"built", "upstream"},
             req' = [req EXCEPT ![r].pc = to, ![r].seen = wired]
      PROVE  req' \in [Slots -> Request]
  <2>1. [req[r] EXCEPT !.pc = to, !.seen = wired] \in Request
    BY <1>1 DEF Request
  <2>2. req' = [req EXCEPT ![r] = [req[r] EXCEPT !.pc = to, !.seen = wired]]
    BY <1>5
  <2> QED
    BY <2>1, <2>2 DEF TypeOK
<1>6. CASE BuildPipeline(r)
  BY <1>5, <1>6 DEF BuildPipeline
<1>7. CASE Refuse(r) \/ Probe(r) \/ Announce(r) \/ Answer(r) \/ HandleSessionDie(r)
  BY <1>3, <1>7 DEF Refuse, Probe, Announce, Answer, HandleSessionDie
<1>8. CASE Pipeline(r) \/ Handle(r)
  BY <1>2, <1>8 DEF Pipeline, Handle
<1>9. CASE HandleCapture(r)
  BY <1>2, <1>3, <1>9 DEF HandleCapture
<1>10. CASE HandleServe(r)
  BY <1>3, <1>5, <1>10 DEF HandleServe
<1> QED
  BY <1>4, <1>6, <1>7, <1>8, <1>9, <1>10 DEF RequestStep

LEMMA SignalTyped ==
    ASSUME TypeOK, NEW a, NEW s \in {"running", "interrupted", "killed", "gone"}, Signal(a, s)
    PROVE  cloudflared' \in [Attempts -> {"none", "running", "interrupted", "killed", "gone"}]
BY DEF TypeOK, Signal

-------------------------------------------------------------------------------
(* TypeOK, the enumerated variables apart from the functions and records.  *)
States ==
    /\ pc \in {"new", "capture", "wait", "reap", "kill", "token", "bearer", "secret",
               "transition", "hook", "enable", "preflight", "background",
               "attempt", "url", "ready", "untunnel", "unwait", "retry",
               "close", "drain", "failed", "live"}
    /\ open \in BOOLEAN /\ done \in BOOLEAN
    /\ mode \in {"capturing", "serving"}
    /\ wired \subseteq Wires
    /\ child \in {"none", "running", "interrupted", "exited"}
    /\ url \in BOOLEAN
    /\ goroutines \subseteq {"refresh", "timers", "scheduler"}
    /\ stop \in {"none", "tunnel", "reap", "proxy", "drain", "done"}

LEMMA TypeSplit ==
    TypeOK <=> /\ config \in [kind : Kinds, lan : BOOLEAN, pinned : BOOLEAN]
               /\ cloudflared \in [Attempts -> {"none", "running", "interrupted", "killed", "gone"}]
               /\ req \in [Slots -> Request]
               /\ attempt \in 0..MaxAttempts
               /\ captured \in Slots \cup {NoHeaders, Seed} /\ closes \in 0..1
               /\ States
BY DEF TypeOK, States

(* A request touches nothing but itself, the capture and the listener.     *)
CloseOrNot == UNCHANGED proxyVars \/ CloseProxy

LEMMA RequestFrame ==
    ASSUME NEW r, Accept(r) \/ RequestStep(r)
    PROVE  /\ UNCHANGED <<config, pc, mode, wired, goroutines, child, attempt, cloudflared, url, stop>>
           /\ CloseOrNot
<1> USE DEF startVars, childVars, tunnelVars, proxyVars, CloseOrNot
<1>1. CASE Accept(r) \/ BuildPipeline(r) \/ Refuse(r) \/ Pipeline(r) \/ Handle(r) \/ Probe(r)
  BY <1>1, Zenon DEF Accept, BuildPipeline, Refuse, Pipeline, Handle, Probe
<1>2. CASE HandleCapture(r) \/ Announce(r) \/ HandleServe(r) \/ Answer(r) \/ HandleSessionDie(r)
  BY <1>2, Zenon DEF HandleCapture, Announce, HandleServe, Answer, HandleSessionDie
<1> QED
  BY <1>1, <1>2 DEF RequestStep

LEMMA StatesKept ==
    ASSUME States, UNCHANGED <<pc, mode, wired, child, url, goroutines, stop>>, CloseOrNot
    PROVE  States'
<1>1. open' \in BOOLEAN /\ done' \in BOOLEAN
  BY DEF States, CloseOrNot, CloseProxy, proxyVars
<1> QED
  BY <1>1 DEF States

LEMMA StatesStep == States /\ [Next]_vars => States'
<1> SUFFICES ASSUME States, [Next]_vars PROVE States'
  OBVIOUS
<1> USE DEF startVars, childVars, tunnelVars, proxyVars
<1>1. CASE UNCHANGED vars
  BY <1>1 DEF vars, States
<1>2. CASE NewProxy
  BY <1>2, ZenonT(60) DEF NewProxy, States
<1>3. CASE SpawnChild
  BY <1>3 DEF SpawnChild, States
<1>4. CASE CaptureDone \/ ChildExitedEarly
  BY <1>4, ZenonT(60) DEF CaptureDone, ChildExitedEarly, Goto, States
<1>5. CASE CaptureTimeout \/ ReapChild
  BY <1>5, ZenonT(60) DEF CaptureTimeout, ReapChild, Goto, States
<1>6. CASE Token
  BY <1>6, ZenonT(60) DEF Token, Wire, Wires, States
<1>7. CASE SetBearerSource \/ SetSharedSecret
  BY <1>7, ZenonT(60) DEF SetBearerSource, SetSharedSecret, Goto, Wire, Wires, States
<1>8. CASE Transition
  BY <1>8 DEF Transition, States
<1>9. CASE SetModifyResponse
  BY <1>9 DEF SetModifyResponse, Wire, Wires, Reach, States
<1>10. CASE EnableSticky
  BY <1>10 DEF EnableSticky, Goto, Wire, Wires, States
<1>11. CASE Preflight
  BY <1>11 DEF Preflight, Goto, States
<1>12. CASE StartBackground
  BY <1>12 DEF StartBackground, Goto, Reach, States
<1>13. CASE StartTunnel
  BY <1>13, ZenonT(40) DEF StartTunnel, States
<1>14. CASE TunnelURL \/ NoTunnelURL \/ TunnelReady
  BY <1>14, ZenonT(60) DEF TunnelURL, NoTunnelURL, TunnelReady, Goto, States
<1>15. CASE NeverReady \/ CloseUnready \/ ReapUnready
  BY <1>15, ZenonT(60) DEF NeverReady, CloseUnready, ReapUnready, Goto, States
<1>16. CASE Retry
  BY <1>16 DEF Retry, States
<1>17. CASE GiveUp \/ Failed
  BY <1>17, ZenonT(60) DEF GiveUp, Failed, Goto, CloseProxy, States
<1>18. CASE Stop
  BY <1>18 DEF Stop, States
<1>19. CASE StopTunnel \/ StopReaped
  BY <1>19, ZenonT(60) DEF StopTunnel, StopReaped, States
<1>20. CASE StopProxy \/ StopDone
  BY <1>20, ZenonT(60) DEF StopProxy, StopDone, CloseProxy, States
<1>21. CASE KillTunnel
  BY <1>21 DEF KillTunnel, States
<1>22. CASE ChildExits
  BY <1>22 DEF ChildExits, States
<1>23. ASSUME NEW g, GoroutineExits(g)
       PROVE  States'
  BY <1>23 DEF GoroutineExits, States
<1>24. ASSUME NEW a \in Attempts, TunnelDies(a) \/ KilledTunnelDies(a)
       PROVE  States'
  BY <1>24, StatesKept DEF TunnelDies, KilledTunnelDies, CloseOrNot
<1>25. ASSUME NEW r \in Slots, Accept(r) \/ RequestStep(r)
       PROVE  States'
  BY <1>25, RequestFrame, StatesKept
<1> QED
  BY <1>1, <1>2, <1>3, <1>4, <1>5, <1>6, <1>7, <1>8, <1>9, <1>10, <1>11, <1>12, <1>13, <1>14,
     <1>15, <1>16, <1>17, <1>18, <1>19, <1>20, <1>21, <1>22, <1>23, <1>24, <1>25
     DEF Next, Starting, Stopping, Handling, Exits, RequestStep

-------------------------------------------------------------------------------
(* The cases of a step, the handlers of a request taken together.          *)
LEMMA NextCases ==
    ASSUME [Next]_vars
    PROVE  \/ Starting \/ Stop \/ Stopping \/ KillTunnel \/ ChildExits
           \/ \E g \in {"refresh", "timers", "scheduler"} : GoroutineExits(g)
           \/ \E a \in Attempts : TunnelDies(a) \/ KilledTunnelDies(a)
           \/ \E r \in Slots : Accept(r) \/ RequestStep(r)
           \/ UNCHANGED vars
BY DEF Next, Exits, Handling, RequestStep

(* A step of StartSession leaves the requests and Stop alone; only the     *)
(* first one touches what was captured, nothing is taken off the proxy,    *)
(* and a session is not set up twice.                                      *)
LEMMA StartFrame ==
    ASSUME Starting
    PROVE  /\ UNCHANGED <<config, stop, req>>
           /\ pc # "live"
           /\ wired \subseteq wired'
           /\ UNCHANGED <<captured, closes>> \/ NewProxy
<1> USE DEF startVars, childVars, tunnelVars, proxyVars
<1>1. CASE NewProxy
  BY <1>1 DEF NewProxy
<1>2. CASE SpawnChild
  BY <1>2 DEF SpawnChild
<1>3. CASE CaptureDone \/ ChildExitedEarly
  BY <1>3 DEF CaptureDone, ChildExitedEarly, Goto
<1>4. CASE CaptureTimeout
  BY <1>4 DEF CaptureTimeout, Goto
<1>5. CASE ReapChild
  BY <1>5 DEF ReapChild, Goto
<1>6. CASE Token
  BY <1>6 DEF Token, Wire
<1>7. CASE SetBearerSource \/ SetSharedSecret
  BY <1>7 DEF SetBearerSource, SetSharedSecret, Goto, Wire
<1>8. CASE Transition
  BY <1>8 DEF Transition
<1>9. CASE SetModifyResponse
  BY <1>9 DEF SetModifyResponse, Wire
<1>10. CASE EnableSticky \/ Preflight
  BY <1>10 DEF EnableSticky, Preflight, Goto, Wire
<1>11. CASE StartBackground
  BY <1>11 DEF StartBackground, Goto
<1>12. CASE StartTunnel
  BY <1>12 DEF StartTunnel
<1>13. CASE TunnelURL \/ NoTunnelURL
  BY <1>13 DEF TunnelURL, NoTunnelURL, Goto
<1>14. CASE TunnelReady \/ NeverReady
  BY <1>14 DEF TunnelReady, NeverReady, Goto
<1>15. CASE CloseUnready \/ ReapUnready
  BY <1>15 DEF CloseUnready, ReapUnready, Goto
<1>16. CASE Retry
  BY <1>16 DEF Retry
<1>17. CASE GiveUp \/ Failed
  BY <1>17 DEF GiveUp, Failed, Goto
<1> QED
  BY <1>1, <1>2, <1>3, <1>4, <1>5, <1>6, <1>7, <1>8, <1>9, <1>10, <1>11, <1>12, <1>13,
     <1>14, <1>15, <1>16, <1>17
     DEF Starting

(* What the other steps leave alone.                                       *)
LEMMA OtherFrame ==
    ASSUME \/ Stop \/ Stopping \/ KillTunnel \/ ChildExits
           \/ \E g \in {"refresh", "timers", "scheduler"} : GoroutineExits(g)
           \/ \E a \in Attempts : TunnelDies(a) \/ KilledTunnelDies(a)
           \/ UNCHANGED vars
    PROVE  UNCHANGED <<config, pc, mode, captured, closes, wired, attempt, req>>
<1> USE DEF startVars, childVars, tunnelVars, proxyVars
<1>1. CASE Stop \/ Stopping
  BY <1>1 DEF Stop, Stopping, StopTunnel, StopReaped, StopProxy, StopDone
<1>2. CASE KillTunnel \/ ChildExits
  BY <1>2 DEF KillTunnel, ChildExits
<1>3. CASE \E g \in {"refresh", "timers", "scheduler"} : GoroutineExits(g)
  BY <1>3 DEF GoroutineExits
<1>4. CASE \E a \in Attempts : TunnelDies(a) \/ KilledTunnelDies(a)
  BY <1>4 DEF TunnelDies, KilledTunnelDies
<1>5. CASE UNCHANGED vars
  BY <1>5 DEF vars
<1> QED
  BY <1>1, <1>2, <1>3, <1>4, <1>5

(* What a step of a request does to the requests and to the capture.       *)
KeepsCapture == UNCHANGED <<captured, closes>>
Same(r) == req'[r].auth = req[r].auth /\ req'[r].seen = req[r].seen
Moves(r) ==
    \/ req'[r].pc = "idle" /\ ~req'[r].auth /\ req'[r].seen = {} /\ KeepsCapture
    \/ /\ req'[r].pc = "accepted" /\ (req'[r].auth => KnowsToken(r)) /\ req'[r].seen = {}
       /\ open /\ KeepsCapture
    \/ req'[r].pc = "built" /\ req'[r].auth = req[r].auth /\ req'[r].seen = wired /\ KeepsCapture
    \/ req'[r].pc \in {"handle", "capture", "serve"} /\ Same(r) /\ KeepsCapture
    \/ /\ req'[r].pc = "upstream" /\ "handlers" \in req[r].seen /\ Same(r)
       /\ ("secret" \in req[r].seen => req[r].auth) /\ KeepsCapture
    \/ /\ req'[r].pc = "upstream" /\ req[r].auth /\ req'[r].auth /\ req'[r].seen = wired
       /\ KeepsCapture
    \/ /\ req'[r].pc = "announce" /\ Same(r)
       /\ captured = NoHeaders /\ captured' = r /\ closes' = closes
    \/ /\ req'[r].pc = "idle" /\ ~req'[r].auth /\ req'[r].seen = {}
       /\ At(r, "announce") /\ captured' = captured /\ closes' = closes + 1

LEMMA RequestMoves ==
    ASSUME TypeOK, NEW r \in Slots, Accept(r) \/ RequestStep(r)
    PROVE  /\ \A q \in Slots \ {r} : req'[q] = req[q]
           /\ Moves(r)
<1> USE DEF childVars, KeepsCapture
<1>1. req \in [Slots -> Request] /\ req[r] \in Request
  BY DEF TypeOK
<1>2. ASSUME NEW e, req' = [req EXCEPT ![r] = e]
      PROVE  req'[r] = e /\ \A q \in Slots \ {r} : req'[q] = req[q]
  BY <1>1, <1>2
<1>3. ASSUME Reply(r)
      PROVE  /\ req'[r].pc = "idle" /\ ~req'[r].auth /\ req'[r].seen = {}
             /\ \A q \in Slots \ {r} : req'[q] = req[q]
  BY <1>2, <1>3 DEF Reply, Idle
<1>4. ASSUME NEW to, Step(r, to)
      PROVE  /\ req'[r].pc = to /\ Same(r)
             /\ \A q \in Slots \ {r} : req'[q] = req[q]
  <2>1. req' = [req EXCEPT ![r] = [req[r] EXCEPT !.pc = to]]
    BY <1>4 DEF Step
  <2>2. /\ [req[r] EXCEPT !.pc = to].pc = to
        /\ [req[r] EXCEPT !.pc = to].auth = req[r].auth
        /\ [req[r] EXCEPT !.pc = to].seen = req[r].seen
    BY <1>1 DEF Request
  <2> QED
    BY <1>2, <2>1, <2>2 DEF Same
<1>5. ASSUME NEW to, req' = [req EXCEPT ![r].pc = to, ![r].seen = wired]
      PROVE  /\ req'[r].pc = to /\ req'[r].seen = wired /\ req'[r].auth = req[r].auth
             /\ \A q \in Slots \ {r} : req'[q] = req[q]
  <2>1. req' = [req EXCEPT ![r] = [req[r] EXCEPT !.pc = to, !.seen = wired]]
    BY <1>5
  <2>2. /\ [req[r] EXCEPT !.pc = to, !.seen = wired].pc = to
        /\ [req[r] EXCEPT !.pc = to, !.seen = wired].auth = req[r].auth
        /\ [req[r] EXCEPT !.pc = to, !.seen = wired].seen = wired
    BY <1>1 DEF Request
  <2> QED
    BY <1>2, <2>1, <2>2
<1>6. CASE Accept(r)
  <2>1. PICK a \in BOOLEAN : /\ a => KnowsToken(r)
                             /\ req' = [req EXCEPT ![r] = [Idle EXCEPT !.pc = "accepted", !.auth = a]]
    BY <1>6 DEF Accept
  <2>2. /\ [Idle EXCEPT !.pc = "accepted", !.auth = a].pc = "accepted"
        /\ [Idle EXCEPT !.pc = "accepted", !.auth = a].auth = a
        /\ [Idle EXCEPT !.pc = "accepted", !.auth = a].seen = {}
    BY DEF Idle
  <2>3. open /\ KeepsCapture
    BY <1>6 DEF Accept
  <2> QED
    BY <1>2, <2>1, <2>2, <2>3 DEF Moves
<1>7. CASE BuildPipeline(r)
  BY <1>5, <1>7 DEF BuildPipeline, Moves
<1>8. CASE Refuse(r) \/ Probe(r) \/ Answer(r) \/ HandleSessionDie(r)
  BY <1>3, <1>8 DEF Refuse, Probe, Answer, HandleSessionDie, Moves
<1>9. CASE Pipeline(r)
  BY <1>4, <1>9 DEF Pipeline, Moves
<1>10. CASE Handle(r)
  BY <1>4, <1>10 DEF Handle, Moves
<1>11. CASE HandleCapture(r)
  BY <1>3, <1>4, <1>11 DEF HandleCapture, Moves
<1>12. CASE Announce(r)
  BY <1>3, <1>12 DEF Announce, Moves
<1>13. CASE HandleServe(r)
  <2>1. CASE Reply(r)
    BY <1>3, <1>13, <2>1 DEF HandleServe, Moves
  <2>2. CASE req[r].auth /\ req' = [req EXCEPT ![r].pc = "upstream", ![r].seen = wired]
    BY <1>5, <1>13, <2>2 DEF HandleServe, Moves
  <2> QED
    BY <1>13, <2>1, <2>2 DEF HandleServe
<1> QED
  BY <1>6, <1>7, <1>8, <1>9, <1>10, <1>11, <1>12, <1>13 DEF RequestStep

-------------------------------------------------------------------------------
LEMMA CapturesStep ==
    ASSUME TypeOK, Steps, Captures, [Next]_vars
    PROVE  Captures'
<1>1. CASE Starting
  <2>1. CASE UNCHANGED <<captured, closes>>
    BY <1>1, <2>1, StartFrame DEF Captures, At
  <2>2. CASE NewProxy
    BY <1>1, <2>2, StartFrame, SessionAssumption DEF NewProxy, Steps, Captures, At
  <2> QED
    BY <1>1, <2>1, <2>2, StartFrame
<1>2. ASSUME NEW r \in Slots, Accept(r) \/ RequestStep(r)
      PROVE  Captures'
  <2>1. (\A q \in Slots \ {r} : req'[q] = req[q]) /\ Moves(r)
    BY <1>2, RequestMoves
  <2>2. NoHeaders \notin Slots /\ closes \in 0..1
    BY SessionAssumption DEF Slots, TypeOK
  <2> QED
    BY <2>1, <2>2 DEF Captures, Moves, KeepsCapture, At
<1>3. CASE UNCHANGED <<captured, closes, req>>
  BY <1>3 DEF Captures, At
<1> QED
  BY <1>1, <1>2, <1>3, NextCases, OtherFrame

LEMMA RequestsStep ==
    ASSUME TypeOK, Requests, Wiring, [Next]_vars
    PROVE  Requests'
<1>1. CASE Starting
  BY <1>1, StartFrame DEF Requests, Terminal, At
<1>2. ASSUME NEW r \in Slots, Accept(r) \/ RequestStep(r)
      PROVE  Requests'
  <2>1. (\A q \in Slots \ {r} : req'[q] = req[q]) /\ Moves(r)
    BY <1>2, RequestMoves
  <2>2. UNCHANGED <<config, pc, wired>>
    BY <1>2, RequestFrame
  <2>3. \A q \in Slots : req'[q].seen \subseteq wired'
    BY <2>1, <2>2 DEF Requests, Moves, Same
  <2>4. \A q \in Slots : req'[q].auth => q # Child /\ (config'.pinned \/ pc' = "live")
    BY <2>1, <2>2 DEF Requests, Moves, Same, KnowsToken
  <2>5. ASSUME NEW q \in Slots, req'[q].pc = "upstream", ~req'[q].auth
        PROVE  Terminal /\ "handlers" \in req'[q].seen /\ "secret" \notin req'[q].seen
    <3>1. CASE q = r
      <4>1. "handlers" \in req[r].seen => Terminal
        BY DEF Requests, Wiring
      <4> QED
        BY <2>1, <2>5, <3>1, <4>1 DEF Moves, Same
    <3>2. CASE q # r
      BY <2>1, <2>5, <3>2 DEF Requests, At
    <3> QED
      BY <3>1, <3>2
  <2>6. Terminal' = Terminal
    BY <2>2 DEF Terminal
  <2> QED
    BY <2>3, <2>4, <2>5, <2>6 DEF Requests, At
<1>3. CASE UNCHANGED <<config, pc, wired, req>>
  BY <1>3 DEF Requests, Terminal, At
<1> QED
  BY <1>1, <1>2, <1>3, NextCases, OtherFrame

LEMMA ForwardedStep ==
    ASSUME TypeOK, Requests, Wiring, ForwardedIsConfigured, [Next]_vars
    PROVE  ForwardedIsConfigured'
<1>1. CASE Starting
  BY <1>1, StartFrame DEF ForwardedIsConfigured, Terminal, At
<1>2. ASSUME NEW r \in Slots, Accept(r) \/ RequestStep(r)
      PROVE  ForwardedIsConfigured'
  <2>1. (\A q \in Slots \ {r} : req'[q] = req[q]) /\ Moves(r)
    BY <1>2, RequestMoves
  <2>2. UNCHANGED <<config, pc, wired>>
    BY <1>2, RequestFrame
  <2> SUFFICES ASSUME NEW q \in Slots, req'[q].pc = "upstream", ~Terminal, ~config.pinned
               PROVE  /\ "hook" \in wired
                      /\ config.kind = "sticky" => "sticky" \in req'[q].seen
    BY <2>2 DEF ForwardedIsConfigured, Terminal, At
  <2>3. CASE q # r
    BY <2>1, <2>3 DEF ForwardedIsConfigured, At
  <2>4. CASE q = r
    <3>1. "handlers" \notin req[r].seen
      BY DEF Requests, Wiring
    <3>2. req[r].auth /\ req'[r].seen = wired
      BY <2>1, <2>4, <3>1 DEF Moves
    <3>3. pc = "live"
      BY <3>2 DEF Requests
    <3> QED
      BY <2>4, <3>2, <3>3 DEF Wiring, Hooked
  <2> QED
    BY <2>3, <2>4
<1>3. CASE UNCHANGED <<config, pc, wired, req>>
  BY <1>3 DEF ForwardedIsConfigured, Terminal, At
<1> QED
  BY <1>1, <1>2, <1>3, NextCases, OtherFrame

-------------------------------------------------------------------------------
LEMMA StepsStep ==
    ASSUME TypeOK, Steps, [Next]_vars
    PROVE  Steps'
<1> USE DEF startVars, childVars, tunnelVars, proxyVars
<1>1. CASE Starting
  <2>1. CASE NewProxy
    BY <2>1 DEF NewProxy, Steps, Serving, Hooked, Tunnelling
  <2>2. CASE SpawnChild
    BY <2>2 DEF SpawnChild, Steps, Serving, Hooked, Tunnelling
  <2>3. CASE CaptureDone \/ ChildExitedEarly
    BY <2>3 DEF CaptureDone, ChildExitedEarly, Goto, Steps, Serving, Hooked, Tunnelling
  <2>4. CASE CaptureTimeout \/ ReapChild
    BY <2>4 DEF CaptureTimeout, ReapChild, Goto, Steps, Serving, Hooked, Tunnelling
  <2>5. CASE Token
    BY <2>5 DEF Token, Steps, Serving, Hooked, Tunnelling
  <2>6. CASE SetBearerSource \/ SetSharedSecret
    BY <2>6 DEF SetBearerSource, SetSharedSecret, Goto, Steps, Serving, Hooked,
                Tunnelling
  <2>7. CASE Transition
    BY <2>7 DEF Transition, Steps, Serving, Hooked, Tunnelling
  <2>8. CASE SetModifyResponse
    BY <2>8 DEF SetModifyResponse, Reach, Steps, Serving, Hooked, Tunnelling
  <2>9. CASE EnableSticky \/ Preflight
    BY <2>9 DEF EnableSticky, Preflight, Goto, Steps, Serving, Hooked, Tunnelling
  <2>10. CASE StartBackground
    BY <2>10 DEF StartBackground, Goto, Reach, Steps, Serving, Hooked, Tunnelling
  <2>11. CASE StartTunnel
    BY <2>11 DEF StartTunnel, Steps, Serving, Hooked, Tunnelling
  <2>12. CASE TunnelURL \/ NoTunnelURL
    BY <2>12 DEF TunnelURL, NoTunnelURL, Goto, Steps, Serving, Hooked, Tunnelling
  <2>13. CASE TunnelReady \/ NeverReady
    BY <2>13 DEF TunnelReady, NeverReady, Goto, Steps, Serving, Hooked, Tunnelling
  <2>14. CASE CloseUnready \/ ReapUnready
    BY <2>14 DEF CloseUnready, ReapUnready, Goto, Steps, Serving, Hooked, Tunnelling
  <2>15. CASE Retry
    BY <2>15 DEF Retry, Steps, Serving, Hooked, Tunnelling
  <2>16. CASE GiveUp \/ Failed
    BY <2>16 DEF GiveUp, Failed, Goto, CloseProxy, Steps, Serving, Hooked, Tunnelling
  <2> QED
    BY <1>1, <2>1, <2>2, <2>3, <2>4, <2>5, <2>6, <2>7, <2>8, <2>9, <2>10, <2>11, <2>12,
       <2>13, <2>14, <2>15, <2>16 DEF Starting
<1>2. ASSUME NEW r \in Slots, Accept(r) \/ RequestStep(r)
      PROVE  Steps'
  <2>1. UNCHANGED <<pc, mode, child>> /\ CloseOrNot
    BY <1>2, RequestFrame
  <2>2. CASE pc # "new"
    BY <2>1, <2>2 DEF Steps, CloseOrNot, CloseProxy
  <2>3. CASE pc = "new"
    <3>1. req[r].pc = "idle" /\ ~open
      BY <2>3 DEF Steps
    <3> QED
      BY <1>2, <3>1
         DEF RequestStep, Accept, BuildPipeline, Refuse, Pipeline, Handle, Probe,
             HandleCapture, Announce, HandleServe, Answer, HandleSessionDie, At
  <2> QED
    BY <2>2, <2>3
<1>3. CASE Stop \/ StopTunnel \/ StopReaped \/ StopProxy \/ StopDone \/ KillTunnel
  BY <1>3 DEF Stop, StopTunnel, StopReaped, StopProxy, StopDone, CloseProxy, KillTunnel, Steps
<1>4. CASE ChildExits
  BY <1>4 DEF ChildExits, Steps
<1>5. CASE \/ \E g \in {"refresh", "timers", "scheduler"} : GoroutineExits(g)
           \/ \E a \in Attempts : TunnelDies(a) \/ KilledTunnelDies(a)
           \/ UNCHANGED vars
  BY <1>5 DEF GoroutineExits, TunnelDies, KilledTunnelDies, vars, Steps
<1> QED
  BY <1>1, <1>2, <1>3, <1>4, <1>5, NextCases DEF Stopping

LEMMA WiringStep ==
    ASSUME TypeOK, Wiring, [Next]_vars
    PROVE  Wiring'
<1> USE DEF startVars, childVars, tunnelVars, proxyVars
<1>1. CASE Starting
  <2>1. CASE NewProxy
    BY <2>1 DEF NewProxy, Wiring, Hooked, Tunnelling, Terminal
  <2>2. CASE SpawnChild
    BY <2>2 DEF SpawnChild, Wiring, Hooked, Tunnelling, Terminal
  <2>3. CASE CaptureDone \/ ChildExitedEarly
    BY <2>3 DEF CaptureDone, ChildExitedEarly, Goto, Wiring, Hooked, Tunnelling,
                Terminal
  <2>4. CASE CaptureTimeout \/ ReapChild
    BY <2>4 DEF CaptureTimeout, ReapChild, Goto, Wiring, Hooked, Tunnelling, Terminal
  <2>5. CASE Token
    BY <2>5 DEF Token, Wire, Wiring, Hooked, Tunnelling, Terminal
  <2>6. CASE SetBearerSource \/ SetSharedSecret
    BY <2>6 DEF SetBearerSource, SetSharedSecret, Goto, Wire, Wiring, Hooked, Tunnelling,
                Terminal
  <2>7. CASE Transition
    BY <2>7 DEF Transition, Wiring, Hooked, Tunnelling, Terminal
  <2>8. CASE SetModifyResponse
    BY <2>8 DEF SetModifyResponse, Wire, Reach, Wiring, Hooked, Tunnelling, Terminal
  <2>9. CASE EnableSticky \/ Preflight
    BY <2>9 DEF EnableSticky, Preflight, Goto, Wire, Wiring, Hooked, Tunnelling,
                Terminal
  <2>10. CASE StartBackground
    BY <2>10 DEF StartBackground, Goto, Reach, Wiring, Hooked, Tunnelling, Terminal
  <2>11. CASE StartTunnel
    BY <2>11 DEF StartTunnel, Wiring, Hooked, Tunnelling, Terminal
  <2>12. CASE TunnelURL \/ NoTunnelURL
    BY <2>12 DEF TunnelURL, NoTunnelURL, Goto, Wiring, Hooked, Tunnelling, Terminal
  <2>13. CASE TunnelReady \/ NeverReady
    BY <2>13 DEF TunnelReady, NeverReady, Goto, Wiring, Hooked, Tunnelling, Terminal
  <2>14. CASE CloseUnready \/ ReapUnready
    BY <2>14 DEF CloseUnready, ReapUnready, Goto, Wiring, Hooked, Tunnelling, Terminal
  <2>15. CASE Retry
    BY <2>15 DEF Retry, Wiring, Hooked, Tunnelling, Terminal
  <2>16. CASE GiveUp \/ Failed
    BY <2>16 DEF GiveUp, Failed, Goto, Wiring, Hooked, Tunnelling, Terminal
  <2> QED
    BY <1>1, <2>1, <2>2, <2>3, <2>4, <2>5, <2>6, <2>7, <2>8, <2>9, <2>10, <2>11, <2>12,
       <2>13, <2>14, <2>15, <2>16 DEF Starting
<1>2. ASSUME NEW r \in Slots, Accept(r) \/ RequestStep(r)
      PROVE  UNCHANGED <<config, pc, wired>>
  BY <1>2, RequestFrame
<1>3. CASE UNCHANGED <<config, pc, wired>>
  BY <1>3 DEF Wiring, Terminal
<1> QED
  BY <1>1, <1>2, <1>3, NextCases, OtherFrame

(* A signal reaches one process and brings none to life.                   *)
LEMMA Signalled ==
    ASSUME TypeOK, NEW s \in {"interrupted", "killed"}, Signal(attempt, s)
    PROVE  /\ \A a \in Attempts : a # attempt => cloudflared'[a] = cloudflared[a]
           /\ attempt \in Attempts => cloudflared'[attempt] \in {"gone", s}
           /\ \A a \in Attempts : cloudflared[a] = "gone" => cloudflared'[a] = "gone"
BY DEF TypeOK, Signal

LEMMA TunnelsStep ==
    ASSUME TypeOK, Tunnels, Stops, [Next]_vars
    PROVE  Tunnels'
<1> USE DEF startVars, childVars, tunnelVars, proxyVars
<1>0. /\ attempt \in 0..MaxAttempts /\ MaxAttempts \in Nat /\ Attempts = 1..MaxAttempts
      /\ cloudflared \in [Attempts -> {"none", "running", "interrupted", "killed", "gone"}]
      /\ Alive = {"running", "interrupted"}
  BY SessionAssumption DEF TypeOK, Attempts, Alive
<1>1. CASE Starting
  <2>1. CASE NewProxy
    BY <2>1, <1>0 DEF NewProxy, Tunnels, Tunnelling
  <2>2. CASE SpawnChild
    BY <2>2, <1>0 DEF SpawnChild, Tunnels, Tunnelling
  <2>3. CASE CaptureDone \/ ChildExitedEarly
    BY <2>3, <1>0 DEF CaptureDone, ChildExitedEarly, Goto, Tunnels, Tunnelling
  <2>4. CASE CaptureTimeout \/ ReapChild
    BY <2>4, <1>0 DEF CaptureTimeout, ReapChild, Goto, Tunnels, Tunnelling
  <2>5. CASE Token
    BY <2>5, <1>0 DEF Token, Tunnels, Tunnelling
  <2>6. CASE SetBearerSource \/ SetSharedSecret
    BY <2>6, <1>0 DEF SetBearerSource, SetSharedSecret, Goto, Tunnels, Tunnelling
  <2>7. CASE Transition
    BY <2>7, <1>0 DEF Transition, Tunnels, Tunnelling
  <2>8. CASE SetModifyResponse
    BY <2>8, <1>0 DEF SetModifyResponse, Reach, Tunnels, Tunnelling
  <2>9. CASE EnableSticky \/ Preflight
    BY <2>9, <1>0 DEF EnableSticky, Preflight, Goto, Tunnels, Tunnelling
  <2>10. CASE StartBackground
    BY <2>10, <1>0 DEF StartBackground, Goto, Reach, Tunnels, Tunnelling
  <2>11. CASE StartTunnel
    <3>1. /\ attempt' = attempt + 1 /\ attempt' \in Attempts /\ pc = "attempt"
          /\ pc' \in {"url", "retry"} /\ config' = config /\ stop' = stop
      BY <1>0, <2>11 DEF StartTunnel
    <3>2. \A a \in Attempts : cloudflared[a] \notin Alive
      BY <3>1 DEF Tunnels
    <3>3. CASE pc' = "retry" /\ UNCHANGED cloudflared
      BY <3>1, <3>2, <3>3 DEF Tunnels, Tunnelling
    <3>4. CASE pc' = "url" /\ cloudflared' = [cloudflared EXCEPT ![attempt'] = "running"]
      <4>1. \A a \in Attempts : a # attempt' => cloudflared'[a] = cloudflared[a]
        BY <1>0, <3>4
      <4> QED
        BY <3>1, <3>2, <3>4, <4>1 DEF Tunnels, Tunnelling
    <3> QED
      BY <2>11, <3>3, <3>4 DEF StartTunnel
  <2>12. CASE TunnelURL
    BY <2>12, <1>0 DEF TunnelURL, Goto, Tunnels, Tunnelling
  <2>13. CASE NoTunnelURL
    <3>1. /\ pc = "url" /\ pc' = "retry" /\ Signal(attempt, "killed")
          /\ UNCHANGED <<config, attempt, stop>>
      BY <2>13 DEF NoTunnelURL, Goto
    <3>2. \A a \in Attempts : cloudflared'[a] \notin Alive
      BY <1>0, <3>1, Signalled DEF Tunnels
    <3> QED
      BY <3>1, <3>2 DEF Tunnels, Tunnelling
  <2>14. CASE TunnelReady
    BY <2>14, <1>0 DEF TunnelReady, Goto, Tunnels, Tunnelling
  <2>15. CASE NeverReady
    BY <2>15, <1>0 DEF NeverReady, Goto, Tunnels, Tunnelling
  <2>16. CASE CloseUnready
    <3>1. /\ pc = "untunnel" /\ pc' = "unwait" /\ Signal(attempt, "interrupted")
          /\ UNCHANGED <<config, attempt, stop>>
      BY <2>16 DEF CloseUnready, Goto
    <3>2. \A a \in Attempts : cloudflared'[a] \in Alive => a = attempt
      BY <1>0, <3>1, Signalled DEF Tunnels
    <3> QED
      BY <3>1, <3>2 DEF Tunnels, Tunnelling
  <2>17. CASE ReapUnready
    BY <2>17, <1>0 DEF ReapUnready, Goto, Tunnels, Tunnelling
  <2>18. CASE Retry
    BY <2>18, <1>0 DEF Retry, Tunnels, Tunnelling
  <2>19. CASE GiveUp \/ Failed
    BY <2>19, <1>0 DEF GiveUp, Failed, Goto, Tunnels, Tunnelling
  <2> QED
    BY <1>1, <2>1, <2>2, <2>3, <2>4, <2>5, <2>6, <2>7, <2>8, <2>9, <2>10, <2>11, <2>12,
       <2>13, <2>14, <2>15, <2>16, <2>17, <2>18, <2>19 DEF Starting
<1>2. ASSUME NEW r \in Slots, Accept(r) \/ RequestStep(r)
      PROVE  UNCHANGED <<config, pc, attempt, cloudflared, stop>>
  BY <1>2, RequestFrame
<1>3. CASE UNCHANGED <<config, pc, attempt, cloudflared, stop>>
  BY <1>3 DEF Tunnels
<1>4. CASE Stop \/ StopReaped \/ StopProxy \/ StopDone
  <2>1. /\ UNCHANGED <<config, pc, attempt, cloudflared>>
        /\ stop' \in {"none", "tunnel"} => stop = "none"
    BY <1>4 DEF Stop, StopReaped, StopProxy, StopDone
  <2> QED
    BY <2>1 DEF Tunnels
<1>5. CASE StopTunnel
  <2>1. stop' = "reap" /\ Signal(attempt, "interrupted") /\ UNCHANGED <<config, pc, attempt>>
    BY <1>5 DEF StopTunnel
  <2>2. pc = "live"
    BY <1>5 DEF StopTunnel, Stops
  <2>3. \A a \in Attempts : cloudflared'[a] \in Alive => a = attempt
    BY <1>0, <2>1, Signalled DEF Tunnels
  <2> QED
    BY <2>1, <2>2, <2>3 DEF Tunnels
<1>6. CASE KillTunnel
  <2>1. Signal(attempt, "killed") /\ UNCHANGED <<config, pc, attempt, stop>>
    BY <1>6 DEF KillTunnel
  <2>2. pc = "live" => stop = "reap"
    BY <1>6 DEF KillTunnel, Closing
  <2>3. \A a \in Attempts : cloudflared'[a] \notin Alive
    BY <1>0, <2>1, Signalled DEF Tunnels
  <2> QED
    BY <2>1, <2>2, <2>3 DEF Tunnels
<1>7. ASSUME NEW a \in Attempts, TunnelDies(a) \/ KilledTunnelDies(a)
      PROVE  Tunnels'
  <2>1. UNCHANGED <<config, pc, attempt, stop>> /\ cloudflared' = [cloudflared EXCEPT ![a] = "gone"]
    BY <1>7 DEF TunnelDies, KilledTunnelDies
  <2>2. \A b \in Attempts : cloudflared'[b] = cloudflared[b] \/ cloudflared'[b] = "gone"
    BY <1>0, <2>1
  <2> QED
    BY <1>0, <2>1, <2>2 DEF Tunnels
<1>8. CASE ChildExits \/ \E g \in {"refresh", "timers", "scheduler"} : GoroutineExits(g)
  BY <1>3, <1>8 DEF ChildExits, GoroutineExits
<1>9. CASE UNCHANGED vars
  BY <1>3, <1>9 DEF vars
<1> QED
  BY <1>1, <1>2, <1>3, <1>4, <1>5, <1>6, <1>7, <1>8, <1>9, NextCases DEF Stopping

LEMMA StopsStep ==
    ASSUME TypeOK, Steps, Tunnels, Stops, [Next]_vars
    PROVE  Stops'
<1> USE DEF startVars, childVars, tunnelVars, proxyVars
<1>0. /\ cloudflared \in [Attempts -> {"none", "running", "interrupted", "killed", "gone"}]
      /\ attempt \in 0..MaxAttempts /\ MaxAttempts \in Nat /\ Attempts = 1..MaxAttempts
      /\ Alive = {"running", "interrupted"}
  BY SessionAssumption DEF TypeOK, Attempts, Alive
<1>1. CASE Starting
  <2>1. stop' = stop /\ stop = "none"
    BY <1>1, StartFrame DEF Stops
  <2> QED
    BY <2>1 DEF Stops
<1>2. ASSUME NEW r \in Slots, Accept(r) \/ RequestStep(r)
      PROVE  Stops'
  <2>1. UNCHANGED <<pc, cloudflared, stop>> /\ (open' = open \/ open' = FALSE)
    BY <1>2, RequestFrame DEF CloseOrNot, CloseProxy
  <2> QED
    BY <2>1 DEF Stops
<1>3. CASE Stop
  <2>1. /\ pc = "live" /\ UNCHANGED <<pc, open, cloudflared>>
        /\ stop' = IF config.lan THEN "proxy" ELSE "tunnel"
    BY <1>3 DEF Stop
  <2>2. config.lan => \A a \in Attempts : cloudflared[a] \notin Alive
    BY <1>0 DEF Tunnels
  <2> QED
    BY <2>1, <2>2 DEF Stops
<1>4. CASE StopTunnel
  BY <1>4 DEF StopTunnel, Stops
<1>5. CASE StopReaped
  <2>1. \A a \in Attempts : cloudflared[a] \notin Alive
    BY <1>0, <1>5 DEF StopReaped, Tunnels
  <2> QED
    BY <1>5, <2>1 DEF StopReaped, Stops
<1>6. CASE StopProxy
  BY <1>6 DEF StopProxy, CloseProxy, Stops
<1>7. CASE StopDone
  BY <1>7 DEF StopDone, Stops
<1>8. CASE KillTunnel
  <2>1. Signal(attempt, "killed") /\ UNCHANGED <<pc, open, stop>>
    BY <1>8 DEF KillTunnel
  <2>2. \A a \in Attempts : cloudflared'[a] = cloudflared[a] \/ cloudflared'[a] \notin Alive
    BY <1>0, <2>1, Signalled
  <2> QED
    BY <2>1, <2>2 DEF Stops
<1>9. ASSUME NEW a \in Attempts, TunnelDies(a) \/ KilledTunnelDies(a)
      PROVE  Stops'
  <2>1. UNCHANGED <<pc, open, stop>> /\ cloudflared' = [cloudflared EXCEPT ![a] = "gone"]
    BY <1>9 DEF TunnelDies, KilledTunnelDies
  <2>2. \A b \in Attempts : cloudflared'[b] = cloudflared[b] \/ cloudflared'[b] \notin Alive
    BY <1>0, <2>1
  <2> QED
    BY <2>1, <2>2 DEF Stops
<1>10. CASE UNCHANGED <<pc, open, cloudflared, stop>>
  BY <1>10 DEF Stops
<1>11. CASE ChildExits \/ \E g \in {"refresh", "timers", "scheduler"} : GoroutineExits(g)
  BY <1>10, <1>11 DEF ChildExits, GoroutineExits
<1>12. CASE UNCHANGED vars
  BY <1>10, <1>12 DEF vars
<1> QED
  BY <1>1, <1>2, <1>3, <1>4, <1>5, <1>6, <1>7, <1>8, <1>9, <1>11, <1>12, NextCases DEF Stopping

-------------------------------------------------------------------------------
(* Only StartTunnel counts the attempts; a step starts, signals or ends at *)
(* most one cloudflared.                                                   *)
LEMMA AttemptFrame ==
    ASSUME Starting
    PROVE  \/ StartTunnel
           \/ UNCHANGED <<attempt, cloudflared>>
           \/ /\ attempt' = attempt
              /\ \E s \in {"interrupted", "killed"} : Signal(attempt, s)
<1> USE DEF tunnelVars
<1>1. CASE NewProxy \/ SpawnChild
  BY <1>1 DEF NewProxy, SpawnChild
<1>2. CASE CaptureDone \/ ChildExitedEarly \/ CaptureTimeout
  BY <1>2 DEF CaptureDone, ChildExitedEarly, CaptureTimeout
<1>3. CASE ReapChild \/ Token \/ SetBearerSource
  BY <1>3 DEF ReapChild, Token, SetBearerSource
<1>4. CASE SetSharedSecret \/ Transition
  BY <1>4 DEF SetSharedSecret, Transition
<1>5. CASE SetModifyResponse
  BY <1>5 DEF SetModifyResponse
<1>6. CASE EnableSticky \/ Preflight \/ StartBackground
  BY <1>6 DEF EnableSticky, Preflight, StartBackground
<1>7. CASE TunnelURL
  BY <1>7 DEF TunnelURL
<1>8. CASE NoTunnelURL \/ CloseUnready
  BY <1>8 DEF NoTunnelURL, CloseUnready
<1>9. CASE TunnelReady \/ NeverReady \/ ReapUnready
  BY <1>9 DEF TunnelReady, NeverReady, ReapUnready
<1>10. CASE Retry \/ GiveUp \/ Failed
  BY <1>10 DEF Retry, GiveUp, Failed
<1> QED
  BY <1>1, <1>2, <1>3, <1>4, <1>5, <1>6, <1>7, <1>8, <1>9, <1>10 DEF Starting

LEMMA ProcessFrame ==
    ASSUME [Next]_vars
    PROVE  \/ StartTunnel
           \/ \E a, s : s \in {"interrupted", "killed"} /\ Signal(a, s)
           \/ \E a : cloudflared' = [cloudflared EXCEPT ![a] = "gone"]
           \/ UNCHANGED cloudflared
<1> USE DEF tunnelVars
<1>1. CASE Starting
  BY <1>1, AttemptFrame
<1>2. CASE Stop \/ StopReaped \/ StopProxy \/ StopDone \/ ChildExits
  BY <1>2 DEF Stop, StopReaped, StopProxy, StopDone, ChildExits
<1>3. CASE StopTunnel \/ KillTunnel
  BY <1>3 DEF StopTunnel, KillTunnel
<1>4. CASE \E g \in {"refresh", "timers", "scheduler"} : GoroutineExits(g)
  BY <1>4 DEF GoroutineExits
<1>5. CASE \E a \in Attempts : TunnelDies(a) \/ KilledTunnelDies(a)
  BY <1>5 DEF TunnelDies, KilledTunnelDies
<1>6. CASE \E r \in Slots : Accept(r) \/ RequestStep(r)
  BY <1>6, RequestFrame
<1>7. CASE UNCHANGED vars
  BY <1>7 DEF vars
<1> QED
  BY <1>1, <1>2, <1>3, <1>4, <1>5, <1>6, <1>7, NextCases DEF Stopping

LEMMA TypeStep ==
    ASSUME TypeOK, Steps, Captures, Stops, [Next]_vars
    PROVE  TypeOK'
<1> USE DEF startVars, childVars, tunnelVars, proxyVars
<1>1. States'
  BY StatesStep, TypeSplit
<1>2. config' \in [kind : Kinds, lan : BOOLEAN, pinned : BOOLEAN]
  <2>1. config' = config
    BY NextCases, StartFrame, OtherFrame, RequestFrame
  <2> QED
    BY <2>1, TypeSplit
<1>3. req' \in [Slots -> Request]
  BY NextCases, StartFrame, OtherFrame, RequestsTyped, TypeSplit
<1>4. captured' \in Slots \cup {NoHeaders, Seed} /\ closes' \in 0..1
  <2>0. captured \in Slots \cup {NoHeaders, Seed} /\ closes \in 0..1
    BY TypeSplit
  <2>1. CASE NewProxy
    BY <2>0, <2>1 DEF NewProxy, Steps, Captures
  <2>2. ASSUME NEW r \in Slots, Accept(r) \/ RequestStep(r)
        PROVE  captured' \in Slots \cup {NoHeaders, Seed} /\ closes' \in 0..1
    BY <2>0, <2>2, RequestMoves DEF Moves, KeepsCapture, Captures
  <2> QED
    BY <2>0, <2>1, <2>2, NextCases, StartFrame, OtherFrame
<1>5. attempt' \in 0..MaxAttempts
  <2>1. CASE StartTunnel
    BY <2>1, SessionAssumption, TypeSplit DEF StartTunnel
  <2>2. CASE attempt' = attempt
    BY <2>2, TypeSplit
  <2> QED
    BY <2>1, <2>2, AttemptFrame, NextCases, OtherFrame, RequestFrame
<1>6. cloudflared' \in [Attempts -> {"none", "running", "interrupted", "killed", "gone"}]
  <2>1. cloudflared \in [Attempts -> {"none", "running", "interrupted", "killed", "gone"}]
    BY TypeSplit
  <2>2. CASE StartTunnel
    BY <2>1, <2>2 DEF StartTunnel
  <2>3. CASE \E a, s : s \in {"interrupted", "killed"} /\ Signal(a, s)
    BY <2>3, SignalTyped
  <2>4. CASE \E a : cloudflared' = [cloudflared EXCEPT ![a] = "gone"]
    BY <2>1, <2>4
  <2>5. CASE UNCHANGED cloudflared
    BY <2>1, <2>5
  <2> QED
    BY <2>2, <2>3, <2>4, <2>5, ProcessFrame
<1> QED
  BY <1>1, <1>2, <1>3, <1>4, <1>5, <1>6 DEF TypeOK, States

LEMMA IInvStep == IInv /\ [Next]_vars => IInv'
BY TypeStep, StepsStep, CapturesStep, WiringStep, RequestsStep, ForwardedStep, TunnelsStep,
   StopsStep DEF IInv

LEMMA IInvHolds == Spec => []IInv
BY InitIInv, IInvStep, PTL DEF Spec

-------------------------------------------------------------------------------
(* The variables keep their types, and two cloudflared never run at a      *)
(* time: an attempt's process is dead before the next one is started.      *)
THEOREM OneTunnelAtATime == Spec => []Inv
<1>1. IInv => Inv
  BY DEF IInv, Tunnels, Inv, OneTunnel
<1> QED
  BY <1>1, IInvHolds, PTL

(* The child of the capture is gone when the proxy serves, and whoever     *)
(* does not know the token is forwarded only by a pipeline that a codex or *)
(* grok session built before it had set its secret.                        *)
THEOREM OnlyEarlyPipelinesLeak == Spec => []CaptureStaysLocal
<1>1. IInv => CaptureStaysLocal
  BY DEF IInv, Steps, Requests, CaptureStaysLocal, Serving, Hooked, Tunnelling
<1> QED
  BY <1>1, IInvHolds, PTL

(* A request is forwarded with the token of the ticket only by a proxy     *)
(* that is completely set up.                                              *)
THEOREM ForwardsWhenConfigured == Spec => []ForwardedIsConfigured
<1>1. IInv => ForwardedIsConfigured
  BY DEF IInv
<1> QED
  BY <1>1, IInvHolds, PTL

-------------------------------------------------------------------------------
(* The session implements what its callers are promised: its states and    *)
(* steps are states and steps of SessionLifecycle.                         *)
LEMMA HeldFacts ==
    /\ Held \subseteq {"listener", "child", "tunnel"}
    /\ "listener" \in Held <=> open
    /\ "child" \in Held <=> child \in Alive
    /\ "tunnel" \in Held <=> \E a \in Attempts : cloudflared[a] \in Alive
BY DEF Held

LEMMA HeldShrinks ==
    ASSUME open' => open, child' \in Alive => child \in Alive,
           \A a \in Attempts : cloudflared'[a] \in Alive => cloudflared[a] \in Alive
    PROVE  Held' \subseteq Held
<1>1. /\ Held' \subseteq {"listener", "child", "tunnel"}
      /\ "listener" \in Held' <=> open'
      /\ "child" \in Held' <=> child' \in Alive
      /\ "tunnel" \in Held' <=> \E a \in Attempts : cloudflared'[a] \in Alive
  BY DEF Held
<1> QED
  BY <1>1, HeldFacts

LEMMA HeldStays ==
    ASSUME UNCHANGED <<open, child, cloudflared>>
    PROVE  Held' = Held
BY DEF Held

LEMMA PhaseFacts ==
    /\ pc = "failed" => Phase = "failed"
    /\ pc \notin {"failed", "live"} => Phase = "starting"
    /\ pc = "live" /\ stop = "none" => Phase = "live"
    /\ pc = "live" /\ stop = "done" => Phase = "stopped"
    /\ pc = "live" /\ stop \notin {"none", "done"} => Phase = "stopping"
BY DEF Phase

LEMMA NextPhaseFacts ==
    /\ pc' = "failed" => Phase' = "failed"
    /\ pc' \notin {"failed", "live"} => Phase' = "starting"
    /\ pc' = "live" /\ stop' = "none" => Phase' = "live"
    /\ pc' = "live" /\ stop' = "done" => Phase' = "stopped"
    /\ pc' = "live" /\ stop' \notin {"none", "done"} => Phase' = "stopping"
BY DEF Phase

LEMMA PhaseStays == ASSUME UNCHANGED <<pc, stop>> PROVE Phase' = Phase
BY DEF Phase

(* Becoming live or failed changes nothing else that a caller can see.     *)
LEMMA StartingAnswers ==
    ASSUME Starting
    PROVE  /\ pc \notin {"live", "failed"}
           /\ pc' = "live" => UNCHANGED <<open, child, cloudflared>>
           /\ pc' = "failed" => pc \in {"new", "drain"} /\ UNCHANGED <<open, child, cloudflared>>
<1> USE DEF startVars, childVars, tunnelVars, proxyVars
<1>1. CASE NewProxy
  BY <1>1 DEF NewProxy
<1>2. CASE SpawnChild
  BY <1>2 DEF SpawnChild
<1>3. CASE CaptureDone \/ ChildExitedEarly
  BY <1>3 DEF CaptureDone, ChildExitedEarly, Goto
<1>4. CASE CaptureTimeout \/ ReapChild
  BY <1>4 DEF CaptureTimeout, ReapChild, Goto
<1>5. CASE Token
  BY <1>5 DEF Token
<1>6. CASE SetBearerSource \/ SetSharedSecret
  BY <1>6 DEF SetBearerSource, SetSharedSecret, Goto
<1>7. CASE Transition
  BY <1>7 DEF Transition
<1>8. CASE SetModifyResponse
  BY <1>8 DEF SetModifyResponse, Reach
<1>9. CASE EnableSticky \/ Preflight
  BY <1>9 DEF EnableSticky, Preflight, Goto
<1>10. CASE StartBackground
  BY <1>10 DEF StartBackground, Goto, Reach
<1>11. CASE StartTunnel
  BY <1>11 DEF StartTunnel
<1>12. CASE TunnelURL \/ NoTunnelURL
  BY <1>12 DEF TunnelURL, NoTunnelURL, Goto
<1>13. CASE TunnelReady \/ NeverReady
  BY <1>13 DEF TunnelReady, NeverReady, Goto
<1>14. CASE CloseUnready \/ ReapUnready
  BY <1>14 DEF CloseUnready, ReapUnready, Goto
<1>15. CASE Retry
  BY <1>15 DEF Retry
<1>16. CASE GiveUp \/ Failed
  BY <1>16 DEF GiveUp, Failed, Goto
<1> QED
  BY <1>1, <1>2, <1>3, <1>4, <1>5, <1>6, <1>7, <1>8, <1>9, <1>10, <1>11, <1>12, <1>13,
     <1>14, <1>15, <1>16 DEF Starting

LEMMA LifecycleInit == Init => Lifecycle!Init
<1> SUFFICES ASSUME Init PROVE Phase = "starting" /\ Held = {}
  BY DEF Lifecycle!Init
<1>1. pc = "new" /\ ~open /\ child = "none" /\ \A a \in Attempts : cloudflared[a] = "none"
  BY DEF Init
<1> QED
  BY <1>1, PhaseFacts, HeldFacts DEF Alive

LEMMA LifecycleStep ==
    ASSUME IInv, [Next]_vars
    PROVE  [Lifecycle!Next]_(Lifecycle!lifecycle)
<1> USE DEF startVars, childVars, tunnelVars, proxyVars
<1> DEFINE Quiet == Phase' = Phase /\ Held' = Held
<1>0. Quiet => [Lifecycle!Next]_(Lifecycle!lifecycle)
  BY DEF Lifecycle!lifecycle
<1>1. ASSUME Phase \in {"starting", "live", "stopping"}, Phase' = Phase, Held' \subseteq Held
      PROVE  Lifecycle!Next
  BY <1>1 DEF Lifecycle!Next, Lifecycle!LetGo, Lifecycle!Running
<1>2. Held' \subseteq {"listener", "child", "tunnel"}
  BY DEF Held
<1>3. CASE Starting
  <2>1. Phase = "starting" /\ pc \notin {"live", "failed"} /\ stop = "none" /\ stop' = "none"
    BY <1>3, StartingAnswers, StartFrame, PhaseFacts DEF IInv, Stops
  <2>2. CASE pc' \notin {"live", "failed"}
    BY <1>2, <2>1, <2>2, NextPhaseFacts DEF Lifecycle!Next, Lifecycle!Hold
  <2>3. CASE pc' = "live"
    <3>1. Phase' = "live" /\ Held' = Held
      BY <1>3, <2>1, <2>3, StartingAnswers, NextPhaseFacts, HeldStays
    <3> QED
      BY <2>1, <3>1 DEF Lifecycle!Next, Lifecycle!Succeed
  <2>4. CASE pc' = "failed"
    <3>1. Phase' = "failed" /\ Held' = Held /\ pc \in {"new", "drain"}
      BY <1>3, <2>4, StartingAnswers, NextPhaseFacts, HeldStays
    <3>2. ~open /\ child \notin Alive /\ \A a \in Attempts : cloudflared[a] \notin Alive
      BY <3>1 DEF IInv, Steps, Tunnels, Alive
    <3>3. Held = {}
      BY <3>2, HeldFacts
    <3> QED
      BY <2>1, <3>1, <3>3 DEF Lifecycle!Next, Lifecycle!Fail
  <2> QED
    BY <2>2, <2>3, <2>4
<1>4. CASE Stop
  <2>1. pc = "live" /\ pc' = pc /\ stop = "none" /\ stop' \notin {"none", "done"}
        /\ UNCHANGED <<open, child, cloudflared>>
    BY <1>4 DEF Stop
  <2>2. Phase = "live" /\ Phase' = "stopping" /\ Held' = Held
    BY <2>1, PhaseFacts, NextPhaseFacts, HeldStays
  <2> QED
    BY <2>2 DEF Lifecycle!Next, Lifecycle!Stop
<1>5. CASE StopTunnel \/ StopReaped \/ StopProxy
  <2>1. /\ stop \notin {"none", "done"} /\ stop' \notin {"none", "done"}
        /\ pc' = pc /\ child' = child /\ (open' => open)
        /\ Signal(attempt, "interrupted") \/ cloudflared' = cloudflared
    BY <1>5 DEF StopTunnel, StopReaped, StopProxy, CloseProxy
  <2>2. Phase = "stopping" /\ Phase' = Phase
    BY <2>1, PhaseFacts, NextPhaseFacts DEF IInv, Stops
  <2>3. \A a \in Attempts : cloudflared'[a] \in Alive => cloudflared[a] \in Alive
    <3>1. CASE cloudflared' = cloudflared
      BY <3>1
    <3>2. CASE StopTunnel
      <4>1. pc = "live" /\ stop = "tunnel" /\ Signal(attempt, "interrupted")
        BY <3>2 DEF StopTunnel, IInv, Stops
      <4>2. \A a \in Attempts : a = attempt => cloudflared[a] \in {"running", "gone"}
        BY <4>1 DEF IInv, Tunnels
      <4> QED
        BY <4>1, <4>2, Signalled DEF IInv, Alive
    <3> QED
      BY <1>5, <3>1, <3>2 DEF StopReaped, StopProxy
  <2>4. Held' \subseteq Held
    BY <2>1, <2>3, HeldShrinks
  <2> QED
    BY <1>1, <2>2, <2>4
<1>6. CASE StopDone
  <2>1. stop = "drain" /\ stop' = "done" /\ pc' = pc /\ UNCHANGED <<open, child, cloudflared>>
    BY <1>6 DEF StopDone
  <2>2. pc = "live"
    BY <2>1 DEF IInv, Stops
  <2>3. Phase = "stopping" /\ Phase' = "stopped" /\ Held' = Held
    BY <2>1, <2>2, PhaseFacts, NextPhaseFacts, HeldStays
  <2>4. ~open /\ child \notin Alive /\ \A a \in Attempts : cloudflared[a] \notin Alive
    BY <2>1, <2>2 DEF IInv, Stops, Steps, Alive
  <2>5. Held = {}
    BY <2>4, HeldFacts
  <2> QED
    BY <2>3, <2>5 DEF Lifecycle!Next, Lifecycle!Stopped
<1>7. CASE KillTunnel
  <2>1. UNCHANGED <<pc, stop, open, child>> /\ Signal(attempt, "killed")
        /\ (pc = "unwait" \/ stop = "reap")
    BY <1>7 DEF KillTunnel, Closing
  <2>2. Phase \in {"starting", "stopping"} /\ Phase' = Phase
    BY <2>1, PhaseFacts, PhaseStays DEF IInv, Stops
  <2>3. \A a \in Attempts : cloudflared'[a] \in Alive => cloudflared[a] \in Alive
    BY <2>1, Signalled DEF IInv, Alive
  <2> QED
    BY <1>1, <2>1, <2>2, <2>3, HeldShrinks
<1>8. CASE ChildExits
  <2>1. /\ UNCHANGED <<pc, stop, open, cloudflared>>
        /\ child \in {"running", "interrupted"} /\ child' \notin Alive
    BY <1>8 DEF ChildExits, Alive
  <2>2. Phase = "starting" /\ Phase' = Phase
    BY <2>1, PhaseFacts, PhaseStays DEF IInv, Steps
  <2>3. Held' \subseteq Held
    BY <2>1, HeldShrinks
  <2> QED
    BY <1>1, <2>2, <2>3
<1>9. ASSUME NEW a \in Attempts, TunnelDies(a)
      PROVE  Lifecycle!Next
  <2>1. /\ UNCHANGED <<pc, stop, open, child>> /\ cloudflared[a] \in Alive
        /\ cloudflared' = [cloudflared EXCEPT ![a] = "gone"]
    BY <1>9 DEF TunnelDies, Alive
  <2>2. pc # "failed" /\ (pc = "live" => stop # "done")
    BY <2>1 DEF IInv, Tunnels, Stops
  <2>3. Phase \in {"starting", "live", "stopping"} /\ Phase' = Phase
    BY <2>1, <2>2, PhaseFacts, PhaseStays
  <2>4. \A b \in Attempts : cloudflared'[b] \in Alive => cloudflared[b] \in Alive
    BY <2>1 DEF IInv, TypeOK
  <2> QED
    BY <1>1, <2>1, <2>3, <2>4, HeldShrinks
<1>10. ASSUME NEW a \in Attempts, KilledTunnelDies(a)
       PROVE  Quiet
  <2>1. /\ UNCHANGED <<pc, stop, open, child>> /\ cloudflared[a] = "killed"
        /\ cloudflared' = [cloudflared EXCEPT ![a] = "gone"]
    BY <1>10 DEF KilledTunnelDies
  <2>2. \A b \in Attempts : cloudflared'[b] \in Alive <=> cloudflared[b] \in Alive
    BY <2>1 DEF IInv, TypeOK, Alive
  <2>3. Held' = Held
    BY <2>1, <2>2 DEF Held
  <2> QED
    BY <2>1, <2>3, PhaseStays
<1>11. ASSUME NEW r \in Slots, Accept(r) \/ RequestStep(r)
       PROVE  Lifecycle!Next \/ Quiet
  <2>1. UNCHANGED <<pc, stop, child, cloudflared>> /\ (open' = open \/ open' = FALSE)
    BY <1>11, RequestFrame DEF CloseOrNot, CloseProxy
  <2>2. Phase' = Phase
    BY <2>1, PhaseStays
  <2>3. CASE open' = open
    BY <2>1, <2>2, <2>3, HeldStays
  <2>4. CASE open = TRUE /\ open' = FALSE
    <3>1. pc # "failed" /\ (pc = "live" => stop # "done")
      BY <2>4 DEF IInv, Steps, Stops
    <3>2. Phase \in {"starting", "live", "stopping"}
      BY <3>1, PhaseFacts
    <3>3. Held' \subseteq Held
      BY <2>1, <2>4, HeldShrinks
    <3> QED
      BY <1>1, <2>2, <3>2, <3>3
  <2>5. open \in {TRUE, FALSE}
    BY TypeSplit DEF IInv, States
  <2>6. open' = open \/ (open = TRUE /\ open' = FALSE)
    BY <2>1, <2>5
  <2> QED
    BY <2>3, <2>4, <2>6
<1>12. ASSUME UNCHANGED <<pc, stop, open, child, cloudflared>>
       PROVE  Quiet
  BY <1>12, PhaseStays, HeldStays
<1>13. CASE \/ \E g \in {"refresh", "timers", "scheduler"} : GoroutineExits(g)
            \/ UNCHANGED vars
  BY <1>0, <1>12, <1>13 DEF GoroutineExits, vars
<1> QED
  BY <1>0, <1>3, <1>4, <1>5, <1>6, <1>7, <1>8, <1>9, <1>10, <1>11, <1>13, NextCases DEF Stopping

(* Every session that StartSession runs is one SessionLifecycle allows: it *)
(* reports success or failure once, Stop ends a live one, and by the time  *)
(* it has failed or stopped it holds no listener and no process.           *)
THEOREM SessionImplementsLifecycle ==
    Spec => Lifecycle!Init /\ [][Lifecycle!Next]_(Lifecycle!lifecycle)
<1>1. IInv /\ [Next]_vars => [Lifecycle!Next]_(Lifecycle!lifecycle)
  BY LifecycleStep
<1> QED
  BY <1>1, LifecycleInit, IInvHolds, PTL DEF Spec
===============================================================================
