------------------------------ MODULE ShareSession ------------------------------
(***************************************************************************)
(* One share session from StartSession to Stop (internal/share/session.go, *)
(* proxy.go, capture.go, tunnel.go, middleware, pipeline): the proxy, the  *)
(* `claude -p` child that shows it its identity headers, cloudflared, the  *)
(* background goroutines, and the requests that arrive while all of that   *)
(* comes up and goes down.                                                 *)
(*                                                                         *)
(* Tokens, pools and pins are other modules' matter (CredRefresh,          *)
(* RotatingPool, StickyPool); here Fresh succeeds or fails.                *)
(***************************************************************************)
EXTENDS Integers, FiniteSets

CONSTANTS
    Clients,        \* requests from elsewhere that may be under way at once
    Child,          \* the request slot of the capture's `claude -p`
    NoHeaders,      \* nothing captured yet
    Seed,           \* the empty headers a pool session starts from
    Kinds,          \* the kinds of session to consider
    MaxAttempts     \* cloudflaredMaxAttempts

ASSUME SessionAssumption ==
    /\ Child \notin Clients
    /\ NoHeaders \notin Clients \cup {Child, Seed}
    /\ Seed \notin Clients \cup {Child}
    /\ Kinds \subseteq {"claude", "codex", "grok", "rotating", "sticky"}
    /\ MaxAttempts \in Nat \ {0}

VARIABLES
    config,         \* Options: the kind, LAN or tunnel, pinned token or random
    pc,             \* where StartSession stands
    open, done,     \* the proxy's listener; its done channel is closed
    mode,           \* capturing or serving
    captured,       \* whose headers the proxy replays
    closes,         \* how often captureC has been closed
    wired,          \* what StartSession has set on the running proxy
    child,          \* the process of the identity capture
    attempt, cloudflared, url,  \* the attempts, their processes, the address
    goroutines,     \* refresh loop, refresh timers, scheduler
    stop,           \* where Stop stands
    req             \* the requests being handled

Slots == Clients \cup {Child}
Attempts == 1..MaxAttempts

startVars  == <<mode, wired, goroutines>>
childVars  == <<captured, closes, child>>
tunnelVars == <<attempt, cloudflared, url>>
proxyVars  == <<open, done>>
vars == <<config, pc, open, done, mode, captured, closes, wired, child,
          attempt, cloudflared, url, goroutines, stop, req>>

Wires == {"handlers", "bearer", "secret", "hook", "sticky"}
Request == [pc : {"idle", "accepted", "built", "handle", "capture", "announce",
                  "serve", "upstream"},
            auth : BOOLEAN, seen : SUBSET Wires]
Idle == [pc |-> "idle", auth |-> FALSE, seen |-> {}]

Pooled   == config.kind \in {"rotating", "sticky"}
Terminal == config.kind \in {"codex", "grok"}

TypeOK ==
    /\ config \in [kind : Kinds, lan : BOOLEAN, pinned : BOOLEAN]
    /\ pc \in {"new", "capture", "wait", "reap", "kill", "token", "bearer", "secret",
               "transition", "hook", "enable", "preflight", "background",
               "attempt", "url", "ready", "untunnel", "unwait", "retry",
               "close", "drain", "failed", "live"}
    /\ open \in BOOLEAN /\ done \in BOOLEAN
    /\ mode \in {"capturing", "serving"}
    /\ captured \in Slots \cup {NoHeaders, Seed}
    /\ closes \in 0..1
    /\ wired \subseteq Wires
    /\ child \in {"none", "running", "interrupted", "exited"}
    /\ attempt \in 0..MaxAttempts
    /\ cloudflared \in [Attempts -> {"none", "running", "interrupted", "killed", "gone"}]
    /\ url \in BOOLEAN
    /\ goroutines \subseteq {"refresh", "timers", "scheduler"}
    /\ stop \in {"none", "tunnel", "reap", "proxy", "drain", "done"}
    /\ req \in [Slots -> Request]

Init ==
    /\ config \in [kind : Kinds, lan : BOOLEAN, pinned : BOOLEAN]
    /\ pc = "new"
    /\ open = FALSE /\ done = FALSE
    /\ mode = "capturing" /\ captured = NoHeaders /\ closes = 0
    /\ wired = {} /\ child = "none"
    /\ attempt = 0 /\ cloudflared = [a \in Attempts |-> "none"] /\ url = FALSE
    /\ goroutines = {} /\ stop = "none"
    /\ req = [r \in Slots |-> Idle]

-------------------------------------------------------------------------------
(* The steps of StartSession.  Proxy.Close shuts the listener and the done *)
(* channel at once, then waits for the requests or for its deadline.       *)
Goto(from, to) == pc = from /\ pc' = to
CloseProxy == open' = FALSE /\ done' = TRUE

NewProxy ==
    /\ pc = "new"
    /\ \/ pc' = "failed" /\ UNCHANGED <<open, captured, closes>>
       \/ /\ open' = TRUE
          /\ IF Pooled
             THEN pc' = "token" /\ captured' = Seed /\ closes' = closes + 1
             ELSE pc' = "capture" /\ UNCHANGED <<captured, closes>>
    /\ UNCHANGED <<config, done, startVars, child, tunnelVars, stop, req>>

(* RunCapture: spawn `claude -p`, then whichever comes first of the        *)
(* headers, the child's exit and the timeout.  A select with two ready     *)
(* cases takes either.                                                     *)
SpawnChild ==
    /\ pc = "capture"
    /\ \/ pc' = "close" /\ child' = child
       \/ pc' = "wait" /\ child' = "running"
    /\ UNCHANGED <<config, proxyVars, startVars, captured, closes, tunnelVars, stop, req>>

(* Mutant: the child is left running.                                      *)
CaptureDoneNoKill ==
    /\ Goto("wait", "token")
    /\ closes = 1
    /\ UNCHANGED <<config, proxyVars, startVars, childVars, tunnelVars, stop, req>>

CaptureDone ==
    /\ Goto("wait", "reap")
    /\ closes = 1
    /\ child' = IF child = "running" THEN "interrupted" ELSE child
    /\ UNCHANGED <<config, proxyVars, startVars, captured, closes, tunnelVars, stop, req>>

ChildExitedEarly ==
    /\ Goto("wait", "close")
    /\ child = "exited" /\ child' = "none"
    /\ UNCHANGED <<config, proxyVars, startVars, captured, closes, tunnelVars, stop, req>>

CaptureTimeout ==
    /\ Goto("wait", "kill")
    /\ UNCHANGED <<config, proxyVars, startVars, childVars, tunnelVars, stop, req>>

(* The wait for a child that was interrupted (and killed 2s later) or      *)
(* killed.                                                                 *)
ReapChild ==
    /\ Goto("reap", "token") \/ Goto("kill", "close")
    /\ child' = "none"
    /\ UNCHANGED <<config, proxyVars, startVars, captured, closes, tunnelVars, stop, req>>

(* The access token, the token source and the provider's handlers, each of *)
(* which may fail; the setters run while the proxy already serves.         *)
Wire(x) == wired' = wired \cup {x}

Token ==
    /\ pc = "token"
    /\ \/ pc' = "close" /\ wired' = wired
       \/ IF Terminal THEN pc' = "bearer" /\ Wire("handlers")
                      ELSE pc' = "transition" /\ wired' = wired
    /\ UNCHANGED <<config, proxyVars, mode, goroutines, childVars, tunnelVars, stop, req>>

SetBearerSource ==
    /\ Goto("bearer", "secret") /\ Wire("bearer")
    /\ UNCHANGED <<config, proxyVars, mode, goroutines, childVars, tunnelVars, stop, req>>

SetSharedSecret ==
    /\ Goto("secret", "transition") /\ Wire("secret")
    /\ UNCHANGED <<config, proxyVars, mode, goroutines, childVars, tunnelVars, stop, req>>

Reach == IF config.lan THEN "live" ELSE "attempt"

(* Mutant: the response hook and the sticky set-up are skipped.            *)
TransitionWithoutHook ==
    /\ pc = "transition"
    /\ mode' = "serving" /\ pc' = Reach
    /\ UNCHANGED <<config, proxyVars, wired, goroutines, childVars, tunnelVars, stop, req>>

Transition ==
    /\ pc = "transition"
    /\ IF captured = NoHeaders THEN pc' = "close" /\ mode' = mode
                               ELSE pc' = "hook" /\ mode' = "serving"
    /\ UNCHANGED <<config, proxyVars, wired, goroutines, childVars, tunnelVars, stop, req>>

SetModifyResponse ==
    /\ pc = "hook" /\ Wire("hook")
    /\ goroutines' = IF Pooled THEN goroutines ELSE goroutines \cup {"refresh"}
    /\ pc' = CASE config.kind = "sticky" -> "enable"
               [] config.kind = "rotating" -> "preflight"
               [] OTHER -> Reach
    /\ UNCHANGED <<config, proxyVars, mode, childVars, tunnelVars, stop, req>>

EnableSticky ==
    /\ Goto("enable", "preflight") /\ Wire("sticky")
    /\ UNCHANGED <<config, proxyVars, mode, goroutines, childVars, tunnelVars, stop, req>>

Preflight ==
    /\ Goto("preflight", "close") \/ Goto("preflight", "background")
    /\ UNCHANGED <<config, proxyVars, startVars, childVars, tunnelVars, stop, req>>

StartBackground ==
    /\ Goto("background", Reach)
    /\ goroutines' = goroutines \cup {"timers", "scheduler"}
    /\ UNCHANGED <<config, proxyVars, mode, wired, childVars, tunnelVars, stop, req>>

-------------------------------------------------------------------------------
(* startCloudflaredWithRetry.  One attempt: start the process, wait for    *)
(* its address, wait until the address answers.                            *)
Signal(a, s) == cloudflared' = [cloudflared EXCEPT ![a] = IF @ = "gone" THEN @ ELSE s]

StartTunnel ==
    /\ pc = "attempt" /\ attempt < MaxAttempts
    /\ attempt' = attempt + 1 /\ url' = FALSE
    /\ \/ pc' = "retry" /\ UNCHANGED cloudflared
       \/ pc' = "url" /\ cloudflared' = [cloudflared EXCEPT ![attempt'] = "running"]
    /\ UNCHANGED <<config, proxyVars, startVars, childVars, stop, req>>

TunnelURL ==
    /\ Goto("url", "ready") /\ url' = TRUE
    /\ cloudflared[attempt] \in {"running", "gone"}
    /\ UNCHANGED <<config, proxyVars, startVars, childVars, attempt, cloudflared, stop, req>>

NoTunnelURL ==
    /\ Goto("url", "retry") /\ Signal(attempt, "killed")
    /\ UNCHANGED <<config, proxyVars, startVars, childVars, attempt, url, stop, req>>

TunnelReady ==
    /\ Goto("ready", "live")
    /\ open /\ cloudflared[attempt] = "running"
    /\ UNCHANGED <<config, proxyVars, startVars, childVars, tunnelVars, stop, req>>

(* Mutant: a tunnel that is never ready is not closed.                     *)
NeverReadyLeft ==
    /\ Goto("ready", "retry")
    /\ UNCHANGED <<config, proxyVars, startVars, childVars, tunnelVars, stop, req>>

NeverReady ==
    /\ Goto("ready", "untunnel")
    /\ UNCHANGED <<config, proxyVars, startVars, childVars, tunnelVars, stop, req>>

(* Tunnel.Close: interrupt, wait for the reaper, kill after five seconds.  *)
CloseUnready ==
    /\ Goto("untunnel", "unwait") /\ Signal(attempt, "interrupted")
    /\ UNCHANGED <<config, proxyVars, startVars, childVars, attempt, url, stop, req>>

Closing == pc = "unwait" \/ stop = "reap"

KillTunnel ==
    /\ Closing /\ cloudflared[attempt] = "interrupted"
    /\ Signal(attempt, "killed")
    /\ UNCHANGED <<config, pc, proxyVars, startVars, childVars, attempt, url, stop, req>>

ReapUnready ==
    /\ Goto("unwait", "retry") /\ cloudflared[attempt] = "gone"
    /\ UNCHANGED <<config, proxyVars, startVars, childVars, tunnelVars, stop, req>>

Retry ==
    /\ pc = "retry"
    /\ pc' = IF attempt < MaxAttempts THEN "attempt" ELSE "close"
    /\ UNCHANGED <<config, proxyVars, startVars, childVars, tunnelVars, stop, req>>

GiveUp ==
    /\ Goto("close", "drain") /\ CloseProxy
    /\ UNCHANGED <<config, startVars, childVars, tunnelVars, stop, req>>

Failed ==
    /\ Goto("drain", "failed")
    /\ UNCHANGED <<config, proxyVars, startVars, childVars, tunnelVars, stop, req>>

-------------------------------------------------------------------------------
(* Stop, under its sync.Once: the tunnel, then the proxy, then done.       *)
(* Mutant: the tunnel is forgotten.                                        *)
StopProxyOnly ==
    /\ pc = "live" /\ stop = "none"
    /\ stop' = "proxy"
    /\ UNCHANGED <<config, pc, proxyVars, startVars, childVars, tunnelVars, req>>

Stop ==
    /\ pc = "live" /\ stop = "none"
    /\ stop' = IF config.lan THEN "proxy" ELSE "tunnel"
    /\ UNCHANGED <<config, pc, proxyVars, startVars, childVars, tunnelVars, req>>

StopTunnel ==
    /\ stop = "tunnel" /\ stop' = "reap" /\ Signal(attempt, "interrupted")
    /\ UNCHANGED <<config, pc, proxyVars, startVars, childVars, attempt, url, req>>

StopReaped ==
    /\ stop = "reap" /\ cloudflared[attempt] = "gone" /\ stop' = "proxy"
    /\ UNCHANGED <<config, pc, proxyVars, startVars, childVars, tunnelVars, req>>

StopProxy ==
    /\ stop = "proxy" /\ stop' = "drain" /\ CloseProxy
    /\ UNCHANGED <<config, pc, startVars, childVars, tunnelVars, req>>

StopDone ==
    /\ stop = "drain" /\ stop' = "done"
    /\ UNCHANGED <<config, pc, proxyVars, startVars, childVars, tunnelVars, req>>

(* Mutant: the refresh timers do not watch the done channel.               *)
TimersIgnoreDone(g) ==
    /\ done /\ g \in goroutines \ {"timers"} /\ goroutines' = goroutines \ {g}
    /\ UNCHANGED <<config, pc, proxyVars, mode, wired, childVars, tunnelVars, stop, req>>

GoroutineExits(g) ==
    /\ done /\ g \in goroutines /\ goroutines' = goroutines \ {g}
    /\ UNCHANGED <<config, pc, proxyVars, mode, wired, childVars, tunnelVars, stop, req>>

-------------------------------------------------------------------------------
(* The processes: the child may end by itself, cloudflared may die, and a  *)
(* signal may be what ends it.                                             *)
ChildExits ==
    /\ child \in {"running", "interrupted"} /\ child' = "exited"
    /\ UNCHANGED <<config, pc, proxyVars, startVars, captured, closes, tunnelVars, stop, req>>

TunnelDies(a) ==
    /\ cloudflared[a] \in {"running", "interrupted"}
    /\ cloudflared' = [cloudflared EXCEPT ![a] = "gone"]
    /\ UNCHANGED <<config, pc, proxyVars, startVars, childVars, attempt, url, stop, req>>

KilledTunnelDies(a) ==
    /\ cloudflared[a] = "killed"
    /\ cloudflared' = [cloudflared EXCEPT ![a] = "gone"]
    /\ UNCHANGED <<config, pc, proxyVars, startVars, childVars, attempt, url, stop, req>>

-------------------------------------------------------------------------------
(* A request.  Every step of the pipeline works on what was wired when the *)
(* pipeline was built for it.                                              *)
Reachable(r) ==
    IF r = Child THEN child \in {"running", "interrupted"}
    ELSE config.lan \/ (attempt > 0 /\ url /\ cloudflared[attempt] = "running")
KnowsToken(r) == r # Child /\ (config.pinned \/ pc = "live")

At(r, from) == req[r].pc = from
Reply(r) == req' = [req EXCEPT ![r] = Idle]
Step(r, to) == req' = [req EXCEPT ![r].pc = to]

Accept(r) ==
    /\ At(r, "idle") /\ open /\ Reachable(r)
    /\ \E a \in BOOLEAN :
          /\ a => KnowsToken(r)
          /\ req' = [req EXCEPT ![r] = [Idle EXCEPT !.pc = "accepted", !.auth = a]]
    /\ UNCHANGED <<config, pc, proxyVars, startVars, childVars, tunnelVars, stop>>

BuildPipeline(r) ==
    /\ At(r, "accepted")
    /\ req' = [req EXCEPT ![r].pc = "built", ![r].seen = wired]
    /\ UNCHANGED <<config, pc, proxyVars, startVars, childVars, tunnelVars, stop>>

(* A wrong secret, a body that is no JSON, no fresh bearer.                *)
Refuse(r) ==
    /\ At(r, "built") /\ Reply(r)
    /\ UNCHANGED <<config, pc, proxyVars, startVars, childVars, tunnelVars, stop>>

(* The semaphore is built with the pipeline: no other request holds it.    *)
Pipeline(r) ==
    /\ At(r, "built")
    /\ "secret" \in req[r].seen => req[r].auth
    /\ Step(r, IF "handlers" \in req[r].seen THEN "upstream" ELSE "handle")
    /\ UNCHANGED <<config, pc, proxyVars, startVars, childVars, tunnelVars, stop>>

Handle(r) ==
    /\ At(r, "handle")
    /\ Step(r, IF mode = "capturing" THEN "capture" ELSE "serve")
    /\ UNCHANGED <<config, pc, proxyVars, startVars, childVars, tunnelVars, stop>>

Probe(r) ==
    /\ At(r, "capture") /\ Reply(r)
    /\ UNCHANGED <<config, pc, proxyVars, startVars, childVars, tunnelVars, stop>>

HandleCapture(r) ==
    /\ At(r, "capture")
    /\ IF captured = NoHeaders THEN captured' = r /\ Step(r, "announce")
                               ELSE captured' = captured /\ Reply(r)
    /\ UNCHANGED <<config, pc, proxyVars, startVars, closes, child, tunnelVars, stop>>

Announce(r) ==
    /\ At(r, "announce") /\ closes' = closes + 1 /\ Reply(r)
    /\ UNCHANGED <<config, pc, proxyVars, startVars, captured, child, tunnelVars, stop>>

HandleServe(r) ==
    /\ At(r, "serve")
    /\ \/ req[r].auth /\ req' = [req EXCEPT ![r].pc = "upstream", ![r].seen = wired]
       \/ Reply(r)
    /\ UNCHANGED <<config, pc, proxyVars, startVars, childVars, tunnelVars, stop>>

Answer(r) ==
    /\ At(r, "upstream") /\ Reply(r)
    /\ UNCHANGED <<config, pc, proxyVars, startVars, childVars, tunnelVars, stop>>

(* model_not_found: the terminal answers and has the proxy closed.         *)
HandleSessionDie(r) ==
    /\ At(r, "upstream") /\ "handlers" \in req[r].seen
    /\ Reply(r) /\ CloseProxy
    /\ UNCHANGED <<config, pc, startVars, childVars, tunnelVars, stop>>

-------------------------------------------------------------------------------
Starting ==
    \/ NewProxy \/ SpawnChild \/ CaptureDone \/ ChildExitedEarly \/ CaptureTimeout
    \/ ReapChild \/ Token \/ SetBearerSource \/ SetSharedSecret \/ Transition
    \/ SetModifyResponse \/ EnableSticky \/ Preflight \/ StartBackground
    \/ StartTunnel \/ TunnelURL \/ NoTunnelURL \/ TunnelReady \/ NeverReady
    \/ CloseUnready \/ ReapUnready \/ Retry \/ GiveUp \/ Failed

Stopping == StopTunnel \/ StopReaped \/ StopProxy \/ StopDone

Handling(r) ==
    \/ BuildPipeline(r) \/ Refuse(r) \/ Pipeline(r) \/ Handle(r) \/ Probe(r)
    \/ HandleCapture(r) \/ Announce(r) \/ HandleServe(r)

Exits == \E g \in {"refresh", "timers", "scheduler"} : GoroutineExits(g)

Next ==
    \/ Starting \/ Stop \/ Stopping \/ KillTunnel \/ Exits
    \/ ChildExits
    \/ \E a \in Attempts : TunnelDies(a) \/ KilledTunnelDies(a)
    \/ \E r \in Slots : Accept(r) \/ Handling(r) \/ Answer(r) \/ HandleSessionDie(r)

(* ccm's own goroutines run, its timers fire and a killed process dies.    *)
(* Nothing is assumed of requests, of the upstream, of the user who calls  *)
(* Stop, or of a process that was only asked to end.                       *)
Fairness ==
    /\ WF_vars(Starting) /\ WF_vars(Stopping) /\ WF_vars(KillTunnel) /\ WF_vars(Exits)
    /\ \A a \in Attempts : WF_vars(KilledTunnelDies(a))

Spec == Init /\ [][Next]_vars /\ Fairness

-------------------------------------------------------------------------------
(* The session as its callers see it.                                      *)
Phase ==
    CASE pc = "failed"                  -> "failed"
      [] pc \notin {"failed", "live"}   -> "starting"
      [] pc = "live" /\ stop = "none"   -> "live"
      [] pc = "live" /\ stop = "done"   -> "stopped"
      [] OTHER                          -> "stopping"

Alive == {"running", "interrupted"}
Held ==
    {x \in {"listener", "child", "tunnel"} :
        CASE x = "listener" -> open
          [] x = "child"    -> child \in Alive
          [] x = "tunnel"   -> \E a \in Attempts : cloudflared[a] \in Alive}

Lifecycle == INSTANCE SessionLifecycle
                WITH Resources <- {"listener", "child", "tunnel"},
                     phase <- Phase, held <- Held

(* StartSession returns a live session, or an error after the listener,    *)
(* the capture child and every cloudflared it started are gone; Stop       *)
(* returns after the same; neither waits for ever, whatever cloudflared,   *)
(* `claude -p` and the clients do.                                         *)
ImplementsLifecycle == Lifecycle!Spec

(* capture.go: `claude -p` is killed "so that no in-flight request leaks    *)
(* into SERVING mode".  The child is gone before the proxy serves.  What it *)
(* has sent can slip out in one way: in a codex or grok session a pipeline  *)
(* built after SetCodexHandlers and before SetSharedSecret forwards without *)
(* a check.  A request without the session's token, the child's or a        *)
(* client's, is forwarded through no other; in a Claude session, never.     *)
CaptureStaysLocal ==
    /\ mode = "serving" => child = "none"
    /\ \A r \in Slots :
        At(r, "upstream") /\ ~req[r].auth =>
            Terminal /\ "handlers" \in req[r].seen /\ "secret" \notin req[r].seen

(* A retry of cloudflared never leaves an earlier one running beside the   *)
(* one the ticket names.                                                   *)
OneTunnel ==
    \A a \in Attempts : cloudflared[a] \in Alive => a = attempt /\ pc # "retry"
Inv == TypeOK /\ OneTunnel

(* The proxy serves before StartSession has finished setting it up.  Where *)
(* the token is only in the ticket, a request that is forwarded all the    *)
(* same finds the response hook in place, and in a sticky pool was routed  *)
(* by its session: the 401s and the usage of its answer are not lost.      *)
ForwardedIsConfigured ==
    \A r \in Slots :
        At(r, "upstream") /\ ~Terminal /\ ~config.pinned =>
            /\ "hook" \in wired
            /\ config.kind = "sticky" => "sticky" \in req[r].seen

(* Once the proxy is closed, by Stop, by a failed start or by a fatal      *)
(* error of the upstream, the refresh loop, the timers and the scheduler   *)
(* end, those included that are started after it.                          *)
GoroutinesEnd == done ~> goroutines = {}
===============================================================================
