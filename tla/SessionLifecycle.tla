---------------------------- MODULE SessionLifecycle ----------------------------
(***************************************************************************)
(* What the Session interface promises its callers, `ccm share` and the    *)
(* dashboard (internal/share/session.go: Session, SessionStarter).         *)
(*                                                                         *)
(* StartSession returns a live session or an error.  Ticket, Reach and     *)
(* Stop exist only on a live one; Stop ends it once and for all.  Whatever *)
(* the session holds outside its own memory (a listener, child processes)  *)
(* is given back before StartSession reports a failure or Stop returns.    *)
(***************************************************************************)
CONSTANT Resources

VARIABLES phase, held

lifecycle == <<phase, held>>

LifecycleTypeOK ==
    /\ phase \in {"starting", "live", "stopping", "stopped", "failed"}
    /\ held \subseteq Resources

Init == phase = "starting" /\ held = {}

Running == phase \in {"starting", "live", "stopping"}

Hold    == phase = "starting" /\ held' \in SUBSET Resources /\ phase' = phase
LetGo   == Running /\ held' \in SUBSET held /\ phase' = phase
Succeed == phase = "starting" /\ phase' = "live" /\ held' = held
Fail    == phase = "starting" /\ held = {} /\ phase' = "failed" /\ held' = held
Stop    == phase = "live" /\ phase' = "stopping" /\ held' = held
Stopped == phase = "stopping" /\ held = {} /\ phase' = "stopped" /\ held' = held

Next == Hold \/ LetGo \/ Succeed \/ Fail \/ Stop \/ Stopped

(* A caller is never left waiting, neither by StartSession nor by Stop.    *)
Answers ==
    /\ phase = "starting" ~> phase # "starting"
    /\ phase = "stopping" ~> phase = "stopped"

Spec == Init /\ [][Next]_lifecycle /\ Answers
===============================================================================
