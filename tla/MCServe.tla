-------------------------------- MODULE MCServe --------------------------------
(***************************************************************************)
(* Instances of `ccm serve` for TLC: its shares (Dashboard) and its logins *)
(* (LoginFlow).  The two have no variable in common, so a behaviour of     *)
(* both is a behaviour of each, interleaved, and says no more than the two *)
(* do alone: a step of one is explored only while the other one rests in   *)
(* its initial state.                                                      *)
(*                                                                         *)
(* The servers are interchangeable, and so are their requests.  Neither    *)
(* moves while a login does, and AbandonedGo is about logins alone, so     *)
(* that no behaviour it speaks of is folded by the symmetry.               *)
(***************************************************************************)
EXTENDS Dashboard, LoginFlow, TLC

ServeVars == <<vars, loginVars>>
ServeInit == Init /\ LoginInit

Shares == LoginInit /\ UNCHANGED loginVars /\ Next
Logins == Init /\ UNCHANGED vars /\ LoginNext

ServeSpec == ServeInit /\ [][Shares \/ Logins]_ServeVars /\ WF_loginVars(Sweep)

Symmetry == Permutations(Servers) \cup Permutations(Calls)
================================================================================
