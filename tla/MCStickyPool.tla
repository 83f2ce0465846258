---------------------------- MODULE MCStickyPool -----------------------------
(* Instances of StickyPool for TLC: which request belongs to which session. *)
EXTENDS StickyPool, TLC

CONSTANTS r1, r2, s1

JustOne == r1 :> s1
Both    == r1 :> s1 @@ r2 :> s1
=============================================================================
