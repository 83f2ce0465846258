---------------------------- MODULE ServingSlot ------------------------------
(***************************************************************************)
(* What a load-balance pool promises, without probes, failure counters,    *)
(* captures or wake-ups: one slot that names the entry requests are served *)
(* from, and the set of entries believed healthy.  The slot is filled with *)
(* healthy entries only, whoever is served is believed healthy, and losing *)
(* that belief empties the slot or hands it over in the same step.         *)
(***************************************************************************)
CONSTANTS Entries, NoEntry

VARIABLES slot, healthy

Init == healthy \in SUBSET Entries /\ slot \in healthy

(* Hand the slot to a healthy entry; the one that leaves it may be dropped. *)
HandOver(e) ==
    /\ e \in healthy \ {slot}
    /\ slot' = e
    /\ healthy' \in {healthy, healthy \ {slot}}

(* The served entry turns out to be unusable and nobody replaces it yet.   *)
Vacate ==
    /\ slot \in healthy
    /\ slot' = NoEntry
    /\ healthy' = healthy \ {slot}

Degrade(e) ==
    /\ e \in healthy \ {slot}
    /\ healthy' = healthy \ {e}
    /\ UNCHANGED slot

Recover(e) ==
    /\ healthy' = healthy \cup {e}
    /\ UNCHANGED slot

Next ==
    \/ Vacate
    \/ \E e \in Entries : HandOver(e) \/ Degrade(e) \/ Recover(e)

Spec == Init /\ [][Next]_<<slot, healthy>>
=============================================================================
