----------------------------- MODULE ZoneLease -----------------------------
(***************************************************************************)
(* What the ledger promises its clients: work items hold sets of conflict  *)
(* zones, an item is granted zones only while no other item holds any of   *)
(* them, keeps exactly those zones while it holds them, and gives them up  *)
(* all at once (committed, stopped, or lease lapsed).                      *)
(***************************************************************************)
CONSTANTS Items, Zones

VARIABLE holds      \* holds[i]: the zones of i's live claim, {} without one

Init == holds = [i \in Items |-> {}]

Grant(i, S) ==
    /\ holds[i] = {}
    /\ \A j \in Items : holds[j] \cap S = {}
    /\ holds' = [holds EXCEPT ![i] = S]

\* Time passing can end several claims at once.
Drop(D) == holds' = [i \in Items |-> IF i \in D THEN {} ELSE holds[i]]

Next == \/ \E i \in Items, S \in SUBSET Zones : Grant(i, S)
        \/ \E D \in SUBSET Items : Drop(D)

Spec == Init /\ [][Next]_holds

\* No zone is held twice.
Exclusive == \A i, j \in Items : i # j => holds[i] \cap holds[j] = {}
=============================================================================
