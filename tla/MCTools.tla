------------------------------ MODULE MCTools ------------------------------
(***************************************************************************)
(* Small instances of the pages of Tools.                                  *)
(***************************************************************************)
EXTENDS Tools

CONSTANTS p1, p2, d1, d2

MCOwn == [p \in {p1, p2} |-> IF p = p1 THEN d1 ELSE d2]

\* How often the person acts, in a hurry and without.
FewActs == [r \in BOOLEAN |-> IF r THEN 2 ELSE 4]
MoreActs == [r \in BOOLEAN |-> IF r THEN 5 ELSE 6]
FewerActs == [r \in BOOLEAN |-> IF r THEN 2 ELSE 3]
=============================================================================
