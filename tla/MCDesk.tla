------------------------------- MODULE MCDesk -------------------------------
(***************************************************************************)
(* Small instances of the pages and the background tasks of Desk.          *)
(***************************************************************************)
EXTENDS Desk

CONSTANTS agent1, agent2, team1, skill1, skill2, member, scope, policy,
          p1, p2, p3, a1, a2, a3, c1, c2, f1, f2, s1, s2, t1

MCAbout == [f \in Facts |-> CASE f = member -> {agent1, team1} [] f = scope -> {team1} [] f = policy -> {}]
MCFactSort == [f \in Facts |-> CASE f = member -> "membership" [] f = scope -> "scope" [] f = policy -> "policy"]

MCRowSort == [i \in RowIds |-> CASE i \in {p1, p2, p3} -> "product" [] i \in {a1, a2, a3} -> "area"
    [] i \in {c1, c2} -> "capability" [] i \in {f1, f2} -> "feature" [] i \in {s1, s2} -> "story"
    [] i = t1 -> "task"]
MCStart == [i \in RowIds |-> CASE i \in {p1, p2} -> "top" [] i = a1 -> p1 [] i = a2 -> p2
    [] i = c1 -> a1 [] i = f1 -> c1 [] i = s1 -> f1 [] OTHER -> Nobody]

\* How often the person acts, or processes crash, in a hurry and without.
FewActs == [r \in BOOLEAN |-> IF r THEN 2 ELSE 4]
MoreActs == [r \in BOOLEAN |-> IF r THEN 4 ELSE 5]
CrashActs == [r \in BOOLEAN |-> IF r THEN 1 ELSE 2]
=============================================================================
