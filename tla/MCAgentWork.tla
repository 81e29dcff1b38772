---------------------------- MODULE MCAgentWork ----------------------------
(* Small instances of the ledger for TLC. *)
EXTENDS AgentWorkClients, TLC

CONSTANTS f1, f2, f3, za, zb, c1, c2

MCRank == [i \in Items |-> CASE i = f1 -> 1 [] i = f2 -> 2 [] OTHER -> 3]

\* A wide row and a narrow one: sets that overlap without being equal.
MCZoneSets == {{za}, {za, zb}}
MCOneZone == {{za}}

MCAnyDep == {{}, {<<f1, f2>>}, {<<f2, f1>>}}
MCNoDep == {{}}
MCOneDep == {{<<f2, f1>>}}

MCSymmetry == Permutations(Callers)

\* Two clients, each of which works and coordinates.
MCAgentTools == [c \in Callers |->
    {"heartbeat", "update", "requeue_expired", "commit", "release", "upsert"}]

\* The tools that reserve zones, reset rows and change prerequisites.
MCEditTools == [c \in Callers |->
    {"heartbeat", "requeue", "requeue_expired", "reserve", "depend", "upsert"}]

\* An agent and a coordinator that sweeps.
MCLoopTools == [c \in Callers |->
    IF c = c1 THEN {"heartbeat", "update", "commit"} ELSE {"requeue_expired"}]

\* Either two rows in one zone, the second after the first, with a busy agent;
\* or three rows with agents that only claim.  The first two of the three share
\* a zone: a claim of the first blocks the second, and the third is beyond a
\* window of two until the first is claimed.  Where the first two wait for the
\* third, they would fill a window that counted rows that are not ready.
MCAskingTools == [c \in Callers |->
    IF c = c1 THEN {"heartbeat", "commit"} ELSE {"requeue_expired"}]
MCApart == {{za}, {zb}}
MCQueues == {{<<f2, f1>>}, {}, {<<f1, f3>>, <<f2, f3>>}}
MCLoopInit ==
    /\ Init
    /\ \A i \in Items \ {f3} : rows[i].zones \subseteq {za}
    /\ \A i \in Items \ {f3} : rows[i] # Absent
    /\ IF rows[f3] = Absent THEN deps = {<<f2, f1>>}
       ELSE rows[f3].zones = {zb} /\ deps # {<<f2, f1>>}
MCLoopNext ==
    /\ LoopNext
    /\ IF rows[f3] = Absent THEN call'[c1].item # f3 /\ f3 \notin call'[c1].todo
       ELSE call'[c1] = Idle
MCLoopSpec == MCLoopInit /\ [][MCLoopNext]_vars /\ Fairness
=============================================================================
