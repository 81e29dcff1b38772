----------------------------- MODULE AgentWork -----------------------------
(***************************************************************************)
(* The agent-work ledger: the rows of one roadmap run, their dependencies  *)
(* and the conflict-zone locks (tables agent_work_items,                   *)
(* agent_work_dependencies and agent_work_locks), and the tools by which   *)
(* many agents, in several processes, change them.                         *)
(*                                                                         *)
(* claim_next_item is one BEGIN IMMEDIATE transaction, so it is one step.  *)
(* Every other tool issues its statements one by one on the pool: each     *)
(* statement is a step, and call[c] is what client c's handler has in its  *)
(* local variables between two of them.                                    *)
(*                                                                         *)
(* Time is discrete.  A lease is kept as the time that remains of it; Tick *)
(* lets every lease run, those captured by a call in flight included.      *)
(***************************************************************************)
EXTENDS Integers, FiniteSets

CONSTANTS
    Items,          \* feature ids
    Zones,          \* conflict-zone keys
    Tokens,         \* claim tokens (UUIDs)
    Callers,        \* clients that can have a tool call in flight
    NoItem, NoToken,
    Rank,           \* ORDER BY of the claim: priority, then feature_id
    ZoneSets,       \* the zone sets a seeded row may name
    SeedDeps,       \* the dependency edges a run may be seeded with
    Leases,         \* the lease lengths clients ask for
    Asked,          \* the statuses clients ask for
    MaxCandidates,  \* LIMIT of the candidate query
    Tools,          \* Tools[c]: the tools client c uses
    Steady          \* clients that do not die in the middle of a call

Statuses == {"pending", "claimed", "in_progress", "implemented",
             "tests_passed", "committed", "blocked", "skipped", "cancelled"}

\* What update_item_status releases the locks on.
Releasing == {"committed", "blocked", "skipped", "cancelled"}

\* A row that was never seeded: COALESCE(prereq.status, 'missing').
Missing == "missing"

NoLease == -1        \* lease_expires_at IS NULL

ASSUME TokensAssumption == NoToken \notin Tokens
ASSUME ItemsAssumption == NoItem \notin Items
ASSUME LeasesAssumption == Leases \subseteq Nat \ {0}   \* clamp(30, 86400)
ASSUME ZonesAssumption == ZoneSets \subseteq SUBSET Zones
ASSUME SeedAssumption == SeedDeps \subseteq SUBSET (Items \X Items)
ASSUME RankAssumption == Rank \in [Items -> Nat]
ASSUME AskedAssumption == Asked \subseteq Statuses
ASSUME WindowAssumption == MaxCandidates \in Nat \ {0}

VARIABLES rows, deps, locks, call
vars == <<rows, deps, locks, call>>

TokenOrNone == Tokens \cup {NoToken}
LeaseOrNone == Nat \cup {NoLease}

Row == [status : Statuses \cup {Missing}, token : TokenOrNone,
        lease : LeaseOrNone, zones : SUBSET Zones]

\* The unique index idx_agent_work_locks_active_zone allows one unreleased row
\* per zone, so the unreleased locks are a function of the zone.
Lock == [item : Items \cup {NoItem}, token : TokenOrNone, lease : LeaseOrNone]
Free == [item |-> NoItem, token |-> NoToken, lease |-> NoLease]
Taken(z) == locks[z].token # NoToken

Call == [pc : {"idle", "hb_item", "hb_locks", "up_write", "up_release",
               "rq_read", "rq_release", "rq_write", "lc_write", "lc_release",
               "rs_insert"},
         item : Items \cup {NoItem}, zone : Zones \cup {NoItem},
         token : TokenOrNone, lease : LeaseOrNone,
         status : Statuses, todo : SUBSET Items]
Idle == [pc |-> "idle", item |-> NoItem, zone |-> NoItem, token |-> NoToken,
         lease |-> NoLease, status |-> "pending", todo |-> {}]

TypeOK == /\ rows \in [Items -> Row]
          /\ deps \in SUBSET (Items \X Items)
          /\ locks \in [Zones -> Lock]
          /\ call \in [Callers -> Call]

\* A row nobody seeded, and the rows a run starts with: pending, with some zones.
Absent == [status |-> Missing, token |-> NoToken, lease |-> NoLease, zones |-> {}]
Seeded == [status : {"pending"}, token : {NoToken}, lease : {NoLease}, zones : ZoneSets]

Init == /\ rows \in [Items -> Seeded \cup {Absent}]
        /\ deps \in SeedDeps
        /\ locks = [z \in Zones |-> Free]
        /\ call = [c \in Callers |-> Idle]

-----------------------------------------------------------------------------
(* Helpers *)

\* release_item_locks: by token when there is one, otherwise all of the item's.
Released(i, t) ==
    [z \in Zones |-> IF locks[z].item = i /\ (t = NoToken \/ locks[z].token = t)
                     THEN Free ELSE locks[z]]

\* Variant: the sweep takes a lock one unit before its lease ends.
SweptEarly ==
    [z \in Zones |-> IF Taken(z) /\ locks[z].lease <= 1 THEN Free ELSE locks[z]]

\* The claim's first statement: locks whose lease has run out are released.
Swept ==
    [z \in Zones |-> IF Taken(z) /\ locks[z].lease = 0 THEN Free ELSE locks[z]]

DepsMet(i) ==
    \A d \in deps : d[1] = i => rows[d[2]].status \in {"committed", "skipped"}

\* Variant: the candidate query without its NOT EXISTS clause.
ReadyAnyOrder == {i \in Items : rows[i].status = "pending"}

Ready == {i \in Items : rows[i].status = "pending" /\ DepsMet(i)}

\* Variant: the LIMIT is applied before the prerequisites are looked at.
WindowOfPending ==
    {i \in Ready : Cardinality({j \in Items : rows[j].status = "pending" /\ Rank[j] < Rank[i]})
                       < MaxCandidates}

\* The candidate query returns the first MaxCandidates ready rows.
Window ==
    {i \in Ready : Cardinality({j \in Ready : Rank[j] < Rank[i]}) < MaxCandidates}

\* Variant: one free zone is enough to pass the zone loop.
UnblockedSomewhere == {i \in Window : \E z \in rows[i].zones : Swept[z] = Free}

Unblocked == {i \in Window : \A z \in rows[i].zones : Swept[z] = Free}

\* Variant: the sweep's query without its comparison with the clock.
ExpiredAnyLease(i) ==
    rows[i].status \in {"claimed", "in_progress"} /\ rows[i].lease # NoLease

\* A row requeue_expired_items selects.
Expired(i) == rows[i].status \in {"claimed", "in_progress"} /\ rows[i].lease = 0

\* uuid::Uuid::new_v4: a token that no row, lock or running call knows; any
\* one will do, as tokens are only compared.  No tool has an effect for a token
\* that no row holds, so an old one may return.
FreshTokens ==
    Tokens \ ({rows[i].token : i \in Items} \cup {locks[z].token : z \in Zones}
              \cup {call[c].token : c \in Callers})
NewToken == CHOOSE t \in FreshTokens : TRUE

\* A claim its agent may still be working on.
Active == {"claimed", "in_progress", "implemented", "tests_passed"}
Live(i) == rows[i].status \in Active /\ rows[i].token # NoToken /\ rows[i].lease > 0

\* No call on row i is between two statements.
Quiet(i) == \A c \in Callers : call[c].item # i /\ i \notin call[c].todo

\* Some client uses the tool (the tools that are a single statement).
Offered(tool) == \E c \in Callers : tool \in Tools[c]

\* A statement that writes the status, token and lease of a row.
WithClaim(i, s, t, len) ==
    [rows EXCEPT ![i] = [status |-> s, token |-> t, lease |-> len,
                         zones |-> rows[i].zones]]

\* A call that is about to run statement pc: on one row, on the rows of a list
\* it works through (i is the one it is at), or on a zone.
OnRow(pc, i, t, len, s) ==
    [pc |-> pc, item |-> i, zone |-> NoItem, token |-> t, lease |-> len,
     status |-> s, todo |-> {}]
OnRows(pc, i, t, S) ==
    [pc |-> pc, item |-> i, zone |-> NoItem, token |-> t, lease |-> NoLease,
     status |-> "pending", todo |-> S]
OnZone(z, i, t, len) ==
    [pc |-> "rs_insert", item |-> i, zone |-> z, token |-> t, lease |-> len,
     status |-> "pending", todo |-> {}]

Run(c, k) == call' = [call EXCEPT ![c] = k]
Goto(c, pc) == call' = [call EXCEPT ![c].pc = pc]
Return(c) == Run(c, Idle)

-----------------------------------------------------------------------------
(* agent_work.items.claim_next: one immediate transaction *)

\* Row i is the first unblocked candidate: it becomes claimed under a new
\* token and its zones are locked under the same token and lease.
ClaimItem(i, len) ==
    /\ FreshTokens # {}
    /\ i \in Unblocked /\ \A j \in Unblocked : Rank[i] <= Rank[j]
    /\ rows' = WithClaim(i, "claimed", NewToken, len)
    /\ locks' = [z \in Zones |-> IF z \in rows[i].zones
                                 THEN [item |-> i, token |-> NewToken, lease |-> len]
                                 ELSE Swept[z]]
    /\ UNCHANGED <<deps, call>>

\* Variant: a claim that finds nothing rolls its sweep back.
ClaimNothingRolledBack == Unblocked = {} /\ UNCHANGED vars

\* No candidate can be claimed: only the sweep is committed.
ClaimNothing ==
    /\ Unblocked = {}
    /\ locks' = Swept
    /\ UNCHANGED <<rows, deps, call>>

Claim == \/ \E i \in Items, len \in Leases : ClaimItem(i, len)
         \/ ClaimNothing

-----------------------------------------------------------------------------
(* agent_work.items.heartbeat: read the clock, update the row, update the locks *)

HeartbeatStart(c, i, len) ==
    /\ "heartbeat" \in Tools[c]
    /\ call[c].pc = "idle"
    /\ rows[i].token # NoToken
    /\ Run(c, OnRow("hb_item", i, rows[i].token, len, "pending"))
    /\ UNCHANGED <<rows, deps, locks>>

\* No clause looks at the old lease: a lapsed claim is renewed as well.
HeartbeatMatches(c) ==
    LET r == rows[call[c].item]
    IN  r.token = call[c].token /\ r.status \in {"claimed", "in_progress", "implemented"}

HeartbeatItem(c) ==
    /\ call[c].pc = "hb_item"
    /\ IF HeartbeatMatches(c)
       THEN /\ rows' = [rows EXCEPT ![call[c].item].lease = call[c].lease]
            /\ Goto(c, "hb_locks")
       ELSE UNCHANGED rows /\ Return(c)
    /\ UNCHANGED <<deps, locks>>

\* Variant: the second statement is missing.
HeartbeatLocksMissing(c) ==
    call[c].pc = "hb_locks" /\ Return(c) /\ UNCHANGED <<rows, deps, locks>>

HeartbeatLocks(c) ==
    /\ call[c].pc = "hb_locks"
    /\ locks' = [z \in Zones |->
                   IF locks[z].item = call[c].item /\ locks[z].token = call[c].token
                   THEN [locks[z] EXCEPT !.lease = call[c].lease] ELSE locks[z]]
    /\ Return(c)
    /\ UNCHANGED <<rows, deps>>

-----------------------------------------------------------------------------
(* agent_work.items.update_status *)

\* The token, when one is given, is compared with the row in a statement of
\* its own; the write that follows does not mention it.
UpdateStart(c, i, s, t) ==
    /\ "update" \in Tools[c]
    /\ call[c].pc = "idle"
    /\ t # NoToken => rows[i].token = t
    /\ Run(c, OnRow("up_write", i, t, NoLease, s))
    /\ UNCHANGED <<rows, deps, locks>>

UpdateWrite(c) ==
    /\ call[c].pc = "up_write"
    /\ LET i == call[c].item
       IN  rows' = IF rows[i].status = Missing THEN rows
                   ELSE [rows EXCEPT ![i].status = call[c].status]
    /\ IF call[c].status \in Releasing THEN Goto(c, "up_release") ELSE Return(c)
    /\ UNCHANGED <<deps, locks>>

UpdateRelease(c) ==
    /\ call[c].pc = "up_release"
    /\ locks' = Released(call[c].item, call[c].token)
    /\ Return(c)
    /\ UNCHANGED <<rows, deps>>

-----------------------------------------------------------------------------
(* agent_work.items.requeue and requeue_expired: per row, read it, release   *)
(* the locks of the token read, reset the row.  The expired rows are chosen  *)
(* by one query before the loop.                                             *)

RequeueStart(c, i) ==
    /\ "requeue" \in Tools[c]
    /\ call[c].pc = "idle"
    /\ Run(c, OnRows("rq_read", NoItem, NoToken, {i}))
    /\ UNCHANGED <<rows, deps, locks>>

RequeueExpiredStart(c) ==
    /\ "requeue_expired" \in Tools[c]
    /\ call[c].pc = "idle"
    /\ \E i \in Items : Expired(i)
    /\ Run(c, OnRows("rq_read", NoItem, NoToken, {i \in Items : Expired(i)}))
    /\ UNCHANGED <<rows, deps, locks>>

RequeueRead(c) ==
    /\ call[c].pc = "rq_read"
    /\ \E i \in call[c].todo :
          IF rows[i].status = Missing THEN Return(c)
          ELSE Run(c, OnRows("rq_release", i, rows[i].token, call[c].todo))
    /\ UNCHANGED <<rows, deps, locks>>

\* Variant: a row without locks (a claim swept them) fails the requeue.
RequeueReleaseNeedsLock(c) ==
    /\ call[c].pc = "rq_release"
    /\ locks' = Released(call[c].item, call[c].token)
    /\ IF locks' = locks THEN Return(c) ELSE Goto(c, "rq_write")
    /\ UNCHANGED <<rows, deps>>

RequeueRelease(c) ==
    /\ call[c].pc = "rq_release"
    /\ locks' = Released(call[c].item, call[c].token)
    /\ Goto(c, "rq_write")
    /\ UNCHANGED <<rows, deps>>

\* Variant: the reset writes a status the other tools do not know.
RequeueWriteQueued(c) ==
    /\ call[c].pc = "rq_write"
    /\ LET rest == call[c].todo \ {call[c].item}
       IN  /\ rows' = WithClaim(call[c].item, "queued", NoToken, NoLease)
           /\ IF rest = {} THEN Return(c)
              ELSE Run(c, OnRows("rq_read", NoItem, NoToken, rest))
    /\ UNCHANGED <<deps, locks>>

RequeueWrite(c) ==
    /\ call[c].pc = "rq_write"
    /\ LET rest == call[c].todo \ {call[c].item}
       IN  /\ rows' = WithClaim(call[c].item, "pending", NoToken, NoLease)
           /\ IF rest = {} THEN Return(c)
              ELSE Run(c, OnRows("rq_read", NoItem, NoToken, rest))
    /\ UNCHANGED <<deps, locks>>

-----------------------------------------------------------------------------
(* agent_work.commits.link: per feature, mark it committed, release its locks *)

CommitStart(c, S) ==
    /\ "commit" \in Tools[c]
    /\ call[c].pc = "idle"
    /\ S # {}
    /\ Run(c, OnRows("lc_write", NoItem, NoToken, S))
    /\ UNCHANGED <<rows, deps, locks>>

CommitWrite(c) ==
    /\ call[c].pc = "lc_write"
    /\ \E i \in call[c].todo :
          /\ rows' = IF rows[i].status = Missing THEN rows
                     ELSE [rows EXCEPT ![i].status = "committed"]
          /\ Run(c, OnRows("lc_release", i, NoToken, call[c].todo))
    /\ UNCHANGED <<deps, locks>>

CommitRelease(c) ==
    /\ call[c].pc = "lc_release"
    /\ locks' = Released(call[c].item, NoToken)
    /\ LET rest == call[c].todo \ {call[c].item}
       IN  IF rest = {} THEN Return(c)
           ELSE Run(c, OnRows("lc_write", NoItem, NoToken, rest))
    /\ UNCHANGED <<rows, deps>>

-----------------------------------------------------------------------------
(* agent_work.conflict_zones.reserve and release *)

\* The zone is looked up first; the caller names a claim of its own or gets a
\* lock that belongs to no feature.  (A token that is not the feature's, or a
\* feature without one, is accepted as well; no caller is modelled who does that.)
ReserveStart(c, z, i, len) ==
    /\ "reserve" \in Tools[c]
    /\ call[c].pc = "idle"
    /\ ~Taken(z)
    /\ IF i = NoItem THEN FreshTokens # {} ELSE rows[i].token # NoToken
    /\ Run(c, OnZone(z, i, IF i = NoItem THEN NewToken ELSE rows[i].token, len))
    /\ UNCHANGED <<rows, deps, locks>>

\* A lock inserted since the lookup makes the unique index refuse the row.
ReserveInsert(c) ==
    /\ call[c].pc = "rs_insert"
    /\ locks' = IF Taken(call[c].zone) THEN locks
                ELSE [locks EXCEPT ![call[c].zone] =
                        [item |-> call[c].item, token |-> call[c].token,
                         lease |-> call[c].lease]]
    /\ Return(c)
    /\ UNCHANGED <<rows, deps>>

\* Without a token the lock is released whoever holds it.
ReleaseZone(z) ==
    /\ Offered("release")
    /\ Taken(z)
    /\ locks' = [locks EXCEPT ![z] = Free]
    /\ UNCHANGED <<rows, deps, call>>

-----------------------------------------------------------------------------
(* agent_work.items.upsert and agent_work.dependencies.upsert / delete *)

\* The status and the zones are overwritten, the token and the lease are kept.
UpsertItem(i, s, zs) ==
    /\ Offered("upsert")
    /\ rows' = [rows EXCEPT ![i] = [status |-> s, token |-> rows[i].token,
                                    lease |-> rows[i].lease, zones |-> zs]]
    /\ UNCHANGED <<deps, locks, call>>

UpsertDependency(i, j) ==
    /\ Offered("depend")
    /\ i # j
    /\ deps' = deps \cup {<<i, j>>}
    /\ UNCHANGED <<rows, locks, call>>

DeleteDependency(i, j) ==
    /\ Offered("depend")
    /\ deps' = deps \ {<<i, j>>}
    /\ UNCHANGED <<rows, locks, call>>

-----------------------------------------------------------------------------
(* The environment *)

Less(n) == IF n > 0 THEN n - 1 ELSE n

Tick ==
    /\ rows' = [i \in Items |-> [rows[i] EXCEPT !.lease = Less(rows[i].lease)]]
    /\ locks' = [z \in Zones |-> [locks[z] EXCEPT !.lease = Less(locks[z].lease)]]
    /\ call' = [c \in Callers |-> [call[c] EXCEPT !.lease = Less(call[c].lease)]]
    /\ UNCHANGED deps

\* The process of c dies, or a statement fails, between two statements.
Abandon(c) ==
    /\ c \notin Steady
    /\ call[c].pc # "idle"
    /\ Return(c)
    /\ UNCHANGED <<rows, deps, locks>>

-----------------------------------------------------------------------------

Heartbeat(c) == \/ \E i \in Items, len \in Leases : HeartbeatStart(c, i, len)
                \/ HeartbeatItem(c)
                \/ HeartbeatLocks(c)

UpdateStatus(c) == \/ \E i \in Items, s \in Asked, t \in TokenOrNone : UpdateStart(c, i, s, t)
                   \/ UpdateWrite(c)
                   \/ UpdateRelease(c)

RequeueStep(c) == RequeueRead(c) \/ RequeueRelease(c) \/ RequeueWrite(c)
RequeueExpired(c) == RequeueExpiredStart(c) \/ RequeueStep(c)

LinkCommit(c) == \/ \E S \in SUBSET Items : CommitStart(c, S)
                 \/ CommitWrite(c)
                 \/ CommitRelease(c)

Reserve(c) == \/ \E z \in Zones, i \in Items \cup {NoItem}, len \in Leases :
                    ReserveStart(c, z, i, len)
              \/ ReserveInsert(c)

Edit == \/ \E z \in Zones : ReleaseZone(z)
        \/ \E i \in Items, s \in Asked, zs \in ZoneSets : UpsertItem(i, s, zs)
        \/ \E i, j \in Items : UpsertDependency(i, j) \/ DeleteDependency(i, j)

\* The tools of the execution loop the guide gives agents and coordinators.
LoopNext == \/ Claim
            \/ \E c \in Callers : \/ Heartbeat(c) \/ UpdateStatus(c) \/ LinkCommit(c)
                                  \/ RequeueExpired(c) \/ Abandon(c)
            \/ Tick

Next == \/ LoopNext
        \/ \E c \in Callers : Reserve(c) \/ \E i \in Items : RequeueStart(c, i)
        \/ Edit

Spec == Init /\ [][Next]_vars

\* What is left of a call once it has started.
Continue(c) == \/ HeartbeatItem(c) \/ HeartbeatLocks(c) \/ UpdateWrite(c)
               \/ UpdateRelease(c) \/ RequeueStep(c) \/ CommitWrite(c)
               \/ CommitRelease(c) \/ ReserveInsert(c)

\* Agents that are idle keep asking for work, a call runs to its end unless its
\* client dies, and the clients that sweep come back to it again and again (the
\* coordinator's loop; a sweep may find the client busy, hence SF).
Fairness == /\ WF_vars(Claim)
            /\ \A c \in Callers : WF_vars(Continue(c))
            /\ \A c \in Callers \cap Steady : SF_vars(RequeueExpiredStart(c))

LoopSpec == Init /\ [][LoopNext]_vars /\ Fairness

-----------------------------------------------------------------------------
(* Properties of the ledger as it is, whatever its clients do *)

\* A lock whose lease has run out does not block its zone for ever: a claim
\* attempt releases it, or its holder renews it first.
LapsedLockGoes ==
    \A z \in Zones : (Taken(z) /\ locks[z].lease = 0) ~> ~(Taken(z) /\ locks[z].lease = 0)

\* A row whose agent went silent in claimed or in_progress is picked up by a
\* sweep, or its agent comes back.
ExpiredRecovered == \A i \in Items : Expired(i) ~> ~Expired(i)

\* A row whose turn it is does not stay behind for ever: when it is ready, its
\* zones are free or lapsed, fewer than MaxCandidates ready rows come before it
\* and all of those are blocked, it is claimed, or one of that ceases to be so.
\* Neither rows that wait for prerequisites nor blocked ones keep it from its
\* turn.  (Behind MaxCandidates blocked rows a free one is not found.)
Blocked(i) == \E z \in rows[i].zones : Taken(z) /\ locks[z].lease > 0
Turn(i) ==
    LET before == {j \in Items : Rank[j] < Rank[i] /\ rows[j].status = "pending" /\ DepsMet(j)}
    IN  /\ rows[i].status = "pending" /\ DepsMet(i) /\ ~Blocked(i)
        /\ Cardinality(before) < MaxCandidates /\ \A j \in before : Blocked(j)
FirstIsServed == \A i \in Items : Turn(i) ~> ~Turn(i)

\* A claim takes a zone only if it is free or its lock's lease has run out.
ClaimRespectsLocks ==
    [][\A i \in Items, z \in Zones :
          /\ Taken(z) /\ locks[z].lease > 0
          /\ locks'[z].item = i /\ locks'[z].token # locks[z].token
          => rows'[i] = rows[i]]_vars

-----------------------------------------------------------------------------
(* What the guide and the tests say, and the ledger does not keep *)

\* "The claim token is the agent's guard for heartbeats and status changes": a
\* status change that came with a token is written only on that token's claim.
TokenGuardsStatus ==
    [][\A c \in Callers :
          UpdateWrite(c) /\ call[c].token # NoToken
          => rows[call[c].item].token = call[c].token]_vars

\* "If an agent crashes or a lease expires, a coordinator should use
\* requeue_expired before assigning more work": a claim whose lease ran out
\* does not stay lapsed for ever while the coordinator sweeps.
Lapsed(i) == rows[i].status \in Active /\ rows[i].lease = 0
LapsedRecovered == \A i \in Items : Lapsed(i) ~> ~Lapsed(i)
=============================================================================
