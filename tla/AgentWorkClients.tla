-------------------------- MODULE AgentWorkClients --------------------------
(***************************************************************************)
(* The ledger used by clients that keep the rules below.  The code does    *)
(* not enforce them: the actions of AgentWork have no such guards, and its *)
(* Spec breaks Exclusive.  They are what agents and coordinators have to   *)
(* do for a live claim to own its conflict zones.                          *)
(*                                                                         *)
(*  serial   calls on one row do not overlap                               *)
(*  prompt   a lease does not run while a heartbeat is between its         *)
(*           statements (a lease is at least 30 s), and a heartbeat does   *)
(*           not die between the row and the locks                         *)
(*  timely   an agent renews its claim only before the lease lapses        *)
(*  forward  an inactive row becomes active only by a claim, and a         *)
(*           committed or skipped row stays so                             *)
(*  handsoff nobody requeues, re-seeds, adds a prerequisite to or releases *)
(*           a zone of a live claim                                        *)
(***************************************************************************)
EXTENDS AgentWork

Done(i) == rows[i].status \in {"committed", "skipped"}

RuledClaim ==
    \/ \E i \in Items, len \in Leases : Quiet(i) /\ ClaimItem(i, len)
    \/ ClaimNothing

RuledHeartbeat(c) ==
    \/ \E i \in Items, len \in Leases :
          Quiet(i) /\ Live(i) /\ HeartbeatStart(c, i, len)
    \/ HeartbeatItem(c)
    \/ HeartbeatLocks(c)

RuledUpdate(c) ==
    \/ \E i \in Items, s \in Asked, t \in TokenOrNone :
          /\ Quiet(i) /\ ~Done(i)
          /\ s \in Active => rows[i].status \in Active
          /\ UpdateStart(c, i, s, t)
    \/ UpdateWrite(c)
    \/ UpdateRelease(c)

RuledRequeue(c) ==
    \/ \E i \in Items : Quiet(i) /\ ~Live(i) /\ ~Done(i) /\ RequeueStart(c, i)
    \/ (\A i \in Items : Expired(i) => Quiet(i)) /\ RequeueExpiredStart(c)
    \/ RequeueStep(c)

RuledCommit(c) ==
    \/ \E S \in SUBSET Items : (\A i \in S : Quiet(i)) /\ CommitStart(c, S)
    \/ CommitWrite(c)
    \/ CommitRelease(c)

RuledReserve(c) ==
    \/ \E z \in Zones, i \in Items \cup {NoItem}, len \in Leases :
          (i # NoItem => Quiet(i)) /\ ReserveStart(c, z, i, len)
    \/ ReserveInsert(c)

RuledEdit ==
    \/ \E z \in Zones :
          (\A i \in Items : Live(i) => z \notin rows[i].zones) /\ ReleaseZone(z)
    \/ \E i \in Items, s \in Asked \ Active, zs \in ZoneSets :
          Quiet(i) /\ ~Live(i) /\ ~Done(i) /\ UpsertItem(i, s, zs)
    \/ \E i, j \in Items :
          (~Live(i) /\ UpsertDependency(i, j)) \/ DeleteDependency(i, j)

RuledTick == (\A c \in Callers : call[c].pc \notin {"hb_item", "hb_locks"}) /\ Tick

RuledAbandon(c) == call[c].pc # "hb_locks" /\ Abandon(c)

RuledNext ==
    \/ RuledClaim
    \/ \E c \in Callers : \/ RuledHeartbeat(c) \/ RuledUpdate(c) \/ RuledRequeue(c)
                          \/ RuledCommit(c) \/ RuledReserve(c) \/ RuledAbandon(c)
    \/ RuledEdit
    \/ RuledTick

RuledSpec == Init /\ [][RuledNext]_vars

-----------------------------------------------------------------------------

\* While a claim is live, every one of its zones is locked for it, under its
\* token and at least until its own lease ends; only between the two writes of
\* a heartbeat may the lock still carry the older lease.
Renewing(i) == \E c \in Callers : call[c].pc = "hb_locks" /\ call[c].item = i

Covered ==
    \A i \in Items : Live(i) =>
        \A z \in rows[i].zones :
            /\ locks[z].item = i /\ locks[z].token = rows[i].token
            /\ locks[z].lease > 0
            /\ ~Renewing(i) => locks[z].lease >= rows[i].lease

\* Two live claims never share a conflict zone.
Exclusive ==
    \A i, j \in Items : i # j /\ Live(i) /\ Live(j) =>
        rows[i].zones \cap rows[j].zones = {}

\* While a claim is live nobody takes it over: no step, not even one of a sweep
\* that selected the row earlier, changes its token.
NeverStolen ==
    [][\A i \in Items : Live(i) => rows'[i].token = rows[i].token]_vars

\* A live claim's prerequisites are committed or skipped, and stay so while it
\* is live.
InOrder == \A i \in Items : Live(i) => DepsMet(i)

-----------------------------------------------------------------------------
(* The inductive invariant: what every call in flight may still rely on *)

\* Two calls never work on the same row.
Busy(c, i) == call[c].item = i \/ i \in call[c].todo
Serial == \A c, d \in Callers, i \in Items : Busy(c, i) /\ Busy(d, i) => c = d

\* A heartbeat in flight still has a live claim, and the lease it has written;
\* a status change or a requeue does not undo a finished row, nor revive or
\* take a live one; what is released belongs to no live claim.
HeartbeatOK(c) ==
    /\ call[c].pc \in {"hb_item", "hb_locks"} =>
          /\ call[c].item \in Items /\ Live(call[c].item)
          /\ call[c].token = rows[call[c].item].token /\ call[c].lease > 0
    /\ call[c].pc = "hb_locks" => call[c].lease = rows[call[c].item].lease
UpdateOK(c) ==
    call[c].pc = "up_write" =>
        /\ call[c].item \in Items /\ ~Done(call[c].item)
        /\ call[c].status \in Active => rows[call[c].item].status \in Active
ReleaseOK(c) ==
    /\ call[c].pc \in {"up_release", "rq_release", "lc_release"} =>
          call[c].item \in Items /\ ~Live(call[c].item)
    /\ call[c].pc \in {"rq_release", "rq_write", "lc_release"} =>
          call[c].item \in call[c].todo
RequeueOK(c) ==
    call[c].pc \in {"rq_read", "rq_release", "rq_write"} =>
        \A i \in call[c].todo : ~Live(i) /\ ~Done(i)
InFlight == \A c \in Callers : HeartbeatOK(c) /\ UpdateOK(c) /\ ReleaseOK(c) /\ RequeueOK(c)

IInv == TypeOK /\ Covered /\ InOrder /\ Serial /\ InFlight

-----------------------------------------------------------------------------

\* The ledger implements the abstract lease service.
Lease == INSTANCE ZoneLease
             WITH holds <- [i \in Items |-> IF Live(i) THEN rows[i].zones ELSE {}]
LeaseSpec == Lease!Spec
=============================================================================
