-------------------------- MODULE AgentWorkProofs --------------------------
(***************************************************************************)
(* Theorems about the agent-work ledger, for every set of items, zones,    *)
(* tokens and clients.                                                     *)
(***************************************************************************)
EXTENDS AgentWorkClients, TLAPS

-----------------------------------------------------------------------------
(* Type correctness, with or without the clients' rules *)

\* A claim that has a fresh token to draw draws a token.
LEMMA NewTokenType == ASSUME FreshTokens # {} PROVE NewToken \in Tokens
  BY DEF NewToken, FreshTokens

\* Freeing locks leaves a table of locks.
LEMMA ReleasedType ==
  ASSUME TypeOK, NEW i, NEW t PROVE Released(i, t) \in [Zones -> Lock]
  BY DEF TypeOK, Released, Lock, Free, TokenOrNone, LeaseOrNone

\* Sweeping lapsed locks leaves a table of locks.
LEMMA SweptType == ASSUME TypeOK PROVE Swept \in [Zones -> Lock]
  BY DEF TypeOK, Swept, Lock, Free, TokenOrNone, LeaseOrNone

\* The statements move calls on within the type.
LEMMA RunType ==
  ASSUME TypeOK, NEW c \in Callers, NEW k \in Call, Run(c, k)
  PROVE  call' \in [Callers -> Call]
  BY DEF TypeOK, Run

\* A call that returns leaves the calls well typed.
LEMMA ReturnType ==
  ASSUME TypeOK, NEW c \in Callers, Return(c) PROVE call' \in [Callers -> Call]
<1>1. Idle \in Call
  BY DEF Idle, Call, Statuses, TokenOrNone, LeaseOrNone
<1> QED
  BY <1>1, RunType DEF Return

\* A call that goes to its next statement leaves the calls well typed.
LEMMA GotoType ==
  ASSUME TypeOK, NEW c \in Callers,
         NEW pc \in {"hb_locks", "up_release", "rq_write"}, Goto(c, pc)
  PROVE  call' \in [Callers -> Call]
  BY DEF TypeOK, Goto, Call

\* A call that takes a set of rows with it is well typed.
LEMMA OnRowsType ==
  ASSUME NEW pc \in {"rq_read", "rq_release", "lc_write", "lc_release"},
         NEW i \in Items \cup {NoItem}, NEW t \in TokenOrNone, NEW S \in SUBSET Items
  PROVE  OnRows(pc, i, t, S) \in Call
  BY DEF OnRows, Call, Statuses, LeaseOrNone

\* The seeded ledger is well typed.
LEMMA InitType == Init => TypeOK
<1> SUFFICES ASSUME Init PROVE TypeOK
  OBVIOUS
<1>1. rows \in [Items -> Row]
  BY ZonesAssumption
  DEF Init, Absent, Seeded, Row, Statuses, TokenOrNone, LeaseOrNone
<1>2. deps \in SUBSET (Items \X Items)
  BY SeedAssumption DEF Init
<1>3. locks \in [Zones -> Lock]
  BY DEF Init, Lock, Free, TokenOrNone, LeaseOrNone
<1>4. call \in [Callers -> Call]
  BY DEF Init, Idle, Call, Statuses, TokenOrNone, LeaseOrNone
<1> QED
  BY <1>1, <1>2, <1>3, <1>4 DEF TypeOK

\* A claim keeps the types, whether it finds a row or not.
LEMMA ClaimType == TypeOK /\ Claim => TypeOK'
<1> SUFFICES ASSUME TypeOK, Claim PROVE TypeOK'
  OBVIOUS
<1>1. ASSUME NEW i \in Items, NEW len \in Leases, ClaimItem(i, len) PROVE TypeOK'
  <2>1. NewToken \in Tokens
    BY <1>1, NewTokenType DEF ClaimItem
  <2>2. len \in Nat
    BY LeasesAssumption
  <2>3. rows' \in [Items -> Row]
    BY <1>1, <2>1, <2>2
    DEF ClaimItem, WithClaim, TypeOK, Row, Statuses, TokenOrNone, LeaseOrNone
  <2>4. locks' \in [Zones -> Lock]
    BY <1>1, <2>1, <2>2, SweptType DEF ClaimItem, Lock, TokenOrNone, LeaseOrNone
  <2> QED
    BY <1>1, <2>3, <2>4 DEF ClaimItem, TypeOK
<1>2. CASE ClaimNothing
  BY <1>2, SweptType DEF ClaimNothing, TypeOK
<1> QED
  BY <1>1, <1>2 DEF Claim

\* Each statement of a heartbeat keeps the types.
LEMMA HeartbeatType ==
  ASSUME TypeOK, NEW c \in Callers, Heartbeat(c) PROVE TypeOK'
<1>1. ASSUME NEW i \in Items, NEW len \in Leases, HeartbeatStart(c, i, len)
      PROVE  TypeOK'
  <2>1. OnRow("hb_item", i, rows[i].token, len, "pending") \in Call
    BY LeasesAssumption DEF OnRow, TypeOK, Row, Call, Statuses, LeaseOrNone
  <2> QED
    BY <1>1, <2>1, RunType DEF HeartbeatStart, TypeOK
<1>2. CASE HeartbeatItem(c)
  <2>1. rows' \in [Items -> Row]
    BY <1>2 DEF HeartbeatItem, TypeOK, Row, Call
  <2>2. call' \in [Callers -> Call]
    BY <1>2, GotoType, ReturnType DEF HeartbeatItem
  <2> QED
    BY <1>2, <2>1, <2>2 DEF HeartbeatItem, TypeOK
<1>3. CASE HeartbeatLocks(c)
  <2>1. locks' \in [Zones -> Lock]
    BY <1>3 DEF HeartbeatLocks, TypeOK, Lock, Call
  <2> QED
    BY <1>3, <2>1, ReturnType DEF HeartbeatLocks, TypeOK
<1> QED
  BY <1>1, <1>2, <1>3 DEF Heartbeat

\* Each statement of a status change keeps the types.
LEMMA UpdateType ==
  ASSUME TypeOK, NEW c \in Callers, UpdateStatus(c) PROVE TypeOK'
<1>1. ASSUME NEW i \in Items, NEW s \in Asked, NEW t \in TokenOrNone,
             UpdateStart(c, i, s, t)
      PROVE  TypeOK'
  <2>1. OnRow("up_write", i, t, NoLease, s) \in Call
    BY AskedAssumption DEF OnRow, Call, LeaseOrNone
  <2> QED
    BY <1>1, <2>1, RunType DEF UpdateStart, TypeOK
<1>2. CASE UpdateWrite(c)
  <2>1. rows' \in [Items -> Row]
    <3>1. call[c].status \in Statuses
      BY DEF TypeOK, Call
    <3> QED
      BY <1>2, <3>1 DEF UpdateWrite, TypeOK, Row
  <2>2. call' \in [Callers -> Call]
    BY <1>2, GotoType, ReturnType DEF UpdateWrite
  <2> QED
    BY <1>2, <2>1, <2>2 DEF UpdateWrite, TypeOK
<1>3. CASE UpdateRelease(c)
  BY <1>3, ReleasedType, ReturnType DEF UpdateRelease, TypeOK
<1> QED
  BY <1>1, <1>2, <1>3 DEF UpdateStatus

\* Each statement of a requeue or a sweep keeps the types.
LEMMA RequeueType ==
  ASSUME TypeOK, NEW c \in Callers,
         RequeueExpired(c) \/ \E i \in Items : RequeueStart(c, i)
  PROVE  TypeOK'
<1> USE DEF TokenOrNone
<1>1. ASSUME NEW i \in Items, RequeueStart(c, i) PROVE TypeOK'
  BY <1>1, OnRowsType, RunType DEF RequeueStart, TypeOK
<1>2. CASE RequeueExpiredStart(c)
  BY <1>2, OnRowsType, RunType DEF RequeueExpiredStart, TypeOK
<1>3. CASE RequeueRead(c)
  <2>1. PICK i \in call[c].todo :
          IF rows[i].status = Missing THEN Return(c)
          ELSE Run(c, OnRows("rq_release", i, rows[i].token, call[c].todo))
    BY <1>3 DEF RequeueRead
  <2>2. call[c].todo \in SUBSET Items
    BY DEF TypeOK, Call
  <2>3. rows[i].token \in TokenOrNone
    BY <2>2 DEF TypeOK, Row
  <2>4. call' \in [Callers -> Call]
    BY <2>1, <2>2, <2>3, OnRowsType, RunType, ReturnType
  <2> QED
    BY <1>3, <2>4 DEF RequeueRead, TypeOK
<1>4. CASE RequeueRelease(c)
  BY <1>4, ReleasedType, GotoType DEF RequeueRelease, TypeOK
<1>5. CASE RequeueWrite(c)
  <2>1. rows' \in [Items -> Row]
    BY <1>5 DEF RequeueWrite, WithClaim, TypeOK, Row, Statuses, LeaseOrNone
  <2>2. call[c].todo \ {call[c].item} \in SUBSET Items
    BY DEF TypeOK, Call
  <2>3. call' \in [Callers -> Call]
    BY <1>5, <2>2, OnRowsType, RunType, ReturnType DEF RequeueWrite
  <2> QED
    BY <1>5, <2>1, <2>3 DEF RequeueWrite, TypeOK
<1> QED
  BY <1>1, <1>2, <1>3, <1>4, <1>5 DEF RequeueExpired, RequeueStep

\* Each statement of linking a commit keeps the types.
LEMMA CommitType ==
  ASSUME TypeOK, NEW c \in Callers, LinkCommit(c) PROVE TypeOK'
<1> USE DEF TokenOrNone
<1>1. call[c].todo \in SUBSET Items
  BY DEF TypeOK, Call
<1>2. ASSUME NEW S \in SUBSET Items, CommitStart(c, S) PROVE TypeOK'
  BY <1>2, OnRowsType, RunType DEF CommitStart, TypeOK
<1>3. CASE CommitWrite(c)
  <2>1. PICK i \in call[c].todo :
          /\ rows' = IF rows[i].status = Missing THEN rows
                     ELSE [rows EXCEPT ![i].status = "committed"]
          /\ Run(c, OnRows("lc_release", i, NoToken, call[c].todo))
    BY <1>3 DEF CommitWrite
  <2>2. rows' \in [Items -> Row]
    BY <2>1 DEF TypeOK, Row, Statuses
  <2>3. call' \in [Callers -> Call]
    BY <1>1, <2>1, OnRowsType, RunType
  <2> QED
    BY <1>3, <2>2, <2>3 DEF CommitWrite, TypeOK
<1>4. CASE CommitRelease(c)
  <2>1. call[c].todo \ {call[c].item} \in SUBSET Items
    BY <1>1
  <2>2. call' \in [Callers -> Call]
    BY <1>4, <2>1, OnRowsType, RunType, ReturnType DEF CommitRelease
  <2> QED
    BY <1>4, <2>2, ReleasedType DEF CommitRelease, TypeOK
<1> QED
  BY <1>2, <1>3, <1>4 DEF LinkCommit

\* Reserving and releasing a zone keep the types.
LEMMA ReserveType ==
  ASSUME TypeOK, NEW c \in Callers, Reserve(c) PROVE TypeOK'
<1>1. ASSUME NEW z \in Zones, NEW i \in Items \cup {NoItem}, NEW len \in Leases,
             ReserveStart(c, z, i, len)
      PROVE  TypeOK'
  <2> DEFINE t == IF i = NoItem THEN NewToken ELSE rows[i].token
  <2>1. t \in TokenOrNone
    BY <1>1, NewTokenType DEF ReserveStart, TypeOK, Row, TokenOrNone
  <2>2. OnZone(z, i, t, len) \in Call
    BY <2>1, LeasesAssumption DEF OnZone, Call, Statuses, LeaseOrNone
  <2> QED
    BY <1>1, <2>2, RunType DEF ReserveStart, TypeOK
<1>2. CASE ReserveInsert(c)
  <2>1. locks' \in [Zones -> Lock]
    BY <1>2 DEF ReserveInsert, TypeOK, Lock, Call
  <2> QED
    BY <1>2, <2>1, ReturnType DEF ReserveInsert, TypeOK
<1> QED
  BY <1>1, <1>2 DEF Reserve

\* Seeding rows and editing prerequisites keep the types.
LEMMA EditType == TypeOK /\ Edit => TypeOK'
<1> SUFFICES ASSUME TypeOK, Edit PROVE TypeOK'
  OBVIOUS
<1>1. ASSUME NEW z \in Zones, ReleaseZone(z) PROVE TypeOK'
  BY <1>1 DEF ReleaseZone, TypeOK, Lock, Free, TokenOrNone, LeaseOrNone
<1>2. ASSUME NEW i \in Items, NEW s \in Asked, NEW zs \in ZoneSets, UpsertItem(i, s, zs)
      PROVE  TypeOK'
  BY <1>2, AskedAssumption, ZonesAssumption DEF UpsertItem, TypeOK, Row
<1>3. ASSUME NEW i \in Items, NEW j \in Items,
             UpsertDependency(i, j) \/ DeleteDependency(i, j)
      PROVE  TypeOK'
  BY <1>3 DEF UpsertDependency, DeleteDependency, TypeOK
<1> QED
  BY <1>1, <1>2, <1>3 DEF Edit

\* The time that a lease has left never runs below zero.
LEMMA LessType == ASSUME NEW n \in LeaseOrNone PROVE Less(n) \in LeaseOrNone
  BY DEF Less, LeaseOrNone, NoLease

\* The clock keeps the types.
LEMMA TickType == TypeOK /\ Tick => TypeOK'
<1> SUFFICES ASSUME TypeOK, Tick PROVE TypeOK'
  OBVIOUS
<1>1. rows' \in [Items -> Row]
  BY LessType DEF Tick, TypeOK, Row
<1>2. locks' \in [Zones -> Lock]
  BY LessType DEF Tick, TypeOK, Lock
<1>3. call' \in [Callers -> Call]
  <2>1. ASSUME NEW c \in Callers
        PROVE  [call[c] EXCEPT !.lease = Less(call[c].lease)] \in Call
    <3>1. call[c] \in Call /\ Less(call[c].lease) \in LeaseOrNone
      BY LessType DEF TypeOK, Call
    <3> QED
      BY <3>1 DEF Call
  <2> QED
    BY <2>1 DEF Tick
<1> QED
  BY <1>1, <1>2, <1>3 DEF Tick, TypeOK

\* A call that dies keeps the types.
LEMMA AbandonType ==
  ASSUME TypeOK, NEW c \in Callers, Abandon(c) PROVE TypeOK'
  BY ReturnType DEF Abandon, TypeOK

\* Every step keeps the types.
LEMMA NextType == TypeOK /\ [Next]_vars => TypeOK'
<1> SUFFICES ASSUME TypeOK, [Next]_vars PROVE TypeOK'
  OBVIOUS
<1>1. CASE UNCHANGED vars
  BY <1>1 DEF vars, TypeOK
<1>2. CASE LoopNext
  BY <1>2, ClaimType, HeartbeatType, UpdateType, CommitType, RequeueType, AbandonType,
     TickType DEF LoopNext
<1>3. ASSUME NEW c \in Callers, Reserve(c) \/ \E i \in Items : RequeueStart(c, i)
      PROVE  TypeOK'
  BY <1>3, ReserveType, RequeueType
<1>4. CASE Edit
  BY <1>4, EditType
<1> QED
  BY <1>1, <1>2, <1>3, <1>4 DEF Next

\* The tables keep their shape whatever the clients do: statuses the code
\* knows, leases that never run below zero, one lock per zone.
THEOREM TypeCorrect == Spec => []TypeOK
<1> QED
  BY InitType, NextType, PTL DEF Spec

\* A claim takes a zone only when it is free or its lock has lapsed, and no
\* other tool moves a lock from one live token to another.
THEOREM LocksRespected == Spec => ClaimRespectsLocks
<1> DEFINE P == \A i \in Items, z \in Zones :
                    /\ Taken(z) /\ locks[z].lease > 0
                    /\ locks'[z].item = i /\ locks'[z].token # locks[z].token
                    => rows'[i] = rows[i]
<1>1. TypeOK /\ [Next]_vars => P
  <2> SUFFICES ASSUME TypeOK, [Next]_vars, NEW i \in Items, NEW z \in Zones,
                      Taken(z), locks[z].lease > 0,
                      locks'[z].item = i, locks'[z].token # locks[z].token
               PROVE  rows'[i] = rows[i]
    OBVIOUS
  <2> USE ItemsAssumption
  <2>1. ASSUME NEW j \in Items, NEW len \in Leases, ClaimItem(j, len)
        PROVE  rows'[i] = rows[i]
    <3>1. Swept[z] = locks[z]
      BY DEF Swept, TypeOK, Lock, LeaseOrNone
    <3>2. locks[z] # Free
      BY DEF Taken, Free
    <3>3. z \notin rows[j].zones
      BY <2>1, <3>1, <3>2 DEF ClaimItem, Unblocked, Window
    <3> QED
      BY <2>1, <3>1, <3>3 DEF ClaimItem
  <2>2. CASE UNCHANGED rows
    BY <2>2
  <2>3. CASE UNCHANGED locks
    BY <2>3
  <2>4. CASE Tick
    BY <2>4 DEF Tick, TypeOK, Lock
  <2> QED
    BY <2>1, <2>2, <2>3, <2>4
    DEF Next, LoopNext, Claim, ClaimNothing, Heartbeat, UpdateStatus, LinkCommit,
        RequeueExpired, RequeueStep, Reserve, Edit, vars, HeartbeatStart,
        HeartbeatItem, HeartbeatLocks, UpdateStart, UpdateWrite, UpdateRelease,
        RequeueStart, RequeueExpiredStart, RequeueRead, RequeueRelease, RequeueWrite,
        CommitStart, CommitWrite, CommitRelease, ReserveStart, ReserveInsert,
        ReleaseZone, UpsertItem, UpsertDependency, DeleteDependency, Abandon
<1> QED
  BY <1>1, TypeCorrect, PTL DEF Spec, ClaimRespectsLocks

-----------------------------------------------------------------------------
(* The ledger under the clients' rules: frames shared by the steps *)

CallOK(c) == HeartbeatOK(c) /\ UpdateOK(c) /\ ReleaseOK(c) /\ RequeueOK(c)

\* What every step but a claim does: no row comes to life, a live row keeps its
\* zones and its token, a finished row stays finished.
Keeps == \A i \in Items :
    /\ Live(i)' => Live(i) /\ rows'[i].zones = rows[i].zones
    /\ Live(i) => rows'[i].token = rows[i].token
    /\ Done(i) => Done(i)'

\* Only client c's call moves.
Only(c) == \A d \in Callers : d # c => call'[d] = call[d]

\* The rules of a ruled step are those of the ledger's own steps.
LEMMA RuledIsNext == [RuledNext]_vars => [Next]_vars
  BY DEF RuledNext, RuledClaim, RuledHeartbeat, RuledUpdate, RuledRequeue, RuledCommit,
     RuledReserve, RuledEdit, RuledTick, RuledAbandon, Next, LoopNext, Claim, Heartbeat,
     UpdateStatus, RequeueExpired, LinkCommit, Reserve, Edit

\* Calls on rows that a step leaves alone can still rely on them.
LEMMA OthersOK ==
  ASSUME TypeOK, Serial, InFlight, NEW c \in Callers, Only(c),
         \A i \in Items : rows'[i] = rows[i] \/ Busy(c, i), CallOK(c)'
  PROVE  InFlight'
<1> SUFFICES ASSUME NEW d \in Callers, d # c PROVE CallOK(d)'
  BY DEF InFlight, CallOK
<1>1. call'[d] = call[d] /\ CallOK(d) /\ call[d].todo \subseteq Items
  BY DEF Only, InFlight, CallOK, TypeOK, Call
<1>2. \A i \in Items : Busy(d, i) => rows'[i] = rows[i]
  BY DEF Serial
<1>3. call[d].item \in Items => rows'[call[d].item] = rows[call[d].item]
  BY <1>2 DEF Busy
<1>4. \A i \in call[d].todo : rows'[i] = rows[i]
  BY <1>1, <1>2 DEF Busy
<1>5. HeartbeatOK(d)'
  BY <1>1, <1>3 DEF CallOK, HeartbeatOK, Live
<1>6. UpdateOK(d)'
  BY <1>1, <1>3 DEF CallOK, UpdateOK, Done
<1>7. ReleaseOK(d)'
  BY <1>1, <1>3 DEF CallOK, ReleaseOK, Live
<1>8. RequeueOK(d)'
  BY <1>1, <1>4 DEF CallOK, RequeueOK, Live, Done
<1> QED
  BY <1>5, <1>6, <1>7, <1>8 DEF CallOK

\* The same for a step that moves no call.
LEMMA AllOK ==
  ASSUME TypeOK, InFlight, UNCHANGED call,
         \A i \in Items : rows'[i] = rows[i] \/ Quiet(i)
  PROVE  InFlight'
<1> SUFFICES ASSUME NEW d \in Callers PROVE CallOK(d)'
  BY DEF InFlight, CallOK
<1>1. CallOK(d) /\ call[d].todo \subseteq Items
  BY DEF InFlight, CallOK, TypeOK, Call
<1>2. call[d].item \in Items => rows'[call[d].item] = rows[call[d].item]
  BY DEF Quiet
<1>3. \A i \in call[d].todo : rows'[i] = rows[i]
  BY <1>1 DEF Quiet
<1>4. HeartbeatOK(d)'
  BY <1>1, <1>2 DEF CallOK, HeartbeatOK, Live
<1>5. UpdateOK(d)'
  BY <1>1, <1>2 DEF CallOK, UpdateOK, Done
<1>6. ReleaseOK(d)'
  BY <1>1, <1>2 DEF CallOK, ReleaseOK, Live
<1>7. RequeueOK(d)'
  BY <1>1, <1>3 DEF CallOK, RequeueOK, Live, Done
<1> QED
  BY <1>4, <1>5, <1>6, <1>7 DEF CallOK

\* A client may start on a row nobody works on, or stay on one of its own.
LEMMA SerialKept ==
  ASSUME Serial, NEW c \in Callers, Only(c),
         \A i \in Items : Busy(c, i)' => Busy(c, i) \/ Quiet(i)
  PROVE  Serial'
<1> SUFFICES ASSUME NEW d \in Callers, NEW e \in Callers, NEW i \in Items,
                    Busy(d, i)', Busy(e, i)', d # e
             PROVE  FALSE
  BY DEF Serial
<1>1. \A b \in Callers : b # c /\ Busy(b, i)' => Busy(b, i)
  BY DEF Only, Busy
<1>2. Quiet(i) => \A b \in Callers : ~Busy(b, i)
  BY DEF Quiet, Busy
<1> QED
  BY <1>1, <1>2 DEF Serial

\* Cover is kept when the leases of live rows and the locks of their zones are.
LEMMA CoveredKept ==
  ASSUME TypeOK, Covered, Keeps,
         \A i \in Items : Live(i)' => rows'[i].lease = rows[i].lease,
         \A i \in Items : Live(i) => \A z \in rows[i].zones : locks'[z] = locks[z],
         \A i \in Items : Renewing(i) => Renewing(i)'
  PROVE  Covered'
<1> SUFFICES ASSUME NEW i \in Items, Live(i)', NEW z \in rows'[i].zones
             PROVE  /\ locks'[z].item = i /\ locks'[z].token = rows'[i].token
                    /\ locks'[z].lease > 0
                    /\ ~Renewing(i)' => locks'[z].lease >= rows'[i].lease
  BY DEF Covered
<1>1. Live(i) /\ z \in rows[i].zones /\ rows'[i].token = rows[i].token
  BY DEF Keeps
<1> QED
  BY <1>1 DEF Covered

\* Order is kept when no prerequisite of a live row is added.
LEMMA InOrderKept ==
  ASSUME TypeOK, InOrder, Keeps,
         \A d \in deps' : d \in deps \/ (d \in Items \X Items /\ ~Live(d[1]))
  PROVE  InOrder'
<1> SUFFICES ASSUME NEW i \in Items, Live(i)', NEW d \in deps', d[1] = i
             PROVE  rows'[d[2]].status \in {"committed", "skipped"}
  BY DEF InOrder, DepsMet
<1>1. Live(i)
  BY DEF Keeps
<1>2. d \in deps /\ d[2] \in Items
  BY <1>1 DEF TypeOK
<1>3. Done(d[2])
  BY <1>1, <1>2 DEF InOrder, DepsMet, Done
<1> QED
  BY <1>2, <1>3 DEF Keeps, Done

\* A call that starts, moves on or ends without touching rows or locks.
LEMMA CallStep ==
  ASSUME IInv, NEW c \in Callers, Only(c), UNCHANGED <<rows, deps, locks>>,
         call[c].pc # "hb_locks", CallOK(c)',
         \A i \in Items : Busy(c, i)' => Busy(c, i) \/ Quiet(i)
  PROVE  Keeps /\ Covered' /\ InOrder' /\ Serial' /\ InFlight'
<1>1. Keeps
  BY DEF Keeps, Live, Done
<1>2. \A i \in Items : Renewing(i) => Renewing(i)'
  BY DEF Renewing, Only
<1>3. Covered'
  BY <1>1, <1>2, CoveredKept DEF IInv
<1>4. InOrder'
  BY <1>1, InOrderKept DEF IInv
<1>5. Serial'
  BY SerialKept DEF IInv
<1>6. InFlight'
  BY OthersOK DEF IInv
<1> QED
  BY <1>1, <1>3, <1>4, <1>5, <1>6

\* An idle call relies on nothing and works on nothing.
LEMMA ReturnOK ==
  ASSUME TypeOK, NEW c \in Callers, Return(c)
  PROVE  Only(c) /\ CallOK(c)' /\ \A i \in Items : ~Busy(c, i)'
<1>1. call'[c] = Idle /\ Only(c)
  BY DEF Return, Run, Only, TypeOK
<1>2. CallOK(c)'
  BY <1>1 DEF Idle, CallOK, HeartbeatOK, UpdateOK, ReleaseOK, RequeueOK
<1> QED
  BY <1>1, <1>2, ItemsAssumption DEF Busy, Idle

\* Going on to another statement changes nothing else of the call.
LEMMA GotoSame ==
  ASSUME TypeOK, NEW c \in Callers, NEW pc, Goto(c, pc)
  PROVE  /\ Only(c)
         /\ call'[c].pc = pc /\ call'[c].item = call[c].item
         /\ call'[c].token = call[c].token /\ call'[c].lease = call[c].lease
         /\ call'[c].todo = call[c].todo
  BY DEF TypeOK, Call, Goto, Only

\* A heartbeat under the rules keeps the inductive invariant.
LEMMA HeartbeatSound ==
  ASSUME IInv, NEW c \in Callers, RuledHeartbeat(c)
  PROVE  Keeps /\ Covered' /\ InOrder' /\ Serial' /\ InFlight'
<1> USE DEF IInv
<1>0. CallOK(c)
  BY DEF InFlight, CallOK
<1>1. ASSUME NEW i \in Items, NEW len \in Leases, Quiet(i), Live(i),
             HeartbeatStart(c, i, len)
      PROVE  Keeps /\ Covered' /\ InOrder' /\ Serial' /\ InFlight'
  <2>1. call'[c] = OnRow("hb_item", i, rows[i].token, len, "pending") /\ Only(c)
    BY <1>1 DEF HeartbeatStart, Run, Only, TypeOK
  <2>2. CallOK(c)'
    BY <1>1, <2>1, LeasesAssumption
    DEF OnRow, CallOK, HeartbeatOK, UpdateOK, ReleaseOK, RequeueOK, HeartbeatStart, Live
  <2>3. \A j \in Items : Busy(c, j)' => Quiet(j)
    BY <1>1, <2>1 DEF OnRow, Busy
  <2> QED
    BY <1>1, <2>1, <2>2, <2>3, CallStep DEF HeartbeatStart
<1>2. CASE HeartbeatItem(c) /\ ~HeartbeatMatches(c)
  BY <1>2, ReturnOK, CallStep DEF HeartbeatItem
<1>3. CASE HeartbeatItem(c) /\ HeartbeatMatches(c)
  <2>1. PICK i \in Items :
          /\ i = call[c].item /\ Live(i) /\ call[c].pc = "hb_item"
          /\ call[c].token = rows[i].token /\ call[c].lease > 0
    BY <1>0, <1>3 DEF CallOK, HeartbeatOK, HeartbeatItem
  <2>2. /\ rows' = [rows EXCEPT ![i].lease = call[c].lease]
        /\ call' = [call EXCEPT ![c].pc = "hb_locks"]
        /\ UNCHANGED <<deps, locks>>
    BY <1>3, <2>1 DEF HeartbeatItem, Goto
  <2>3. /\ rows'[i].lease = call[c].lease /\ rows'[i].status = rows[i].status
        /\ rows'[i].token = rows[i].token /\ rows'[i].zones = rows[i].zones
        /\ \A j \in Items : j # i => rows'[j] = rows[j]
    BY <2>1, <2>2 DEF TypeOK, Row
  <2>4. /\ call'[c].pc = "hb_locks" /\ call'[c].item = i /\ call'[c].token = call[c].token
        /\ call'[c].lease = call[c].lease /\ call'[c].todo = call[c].todo /\ Only(c)
    BY <2>1, <2>2, GotoSame DEF Goto
  <2>5. Live(i)'
    BY <2>1, <2>3 DEF Live
  <2>6. Keeps
    BY <2>1, <2>3 DEF Keeps, Live, Done
  <2>7. Covered'
    <3> SUFFICES ASSUME NEW j \in Items, Live(j)', NEW z \in rows'[j].zones
                 PROVE  /\ locks'[z].item = j /\ locks'[z].token = rows'[j].token
                        /\ locks'[z].lease > 0
                        /\ ~Renewing(j)' => locks'[z].lease >= rows'[j].lease
      BY DEF Covered
    <3>1. Live(j) /\ z \in rows[j].zones /\ rows'[j].token = rows[j].token
      BY <2>6 DEF Keeps
    <3>2. Renewing(i)'
      BY <2>4 DEF Renewing
    <3>3. Renewing(j) => Renewing(j)'
      BY <2>1, <2>4 DEF Renewing, Only
    <3> QED
      BY <2>2, <2>3, <3>1, <3>2, <3>3 DEF Covered
  <2>8. InOrder'
    BY <2>2, <2>6, InOrderKept
  <2>9. Serial'
    BY <2>1, <2>4, SerialKept DEF Busy
  <2>10. CallOK(c)'
    BY <2>1, <2>3, <2>4, <2>5 DEF CallOK, HeartbeatOK, UpdateOK, ReleaseOK, RequeueOK
  <2>11. InFlight'
    BY <2>1, <2>3, <2>4, <2>10, OthersOK DEF Busy
  <2> QED
    BY <2>6, <2>7, <2>8, <2>9, <2>11
<1>4. CASE HeartbeatLocks(c)
  <2>1. PICK i \in Items :
          /\ i = call[c].item /\ Live(i) /\ call[c].pc = "hb_locks"
          /\ call[c].token = rows[i].token /\ call[c].lease = rows[i].lease
    BY <1>0, <1>4 DEF CallOK, HeartbeatOK, HeartbeatLocks
  <2>2. /\ UNCHANGED <<rows, deps>>
        /\ Only(c) /\ CallOK(c)' /\ \A j \in Items : ~Busy(c, j)'
    BY <1>4, ReturnOK DEF HeartbeatLocks
  <2>3. \A z \in Zones :
          locks'[z] = IF locks[z].item = i /\ locks[z].token = call[c].token
                      THEN [locks[z] EXCEPT !.lease = call[c].lease] ELSE locks[z]
    BY <1>4, <2>1 DEF HeartbeatLocks
  <2>4. \A z \in Zones : locks[z].item # i => locks'[z] = locks[z]
    BY <2>3
  <2>5. \A z \in Zones : locks[z].item = i /\ locks[z].token = rows[i].token =>
          /\ locks'[z].item = i /\ locks'[z].token = rows[i].token
          /\ locks'[z].lease = rows[i].lease
    BY <2>1, <2>3 DEF TypeOK, Lock
  <2>6. Keeps
    BY <2>2 DEF Keeps, Live, Done
  <2>7. Covered'
    <3> SUFFICES ASSUME NEW j \in Items, Live(j), NEW z \in rows[j].zones
                 PROVE  /\ locks'[z].item = j /\ locks'[z].token = rows[j].token
                        /\ locks'[z].lease > 0
                        /\ ~Renewing(j)' => locks'[z].lease >= rows[j].lease
      BY <2>2 DEF Covered, Live
    <3>1. z \in Zones
      BY DEF TypeOK, Row
    <3>2. CASE j = i
      BY <2>5, <3>1, <3>2 DEF Covered, Live, TypeOK, Row, LeaseOrNone, NoLease
    <3>3. CASE j # i
      <4>1. Renewing(j) => Renewing(j)'
        BY <2>1, <2>2, <3>3 DEF Renewing, Only
      <4> QED
        BY <2>4, <3>1, <3>3, <4>1 DEF Covered
    <3> QED
      BY <3>2, <3>3
  <2>8. InOrder'
    BY <2>2, <2>6, InOrderKept
  <2>9. Serial'
    BY <2>2, SerialKept
  <2>10. InFlight'
    BY <2>2, OthersOK
  <2> QED
    BY <2>6, <2>7, <2>8, <2>9, <2>10
<1> QED
  BY <1>1, <1>2, <1>3, <1>4 DEF RuledHeartbeat

\* Releasing the locks of a row without a live claim uncovers no live claim.
LEMMA ReleasedKeepsCover ==
  ASSUME TypeOK, Covered, NEW i \in Items, ~Live(i), NEW t, locks' = Released(i, t)
  PROVE  \A j \in Items : Live(j) => \A z \in rows[j].zones : locks'[z] = locks[z]
  BY DEF Covered, Released, TypeOK, Row

\* A release: rows stay, only locks of a row without a live claim go.
LEMMA ReleaseStep ==
  ASSUME IInv, NEW c \in Callers, Only(c), UNCHANGED <<rows, deps>>,
         NEW i \in Items, ~Live(i), NEW t, locks' = Released(i, t),
         call[c].pc # "hb_locks", CallOK(c)',
         \A j \in Items : Busy(c, j)' => Busy(c, j)
  PROVE  Keeps /\ Covered' /\ InOrder' /\ Serial' /\ InFlight'
<1> USE DEF IInv
<1>1. Keeps
  BY DEF Keeps, Live, Done
<1>2. \A j \in Items : Renewing(j) => Renewing(j)'
  BY DEF Renewing, Only
<1>3. Covered'
  BY <1>1, <1>2, ReleasedKeepsCover, CoveredKept
<1>4. InOrder'
  BY <1>1, InOrderKept
<1>5. Serial'
  BY SerialKept
<1>6. InFlight'
  BY OthersOK
<1> QED
  BY <1>1, <1>3, <1>4, <1>5, <1>6

\* A write of client c to the one row i it works on, which brings no row to
\* life and leaves the leases and the locks alone.
LEMMA WriteStep ==
  ASSUME IInv, NEW c \in Callers, Only(c), UNCHANGED <<deps, locks>>, Keeps,
         NEW i \in Items, Busy(c, i),
         \A j \in Items : j # i => rows'[j] = rows[j],
         Live(i)' => rows'[i].lease = rows[i].lease,
         call[c].pc # "hb_locks", CallOK(c)',
         \A j \in Items : Busy(c, j)' => Busy(c, j)
  PROVE  Covered' /\ InOrder' /\ Serial' /\ InFlight'
<1> USE DEF IInv
<1>1. \A j \in Items : Renewing(j) => Renewing(j)'
  BY DEF Renewing, Only
<1>2. Covered'
  BY <1>1, CoveredKept
<1>3. InOrder'
  BY InOrderKept
<1>4. Serial'
  BY SerialKept
<1>5. InFlight'
  BY OthersOK
<1> QED
  BY <1>2, <1>3, <1>4, <1>5

\* A status change under the rules keeps the inductive invariant.
LEMMA UpdateSound ==
  ASSUME IInv, NEW c \in Callers, RuledUpdate(c)
  PROVE  Keeps /\ Covered' /\ InOrder' /\ Serial' /\ InFlight'
<1> USE DEF IInv
<1>0. CallOK(c)
  BY DEF InFlight, CallOK
<1>1. ASSUME NEW i \in Items, NEW s \in Asked, NEW t \in TokenOrNone, Quiet(i), ~Done(i),
             s \in Active => rows[i].status \in Active, UpdateStart(c, i, s, t)
      PROVE  Keeps /\ Covered' /\ InOrder' /\ Serial' /\ InFlight'
  <2>1. call'[c] = OnRow("up_write", i, t, NoLease, s) /\ Only(c)
    BY <1>1 DEF UpdateStart, Run, Only, TypeOK
  <2>2. CallOK(c)'
    BY <1>1, <2>1
    DEF OnRow, CallOK, HeartbeatOK, UpdateOK, ReleaseOK, RequeueOK, UpdateStart, Done
  <2>3. \A j \in Items : Busy(c, j)' => Quiet(j)
    BY <1>1, <2>1 DEF OnRow, Busy
  <2> QED
    BY <1>1, <2>1, <2>2, <2>3, CallStep DEF UpdateStart
<1>2. CASE UpdateWrite(c)
  <2>1. PICK i \in Items :
          /\ i = call[c].item /\ ~Done(i) /\ call[c].pc = "up_write"
          /\ call[c].status \in Active => rows[i].status \in Active
    BY <1>0, <1>2 DEF CallOK, UpdateOK, UpdateWrite
  <2>2. /\ rows' = IF rows[i].status = Missing THEN rows
                    ELSE [rows EXCEPT ![i].status = call[c].status]
        /\ UNCHANGED <<deps, locks>>
    BY <1>2, <2>1 DEF UpdateWrite
  <2>3. /\ \A j \in Items : j # i => rows'[j] = rows[j]
        /\ rows'[i].token = rows[i].token /\ rows'[i].lease = rows[i].lease
        /\ rows'[i].zones = rows[i].zones
        /\ \/ rows'[i].status = call[c].status
           \/ rows[i].status = Missing /\ rows'[i].status = Missing
    BY <2>2 DEF TypeOK, Row
  <2>4. Keeps
    BY <2>1, <2>3 DEF Keeps, Live, Done, Active, Missing
  <2>5. Only(c) /\ CallOK(c)' /\ \A j \in Items : Busy(c, j)' => Busy(c, j)
    <3>1. CASE call[c].status \in Releasing
      <4>1. Goto(c, "up_release")
        BY <1>2, <3>1 DEF UpdateWrite
      <4>2. ~Live(i)'
        BY <2>3, <3>1 DEF Live, Active, Releasing, Missing
      <4>3. /\ Only(c) /\ call'[c].pc = "up_release" /\ call'[c].item = i
            /\ call'[c].todo = call[c].todo
        BY <2>1, <4>1, GotoSame
      <4> QED
        BY <2>1, <4>2, <4>3
        DEF CallOK, HeartbeatOK, UpdateOK, ReleaseOK, RequeueOK, Busy
    <3>2. CASE call[c].status \notin Releasing
      BY <1>2, <3>2, ReturnOK DEF UpdateWrite
    <3> QED
      BY <3>1, <3>2
  <2> QED
    BY <2>1, <2>2, <2>3, <2>4, <2>5, WriteStep DEF Busy
<1>3. CASE UpdateRelease(c)
  <2>1. PICK i \in Items : i = call[c].item /\ ~Live(i) /\ call[c].pc = "up_release"
    BY <1>0, <1>3 DEF CallOK, ReleaseOK, UpdateRelease
  <2> QED
    BY <1>3, <2>1, ReturnOK, ReleaseStep DEF UpdateRelease
<1> QED
  BY <1>1, <1>2, <1>3 DEF RuledUpdate

\* What a loop's record says of the rows it works on.
LEMMA OnRowsBusy ==
  ASSUME TypeOK, NEW c \in Callers, NEW pc, NEW i \in Items \cup {NoItem}, NEW t,
         NEW S \in SUBSET Items, i \in S \/ i = NoItem, Run(c, OnRows(pc, i, t, S))
  PROVE  /\ Only(c) /\ call'[c].pc = pc /\ call'[c].item = i /\ call'[c].todo = S
         /\ \A j \in Items : Busy(c, j)' => j \in S
  BY ItemsAssumption DEF Run, OnRows, Only, Busy, TypeOK

\* A requeue under the rules keeps the inductive invariant.
LEMMA RequeueSound ==
  ASSUME IInv, NEW c \in Callers, RuledRequeue(c)
  PROVE  Keeps /\ Covered' /\ InOrder' /\ Serial' /\ InFlight'
<1> USE DEF IInv
<1>0. CallOK(c) /\ call[c].todo \in SUBSET Items
  BY DEF InFlight, CallOK, TypeOK, Call
<1>1. ASSUME NEW S \in SUBSET Items, \A i \in S : Quiet(i) /\ ~Live(i) /\ ~Done(i),
             call[c].pc = "idle", Run(c, OnRows("rq_read", NoItem, NoToken, S)),
             UNCHANGED <<rows, deps, locks>>
      PROVE  Keeps /\ Covered' /\ InOrder' /\ Serial' /\ InFlight'
  <2>1. /\ Only(c) /\ call'[c].pc = "rq_read" /\ call'[c].todo = S
        /\ \A j \in Items : Busy(c, j)' => j \in S
    BY <1>1, OnRowsBusy
  <2>2. CallOK(c)'
    BY <1>1, <2>1 DEF CallOK, HeartbeatOK, UpdateOK, ReleaseOK, RequeueOK, Live, Done
  <2> QED
    BY <1>1, <2>1, <2>2, CallStep
<1>2. ASSUME NEW i \in Items, Quiet(i), ~Live(i), ~Done(i), RequeueStart(c, i)
      PROVE  Keeps /\ Covered' /\ InOrder' /\ Serial' /\ InFlight'
  BY <1>1, <1>2 DEF RequeueStart
<1>3. CASE (\A i \in Items : Expired(i) => Quiet(i)) /\ RequeueExpiredStart(c)
  <2>1. \A i \in {j \in Items : Expired(j)} : Quiet(i) /\ ~Live(i) /\ ~Done(i)
    BY <1>3 DEF Expired, Live, Done
  <2> QED
    BY <1>1, <1>3, <2>1 DEF RequeueExpiredStart
<1>4. CASE RequeueRead(c)
  <2>1. PICK i \in call[c].todo :
          IF rows[i].status = Missing THEN Return(c)
          ELSE Run(c, OnRows("rq_release", i, rows[i].token, call[c].todo))
    BY <1>4 DEF RequeueRead
  <2>2. /\ call[c].pc = "rq_read" /\ UNCHANGED <<rows, deps, locks>>
        /\ \A j \in call[c].todo : ~Live(j) /\ ~Done(j)
    BY <1>0, <1>4 DEF RequeueRead, CallOK, RequeueOK
  <2>3. CASE rows[i].status = Missing
    BY <2>1, <2>2, <2>3, ReturnOK, CallStep
  <2>4. CASE rows[i].status # Missing
    <3>1. /\ Only(c) /\ call'[c].pc = "rq_release" /\ call'[c].item = i
          /\ call'[c].todo = call[c].todo
          /\ \A j \in Items : Busy(c, j)' => j \in call[c].todo
      BY <1>0, <2>1, <2>4, OnRowsBusy
    <3>2. CallOK(c)'
      BY <1>0, <2>2, <3>1
      DEF CallOK, HeartbeatOK, UpdateOK, ReleaseOK, RequeueOK, Live, Done
    <3> QED
      BY <2>2, <3>1, <3>2, CallStep DEF Busy
  <2> QED
    BY <2>3, <2>4
<1>5. CASE RequeueRelease(c)
  <2>1. PICK i \in Items :
          /\ i = call[c].item /\ i \in call[c].todo /\ call[c].pc = "rq_release"
          /\ \A j \in call[c].todo : ~Live(j) /\ ~Done(j)
    BY <1>0, <1>5 DEF CallOK, ReleaseOK, RequeueOK, RequeueRelease
  <2>2. /\ Only(c) /\ call'[c].pc = "rq_write" /\ call'[c].item = call[c].item
        /\ call'[c].todo = call[c].todo
    BY <1>5, GotoSame DEF RequeueRelease
  <2>3. CallOK(c)'
    BY <1>0, <1>5, <2>1, <2>2
    DEF CallOK, HeartbeatOK, UpdateOK, ReleaseOK, RequeueOK, Live, Done, RequeueRelease
  <2> QED
    BY <1>5, <2>1, <2>2, <2>3, ReleaseStep DEF RequeueRelease, Busy
<1>6. CASE RequeueWrite(c)
  <2>1. PICK i \in Items :
          /\ i = call[c].item /\ i \in call[c].todo /\ call[c].pc = "rq_write"
          /\ \A j \in call[c].todo : ~Live(j) /\ ~Done(j)
    BY <1>0, <1>6 DEF CallOK, ReleaseOK, RequeueOK, RequeueWrite
  <2>2. rows' = WithClaim(i, "pending", NoToken, NoLease) /\ UNCHANGED <<deps, locks>>
    BY <1>6, <2>1 DEF RequeueWrite
  <2>3. /\ \A j \in Items : j # i => rows'[j] = rows[j]
        /\ ~Live(i)'
    BY <2>2 DEF WithClaim, Live, TypeOK
  <2>4. Keeps
    BY <2>1, <2>3 DEF Keeps, Live, Done
  <2>5. Only(c) /\ CallOK(c)' /\ \A j \in Items : Busy(c, j)' => Busy(c, j)
    <3>0. PICK rest : rest = call[c].todo \ {call[c].item} /\ rest \in SUBSET Items
      BY <1>0
    <3>1. CASE rest = {}
      BY <1>6, <3>0, <3>1, ReturnOK DEF RequeueWrite
    <3>2. CASE rest # {}
      <4>1. Run(c, OnRows("rq_read", NoItem, NoToken, rest))
        BY <1>6, <3>0, <3>2 DEF RequeueWrite
      <4>2. /\ Only(c) /\ call'[c].pc = "rq_read" /\ call'[c].todo = rest
            /\ \A j \in Items : Busy(c, j)' => j \in rest
        BY <3>0, <4>1, ItemsAssumption DEF Run, OnRows, Only, Busy, TypeOK
      <4>3. \A j \in rest : rows'[j] = rows[j]
        BY <2>1, <2>3, <3>0
      <4>4. \A j \in rest : ~Live(j)' /\ ~Done(j)'
        BY <2>1, <3>0, <4>3 DEF Live, Done
      <4> QED
        BY <3>0, <4>2, <4>4 DEF CallOK, HeartbeatOK, UpdateOK, ReleaseOK, RequeueOK, Busy
    <3> QED
      BY <3>1, <3>2
  <2> QED
    BY <2>1, <2>2, <2>3, <2>4, <2>5, WriteStep DEF Busy
<1> QED
  BY <1>2, <1>3, <1>4, <1>5, <1>6 DEF RuledRequeue, RequeueStep

\* Linking a commit under the rules keeps the inductive invariant.
LEMMA CommitSound ==
  ASSUME IInv, NEW c \in Callers, RuledCommit(c)
  PROVE  Keeps /\ Covered' /\ InOrder' /\ Serial' /\ InFlight'
<1> USE DEF IInv
<1>0. CallOK(c) /\ call[c].todo \in SUBSET Items
  BY DEF InFlight, CallOK, TypeOK, Call
<1>1. ASSUME NEW S \in SUBSET Items, \A i \in S : Quiet(i), CommitStart(c, S)
      PROVE  Keeps /\ Covered' /\ InOrder' /\ Serial' /\ InFlight'
  <2>1. /\ Only(c) /\ call'[c].pc = "lc_write"
        /\ \A j \in Items : Busy(c, j)' => j \in S
    BY <1>1, OnRowsBusy DEF CommitStart
  <2>2. CallOK(c)'
    BY <2>1 DEF CallOK, HeartbeatOK, UpdateOK, ReleaseOK, RequeueOK
  <2> QED
    BY <1>1, <2>1, <2>2, CallStep DEF CommitStart
<1>2. CASE CommitWrite(c)
  <2>1. PICK i \in call[c].todo :
          /\ rows' = IF rows[i].status = Missing THEN rows
                     ELSE [rows EXCEPT ![i].status = "committed"]
          /\ Run(c, OnRows("lc_release", i, NoToken, call[c].todo))
    BY <1>2 DEF CommitWrite
  <2>2. i \in Items /\ call[c].pc = "lc_write" /\ UNCHANGED <<deps, locks>>
    BY <1>0, <1>2 DEF CommitWrite
  <2>3. /\ \A j \in Items : j # i => rows'[j] = rows[j]
        /\ rows'[i].token = rows[i].token /\ rows'[i].lease = rows[i].lease
        /\ rows'[i].zones = rows[i].zones
        /\ \/ rows'[i].status = "committed"
           \/ rows[i].status = Missing /\ rows'[i].status = Missing
    BY <2>1, <2>2 DEF TypeOK, Row
  <2>4. ~Live(i)'
    BY <2>3 DEF Live, Active, Missing
  <2>5. Keeps
    BY <2>3, <2>4 DEF Keeps, Live, Done, Missing
  <2>6. /\ Only(c) /\ call'[c].pc = "lc_release" /\ call'[c].item = i
        /\ call'[c].todo = call[c].todo
        /\ \A j \in Items : Busy(c, j)' => j \in call[c].todo
    BY <1>0, <2>1, <2>2, OnRowsBusy
  <2>7. CallOK(c)'
    BY <2>1, <2>2, <2>4, <2>6 DEF CallOK, HeartbeatOK, UpdateOK, ReleaseOK, RequeueOK
  <2> QED
    BY <2>1, <2>2, <2>3, <2>4, <2>5, <2>6, <2>7, WriteStep DEF Busy
<1>3. CASE CommitRelease(c)
  <2>1. PICK i \in Items :
          /\ i = call[c].item /\ i \in call[c].todo /\ ~Live(i)
          /\ call[c].pc = "lc_release"
    BY <1>0, <1>3 DEF CallOK, ReleaseOK, CommitRelease
  <2>2. Only(c) /\ CallOK(c)' /\ \A j \in Items : Busy(c, j)' => Busy(c, j)
    <3>0. PICK rest : rest = call[c].todo \ {call[c].item} /\ rest \in SUBSET Items
      BY <1>0
    <3>1. CASE rest = {}
      BY <1>3, <3>0, <3>1, ReturnOK DEF CommitRelease
    <3>2. CASE rest # {}
      <4>1. Run(c, OnRows("lc_write", NoItem, NoToken, rest))
        BY <1>3, <3>0, <3>2 DEF CommitRelease
      <4>2. /\ Only(c) /\ call'[c].pc = "lc_write" /\ call'[c].todo = rest
            /\ \A j \in Items : Busy(c, j)' => j \in rest
        BY <3>0, <4>1, ItemsAssumption DEF Run, OnRows, Only, Busy, TypeOK
      <4> QED
        BY <3>0, <4>2 DEF CallOK, HeartbeatOK, UpdateOK, ReleaseOK, RequeueOK, Busy
    <3> QED
      BY <3>1, <3>2
  <2> QED
    BY <1>3, <2>1, <2>2, ReleaseStep DEF CommitRelease
<1> QED
  BY <1>1, <1>2, <1>3 DEF RuledCommit

\* A zone that a live claim needs is taken, so an insert that finds its zone
\* free disturbs no cover.
LEMMA CoveredIsTaken ==
  ASSUME TypeOK, Covered, NEW i \in Items, Live(i), NEW z \in rows[i].zones
  PROVE  Taken(z) /\ z \in Zones
  BY DEF Covered, Taken, Live, TypeOK, Row

\* A reservation under the rules keeps the inductive invariant.
LEMMA ReserveSound ==
  ASSUME IInv, NEW c \in Callers, RuledReserve(c)
  PROVE  Keeps /\ Covered' /\ InOrder' /\ Serial' /\ InFlight'
<1> USE DEF IInv
<1>1. ASSUME NEW z \in Zones, NEW i \in Items \cup {NoItem}, NEW len \in Leases,
             i # NoItem => Quiet(i), ReserveStart(c, z, i, len)
      PROVE  Keeps /\ Covered' /\ InOrder' /\ Serial' /\ InFlight'
  <2>1. /\ Only(c) /\ call'[c].pc = "rs_insert" /\ call'[c].item = i
        /\ call'[c].todo = {}
    BY <1>1 DEF ReserveStart, Run, OnZone, Only, TypeOK
  <2>2. CallOK(c)'
    BY <2>1 DEF CallOK, HeartbeatOK, UpdateOK, ReleaseOK, RequeueOK
  <2>3. \A j \in Items : Busy(c, j)' => Quiet(j)
    BY <1>1, <2>1, ItemsAssumption DEF Busy
  <2> QED
    BY <1>1, <2>1, <2>2, <2>3, CallStep DEF ReserveStart
<1>2. CASE ReserveInsert(c)
  <2>1. /\ Only(c) /\ CallOK(c)' /\ \A i \in Items : ~Busy(c, i)'
        /\ UNCHANGED <<rows, deps>> /\ call[c].pc = "rs_insert"
    BY <1>2, ReturnOK DEF ReserveInsert
  <2>2. \A z \in Zones : Taken(z) => locks'[z] = locks[z]
    BY <1>2 DEF ReserveInsert, TypeOK
  <2>3. Keeps
    BY <2>1 DEF Keeps, Live, Done
  <2>4. Covered'
    <3>1. \A i \in Items : Renewing(i) => Renewing(i)'
      BY <2>1 DEF Renewing, Only
    <3> QED
      BY <2>1, <2>2, <2>3, <3>1, CoveredIsTaken, CoveredKept
  <2>5. InOrder'
    BY <2>1, <2>3, InOrderKept
  <2>6. Serial'
    BY <2>1, SerialKept
  <2>7. InFlight'
    BY <2>1, OthersOK
  <2> QED
    BY <2>3, <2>4, <2>5, <2>6, <2>7
<1> QED
  BY <1>1, <1>2 DEF RuledReserve

\* An edit under the rules keeps the inductive invariant.
LEMMA EditSound ==
  ASSUME IInv, RuledEdit
  PROVE  Keeps /\ Covered' /\ InOrder' /\ Serial' /\ InFlight'
<1> USE DEF IInv
<1>0. UNCHANGED call
  BY DEF RuledEdit, ReleaseZone, UpsertItem, UpsertDependency, DeleteDependency
<1>1. Serial' /\ \A i \in Items : Renewing(i) => Renewing(i)'
  BY <1>0 DEF Serial, Busy, Renewing
<1>2. ASSUME NEW z \in Zones, \A i \in Items : Live(i) => z \notin rows[i].zones,
             ReleaseZone(z)
      PROVE  Keeps /\ Covered' /\ InOrder' /\ InFlight'
  <2>1. UNCHANGED <<rows, deps>> /\ \A y \in Zones : y # z => locks'[y] = locks[y]
    BY <1>2 DEF ReleaseZone, TypeOK
  <2>2. Keeps
    BY <2>1 DEF Keeps, Live, Done
  <2>3. Covered'
    BY <1>1, <1>2, <2>1, <2>2, CoveredIsTaken, CoveredKept
  <2>4. InOrder'
    BY <2>1, <2>2, InOrderKept
  <2>5. InFlight'
    BY <1>0, <2>1, AllOK
  <2> QED
    BY <2>2, <2>3, <2>4, <2>5
<1>3. ASSUME NEW i \in Items, NEW s \in Asked \ Active, NEW zs \in ZoneSets,
             Quiet(i), ~Live(i), ~Done(i), UpsertItem(i, s, zs)
      PROVE  Keeps /\ Covered' /\ InOrder' /\ InFlight'
  <2>1. /\ UNCHANGED <<deps, locks>> /\ \A j \in Items : j # i => rows'[j] = rows[j]
        /\ rows'[i].status = s
    BY <1>3 DEF UpsertItem, TypeOK
  <2>2. ~Live(i)'
    BY <2>1 DEF Live
  <2>3. Keeps
    BY <1>3, <2>1, <2>2 DEF Keeps, Live, Done
  <2>4. Covered'
    BY <1>1, <2>1, <2>2, <2>3, CoveredKept
  <2>5. InOrder'
    BY <2>1, <2>3, InOrderKept
  <2>6. InFlight'
    BY <1>0, <1>3, <2>1, AllOK
  <2> QED
    BY <2>3, <2>4, <2>5, <2>6
<1>4. ASSUME NEW i \in Items, NEW j \in Items,
             (~Live(i) /\ UpsertDependency(i, j)) \/ DeleteDependency(i, j)
      PROVE  Keeps /\ Covered' /\ InOrder' /\ InFlight'
  <2>1. /\ UNCHANGED <<rows, locks>>
        /\ \A d \in deps' : d \in deps \/ (d \in Items \X Items /\ ~Live(d[1]))
    BY <1>4 DEF UpsertDependency, DeleteDependency
  <2>2. Keeps
    BY <2>1 DEF Keeps, Live, Done
  <2>3. Covered'
    BY <1>1, <2>1, <2>2, CoveredKept
  <2>4. InOrder'
    BY <2>1, <2>2, InOrderKept
  <2>5. InFlight'
    BY <1>0, <2>1, AllOK
  <2> QED
    BY <2>2, <2>3, <2>4, <2>5
<1> QED
  BY <1>1, <1>2, <1>3, <1>4 DEF RuledEdit

\* The clock under the rules keeps the inductive invariant.
LEMMA TickSound ==
  ASSUME IInv, RuledTick
  PROVE  Keeps /\ Covered' /\ InOrder' /\ Serial' /\ InFlight'
<1> USE DEF IInv
<1>0. \A c \in Callers : call[c].pc \notin {"hb_item", "hb_locks"}
  BY DEF RuledTick
<1>1. /\ \A i \in Items : /\ rows'[i].status = rows[i].status
                         /\ rows'[i].token = rows[i].token
                         /\ rows'[i].zones = rows[i].zones
                         /\ rows'[i].lease = Less(rows[i].lease)
      /\ UNCHANGED deps
  BY DEF RuledTick, Tick, TypeOK, Row
<1>2. \A z \in Zones : /\ locks'[z].item = locks[z].item
                       /\ locks'[z].token = locks[z].token
                       /\ locks'[z].lease = Less(locks[z].lease)
  BY DEF RuledTick, Tick, TypeOK, Lock
<1>3. \A c \in Callers : /\ call'[c].pc = call[c].pc /\ call'[c].item = call[c].item
                         /\ call'[c].status = call[c].status
                         /\ call'[c].todo = call[c].todo /\ call[c].todo \subseteq Items
  BY DEF RuledTick, Tick, TypeOK, Call
<1>4. \A i \in Items : rows[i].lease \in LeaseOrNone
  BY DEF TypeOK, Row
<1>5. \A i \in Items : Live(i)' => Live(i)
  BY <1>1, <1>4 DEF Live, Less, LeaseOrNone, NoLease
<1>6. Keeps
  BY <1>1, <1>5 DEF Keeps, Done
<1>7. Covered'
  <2> SUFFICES ASSUME NEW i \in Items, Live(i)', NEW z \in rows'[i].zones
               PROVE  /\ locks'[z].item = i /\ locks'[z].token = rows'[i].token
                      /\ locks'[z].lease > 0
                      /\ ~Renewing(i)' => locks'[z].lease >= rows'[i].lease
    BY DEF Covered
  <2>1. Live(i) /\ z \in rows[i].zones /\ z \in Zones
    BY <1>1, <1>5 DEF TypeOK, Row
  <2>2. ~Renewing(i)
    BY <1>0 DEF Renewing
  <2>3. /\ locks[z].item = i /\ locks[z].token = rows[i].token
        /\ locks[z].lease >= rows[i].lease
    BY <2>1, <2>2 DEF Covered
  <2>4. rows'[i].lease > 0 /\ rows[i].lease \in Nat /\ locks[z].lease \in Nat
    BY <1>4, <2>1, <2>3 DEF Live, TypeOK, Lock, LeaseOrNone, NoLease
  <2>5. locks'[z].lease >= rows'[i].lease
    BY <1>1, <1>2, <2>1, <2>3, <2>4 DEF Less
  <2>6. locks'[z].lease > 0
    BY <1>1, <1>2, <2>1, <2>3, <2>4 DEF Less
  <2> QED
    BY <1>1, <1>2, <2>1, <2>3, <2>5, <2>6
<1>8. InOrder'
  BY <1>1, <1>6, InOrderKept
<1>9. Serial'
  BY <1>3 DEF Serial, Busy
<1>10. InFlight'
  <2> SUFFICES ASSUME NEW c \in Callers PROVE CallOK(c)'
    BY DEF InFlight, CallOK
  <2>1. CallOK(c)
    BY DEF InFlight, CallOK
  <2>2. \A i \in Items : (Done(i)' <=> Done(i)) /\ (~Live(i) => ~Live(i)')
    BY <1>1, <1>5 DEF Done
  <2>3. HeartbeatOK(c)'
    BY <1>0, <1>3 DEF HeartbeatOK
  <2>4. UpdateOK(c)'
    BY <1>1, <1>3, <2>1 DEF CallOK, UpdateOK, Done
  <2>5. call[c].item \in Items /\ ~Live(call[c].item) => ~Live(call[c].item)'
    BY <1>3, <2>2
  <2>6. ReleaseOK(c)'
    BY <1>3, <2>1, <2>5 DEF CallOK, ReleaseOK
  <2>7. RequeueOK(c)'
    BY <1>3, <2>1, <2>2 DEF CallOK, RequeueOK
  <2> QED
    BY <2>3, <2>4, <2>6, <2>7 DEF CallOK
<1> QED
  BY <1>6, <1>7, <1>8, <1>9, <1>10

\* A call that dies keeps the inductive invariant.
LEMMA AbandonSound ==
  ASSUME IInv, NEW c \in Callers, RuledAbandon(c)
  PROVE  Keeps /\ Covered' /\ InOrder' /\ Serial' /\ InFlight'
  BY ReturnOK, CallStep DEF IInv, RuledAbandon, Abandon

\* The steps that bring no row to life.
LEMMA UnclaimedSound ==
  ASSUME IInv, [RuledNext]_vars, ~RuledClaim
  PROVE  Keeps /\ Covered' /\ InOrder' /\ Serial' /\ InFlight'
<1>1. CASE UNCHANGED vars
  BY <1>1 DEF vars, IInv, Keeps, Covered, InOrder, Serial, InFlight, Live, Done, Renewing,
     DepsMet, Busy, HeartbeatOK, UpdateOK, ReleaseOK, RequeueOK
<1>2. CASE RuledNext
  BY <1>2, HeartbeatSound, UpdateSound, RequeueSound, CommitSound, ReserveSound,
     AbandonSound, EditSound, TickSound DEF RuledNext
<1> QED
  BY <1>1, <1>2

\* What a claim reads of a zone that a live claim covers: it is not free.
LEMMA SweptKeepsCover ==
  ASSUME TypeOK, Covered, NEW i \in Items, Live(i), NEW z \in rows[i].zones
  PROVE  Swept[z] = locks[z] /\ Swept[z] # Free /\ z \in Zones
<1>1. z \in Zones /\ Taken(z)
  BY CoveredIsTaken
<1>2. locks[z].lease > 0
  BY DEF Covered
<1>3. Swept[z] = locks[z]
  BY <1>1, <1>2 DEF Swept
<1>4. locks[z] # Free
  BY <1>1 DEF Taken, Free
<1> QED
  BY <1>1, <1>3, <1>4

\* A claim that finds a row keeps the inductive invariant.
LEMMA ClaimItemSound ==
  ASSUME IInv, NEW i \in Items, NEW len \in Leases, Quiet(i), ClaimItem(i, len)
  PROVE  /\ Covered' /\ InOrder' /\ Serial' /\ InFlight'
         /\ ~Live(i) /\ rows'[i].zones = rows[i].zones /\ Live(i)'
         /\ \A j \in Items : j # i => rows'[j] = rows[j]
         /\ \A j \in Items : j # i /\ Live(j) => rows[j].zones \cap rows[i].zones = {}
<1> USE DEF IInv
<1>1. /\ rows[i].status = "pending" /\ DepsMet(i) /\ \A z \in rows[i].zones : Swept[z] = Free
      /\ UNCHANGED <<deps, call>>
  BY DEF ClaimItem, Unblocked, Window, Ready
<1>2. NewToken # NoToken /\ len \in Nat /\ len > 0
  BY NewTokenType, TokensAssumption, LeasesAssumption DEF ClaimItem
<1>3. /\ rows'[i].status = "claimed" /\ rows'[i].token = NewToken /\ rows'[i].lease = len
      /\ rows'[i].zones = rows[i].zones
      /\ \A j \in Items : j # i => rows'[j] = rows[j]
  BY DEF ClaimItem, WithClaim, TypeOK
<1>4. \A z \in Zones : locks'[z] = IF z \in rows[i].zones
                                   THEN [item |-> i, token |-> NewToken, lease |-> len]
                                   ELSE Swept[z]
  BY DEF ClaimItem
<1>5. ~Live(i) /\ Live(i)'
  BY <1>1, <1>2, <1>3 DEF Live, Active
<1>6. \A j \in Items : j # i /\ Live(j) => rows[j].zones \cap rows[i].zones = {}
  BY <1>1, SweptKeepsCover
<1>7. Covered'
  <2> SUFFICES ASSUME NEW j \in Items, Live(j)', NEW z \in rows'[j].zones
               PROVE  /\ locks'[z].item = j /\ locks'[z].token = rows'[j].token
                      /\ locks'[z].lease > 0
                      /\ ~Renewing(j)' => locks'[z].lease >= rows'[j].lease
    BY DEF Covered
  <2>1. CASE j = i
    <3>1. z \in Zones
      BY <1>3, <2>1 DEF TypeOK, Row
    <3> QED
      BY <1>2, <1>3, <1>4, <2>1, <3>1
  <2>2. CASE j # i
    <3>1. Live(j) /\ rows'[j] = rows[j] /\ (Renewing(j) => Renewing(j)')
      BY <1>1, <1>3, <2>2 DEF Live, Renewing
    <3>2. locks'[z] = locks[z]
      BY <1>4, <1>6, <2>2, <3>1, SweptKeepsCover
    <3> QED
      BY <3>1, <3>2 DEF Covered
  <2> QED
    BY <2>1, <2>2
<1>8. InOrder'
  <2> SUFFICES ASSUME NEW j \in Items, Live(j)', NEW d \in deps, d[1] = j
               PROVE  rows'[d[2]].status \in {"committed", "skipped"}
    BY <1>1 DEF InOrder, DepsMet
  <2>1. d[2] \in Items /\ rows[d[2]].status \in {"committed", "skipped"}
    <3>1. DepsMet(j)
      BY <1>1, <1>3 DEF InOrder, Live
    <3> QED
      BY <3>1 DEF DepsMet, TypeOK
  <2> QED
    BY <1>1, <1>3, <2>1
<1>9. Serial'
  BY <1>1 DEF Serial, Busy
<1>10. InFlight'
  BY <1>1, <1>3, AllOK
<1> QED
  BY <1>3, <1>5, <1>6, <1>7, <1>8, <1>9, <1>10

\* A claim that finds nothing keeps the inductive invariant.
LEMMA ClaimNothingSound ==
  ASSUME IInv, ClaimNothing
  PROVE  Keeps /\ Covered' /\ InOrder' /\ Serial' /\ InFlight'
<1> USE DEF IInv
<1>1. UNCHANGED <<rows, deps, call>> /\ locks' = Swept
  BY DEF ClaimNothing
<1>2. Keeps
  BY <1>1 DEF Keeps, Live, Done
<1>3. Covered'
  BY <1>1, <1>2, SweptKeepsCover, CoveredKept DEF Renewing
<1>4. InOrder'
  BY <1>1, <1>2, InOrderKept
<1>5. Serial' /\ InFlight'
  BY <1>1, AllOK DEF Serial, Busy
<1> QED
  BY <1>2, <1>3, <1>4, <1>5

\* The seeded ledger satisfies the inductive invariant.
LEMMA InitInv == Init => IInv
<1> SUFFICES ASSUME Init PROVE IInv
  OBVIOUS
<1>1. \A i \in Items : ~Live(i)
  BY DEF Init, Absent, Seeded, Live
<1>2. \A c \in Callers : call[c] = Idle
  BY DEF Init
<1>3. Covered /\ InOrder
  BY <1>1 DEF Covered, InOrder
<1>4. Serial
  BY <1>2, ItemsAssumption DEF Serial, Busy, Idle
<1>5. InFlight
  BY <1>2 DEF InFlight, HeartbeatOK, UpdateOK, ReleaseOK, RequeueOK, Idle
<1> QED
  BY <1>3, <1>4, <1>5, InitType DEF IInv

\* Every step under the rules keeps the inductive invariant.
LEMMA NextInv == IInv /\ [RuledNext]_vars => IInv'
<1> SUFFICES ASSUME IInv, [RuledNext]_vars PROVE IInv'
  OBVIOUS
<1>1. TypeOK'
  BY RuledIsNext, NextType DEF IInv
<1>2. CASE RuledClaim
  BY <1>1, <1>2, ClaimItemSound, ClaimNothingSound DEF RuledClaim, IInv
<1>3. CASE ~RuledClaim
  BY <1>1, <1>3, UnclaimedSound DEF IInv
<1> QED
  BY <1>2, <1>3

\* Under the clients' rules the inductive invariant holds: types, cover, order
\* and what the calls in flight rely on.
THEOREM Inductive == RuledSpec => []IInv
  BY InitInv, NextInv, PTL DEF RuledSpec

\* Every zone of a live claim is locked for it, under its token and for as long
\* as the claim itself, but for the moment between a heartbeat's two writes.
THEOREM CoveredAlways == RuledSpec => []Covered
<1>1. IInv => Covered
  BY DEF IInv
<1> QED
  BY <1>1, Inductive, PTL

\* No two live claims share a conflict zone: the claim's reason to exist.
THEOREM ExclusiveAlways == RuledSpec => []Exclusive
<1>1. IInv => Exclusive
  BY DEF IInv, Covered, Exclusive
<1> QED
  BY <1>1, Inductive, PTL

\* Work is only in progress after the work it depends on.
THEOREM InOrderAlways == RuledSpec => []InOrder
<1>1. IInv => InOrder
  BY DEF IInv
<1> QED
  BY <1>1, Inductive, PTL

\* No step, not even a sweep that chose its rows earlier, takes a live claim
\* away from its agent.
THEOREM NeverStolenAlways == RuledSpec => NeverStolen
<1> DEFINE P == \A i \in Items : Live(i) => rows'[i].token = rows[i].token
<1>1. IInv /\ [RuledNext]_vars => P
  <2> SUFFICES ASSUME IInv, [RuledNext]_vars PROVE P
    OBVIOUS
  <2>1. CASE RuledClaim
    BY <2>1, ClaimItemSound DEF RuledClaim, ClaimNothing
  <2>2. CASE ~RuledClaim
    BY <2>2, UnclaimedSound DEF Keeps
  <2> QED
    BY <2>1, <2>2
<1> QED
  BY <1>1, Inductive, PTL DEF RuledSpec, NeverStolen

-----------------------------------------------------------------------------
(* The ledger implements the lease service *)

\* A claim is a grant of all the row's zones, every other step drops the claims
\* it ends.
LEMMA StepRefines ==
  ASSUME IInv, [RuledNext]_vars
  PROVE  [Lease!Next]_([i \in Items |-> IF Live(i) THEN rows[i].zones ELSE {}])
<1> DEFINE h == [i \in Items |-> IF Live(i) THEN rows[i].zones ELSE {}]
<1>1. ASSUME NEW i \in Items, NEW len \in Leases, Quiet(i), ClaimItem(i, len)
      PROVE  \E S \in SUBSET Zones : Lease!Grant(i, S)
  <2>0. PICK S \in SUBSET Zones : S = rows[i].zones
    BY DEF IInv, TypeOK, Row
  <2>1. /\ ~Live(i) /\ rows'[i].zones = rows[i].zones /\ Live(i)'
        /\ \A j \in Items : j # i => rows'[j] = rows[j]
        /\ \A j \in Items : j # i /\ Live(j) => rows[j].zones \cap rows[i].zones = {}
    BY <1>1, ClaimItemSound
  <2>2. h[i] = {} /\ \A j \in Items : h[j] \cap S = {}
    BY <2>0, <2>1
  <2>3. h' = [h EXCEPT ![i] = S]
    BY <2>0, <2>1 DEF Live
  <2> QED
    BY <2>2, <2>3 DEF Lease!Grant
<1>2. ASSUME Keeps PROVE \E D \in SUBSET Items : Lease!Drop(D)
  <2> DEFINE D == {i \in Items : Live(i) /\ ~Live(i)'}
  <2>1. h' = [i \in Items |-> IF i \in D THEN {} ELSE h[i]]
    BY <1>2 DEF Keeps
  <2> QED
    BY <2>1 DEF Lease!Drop
<1>3. CASE RuledClaim
  <2>1. CASE ClaimNothing
    BY <1>2, <2>1, ClaimNothingSound DEF Lease!Next
  <2>2. ASSUME NEW i \in Items, NEW len \in Leases, Quiet(i), ClaimItem(i, len)
        PROVE  Lease!Next
    BY <1>1, <2>2 DEF Lease!Next
  <2> QED
    BY <1>3, <2>1, <2>2 DEF RuledClaim
<1>4. CASE ~RuledClaim
  BY <1>2, <1>4, UnclaimedSound DEF Lease!Next
<1> QED
  BY <1>3, <1>4

\* A ledger whose clients keep the rules behaves, seen through the zones of the
\* live claims, as a service that grants disjoint sets of zones all at once,
\* never changes a grant, and takes it back all at once.
THEOREM Refinement == RuledSpec => LeaseSpec
<1>1. Init => Lease!Init
  BY DEF Init, Absent, Seeded, Live, Lease!Init
<1> QED
  BY <1>1, StepRefines, Inductive, PTL DEF RuledSpec, LeaseSpec, Lease!Spec
=============================================================================
