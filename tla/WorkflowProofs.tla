--------------------------- MODULE WorkflowProofs ---------------------------
(***************************************************************************)
(* Theorems about the delivery workflow, for any number of work items,     *)
(* runs and crashes and any stages that need a review.                     *)
(*                                                                         *)
(* The first part proves type correctness for any number of servers.  The  *)
(* invariant is TypeInv, since a row keeps its type only when a request    *)
(* has the run and the stages that its statement uses.  The other parts    *)
(* are about one server: SafeInv, what its request knows of its run while  *)
(* it holds the mutex, carries OneActive and EndedIsFinal, and Backed with *)
(* Asks carries ReviewedPush.                                              *)
(***************************************************************************)
EXTENDS Workflow, TLAPS

\* Statements that have a run, a stage to go to, and an agent's stage.
HasRun == {"close", "capacity", "assign", "enter", "pend", "review", "unpend", "agent",
           "running", "push", "write", "settle", "gate", "mark", "end"}
HasTarget == {"enter", "pend", "unpend", "agent", "running", "push", "write", "settle",
              "gate"}
HasSource == {"agent", "running"}

\* A job whose parts are there when its statement uses them.
Placed == {j \in Job : /\ j.pc \in HasRun => j.run \in Runs
                       /\ j.pc \in HasTarget => j.to \in Stages
                       /\ j.pc \in HasSource => j.from \in Stages}

TypeInv == TypeOK /\ worker \in [Workers -> Placed]

-----------------------------------------------------------------------------
(* Stages *)

\* The next stage of a pipeline stage, and what a decision leads to, are stages.
LEMMA FollowsStages == Follows \subseteq Stages \X Stages
  BY DEF Follows, Stages

\* A decision is made at a gate and leads to a stage.
LEMMA DecisionStages == Decisions \subseteq Gates \X Stages
<1>1. /\ Pipeline[1] = "requirement_analysis" /\ Pipeline[4] = "coding"
      /\ Pipeline[13] = "push_preparation"
  BY DEF Pipeline
<1>2. {"requirement_analysis", "coding", "push_preparation"} \subseteq Stages
  BY <1>1 DEF Stages
<1> QED
  BY <1>2 DEF Decisions, Stages, Gates, Terminal

\* The stages that actions name, and the value that stands for none.
LEMMA NamedStages ==
    /\ "draft" \in Stages /\ Review \in Stages /\ "requirement_analysis" \in Stages
    /\ "failed" \in Stages /\ NoStage \notin Stages
<1>1. Pipeline[1] = "requirement_analysis"
  BY DEF Pipeline
<1> QED
  BY <1>1, NamesAssumption DEF Stages, Terminal, Review

-----------------------------------------------------------------------------
(* Steps of a request *)

\* A request whose parts are in place leaves the jobs in place.
LEMMA BeginPlaced ==
    ASSUME TypeInv, NEW s \in Workers, NEW pc, NEW r, NEW i, NEW from, NEW to, NEW nested,
           Begin(s, pc, r, i, from, to, nested),
           [pc |-> pc, item |-> i, run |-> r, from |-> from, to |-> to,
            nested |-> nested] \in Placed
    PROVE  worker' \in [Workers -> Placed]
  BY DEF TypeInv, Begin

\* A request that returns leaves the jobs in place.
LEMMA ReturnPlaced ==
    ASSUME TypeInv, NEW s \in Workers, Return(s)
    PROVE  worker' \in [Workers -> Placed]
<1>1. Idle \in Placed
  BY DEF Idle, Placed, Job, HasRun, HasTarget, HasSource
<1> QED
  BY <1>1 DEF TypeInv, Return

\* A statement may go to any other that needs no more than it has itself.
LEMMA GotoPlaced ==
    ASSUME TypeInv, NEW s \in Workers, NEW pc, Goto(s, pc),
           pc \in HasRun \cup {"idle", "find", "create"},
           pc \in HasRun => worker[s].pc \in HasRun,
           pc \in HasTarget => worker[s].pc \in HasTarget,
           pc \in HasSource => worker[s].pc \in HasSource
    PROVE  worker' \in [Workers -> Placed]
<1>1. worker[s] \in Placed
  BY DEF TypeInv
<1>2. [worker[s] EXCEPT !.pc = pc] \in Placed
  BY <1>1 DEF Placed, Job, HasRun
<1> QED
  BY <1>2 DEF TypeInv, Goto

\* An error leaves the jobs in place.
LEMMA FailPlaced ==
    ASSUME TypeInv, NEW s \in Workers, Fail(s), worker[s].pc \in HasRun
    PROVE  worker' \in [Workers -> Placed]
<1>1. CASE worker[s].nested
  BY <1>1, GotoPlaced DEF Fail, HasRun, HasTarget, HasSource
<1>2. CASE ~worker[s].nested
  BY <1>2, ReturnPlaced DEF Fail
<1> QED
  BY <1>1, <1>2

\* A request that turns to another transition leaves the jobs in place.
LEMMA MovePlaced ==
    ASSUME TypeInv, NEW s \in Workers, worker[s].pc \in HasRun,
           NEW pc \in HasRun, NEW from \in Stages \cup {NoStage},
           NEW to \in Stages \cup {NoStage}, NEW nested \in BOOLEAN,
           pc \in HasTarget => to \in Stages, pc \in HasSource => from \in Stages,
           Move(s, pc, from, to, nested)
    PROVE  worker' \in [Workers -> Placed]
<1>1. worker[s].run \in Runs /\ worker[s].item \in Items \cup {NoItem}
  BY DEF TypeInv, Placed, Job
<1>2. [pc |-> pc, item |-> worker[s].item, run |-> worker[s].run, from |-> from,
       to |-> to, nested |-> nested] \in Placed
  BY <1>1 DEF Placed, Job, HasRun
<1> QED
  BY <1>2, BeginPlaced DEF Move

-----------------------------------------------------------------------------
(* Writes to a run *)

\* A row stays one when a field gets a value of its type.
LEMMA FieldsTyped ==
    ASSUME NEW m \in RunRow
    PROVE  /\ \A v \in Stages : [m EXCEPT !.stage = v] \in RunRow
           /\ \A v \in {"running", "completed", "failed", "cancelled"} :
                 [m EXCEPT !.status = v] \in RunRow
           /\ \A v \in Stages \cup {NoStage} : [m EXCEPT !.pending = v] \in RunRow
           /\ \A v \in BOOLEAN : [m EXCEPT !.team = v] \in RunRow
           /\ \A v \in BOOLEAN : [m EXCEPT !.coord = v] \in RunRow
           /\ \A v \in BOOLEAN : [m EXCEPT !.reviewed = v] \in RunRow
           /\ \A v \in SUBSET Stages : [m EXCEPT !.failures = v] \in RunRow
  BY DEF RunRow

\* The run and the job of a request that has a run.
LEMMA MineTyped ==
    ASSUME TypeInv, NEW s \in Workers, worker[s].pc \in HasRun
    PROVE  /\ worker[s].run \in Runs
           /\ Mine(s) \in RunRow
           /\ \A c \in BOOLEAN : Owned(s, c) \in RunRow
<1>1. worker[s].run \in Runs
  BY DEF TypeInv, Placed
<1>2. Mine(s) \in RunRow
  BY <1>1 DEF TypeInv, TypeOK, Mine
<1> QED
  BY <1>1, <1>2, FieldsTyped DEF Owned

\* Every stage has a status that goes with it.
LEMMA StatusTyped ==
    \A st \in Stages : StatusOf(st) \in {"running", "completed", "failed", "cancelled"}
  BY DEF StatusOf, Terminal
-----------------------------------------------------------------------------
(* Type correctness, one lemma per action *)

\* The scan for orphaned reviews keeps the types.
LEMMA TypeStartScan ==
    ASSUME TypeInv, NEW s \in Workers, NEW i \in Items, StartScan(s, i)
    PROVE  TypeInv'
<1>1. worker' \in [Workers -> Placed]
  BY BeginPlaced DEF StartScan, Placed, Job, HasRun, HasTarget, HasSource
<1>2. \A r \in Runs : [runs[r] EXCEPT !.status = "failed"] \in RunRow
  BY FieldsTyped DEF TypeInv, TypeOK
<1>3. runs' \in [Runs -> RunRow]
  BY <1>2 DEF StartScan, TypeInv, TypeOK
<1> QED
  BY <1>1, <1>3 DEF StartScan, TypeInv, TypeOK, Placed

\* Finding and resuming an active run keeps the types.
LEMMA TypeStartFind ==
    ASSUME TypeInv, NEW s \in Workers, StartFind(s)
    PROVE  TypeInv'
<1>1. worker' \in [Workers -> Placed]
<2>1. worker[s].item \in Items \cup {NoItem}
  BY DEF TypeInv, TypeOK, Job
<2>2. CASE Goto(s, "create")
  BY <2>2, GotoPlaced DEF HasRun, HasTarget, HasSource
<2>3. ASSUME NEW r \in Found(worker[s].item), Resume(s, worker[s].item, r)
      PROVE  worker' \in [Workers -> Placed]
  <3>1. r \in Runs /\ runs[r].stage \in Stages
    BY DEF Found, TypeInv, TypeOK, RunRow
  <3>2. CASE Return(s)
    BY <3>2, ReturnPlaced
  <3>3. ASSUME NEW pc \in {"mark", "write", "close", "review", "enter"},
               NEW from \in Stages \cup {NoStage}, NEW to \in Stages \cup {NoStage},
               NEW nested \in BOOLEAN, pc \in HasTarget => to \in Stages,
               Begin(s, pc, r, worker[s].item, from, to, nested)
        PROVE  worker' \in [Workers -> Placed]
    BY <2>1, <3>1, <3>3, BeginPlaced DEF Placed, Job, HasSource
  <3> QED
    BY <2>3, <3>1, <3>2, <3>3, NamedStages DEF Resume, HasTarget
<2> QED
  BY <2>2, <2>3 DEF StartFind
<1> QED
  BY <1>1 DEF StartFind, TypeInv, TypeOK, Placed

\* Closing a review without a target keeps the types.
LEMMA TypeStartClose ==
    ASSUME TypeInv, NEW s \in Workers, StartClose(s)
    PROVE  TypeInv'
<1>1. worker' \in [Workers -> Placed]
  BY ReturnPlaced DEF StartClose
<1>2. [Mine(s) EXCEPT !.status = "failed"] \in RunRow
  BY MineTyped, FieldsTyped DEF StartClose, HasRun
<1>3. runs' \in [Runs -> RunRow]
  BY <1>2 DEF StartClose, Mine, TypeInv, TypeOK
<1> QED
  BY <1>1, <1>3 DEF StartClose, TypeInv, TypeOK, Placed

\* Creating a run keeps the types.
LEMMA TypeCreate ==
    ASSUME TypeInv, NEW s \in Workers, Create(s)
    PROVE  TypeInv'
<1>1. CASE Return(s) /\ UNCHANGED runs
  BY <1>1, ReturnPlaced DEF Create, TypeInv, TypeOK, Placed
<1>2. ASSUME NEW r \in Fresh, runs' = [runs EXCEPT ![r] = NewRow(worker[s].item, "running")],
             Begin(s, "capacity", r, worker[s].item, NoStage, NoStage, FALSE)
      PROVE  TypeInv'
  <2>1. worker[s].item \in Items \cup {NoItem} /\ r \in Runs
    BY DEF TypeInv, TypeOK, Job, Fresh
  <2>2. worker' \in [Workers -> Placed]
    BY <1>2, <2>1, BeginPlaced DEF Placed, Job, HasRun, HasTarget, HasSource
  <2>3. NewRow(worker[s].item, "running") \in RunRow
    BY <2>1, NamedStages DEF NewRow, RunRow
  <2>4. runs' \in [Runs -> RunRow]
    BY <1>2, <2>3 DEF TypeInv, TypeOK
  <2> QED
    BY <2>2, <2>4 DEF Create, TypeInv, TypeOK, Placed
<1> QED
  BY <1>1, <1>2 DEF Create
\* The capacity check keeps the types.
LEMMA TypeCapacity ==
    ASSUME TypeInv, NEW s \in Workers, Capacity(s)
    PROVE  TypeInv'
<1>1. worker' \in [Workers -> Placed]
  BY ReturnPlaced, GotoPlaced DEF Capacity, HasRun, HasTarget, HasSource
<1> QED
  BY <1>1 DEF Capacity, TypeInv, TypeOK, Placed

\* Assigning the team keeps the types.
LEMMA TypeAssign ==
    ASSUME TypeInv, NEW s \in Workers, Assign(s)
    PROVE  TypeInv'
<1>1. worker' \in [Workers -> Placed]
  BY MovePlaced, NamedStages DEF Assign, HasRun, HasTarget, HasSource
<1>2. Owned(s, coordinator) \in RunRow
  BY MineTyped DEF Assign, HasRun, TypeInv, TypeOK
<1>3. runs' \in [Runs -> RunRow]
  BY <1>2 DEF Assign, TypeInv, TypeOK
<1> QED
  BY <1>1, <1>3 DEF Assign, TypeInv, TypeOK, Placed

\* A decision at a gate keeps the types.
LEMMA TypeUserAction ==
    ASSUME TypeInv, NEW s \in Workers, NEW r \in Runs, NEW to, UserAction(s, r, to)
    PROVE  TypeInv'
<1>1. worker' \in [Workers -> Placed]
<2>1. to \in Stages /\ runs[r].stage \in Stages
  BY DecisionStages DEF UserAction, TypeInv, TypeOK, RunRow
<2>2. runs[r].item \in Items \cup {NoItem}
  BY DEF TypeInv, TypeOK, RunRow
<2> QED
  BY <2>1, <2>2, BeginPlaced DEF UserAction, Placed, Job, HasRun, HasTarget, HasSource
<1> QED
  BY <1>1 DEF UserAction, TypeInv, TypeOK, Placed

\* Writing the stage keeps the types.
LEMMA TypeWriteStage ==
    ASSUME TypeInv, NEW s \in Workers, WriteStage(s)
    PROVE  TypeInv'
<1>1. worker' \in [Workers -> Placed]
  BY GotoPlaced DEF WriteStage, HasRun, HasTarget, HasSource
<1>2. /\ worker[s].to \in Stages
      /\ \A v \in BOOLEAN :
            [[Mine(s) EXCEPT !.stage = worker[s].to] EXCEPT !.reviewed = v] \in RunRow
  BY MineTyped, FieldsTyped DEF WriteStage, HasRun, HasTarget, TypeInv, Placed
<1>3. runs' \in [Runs -> RunRow]
  BY <1>2, MineTyped DEF WriteStage, HasRun, TypeInv, TypeOK, RunRow
<1> QED
  BY <1>1, <1>3 DEF WriteStage, TypeInv, TypeOK, Placed

\* Writing the status keeps the types.
LEMMA TypeWriteStatus ==
    ASSUME TypeInv, NEW s \in Workers, WriteStatus(s)
    PROVE  TypeInv'
<1>1. worker' \in [Workers -> Placed]
<2>1. worker[s].pc \in HasRun \cap HasTarget
  BY DEF WriteStatus, HasRun, HasTarget
<2>2. CASE Return(s)
  BY <2>2, ReturnPlaced
<2>3. CASE Move(s, "review", NoStage, Review, TRUE)
  BY <2>1, <2>3, MovePlaced, NamedStages DEF HasRun, HasTarget, HasSource
<2>4. CASE Goto(s, "gate") \/ Goto(s, "enter")
  BY <2>1, <2>4, GotoPlaced DEF HasRun, HasTarget, HasSource
<2> QED
  BY <2>2, <2>3, <2>4 DEF WriteStatus
<1>2. [Mine(s) EXCEPT !.status = StatusOf(worker[s].to)] \in RunRow
  BY MineTyped, FieldsTyped, StatusTyped DEF WriteStatus, HasRun, HasTarget, TypeInv, Placed
<1>3. runs' \in [Runs -> RunRow]
  BY <1>2 DEF WriteStatus, Mine, TypeInv, TypeOK
<1> QED
  BY <1>1, <1>3 DEF WriteStatus, TypeInv, TypeOK, Placed

\* Reaching a gate keeps the types.
LEMMA TypeGate ==
    ASSUME TypeInv, NEW s \in Workers, Gate(s)
    PROVE  TypeInv'
<1>1. worker' \in [Workers -> Placed]
<2>1. CASE Return(s)
  BY <2>1, ReturnPlaced
<2>2. ASSUME NEW to \in Stages, Move(s, "write", worker[s].to, to, TRUE)
      PROVE  worker' \in [Workers -> Placed]
  <3>1. worker[s].pc \in HasRun /\ worker[s].to \in Stages
    BY DEF Gate, HasRun, HasTarget, TypeInv, Placed
  <3> QED
    BY <2>2, <3>1, MovePlaced DEF HasRun, HasTarget, HasSource
<2> QED
  BY <2>1, <2>2 DEF Gate
<1> QED
  BY <1>1 DEF Gate, TypeInv, TypeOK, Placed

\* A refusal by the repository guard keeps the types.
LEMMA TypeRefuse ==
    ASSUME TypeInv, NEW s \in Workers, Refuse(s)
    PROVE  TypeInv'
<1>1. worker' \in [Workers -> Placed]
  BY FailPlaced DEF Refuse, HasRun
<1> QED
  BY <1>1 DEF Refuse, TypeInv, TypeOK, Placed

\* Entering a stage keeps the types.
LEMMA TypeEnter ==
    ASSUME TypeInv, NEW s \in Workers, Enter(s)
    PROVE  TypeInv'
<1>1. worker' \in [Workers -> Placed]
<2>1. worker[s].pc \in HasRun \cap HasTarget /\ worker[s].to \in Stages
  BY DEF Enter, HasRun, HasTarget, TypeInv, Placed
<2>2. CASE Goto(s, "pend")
  BY <2>1, <2>2, GotoPlaced DEF HasRun, HasTarget, HasSource
<2>3. ASSUME NEW to \in Stages, Move(s, Body(worker[s].to), worker[s].to, to, TRUE)
      PROVE  worker' \in [Workers -> Placed]
  BY <2>1, <2>3, MovePlaced DEF Body, HasRun, HasTarget, HasSource
<2> QED
  BY <2>2, <2>3 DEF Enter
<1> QED
  BY <1>1 DEF Enter, TypeInv, TypeOK, Placed

\* Sending a stage to its review keeps the types.
LEMMA TypePend ==
    ASSUME TypeInv, NEW s \in Workers, Pend(s)
    PROVE  TypeInv'
<1>1. worker' \in [Workers -> Placed]
<2>1. worker[s].pc \in HasRun /\ worker[s].nested \in BOOLEAN
  BY DEF Pend, HasRun, TypeInv, TypeOK, Job
<2>2. CASE Fail(s)
  BY <2>1, <2>2, FailPlaced
<2>3. CASE Move(s, "write", Mine(s).stage, Review, worker[s].nested)
  <3>1. Mine(s).stage \in Stages
    BY <2>1, MineTyped DEF RunRow
  <3> QED
    BY <2>1, <2>3, <3>1, MovePlaced, NamedStages DEF HasRun, HasTarget, HasSource
<2> QED
  BY <2>2, <2>3 DEF Pend
<1>2. [Mine(s) EXCEPT !.pending = worker[s].to] \in RunRow
  BY MineTyped, FieldsTyped DEF Pend, HasRun, HasTarget, TypeInv, Placed
<1>3. runs' \in [Runs -> RunRow]
  BY <1>2 DEF Pend, Mine, TypeInv, TypeOK
<1> QED
  BY <1>1, <1>3 DEF Pend, TypeInv, TypeOK, Placed

\* Beginning a review keeps the types.
LEMMA TypeReviewRun ==
    ASSUME TypeInv, NEW s \in Workers, ReviewRun(s)
    PROVE  TypeInv'
<1>1. worker' \in [Workers -> Placed]
<2>1. worker[s].pc \in HasRun
  BY DEF ReviewRun, HasRun
<2>2. CASE Fail(s)
  BY <2>1, <2>2, FailPlaced
<2>3. ASSUME NEW pc \in {"agent", "unpend"}, Mine(s).pending # NoStage,
             Move(s, pc, Review, Mine(s).pending, TRUE)
      PROVE  worker' \in [Workers -> Placed]
  <3>1. Mine(s).pending \in Stages
    BY <2>1, <2>3, MineTyped DEF RunRow
  <3> QED
    BY <2>1, <2>3, <3>1, MovePlaced, NamedStages DEF HasRun, HasTarget, HasSource
<2> QED
  BY <2>2, <2>3 DEF ReviewRun
<1> QED
  BY <1>1 DEF ReviewRun, TypeInv, TypeOK, Placed

\* Releasing a stage from its review keeps the types.
LEMMA TypeUnpend ==
    ASSUME TypeInv, NEW s \in Workers, Unpend(s)
    PROVE  TypeInv'
<1>1. worker' \in [Workers -> Placed]
<2>1. worker[s].pc \in HasRun \cap HasTarget
  BY DEF Unpend, HasRun, HasTarget
<2> QED
  BY <2>1, FailPlaced, GotoPlaced DEF Unpend, HasRun, HasTarget, HasSource
<1>2. [Mine(s) EXCEPT !.pending = NoStage] \in RunRow
  BY MineTyped, FieldsTyped DEF Unpend, HasRun
<1>3. runs' \in [Runs -> RunRow]
  BY <1>2 DEF Unpend, Mine, TypeInv, TypeOK
<1> QED
  BY <1>1, <1>3 DEF Unpend, TypeInv, TypeOK, Placed

\* Assigning an agent keeps the types.
LEMMA TypeAgentAssign ==
    ASSUME TypeInv, NEW s \in Workers, AgentAssign(s)
    PROVE  TypeInv'
<1>1. worker' \in [Workers -> Placed]
  BY GotoPlaced DEF AgentAssign, HasRun, HasTarget, HasSource
<1>2. Owned(s, Mine(s).coord \/ coordinator) \in RunRow
  BY MineTyped DEF AgentAssign, HasRun
<1>3. runs' \in [Runs -> RunRow]
  BY <1>2 DEF AgentAssign, TypeInv, TypeOK
<1> QED
  BY <1>1, <1>3 DEF AgentAssign, TypeInv, TypeOK, Placed

\* An agent that succeeds keeps the types.
LEMMA TypeAgentSucceeds ==
    ASSUME TypeInv, NEW s \in Workers, AgentSucceeds(s)
    PROVE  TypeInv'
<1>1. worker' \in [Workers -> Placed]
  BY GotoPlaced DEF AgentSucceeds, HasRun, HasTarget, HasSource
<1> QED
  BY <1>1 DEF AgentSucceeds, TypeInv, TypeOK, Placed

\* A missing agent keeps the types.
LEMMA TypeAgentMissing ==
    ASSUME TypeInv, NEW s \in Workers, AgentMissing(s)
    PROVE  TypeInv'
<1>1. worker' \in [Workers -> Placed]
  BY FailPlaced DEF AgentMissing, HasRun
<1> QED
  BY <1>1 DEF AgentMissing, TypeInv, TypeOK, Placed

\* An agent that fails keeps the types.
LEMMA TypeAgentFails ==
    ASSUME TypeInv, NEW s \in Workers, AgentFails(s)
    PROVE  TypeInv'
<1>1. worker' \in [Workers -> Placed]
  BY FailPlaced DEF AgentFails, HasRun
<1>2. [Mine(s) EXCEPT !.failures = @ \cup {worker[s].from}] \in RunRow
  <2>1. worker[s].pc \in HasRun /\ worker[s].from \in Stages
    BY DEF AgentFails, HasRun, HasSource, TypeInv, Placed
  <2>2. Mine(s).failures \cup {worker[s].from} \in SUBSET Stages
    BY <2>1, MineTyped DEF RunRow
  <2> QED
    BY <2>1, <2>2, MineTyped, FieldsTyped
<1>3. runs' \in [Runs -> RunRow]
  BY <1>2 DEF AgentFails, Mine, TypeInv, TypeOK
<1> QED
  BY <1>1, <1>3 DEF AgentFails, TypeInv, TypeOK, Placed

\* The push keeps the types.
LEMMA TypePush ==
    ASSUME TypeInv, NEW s \in Workers, Push(s)
    PROVE  TypeInv'
<1>1. worker' \in [Workers -> Placed]
  BY FailPlaced, GotoPlaced DEF Push, HasRun, HasTarget, HasSource
<1> QED
  BY <1>1 DEF Push, TypeInv, TypeOK, Placed

\* Marking the stage failed keeps the types.
LEMMA TypeMarkStage ==
    ASSUME TypeInv, NEW s \in Workers, MarkStage(s)
    PROVE  TypeInv'
<1>1. worker' \in [Workers -> Placed]
  BY GotoPlaced DEF MarkStage, HasRun, HasTarget, HasSource
<1>2. [Mine(s) EXCEPT !.stage = "failed"] \in RunRow
  BY MineTyped, FieldsTyped, NamedStages DEF MarkStage, HasRun
<1>3. runs' \in [Runs -> RunRow]
  BY <1>2 DEF MarkStage, Mine, TypeInv, TypeOK
<1> QED
  BY <1>1, <1>3 DEF MarkStage, TypeInv, TypeOK, Placed

\* Marking the status failed keeps the types.
LEMMA TypeMarkStatus ==
    ASSUME TypeInv, NEW s \in Workers, MarkStatus(s)
    PROVE  TypeInv'
<1>1. worker' \in [Workers -> Placed]
  BY ReturnPlaced, GotoPlaced DEF MarkStatus, HasRun, HasTarget, HasSource
<1>2. [Mine(s) EXCEPT !.status = "failed"] \in RunRow
  BY MineTyped, FieldsTyped DEF MarkStatus, HasRun
<1>3. runs' \in [Runs -> RunRow]
  BY <1>2 DEF MarkStatus, Mine, TypeInv, TypeOK
<1> QED
  BY <1>1, <1>3 DEF MarkStatus, TypeInv, TypeOK, Placed

\* A crash keeps the types.
LEMMA TypeCrash ==
    ASSUME TypeInv, NEW s \in Workers, Crash(s)
    PROVE  TypeInv'
<1>1. worker' \in [Workers -> Placed]
  BY ReturnPlaced DEF Crash
<1>2. crashes' \in 0 .. MaxCrashes
  BY CapacityAssumption DEF Crash, TypeInv, TypeOK
<1> QED
  BY <1>1, <1>2 DEF Crash, TypeInv, TypeOK, Placed

\* The empty database and idle servers are well typed.
LEMMA TypeInit == Init => TypeInv
<1>1. Idle \in Placed /\ NewRow(NoItem, "absent") \in RunRow
  BY NamedStages DEF Idle, Placed, Job, HasRun, HasTarget, HasSource, NewRow, RunRow
<1> QED
  BY <1>1, CapacityAssumption DEF Init, TypeInv, TypeOK, Placed

\* Every step keeps the types.
LEMMA TypeNext ==
    ASSUME TypeInv, [Next]_vars
    PROVE  TypeInv'
<1>1. CASE Staff
  BY <1>1 DEF Staff, TypeInv, TypeOK
<1>2. ASSUME NEW s \in Servers, Request(s) \/ Step(s) \/ Crash(s)
      PROVE  TypeInv'
  <2>1. s \in Workers
    BY DEF Workers
  <2>2. CASE Request(s)
    BY <2>1, <2>2, TypeStartScan, TypeUserAction DEF Request
  <2>3. CASE Step(s)
    BY <2>1, <2>3, TypeStartFind, TypeStartClose, TypeCreate, TypeCapacity, TypeAssign,
       TypeWriteStage, TypeWriteStatus, TypeGate, TypeRefuse, TypeEnter, TypePend,
       TypeReviewRun, TypeUnpend, TypeAgentAssign, TypeAgentSucceeds, TypeAgentMissing,
       TypeAgentFails, TypePush, TypeMarkStage, TypeMarkStatus DEF Step
  <2> QED
    BY <1>2, <2>1, <2>2, <2>3, TypeCrash
<1>3. CASE UNCHANGED vars
  BY <1>3 DEF vars, TypeInv, TypeOK
<1> QED
  BY <1>1, <1>2, <1>3 DEF Next

\* Whatever the servers do, and wherever they die, rows and requests keep their
\* types, and every statement finds the run and the stages it works on.
THEOREM WorkflowTyped == Spec => []TypeOK
<1>1. Init => TypeInv
  BY TypeInit
<1>2. TypeInv /\ [Next]_vars => TypeInv'
  BY TypeNext
<1>3. TypeInv => TypeOK
  BY DEF TypeInv
<1> QED
  BY <1>1, <1>2, <1>3, PTL DEF Spec
-----------------------------------------------------------------------------
(* One active run per work item, for one server                            *)

\* What the rows say when nobody works on them.
Ended == \A r \in Runs :
            /\ runs[r].status \in {"completed", "failed", "cancelled"} =>
                  runs[r].stage \in Terminal \cup {Review}
            /\ runs[r].status = "absent" => runs[r].stage = "draft"

\* What the request of server s knows of its run.
Knows(s) ==
    /\ worker[s].pc \in HasRun =>
          Mine(s).status = "running" /\ Mine(s).item = worker[s].item
    /\ worker[s].pc \in HasRun \ {"settle", "end"} => Mine(s).stage \notin Terminal
    /\ worker[s].pc = "settle" => Mine(s).stage = worker[s].to
    /\ worker[s].pc = "close" => Mine(s).stage = Review
    /\ worker[s].pc = "end" => Mine(s).stage = "failed"
    /\ worker[s].pc = "create" \/ (worker[s].pc = "end" /\ ~worker[s].nested) =>
          Found(worker[s].item) = {}

SafeInv(s) == OneActive /\ Ended /\ Knows(s)

\* The step leaves ended runs alone.
Frozen ==
    \A r \in Runs :
        /\ runs[r].status \in {"completed", "failed", "cancelled"} =>
              runs'[r].status = runs[r].status /\ runs'[r].stage = runs[r].stage
        /\ runs[r].stage \in Terminal => runs'[r].stage = runs[r].stage

\* What the job of a server is after a step of its request.
LEMMA WorkerAfter ==
    ASSUME TypeInv, NEW s \in Workers
    PROVE  /\ \A pc : Goto(s, pc) => worker'[s] = [worker[s] EXCEPT !.pc = pc]
           /\ Return(s) => worker'[s] = Idle
           /\ \A pc, r, i, from, to, nested : Begin(s, pc, r, i, from, to, nested) =>
                 worker'[s] = [pc |-> pc, item |-> i, run |-> r, from |-> from,
                               to |-> to, nested |-> nested]
  BY DEF TypeInv, Goto, Return, Begin

\* Statements whose run has not ended.
Live == HasRun \ {"settle", "end"}
Plain == Live \ {"close"}

\* The step leaves what the rows say of activity as it is.
Same == \A r \in Runs : /\ runs'[r].status = runs[r].status
                        /\ runs'[r].stage = runs[r].stage
                        /\ runs'[r].item = runs[r].item

\* A statement that leaves activity alone, and what comes after it.
Onward(s) ==
    \/ Return(s)
    \/ \E pc \in Plain : Goto(s, pc)
    \/ \E pc \in Plain, from, to \in Stages \cup {NoStage}, nested \in BOOLEAN :
          Move(s, pc, from, to, nested)

\* A step that leaves activity alone keeps the facts about the rows.
LEMMA SameSafe ==
    ASSUME OneActive, Ended, Same
    PROVE  OneActive' /\ Ended' /\ Frozen
  BY DEF Same, OneActive, Ended, Frozen, Active

\* An idle server knows nothing, and needs to know nothing.
LEMMA KnowsIdle ==
    ASSUME TypeInv, NEW s \in Workers, Return(s)
    PROVE  Knows(s)'
  BY WorkerAfter DEF Knows, Idle, HasRun

\* A run that is running, of the right item, in a stage that is not terminal, is
\* all that a plain statement needs to know.
LEMMA KnowsPlain ==
    ASSUME NEW s, worker'[s].pc \in Plain, Mine(s)'.status = "running",
           Mine(s)'.item = worker'[s].item, Mine(s)'.stage \notin Terminal
    PROVE  Knows(s)'
  BY DEF Knows, Plain, Live, HasRun

\* A statement that leaves activity alone and goes on keeps SafeInv.
LEMMA OnwardSafe ==
    ASSUME TypeInv, NEW s \in Workers, SafeInv(s), worker[s].pc \in Live, Same, Onward(s)
    PROVE  SafeInv(s)' /\ Frozen
<1>1. OneActive' /\ Ended' /\ Frozen
  BY SameSafe DEF SafeInv
<1>2. CASE Return(s)
  BY <1>1, <1>2, KnowsIdle DEF SafeInv
<1>3. CASE ~Return(s)
  <2>1. /\ worker'[s].pc \in Plain /\ worker'[s].run = worker[s].run
        /\ worker'[s].item = worker[s].item
    <3>1. worker[s] \in Job
      BY DEF TypeInv, TypeOK
    <3> DEFINE Kept == /\ worker'[s].pc \in Plain /\ worker'[s].run = worker[s].run
                       /\ worker'[s].item = worker[s].item
    <3>2. ASSUME NEW pc \in Plain, Goto(s, pc)
          PROVE  Kept
      <4>1. worker'[s] = [worker[s] EXCEPT !.pc = pc]
        BY <3>2, WorkerAfter
      <4> QED
        BY <3>1, <4>1 DEF Job
    <3>3. ASSUME NEW pc \in Plain, NEW from, NEW to, NEW nested, Move(s, pc, from, to, nested)
          PROVE  Kept
      <4>1. Begin(s, pc, worker[s].run, worker[s].item, from, to, nested)
        BY <3>3 DEF Move
      <4>2. worker'[s] = [pc |-> pc, item |-> worker[s].item, run |-> worker[s].run,
                          from |-> from, to |-> to, nested |-> nested]
        BY <4>1, WorkerAfter
      <4> QED
        BY <4>2
    <3> HIDE DEF Kept
    <3>4. Kept
      BY <1>3, <3>2, <3>3 DEF Onward
    <3> QED
      BY <3>4 DEF Kept
  <2>2. worker[s].run \in Runs
    BY DEF Live, TypeInv, Placed
  <2>3. /\ Mine(s)'.status = "running" /\ Mine(s)'.item = worker'[s].item
        /\ Mine(s)'.stage \notin Terminal
    BY <2>1, <2>2 DEF SafeInv, Knows, Live, Same, Mine
  <2> QED
    BY <1>1, <2>1, <2>3, KnowsPlain DEF SafeInv
<1> QED
  BY <1>2, <1>3

\* The capacity check keeps SafeInv and moves no ended run.
LEMMA SafeCapacity ==
    ASSUME TypeInv, NEW s \in Workers, SafeInv(s), Capacity(s)
    PROVE  SafeInv(s)' /\ Frozen
<1>1. worker[s].pc \in Live /\ Same
  BY DEF Capacity, Same, Live, HasRun
<1>2. Onward(s)
  BY DEF Capacity, Fail, Onward, Live, Plain, HasRun
<1> QED
  BY <1>1, <1>2, OnwardSafe

\* A refusal by the repository guard keeps SafeInv and moves no ended run.
LEMMA SafeRefuse ==
    ASSUME TypeInv, NEW s \in Workers, SafeInv(s), Refuse(s)
    PROVE  SafeInv(s)' /\ Frozen
<1>1. worker[s].pc \in Live /\ Same
  BY DEF Refuse, Same, Live, HasRun
<1>2. Onward(s)
  BY DEF Refuse, Fail, Onward, Live, Plain, HasRun
<1> QED
  BY <1>1, <1>2, OnwardSafe

\* An agent that succeeds keeps SafeInv and moves no ended run.
LEMMA SafeAgentSucceeds ==
    ASSUME TypeInv, NEW s \in Workers, SafeInv(s), AgentSucceeds(s)
    PROVE  SafeInv(s)' /\ Frozen
<1>1. worker[s].pc \in Live /\ Same
  BY DEF AgentSucceeds, Same, Live, HasRun
<1>2. Onward(s)
  BY DEF AgentSucceeds, Fail, Onward, Live, Plain, HasRun
<1> QED
  BY <1>1, <1>2, OnwardSafe

\* A missing agent keeps SafeInv and moves no ended run.
LEMMA SafeAgentMissing ==
    ASSUME TypeInv, NEW s \in Workers, SafeInv(s), AgentMissing(s)
    PROVE  SafeInv(s)' /\ Frozen
<1>1. worker[s].pc \in Live /\ Same
  BY DEF AgentMissing, Same, Live, HasRun
<1>2. Onward(s)
  BY DEF AgentMissing, Fail, Onward, Live, Plain, HasRun
<1> QED
  BY <1>1, <1>2, OnwardSafe

\* The push keeps SafeInv and moves no ended run.
LEMMA SafePush ==
    ASSUME TypeInv, NEW s \in Workers, SafeInv(s), Push(s)
    PROVE  SafeInv(s)' /\ Frozen
<1>1. worker[s].pc \in Live /\ Same
  BY DEF Push, Same, Live, HasRun
<1>2. Onward(s)
  BY DEF Push, Fail, Onward, Live, Plain, HasRun
<1> QED
  BY <1>1, <1>2, OnwardSafe

\* Reaching a gate keeps SafeInv and moves no ended run.
LEMMA SafeGate ==
    ASSUME TypeInv, NEW s \in Workers, SafeInv(s), Gate(s)
    PROVE  SafeInv(s)' /\ Frozen
<1>1. worker[s].pc \in Live /\ Same
  BY DEF Gate, Same, Live, HasRun
<1>2. Onward(s)
  <2>1. worker[s].to \in Stages
    BY DEF Gate, HasTarget, TypeInv, Placed
  <2> QED
    BY <2>1 DEF Gate, Onward, Live, Plain, HasRun
<1> QED
  BY <1>1, <1>2, OnwardSafe

\* Entering a stage keeps SafeInv and moves no ended run.
LEMMA SafeEnter ==
    ASSUME TypeInv, NEW s \in Workers, SafeInv(s), Enter(s)
    PROVE  SafeInv(s)' /\ Frozen
<1>1. worker[s].pc \in Live /\ Same
  BY DEF Enter, Same, Live, HasRun
<1>2. Onward(s)
  <2>1. worker[s].to \in Stages /\ Body(worker[s].to) \in Plain
    BY DEF Enter, HasTarget, TypeInv, Placed, Body, Live, Plain, HasRun
  <2> QED
    BY <2>1 DEF Enter, Onward, Live, Plain, HasRun
<1> QED
  BY <1>1, <1>2, OnwardSafe

\* Beginning a review keeps SafeInv and moves no ended run.
LEMMA SafeReviewRun ==
    ASSUME TypeInv, NEW s \in Workers, SafeInv(s), ReviewRun(s)
    PROVE  SafeInv(s)' /\ Frozen
<1>1. worker[s].pc \in Live /\ Same
  BY DEF ReviewRun, Same, Live, HasRun
<1>2. Onward(s)
  <2>1. Mine(s).pending \in Stages \cup {NoStage}
    BY MineTyped DEF ReviewRun, HasRun, RunRow
  <2> QED
    BY <2>1, NamedStages DEF ReviewRun, Fail, Onward, Live, Plain, HasRun
<1> QED
  BY <1>1, <1>2, OnwardSafe

\* Assigning the team keeps SafeInv and moves no ended run.
LEMMA SafeAssign ==
    ASSUME TypeInv, NEW s \in Workers, SafeInv(s), Assign(s)
    PROVE  SafeInv(s)' /\ Frozen
<1>1. worker[s].pc \in Live /\ Same
  <2>1. Mine(s) \in RunRow
    BY MineTyped DEF Assign, HasRun
  <2> QED
    BY <2>1 DEF Assign, Same, Owned, Mine, Live, HasRun, RunRow, TypeInv, TypeOK
<1>2. Onward(s)
  BY NamedStages DEF Assign, Onward, Live, Plain, HasRun
<1> QED
  BY <1>1, <1>2, OnwardSafe

\* Assigning an agent keeps SafeInv and moves no ended run.
LEMMA SafeAgentAssign ==
    ASSUME TypeInv, NEW s \in Workers, SafeInv(s), AgentAssign(s)
    PROVE  SafeInv(s)' /\ Frozen
<1>1. worker[s].pc \in Live /\ Same
  <2>1. Mine(s) \in RunRow
    BY MineTyped DEF AgentAssign, HasRun
  <2> QED
    BY <2>1 DEF AgentAssign, Same, Owned, Mine, Live, HasRun, RunRow, TypeInv, TypeOK
<1>2. Onward(s)
  BY DEF AgentAssign, Onward, Live, Plain, HasRun
<1> QED
  BY <1>1, <1>2, OnwardSafe

\* An agent that fails keeps SafeInv and moves no ended run.
LEMMA SafeAgentFails ==
    ASSUME TypeInv, NEW s \in Workers, SafeInv(s), AgentFails(s)
    PROVE  SafeInv(s)' /\ Frozen
<1>1. worker[s].pc \in Live /\ Same
  <2>1. Mine(s) \in RunRow
    BY MineTyped DEF AgentFails, HasRun
  <2> QED
    BY <2>1 DEF AgentFails, Same, Mine, Live, HasRun, RunRow, TypeInv, TypeOK
<1>2. Onward(s)
  BY DEF AgentFails, Fail, Onward, Live, Plain, HasRun
<1> QED
  BY <1>1, <1>2, OnwardSafe

\* Releasing a stage from its review keeps SafeInv and moves no ended run.
LEMMA SafeUnpend ==
    ASSUME TypeInv, NEW s \in Workers, SafeInv(s), Unpend(s)
    PROVE  SafeInv(s)' /\ Frozen
<1>1. worker[s].pc \in Live /\ Same
  <2>1. Mine(s) \in RunRow
    BY MineTyped DEF Unpend, HasRun
  <2> QED
    BY <2>1 DEF Unpend, Same, Mine, Live, HasRun, RunRow, TypeInv, TypeOK
<1>2. Onward(s)
  BY DEF Unpend, Fail, Onward, Live, Plain, HasRun
<1> QED
  BY <1>1, <1>2, OnwardSafe

\* Sending a stage to its review keeps SafeInv and moves no ended run.
LEMMA SafePend ==
    ASSUME TypeInv, NEW s \in Workers, SafeInv(s), Pend(s)
    PROVE  SafeInv(s)' /\ Frozen
<1>1. worker[s].pc \in Live /\ Same
  <2>1. Mine(s) \in RunRow
    BY MineTyped DEF Pend, HasRun
  <2> QED
    BY <2>1 DEF Pend, Same, Mine, Live, HasRun, RunRow, TypeInv, TypeOK
<1>2. Onward(s)
  <2>1. Mine(s).stage \in Stages /\ worker[s].nested \in BOOLEAN
    BY MineTyped DEF Pend, HasRun, RunRow, TypeInv, TypeOK, Job
  <2> QED
    BY <2>1, NamedStages DEF Pend, Fail, Onward, Live, Plain, HasRun
<1> QED
  BY <1>1, <1>2, OnwardSafe

\* What a write to its own run leaves of the others.
LEMMA OneWrite ==
    ASSUME TypeInv, NEW s \in Workers, NEW m, worker[s].pc \in HasRun,
           runs' = [runs EXCEPT ![worker[s].run] = m]
    PROVE  /\ worker[s].run \in Runs
           /\ runs'[worker[s].run] = m
           /\ \A r \in Runs : r # worker[s].run => runs'[r] = runs[r]
  BY DEF TypeInv, TypeOK, Placed

\* Runs that stop being active leave one active run per work item.
LEMMA FewerActive ==
    ASSUME OneActive,
           \A r \in Runs : Active(r)' => Active(r) /\ runs'[r].item = runs[r].item
    PROVE  OneActive'
  BY DEF OneActive

\* The scan for orphaned reviews keeps SafeInv and moves no ended run.
LEMMA SafeStartScan ==
    ASSUME TypeInv, NEW s \in Workers, NEW i \in Items, SafeInv(s), StartScan(s, i)
    PROVE  SafeInv(s)' /\ Frozen
<1>1. \A r \in Runs : /\ runs'[r].stage = runs[r].stage /\ runs'[r].item = runs[r].item
                      /\ runs'[r].status = IF Orphaned(r) THEN "failed" ELSE runs[r].status
  BY DEF StartScan, TypeInv, TypeOK, RunRow
<1>2. OneActive'
  BY <1>1, FewerActive DEF SafeInv, Active
<1>3. Ended' /\ Frozen
  BY <1>1 DEF SafeInv, Ended, Frozen, Orphaned, Terminal
<1>4. worker'[s].pc = "find"
  BY DEF StartScan, Begin, TypeInv
<1>5. Knows(s)'
  BY <1>4 DEF Knows, HasRun
<1> QED
  BY <1>2, <1>3, <1>5 DEF SafeInv

\* Finding and resuming an active run keeps SafeInv and moves no ended run.
LEMMA SafeStartFind ==
    ASSUME TypeInv, NEW s \in Workers, SafeInv(s), StartFind(s)
    PROVE  SafeInv(s)' /\ Frozen
<1>1. Same
  BY DEF StartFind, Same
<1>2. OneActive' /\ Ended' /\ Frozen
  BY <1>1, SameSafe DEF SafeInv
<1>3. CASE Return(s)
  BY <1>2, <1>3, KnowsIdle DEF SafeInv
<1>4. CASE Found(worker[s].item) = {} /\ Goto(s, "create")
  <2>1. worker'[s].pc = "create" /\ worker'[s].item = worker[s].item
    BY <1>4 DEF Goto, TypeInv, TypeOK, Job
  <2>2. Found(worker[s].item)' = {}
    BY <1>4, <2>1 DEF Found, Active, StartFind
  <2> QED
    BY <1>2, <2>1, <2>2 DEF SafeInv, Knows, HasRun, Found, Active
<1>5. ASSUME NEW r \in Found(worker[s].item), Resume(s, worker[s].item, r), ~Return(s)
      PROVE  Knows(s)'
  <2>1. /\ r \in Runs /\ runs[r].status = "running" /\ runs[r].stage \notin Terminal
        /\ runs[r].item = worker[s].item
    BY DEF Found, Active
  <2>2. /\ worker'[s].pc \in Plain \/ (worker'[s].pc = "close" /\ runs[r].stage = Review)
        /\ worker'[s].run = r /\ worker'[s].item = worker[s].item
    BY <1>5 DEF Resume, Begin, TypeInv, Plain, Live, HasRun
  <2>3. UNCHANGED runs
    BY DEF StartFind
  <2> QED
    BY <2>1, <2>2, <2>3 DEF Knows, Mine, Plain, Live, HasRun
<1> QED
  BY <1>2, <1>3, <1>4, <1>5 DEF StartFind, SafeInv

\* Closing a review without a target keeps SafeInv and moves no ended run.
LEMMA SafeStartClose ==
    ASSUME TypeInv, NEW s \in Workers, SafeInv(s), StartClose(s)
    PROVE  SafeInv(s)' /\ Frozen
<1>1. /\ worker[s].pc \in HasRun /\ Mine(s) \in RunRow /\ Mine(s).stage = Review
      /\ Mine(s).status = "running" /\ Review \notin Terminal
  BY MineTyped DEF StartClose, SafeInv, Knows, HasRun, Review, Terminal
<1>2. /\ \A r \in Runs : r # worker[s].run => runs'[r] = runs[r]
      /\ runs'[worker[s].run].status = "failed" /\ runs'[worker[s].run].stage = Review
      /\ runs[worker[s].run].status = "running" /\ runs[worker[s].run].stage = Review
  BY <1>1 DEF StartClose, Mine, TypeInv, TypeOK, RunRow, Placed
<1>3. OneActive'
  BY <1>2, FewerActive DEF SafeInv, Active
<1>4. Ended' /\ Frozen
  BY <1>1, <1>2 DEF SafeInv, Ended, Frozen
<1> QED
  BY <1>3, <1>4, KnowsIdle DEF StartClose, SafeInv

\* Creating a run keeps SafeInv and moves no ended run.
LEMMA SafeCreate ==
    ASSUME TypeInv, NEW s \in Workers, SafeInv(s), Create(s)
    PROVE  SafeInv(s)' /\ Frozen
<1>1. CASE Return(s) /\ UNCHANGED runs
  <2>1. Same
    BY <1>1 DEF Same
  <2> QED
    BY <1>1, <2>1, SameSafe, KnowsIdle DEF SafeInv
<1>2. ASSUME NEW r \in Fresh, runs' = [runs EXCEPT ![r] = NewRow(worker[s].item, "running")],
             Begin(s, "capacity", r, worker[s].item, NoStage, NoStage, FALSE)
      PROVE  SafeInv(s)' /\ Frozen
  <2>1. /\ r \in Runs /\ runs[r].status = "absent" /\ runs[r].stage = "draft"
        /\ Found(worker[s].item) = {} /\ "draft" \notin Terminal
    BY DEF Fresh, SafeInv, Ended, Knows, Create, Terminal
  <2>2. /\ runs'[r].status = "running" /\ runs'[r].stage = "draft"
        /\ runs'[r].item = worker[s].item
        /\ \A q \in Runs : q # r => runs'[q] = runs[q]
    BY <1>2, <2>1 DEF NewRow, TypeInv, TypeOK
  <2>3. \A q \in Runs : Active(q) => runs[q].item # worker[s].item
    BY <2>1 DEF Found
  <2>4. OneActive'
    BY <2>1, <2>2, <2>3 DEF SafeInv, OneActive, Active
  <2>5. Ended' /\ Frozen
    BY <2>1, <2>2 DEF SafeInv, Ended, Frozen
  <2>6. worker'[s].pc \in Plain /\ worker'[s].run = r /\ worker'[s].item = worker[s].item
    BY <1>2 DEF Begin, TypeInv, Plain, Live, HasRun
  <2>7. Knows(s)'
    BY <2>1, <2>2, <2>6, KnowsPlain DEF Mine
  <2> QED
    BY <2>4, <2>5, <2>7 DEF SafeInv
<1> QED
  BY <1>1, <1>2 DEF Create

\* A decision at a gate keeps SafeInv and moves no ended run.
LEMMA SafeUserAction ==
    ASSUME TypeInv, NEW s \in Workers, NEW r \in Runs, NEW to, SafeInv(s),
           UserAction(s, r, to)
    PROVE  SafeInv(s)' /\ Frozen
<1>1. runs[r].stage \in Gates
  BY DecisionStages DEF UserAction
<1>2. runs[r].status \in {"absent", "running", "completed", "failed", "cancelled"}
  BY DEF TypeInv, TypeOK, RunRow
<1>3. runs[r].status = "running" /\ runs[r].stage \notin Terminal
  BY <1>1, <1>2 DEF UserAction, SafeInv, Ended, Gates, Terminal, Review
<1>4. Same
  BY DEF UserAction, Same
<1>5. worker'[s].pc \in Plain /\ worker'[s].run = r /\ worker'[s].item = runs[r].item
  BY DEF UserAction, Begin, TypeInv, Plain, Live, HasRun
<1>6. Knows(s)'
  BY <1>3, <1>5, KnowsPlain DEF UserAction, Mine
<1> QED
  BY <1>4, <1>6, SameSafe DEF SafeInv

\* Writing the stage keeps SafeInv and moves no ended run.
LEMMA SafeWriteStage ==
    ASSUME TypeInv, NEW s \in Workers, SafeInv(s), WriteStage(s)
    PROVE  SafeInv(s)' /\ Frozen
<1>1. /\ worker[s].pc \in HasRun /\ worker[s].run \in Runs /\ Mine(s) \in RunRow
      /\ Mine(s).status = "running" /\ Mine(s).stage \notin Terminal
      /\ Mine(s).item = worker[s].item
  BY MineTyped DEF WriteStage, SafeInv, Knows, HasRun
<1>2. /\ \A r \in Runs : r # worker[s].run => runs'[r] = runs[r]
      /\ runs'[worker[s].run].status = "running"
      /\ runs'[worker[s].run].item = worker[s].item
      /\ runs'[worker[s].run].stage = worker[s].to
  BY <1>1 DEF WriteStage, Mine, TypeInv, TypeOK, RunRow
<1>3. OneActive'
  BY <1>1, <1>2, FewerActive DEF SafeInv, Active, Mine
<1>4. Ended' /\ Frozen
  BY <1>1, <1>2 DEF SafeInv, Ended, Frozen, Mine
<1>5. /\ worker'[s].pc = "settle" /\ worker'[s].run = worker[s].run
      /\ worker'[s].item = worker[s].item /\ worker'[s].to = worker[s].to
  BY DEF WriteStage, Goto, TypeInv, TypeOK, Job
<1>6. Knows(s)'
  BY <1>2, <1>5 DEF Knows, Mine, HasRun
<1> QED
  BY <1>3, <1>4, <1>6 DEF SafeInv

\* Writing the status keeps SafeInv and moves no ended run.
LEMMA SafeWriteStatus ==
    ASSUME TypeInv, NEW s \in Workers, SafeInv(s), WriteStatus(s)
    PROVE  SafeInv(s)' /\ Frozen
<1>1. /\ worker[s].pc \in HasRun /\ worker[s].run \in Runs /\ Mine(s) \in RunRow
      /\ Mine(s).status = "running" /\ Mine(s).stage = worker[s].to
      /\ Mine(s).item = worker[s].item
  BY MineTyped DEF WriteStatus, SafeInv, Knows, HasRun
<1>2. /\ \A r \in Runs : r # worker[s].run => runs'[r] = runs[r]
      /\ runs'[worker[s].run].status = StatusOf(worker[s].to)
      /\ runs'[worker[s].run].item = worker[s].item
      /\ runs'[worker[s].run].stage = worker[s].to
  BY <1>1 DEF WriteStatus, Mine, TypeInv, TypeOK, RunRow
<1>3. /\ worker[s].to \notin Terminal => StatusOf(worker[s].to) = "running"
      /\ StatusOf(worker[s].to) # "absent"
  BY DEF StatusOf, Terminal
<1>4. OneActive'
  BY <1>1, <1>2, FewerActive DEF SafeInv, Active, Mine
<1>5. Ended' /\ Frozen
  BY <1>1, <1>2, <1>3 DEF SafeInv, Ended, Frozen, Mine
<1>6. CASE Return(s)
  BY <1>4, <1>5, <1>6, KnowsIdle DEF SafeInv
<1>7. CASE ~Return(s)
  <2>1. /\ worker'[s].pc \in Plain /\ worker'[s].run = worker[s].run
        /\ worker'[s].item = worker[s].item /\ worker[s].to \notin Terminal
    BY <1>7 DEF WriteStatus, Move, Begin, Goto, TypeInv, TypeOK, Job, Plain, Live, HasRun,
                Gates, Review, Terminal
  <2>2. Knows(s)'
    BY <1>1, <1>2, <1>3, <2>1, KnowsPlain DEF Mine
  <2> QED
    BY <1>4, <1>5, <2>2 DEF SafeInv
<1> QED
  BY <1>6, <1>7

\* Marking the stage failed keeps SafeInv and moves no ended run.
LEMMA SafeMarkStage ==
    ASSUME TypeInv, NEW s \in Workers, SafeInv(s), MarkStage(s)
    PROVE  SafeInv(s)' /\ Frozen
<1>1. /\ worker[s].pc \in HasRun /\ worker[s].run \in Runs /\ Mine(s) \in RunRow
      /\ Mine(s).status = "running" /\ Mine(s).stage \notin Terminal
      /\ Mine(s).item = worker[s].item
  BY MineTyped DEF MarkStage, SafeInv, Knows, HasRun
<1>2. /\ \A r \in Runs : r # worker[s].run => runs'[r] = runs[r]
      /\ runs'[worker[s].run].status = "running"
      /\ runs'[worker[s].run].item = worker[s].item
      /\ runs'[worker[s].run].stage = "failed"
  BY <1>1 DEF MarkStage, Mine, TypeInv, TypeOK, RunRow
<1>3. OneActive'
  BY <1>1, <1>2, FewerActive DEF SafeInv, Active, Mine
<1>4. Ended' /\ Frozen
  BY <1>1, <1>2 DEF SafeInv, Ended, Frozen, Mine
<1>5. /\ worker'[s].pc = "end" /\ worker'[s].run = worker[s].run
      /\ worker'[s].item = worker[s].item
  BY DEF MarkStage, Goto, TypeInv, TypeOK, Job
<1>6. \A r \in Runs : Active(r)' => runs'[r].item # worker[s].item
  BY <1>1, <1>2 DEF SafeInv, OneActive, Active, Mine, Terminal
<1>7. Found(worker[s].item)' = {}
  BY <1>5, <1>6 DEF Found
<1>8. Knows(s)'
  BY <1>2, <1>5, <1>7 DEF Knows, Mine, HasRun
<1> QED
  BY <1>3, <1>4, <1>8 DEF SafeInv

\* Marking the status failed keeps SafeInv and moves no ended run.
LEMMA SafeMarkStatus ==
    ASSUME TypeInv, NEW s \in Workers, SafeInv(s), MarkStatus(s)
    PROVE  SafeInv(s)' /\ Frozen
<1>1. /\ worker[s].pc \in HasRun /\ worker[s].run \in Runs /\ Mine(s) \in RunRow
      /\ Mine(s).status = "running" /\ Mine(s).stage = "failed"
  BY MineTyped DEF MarkStatus, SafeInv, Knows, HasRun
<1>2. /\ \A r \in Runs : r # worker[s].run => runs'[r] = runs[r]
      /\ runs'[worker[s].run].status = "failed"
      /\ runs'[worker[s].run].stage = "failed"
  BY <1>1 DEF MarkStatus, Mine, TypeInv, TypeOK, RunRow
<1>3. \A r \in Runs : Active(r)' => Active(r) /\ runs'[r].item = runs[r].item
  BY <1>2 DEF Active
<1>4. OneActive'
  BY <1>3, FewerActive DEF SafeInv
<1>5. Ended' /\ Frozen
  BY <1>1, <1>2 DEF SafeInv, Ended, Frozen, Mine, Terminal
<1>6. CASE Return(s)
  BY <1>4, <1>5, <1>6, KnowsIdle DEF SafeInv
<1>7. CASE ~worker[s].nested
  <2>1. worker'[s].pc = "create" /\ worker'[s].item = worker[s].item
    BY <1>7 DEF MarkStatus, Goto, TypeInv, TypeOK, Job
  <2>2. Found(worker[s].item) = {}
    BY <1>7 DEF SafeInv, Knows, MarkStatus
  <2>3. Found(worker[s].item)' = {}
    BY <1>3, <2>1, <2>2 DEF Found
  <2>4. Knows(s)'
    BY <2>1, <2>3 DEF Knows, HasRun
  <2> QED
    BY <1>4, <1>5, <2>4 DEF SafeInv
<1> QED
  BY <1>6, <1>7 DEF MarkStatus

\* A crash keeps SafeInv and moves no ended run.
LEMMA SafeCrash ==
    ASSUME TypeInv, NEW s \in Workers, SafeInv(s), Crash(s)
    PROVE  SafeInv(s)' /\ Frozen
<1>1. Same
  BY DEF Crash, Same
<1> QED
  BY <1>1, SameSafe, KnowsIdle DEF Crash, SafeInv

\* A coordinator who comes or goes keeps SafeInv and moves no ended run.
LEMMA SafeStaff ==
    ASSUME NEW s \in Workers, SafeInv(s), UNCHANGED <<runs, worker>>
    PROVE  SafeInv(s)' /\ Frozen
<1>1. Same
  BY DEF Same
<1>2. Knows(s)'
  BY DEF SafeInv, Knows, Mine, Found, Active
<1> QED
  BY <1>1, <1>2, SameSafe DEF SafeInv

\* Every step keeps SafeInv and moves no ended run.
LEMMA SafeNext ==
    ASSUME TypeInv, NEW s, Servers = {s}, SafeInv(s), [Next]_vars
    PROVE  SafeInv(s)' /\ Frozen
<1>1. s \in Workers
  BY DEF Workers
<1>2. CASE Staff \/ UNCHANGED vars
  BY <1>1, <1>2, SafeStaff DEF Staff, vars
<1>3. CASE Request(s)
  BY <1>1, <1>3, SafeStartScan, SafeUserAction DEF Request
<1>4. CASE Step(s)
  BY <1>1, <1>4, SafeStartFind, SafeStartClose, SafeCreate, SafeCapacity, SafeAssign,
     SafeWriteStage, SafeWriteStatus, SafeGate, SafeRefuse, SafeEnter, SafePend,
     SafeReviewRun, SafeUnpend, SafeAgentAssign, SafeAgentSucceeds, SafeAgentMissing,
     SafeAgentFails, SafePush, SafeMarkStage, SafeMarkStatus DEF Step
<1>5. CASE Crash(s)
  BY <1>1, <1>5, SafeCrash
<1> QED
  BY <1>2, <1>3, <1>4, <1>5 DEF Next

\* The empty database satisfies SafeInv.
LEMMA SafeInit ==
    ASSUME NEW s, Servers = {s}, Init
    PROVE  SafeInv(s)
  BY DEF Init, SafeInv, OneActive, Ended, Knows, Workers, NewRow, Idle, Active, HasRun

\* One server, with its mutex, never has two active runs for a work item, however
\* many items, runs and crashes there are.
THEOREM OneActiveAlways ==
    ASSUME NEW s, Servers = {s}
    PROVE  Spec => []OneActive
<1>1. Init => TypeInv /\ SafeInv(s)
  BY TypeInit, SafeInit
<1>2. TypeInv /\ SafeInv(s) /\ [Next]_vars => (TypeInv /\ SafeInv(s))'
  BY TypeNext, SafeNext
<1>3. SafeInv(s) => OneActive
  BY DEF SafeInv
<1> QED
  BY <1>1, <1>2, <1>3, PTL DEF Spec

\* With one server no step moves a run that has ended.
THEOREM EndedIsFinalAlways ==
    ASSUME NEW s, Servers = {s}
    PROVE  Spec => EndedIsFinal
<1>1. Init => TypeInv /\ SafeInv(s)
  BY TypeInit, SafeInit
<1>2. TypeInv /\ SafeInv(s) /\ [Next]_vars => (TypeInv /\ SafeInv(s))'
  BY TypeNext, SafeNext
<1>3. TypeInv /\ SafeInv(s) /\ [Next]_vars => [Frozen]_vars
  BY SafeNext
<1> QED
  BY <1>1, <1>2, <1>3, PTL DEF Spec, EndedIsFinal, Frozen

-----------------------------------------------------------------------------
(* Reviewed pushes, for one server                                         *)

PushStages == {"push_preparation", "git_push"}

\* A run on its way to the push has an approved test review, also while the
\* coordinator looks at it.
Backed == \A r \in Runs :
    \/ runs[r].stage \in PushStages
    \/ runs[r].stage = Review /\ runs[r].pending \in PushStages
    => runs[r].reviewed

\* What the request of server s may take its run to.
Asks(s) ==
    /\ worker[s].pc \in {"enter", "pend", "gate"} => Mine(s).stage = worker[s].to
    /\ worker[s].pc = "review" => Mine(s).stage = Review
    /\ worker[s].pc \in {"agent", "running", "unpend", "write", "push"}
       /\ worker[s].to \in PushStages =>
          \/ Mine(s).reviewed
          \/ worker[s].from = "pending_test_review" /\ worker[s].to = "push_preparation"
    /\ worker[s].pc \in {"agent", "running", "write", "push"} /\ worker[s].to = Review
       /\ Mine(s).pending \in PushStages => Mine(s).reviewed
    /\ worker[s].pc = "push" => Mine(s).reviewed

\* The step leaves what the rows say of reviews as it is.
Steady == \A r \in Runs : /\ runs'[r].stage = runs[r].stage
                          /\ runs'[r].pending = runs[r].pending
                          /\ runs'[r].reviewed = runs[r].reviewed

PushReviewed == \A s \in Servers : Push(s) => Mine(s).reviewed

\* Statements that ask for nothing.
Modest == {"idle", "find", "close", "create", "capacity", "assign", "settle", "mark", "end"}

\* Only the test review leads to the push preparation, and only that to the push.
LEMMA FollowsPush ==
    \A st, to : <<st, to>> \in Follows =>
        /\ to = "push_preparation" => st = "pending_test_review"
        /\ to = "git_push" => st = "push_preparation"
        /\ to # Review
<1> SUFFICES ASSUME NEW k \in 1 .. 14
             PROVE  /\ Pipeline[k + 1] = "push_preparation" => Pipeline[k] = "pending_test_review"
                    /\ Pipeline[k + 1] = "git_push" => Pipeline[k] = "push_preparation"
                    /\ Pipeline[k + 1] # Review
  BY DEF Follows
<1> QED
  BY DEF Pipeline, Review

\* Only the test review decides for the push preparation, and none for a review.
LEMMA DecisionPush ==
    \A st, to : <<st, to>> \in Decisions =>
        /\ to = "push_preparation" => st = "pending_test_review"
        /\ to # "git_push" /\ to # Review
  BY DEF Decisions, Review

\* The push is not a review, and no stage at all is not a push.
LEMMA NoStagePush == NoStage \notin PushStages /\ Review \notin PushStages
<1>1. Pipeline[13] = "push_preparation" /\ Pipeline[14] = "git_push"
  BY DEF Pipeline
<1>2. PushStages \subseteq Stages
  BY <1>1 DEF PushStages, Stages
<1> QED
  BY <1>2, NamedStages DEF PushStages, Review

\* A step that leaves reviews alone keeps runs backed.
LEMMA SteadyBacked ==
    ASSUME Backed, Steady
    PROVE  Backed'
  BY DEF Backed, Steady

\* A statement that asks for nothing satisfies what is asked.
LEMMA AsksModest ==
    ASSUME NEW s, worker'[s].pc \in Modest
    PROVE  Asks(s)'
  BY DEF Asks, Modest

\* An error goes on to a statement that asks for nothing.
LEMMA FailModest ==
    ASSUME TypeInv, NEW s \in Workers, Fail(s) \/ Return(s)
    PROVE  worker'[s].pc \in Modest
  BY DEF Fail, Goto, Return, Idle, Modest, TypeInv, TypeOK, Job

\* The scan for orphaned reviews keeps Backed and Asks.
LEMMA BackedStartScan ==
    ASSUME TypeInv, NEW s \in Workers, NEW i \in Items, Backed, StartScan(s, i)
    PROVE  Backed' /\ Asks(s)'
<1>1. Steady
  BY DEF StartScan, Steady, TypeInv, TypeOK, RunRow
<1>2. worker'[s].pc \in Modest
  BY DEF StartScan, Begin, Modest, TypeInv
<1> QED
  BY <1>1, <1>2, SteadyBacked, AsksModest

\* Finding and resuming an active run keeps Backed and Asks.
LEMMA BackedStartFind ==
    ASSUME TypeInv, NEW s \in Workers, Backed, StartFind(s)
    PROVE  Backed' /\ Asks(s)'
<1>1. Steady
  BY DEF StartFind, Steady
<1>2. CASE worker'[s].pc \in Modest
  BY <1>1, <1>2, SteadyBacked, AsksModest
<1>3. CASE worker'[s].pc \notin Modest
  <2>1. PICK r \in Found(worker[s].item) : Resume(s, worker[s].item, r)
    BY <1>3 DEF StartFind, Goto, TypeInv, TypeOK, Job, Modest
  <2>2. /\ \/ worker'[s].pc = "write" /\ worker'[s].to = "requirement_analysis"
           \/ worker'[s].pc = "review" /\ runs[r].stage = Review
           \/ worker'[s].pc = "enter" /\ worker'[s].to = runs[r].stage
        /\ worker'[s].run = r
    BY <1>3, <2>1 DEF Resume, Begin, Return, Idle, TypeInv, Modest
  <2>3. r \in Runs /\ runs' = runs
    BY <2>1 DEF Found, StartFind
  <2>4. Asks(s)'
    BY <2>2, <2>3 DEF Asks, Mine, PushStages, Review
  <2> QED
    BY <1>1, <2>4, SteadyBacked
<1> QED
  BY <1>2, <1>3

\* Closing a review without a target keeps Backed and Asks.
LEMMA BackedStartClose ==
    ASSUME TypeInv, NEW s \in Workers, SafeInv(s), Backed, Asks(s), StartClose(s)
    PROVE  Backed' /\ Asks(s)'
<1>1. Steady
  <2>1. Mine(s) \in RunRow
    BY MineTyped DEF StartClose, HasRun
  <2> QED
    BY <2>1 DEF StartClose, Steady, Mine, RunRow, TypeInv, TypeOK
<1>2. worker'[s].pc \in Modest
  BY FailModest DEF StartClose
<1> QED
  BY <1>1, <1>2, SteadyBacked, AsksModest

\* Creating a run keeps Backed and Asks.
LEMMA BackedCreate ==
    ASSUME TypeInv, NEW s \in Workers, Backed, Create(s)
    PROVE  Backed' /\ Asks(s)'
<1>1. worker'[s].pc \in Modest
  BY DEF Create, Return, Begin, Idle, Modest, TypeInv
<1>2. \A r \in Runs : runs'[r] = runs[r] \/ runs'[r] = NewRow(worker[s].item, "running")
  BY DEF Create, Fresh, TypeInv, TypeOK
<1>3. Backed'
  BY <1>2 DEF Backed, NewRow, PushStages, Review
<1> QED
  BY <1>1, <1>3, AsksModest

\* The capacity check keeps Backed and Asks.
LEMMA BackedCapacity ==
    ASSUME TypeInv, NEW s \in Workers, SafeInv(s), Backed, Asks(s), Capacity(s)
    PROVE  Backed' /\ Asks(s)'
<1>1. Steady
  BY DEF Capacity, Steady
<1>2. worker'[s].pc \in Modest
  BY DEF Capacity, Goto, Return, Idle, Modest, TypeInv, TypeOK, Job
<1> QED
  BY <1>1, <1>2, SteadyBacked, AsksModest

\* Assigning the team keeps Backed and Asks.
LEMMA BackedAssign ==
    ASSUME TypeInv, NEW s \in Workers, SafeInv(s), Backed, Asks(s), Assign(s)
    PROVE  Backed' /\ Asks(s)'
<1>1. Steady
  <2>1. Mine(s) \in RunRow
    BY MineTyped DEF Assign, HasRun
  <2> QED
    BY <2>1 DEF Assign, Steady, Owned, Mine, RunRow, TypeInv, TypeOK
<1>2. worker'[s].pc = "write" /\ worker'[s].to = "requirement_analysis"
  BY DEF Assign, Move, Begin, TypeInv
<1>3. Asks(s)'
  BY <1>2 DEF Asks, PushStages, Review
<1> QED
  BY <1>1, <1>3, SteadyBacked

\* A decision at a gate keeps Backed and Asks.
LEMMA BackedUserAction ==
    ASSUME TypeInv, NEW s \in Workers, NEW r \in Runs, NEW to, Backed, UserAction(s, r, to)
    PROVE  Backed' /\ Asks(s)'
<1>1. Steady
  BY DEF UserAction, Steady
<1>2. /\ worker'[s].pc = "write" /\ worker'[s].to = to
      /\ worker'[s].from = runs[r].stage
  BY DEF UserAction, Begin, TypeInv
<1>3. Asks(s)'
  BY <1>2, DecisionPush DEF UserAction, Asks, PushStages
<1> QED
  BY <1>1, <1>3, SteadyBacked

\* Writing the stage keeps Backed and Asks.
LEMMA BackedWriteStage ==
    ASSUME TypeInv, NEW s \in Workers, SafeInv(s), Backed, Asks(s), WriteStage(s)
    PROVE  Backed' /\ Asks(s)'
<1>1. worker[s].run \in Runs /\ Mine(s) \in RunRow
  BY MineTyped DEF WriteStage, HasRun
<1>2. /\ \A r \in Runs : r # worker[s].run => runs'[r] = runs[r]
      /\ runs'[worker[s].run].stage = worker[s].to
      /\ runs'[worker[s].run].pending = Mine(s).pending
      /\ runs'[worker[s].run].reviewed =
            (\/ worker[s].from = "pending_test_review" /\ worker[s].to = "push_preparation"
             \/ Mine(s).reviewed /\ worker[s].to # "coding")
  BY <1>1 DEF WriteStage, Mine, TypeInv, TypeOK, RunRow
<1>3. Backed'
  BY <1>2 DEF Backed, Asks, WriteStage, PushStages, Review
<1>4. worker'[s].pc \in Modest
  BY DEF WriteStage, Goto, Modest, TypeInv, TypeOK, Job
<1> QED
  BY <1>3, <1>4, AsksModest

\* Writing the status keeps Backed and Asks.
LEMMA BackedWriteStatus ==
    ASSUME TypeInv, NEW s \in Workers, SafeInv(s), Backed, Asks(s), WriteStatus(s)
    PROVE  Backed' /\ Asks(s)'
<1>1. Steady
  <2>1. Mine(s) \in RunRow
    BY MineTyped DEF WriteStatus, HasRun
  <2> QED
    BY <2>1 DEF WriteStatus, Steady, Mine, RunRow, TypeInv, TypeOK
<1>2. worker[s].run \in Runs /\ Mine(s).stage = worker[s].to
  BY MineTyped DEF WriteStatus, HasRun, SafeInv, Knows
<1>3. CASE Return(s)
  BY <1>1, <1>3, FailModest, SteadyBacked, AsksModest
<1>4. CASE ~Return(s)
  <2>1. /\ worker'[s].run = worker[s].run /\ worker'[s].to = worker[s].to
        /\ worker'[s].pc \in {"gate", "enter"}
           \/ (worker'[s].pc = "review" /\ worker[s].to = Review)
    BY <1>4 DEF WriteStatus, Move, Begin, Goto, TypeInv, TypeOK, Job
  <2>2. Mine(s)'.stage = worker[s].to
    BY <1>1, <1>2, <2>1 DEF Steady, Mine
  <2>3. Asks(s)'
    BY <2>1, <2>2 DEF Asks
  <2> QED
    BY <1>1, <2>3, SteadyBacked
<1> QED
  BY <1>3, <1>4

\* Reaching a gate keeps Backed and Asks.
LEMMA BackedGate ==
    ASSUME TypeInv, NEW s \in Workers, SafeInv(s), Backed, Asks(s), Gate(s)
    PROVE  Backed' /\ Asks(s)'
<1>1. Steady
  BY DEF Gate, Steady
<1>2. CASE Return(s)
  BY <1>1, <1>2, FailModest, SteadyBacked, AsksModest
<1>3. CASE ~Return(s)
  <2>1. PICK to \in Stages : /\ <<worker[s].to, to>> \in Follows
                             /\ Move(s, "write", worker[s].to, to, TRUE)
    BY <1>3 DEF Gate
  <2>2. /\ worker'[s].pc = "write" /\ worker'[s].to = to
        /\ worker'[s].from = worker[s].to /\ worker'[s].run = worker[s].run
    BY <2>1 DEF Move, Begin, TypeInv
  <2>3. worker[s].run \in Runs /\ Mine(s).stage = worker[s].to
    BY MineTyped DEF Gate, HasRun, Asks
  <2>4. to = "git_push" => Mine(s).reviewed
    BY <2>1, <2>3, FollowsPush DEF Backed, Mine, PushStages
  <2>5. Asks(s)'
    BY <2>1, <2>2, <2>4, FollowsPush DEF Asks, PushStages, Gate, Mine
  <2> QED
    BY <1>1, <2>5, SteadyBacked
<1> QED
  BY <1>2, <1>3

\* A refusal by the repository guard keeps Backed and Asks.
LEMMA BackedRefuse ==
    ASSUME TypeInv, NEW s \in Workers, SafeInv(s), Backed, Asks(s), Refuse(s)
    PROVE  Backed' /\ Asks(s)'
<1>1. Steady
  BY DEF Refuse, Steady
<1>2. worker'[s].pc \in Modest
  BY FailModest DEF Refuse
<1> QED
  BY <1>1, <1>2, SteadyBacked, AsksModest

\* Entering a stage keeps Backed and Asks.
LEMMA BackedEnter ==
    ASSUME TypeInv, NEW s \in Workers, SafeInv(s), Backed, Asks(s), Enter(s)
    PROVE  Backed' /\ Asks(s)'
<1>1. Steady
  BY DEF Enter, Steady
<1>2. worker[s].run \in Runs /\ Mine(s).stage = worker[s].to
  BY MineTyped DEF Enter, HasRun, Asks
<1>3. CASE Goto(s, "pend")
  <2>1. /\ worker'[s].pc = "pend" /\ worker'[s].to = worker[s].to
        /\ worker'[s].run = worker[s].run
    BY <1>3 DEF Goto, TypeInv, TypeOK, Job
  <2>2. Asks(s)'
    BY <1>2, <2>1 DEF Asks, Enter, Mine
  <2> QED
    BY <1>1, <2>2, SteadyBacked
<1>4. ASSUME NEW to \in Stages, <<worker[s].to, to>> \in Follows,
             Move(s, Body(worker[s].to), worker[s].to, to, TRUE)
      PROVE  Asks(s)'
  <2>1. /\ worker'[s].pc = Body(worker[s].to) /\ worker'[s].to = to
        /\ worker'[s].from = worker[s].to /\ worker'[s].run = worker[s].run
    BY <1>4 DEF Move, Begin, TypeInv
  <2>2. worker[s].to \in PushStages => Mine(s).reviewed
    BY <1>2 DEF Backed, Mine
  <2>3. worker'[s].pc = "push" => worker[s].to = "git_push"
    BY <2>1 DEF Body
  <2>4. worker'[s].pc \notin {"enter", "pend", "gate", "review"}
    BY <2>1 DEF Body
  <2> QED
    BY <1>4, <2>1, <2>2, <2>3, <2>4, FollowsPush DEF Asks, PushStages, Enter, Mine
<1> QED
  BY <1>1, <1>3, <1>4, SteadyBacked DEF Enter

\* Sending a stage to its review keeps Backed and Asks.
LEMMA BackedPend ==
    ASSUME TypeInv, NEW s \in Workers, SafeInv(s), Backed, Asks(s), Pend(s)
    PROVE  Backed' /\ Asks(s)'
<1>1. /\ worker[s].run \in Runs /\ Mine(s) \in RunRow
      /\ Mine(s).stage = worker[s].to
  BY MineTyped DEF Pend, HasRun, Asks
<1>2. /\ \A r \in Runs : r # worker[s].run => runs'[r] = runs[r]
      /\ runs'[worker[s].run].stage = worker[s].to
      /\ runs'[worker[s].run].pending = worker[s].to
      /\ runs'[worker[s].run].reviewed = Mine(s).reviewed
  BY <1>1 DEF Pend, Mine, TypeInv, TypeOK, RunRow
<1>3. worker[s].to \in PushStages => Mine(s).reviewed
  BY <1>1 DEF Backed, Mine
<1>4. Backed'
  BY <1>2, <1>3, NoStagePush DEF Backed
<1>5. CASE Fail(s)
  BY <1>4, <1>5, FailModest, AsksModest
<1>6. CASE Move(s, "write", Mine(s).stage, Review, worker[s].nested)
  <2>1. /\ worker'[s].pc = "write" /\ worker'[s].to = Review
        /\ worker'[s].run = worker[s].run
    BY <1>6 DEF Move, Begin, TypeInv
  <2>2. Asks(s)'
    BY <1>2, <1>3, <2>1, NoStagePush DEF Asks, Mine
  <2> QED
    BY <1>4, <2>2
<1> QED
  BY <1>5, <1>6 DEF Pend

\* Beginning a review keeps Backed and Asks.
LEMMA BackedReviewRun ==
    ASSUME TypeInv, NEW s \in Workers, SafeInv(s), Backed, Asks(s), ReviewRun(s)
    PROVE  Backed' /\ Asks(s)'
<1>1. Steady
  BY DEF ReviewRun, Steady
<1>2. CASE Fail(s)
  BY <1>1, <1>2, FailModest, SteadyBacked, AsksModest
<1>3. CASE ~Fail(s)
  <2>1. /\ worker'[s].pc \in {"agent", "unpend"} /\ worker'[s].to = Mine(s).pending
        /\ worker'[s].run = worker[s].run
    BY <1>3 DEF ReviewRun, Move, Begin, TypeInv
  <2>2. Mine(s).pending \in PushStages => Mine(s).reviewed
    BY MineTyped DEF ReviewRun, HasRun, Asks, Backed, Mine
  <2>3. Asks(s)'
    BY <2>1, <2>2, NoStagePush DEF Asks, ReviewRun, Mine
  <2> QED
    BY <1>1, <2>3, SteadyBacked
<1> QED
  BY <1>2, <1>3

\* Releasing a stage from its review keeps Backed and Asks.
LEMMA BackedUnpend ==
    ASSUME TypeInv, NEW s \in Workers, SafeInv(s), Backed, Asks(s), Unpend(s)
    PROVE  Backed' /\ Asks(s)'
<1>1. worker[s].run \in Runs /\ Mine(s) \in RunRow
  BY MineTyped DEF Unpend, HasRun
<1>2. /\ \A r \in Runs : r # worker[s].run => runs'[r] = runs[r]
      /\ runs'[worker[s].run].stage = Mine(s).stage
      /\ runs'[worker[s].run].pending = NoStage
      /\ runs'[worker[s].run].reviewed = Mine(s).reviewed
  BY <1>1 DEF Unpend, Mine, TypeInv, TypeOK, RunRow
<1>3. Backed'
  BY <1>2, NoStagePush DEF Backed, Mine
<1>4. CASE Fail(s)
  BY <1>3, <1>4, FailModest, AsksModest
<1>5. CASE Goto(s, "write")
  <2>1. /\ worker'[s].pc = "write" /\ worker'[s].to = worker[s].to
        /\ worker'[s].from = worker[s].from /\ worker'[s].run = worker[s].run
    BY <1>5 DEF Goto, TypeInv, TypeOK, Job
  <2>2. Asks(s)'
    BY <1>2, <2>1, NoStagePush DEF Asks, Unpend, Mine
  <2> QED
    BY <1>3, <2>2
<1> QED
  BY <1>4, <1>5 DEF Unpend

\* A statement that leaves reviews alone and goes on with the same transition.
LEMMA GoesOn ==
    ASSUME TypeInv, NEW s \in Workers, Backed, Asks(s), Steady, worker[s].pc \in HasRun,
           NEW pc, Goto(s, pc), pc \in {"running", "unpend", "write"},
           worker[s].pc \in {"agent", "running", "push"}
    PROVE  Backed' /\ Asks(s)'
<1>1. /\ worker'[s].pc = pc /\ worker'[s].to = worker[s].to
      /\ worker'[s].from = worker[s].from /\ worker'[s].run = worker[s].run
  BY DEF Goto, TypeInv, TypeOK, Job
<1>2. /\ worker[s].run \in Runs
      /\ Mine(s)'.pending = Mine(s).pending /\ Mine(s)'.reviewed = Mine(s).reviewed
  BY <1>1, MineTyped DEF Steady, Mine
<1>3. Asks(s)'
  BY <1>1, <1>2 DEF Asks
<1> QED
  BY <1>3, SteadyBacked

\* Assigning an agent keeps Backed and Asks.
LEMMA BackedAgentAssign ==
    ASSUME TypeInv, NEW s \in Workers, SafeInv(s), Backed, Asks(s), AgentAssign(s)
    PROVE  Backed' /\ Asks(s)'
<1>1. Steady
  <2>1. Mine(s) \in RunRow
    BY MineTyped DEF AgentAssign, HasRun
  <2> QED
    BY <2>1 DEF AgentAssign, Steady, Owned, Mine, RunRow, TypeInv, TypeOK
<1> QED
  BY <1>1, GoesOn DEF AgentAssign, HasRun

\* An agent that succeeds keeps Backed and Asks.
LEMMA BackedAgentSucceeds ==
    ASSUME TypeInv, NEW s \in Workers, SafeInv(s), Backed, Asks(s), AgentSucceeds(s)
    PROVE  Backed' /\ Asks(s)'
<1>1. Steady
  BY DEF AgentSucceeds, Steady
<1> QED
  BY <1>1, GoesOn DEF AgentSucceeds, HasRun

\* A missing agent keeps Backed and Asks.
LEMMA BackedAgentMissing ==
    ASSUME TypeInv, NEW s \in Workers, SafeInv(s), Backed, Asks(s), AgentMissing(s)
    PROVE  Backed' /\ Asks(s)'
<1>1. Steady
  BY DEF AgentMissing, Steady
<1>2. worker'[s].pc \in Modest
  BY FailModest DEF AgentMissing
<1> QED
  BY <1>1, <1>2, SteadyBacked, AsksModest

\* An agent that fails keeps Backed and Asks.
LEMMA BackedAgentFails ==
    ASSUME TypeInv, NEW s \in Workers, SafeInv(s), Backed, Asks(s), AgentFails(s)
    PROVE  Backed' /\ Asks(s)'
<1>1. Steady
  <2>1. Mine(s) \in RunRow
    BY MineTyped DEF AgentFails, HasRun
  <2> QED
    BY <2>1 DEF AgentFails, Steady, Mine, RunRow, TypeInv, TypeOK
<1>2. worker'[s].pc \in Modest
  BY FailModest DEF AgentFails
<1> QED
  BY <1>1, <1>2, SteadyBacked, AsksModest

\* The push keeps Backed and Asks.
LEMMA BackedPush ==
    ASSUME TypeInv, NEW s \in Workers, SafeInv(s), Backed, Asks(s), Push(s)
    PROVE  Backed' /\ Asks(s)'
<1>1. Steady
  BY DEF Push, Steady
<1>2. CASE Fail(s)
  BY <1>1, <1>2, FailModest, SteadyBacked, AsksModest
<1>3. CASE Goto(s, "write")
  BY <1>1, <1>3, GoesOn DEF Push, HasRun
<1> QED
  BY <1>2, <1>3 DEF Push

\* Marking the stage failed keeps Backed and Asks.
LEMMA BackedMarkStage ==
    ASSUME TypeInv, NEW s \in Workers, SafeInv(s), Backed, Asks(s), MarkStage(s)
    PROVE  Backed' /\ Asks(s)'
<1>1. worker[s].run \in Runs /\ Mine(s) \in RunRow
  BY MineTyped DEF MarkStage, HasRun
<1>2. /\ \A r \in Runs : r # worker[s].run => runs'[r] = runs[r]
      /\ runs'[worker[s].run].stage = "failed"
  BY <1>1 DEF MarkStage, Mine, TypeInv, TypeOK, RunRow
<1>3. Backed'
  BY <1>2 DEF Backed, PushStages, Review
<1>4. worker'[s].pc \in Modest
  BY DEF MarkStage, Goto, Modest, TypeInv, TypeOK, Job
<1> QED
  BY <1>3, <1>4, AsksModest

\* Marking the status failed keeps Backed and Asks.
LEMMA BackedMarkStatus ==
    ASSUME TypeInv, NEW s \in Workers, SafeInv(s), Backed, Asks(s), MarkStatus(s)
    PROVE  Backed' /\ Asks(s)'
<1>1. Steady
  <2>1. Mine(s) \in RunRow
    BY MineTyped DEF MarkStatus, HasRun
  <2> QED
    BY <2>1 DEF MarkStatus, Steady, Mine, RunRow, TypeInv, TypeOK
<1>2. worker'[s].pc \in Modest
  BY FailModest DEF MarkStatus, Goto, Modest, TypeInv, TypeOK, Job
<1> QED
  BY <1>1, <1>2, SteadyBacked, AsksModest

\* A crash keeps Backed and Asks.
LEMMA BackedCrash ==
    ASSUME TypeInv, NEW s \in Workers, SafeInv(s), Backed, Asks(s), Crash(s)
    PROVE  Backed' /\ Asks(s)'
<1>1. Steady
  BY DEF Crash, Steady
<1>2. worker'[s].pc \in Modest
  BY FailModest DEF Crash
<1> QED
  BY <1>1, <1>2, SteadyBacked, AsksModest

\* Every step keeps Backed and Asks.
LEMMA BackedNext ==
    ASSUME TypeInv, NEW s, Servers = {s}, SafeInv(s), Backed, Asks(s), [Next]_vars
    PROVE  Backed' /\ Asks(s)'
<1>1. s \in Workers
  BY DEF Workers
<1>2. CASE Staff \/ UNCHANGED vars
  <2>1. UNCHANGED <<runs, worker>>
    BY <1>2 DEF Staff, vars
  <2> QED
    BY <2>1 DEF Backed, Asks, Mine
<1>3. CASE Request(s)
  BY <1>1, <1>3, BackedStartScan, BackedUserAction DEF Request
<1>4. CASE Step(s)
  BY <1>1, <1>4, BackedStartFind, BackedStartClose, BackedCreate, BackedCapacity,
     BackedAssign, BackedWriteStage, BackedWriteStatus, BackedGate, BackedRefuse,
     BackedEnter, BackedPend, BackedReviewRun, BackedUnpend, BackedAgentAssign,
     BackedAgentSucceeds, BackedAgentMissing, BackedAgentFails, BackedPush,
     BackedMarkStage, BackedMarkStatus DEF Step
<1>5. CASE Crash(s)
  BY <1>1, <1>5, BackedCrash
<1> QED
  BY <1>2, <1>3, <1>4, <1>5 DEF Next

\* With one server nothing is pushed that has no approved test review younger than
\* its last coding, whatever stages need a coordinator's review.
THEOREM ReviewedPushAlways ==
    ASSUME NEW s, Servers = {s}
    PROVE  Spec => ReviewedPush
<1> DEFINE Inv == TypeInv /\ SafeInv(s) /\ Backed /\ Asks(s)
<1>1. Init => Inv
  <2>1. Init => Backed /\ Asks(s)
    BY DEF Init, Backed, Asks, NewRow, PushStages, Review, Idle, Workers
  <2> QED
    BY <2>1, TypeInit, SafeInit
<1>2. Inv /\ [Next]_vars => Inv'
  BY TypeNext, SafeNext, BackedNext
<1>3. Inv /\ [Next]_vars => [PushReviewed]_vars
  BY DEF Push, Asks, PushReviewed
<1> HIDE DEF Inv
<1> QED
  BY <1>1, <1>2, <1>3, PTL DEF Spec, ReviewedPush, PushReviewed
=============================================================================
