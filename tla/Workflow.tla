------------------------------ MODULE Workflow ------------------------------
(***************************************************************************)
(* The delivery workflow of a work item: a row of workflow_runs walks      *)
(* through analysis, coding, tests, reviews and the push, each stage       *)
(* carried out by an agent, with coordinator reviews between stages and    *)
(* approval gates that wait for a person.                                  *)
(*                                                                         *)
(* A server (desktop application, headless server) holds one mutex around  *)
(* its workflow service from the request to the end of everything the      *)
(* request sets off, so worker[s] is the one request server s is carrying  *)
(* out: where it is, on which run, and which transition comes next.  Every *)
(* SQL statement and every agent run is a step, and the process may die    *)
(* between any two of them.                                                *)
(*                                                                         *)
(* One team owns every work item here, with one coordinator who may be     *)
(* disabled and enabled again.                                             *)
(***************************************************************************)
EXTENDS Integers, Sequences, FiniteSets

CONSTANTS
    Items,          \* approved work items
    Runs,           \* workflow run ids, a bound on how many are created
    Servers,        \* processes that serve requests on the database
    Operators,      \* calls of mark_workflow_run_failed, which take no mutex
    NoItem, NoRun, NoStage,
    Required,       \* stages that need a coordinator review (stage policies)
    MaxConcurrent,  \* max_concurrent_workflows of the team
    MaxCrashes      \* bound on the number of crashes

Pipeline == <<"requirement_analysis", "planning", "pending_plan_approval", "coding",
              "unit_test_generation", "integration_test_generation",
              "ui_test_planning", "docker_test_execution", "qa_validation",
              "security_review", "performance_review", "pending_test_review",
              "push_preparation", "git_push", "done">>

Review == "coordinator_review"
Terminal == {"done", "failed", "cancelled"}
Gates == {"pending_task_approval", "pending_plan_approval", "pending_test_review"}
Stages == {Pipeline[k] : k \in 1 .. 15} \cup Gates \cup Terminal
          \cup {"draft", Review, "blocked"}

\* Variant: the performance review may go straight on to the push.
FollowsUngated == {<<Pipeline[k], Pipeline[k + 1]>> : k \in 1 .. 14}
                  \cup {<<"performance_review", "push_preparation">>}

\* What a stage goes on to when it succeeds.
Follows == {<<Pipeline[k], Pipeline[k + 1]>> : k \in 1 .. 14}

\* Stages that must have a repository, and those an agent carries out.
RepoStages == {"coding", "unit_test_generation", "integration_test_generation",
               "ui_test_planning", "qa_validation", "security_review",
               "performance_review", "push_preparation", "git_push"}
AgentStages == {"requirement_analysis", "planning", "coding", "unit_test_generation",
                "integration_test_generation", "ui_test_planning", "qa_validation",
                "security_review", "performance_review"}
Reviewable == AgentStages \cup {"push_preparation"}

\* What an approval or a rejection does at a gate.
Decisions == {<<"pending_task_approval", "requirement_analysis">>,
              <<"pending_task_approval", "cancelled">>,
              <<"pending_plan_approval", "coding">>,
              <<"pending_plan_approval", "requirement_analysis">>,
              <<"pending_test_review", "push_preparation">>,
              <<"pending_test_review", "coding">>}

\* is_valid_transition
Valid == Follows \cup Decisions
         \cup {<<"draft", "pending_task_approval">>, <<"draft", "requirement_analysis">>}
         \cup (Reviewable \X {Review}) \cup ({Review} \X Reviewable)
         \cup ({"docker_test_execution", "qa_validation", "security_review",
                "performance_review"} \X {"coding"})

ASSUME RequiredAssumption == Required \subseteq Stages \ {Review}
ASSUME CapacityAssumption == MaxConcurrent \in Nat /\ MaxCrashes \in Nat
ASSUME NamesAssumption == /\ NoItem \notin Items /\ NoRun \notin Runs
                          /\ NoStage \notin Stages /\ Servers \cap Operators = {}

VARIABLES
    runs,           \* the rows of workflow_runs, with what belongs to them
    coordinator,    \* the team has an active coordinator
    worker,         \* the request each server or operator is carrying out
    crashes
vars == <<runs, coordinator, worker, crashes>>

\* failures: stages with a failed agent run.  reviewed: the stage history has an
\* approved test review that is younger than the last coding stage.
RunRow == [item : Items \cup {NoItem}, stage : Stages,
           status : {"absent", "running", "completed", "failed", "cancelled"},
           pending : Stages \cup {NoStage}, team : BOOLEAN, coord : BOOLEAN,
           failures : SUBSET Stages, reviewed : BOOLEAN]
NewRow(i, st) == [item |-> i, stage |-> "draft", status |-> st, pending |-> NoStage,
                  team |-> FALSE, coord |-> FALSE, failures |-> {}, reviewed |-> FALSE]

\* from, to: the transition the request is making, or (pc = "enter") the stage
\* it comes from and the one it is about to execute.  nested: the call is inside
\* a stage that will mark the run failed if an error comes back to it.
Job == [pc : {"idle", "find", "close", "create", "capacity", "assign", "enter",
              "pend", "review", "unpend", "agent", "running", "push", "write",
              "settle", "gate", "mark", "end"},
        item : Items \cup {NoItem}, run : Runs \cup {NoRun},
        from : Stages \cup {NoStage}, to : Stages \cup {NoStage}, nested : BOOLEAN]
Idle == [pc |-> "idle", item |-> NoItem, run |-> NoRun, from |-> NoStage,
         to |-> NoStage, nested |-> FALSE]

Workers == Servers \cup Operators

TypeOK == /\ runs \in [Runs -> RunRow]
          /\ coordinator \in BOOLEAN
          /\ worker \in [Workers -> Job]
          /\ crashes \in 0 .. MaxCrashes

Init == /\ runs = [r \in Runs |-> NewRow(NoItem, "absent")]
        /\ coordinator \in BOOLEAN
        /\ worker = [s \in Workers |-> Idle]
        /\ crashes = 0

-----------------------------------------------------------------------------
(* Helpers *)

Active(r) == runs[r].status = "running" /\ runs[r].stage \notin Terminal

\* Variant: the lookup forgets the status, or leaves out runs under review.
FoundAnyStatus(i) == {r \in Runs : runs[r].item = i /\ runs[r].stage \notin Terminal}
FoundWorking(i) == {r \in Runs : runs[r].item = i /\ Active(r) /\ runs[r].stage # Review}

\* find_active_workflow_for_work_item (one of them, should there be several)
Found(i) == {r \in Runs : runs[r].item = i /\ Active(r)}

Fresh == {r \in Runs : runs[r].status = "absent"}

\* The run server s works on.
Mine(s) == runs[worker[s].run]

\* set_workflow_assignment: the run with its team, and with coordinator c.
Owned(s, c) == [[Mine(s) EXCEPT !.team = TRUE] EXCEPT !.coord = c]

\* A step of the request of server s to its next statement.
Goto(s, pc) == worker' = [worker EXCEPT ![s].pc = pc]
Begin(s, pc, r, i, from, to, nested) ==
    worker' = [worker EXCEPT ![s] =
        [pc |-> pc, item |-> i, run |-> r, from |-> from, to |-> to, nested |-> nested]]
Move(s, pc, from, to, nested) ==
    Begin(s, pc, worker[s].run, worker[s].item, from, to, nested)
Return(s) == worker' = [worker EXCEPT ![s] = Idle]

\* An error: the innermost stage marks the run failed, otherwise the request
\* returns and leaves the run as it is.
Fail(s) == IF worker[s].nested THEN Goto(s, "mark") ELSE Return(s)

\* Variant: a status of its own for every terminal stage.
StatusByStage(st) == IF st \in Terminal THEN st ELSE "running"

StatusOf(st) == IF st = "done" THEN "completed"
                ELSE IF st \in Terminal THEN st ELSE "running"

-----------------------------------------------------------------------------
(* start_work_item_workflow *)

\* Its first statement closes the coordinator reviews that have no coordinator.
Orphaned(r) == /\ runs[r].status = "running" /\ runs[r].stage = Review
               /\ ~(runs[r].coord /\ coordinator)

StartScan(s, i) ==
    /\ worker[s].pc = "idle"
    /\ runs' = [r \in Runs |-> IF Orphaned(r) THEN [runs[r] EXCEPT !.status = "failed"]
                               ELSE runs[r]]
    /\ Begin(s, "find", NoRun, i, NoStage, NoStage, FALSE)
    /\ UNCHANGED <<coordinator, crashes>>

\* An active run is resumed where it stands.
Resume(s, i, r) ==
    LET st == runs[r].stage
    IN  \/ /\ st \in runs[r].failures
           /\ Begin(s, "mark", r, i, NoStage, NoStage, FALSE)
        \/ /\ st \notin runs[r].failures /\ st = "draft"
           /\ Begin(s, "write", r, i, "draft", "requirement_analysis", FALSE)
        \/ /\ st \notin runs[r].failures /\ st = Review
           /\ IF runs[r].pending = NoStage
              THEN Begin(s, "close", r, i, NoStage, NoStage, FALSE)
              ELSE Begin(s, "review", r, i, NoStage, Review, TRUE)
        \/ /\ st \notin runs[r].failures /\ st \in Gates \cup {"blocked"}
           /\ Return(s)
        \/ /\ st \notin runs[r].failures
           /\ st \notin Gates \cup {"blocked", "draft", Review}
           /\ Begin(s, "enter", r, i, NoStage, st, FALSE)

StartFind(s) ==
    /\ worker[s].pc = "find"
    /\ LET i == worker[s].item
       IN  IF Found(i) = {} THEN Goto(s, "create") ELSE \E r \in Found(i) : Resume(s, i, r)
    /\ UNCHANGED <<runs, coordinator, crashes>>

StartClose(s) ==
    /\ worker[s].pc = "close"
    /\ runs' = [runs EXCEPT ![worker[s].run].status = "failed"]
    /\ Return(s)
    /\ UNCHANGED <<coordinator, crashes>>

\* The insert; it fails when the bound on run ids is reached.
Create(s) ==
    /\ worker[s].pc = "create"
    /\ \/ /\ Fresh = {}
          /\ Return(s) /\ UNCHANGED runs
       \/ LET r == CHOOSE r \in Fresh : TRUE
          IN  /\ Fresh # {}
              /\ runs' = [runs EXCEPT ![r] = NewRow(worker[s].item, "running")]
              /\ Begin(s, "capacity", r, worker[s].item, NoStage, NoStage, FALSE)
    /\ UNCHANGED <<coordinator, crashes>>

\* A team at its capacity refuses the run, whose row stays behind in draft.
Capacity(s) ==
    /\ worker[s].pc = "capacity"
    /\ IF Cardinality({r \in Runs : Active(r) /\ runs[r].team}) >= MaxConcurrent
       THEN Return(s) ELSE Goto(s, "assign")
    /\ UNCHANGED <<runs, coordinator, crashes>>

Assign(s) ==
    /\ worker[s].pc = "assign"
    /\ runs' = [runs EXCEPT ![worker[s].run] = Owned(s, coordinator)]
    /\ Move(s, "write", "draft", "requirement_analysis", FALSE)
    /\ UNCHANGED <<coordinator, crashes>>

-----------------------------------------------------------------------------
(* handle_user_action *)

UserAction(s, r, to) ==
    /\ worker[s].pc = "idle"
    /\ runs[r].status # "absent"
    /\ <<runs[r].stage, to>> \in Decisions
    /\ Begin(s, "write", r, runs[r].item, runs[r].stage, to, FALSE)
    /\ UNCHANGED <<runs, coordinator, crashes>>

-----------------------------------------------------------------------------
(* execute_stage and the transitions it makes *)

\* transition_stage: the stage, then the status that goes with it.
WriteStage(s) ==
    /\ worker[s].pc = "write"
    /\ LET from == worker[s].from
           to == worker[s].to
           approved == from = "pending_test_review" /\ to = "push_preparation"
       IN  runs' = [runs EXCEPT ![worker[s].run] =
                       [[Mine(s) EXCEPT !.stage = to]
                           EXCEPT !.reviewed = approved \/ (@ /\ to # "coding")]]
    /\ Goto(s, "settle")
    /\ UNCHANGED <<coordinator, crashes>>

\* Then the stage reached is executed: a review, a gate (waits, unless an agent
\* stage came to it and the setting approves it), or the next working stage.
WriteStatus(s) ==
    /\ worker[s].pc = "settle"
    /\ LET to == worker[s].to
       IN  /\ runs' = [runs EXCEPT ![worker[s].run].status = StatusOf(to)]
           /\ CASE to \in Terminal -> Return(s)
                [] to = Review -> Move(s, "review", NoStage, Review, TRUE)
                [] to \in Gates -> Goto(s, "gate")
                [] OTHER -> Goto(s, "enter")
    /\ UNCHANGED <<coordinator, crashes>>

Gate(s) ==
    /\ worker[s].pc = "gate"
    /\ \/ Return(s)
       \/ \E to \in Stages : /\ <<worker[s].to, to>> \in Follows
                             /\ Move(s, "write", worker[s].to, to, TRUE)
    /\ UNCHANGED <<runs, coordinator, crashes>>

\* Variant: the stage that a review has just released is reviewed again.
NeedsReviewAgain(s) == worker[s].to \in Required /\ coordinator

\* bypass_coordinator_review is set for the stage a review has released.
NeedsReview(s) == worker[s].to \in Required /\ coordinator /\ worker[s].from # Review

\* The repository guard refuses the stage.
Refuse(s) ==
    /\ worker[s].pc = "enter"
    /\ worker[s].to \in RepoStages
    /\ Fail(s)
    /\ UNCHANGED <<runs, coordinator, crashes>>

Body(st) == IF st \in AgentStages THEN "agent" ELSE IF st = "git_push" THEN "push" ELSE "write"

Enter(s) ==
    /\ worker[s].pc = "enter"
    /\ IF NeedsReview(s) THEN Goto(s, "pend")
       ELSE \E to \in Stages : /\ <<worker[s].to, to>> \in Follows
                               /\ Move(s, Body(worker[s].to), worker[s].to, to, TRUE)
    /\ UNCHANGED <<runs, coordinator, crashes>>

\* prepare_coordinator_review
Pend(s) ==
    /\ worker[s].pc = "pend"
    /\ runs' = [runs EXCEPT ![worker[s].run].pending = worker[s].to]
    /\ IF <<Mine(s).stage, Review>> \in Valid
       THEN Move(s, "write", Mine(s).stage, Review, worker[s].nested)
       ELSE Fail(s)
    /\ UNCHANGED <<coordinator, crashes>>

\* execute_coordinator_review; without a coordinator the review is skipped.
ReviewRun(s) ==
    /\ worker[s].pc = "review"
    /\ IF Mine(s).pending = NoStage THEN Fail(s)
       ELSE Move(s, IF coordinator THEN "agent" ELSE "unpend", Review, Mine(s).pending, TRUE)
    /\ UNCHANGED <<runs, coordinator, crashes>>

Unpend(s) ==
    /\ worker[s].pc = "unpend"
    /\ runs' = [runs EXCEPT ![worker[s].run].pending = NoStage]
    /\ IF <<Review, worker[s].to>> \in Valid THEN Goto(s, "write") ELSE Fail(s)
    /\ UNCHANGED <<coordinator, crashes>>

\* run_agent_for_stage: the run is assigned to the team, the agent runs, and
\* either its output is stored or its failure.
AgentAssign(s) ==
    /\ worker[s].pc = "agent"
    /\ worker[s].from = Review => Mine(s).coord \/ coordinator
    /\ runs' = [runs EXCEPT ![worker[s].run] = Owned(s, Mine(s).coord \/ coordinator)]
    /\ Goto(s, "running")
    /\ UNCHANGED <<coordinator, crashes>>

AgentSucceeds(s) ==
    /\ worker[s].pc = "running"
    /\ Goto(s, IF worker[s].from = Review THEN "unpend" ELSE "write")
    /\ UNCHANGED <<runs, coordinator, crashes>>

\* No agent is found for the stage, or no model for the agent: no agent run is
\* stored that a later start could tell the failure from.
AgentMissing(s) ==
    /\ worker[s].pc \in {"agent", "running"}
    /\ Fail(s)
    /\ UNCHANGED <<runs, coordinator, crashes>>

\* Variant: the failed agent run is stored, its error is not passed on.
AgentFailsSilently(s) ==
    /\ worker[s].pc = "running"
    /\ runs' = [runs EXCEPT ![worker[s].run].failures = @ \cup {worker[s].from}]
    /\ Return(s)
    /\ UNCHANGED <<coordinator, crashes>>

AgentFails(s) ==
    /\ worker[s].pc = "running"
    /\ runs' = [runs EXCEPT ![worker[s].run].failures = @ \cup {worker[s].from}]
    /\ Fail(s)
    /\ UNCHANGED <<coordinator, crashes>>

\* Commit and push; nothing to commit is a success.
Push(s) ==
    /\ worker[s].pc = "push"
    /\ Goto(s, "write") \/ Fail(s)
    /\ UNCHANGED <<runs, coordinator, crashes>>

-----------------------------------------------------------------------------
(* mark_workflow_failed; every enclosing stage repeats it, to no effect *)

MarkStage(s) ==
    /\ worker[s].pc = "mark"
    /\ runs' = [runs EXCEPT ![worker[s].run].stage = "failed"]
    /\ Goto(s, "end")
    /\ UNCHANGED <<coordinator, crashes>>

\* A start that closed a stale run goes on to create a new one.
MarkStatus(s) ==
    /\ worker[s].pc = "end"
    /\ runs' = [runs EXCEPT ![worker[s].run].status = "failed"]
    /\ IF worker[s].nested THEN Return(s) ELSE Goto(s, "create")
    /\ UNCHANGED <<coordinator, crashes>>

-----------------------------------------------------------------------------
(* The environment *)

Staff == coordinator' = ~coordinator /\ UNCHANGED <<runs, worker, crashes>>

Crash(s) ==
    /\ crashes < MaxCrashes
    /\ worker[s].pc # "idle"
    /\ crashes' = crashes + 1
    /\ Return(s)
    /\ UNCHANGED <<runs, coordinator>>

\* mark_workflow_run_failed, the operator's override, takes no mutex.
Override(o, r) ==
    /\ worker[o].pc = "idle"
    /\ runs[r].status # "absent"
    /\ Begin(o, "mark", r, runs[r].item, NoStage, NoStage, TRUE)
    /\ UNCHANGED <<runs, coordinator, crashes>>

-----------------------------------------------------------------------------

Request(s) == \/ \E i \in Items : StartScan(s, i)
              \/ \E r \in Runs, to \in Stages : UserAction(s, r, to)

Step(s) == \/ StartFind(s) \/ StartClose(s) \/ Create(s) \/ Capacity(s) \/ Assign(s)
           \/ WriteStage(s) \/ WriteStatus(s) \/ Gate(s) \/ Refuse(s) \/ Enter(s)
           \/ Pend(s) \/ ReviewRun(s) \/ Unpend(s)
           \/ AgentAssign(s) \/ AgentSucceeds(s) \/ AgentMissing(s) \/ AgentFails(s)
           \/ Push(s) \/ MarkStage(s) \/ MarkStatus(s)

Next == Staff \/ \E s \in Servers : Request(s) \/ Step(s) \/ Crash(s)

\* A request that has begun is carried on until it returns or its process dies.
Spec == Init /\ [][Next]_vars /\ \A s \in Servers : WF_vars(Step(s))

OverrideNext == \/ Next
                \/ \E o \in Operators, r \in Runs : Override(o, r)
                \/ \E o \in Operators : MarkStage(o) \/ MarkStatus(o)

OverrideSpec == Init /\ [][OverrideNext]_vars

-----------------------------------------------------------------------------
(* Properties *)

\* A work item has at most one active run: start resumes or closes the one there
\* is before it creates another, also after a crash at any statement.
OneActive == \A q, r \in Runs : Active(q) /\ Active(r) /\ runs[q].item = runs[r].item => q = r

\* A run that has ended (its status, or its stage) never moves again: no resumed
\* request, late approval or review brings it back.
EndedIsFinal ==
    [][\A r \in Runs :
          /\ runs[r].status \in {"completed", "failed", "cancelled"} =>
                runs'[r].status = runs[r].status /\ runs'[r].stage = runs[r].stage
          /\ runs[r].stage \in Terminal => runs'[r].stage = runs[r].stage]_vars

\* Nothing is pushed unless the test review was approved after the last coding.
ReviewedPush == [][\A s \in Servers : Push(s) => Mine(s).reviewed]_vars

\* A request that returns leaves its run ended or waiting for a person, except
\* where the repository guard or the team's capacity turned it away.
Rests ==
    [][\A s \in Servers, r \in Runs :
          /\ worker[s].run = r /\ worker[s].pc \notin {"enter", "capacity"}
          /\ worker'[s].pc = "idle" /\ crashes' = crashes
          => ~Active(r)' \/ runs'[r].stage \in Gates]_vars

\* Every request comes to an end, and so gives the mutex back: the stages a
\* request sets off, and the reviews between them, do not go round in circles.
Returns == \A s \in Servers : worker[s].pc # "idle" ~> worker[s].pc = "idle"

\* "Team is at capacity": a team never has more active runs than it may.
WithinCapacity == Cardinality({r \in Runs : Active(r) /\ runs[r].team}) <= MaxConcurrent
=============================================================================
