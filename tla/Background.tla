---------------------------- MODULE Background ----------------------------
(***************************************************************************)
(* The work a process of the application spawns and answers before it is   *)
(* done: runs of an external coding tool on a work item, and imports of a  *)
(* file.  Each has a row in the database, running or pending as long as    *)
(* its task is under way, and a task, a record in jobs, whose steps are    *)
(* the statements it executes.  A process that starts takes every row that *)
(* is not ended for one a crash left behind and fails it.                  *)
(*                                                                         *)
(* There is one work item.  Its workflow runs are named by the tool run    *)
(* that created them, or First.  The engine that moves workflow runs is    *)
(* Engine here; Workflow has its steps.  Rows of an import are counted in  *)
(* chunks.                                                                 *)
(***************************************************************************)
EXTENDS Integers

CONSTANTS
    Procs,      \* processes on the same database
    Runs,       \* runs of the tool
    Imports,
    First,      \* a workflow run from before
    Chunks,     \* bound on the chunks of a file
    MaxActs     \* bound on crashes and on what others do to the item, by rough

VARIABLES
    table,      \* the rows
    jobs,       \* the tasks
    procs,      \* where each process is with its start
    log,        \* alone: never two processes at once;
                \* lost: the rows whose end could not be written, or that were
                \* written and could not be read back
    rough,      \* FALSE: no statement fails, and one tool run at a time has
                \* the item, which nobody else moves meanwhile
    acts

vars == <<table, jobs, procs, log, rough, acts>>

Tasks == Runs \cup Imports
Flows == Runs \cup {First}
Absent == [stage |-> "none", live |-> FALSE]

------------------------------------------------------------------------------
(* Helpers *)

Goes(j, at) == jobs' = (jobs \ {j}) \cup {[j EXCEPT !.at = at]}
Ends(j) == jobs' = jobs \ {j}
Begun(p, t) == jobs' = jobs \cup {[of |-> t, proc |-> p, at |-> "begin", ok |-> FALSE,
                                   noted |-> FALSE, flow |-> First, total |-> 0]}

RunGoes(r, s) == table' = [table EXCEPT !.run[r] = s]
ImportGoes(i, s) == table' = [table EXCEPT !.import[i].status = s]

Still == UNCHANGED <<procs, log, rough, acts>>
Acts == acts < MaxActs[rough] /\ acts' = acts + 1

Using == {j \in jobs : j.of \in Runs}
Active == {f \in Flows : table.flow[f].live}      \* find_active_workflow_for_work_item

------------------------------------------------------------------------------
(* A run of the tool *)

\* The row is written and read back, the task spawned, and the row answered.
SubmitRun(p, r) ==
    /\ procs[p] = "up" /\ table.run[r] = "none"
    /\ rough \/ Using = {}
    /\ RunGoes(r, "running")
    /\ \/ Begun(p, r) /\ UNCHANGED log
       \/ rough /\ UNCHANGED jobs /\ log' = [log EXCEPT !.lost = @ \cup {r}]
    /\ UNCHANGED <<procs, rough, acts>>

\* A statement of the task fails, and the task's last word is that.
RunBreaks(j) ==
    /\ rough /\ j.at \in {"begin", "child", "drain", "done"}
    /\ Goes(j, "fallback")
    /\ UNCHANGED table
    /\ Still

Launch(j) ==
    /\ j.at = "begin"
    /\ Goes(j, "child") \/ Goes(j, "done")      \* the second: no such command
    /\ UNCHANGED table
    /\ Still

\* The child exits, or is killed after its time.
Exit(j) ==
    /\ j.at = "child"
    /\ \E ok \in BOOLEAN : jobs' = (jobs \ {j}) \cup {[j EXCEPT !.at = "drain", !.ok = ok]}
    /\ UNCHANGED table
    /\ Still

\* Both pipes of the child are closed, and what changed in the workspace read.
Drain(j) ==
    /\ j.at = "drain"
    /\ Goes(j, IF j.ok THEN "item" ELSE "done")
    /\ UNCHANGED table
    /\ Still

\* A statement of the checkpoint fails: the run is completed with an error.
CheckpointBreaks(j) ==
    /\ rough /\ j.at \in {"item", "find", "create", "move", "status", "note"}
    /\ Goes(j, "done")
    /\ UNCHANGED table
    /\ Still

ItemToReview(j) ==
    /\ j.at = "item"
    /\ table' = [table EXCEPT !.item = IF @ = "done" THEN "done" ELSE "review"]
    /\ Goes(j, "find")
    /\ Still

\* Any active run may be the last that was updated.
FindFlow(j) ==
    /\ j.at = "find"
    /\ IF Active = {} THEN Goes(j, "create")
       ELSE \E f \in Active :
              LET there == table.flow[f].stage = "review" IN
              jobs' = (jobs \ {j}) \cup
                  {[j EXCEPT !.flow = f, !.noted = there, !.at = IF there THEN "done" ELSE "move"]}
    /\ UNCHANGED table
    /\ Still

CreateFlow(j) ==
    /\ j.at = "create"
    /\ table' = [table EXCEPT !.flow[j.of] = [stage |-> "draft", live |-> TRUE]]
    /\ jobs' = (jobs \ {j}) \cup {[j EXCEPT !.flow = j.of, !.at = "move"]}
    /\ Still

MoveFlow(j) ==
    /\ j.at = "move"
    /\ table' = [table EXCEPT !.flow[j.flow].stage = "review"]
    /\ Goes(j, "status")
    /\ Still

\* The run is running, whatever it was.
FlowRuns(j) ==
    /\ j.at = "status"
    /\ table' = [table EXCEPT !.flow[j.flow].live = TRUE]
    /\ Goes(j, "note")
    /\ Still

\* The move is recorded last, and stays when this fails.
NoteMove(j) ==
    /\ j.at = "note"
    /\ jobs' = (jobs \ {j}) \cup {[j EXCEPT !.noted = TRUE, !.at = "done"]}
    /\ UNCHANGED table
    /\ Still

\* The artifact is stored.  complete_external_cli_run writes whatever the row
\* says by now, and its own reading of the row may fail after that.
CompleteRun(j) ==
    /\ j.at = "done"
    /\ RunGoes(j.of, IF j.ok THEN "completed" ELSE "failed")
    /\ Ends(j) \/ (rough /\ Goes(j, "fallback"))
    /\ Still

Fallback(j) ==
    /\ j.at = "fallback"
    /\ Ends(j)
    /\ \/ RunGoes(j.of, "failed") /\ UNCHANGED log
       \/ rough /\ UNCHANGED table /\ log' = [log EXCEPT !.lost = @ \cup {j.of}]
    /\ UNCHANGED <<procs, rough, acts>>

------------------------------------------------------------------------------
(* An import *)

SubmitImport(p, i) ==
    /\ procs[p] = "up" /\ table.import[i].status = "none"
    /\ ImportGoes(i, "pending")
    /\ Begun(p, i)
    /\ Still

\* The file cannot be read or understood, or one of its rows refused.
ImportBreaks(j) ==
    /\ \/ j.at \in {"begin", "check", "chunk"}
       \/ rough /\ j.at \in {"mark", "progress", "complete"}
    /\ Goes(j, "error")
    /\ UNCHANGED table
    /\ Still

ReadFile(j) ==
    /\ j.at = "begin"
    /\ \E n \in 1 .. Chunks : jobs' = (jobs \ {j}) \cup {[j EXCEPT !.at = "mark", !.total = n]}
    /\ UNCHANGED table
    /\ Still

MarkRunning(j) ==
    /\ j.at = "mark"
    /\ table' = [table EXCEPT !.import[j.of].status = "running", !.import[j.of].total = j.total]
    /\ Goes(j, "check")
    /\ Still

CheckProducts(j) ==
    /\ j.at = "check"
    /\ Goes(j, "chunk")
    /\ UNCHANGED table
    /\ Still

\* The rows of a chunk are committed, and counted afterwards.
UpsertChunk(j) ==
    /\ j.at = "chunk"
    /\ table' = [table EXCEPT !.rows[j.of] = @ + 1]
    /\ Goes(j, "progress")
    /\ Still

CountChunk(j) ==
    /\ j.at = "progress"
    /\ table' = [table EXCEPT !.import[j.of].count = @ + 1]
    /\ Goes(j, IF table.rows[j.of] = j.total THEN "complete" ELSE "chunk")
    /\ Still

CompleteImport(j) ==
    /\ j.at = "complete"
    /\ ImportGoes(j.of, "completed")
    /\ Ends(j)
    /\ Still

FailImport(j) ==
    /\ j.at = "error"
    /\ Ends(j)
    /\ \/ ImportGoes(j.of, "failed") /\ UNCHANGED log
       \/ rough /\ UNCHANGED table /\ log' = [log EXCEPT !.lost = @ \cup {j.of}]
    /\ UNCHANGED <<procs, rough, acts>>

ImportStep(j) ==
    \/ ImportBreaks(j) \/ ReadFile(j) \/ MarkRunning(j) \/ CheckProducts(j)
    \/ UpsertChunk(j) \/ CountChunk(j) \/ CompleteImport(j) \/ FailImport(j)

------------------------------------------------------------------------------
(* Processes *)

Start(p) ==
    /\ procs[p] = "down"
    /\ procs' = [procs EXCEPT ![p] = "events"]
    /\ log' = [log EXCEPT !.alone = @ /\ \A q \in Procs : procs[q] = "down"]
    /\ UNCHANGED <<table, jobs, rough, acts>>

\* mark_interrupted_external_cli_runs notes an event for every running row.
\* The event's key is the row and the second: a start beside another fails.
RecoverEvents(p) ==
    /\ procs[p] = "events"
    /\ \/ procs' = [procs EXCEPT ![p] = "runs"]
       \/ /\ rough \/ \E q \in Procs : procs[q] = "runs"
          /\ procs' = [procs EXCEPT ![p] = "down"]
    /\ UNCHANGED <<table, jobs, log, rough, acts>>

RecoverRuns(p) ==
    /\ procs[p] = "runs"
    /\ procs' = [procs EXCEPT ![p] = "imports"]
    /\ table' = [table EXCEPT !.run =
                    [r \in Runs |-> IF @[r] = "running" THEN "failed" ELSE @[r]]]
    /\ UNCHANGED <<jobs, log, rough, acts>>

\* Variant: only running imports are looked for.
RecoverRunning(p) ==
    /\ procs[p] = "imports"
    /\ procs' = [procs EXCEPT ![p] = "up"]
    /\ table' = [table EXCEPT !.import =
                    [i \in Imports |-> IF @[i].status = "running"
                                       THEN [@[i] EXCEPT !.status = "failed"] ELSE @[i]]]
    /\ UNCHANGED <<jobs, log, rough, acts>>
RecoverImports(p) ==
    /\ procs[p] = "imports"
    /\ procs' = [procs EXCEPT ![p] = "up"]
    /\ table' = [table EXCEPT !.import =
                    [i \in Imports |-> IF @[i].status \in {"pending", "running"}
                                       THEN [@[i] EXCEPT !.status = "failed"] ELSE @[i]]]
    /\ UNCHANGED <<jobs, log, rough, acts>>

\* Its tasks are gone; a child they had started is not waited for any more.
Crash(p) ==
    /\ procs[p] # "down"
    /\ Acts
    /\ procs' = [procs EXCEPT ![p] = "down"]
    /\ jobs' = {j \in jobs : j.proc # p}
    /\ UNCHANGED <<table, log, rough>>

------------------------------------------------------------------------------
(* The item's other movers *)

\* The engine moves a workflow run on, sends it back, or ends it.
Engine(f) ==
    /\ f \in Active /\ (rough \/ Using = {})
    /\ Acts
    /\ \E s \in {"draft", "review", "ended"} :
         table' = [table EXCEPT !.flow[f] = [stage |-> s, live |-> s # "ended"],
                                !.item = IF s = "ended" THEN "done" ELSE @]
    /\ UNCHANGED <<jobs, procs, log, rough>>

\* A person sets the item's status.
SetStatus(s) ==
    /\ rough \/ Using = {}
    /\ Acts
    /\ table' = [table EXCEPT !.item = s]
    /\ UNCHANGED <<jobs, procs, log, rough>>

------------------------------------------------------------------------------
Init ==
    /\ \E f \in {Absent, [stage |-> "draft", live |-> TRUE]} :
         table = [run |-> [r \in Runs |-> "none"],
                  import |-> [i \in Imports |-> [status |-> "none", total |-> 0, count |-> 0]],
                  rows |-> [i \in Imports |-> 0],
                  item |-> "open",
                  flow |-> [g \in Flows |-> IF g = First THEN f ELSE Absent]]
    /\ jobs = {}
    /\ procs = [p \in Procs |-> "down"]
    /\ log = [alone |-> TRUE, lost |-> {}]
    /\ rough \in BOOLEAN
    /\ acts = 0

RunStep(j) ==
    \/ RunBreaks(j) \/ Launch(j) \/ Exit(j) \/ Drain(j)
    \/ CheckpointBreaks(j) \/ ItemToReview(j) \/ FindFlow(j) \/ CreateFlow(j)
    \/ MoveFlow(j) \/ FlowRuns(j) \/ NoteMove(j) \/ CompleteRun(j) \/ Fallback(j)

Process(p) ==
    \/ \E r \in Runs : SubmitRun(p, r)
    \/ \E i \in Imports : SubmitImport(p, i)
    \/ Start(p) \/ RecoverEvents(p) \/ RecoverRuns(p) \/ RecoverImports(p) \/ Crash(p)

Next ==
    \/ \E p \in Procs : Process(p)
    \/ \E j \in jobs : IF j.of \in Runs THEN RunStep(j) ELSE ImportStep(j)
    \/ \E f \in Flows : Engine(f)
    \/ \E s \in {"open", "done"} : SetStatus(s)

Spec == Init /\ [][Next]_vars

------------------------------------------------------------------------------
(* Types *)

RunTasks == [of : Runs, proc : Procs,
             at : {"begin", "child", "drain", "item", "find", "create", "move", "status",
                   "note", "done", "fallback"},
             ok : BOOLEAN, noted : BOOLEAN, flow : Flows, total : 0 .. Chunks]
ImportTasks == [of : Imports, proc : Procs,
                at : {"begin", "mark", "check", "chunk", "progress", "complete", "error"},
                ok : BOOLEAN, noted : BOOLEAN, flow : Flows, total : 0 .. Chunks]

Tables == [run : [Runs -> {"none", "running", "completed", "failed"}],
           import : [Imports -> [status : {"none", "pending", "running", "completed", "failed"},
                                 total : 0 .. Chunks, count : 0 .. Chunks]],
           rows : [Imports -> 0 .. Chunks],
           item : {"open", "review", "done"},
           flow : [Flows -> [stage : {"none", "draft", "review", "ended"}, live : BOOLEAN]]]

\* What the module keeps has the types the code gives it, and a row has one
\* task at most (run_external_cli_for_work_item, submit_bulk_import).
TypeOK ==
    /\ table \in Tables
    /\ jobs \subseteq RunTasks \cup ImportTasks
    /\ \A j, k \in jobs : j.of = k.of => j = k
    /\ procs \in [Procs -> {"down", "events", "runs", "imports", "up"}]
    /\ log \in [alone : BOOLEAN, lost : SUBSET Tasks]
    /\ rough \in BOOLEAN

------------------------------------------------------------------------------
(* Properties *)

Open(t) == IF t \in Runs THEN table.run[t] = "running"
           ELSE table.import[t].status \in {"pending", "running"}

\* What an import reports fits what it wrote: at most the chunk that was
\* committed last is not counted, and a completed import is whole
\* (upsert_all, update_job_progress, mark_job_completed).
Whole ==
    \A i \in Imports :
        LET row == table.import[i] IN
        /\ table.rows[i] \in {row.count, row.count + 1}
        /\ row.status = "completed" => row.count = row.total /\ table.rows[i] = row.total

\* While one process runs at a time, nobody ends a row whose task is under way
\* (mark_interrupted_external_cli_runs, mark_interrupted_jobs).
OwnEnd == log.alone => \A j \in jobs : j.at # "fallback" => Open(j.of)

\* While one process runs at a time, a row that is not ended has its task, or a
\* start is still to come, or a statement about it failed.  A process that
\* crashes beside another leaves its rows to the next start.
NotForgotten ==
    log.alone => \A t \in Tasks :
        Open(t) => \/ \E j \in jobs : j.of = t
                   \/ t \in log.lost
                   \/ \A p \in Procs : procs[p] # "up"

\* A tool run that nobody disturbed ends with its item under review, or done,
\* and its workflow run waiting for that review, the only active one
\* (record_successful_external_cli_review_checkpoint).
Checkpointed ==
    ~ rough =>
        /\ \A f, g \in Active : f = g
        /\ \A j \in jobs :
             j.of \in Runs /\ j.at = "done" /\ j.ok =>
                 /\ j.noted /\ table.item \in {"review", "done"}
                 /\ table.flow[j.flow] = [stage |-> "review", live |-> TRUE]

\* What the rows report of a task is what the task did.
AsReported == Whole /\ OwnEnd /\ NotForgotten /\ Checkpointed
=============================================================================
