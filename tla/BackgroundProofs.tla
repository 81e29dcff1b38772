-------------------------- MODULE BackgroundProofs --------------------------
(***************************************************************************)
(* Proofs about Background, for any sets of processes, runs and imports:   *)
(* types, and AsReported.  The invariant adds to the parts of AsReported   *)
(* why they last.  One process at a time is why a start finds no task      *)
(* (OneProc, Up); the order of its statements is why it leaves no row open *)
(* (Swept); what a task has counted at each of its statements is why an    *)
(* import is whole (Counting); what the checkpoint has done at each of     *)
(* its statements, and that the item has one run of the tool and one       *)
(* workflow run, is why the run ends as reported (Reviewing, Single).      *)
(***************************************************************************)
EXTENDS Background, TLAPS

\* The tasks are those of processes that are up.
Up == \A j \in jobs : procs[j.proc] = "up"

\* log.alone says what it is named for.
OneProc ==
    log.alone => \A p, q \in Procs : procs[p] # "down" /\ procs[q] # "down" => p = q

\* A start that has come to the imports has ended the runs.
Swept ==
    log.alone => \A p \in Procs : procs[p] = "imports" => \A r \in Runs : table.run[r] # "running"

\* A task has a row that was submitted and is not completed; before that a row
\* counts nothing.
Submitted ==
    /\ \A j \in jobs : IF j.of \in Runs THEN table.run[j.of] # "none"
                      ELSE table.import[j.of].status \notin {"none", "completed"}
    /\ \A i \in Imports : table.import[i].status = "none" => table.rows[i] = 0 /\ table.import[i].count = 0

\* What the task of an import has written and counted before each statement.
Counted(j) ==
    LET row == table.import[j.of]
        rows == table.rows[j.of]
    IN  /\ j.at \in {"begin", "mark"} => rows = 0 /\ row.count = 0
        /\ j.at # "begin" /\ j.at # "error" => j.total > 0
        /\ j.at \in {"check", "chunk", "progress", "complete"} => row.total = j.total
        /\ j.at = "check" => rows = 0 /\ row.count = 0
        /\ j.at = "chunk" => rows = row.count /\ rows < j.total
        /\ j.at = "progress" => rows = row.count + 1 /\ rows <= j.total
        /\ j.at = "complete" => rows = row.count /\ rows = j.total

\* Counted, of every import under way.
Counting == \A j \in jobs : j.of \in Imports => Counted(j)

\* Undisturbed, the item has one run of the tool and one active workflow run.
Single ==
    ~ rough => /\ \A j, k \in Using : j = k
               /\ \A f, g \in Active : f = g

\* What the checkpoint of an undisturbed run has done before each statement.
Reviewed(j) ==
    /\ j.at # "fallback"
    /\ j.at \in {"begin", "child"} => ~ j.ok
    /\ j.at \in {"item", "find", "create", "move", "status", "note"} => j.ok
    /\ j.ok /\ j.at \in {"find", "create", "move", "status", "note", "done"} =>
         table.item \in {"review", "done"}
    /\ j.at = "create" => Active = {}
    /\ j.at = "move" => table.flow[j.flow].live
    /\ j.at \in {"status", "note"} => table.flow[j.flow] = [stage |-> "review", live |-> TRUE]
    /\ j.at = "done" /\ j.ok =>
         j.noted /\ table.flow[j.flow] = [stage |-> "review", live |-> TRUE]

\* Reviewed, of every undisturbed run.
Reviewing == ~ rough => \A j \in Using : Reviewed(j)

\* The inductive invariant.
IInv == TypeOK /\ Up /\ OneProc /\ Swept /\ Submitted /\ Counting /\ Whole /\ OwnEnd /\ NotForgotten
        /\ Single /\ Reviewing

\* The task j goes on as k.
Moves(j, k) == k.of = j.of /\ k.proc = j.proc /\ jobs' = (jobs \ {j}) \cup {k}

\* The task of a run is typed as one, any other as an import's.
LEMMA TaskKinds ==
    ASSUME Runs \cap Imports = {}, TypeOK, NEW j \in jobs
    PROVE  /\ j.of \in Runs => j \in RunTasks
           /\ j.of \notin Runs => j \in ImportTasks /\ j.of \in Imports
  BY DEF TypeOK, RunTasks, ImportTasks

\* A task that goes on keeps the types, and every row that is open keeps its task.
LEMMA TaskTyped ==
    ASSUME Runs \cap Imports = {}, IInv, Still, NEW j \in jobs, table' \in Tables,
           NEW k \in RunTasks \cup ImportTasks, Moves(j, k),
           \A t \in Tasks \ {j.of} : Open(t)' => Open(t)
    PROVE  TypeOK' /\ Up' /\ OneProc' /\ NotForgotten'
<1>1. TypeOK'
  BY DEF IInv, TypeOK, Moves, Still
<1>2. Up' /\ OneProc'
  BY DEF IInv, Up, OneProc, Moves, Still
<1>3. ASSUME log'.alone, NEW t \in Tasks, Open(t)'
      PROVE  (\E l \in jobs' : l.of = t) \/ t \in log'.lost \/ \A p \in Procs : procs'[p] # "up"
  <2>1. CASE t = j.of
    BY <2>1 DEF Moves
  <2>2. CASE t # j.of
    <3>1. Open(t) /\ log.alone
      BY <1>3, <2>2 DEF Still
    <3>2. (\E l \in jobs : l.of = t) \/ t \in log.lost \/ \A p \in Procs : procs[p] # "up"
      BY <3>1 DEF IInv, NotForgotten
    <3>3. ASSUME NEW l \in jobs, l.of = t
          PROVE  l \in jobs'
      BY <2>2, <3>3 DEF Moves
    <3> QED
      BY <3>2, <3>3 DEF Still
  <2> QED
    BY <2>1, <2>2
<1> QED
  BY <1>1, <1>2, <1>3 DEF NotForgotten

\* A task that ends closes its row, or the write of that end is lost.
LEMMA TaskOver ==
    ASSUME Runs \cap Imports = {}, IInv, NEW j \in jobs, table' \in Tables, jobs' = jobs \ {j},
           log'.alone = log.alone, log.lost \subseteq log'.lost, log' \in [alone : BOOLEAN, lost : SUBSET Tasks],
           procs' = procs, rough' = rough,
           \A t \in Tasks \ {j.of} : Open(t)' => Open(t),
           Open(j.of)' => j.of \in log'.lost
    PROVE  TypeOK' /\ Up' /\ OneProc' /\ NotForgotten'
<1>1. TypeOK'
  BY DEF IInv, TypeOK
<1>2. Up' /\ OneProc'
  BY DEF IInv, Up, OneProc
<1>3. ASSUME log'.alone, NEW t \in Tasks, Open(t)'
      PROVE  (\E l \in jobs' : l.of = t) \/ t \in log'.lost \/ \A p \in Procs : procs'[p] # "up"
  <2>1. CASE t = j.of
    BY <1>3, <2>1
  <2>2. CASE t # j.of
    <3>1. Open(t) /\ log.alone
      BY <1>3, <2>2
    <3>2. (\E l \in jobs : l.of = t) \/ t \in log.lost \/ \A p \in Procs : procs[p] # "up"
      BY <3>1 DEF IInv, NotForgotten
    <3> QED
      BY <2>2, <3>2
  <2> QED
    BY <2>1, <2>2
<1> QED
  BY <1>1, <1>2, <1>3 DEF NotForgotten

\* A step of a run that writes no row of a run or an import keeps what is said of them.
LEMMA RunFrame ==
    ASSUME Runs \cap Imports = {}, IInv, NEW j \in jobs, j.of \in Runs, j.at # "fallback",
           NEW k \in RunTasks, Moves(j, k), Still, table' \in Tables,
           table'.run = table.run, table'.import = table.import, table'.rows = table.rows
    PROVE  /\ TypeOK' /\ Up' /\ OneProc' /\ Swept' /\ Submitted' /\ Counting' /\ Whole'
           /\ OwnEnd' /\ NotForgotten'
<1>1. \A t \in Tasks : Open(t)' = Open(t)
  BY DEF Open
<1>2. TypeOK' /\ Up' /\ OneProc' /\ NotForgotten'
  BY <1>1, TaskTyped
<1>3. Swept' /\ Whole'
  BY DEF IInv, Swept, Whole, Still
<1>4. Submitted'
  BY DEF IInv, Submitted, Moves
<1>5. Counting'
  BY DEF IInv, Counting, Counted, Moves
<1>6. OwnEnd'
  BY DEF IInv, OwnEnd, Open, Moves, Still
<1> QED
  BY <1>2, <1>3, <1>4, <1>5, <1>6

\* A step of a run keeps what is said of the checkpoint if it does so for its task.
LEMMA RunReviewed ==
    ASSUME IInv, NEW j \in jobs, j.of \in Runs, NEW k \in RunTasks, Moves(j, k), Still,
           ~ rough => (\A f, g \in Active' : f = g) /\ Reviewed(k)'
    PROVE  Single' /\ Reviewing'
<1>1. CASE rough
  BY <1>1 DEF Single, Reviewing, Still
<1>2. CASE ~ rough
  <2>1. \A l \in Using' : l = k
    BY <1>2 DEF IInv, Single, Using, Moves
  <2> QED
    BY <1>2, <2>1 DEF Single, Reviewing
<1> QED
  BY <1>1, <1>2

\* A step of an import keeps the invariant if it does so for its task's count.
LEMMA ImportFrame ==
    ASSUME Runs \cap Imports = {}, IInv, NEW j \in jobs, j \in ImportTasks,
           NEW k \in ImportTasks, Moves(j, k), Still, table' \in Tables,
           table'.run = table.run, table'.item = table.item, table'.flow = table.flow,
           \A i \in Imports \ {j.of} : table'.import[i] = table.import[i] /\ table'.rows[i] = table.rows[i],
           table'.import[j.of].status \in {table.import[j.of].status, "running"},
           table'.rows[j.of] \in {table'.import[j.of].count, table'.import[j.of].count + 1},
           Counted(k)'
    PROVE  IInv'
<1>1. j.of \in Imports /\ j.of \notin Runs /\ k.of \in Imports /\ k.of = j.of /\ k.at # "fallback" /\ j.at # "fallback"
  BY DEF ImportTasks, Moves
<1>2. \A t \in Tasks \ {j.of} : Open(t)' => Open(t)
  BY DEF Open, Tasks
<1>3. TypeOK' /\ Up' /\ OneProc' /\ NotForgotten'
  BY <1>2, TaskTyped
<1>4. Swept'
  BY DEF IInv, Swept, Still
<1>5. table.import[j.of].status \notin {"none", "completed"}
  BY <1>1 DEF IInv, Submitted
<1>6. Submitted'
  <2>1. ASSUME NEW l \in jobs'
        PROVE  IF l.of \in Runs THEN table'.run[l.of] # "none"
               ELSE table'.import[l.of].status \notin {"none", "completed"}
    <3>1. CASE l.of = j.of
      BY <1>1, <1>5, <3>1
    <3>2. CASE l.of # j.of
      <4>1. l \in jobs
        BY <1>1, <3>2 DEF Moves
      <4>2. l.of \in Runs \/ l.of \in Imports
        BY <4>1 DEF IInv, TypeOK, RunTasks, ImportTasks
      <4> QED
        BY <3>2, <4>1, <4>2 DEF IInv, Submitted
    <3> QED
      BY <3>1, <3>2
  <2>2. ASSUME NEW i \in Imports, table'.import[i].status = "none"
        PROVE  table'.rows[i] = 0 /\ table'.import[i].count = 0
    BY <1>5, <2>2 DEF IInv, Submitted
  <2> QED
    BY <2>1, <2>2 DEF Submitted
<1>7. Counting'
  <2>1. ASSUME NEW l \in jobs', l.of \in Imports
        PROVE  Counted(l)'
    <3>1. CASE l = k
      BY <3>1
    <3>2. CASE l # k
      <4>1. l \in jobs /\ l.of # j.of
        BY <3>2 DEF Moves, IInv, TypeOK
      <4> QED
        BY <2>1, <4>1 DEF IInv, Counting, Counted
    <3> QED
      BY <3>1, <3>2
  <2> QED
    BY <2>1 DEF Counting
<1>8. Whole'
  <2>1. ASSUME NEW i \in Imports
        PROVE  /\ table'.rows[i] \in {table'.import[i].count, table'.import[i].count + 1}
               /\ table'.import[i].status = "completed" =>
                    /\ table'.import[i].count = table'.import[i].total
                    /\ table'.rows[i] = table'.import[i].total
    BY <1>5 DEF IInv, Whole
  <2> QED
    BY <2>1 DEF Whole
<1>9. OwnEnd'
  <2>1. ASSUME log'.alone, NEW l \in jobs', l.at # "fallback"
        PROVE  Open(l.of)'
    <3>1. log.alone
      BY <2>1 DEF Still
    <3>2. CASE l.of = j.of
      BY <1>1, <3>1, <3>2 DEF IInv, OwnEnd, Open
    <3>3. CASE l.of # j.of
      <4>1. l \in jobs
        BY <1>1, <3>3 DEF Moves
      <4>2. l.of \in Runs \/ l.of \in Imports
        BY <4>1 DEF IInv, TypeOK, RunTasks, ImportTasks
      <4> QED
        BY <2>1, <3>1, <3>3, <4>1, <4>2 DEF IInv, OwnEnd, Open
    <3> QED
      BY <3>2, <3>3
  <2> QED
    BY <2>1 DEF OwnEnd
<1>10. Using' = Using /\ Active' = Active
  BY <1>1 DEF Using, Active, Moves
<1>11. Single'
  BY <1>10 DEF IInv, Single, Still
<1>12. Reviewing'
  BY <1>10 DEF IInv, Reviewing, Reviewed, Still
<1> QED
  BY <1>3, <1>4, <1>6, <1>7, <1>8, <1>9, <1>11, <1>12 DEF IInv

\* A failing statement keeps the invariant.
LEMMA RunBreaksKeeps ==
    ASSUME Runs \cap Imports = {}, IInv, NEW j \in jobs, j.of \in Runs, RunBreaks(j)
    PROVE  IInv'
<1>1. j \in RunTasks /\ j.at # "fallback"
  BY TaskKinds DEF IInv, RunBreaks
<1>2. table' \in Tables
  BY DEF RunBreaks, IInv, TypeOK, Tables
<1>3. PICK k \in RunTasks : Moves(j, k) /\ k.at = "fallback" /\ k.ok = j.ok
  <2>1. [j EXCEPT !.at = "fallback"] \in RunTasks
    BY <1>1 DEF RunTasks, Flows
  <2> QED
    BY <1>1, <2>1 DEF RunBreaks, Goes, Moves, RunTasks
<1>4. Still /\ table'.run = table.run /\ table'.import = table.import /\ table'.rows = table.rows
  BY DEF RunBreaks, IInv, TypeOK, Tables
<1>5. /\ TypeOK' /\ Up' /\ OneProc' /\ Swept' /\ Submitted' /\ Counting' /\ Whole'
      /\ OwnEnd' /\ NotForgotten'
  BY <1>1, <1>2, <1>3, <1>4, RunFrame
<1>6. ~ rough => (\A f, g \in Active : f = g) /\ Reviewed(j)
  BY DEF IInv, Single, Reviewing, Using
<1>7. ASSUME ~ rough
      PROVE  (\A f, g \in Active' : f = g) /\ Reviewed(k)'
  BY <1>7 DEF RunBreaks
<1> QED
  BY <1>3, <1>4, <1>5, <1>7, RunReviewed DEF IInv

\* Launching the child keeps the invariant.
LEMMA LaunchKeeps ==
    ASSUME Runs \cap Imports = {}, IInv, NEW j \in jobs, j.of \in Runs, Launch(j)
    PROVE  IInv'
<1>1. j \in RunTasks /\ j.at # "fallback"
  BY TaskKinds DEF IInv, Launch
<1>2. table' \in Tables
  BY DEF Launch, IInv, TypeOK, Tables
<1>3. PICK k \in RunTasks : Moves(j, k) /\ k.at \in {"child", "done"} /\ k.ok = j.ok
  <2>1. [j EXCEPT !.at = "child"] \in RunTasks
    BY <1>1 DEF RunTasks, Flows
  <2>2. [j EXCEPT !.at = "done"] \in RunTasks
    BY <1>1 DEF RunTasks, Flows
  <2> QED
    BY <1>1, <2>1, <2>2 DEF Launch, Goes, Moves, RunTasks
<1>4. Still /\ table'.run = table.run /\ table'.import = table.import /\ table'.rows = table.rows
  BY DEF Launch, IInv, TypeOK, Tables
<1>5. /\ TypeOK' /\ Up' /\ OneProc' /\ Swept' /\ Submitted' /\ Counting' /\ Whole'
      /\ OwnEnd' /\ NotForgotten'
  BY <1>1, <1>2, <1>3, <1>4, RunFrame
<1>6. ~ rough => (\A f, g \in Active : f = g) /\ Reviewed(j)
  BY DEF IInv, Single, Reviewing, Using
<1>7. ASSUME ~ rough
      PROVE  (\A f, g \in Active' : f = g) /\ Reviewed(k)'
  <2>1. Active' = Active /\ table' = table
    BY DEF Active, Launch
  <2> QED
    BY <1>1, <1>3, <1>6, <1>7, <2>1 DEF Reviewed, Launch
<1> QED
  BY <1>3, <1>4, <1>5, <1>7, RunReviewed DEF IInv

\* The child's exit keeps the invariant.
LEMMA ExitKeeps ==
    ASSUME Runs \cap Imports = {}, IInv, NEW j \in jobs, j.of \in Runs, Exit(j)
    PROVE  IInv'
<1>1. j \in RunTasks /\ j.at # "fallback"
  BY TaskKinds DEF IInv, Exit
<1>2. table' \in Tables
  BY DEF Exit, IInv, TypeOK, Tables
<1>3. PICK k \in RunTasks : Moves(j, k) /\ k.at = "drain"
  <2>1. [j EXCEPT !.at = "drain", !.ok = TRUE] \in RunTasks
    BY <1>1 DEF RunTasks, Flows
  <2>2. [j EXCEPT !.at = "drain", !.ok = FALSE] \in RunTasks
    BY <1>1 DEF RunTasks, Flows
  <2> QED
    BY <1>1, <2>1, <2>2 DEF Exit, Goes, Moves, RunTasks
<1>4. Still /\ table'.run = table.run /\ table'.import = table.import /\ table'.rows = table.rows
  BY DEF Exit, IInv, TypeOK, Tables
<1>5. /\ TypeOK' /\ Up' /\ OneProc' /\ Swept' /\ Submitted' /\ Counting' /\ Whole'
      /\ OwnEnd' /\ NotForgotten'
  BY <1>1, <1>2, <1>3, <1>4, RunFrame
<1>6. ~ rough => (\A f, g \in Active : f = g) /\ Reviewed(j)
  BY DEF IInv, Single, Reviewing, Using
<1>7. ASSUME ~ rough
      PROVE  (\A f, g \in Active' : f = g) /\ Reviewed(k)'
  <2>1. Active' = Active /\ table' = table
    BY DEF Active, Exit
  <2> QED
    BY <1>1, <1>3, <1>6, <1>7, <2>1 DEF Reviewed, Exit
<1> QED
  BY <1>3, <1>4, <1>5, <1>7, RunReviewed DEF IInv

\* The end of the output keeps the invariant.
LEMMA DrainKeeps ==
    ASSUME Runs \cap Imports = {}, IInv, NEW j \in jobs, j.of \in Runs, Drain(j)
    PROVE  IInv'
<1>1. j \in RunTasks /\ j.at # "fallback"
  BY TaskKinds DEF IInv, Drain
<1>2. table' \in Tables
  BY DEF Drain, IInv, TypeOK, Tables
<1>3. PICK k \in RunTasks : Moves(j, k) /\ k.ok = j.ok /\ ((j.ok /\ k.at = "item") \/ (~ j.ok /\ k.at = "done"))
  <2>1. CASE j.ok
    <3>1. [j EXCEPT !.at = "item"] \in RunTasks
      BY <1>1 DEF RunTasks
    <3>2. jobs' = (jobs \ {j}) \cup {[j EXCEPT !.at = "item"]}
      BY <2>1 DEF Drain, Goes
    <3>3. /\ [j EXCEPT !.at = "item"].of = j.of /\ [j EXCEPT !.at = "item"].proc = j.proc
          /\ [j EXCEPT !.at = "item"].ok = j.ok /\ [j EXCEPT !.at = "item"].at = "item"
      BY <1>1 DEF RunTasks
    <3> QED
      BY <2>1, <3>1, <3>2, <3>3 DEF Moves
  <2>2. CASE ~ j.ok
    <3>1. [j EXCEPT !.at = "done"] \in RunTasks
      BY <1>1 DEF RunTasks
    <3>2. jobs' = (jobs \ {j}) \cup {[j EXCEPT !.at = "done"]}
      BY <2>2 DEF Drain, Goes
    <3> QED
      BY <1>1, <2>2, <3>1, <3>2 DEF Moves, RunTasks
  <2> QED
    BY <2>1, <2>2
<1>4. Still /\ table'.run = table.run /\ table'.import = table.import /\ table'.rows = table.rows
  BY DEF Drain, IInv, TypeOK, Tables
<1>5. /\ TypeOK' /\ Up' /\ OneProc' /\ Swept' /\ Submitted' /\ Counting' /\ Whole'
      /\ OwnEnd' /\ NotForgotten'
  BY <1>1, <1>2, <1>3, <1>4, RunFrame
<1>6. ~ rough => (\A f, g \in Active : f = g) /\ Reviewed(j)
  BY DEF IInv, Single, Reviewing, Using
<1>7. ASSUME ~ rough
      PROVE  (\A f, g \in Active' : f = g) /\ Reviewed(k)'
  <2>1. Active' = Active /\ table' = table
    BY DEF Active, Drain
  <2> QED
    BY <1>1, <1>3, <1>6, <1>7, <2>1 DEF Reviewed, Drain
<1> QED
  BY <1>3, <1>4, <1>5, <1>7, RunReviewed DEF IInv

\* A failing checkpoint keeps the invariant.
LEMMA CheckpointBreaksKeeps ==
    ASSUME Runs \cap Imports = {}, IInv, NEW j \in jobs, j.of \in Runs, CheckpointBreaks(j)
    PROVE  IInv'
<1>1. j \in RunTasks /\ j.at # "fallback"
  BY TaskKinds DEF IInv, CheckpointBreaks
<1>2. table' \in Tables
  BY DEF CheckpointBreaks, IInv, TypeOK, Tables
<1>3. PICK k \in RunTasks : Moves(j, k) /\ k.at = "done" /\ k.ok = j.ok
  <2>1. [j EXCEPT !.at = "done"] \in RunTasks
    BY <1>1 DEF RunTasks, Flows
  <2> QED
    BY <1>1, <2>1 DEF CheckpointBreaks, Goes, Moves, RunTasks
<1>4. Still /\ table'.run = table.run /\ table'.import = table.import /\ table'.rows = table.rows
  BY DEF CheckpointBreaks, IInv, TypeOK, Tables
<1>5. /\ TypeOK' /\ Up' /\ OneProc' /\ Swept' /\ Submitted' /\ Counting' /\ Whole'
      /\ OwnEnd' /\ NotForgotten'
  BY <1>1, <1>2, <1>3, <1>4, RunFrame
<1>6. ~ rough => (\A f, g \in Active : f = g) /\ Reviewed(j)
  BY DEF IInv, Single, Reviewing, Using
<1>7. ASSUME ~ rough
      PROVE  (\A f, g \in Active' : f = g) /\ Reviewed(k)'
  BY <1>7 DEF CheckpointBreaks
<1> QED
  BY <1>3, <1>4, <1>5, <1>7, RunReviewed DEF IInv

\* Moving the item keeps the invariant.
LEMMA ItemToReviewKeeps ==
    ASSUME Runs \cap Imports = {}, IInv, NEW j \in jobs, j.of \in Runs, ItemToReview(j)
    PROVE  IInv'
<1>1. j \in RunTasks /\ j.at # "fallback"
  BY TaskKinds DEF IInv, ItemToReview
<1>2. table' \in Tables
  BY DEF ItemToReview, IInv, TypeOK, Tables
<1>3. PICK k \in RunTasks : Moves(j, k) /\ k.at = "find" /\ k.ok = j.ok
  <2>1. [j EXCEPT !.at = "find"] \in RunTasks
    BY <1>1 DEF RunTasks, Flows
  <2> QED
    BY <1>1, <2>1 DEF ItemToReview, Goes, Moves, RunTasks
<1>4. Still /\ table'.run = table.run /\ table'.import = table.import /\ table'.rows = table.rows
  BY DEF ItemToReview, IInv, TypeOK, Tables
<1>5. /\ TypeOK' /\ Up' /\ OneProc' /\ Swept' /\ Submitted' /\ Counting' /\ Whole'
      /\ OwnEnd' /\ NotForgotten'
  BY <1>1, <1>2, <1>3, <1>4, RunFrame
<1>6. ~ rough => (\A f, g \in Active : f = g) /\ Reviewed(j)
  BY DEF IInv, Single, Reviewing, Using
<1>7. ASSUME ~ rough
      PROVE  (\A f, g \in Active' : f = g) /\ Reviewed(k)'
  <2>1. Active' = Active /\ table'.item \in {"review", "done"} /\ j.ok
    BY <1>6, <1>7 DEF Reviewed, ItemToReview, Active, IInv, TypeOK, Tables
  <2> QED
    BY <1>3, <1>6, <1>7, <2>1 DEF Reviewed
<1> QED
  BY <1>3, <1>4, <1>5, <1>7, RunReviewed DEF IInv

\* Looking for an active workflow run keeps the invariant.
LEMMA FindFlowKeeps ==
    ASSUME Runs \cap Imports = {}, IInv, NEW j \in jobs, j.of \in Runs, FindFlow(j)
    PROVE  IInv'
<1>1. j \in RunTasks /\ j.at # "fallback"
  BY TaskKinds DEF IInv, FindFlow
<1>2. table' \in Tables
  BY DEF FindFlow, IInv, TypeOK, Tables
<1>3. PICK k \in RunTasks : /\ Moves(j, k) /\ k.ok = j.ok
                             /\ \/ Active = {} /\ k.at = "create"
                                \/ /\ k.flow \in Active
                                   /\ \/ table.flow[k.flow].stage = "review" /\ k.at = "done" /\ k.noted
                                      \/ table.flow[k.flow].stage # "review" /\ k.at = "move" /\ ~ k.noted
  <2>1. CASE Active = {}
    <3>1. [j EXCEPT !.at = "create"] \in RunTasks
      BY <1>1 DEF RunTasks
    <3> QED
      BY <1>1, <2>1, <3>1 DEF FindFlow, Goes, Moves, RunTasks
  <2>2. CASE Active # {}
    <3>1. PICK f \in Active :
            jobs' = (jobs \ {j}) \cup
              {[j EXCEPT !.flow = f, !.noted = table.flow[f].stage = "review",
                         !.at = IF table.flow[f].stage = "review" THEN "done" ELSE "move"]}
      BY <2>2 DEF FindFlow
    <3> DEFINE k == [j EXCEPT !.flow = f, !.noted = table.flow[f].stage = "review",
                         !.at = IF table.flow[f].stage = "review" THEN "done" ELSE "move"]
    <3>2. k \in RunTasks
      BY <1>1 DEF RunTasks, Active
    <3> QED
      BY <1>1, <3>1, <3>2 DEF Moves, RunTasks
  <2> QED
    BY <2>1, <2>2
<1>4. Still /\ table'.run = table.run /\ table'.import = table.import /\ table'.rows = table.rows
  BY DEF FindFlow, IInv, TypeOK, Tables
<1>5. /\ TypeOK' /\ Up' /\ OneProc' /\ Swept' /\ Submitted' /\ Counting' /\ Whole'
      /\ OwnEnd' /\ NotForgotten'
  BY <1>1, <1>2, <1>3, <1>4, RunFrame
<1>6. ~ rough => (\A f, g \in Active : f = g) /\ Reviewed(j)
  BY DEF IInv, Single, Reviewing, Using
<1>7. ASSUME ~ rough
      PROVE  (\A f, g \in Active' : f = g) /\ Reviewed(k)'
  <2>1. Active' = Active /\ table.item \in {"review", "done"} /\ j.ok
    BY <1>6, <1>7 DEF Reviewed, FindFlow, Active
  <2>2. CASE Active = {}
    BY <1>3, <1>6, <1>7, <2>1, <2>2 DEF Reviewed, FindFlow
  <2>3. CASE Active # {}
    <3>1. k.flow \in Flows /\ table.flow[k.flow].live
      BY <1>3, <2>3 DEF Active
    <3>2. table.flow[k.flow] \in [stage : {"none", "draft", "review", "ended"}, live : BOOLEAN]
      BY <3>1 DEF IInv, TypeOK, Tables
    <3> QED
      BY <1>3, <1>6, <1>7, <2>1, <2>3, <3>1, <3>2 DEF Reviewed, FindFlow
  <2> QED
    BY <2>2, <2>3
<1> QED
  BY <1>3, <1>4, <1>5, <1>7, RunReviewed DEF IInv

\* Creating a workflow run keeps the invariant.
LEMMA CreateFlowKeeps ==
    ASSUME Runs \cap Imports = {}, IInv, NEW j \in jobs, j.of \in Runs, CreateFlow(j)
    PROVE  IInv'
<1>1. j \in RunTasks /\ j.at # "fallback"
  BY TaskKinds DEF IInv, CreateFlow
<1>2. table' \in Tables
  <2>1. j.of \in Flows /\ table \in Tables
    BY <1>1 DEF IInv, TypeOK, RunTasks, Flows
  <2>2. [table.flow EXCEPT ![j.of] = [stage |-> "draft", live |-> TRUE]] \in
          [Flows -> [stage : {"none", "draft", "review", "ended"}, live : BOOLEAN]]
    BY <2>1 DEF Tables
  <2> QED
    BY <2>1, <2>2 DEF CreateFlow, Tables
<1>3. PICK k \in RunTasks : Moves(j, k) /\ k.at = "move" /\ k.ok = j.ok /\ k.flow = j.of
  <2>1. [j EXCEPT !.flow = j.of, !.at = "move"] \in RunTasks
    BY <1>1 DEF RunTasks, Flows
  <2> QED
    BY <1>1, <2>1 DEF CreateFlow, Goes, Moves, RunTasks
<1>4. Still /\ table'.run = table.run /\ table'.import = table.import /\ table'.rows = table.rows
  BY DEF CreateFlow, IInv, TypeOK, Tables
<1>5. /\ TypeOK' /\ Up' /\ OneProc' /\ Swept' /\ Submitted' /\ Counting' /\ Whole'
      /\ OwnEnd' /\ NotForgotten'
  BY <1>1, <1>2, <1>3, <1>4, RunFrame
<1>6. ~ rough => (\A f, g \in Active : f = g) /\ Reviewed(j)
  BY DEF IInv, Single, Reviewing, Using
<1>7. ASSUME ~ rough
      PROVE  (\A f, g \in Active' : f = g) /\ Reviewed(k)'
  <2>1. Active = {} /\ table.item \in {"review", "done"} /\ j.ok
    BY <1>6, <1>7 DEF Reviewed, CreateFlow
  <2>2. Active' = {j.of}
    BY <1>1, <1>2, <2>1 DEF Active, CreateFlow, Flows, RunTasks, Tables
  <2>3. table'.flow[j.of] = [stage |-> "draft", live |-> TRUE] /\ table'.item = table.item
    BY <1>1 DEF CreateFlow, IInv, TypeOK, Tables, Flows, RunTasks
  <2> QED
    BY <1>3, <2>1, <2>2, <2>3 DEF Reviewed
<1> QED
  BY <1>3, <1>4, <1>5, <1>7, RunReviewed DEF IInv

\* Moving the workflow run keeps the invariant.
LEMMA MoveFlowKeeps ==
    ASSUME Runs \cap Imports = {}, IInv, NEW j \in jobs, j.of \in Runs, MoveFlow(j)
    PROVE  IInv'
<1>1. j \in RunTasks /\ j.at # "fallback"
  BY TaskKinds DEF IInv, MoveFlow
<1>2. table' \in Tables
  <2>1. j.flow \in Flows /\ table \in Tables
    BY <1>1 DEF IInv, TypeOK, RunTasks, Flows
  <2>2. [table.flow EXCEPT ![j.flow].stage = "review"] \in
          [Flows -> [stage : {"none", "draft", "review", "ended"}, live : BOOLEAN]]
    BY <2>1 DEF Tables
  <2> QED
    BY <2>1, <2>2 DEF MoveFlow, Tables
<1>3. PICK k \in RunTasks : Moves(j, k) /\ k.at = "status" /\ k.ok = j.ok /\ k.flow = j.flow
  <2>1. [j EXCEPT !.at = "status"] \in RunTasks
    BY <1>1 DEF RunTasks, Flows
  <2> QED
    BY <1>1, <2>1 DEF MoveFlow, Goes, Moves, RunTasks
<1>4. Still /\ table'.run = table.run /\ table'.import = table.import /\ table'.rows = table.rows
  BY DEF MoveFlow, IInv, TypeOK, Tables
<1>5. /\ TypeOK' /\ Up' /\ OneProc' /\ Swept' /\ Submitted' /\ Counting' /\ Whole'
      /\ OwnEnd' /\ NotForgotten'
  BY <1>1, <1>2, <1>3, <1>4, RunFrame
<1>6. ~ rough => (\A f, g \in Active : f = g) /\ Reviewed(j)
  BY DEF IInv, Single, Reviewing, Using
<1>7. ASSUME ~ rough
      PROVE  (\A f, g \in Active' : f = g) /\ Reviewed(k)'
  <2>1. table.flow[j.flow].live /\ table.item \in {"review", "done"} /\ j.ok
    BY <1>6, <1>7 DEF Reviewed, MoveFlow
  <2>2. /\ table'.flow[j.flow] = [stage |-> "review", live |-> TRUE] /\ table'.item = table.item
        /\ \A f \in Flows : table'.flow[f].live = table.flow[f].live
    <3>1. /\ j.flow \in Flows /\ table \in Tables
          /\ table.flow \in [Flows -> [stage : {"none", "draft", "review", "ended"}, live : BOOLEAN]]
      BY <1>1 DEF IInv, TypeOK, Tables, RunTasks
    <3>2. /\ table'.item = table.item
          /\ table'.flow = [table.flow EXCEPT ![j.flow].stage = "review"]
      BY <3>1 DEF MoveFlow, Tables
    <3>3. table'.flow[j.flow] = [stage |-> "review", live |-> TRUE]
      BY <2>1, <3>1, <3>2
    <3>4. \A f \in Flows : table'.flow[f].live = table.flow[f].live
      BY <2>1, <3>1, <3>2
    <3> QED
      BY <3>2, <3>3, <3>4
  <2>3. Active' = Active
    BY <2>2 DEF Active
  <2> QED
    BY <1>3, <1>6, <1>7, <2>1, <2>2, <2>3 DEF Reviewed
<1> QED
  BY <1>3, <1>4, <1>5, <1>7, RunReviewed DEF IInv

\* Marking the workflow run running keeps the invariant.
LEMMA FlowRunsKeeps ==
    ASSUME Runs \cap Imports = {}, IInv, NEW j \in jobs, j.of \in Runs, FlowRuns(j)
    PROVE  IInv'
<1>1. j \in RunTasks /\ j.at # "fallback"
  BY TaskKinds DEF IInv, FlowRuns
<1>2. table' \in Tables
  <2>1. j.flow \in Flows /\ table \in Tables
    BY <1>1 DEF IInv, TypeOK, RunTasks, Flows
  <2>2. [table.flow EXCEPT ![j.flow].live = TRUE] \in
          [Flows -> [stage : {"none", "draft", "review", "ended"}, live : BOOLEAN]]
    BY <2>1 DEF Tables
  <2> QED
    BY <2>1, <2>2 DEF FlowRuns, Tables
<1>3. PICK k \in RunTasks : Moves(j, k) /\ k.at = "note" /\ k.ok = j.ok /\ k.flow = j.flow
  <2>1. [j EXCEPT !.at = "note"] \in RunTasks
    BY <1>1 DEF RunTasks, Flows
  <2> QED
    BY <1>1, <2>1 DEF FlowRuns, Goes, Moves, RunTasks
<1>4. Still /\ table'.run = table.run /\ table'.import = table.import /\ table'.rows = table.rows
  BY DEF FlowRuns, IInv, TypeOK, Tables
<1>5. /\ TypeOK' /\ Up' /\ OneProc' /\ Swept' /\ Submitted' /\ Counting' /\ Whole'
      /\ OwnEnd' /\ NotForgotten'
  BY <1>1, <1>2, <1>3, <1>4, RunFrame
<1>6. ~ rough => (\A f, g \in Active : f = g) /\ Reviewed(j)
  BY DEF IInv, Single, Reviewing, Using
<1>7. ASSUME ~ rough
      PROVE  (\A f, g \in Active' : f = g) /\ Reviewed(k)'
  <2>1. table.flow[j.flow] = [stage |-> "review", live |-> TRUE] /\ table.item \in {"review", "done"}
        /\ j.ok
    BY <1>6, <1>7 DEF Reviewed, FlowRuns
  <2>2. /\ table'.flow[j.flow] = [stage |-> "review", live |-> TRUE] /\ table'.item = table.item
        /\ \A f \in Flows : table'.flow[f].live = table.flow[f].live
    <3>1. /\ j.flow \in Flows /\ table \in Tables
          /\ table.flow \in [Flows -> [stage : {"none", "draft", "review", "ended"}, live : BOOLEAN]]
      BY <1>1 DEF IInv, TypeOK, Tables, RunTasks
    <3>2. /\ table'.item = table.item
          /\ table'.flow = [table.flow EXCEPT ![j.flow].live = TRUE]
      BY <3>1 DEF FlowRuns, Tables
    <3>3. table'.flow[j.flow] = [table.flow[j.flow] EXCEPT !.live = TRUE]
      BY <3>1, <3>2
    <3>4. ASSUME NEW f \in [stage : {"none", "draft", "review", "ended"}, live : BOOLEAN],
                 f.live = TRUE
          PROVE  [f EXCEPT !.live = TRUE] = f
      BY <3>4
    <3>5. table'.flow[j.flow] = [stage |-> "review", live |-> TRUE]
      <4>1. table.flow[j.flow] \in [stage : {"none", "draft", "review", "ended"}, live : BOOLEAN]
        BY <3>1, Zenon
      <4>2. table.flow[j.flow].live = TRUE
        BY <2>1
      <4>3. [table.flow[j.flow] EXCEPT !.live = TRUE] = table.flow[j.flow]
        BY <3>4, <4>1, <4>2, Zenon
      <4> QED
        BY <2>1, <3>3, <4>3, Zenon
    <3>6. \A f \in Flows \ {j.flow} : table'.flow[f] = table.flow[f]
      BY <3>1, <3>2
    <3>7. ASSUME NEW f \in Flows
          PROVE  table'.flow[f].live = table.flow[f].live
      BY <2>1, <3>5, <3>6, Zenon
    <3> QED
      BY <3>2, <3>5, <3>7
  <2>3. Active' = Active
    BY <2>2 DEF Active
  <2> QED
    BY <1>3, <1>6, <1>7, <2>1, <2>2, <2>3 DEF Reviewed
<1> QED
  BY <1>3, <1>4, <1>5, <1>7, RunReviewed DEF IInv

\* Recording the move keeps the invariant.
LEMMA NoteMoveKeeps ==
    ASSUME Runs \cap Imports = {}, IInv, NEW j \in jobs, j.of \in Runs, NoteMove(j)
    PROVE  IInv'
<1>1. j \in RunTasks /\ j.at # "fallback"
  BY TaskKinds DEF IInv, NoteMove
<1>2. table' \in Tables
  BY DEF NoteMove, IInv, TypeOK, Tables
<1>3. PICK k \in RunTasks : Moves(j, k) /\ k.at = "done" /\ k.ok = j.ok /\ k.noted /\ k.flow = j.flow
  <2>1. [j EXCEPT !.noted = TRUE, !.at = "done"] \in RunTasks
    BY <1>1 DEF RunTasks, Flows
  <2> QED
    BY <1>1, <2>1 DEF NoteMove, Moves, RunTasks
<1>4. Still /\ table'.run = table.run /\ table'.import = table.import /\ table'.rows = table.rows
  BY DEF NoteMove, IInv, TypeOK, Tables
<1>5. /\ TypeOK' /\ Up' /\ OneProc' /\ Swept' /\ Submitted' /\ Counting' /\ Whole'
      /\ OwnEnd' /\ NotForgotten'
  BY <1>1, <1>2, <1>3, <1>4, RunFrame
<1>6. ~ rough => (\A f, g \in Active : f = g) /\ Reviewed(j)
  BY DEF IInv, Single, Reviewing, Using
<1>7. ASSUME ~ rough
      PROVE  (\A f, g \in Active' : f = g) /\ Reviewed(k)'
  <2>1. Active' = Active /\ table' = table
    BY DEF Active, NoteMove
  <2> QED
    BY <1>1, <1>3, <1>6, <1>7, <2>1 DEF Reviewed, NoteMove
<1> QED
  BY <1>3, <1>4, <1>5, <1>7, RunReviewed DEF IInv

\* A file or a row that is refused keeps the invariant.
LEMMA ImportBreaksKeeps ==
    ASSUME Runs \cap Imports = {}, Chunks \in Nat, IInv, NEW j \in jobs, j.of \notin Runs, ImportBreaks(j)
    PROVE  IInv'
<1>1. j \in ImportTasks /\ j.of \in Imports /\ table \in Tables
  BY TaskKinds DEF IInv, TypeOK
<1>2. /\ table.import[j.of] \in [status : {"none", "pending", "running", "completed", "failed"},
                           total : 0 .. Chunks, count : 0 .. Chunks]
      /\ table.rows[j.of] \in 0 .. Chunks /\ j.total \in 0 .. Chunks
  BY <1>1 DEF Tables, ImportTasks
<1>3. Counted(j) /\ table.rows[j.of] \in {table.import[j.of].count, table.import[j.of].count + 1}
  BY <1>1 DEF IInv, Counting, Whole
<1>4. table' \in Tables
  BY <1>1 DEF ImportBreaks
<1>5. PICK k \in ImportTasks : Moves(j, k) /\ k.at = "error"
  <2>1. [j EXCEPT !.at = "error"] \in ImportTasks
    BY <1>1 DEF ImportTasks, Flows
  <2> QED
    BY <1>1, <2>1 DEF ImportBreaks, Goes, Moves, ImportTasks
<1>6. /\ Still /\ table'.run = table.run /\ table'.item = table.item /\ table'.flow = table.flow
      /\ \A i \in Imports \ {j.of} :
           table'.import[i] = table.import[i] /\ table'.rows[i] = table.rows[i]
  BY <1>1 DEF ImportBreaks, Tables
<1>7. /\ table' = table
  BY <1>1, <1>2 DEF ImportBreaks, Tables
<1>8. Counted(k)'
  BY <1>2, <1>3, <1>5, <1>7 DEF Counted, Moves, ImportBreaks
<1>9. /\ table'.import[j.of].status \in {table.import[j.of].status, "running"}
      /\ table'.rows[j.of] \in {table'.import[j.of].count, table'.import[j.of].count + 1}
  BY <1>2, <1>3, <1>7 DEF Counted, ImportBreaks
<1> QED
  BY <1>1, <1>4, <1>5, <1>6, <1>8, <1>9, ImportFrame

\* Reading the file keeps the invariant.
LEMMA ReadFileKeeps ==
    ASSUME Runs \cap Imports = {}, Chunks \in Nat, IInv, NEW j \in jobs, j.of \notin Runs, ReadFile(j)
    PROVE  IInv'
<1>1. j \in ImportTasks /\ j.of \in Imports /\ table \in Tables
  BY TaskKinds DEF IInv, TypeOK
<1>2. /\ table.import[j.of] \in [status : {"none", "pending", "running", "completed", "failed"},
                           total : 0 .. Chunks, count : 0 .. Chunks]
      /\ table.rows[j.of] \in 0 .. Chunks /\ j.total \in 0 .. Chunks
  BY <1>1 DEF Tables, ImportTasks
<1>3. Counted(j) /\ table.rows[j.of] \in {table.import[j.of].count, table.import[j.of].count + 1}
  BY <1>1 DEF IInv, Counting, Whole
<1>4. table' \in Tables
  BY <1>1 DEF ReadFile
<1>5. PICK k \in ImportTasks : Moves(j, k) /\ k.at = "mark" /\ k.total > 0
  <2>1. PICK n \in 1 .. Chunks : jobs' = (jobs \ {j}) \cup {[j EXCEPT !.at = "mark", !.total = n]}
    BY DEF ReadFile
  <2>2. n \in 0 .. Chunks /\ n > 0
    OBVIOUS
  <2>3. [j EXCEPT !.at = "mark", !.total = n] \in ImportTasks
    BY <1>1, <2>2 DEF ImportTasks
  <2> QED
    BY <1>1, <2>1, <2>2, <2>3 DEF Moves, ImportTasks
<1>6. /\ Still /\ table'.run = table.run /\ table'.item = table.item /\ table'.flow = table.flow
      /\ \A i \in Imports \ {j.of} :
           table'.import[i] = table.import[i] /\ table'.rows[i] = table.rows[i]
  BY <1>1 DEF ReadFile, Tables
<1>7. /\ table' = table
  BY <1>1, <1>2 DEF ReadFile, Tables
<1>8. Counted(k)'
  BY <1>2, <1>3, <1>5, <1>7 DEF Counted, Moves, ReadFile
<1>9. /\ table'.import[j.of].status \in {table.import[j.of].status, "running"}
      /\ table'.rows[j.of] \in {table'.import[j.of].count, table'.import[j.of].count + 1}
  BY <1>2, <1>3, <1>7 DEF Counted, ReadFile
<1> QED
  BY <1>1, <1>4, <1>5, <1>6, <1>8, <1>9, ImportFrame

\* Marking the import running keeps the invariant.
LEMMA MarkRunningKeeps ==
    ASSUME Runs \cap Imports = {}, Chunks \in Nat, IInv, NEW j \in jobs, j.of \notin Runs, MarkRunning(j)
    PROVE  IInv'
<1>1. j \in ImportTasks /\ j.of \in Imports /\ table \in Tables
  BY TaskKinds DEF IInv, TypeOK
<1>2. /\ table.import[j.of] \in [status : {"none", "pending", "running", "completed", "failed"},
                           total : 0 .. Chunks, count : 0 .. Chunks]
      /\ table.rows[j.of] \in 0 .. Chunks /\ j.total \in 0 .. Chunks
  BY <1>1 DEF Tables, ImportTasks
<1>3. Counted(j) /\ table.rows[j.of] \in {table.import[j.of].count, table.import[j.of].count + 1}
  BY <1>1 DEF IInv, Counting, Whole
<1>4. table' \in Tables
  <2>1. [table.import EXCEPT ![j.of].status = "running", ![j.of].total = j.total] \in [Imports -> [status : {"none", "pending", "running", "completed", "failed"},
                           total : 0 .. Chunks, count : 0 .. Chunks]]
    BY <1>1, <1>2 DEF Tables
  <2> QED
    BY <1>1, <2>1 DEF MarkRunning, Tables
<1>5. PICK k \in ImportTasks : Moves(j, k) /\ k.at = "check" /\ k.total = j.total
  <2>1. [j EXCEPT !.at = "check"] \in ImportTasks
    BY <1>1 DEF ImportTasks, Flows
  <2> QED
    BY <1>1, <2>1 DEF MarkRunning, Goes, Moves, ImportTasks
<1>6. /\ Still /\ table'.run = table.run /\ table'.item = table.item /\ table'.flow = table.flow
      /\ \A i \in Imports \ {j.of} :
           table'.import[i] = table.import[i] /\ table'.rows[i] = table.rows[i]
  BY <1>1 DEF MarkRunning, Tables
<1>7. /\ table'.import[j.of].total = j.total /\ table'.import[j.of].status = "running"
      /\ table'.import[j.of].count = table.import[j.of].count /\ table'.rows[j.of] = table.rows[j.of]
  BY <1>1, <1>2 DEF MarkRunning, Tables
<1>8. Counted(k)'
  BY <1>2, <1>3, <1>5, <1>7 DEF Counted, Moves, MarkRunning
<1>9. /\ table'.import[j.of].status \in {table.import[j.of].status, "running"}
      /\ table'.rows[j.of] \in {table'.import[j.of].count, table'.import[j.of].count + 1}
  BY <1>2, <1>3, <1>7 DEF Counted, MarkRunning
<1> QED
  BY <1>1, <1>4, <1>5, <1>6, <1>8, <1>9, ImportFrame

\* Checking the products keeps the invariant.
LEMMA CheckProductsKeeps ==
    ASSUME Runs \cap Imports = {}, Chunks \in Nat, IInv, NEW j \in jobs, j.of \notin Runs, CheckProducts(j)
    PROVE  IInv'
<1>1. j \in ImportTasks /\ j.of \in Imports /\ table \in Tables
  BY TaskKinds DEF IInv, TypeOK
<1>2. /\ table.import[j.of] \in [status : {"none", "pending", "running", "completed", "failed"},
                           total : 0 .. Chunks, count : 0 .. Chunks]
      /\ table.rows[j.of] \in 0 .. Chunks /\ j.total \in 0 .. Chunks
  BY <1>1 DEF Tables, ImportTasks
<1>3. Counted(j) /\ table.rows[j.of] \in {table.import[j.of].count, table.import[j.of].count + 1}
  BY <1>1 DEF IInv, Counting, Whole
<1>4. table' \in Tables
  BY <1>1 DEF CheckProducts
<1>5. PICK k \in ImportTasks : Moves(j, k) /\ k.at = "chunk" /\ k.total = j.total
  <2>1. [j EXCEPT !.at = "chunk"] \in ImportTasks
    BY <1>1 DEF ImportTasks, Flows
  <2> QED
    BY <1>1, <2>1 DEF CheckProducts, Goes, Moves, ImportTasks
<1>6. /\ Still /\ table'.run = table.run /\ table'.item = table.item /\ table'.flow = table.flow
      /\ \A i \in Imports \ {j.of} :
           table'.import[i] = table.import[i] /\ table'.rows[i] = table.rows[i]
  BY <1>1 DEF CheckProducts, Tables
<1>7. /\ table' = table
  BY <1>1, <1>2 DEF CheckProducts, Tables
<1>8. Counted(k)'
  BY <1>2, <1>3, <1>5, <1>7 DEF Counted, Moves, CheckProducts
<1>9. /\ table'.import[j.of].status \in {table.import[j.of].status, "running"}
      /\ table'.rows[j.of] \in {table'.import[j.of].count, table'.import[j.of].count + 1}
  BY <1>2, <1>3, <1>7 DEF Counted, CheckProducts
<1> QED
  BY <1>1, <1>4, <1>5, <1>6, <1>8, <1>9, ImportFrame

\* Committing a chunk keeps the invariant.
LEMMA UpsertChunkKeeps ==
    ASSUME Runs \cap Imports = {}, Chunks \in Nat, IInv, NEW j \in jobs, j.of \notin Runs, UpsertChunk(j)
    PROVE  IInv'
<1>1. j \in ImportTasks /\ j.of \in Imports /\ table \in Tables
  BY TaskKinds DEF IInv, TypeOK
<1>2. /\ table.import[j.of] \in [status : {"none", "pending", "running", "completed", "failed"},
                           total : 0 .. Chunks, count : 0 .. Chunks]
      /\ table.rows[j.of] \in 0 .. Chunks /\ j.total \in 0 .. Chunks
  BY <1>1 DEF Tables, ImportTasks
<1>3. Counted(j) /\ table.rows[j.of] \in {table.import[j.of].count, table.import[j.of].count + 1}
  BY <1>1 DEF IInv, Counting, Whole
<1>4. table' \in Tables
  <2>0. table.rows[j.of] + 1 \in 0 .. Chunks
    BY <1>2, <1>3 DEF Counted, UpsertChunk
  <2>1. [table.rows EXCEPT ![j.of] = @ + 1] \in [Imports -> 0 .. Chunks]
    BY <1>1, <2>0 DEF Tables
  <2> QED
    BY <1>1, <2>1 DEF UpsertChunk, Tables
<1>5. PICK k \in ImportTasks : Moves(j, k) /\ k.at = "progress" /\ k.total = j.total
  <2>1. [j EXCEPT !.at = "progress"] \in ImportTasks
    BY <1>1 DEF ImportTasks, Flows
  <2> QED
    BY <1>1, <2>1 DEF UpsertChunk, Goes, Moves, ImportTasks
<1>6. /\ Still /\ table'.run = table.run /\ table'.item = table.item /\ table'.flow = table.flow
      /\ \A i \in Imports \ {j.of} :
           table'.import[i] = table.import[i] /\ table'.rows[i] = table.rows[i]
  BY <1>1 DEF UpsertChunk, Tables
<1>7. /\ table'.rows[j.of] = table.rows[j.of] + 1 /\ table'.import[j.of] = table.import[j.of]
  BY <1>1, <1>2 DEF UpsertChunk, Tables
<1>8. Counted(k)'
  BY <1>2, <1>3, <1>5, <1>7 DEF Counted, Moves, UpsertChunk
<1>9. /\ table'.import[j.of].status \in {table.import[j.of].status, "running"}
      /\ table'.rows[j.of] \in {table'.import[j.of].count, table'.import[j.of].count + 1}
  BY <1>2, <1>3, <1>7 DEF Counted, UpsertChunk
<1> QED
  BY <1>1, <1>4, <1>5, <1>6, <1>8, <1>9, ImportFrame

\* Counting a chunk keeps the invariant.
LEMMA CountChunkKeeps ==
    ASSUME Runs \cap Imports = {}, Chunks \in Nat, IInv, NEW j \in jobs, j.of \notin Runs, CountChunk(j)
    PROVE  IInv'
<1>1. j \in ImportTasks /\ j.of \in Imports /\ table \in Tables
  BY TaskKinds DEF IInv, TypeOK
<1>2. /\ table.import[j.of] \in [status : {"none", "pending", "running", "completed", "failed"},
                           total : 0 .. Chunks, count : 0 .. Chunks]
      /\ table.rows[j.of] \in 0 .. Chunks /\ j.total \in 0 .. Chunks
  BY <1>1 DEF Tables, ImportTasks
<1>3. Counted(j) /\ table.rows[j.of] \in {table.import[j.of].count, table.import[j.of].count + 1}
  BY <1>1 DEF IInv, Counting, Whole
<1>4. table' \in Tables
  <2>0. table.import[j.of].count + 1 \in 0 .. Chunks
    BY <1>2, <1>3 DEF Counted, CountChunk
  <2>1. [table.import EXCEPT ![j.of].count = @ + 1] \in [Imports -> [status : {"none", "pending", "running", "completed", "failed"},
                           total : 0 .. Chunks, count : 0 .. Chunks]]
    BY <1>1, <2>0 DEF Tables
  <2> QED
    BY <1>1, <2>1 DEF CountChunk, Tables
<1>5. PICK k \in ImportTasks :
        /\ Moves(j, k) /\ k.total = j.total
        /\ \/ table.rows[j.of] = j.total /\ k.at = "complete"
           \/ table.rows[j.of] # j.total /\ k.at = "chunk"
  <2>1. CASE table.rows[j.of] = j.total
    <3>1. [j EXCEPT !.at = "complete"] \in ImportTasks
      BY <1>1 DEF ImportTasks
    <3> QED
      BY <1>1, <2>1, <3>1 DEF CountChunk, Goes, Moves, ImportTasks
  <2>2. CASE table.rows[j.of] # j.total
    <3>1. [j EXCEPT !.at = "chunk"] \in ImportTasks
      BY <1>1 DEF ImportTasks
    <3> QED
      BY <1>1, <2>2, <3>1 DEF CountChunk, Goes, Moves, ImportTasks
  <2> QED
    BY <2>1, <2>2
<1>6. /\ Still /\ table'.run = table.run /\ table'.item = table.item /\ table'.flow = table.flow
      /\ \A i \in Imports \ {j.of} :
           table'.import[i] = table.import[i] /\ table'.rows[i] = table.rows[i]
  BY <1>1 DEF CountChunk, Tables
<1>7. /\ table'.import[j.of].count = table.import[j.of].count + 1 /\ table'.rows[j.of] = table.rows[j.of]
      /\ table'.import[j.of].total = table.import[j.of].total
      /\ table'.import[j.of].status = table.import[j.of].status
  BY <1>1, <1>2 DEF CountChunk, Tables
<1>8. Counted(k)'
  BY <1>2, <1>3, <1>5, <1>7 DEF Counted, Moves, CountChunk
<1>9. /\ table'.import[j.of].status \in {table.import[j.of].status, "running"}
      /\ table'.rows[j.of] \in {table'.import[j.of].count, table'.import[j.of].count + 1}
  BY <1>2, <1>3, <1>7 DEF Counted, CountChunk
<1> QED
  BY <1>1, <1>4, <1>5, <1>6, <1>8, <1>9, ImportFrame

\* When a run's task ends, or is left to its fallback, the rest of the invariant is kept.
LEMMA RunEnded ==
    ASSUME Runs \cap Imports = {}, IInv, NEW j \in jobs, j.of \in Runs,
           NEW k \in RunTasks, k.of = j.of, k.at = "fallback", jobs' \subseteq (jobs \ {j}) \cup {k},
           k \in jobs' => rough,
           table'.import = table.import, table'.rows = table.rows,
           table'.item = table.item, table'.flow = table.flow,
           \A r \in Runs \ {j.of} : table'.run[r] = table.run[r],
           table'.run[j.of] \in {"completed", "failed", table.run[j.of]},
           procs' = procs, rough' = rough, log'.alone = log.alone
    PROVE  Swept' /\ Submitted' /\ Counting' /\ Whole' /\ OwnEnd' /\ Single' /\ Reviewing'
<1>1. Swept' /\ Whole'
  BY DEF IInv, Swept, Whole
<1>2. \A l \in jobs' : l.of \notin Runs => l \in jobs /\ l.of \in Imports
  BY TaskKinds DEF IInv
<1>3. Submitted'
  BY <1>2 DEF IInv, Submitted
<1>4. Counting'
  BY DEF IInv, Counting, Counted
<1>5. OwnEnd'
  <2>1. ASSUME log'.alone, NEW l \in jobs', l.at # "fallback"
        PROVE  Open(l.of)'
    <3>1. l \in jobs /\ l.of # j.of /\ log.alone
      BY <2>1 DEF IInv, TypeOK
    <3>2. Open(l.of)
      BY <2>1, <3>1 DEF IInv, OwnEnd
    <3> QED
      BY <3>1, <3>2 DEF Open
  <2> QED
    BY <2>1 DEF OwnEnd
<1>6. CASE rough
  BY <1>1, <1>3, <1>4, <1>5, <1>6 DEF Single, Reviewing
<1>7. CASE ~ rough
  <2>1. jobs' \subseteq jobs /\ Using' \subseteq Using /\ Active' = Active
    BY <1>7 DEF Using, Active
  <2>2. Single' /\ Reviewing'
    BY <1>7, <2>1 DEF IInv, Single, Reviewing, Reviewed
  <2> QED
    BY <1>1, <1>3, <1>4, <1>5, <2>2
<1> QED
  BY <1>6, <1>7

\* Completing a run keeps the invariant.
LEMMA CompleteRunKeeps ==
    ASSUME Runs \cap Imports = {}, IInv, NEW j \in jobs, j.of \in Runs, CompleteRun(j)
    PROVE  IInv'
<1>1. j \in RunTasks /\ table \in Tables
  BY TaskKinds DEF IInv, TypeOK
<1>2. PICK s \in {"completed", "failed"} : RunGoes(j.of, s)
  BY Zenon DEF CompleteRun
<1>3. [table.run EXCEPT ![j.of] = s] \in [Runs -> {"none", "running", "completed", "failed"}]
  BY <1>1 DEF Tables
<1>4. /\ table' \in Tables /\ table'.import = table.import /\ table'.rows = table.rows
      /\ table'.item = table.item /\ table'.flow = table.flow
      /\ \A r \in Runs \ {j.of} : table'.run[r] = table.run[r]
      /\ table'.run[j.of] = s
  BY <1>1, <1>2, <1>3 DEF Tables, RunGoes
<1>5. /\ \A t \in Tasks \ {j.of} : Open(t)' => Open(t)
      /\ ~ Open(j.of)'
  BY <1>4 DEF Open
<1>6. Still
  BY DEF CompleteRun
<1>7. DEFINE k == [j EXCEPT !.at = "fallback"]
<1>8. k \in RunTasks /\ k.of = j.of /\ k.proc = j.proc /\ k.at = "fallback"
  BY <1>1 DEF RunTasks
<1> HIDE DEF k
<1>9. jobs' = jobs \ {j} \/ (rough /\ jobs' = (jobs \ {j}) \cup {k})
  BY DEF CompleteRun, Goes, Ends, k
<1>10. CASE jobs' = jobs \ {j}
  <2>1. log' \in [alone : BOOLEAN, lost : SUBSET Tasks]
    BY <1>6 DEF IInv, TypeOK, Still
  <2>2. TypeOK' /\ Up' /\ OneProc' /\ NotForgotten'
    BY <1>4, <1>5, <1>6, <1>10, <2>1, TaskOver DEF Still
  <2>3. k \notin jobs' \/ j = k
    BY <1>8, <1>10 DEF IInv, TypeOK
  <2>4. k \in jobs' => rough
    BY <1>10, <2>3
  <2>5. Swept' /\ Submitted' /\ Counting' /\ Whole' /\ OwnEnd' /\ Single' /\ Reviewing'
    BY <1>4, <1>6, <1>8, <1>10, <2>4, RunEnded DEF Still
  <2> QED
    BY <2>2, <2>5 DEF IInv
<1>11. CASE rough /\ jobs' = (jobs \ {j}) \cup {k}
  <2>1. Moves(j, k)
    BY <1>8, <1>11 DEF Moves
  <2>2. TypeOK' /\ Up' /\ OneProc' /\ NotForgotten'
    BY <1>4, <1>5, <1>6, <1>8, <2>1, TaskTyped
  <2>3. Swept' /\ Submitted' /\ Counting' /\ Whole' /\ OwnEnd' /\ Single' /\ Reviewing'
    BY <1>4, <1>6, <1>8, <1>11, RunEnded DEF Still
  <2> QED
    BY <2>2, <2>3 DEF IInv
<1> QED
  BY <1>9, <1>10, <1>11

\* The fallback keeps the invariant, whether its write succeeds or not.
LEMMA FallbackKeeps ==
    ASSUME Runs \cap Imports = {}, IInv, NEW j \in jobs, j.of \in Runs, Fallback(j)
    PROVE  IInv'
<1>1. j \in RunTasks /\ table \in Tables /\ j.at = "fallback" /\ j.of \in Tasks
  BY TaskKinds DEF IInv, TypeOK, Fallback, Tasks
<1>2. jobs' = jobs \ {j} /\ procs' = procs /\ rough' = rough
  BY DEF Fallback, Ends
<1>3. /\ table' \in Tables /\ table'.import = table.import /\ table'.rows = table.rows
      /\ table'.item = table.item /\ table'.flow = table.flow
      /\ \A r \in Runs \ {j.of} : table'.run[r] = table.run[r]
      /\ table'.run[j.of] \in {"failed", table.run[j.of]}
      /\ table'.run[j.of] = "failed" \/ j.of \in log'.lost
      /\ log'.alone = log.alone /\ log.lost \subseteq log'.lost
      /\ log' \in [alone : BOOLEAN, lost : SUBSET Tasks]
  <2>1. CASE RunGoes(j.of, "failed") /\ UNCHANGED log
    <3>1. [table.run EXCEPT ![j.of] = "failed"] \in [Runs -> {"none", "running", "completed", "failed"}]
      BY <1>1 DEF Tables
    <3> QED
      BY <1>1, <2>1, <3>1 DEF Tables, RunGoes, IInv, TypeOK
  <2>2. CASE UNCHANGED table /\ log' = [log EXCEPT !.lost = @ \cup {j.of}]
    BY <1>1, <2>2 DEF IInv, TypeOK
  <2> QED
    BY <2>1, <2>2 DEF Fallback
<1>4. /\ \A t \in Tasks \ {j.of} : Open(t)' => Open(t)
      /\ Open(j.of)' => j.of \in log'.lost
  BY <1>3 DEF Open
<1>5. TypeOK' /\ Up' /\ OneProc' /\ NotForgotten'
  BY <1>2, <1>3, <1>4, TaskOver
<1>6. Swept' /\ Submitted' /\ Counting' /\ Whole' /\ OwnEnd' /\ Single' /\ Reviewing'
  BY <1>1, <1>2, <1>3, RunEnded
<1> QED
  BY <1>5, <1>6 DEF IInv

\* Writing an import's status changes nothing else of the tables.
LEMMA StatusWritten ==
    ASSUME TypeOK, NEW i \in Imports, NEW s \in {"completed", "failed"}, ImportGoes(i, s)
    PROVE  /\ table' \in Tables /\ table'.run = table.run /\ table'.rows = table.rows
           /\ table'.item = table.item /\ table'.flow = table.flow
           /\ \A h \in Imports \ {i} : table'.import[h] = table.import[h]
           /\ table'.import[i].count = table.import[i].count
           /\ table'.import[i].total = table.import[i].total
           /\ table'.import[i].status = s
<1>1. table \in Tables
  BY DEF TypeOK
<1>2. table.import[i] \in [status : {"none", "pending", "running", "completed", "failed"},
                           total : 0 .. Chunks, count : 0 .. Chunks]
  BY <1>1 DEF Tables
<1>3. [table.import EXCEPT ![i].status = s] \in
        [Imports -> [status : {"none", "pending", "running", "completed", "failed"},
                     total : 0 .. Chunks, count : 0 .. Chunks]]
  BY <1>1, <1>2 DEF Tables
<1>4. table'.import = [table.import EXCEPT ![i].status = s]
  BY <1>1 DEF Tables, ImportGoes
<1>5. /\ table' \in Tables /\ table'.run = table.run /\ table'.rows = table.rows
      /\ table'.item = table.item /\ table'.flow = table.flow
  BY <1>1, <1>3 DEF Tables, ImportGoes
<1>6. \A h \in Imports \ {i} : table'.import[h] = table.import[h]
  BY <1>1, <1>4 DEF Tables
<1>7. table'.import[i] = [table.import[i] EXCEPT !.status = s]
  BY <1>1, <1>4 DEF Tables
<1> QED
  BY <1>2, <1>5, <1>6, <1>7

\* When an import's task ends, the rest of the invariant is kept.
LEMMA ImportEnded ==
    ASSUME Runs \cap Imports = {}, IInv, NEW j \in jobs, j \in ImportTasks, jobs' = jobs \ {j},
           table' \in Tables, table'.run = table.run, table'.rows = table.rows,
           table'.item = table.item, table'.flow = table.flow,
           \A i \in Imports \ {j.of} : table'.import[i] = table.import[i],
           table'.import[j.of].count = table.import[j.of].count,
           table'.import[j.of].total = table.import[j.of].total,
           table'.import[j.of].status \in {"completed", "failed", table.import[j.of].status},
           table'.import[j.of].status = "completed" =>
               /\ table.import[j.of].count = table.import[j.of].total
               /\ table.rows[j.of] = table.import[j.of].total,
           procs' = procs, rough' = rough, log'.alone = log.alone
    PROVE  Swept' /\ Submitted' /\ Counting' /\ Whole' /\ OwnEnd' /\ Single' /\ Reviewing'
<1>1. j.of \in Imports /\ j.of \notin Runs /\ table.import[j.of].status # "none"
  BY DEF ImportTasks, IInv, Submitted
<1>2. Swept'
  BY DEF IInv, Swept
<1>3. \A l \in jobs' : l \in jobs /\ l.of # j.of /\ (l.of \in Runs \/ l.of \in Imports)
  BY TaskKinds DEF IInv, TypeOK
<1>4. Submitted'
  BY <1>1, <1>3 DEF IInv, Submitted
<1>5. Counting'
  BY <1>3 DEF IInv, Counting, Counted
<1>6. Whole'
  BY <1>1 DEF IInv, Whole
<1>7. OwnEnd'
  BY <1>3 DEF IInv, OwnEnd, Open
<1>8. Using' = Using /\ Active' = Active
  BY <1>1 DEF Using, Active
<1>9. Single' /\ Reviewing'
  BY <1>8 DEF IInv, Single, Reviewing, Reviewed
<1> QED
  BY <1>2, <1>4, <1>5, <1>6, <1>7, <1>9

\* Completing an import keeps the invariant: its rows are all counted.
LEMMA CompleteImportKeeps ==
    ASSUME Runs \cap Imports = {}, IInv, NEW j \in jobs, j.of \notin Runs, CompleteImport(j)
    PROVE  IInv'
<1>1. j \in ImportTasks /\ j.of \in Imports /\ table \in Tables /\ j.at = "complete"
  BY TaskKinds DEF IInv, TypeOK, CompleteImport
<1>2. jobs' = jobs \ {j} /\ procs' = procs /\ rough' = rough /\ log' = log
  BY DEF CompleteImport, Ends, Still
<1>4. /\ table' \in Tables /\ table'.run = table.run /\ table'.rows = table.rows
      /\ table'.item = table.item /\ table'.flow = table.flow
      /\ \A i \in Imports \ {j.of} : table'.import[i] = table.import[i]
      /\ table'.import[j.of].count = table.import[j.of].count
      /\ table'.import[j.of].total = table.import[j.of].total
      /\ table'.import[j.of].status = "completed"
  BY <1>1, StatusWritten DEF IInv, CompleteImport
<1>5. /\ table.import[j.of].count = table.import[j.of].total
      /\ table.rows[j.of] = table.import[j.of].total
  BY <1>1 DEF IInv, Counting, Counted
<1>6. log' \in [alone : BOOLEAN, lost : SUBSET Tasks]
  BY <1>2 DEF IInv, TypeOK
<1>7. /\ \A t \in Tasks \ {j.of} : Open(t)' => Open(t)
      /\ ~ Open(j.of)'
  BY <1>4 DEF Open, Tasks
<1>8. TypeOK' /\ Up' /\ OneProc' /\ NotForgotten'
  BY <1>2, <1>4, <1>6, <1>7, TaskOver
<1>9. Swept' /\ Submitted' /\ Counting' /\ Whole' /\ OwnEnd' /\ Single' /\ Reviewing'
  BY <1>1, <1>2, <1>4, <1>5, ImportEnded
<1> QED
  BY <1>8, <1>9 DEF IInv

\* Failing an import keeps the invariant, whether the write succeeds or not.
LEMMA FailImportKeeps ==
    ASSUME Runs \cap Imports = {}, IInv, NEW j \in jobs, j.of \notin Runs, FailImport(j)
    PROVE  IInv'
<1>1. /\ j \in ImportTasks /\ j.of \in Imports /\ table \in Tables /\ j.of \in Tasks
      /\ table.import[j.of].status # "completed"
  BY TaskKinds DEF IInv, TypeOK, Tasks, Submitted
<1>2. jobs' = jobs \ {j} /\ procs' = procs /\ rough' = rough
  BY DEF FailImport, Ends
<1>3. /\ table' \in Tables /\ table'.run = table.run /\ table'.rows = table.rows
      /\ table'.item = table.item /\ table'.flow = table.flow
      /\ \A i \in Imports \ {j.of} : table'.import[i] = table.import[i]
      /\ table'.import[j.of].count = table.import[j.of].count
      /\ table'.import[j.of].total = table.import[j.of].total
      /\ table'.import[j.of].status \in {"failed", table.import[j.of].status}
      /\ table'.import[j.of].status = "failed" \/ j.of \in log'.lost
      /\ log'.alone = log.alone /\ log.lost \subseteq log'.lost
      /\ log' \in [alone : BOOLEAN, lost : SUBSET Tasks]
  <2>1. CASE ImportGoes(j.of, "failed") /\ UNCHANGED log
    BY <1>1, <2>1, StatusWritten DEF IInv, TypeOK
  <2>2. CASE UNCHANGED table /\ log' = [log EXCEPT !.lost = @ \cup {j.of}]
    BY <1>1, <2>2 DEF IInv, TypeOK
  <2> QED
    BY <2>1, <2>2 DEF FailImport
<1>4. /\ \A t \in Tasks \ {j.of} : Open(t)' => Open(t)
      /\ Open(j.of)' => j.of \in log'.lost
  BY <1>1, <1>3 DEF Open, Tasks
<1>5. TypeOK' /\ Up' /\ OneProc' /\ NotForgotten'
  BY <1>2, <1>3, <1>4, TaskOver
<1>6. Swept' /\ Submitted' /\ Counting' /\ Whole' /\ OwnEnd' /\ Single' /\ Reviewing'
  BY <1>1, <1>2, <1>3, ImportEnded
<1> QED
  BY <1>5, <1>6 DEF IInv

\* A new task adds its record to the others, whose rows are not its own.
LEMMA BegunTyped ==
    ASSUME Runs \cap Imports = {}, Chunks \in Nat, IInv, NEW p \in Procs, procs[p] = "up",
           NEW t \in Tasks, \A j \in jobs : j.of # t,
           Begun(p, t), Still, table' \in Tables,
           \A u \in Tasks \ {t} : Open(u)' => Open(u)
    PROVE  /\ TypeOK' /\ Up' /\ OneProc' /\ NotForgotten'
           /\ \E k \in RunTasks \cup ImportTasks :
                /\ k.of = t /\ k.proc = p /\ k.at = "begin" /\ ~ k.ok
                /\ (t \in Runs => k \in RunTasks) /\ (t \in Imports => k \in ImportTasks)
                /\ jobs' = jobs \cup {k}
<1>1. PICK k \in RunTasks \cup ImportTasks :
        /\ k.of = t /\ k.proc = p /\ k.at = "begin" /\ ~ k.ok
        /\ (t \in Runs => k \in RunTasks) /\ (t \in Imports => k \in ImportTasks)
        /\ jobs' = jobs \cup {k}
  <2> DEFINE k == [of |-> t, proc |-> p, at |-> "begin", ok |-> FALSE,
                   noted |-> FALSE, flow |-> First, total |-> 0]
  <2>1. k.of = t /\ k.proc = p /\ k.at = "begin" /\ ~ k.ok /\ jobs' = jobs \cup {k}
    BY DEF Begun
  <2>2. t \in Runs => k \in RunTasks
    BY DEF RunTasks, Flows
  <2>3. t \in Imports => k \in ImportTasks
    BY DEF ImportTasks, Flows
  <2> HIDE DEF k
  <2> QED
    BY <2>1, <2>2, <2>3 DEF Tasks
<1>2. TypeOK'
  BY <1>1 DEF IInv, TypeOK, Still
<1>3. Up' /\ OneProc'
  BY <1>1 DEF IInv, Up, OneProc, Still
<1>4. NotForgotten'
  <2>1. ASSUME log'.alone, NEW u \in Tasks, Open(u)'
        PROVE  (\E l \in jobs' : l.of = u) \/ u \in log'.lost \/ \A q \in Procs : procs'[q] # "up"
    <3>1. CASE u = t
      BY <1>1, <3>1
    <3>2. CASE u # t
      <4>1. (\E l \in jobs : l.of = u) \/ u \in log.lost \/ \A q \in Procs : procs[q] # "up"
        BY <2>1, <3>2 DEF IInv, NotForgotten, Still
      <4> QED
        BY <1>1, <4>1 DEF Still
    <3> QED
      BY <3>1, <3>2
  <2> QED
    BY <2>1 DEF NotForgotten
<1> QED
  BY <1>1, <1>2, <1>3, <1>4

\* Submitting a run keeps the invariant.
LEMMA SubmitRunKeeps ==
    ASSUME Runs \cap Imports = {}, Chunks \in Nat, IInv, NEW p \in Procs, NEW r \in Runs, SubmitRun(p, r)
    PROVE  IInv'
<1>1. /\ table \in Tables /\ r \in Tasks /\ procs[p] = "up" /\ log \in [alone : BOOLEAN, lost : SUBSET Tasks]
      /\ UNCHANGED <<procs, rough, acts>>
  BY DEF IInv, TypeOK, Tasks, SubmitRun
<1>2. \A j \in jobs : j.of # r
  BY DEF IInv, Submitted, SubmitRun
<1>3. [table.run EXCEPT ![r] = "running"] \in [Runs -> {"none", "running", "completed", "failed"}]
  BY <1>1 DEF Tables
<1>4. /\ table' \in Tables /\ table'.import = table.import /\ table'.rows = table.rows
      /\ table'.item = table.item /\ table'.flow = table.flow
      /\ \A q \in Runs \ {r} : table'.run[q] = table.run[q]
      /\ table'.run[r] = "running"
  BY <1>1, <1>3 DEF Tables, SubmitRun, RunGoes
<1>5. \A u \in Tasks \ {r} : Open(u)' => Open(u)
  BY <1>4 DEF Open
<1>6. Active' = Active
  BY <1>4 DEF Active
<1>7. CASE Begun(p, r) /\ UNCHANGED log
  <2>1. /\ TypeOK' /\ Up' /\ OneProc' /\ NotForgotten'
        /\ \E k \in RunTasks \cup ImportTasks :
             /\ k.of = r /\ k.proc = p /\ k.at = "begin" /\ ~ k.ok
             /\ (r \in Runs => k \in RunTasks) /\ (r \in Imports => k \in ImportTasks)
             /\ jobs' = jobs \cup {k}
    BY <1>1, <1>2, <1>4, <1>5, <1>7, BegunTyped DEF Still
  <2>2. PICK k \in RunTasks : k.of = r /\ k.at = "begin" /\ ~ k.ok /\ jobs' = jobs \cup {k}
    BY <2>1
  <2>3. Swept'
    <3>1. ASSUME log'.alone, NEW q \in Procs, procs'[q] = "imports" PROVE FALSE
      BY <1>1, <1>7, <3>1 DEF IInv, OneProc
    <3> QED
      BY <3>1 DEF Swept
  <2>4. Submitted' /\ Whole'
    BY <1>4, <2>2 DEF IInv, Submitted, Whole
  <2>5. Counting'
    BY <1>4, <2>2 DEF IInv, Counting, Counted
  <2>6. OwnEnd'
    BY <1>4, <1>7, <2>2 DEF IInv, OwnEnd, Open
  <2>7. Single' /\ Reviewing'
    <3>1. CASE rough
      BY <1>1, <3>1 DEF Single, Reviewing
    <3>2. CASE ~ rough
      <4>1. \A l \in Using' : l = k
        BY <2>2, <3>2 DEF Using, SubmitRun
      <4>2. Reviewed(k)'
        BY <2>2 DEF Reviewed
      <4> QED
        BY <1>6, <3>2, <4>1, <4>2 DEF IInv, Single, Reviewing
    <3> QED
      BY <3>1, <3>2
  <2> QED
    BY <2>1, <2>3, <2>4, <2>5, <2>6, <2>7 DEF IInv
<1>8. CASE rough /\ UNCHANGED jobs /\ log' = [log EXCEPT !.lost = @ \cup {r}]
  <2>1. log' \in [alone : BOOLEAN, lost : SUBSET Tasks] /\ log'.alone = log.alone /\ r \in log'.lost
        /\ log.lost \subseteq log'.lost
    BY <1>1, <1>8
  <2>2. TypeOK'
    BY <1>1, <1>4, <1>8, <2>1 DEF IInv, TypeOK
  <2>3. Up' /\ OneProc'
    BY <1>1, <1>8, <2>1 DEF IInv, Up, OneProc
  <2>4. NotForgotten'
    BY <1>1, <1>5, <1>8, <2>1 DEF IInv, NotForgotten
  <2>5. Swept'
    <3>1. ASSUME log'.alone, NEW q \in Procs, procs'[q] = "imports" PROVE FALSE
      BY <1>1, <2>1, <3>1 DEF IInv, OneProc
    <3> QED
      BY <3>1 DEF Swept
  <2>6. Submitted' /\ Whole'
    BY <1>2, <1>4, <1>8 DEF IInv, Submitted, Whole
  <2>7. Counting'
    BY <1>4, <1>8 DEF IInv, Counting, Counted
  <2>8. OwnEnd'
    BY <1>2, <1>4, <1>8, <2>1 DEF IInv, OwnEnd, Open
  <2>9. Single' /\ Reviewing'
    BY <1>1, <1>8 DEF Single, Reviewing
  <2> QED
    BY <2>2, <2>3, <2>4, <2>5, <2>6, <2>7, <2>8, <2>9 DEF IInv
<1> QED
  BY <1>7, <1>8 DEF SubmitRun

\* Submitting an import keeps the invariant.
LEMMA SubmitImportKeeps ==
    ASSUME Runs \cap Imports = {}, Chunks \in Nat, IInv, NEW p \in Procs, NEW i \in Imports,
           SubmitImport(p, i)
    PROVE  IInv'
<1>1. /\ table \in Tables /\ i \in Tasks /\ i \notin Runs /\ procs[p] = "up" /\ Still
      /\ table.import[i].status = "none"
  BY DEF IInv, TypeOK, Tasks, SubmitImport
<1>2. \A j \in jobs : j.of # i
  BY <1>1 DEF IInv, Submitted
<1>3. table.import[i] \in [status : {"none", "pending", "running", "completed", "failed"},
                           total : 0 .. Chunks, count : 0 .. Chunks]
  BY <1>1 DEF Tables
<1>4. [table.import EXCEPT ![i].status = "pending"] \in
        [Imports -> [status : {"none", "pending", "running", "completed", "failed"},
                     total : 0 .. Chunks, count : 0 .. Chunks]]
  BY <1>1, <1>3 DEF Tables
<1>5. /\ table' \in Tables /\ table'.run = table.run /\ table'.rows = table.rows
      /\ table'.item = table.item /\ table'.flow = table.flow
      /\ table'.import = [table.import EXCEPT ![i].status = "pending"]
  BY <1>1, <1>4 DEF Tables, SubmitImport, ImportGoes
<1>6. /\ \A h \in Imports \ {i} : table'.import[h] = table.import[h]
      /\ table'.import[i] = [table.import[i] EXCEPT !.status = "pending"]
  BY <1>1, <1>5 DEF Tables
<1>7. /\ table'.import[i].status = "pending" /\ table'.import[i].count = table.import[i].count
  BY <1>3, <1>6
<1>8. \A u \in Tasks \ {i} : Open(u)' => Open(u)
  BY <1>5, <1>6 DEF Open, Tasks
<1>9. Begun(p, i)
  BY DEF SubmitImport
<1>10. /\ TypeOK' /\ Up' /\ OneProc' /\ NotForgotten'
       /\ \E k \in RunTasks \cup ImportTasks :
            /\ k.of = i /\ k.proc = p /\ k.at = "begin" /\ ~ k.ok
            /\ (i \in Runs => k \in RunTasks) /\ (i \in Imports => k \in ImportTasks)
            /\ jobs' = jobs \cup {k}
  BY <1>1, <1>2, <1>5, <1>8, <1>9, BegunTyped
<1>11. PICK k \in ImportTasks : k.of = i /\ k.at = "begin" /\ jobs' = jobs \cup {k}
  BY <1>10
<1>12. Swept'
  BY <1>1, <1>5 DEF IInv, Swept, Still
<1>13. \A l \in jobs : (l.of \in Runs \/ l.of \in Imports)
  BY TaskKinds DEF IInv
<1>14. Submitted'
  BY <1>1, <1>2, <1>5, <1>6, <1>7, <1>11, <1>13 DEF IInv, Submitted
<1>15. Whole'
  BY <1>1, <1>5, <1>6, <1>7 DEF IInv, Whole
<1>16. Counting'
  <2>1. Counted(k)'
    BY <1>1, <1>5, <1>7, <1>11 DEF Counted, IInv, Submitted
  <2>2. ASSUME NEW l \in jobs, l.of \in Imports
        PROVE  Counted(l)'
    BY <1>2, <1>5, <1>6, <2>2 DEF IInv, Counting, Counted
  <2> QED
    BY <1>11, <2>1, <2>2 DEF Counting
<1>17. OwnEnd'
  BY <1>1, <1>2, <1>5, <1>6, <1>7, <1>11, <1>13 DEF IInv, OwnEnd, Open, Still
<1>18. Using' = Using /\ Active' = Active
  BY <1>1, <1>5, <1>11 DEF Using, Active
<1>19. Single' /\ Reviewing'
  BY <1>1, <1>5, <1>18 DEF IInv, Single, Reviewing, Reviewed, Still
<1> QED
  BY <1>10, <1>12, <1>14, <1>15, <1>16, <1>17, <1>19 DEF IInv

\* While one process runs, the tasks are those of a process that is up.
LEMMA NoTasks ==
    ASSUME IInv, log.alone, NEW p \in Procs, procs[p] \notin {"down", "up"}
    PROVE  jobs = {}
<1>1. ASSUME NEW j \in jobs PROVE FALSE
  <2>1. j.proc \in Procs /\ procs[j.proc] = "up"
    BY DEF IInv, TypeOK, Up, RunTasks, ImportTasks
  <2> QED
    BY <2>1 DEF IInv, OneProc
<1> QED
  BY <1>1

\* A start keeps the invariant: a process that starts beside another ends log.alone.
LEMMA StartKeeps ==
    ASSUME IInv, NEW p \in Procs, Start(p)
    PROVE  IInv'
<1>1. TypeOK'
  BY DEF IInv, TypeOK, Start
<1>2. Up'
  <2>1. \A j \in jobs : j.proc \in Procs /\ j.proc # p
    BY DEF IInv, TypeOK, Up, RunTasks, ImportTasks, Start
  <2> QED
    BY <2>1 DEF IInv, TypeOK, Up, Start
<1>3. log'.alone => log.alone /\ \A q \in Procs : q # p => procs'[q] = "down"
  BY DEF IInv, TypeOK, Start
<1>4. procs'[p] = "events" /\ table' = table /\ jobs' = jobs /\ rough' = rough /\ log'.lost = log.lost
  BY DEF IInv, TypeOK, Start
<1>5. OneProc' /\ Swept' /\ NotForgotten'
  BY <1>3, <1>4 DEF OneProc, Swept, NotForgotten
<1>6. Submitted' /\ Counting' /\ Whole' /\ OwnEnd' /\ Single' /\ Reviewing'
  BY <1>3, <1>4 DEF IInv, Submitted, Counting, Counted, Whole, OwnEnd, Open, Single, Reviewing, Reviewed,
                    Using, Active
<1> QED
  BY <1>1, <1>2, <1>5, <1>6 DEF IInv

\* Noting the interrupted runs' events keeps the invariant, also when it fails.
LEMMA RecoverEventsKeeps ==
    ASSUME IInv, NEW p \in Procs, RecoverEvents(p)
    PROVE  IInv'
<1>1. PICK s \in {"runs", "down"} : procs' = [procs EXCEPT ![p] = s]
  BY DEF RecoverEvents
<1>2. procs[p] = "events" /\ table' = table /\ jobs' = jobs /\ log' = log /\ rough' = rough
  BY DEF RecoverEvents
<1>3. procs \in [Procs -> {"down", "events", "runs", "imports", "up"}]
  BY DEF IInv, TypeOK
<1>4. TypeOK'
  BY <1>1, <1>2 DEF IInv, TypeOK
<1>5. Up'
  BY <1>1, <1>2, <1>3 DEF IInv, Up
<1>6. OneProc' /\ Swept'
  BY <1>1, <1>2, <1>3 DEF IInv, OneProc, Swept
<1>7. NotForgotten'
  BY <1>1, <1>2, <1>3 DEF IInv, NotForgotten, Open
<1>8. Submitted' /\ Counting' /\ Whole' /\ OwnEnd' /\ Single' /\ Reviewing'
  BY <1>2 DEF IInv, Submitted, Counting, Counted, Whole, OwnEnd, Open, Single, Reviewing, Reviewed,
              Using, Active
<1> QED
  BY <1>4, <1>5, <1>6, <1>7, <1>8 DEF IInv

\* Failing the runs of a crash keeps the invariant: a process that starts alone
\* finds no task.
LEMMA RecoverRunsKeeps ==
    ASSUME IInv, NEW p \in Procs, RecoverRuns(p)
    PROVE  IInv'
<1>1. /\ procs[p] = "runs" /\ procs' = [procs EXCEPT ![p] = "imports"]
      /\ jobs' = jobs /\ log' = log /\ rough' = rough /\ table \in Tables
      /\ procs \in [Procs -> {"down", "events", "runs", "imports", "up"}]
  BY DEF RecoverRuns, IInv, TypeOK
<1>2. /\ table' = [table EXCEPT !.run = [r \in Runs |-> IF table.run[r] = "running" THEN "failed"
                                                        ELSE table.run[r]]]
  BY <1>1 DEF RecoverRuns, Tables
<1>3. [r \in Runs |-> IF table.run[r] = "running" THEN "failed" ELSE table.run[r]] \in
        [Runs -> {"none", "running", "completed", "failed"}]
  BY <1>1 DEF Tables
<1>4. /\ table' \in Tables /\ table'.import = table.import /\ table'.rows = table.rows
      /\ table'.item = table.item /\ table'.flow = table.flow
      /\ \A r \in Runs : table'.run[r] # "running" /\ (table'.run[r] = "none" => table.run[r] = "none")
  BY <1>1, <1>2, <1>3 DEF Tables
<1>5. TypeOK'
  BY <1>1, <1>4 DEF IInv, TypeOK
<1>6. Up' /\ OneProc' /\ Swept'
  BY <1>1, <1>4 DEF IInv, Up, OneProc, Swept
<1>7. Submitted' /\ Whole'
  BY <1>1, <1>4 DEF IInv, Submitted, Whole
<1>8. Counting'
  BY <1>1, <1>4 DEF IInv, Counting, Counted
<1>9. OwnEnd'
  BY <1>1, NoTasks DEF OwnEnd
<1>10. NotForgotten'
  <2>1. \A t \in Tasks : Open(t)' => Open(t)
    BY <1>4 DEF Open
  <2>2. \A q \in Procs : procs[q] # "up" => procs'[q] # "up"
    BY <1>1
  <2> QED
    BY <1>1, <2>1, <2>2 DEF IInv, NotForgotten
<1>11. Using' = Using /\ Active' = Active
  BY <1>1, <1>4 DEF Using, Active
<1>12. Single' /\ Reviewing'
  BY <1>1, <1>4, <1>11 DEF IInv, Single, Reviewing, Reviewed
<1> QED
  BY <1>5, <1>6, <1>7, <1>8, <1>9, <1>10, <1>12 DEF IInv

\* Failing the imports of a crash keeps the invariant: no row is open after it.
LEMMA RecoverImportsKeeps ==
    ASSUME Runs \cap Imports = {}, IInv, NEW p \in Procs, RecoverImports(p)
    PROVE  IInv'
<1> DEFINE swept == [i \in Imports |-> IF table.import[i].status \in {"pending", "running"}
                                       THEN [table.import[i] EXCEPT !.status = "failed"]
                                       ELSE table.import[i]]
<1>1. /\ procs[p] = "imports" /\ procs' = [procs EXCEPT ![p] = "up"]
      /\ jobs' = jobs /\ log' = log /\ rough' = rough /\ table \in Tables
      /\ procs \in [Procs -> {"down", "events", "runs", "imports", "up"}]
  BY DEF RecoverImports, IInv, TypeOK
<1>2. table' = [table EXCEPT !.import = swept]
  BY <1>1 DEF RecoverImports, Tables
<1>3. ASSUME NEW i \in Imports
      PROVE  /\ swept[i] \in [status : {"none", "pending", "running", "completed", "failed"},
                              total : 0 .. Chunks, count : 0 .. Chunks]
             /\ swept[i].count = table.import[i].count /\ swept[i].total = table.import[i].total
             /\ swept[i].status \notin {"pending", "running"}
             /\ swept[i].status \in {"none", "completed"} => swept[i].status = table.import[i].status
             /\ swept[i].status = "none" => table.import[i].status = "none"
  <2>1. table.import[i] \in [status : {"none", "pending", "running", "completed", "failed"},
                             total : 0 .. Chunks, count : 0 .. Chunks]
    BY <1>1 DEF Tables
  <2> QED
    BY <2>1
<1>4. /\ table' \in Tables /\ table'.run = table.run /\ table'.rows = table.rows
      /\ table'.item = table.item /\ table'.flow = table.flow /\ table'.import = swept
  <2>1. swept \in [Imports -> [status : {"none", "pending", "running", "completed", "failed"},
                               total : 0 .. Chunks, count : 0 .. Chunks]]
    BY <1>3
  <2> QED
    BY <1>1, <1>2, <2>1 DEF Tables
<1> HIDE DEF swept
<1>5. TypeOK'
  BY <1>1, <1>4 DEF IInv, TypeOK
<1>6. Up' /\ OneProc' /\ Swept'
  BY <1>1, <1>4 DEF IInv, Up, OneProc, Swept
<1>7. Submitted'
  <2>1. \A j \in jobs : j.of \in Runs \/ j.of \in Imports
    BY DEF IInv, TypeOK, RunTasks, ImportTasks
  <2> QED
    BY <1>1, <1>3, <1>4, <2>1 DEF IInv, Submitted
<1>8. Whole'
  BY <1>3, <1>4 DEF IInv, Whole
<1>9. Counting'
  BY <1>1, <1>3, <1>4 DEF IInv, Counting, Counted
<1>10. OwnEnd'
  BY <1>1, NoTasks DEF OwnEnd
<1>11. log.alone => \A t \in Tasks : ~ Open(t)'
  BY <1>1, <1>3, <1>4 DEF IInv, Swept, Open, Tasks
<1>12. NotForgotten'
  BY <1>1, <1>11 DEF NotForgotten
<1>13. Using' = Using /\ Active' = Active
  BY <1>1, <1>4 DEF Using, Active
<1>14. Single' /\ Reviewing'
  BY <1>1, <1>4, <1>13 DEF IInv, Single, Reviewing, Reviewed
<1> QED
  BY <1>5, <1>6, <1>7, <1>8, <1>9, <1>10, <1>12, <1>14 DEF IInv

\* A crash keeps the invariant: alone, it leaves every open row to the next start.
LEMMA CrashKeeps ==
    ASSUME IInv, NEW p \in Procs, Crash(p)
    PROVE  IInv'
<1>1. /\ procs[p] # "down" /\ procs' = [procs EXCEPT ![p] = "down"] /\ jobs' = {j \in jobs : j.proc # p}
      /\ table' = table /\ log' = log /\ rough' = rough
      /\ procs \in [Procs -> {"down", "events", "runs", "imports", "up"}]
  BY DEF Crash, IInv, TypeOK
<1>2. TypeOK'
  BY <1>1 DEF IInv, TypeOK
<1>3. Up' /\ OneProc' /\ Swept'
  BY <1>1 DEF IInv, Up, OneProc, Swept
<1>4. log.alone => \A q \in Procs : procs'[q] = "down"
  BY <1>1 DEF IInv, OneProc
<1>5. NotForgotten'
  BY <1>1, <1>4 DEF NotForgotten
<1>6. Submitted' /\ Whole' /\ OwnEnd'
  BY <1>1 DEF IInv, Submitted, Whole, OwnEnd, Open
<1>7. Counting'
  BY <1>1 DEF IInv, Counting, Counted
<1>8. Using' \subseteq Using /\ Active' = Active
  BY <1>1 DEF Using, Active
<1>9. Single' /\ Reviewing'
  BY <1>1, <1>8 DEF IInv, Single, Reviewing, Reviewed
<1> QED
  BY <1>2, <1>3, <1>5, <1>6, <1>7, <1>9 DEF IInv

\* What others do to the item keeps the invariant: a tool run that is alone is
\* not under way meanwhile, and the engine ends no run and makes none active.
LEMMA OthersKeep ==
    ASSUME IInv, rough \/ Using = {}, UNCHANGED <<jobs, procs, log, rough>>, table' \in Tables,
           table'.run = table.run, table'.import = table.import, table'.rows = table.rows,
           Active' \subseteq Active
    PROVE  IInv'
<1>1. TypeOK' /\ Up' /\ OneProc' /\ Swept'
  BY DEF IInv, TypeOK, Up, OneProc, Swept
<1>2. Submitted' /\ Whole' /\ OwnEnd'
  BY DEF IInv, Submitted, Whole, OwnEnd, Open
<1>3. Counting'
  BY DEF IInv, Counting, Counted
<1>4. NotForgotten'
  BY DEF IInv, NotForgotten, Open
<1>5. Using' = Using
  BY DEF Using
<1>6. Single' /\ Reviewing'
  BY <1>5 DEF IInv, Single, Reviewing
<1> QED
  BY <1>1, <1>2, <1>3, <1>4, <1>6 DEF IInv

\* A move of the engine keeps the invariant.
LEMMA EngineKeeps ==
    ASSUME IInv, NEW f \in Flows, Engine(f)
    PROVE  IInv'
<1>1. /\ f \in Active /\ table \in Tables /\ (rough \/ Using = {})
      /\ UNCHANGED <<jobs, procs, log, rough>>
  BY DEF Engine, IInv, TypeOK
<1>2. PICK s \in {"draft", "review", "ended"} :
        table' = [table EXCEPT !.flow[f] = [stage |-> s, live |-> s # "ended"],
                               !.item = IF s = "ended" THEN "done" ELSE @]
  BY DEF Engine
<1>3. /\ [table.flow EXCEPT ![f] = [stage |-> s, live |-> s # "ended"]] \in
           [Flows -> [stage : {"none", "draft", "review", "ended"}, live : BOOLEAN]]
      /\ (IF s = "ended" THEN "done" ELSE table.item) \in {"open", "review", "done"}
  BY <1>1 DEF Tables
<1>4. /\ table' \in Tables /\ table'.run = table.run /\ table'.import = table.import
      /\ table'.rows = table.rows
      /\ table'.flow = [table.flow EXCEPT ![f] = [stage |-> s, live |-> s # "ended"]]
  BY <1>1, <1>2, <1>3 DEF Tables
<1>5. Active' \subseteq Active
  BY <1>1, <1>4 DEF Active, Tables
<1> QED
  BY <1>1, <1>4, <1>5, OthersKeep

\* A change of the item's status by a person keeps the invariant.
LEMMA SetStatusKeeps ==
    ASSUME IInv, NEW s \in {"open", "done"}, SetStatus(s)
    PROVE  IInv'
<1>1. table \in Tables /\ (rough \/ Using = {}) /\ UNCHANGED <<jobs, procs, log, rough>>
  BY DEF SetStatus, IInv, TypeOK
<1>2. /\ table' \in Tables /\ table'.run = table.run /\ table'.import = table.import
      /\ table'.rows = table.rows /\ table'.flow = table.flow
  BY <1>1 DEF SetStatus, Tables
<1>3. Active' \subseteq Active
  BY <1>2 DEF Active
<1> QED
  BY <1>1, <1>2, <1>3, OthersKeep

\* A step that changes nothing keeps the invariant.
LEMMA StillKeeps ==
    ASSUME IInv, UNCHANGED vars
    PROVE  IInv'
  BY DEF IInv, TypeOK, Up, OneProc, Swept, Submitted, Counting, Counted, Whole, OwnEnd, NotForgotten,
         Open, Single, Reviewing, Reviewed, Using, Active, vars

\* The invariant holds before anything has started.
LEMMA InitKeeps ==
    ASSUME Chunks \in Nat, Init
    PROVE  IInv
<1>1. PICK f \in {Absent, [stage |-> "draft", live |-> TRUE]} :
        table = [run |-> [r \in Runs |-> "none"],
                 import |-> [i \in Imports |-> [status |-> "none", total |-> 0, count |-> 0]],
                 rows |-> [i \in Imports |-> 0],
                 item |-> "open",
                 flow |-> [g \in Flows |-> IF g = First THEN f ELSE Absent]]
  BY DEF Init
<1>2. /\ jobs = {} /\ procs = [p \in Procs |-> "down"] /\ log = [alone |-> TRUE, lost |-> {}]
      /\ rough \in BOOLEAN
  BY DEF Init
<1>3. table \in Tables
  <2>1. /\ [r \in Runs |-> "none"] \in [Runs -> {"none", "running", "completed", "failed"}]
        /\ [i \in Imports |-> [status |-> "none", total |-> 0, count |-> 0]] \in
             [Imports -> [status : {"none", "pending", "running", "completed", "failed"},
                          total : 0 .. Chunks, count : 0 .. Chunks]]
        /\ [i \in Imports |-> 0] \in [Imports -> 0 .. Chunks]
    OBVIOUS
  <2>2. [g \in Flows |-> IF g = First THEN f ELSE Absent] \in
          [Flows -> [stage : {"none", "draft", "review", "ended"}, live : BOOLEAN]]
    <3>1. /\ f \in [stage : {"none", "draft", "review", "ended"}, live : BOOLEAN]
          /\ Absent \in [stage : {"none", "draft", "review", "ended"}, live : BOOLEAN]
      <4>1. /\ [stage |-> "none", live |-> FALSE] \in
                 [stage : {"none", "draft", "review", "ended"}, live : BOOLEAN]
            /\ [stage |-> "draft", live |-> TRUE] \in
                 [stage : {"none", "draft", "review", "ended"}, live : BOOLEAN]
        OBVIOUS
      <4> QED
        BY <4>1, Zenon DEF Absent
    <3> QED
      BY <3>1
  <2> QED
    BY <1>1, <2>1, <2>2 DEF Tables
<1>4. TypeOK
  BY <1>2, <1>3 DEF TypeOK, Tasks
<1>5. Up /\ OneProc /\ Swept /\ OwnEnd /\ NotForgotten
  BY <1>2 DEF Up, OneProc, Swept, OwnEnd, NotForgotten
<1>6. Submitted /\ Counting /\ Whole
  BY <1>1, <1>2 DEF Submitted, Counting, Whole
<1>7. \A g, h \in Active : g = h
  BY <1>1 DEF Active, Absent
<1>8. Single /\ Reviewing
  BY <1>2, <1>7 DEF Single, Reviewing, Using
<1> QED
  BY <1>4, <1>5, <1>6, <1>8 DEF IInv

\* Every step keeps the invariant.
LEMMA StepKeeps ==
    ASSUME Runs \cap Imports = {}, Chunks \in Nat, IInv, [Next]_vars
    PROVE  IInv'
<1>1. ASSUME NEW p \in Procs, Process(p)
      PROVE  IInv'
  BY <1>1, SubmitRunKeeps, SubmitImportKeeps, StartKeeps, RecoverEventsKeeps, RecoverRunsKeeps,
     RecoverImportsKeeps, CrashKeeps DEF Process
<1>2. ASSUME NEW j \in jobs, j.of \in Runs, RunStep(j)
      PROVE  IInv'
  BY <1>2, RunBreaksKeeps, LaunchKeeps, ExitKeeps, DrainKeeps, CheckpointBreaksKeeps, ItemToReviewKeeps,
     FindFlowKeeps, CreateFlowKeeps, MoveFlowKeeps, FlowRunsKeeps, NoteMoveKeeps,
     CompleteRunKeeps, FallbackKeeps
     DEF RunStep
<1>3. ASSUME NEW j \in jobs, j.of \notin Runs, ImportStep(j)
      PROVE  IInv'
  BY <1>3, ImportBreaksKeeps, ReadFileKeeps, MarkRunningKeeps, CheckProductsKeeps, UpsertChunkKeeps,
     CountChunkKeeps, CompleteImportKeeps, FailImportKeeps DEF ImportStep
<1> QED
  BY <1>1, <1>2, <1>3, EngineKeeps, SetStatusKeeps, StillKeeps DEF Next

\* The invariant says of the rows what is promised of them.
LEMMA InvariantReports ==
    ASSUME IInv
    PROVE  AsReported
<1>1. ASSUME ~ rough, NEW j \in jobs, j.of \in Runs, j.at = "done", j.ok
      PROVE  /\ j.noted /\ table.item \in {"review", "done"}
             /\ table.flow[j.flow] = [stage |-> "review", live |-> TRUE]
  <2>1. Reviewed(j)
    BY <1>1 DEF IInv, Reviewing, Using
  <2> QED
    BY <1>1, <2>1 DEF Reviewed
<1>2. Checkpointed
  BY <1>1 DEF IInv, Single, Checkpointed
<1> QED
  BY <1>2 DEF IInv, AsReported

\* Everything the module keeps has its type, for every set of processes, runs and
\* imports (run_external_cli_for_work_item, submit_bulk_import).
THEOREM BackgroundTypes ==
    ASSUME Runs \cap Imports = {}, Chunks \in Nat
    PROVE  Spec => []TypeOK
<1>1. Init => IInv
  BY InitKeeps
<1>2. IInv /\ [Next]_vars => IInv'
  BY StepKeeps
<1>3. IInv => TypeOK
  BY DEF IInv
<1> QED
  BY <1>1, <1>2, <1>3, PTL DEF Spec

\* The rows report what the tasks did: what an import counted is what it wrote,
\* while one process runs nobody ends another's row and no row is forgotten, and
\* an undisturbed run that succeeded leaves its item and its workflow run to the
\* review (record_successful_external_cli_review_checkpoint, run_import_job,
\* mark_interrupted_external_cli_runs, mark_interrupted_jobs).
THEOREM AsReportedAlways ==
    ASSUME Runs \cap Imports = {}, Chunks \in Nat
    PROVE  Spec => []AsReported
<1>1. Init => IInv
  BY InitKeeps
<1>2. IInv /\ [Next]_vars => IInv'
  BY StepKeeps
<1>3. IInv => AsReported
  BY InvariantReports
<1> QED
  BY <1>1, <1>2, <1>3, PTL DEF Spec

=============================================================================
