------------------------------- MODULE WorkItems -------------------------------
(***************************************************************************)
(* The work item page: the backlog with its ticks, pages and filter, the   *)
(* story that is shown with its dialogs and workspace editor, and the      *)
(* decisions about its workflow run.                                       *)
(*                                                                         *)
(* What is shown follows the store and the rows that were fetched; drafts, *)
(* the run of a decision and the selected command-line run follow what is  *)
(* shown by effects of the rendering; answers come back to whatever the    *)
(* page shows by then.                                                     *)
(***************************************************************************)
EXTENDS Integers, Sequences, FiniteSets

CONSTANTS
    Items,        \* 1 .. n, in the order they are created
    Start,        \* the last one there at the start; the first is approved and has
                  \* a run, the others are drafts
    PageSize, MaxRuns, MaxActs

None == 0
Nowhere == [of |-> None, status |-> "none"]
Blank == [of |-> None, status |-> "draft"]
Filters == {"", "draft"}
Tabs == {"backlog", "detail", "external_cli", "review"}
Gates == {"plan", "test"}            \* stages that wait for a decision
Verdicts == {"approve", "reject"}
Keys == ({"page"} \X Filters \X {0, 1}) \cup ({"item", "run"} \X Items)
Slots == 1 .. 2                      \* bound on the calls under way

VARIABLES
    table,    \* the database: items, workflow runs, workflows to be started
    seen,     \* what each query answered last
    due,      \* queries never fetched or invalidated
    page,     \* tab, filter, selection, ticks, dialogs and their drafts
    jobs,     \* mutations under way
    log,      \* the item the create dialog was opened under, the last item created
    rough,    \* FALSE: the person waits until nothing is under way
    acts

vars == <<table, seen, due, page, jobs, log, rough, acts>>

------------------------------------------------------------------------------
(* Rows and queries *)

Row(tb, i) == IF tb.status[i] = "none" THEN Nowhere ELSE [of |-> i, status |-> tb.status[i]]
Listed(tb, f) == {i \in Items : tb.status[i] # "none" /\ f \in {"", tb.status[i]}}
Rank(S, i) == Cardinality({k \in S : k < i})
PageOf(S, n) == {i \in S : Rank(S, i) \in (n * PageSize) .. ((n + 1) * PageSize - 1)}

Runs(tb) == 1 .. Len(tb.runs)
RunsOf(tb, i) == {r \in Runs(tb) : tb.runs[r].item = i}
LatestRun(tb, i) ==
    IF RunsOf(tb, i) = {} THEN None
    ELSE CHOOSE r \in RunsOf(tb, i) : \A o \in RunsOf(tb, i) : o <= r
NoRun == [id |-> None, stage |-> "none"]

Content(tb, q) ==
    CASE q[1] = "page" -> {Row(tb, i) : i \in PageOf(Listed(tb, q[2]), q[3])}
      [] q[1] = "item" -> Row(tb, q[2])
      [] q[1] = "run" -> LET r == LatestRun(tb, q[2])
                         IN  IF r = None THEN NoRun ELSE [id |-> r, stage |-> tb.runs[r].stage]

------------------------------------------------------------------------------
(* What the page derives from the store and the queries *)

ListKey(pg) == <<"page", pg.filter, pg.index>>
Backlog(pg, sn) == {r.of : r \in sn[ListKey(pg)]}

\* selectedWorkItemId: the active item when the page of rows has it, or the first.
Shown(pg, sn) ==
    LET rows == Backlog(pg, sn)
    IN  IF pg.active \in rows THEN pg.active
        ELSE IF rows = {} THEN None ELSE CHOOSE i \in rows : \A k \in rows : i <= k

Detail(pg, sn) == IF Shown(pg, sn) = None THEN Nowhere ELSE sn[<<"item", Shown(pg, sn)>>]

\* selectedWorkItemSummary
Summary(pg, sn) ==
    IF Detail(pg, sn) # Nowhere \/ Shown(pg, sn) = None THEN Detail(pg, sn)
    ELSE CHOOSE r \in sn[ListKey(pg)] : r.of = Shown(pg, sn)

Latest(pg, sn) == IF Shown(pg, sn) = None THEN NoRun ELSE sn[<<"run", Shown(pg, sn)>>]
WorkflowRun(pg, sn) == IF pg.run # None THEN pg.run ELSE Latest(pg, sn).id
Stage(pg, sn) == Latest(pg, sn).stage

\* The queries the page enables, those apart that only label the rows.
Mounted(pg, sn) ==
    {ListKey(pg)} \cup ({"item", "run"} \X ({Shown(pg, sn)} \ {None}))

\* Variant: a run or a command-line run that stays selected when another item is shown.
RenderedKeepingRun(pg, sn) ==
    LET new == IF pg.filter # page.filter THEN [pg EXCEPT !.index = 0, !.ticks = <<>>] ELSE pg
        detail == Detail(new, sn)
    IN  [new EXCEPT !.active = Shown(new, sn),
                    !.draft = IF detail \notin {Nowhere, Detail(page, seen)} THEN detail ELSE @]

\* The page after a rendering and its effects: a change of the scope goes back
\* to the first page without ticks; the store follows what is shown; another
\* item shown drops the selected runs; a row that arrives or changes, of the
\* item that is shown, fills the draft.
Rendered(pg, sn) ==
    LET new == IF pg.filter # page.filter THEN [pg EXCEPT !.index = 0, !.ticks = <<>>] ELSE pg
        moved == Shown(new, sn) # Shown(page, seen)
        detail == Detail(new, sn)
    IN  [new EXCEPT !.active = Shown(new, sn), !.run = IF moved THEN None ELSE @,
                    !.cli = IF moved THEN None ELSE @,
                    !.draft = IF detail \notin {Nowhere, Detail(page, seen)} THEN detail ELSE @]

------------------------------------------------------------------------------
(* The person.  A dialog covers the page. *)

Modal == page.creating \/ page.editing
Quiet == jobs = {} /\ due \cap Mounted(page, seen) = {}
Acts == acts < MaxActs[rough] /\ (rough \/ Quiet) /\ acts' = acts + 1
OnTab(t) == page.tab = t /\ ~ Modal
Becomes(pg) ==
    page' = Rendered(pg, seen) /\ UNCHANGED <<table, seen, due, jobs, log, rough>>

ChooseTab(t) == t # page.tab /\ ~ Modal /\ Becomes([page EXCEPT !.tab = t])
ChooseFilter(f) == OnTab("backlog") /\ f # page.filter /\ Becomes([page EXCEPT !.filter = f])

\* Next and Previous; whether there are more rows came with the rows.
ChoosePage(n) ==
    /\ OnTab("backlog") /\ ListKey(page) \notin due
    /\ \/ n = 0 /\ page.index = 1
       \/ n = 1 /\ page.index = 0 /\ Cardinality(Listed(table, page.filter)) > PageSize
    /\ Becomes([page EXCEPT !.index = n])

BacklogRows == IF OnTab("backlog") THEN Backlog(page, seen) ELSE {}
Select(i) == i \in BacklogRows /\ Becomes([page EXCEPT !.active = i, !.tab = "detail"])

Ticked(pg) == {pg.ticks[k] : k \in DOMAIN pg.ticks}
Without(s, i) ==
    LET p == CHOOSE k \in DOMAIN s : s[k] = i
    IN  [k \in 1 .. Len(s) - 1 |-> IF k < p THEN s[k] ELSE s[k + 1]]
Tick(i) ==
    /\ i \in BacklogRows
    /\ Becomes([page EXCEPT !.ticks = IF i \in Ticked(page) THEN Without(@, i) ELSE Append(@, i)])

\* The page is mounted anew: what it keeps itself is as at the start.
Remounted(pg) ==
    LET new == Rendered([pg EXCEPT !.filter = "", !.index = 0, !.ticks = <<>>, !.parent = None,
                                   !.space = None, !.editing = FALSE, !.run = None, !.cli = None], seen)
    IN  [new EXCEPT !.draft = IF Detail(new, seen) = Nowhere THEN Blank ELSE Detail(new, seen)]

\* The route of one item: the store is set when its row has been fetched.
OpenRoute(i) ==
    /\ ~ Modal /\ table.status[i] # "none"
    /\ page' = Remounted([page EXCEPT !.active = i])
    /\ UNCHANGED <<table, seen, due, jobs, log, rough>>

OpenCreateStory ==
    /\ OnTab("backlog")
    /\ page' = [page EXCEPT !.creating = TRUE, !.parent = None] /\ log' = [log EXCEPT !.opened = None]
    /\ UNCHANGED <<table, seen, due, jobs, rough>>

\* The parent is that of the story shown; the page moves to the backlog.
OpenCreateTask ==
    /\ OnTab("detail") /\ Shown(page, seen) # None
    /\ page' = Rendered([page EXCEPT !.creating = TRUE, !.tab = "backlog",
                                     !.parent = Summary(page, seen).of], seen)
    /\ log' = [log EXCEPT !.opened = Summary(page, seen).of]
    /\ UNCHANGED <<table, seen, due, jobs, rough>>

OpenEdit == OnTab("detail") /\ Shown(page, seen) # None /\ Becomes([page EXCEPT !.editing = TRUE])
Dismiss == Modal /\ Becomes([page EXCEPT !.creating = FALSE, !.editing = FALSE])

OnPanel == (OnTab("detail") \/ OnTab("review")) /\ Shown(page, seen) # None

\* The workspace editor takes the repository and the branch of the item shown,
\* and keeps them when another is.
EditWorkspace ==
    /\ OnPanel
    /\ \/ page.space = None /\ Becomes([page EXCEPT !.space = Shown(page, seen)])
       \/ page.space # None /\ Becomes([page EXCEPT !.space = None])

Job(op, i) == [n |-> 0, op |-> op, item |-> i, run |-> None, draft |-> Nowhere, parent |-> None,
               goal |-> None, verdict |-> "approve", rows |-> <<>>, at |-> "out", shown |-> None,
               waits |-> {}]
Pending(ops) == \E j \in jobs : j.op \in ops

Free == Slots \ {j.n : j \in jobs}
Begin(j) ==
    /\ Free # {}
    /\ jobs' = jobs \cup {[j EXCEPT !.n = CHOOSE n \in Free : TRUE]}
    /\ UNCHANGED <<table, seen, due, page, log, rough>>

\* The person types the title the buttons ask for.  They can be pressed again
\* while a save is under way.
CreateModal ==
    /\ page.creating
    /\ Begin([Job("create", None) EXCEPT !.parent = page.parent, !.goal = log.opened])
EditModal ==
    /\ page.editing /\ Shown(page, seen) # None
    /\ Begin([Job("update", Shown(page, seen)) EXCEPT !.draft = page.draft])

\* The menu and the buttons of a row of the backlog.
DeleteRow(i) == i \in BacklogRows /\ Begin(Job("delete", i))
DecideRow(i, v) ==
    /\ i \in BacklogRows /\ \A j \in jobs : j.op = "row" => j.item # i
    /\ Begin([Job("row", i) EXCEPT !.verdict = v])

\* The bar appears for ticked rows of this page of the backlog; it decides all.
DecideBulk(v) ==
    /\ BacklogRows \cap Ticked(page) # {} /\ ~ Pending({"bulk"})
    /\ Begin([Job("bulk", None) EXCEPT !.verdict = v, !.rows = page.ticks])

\* The buttons of the story.  Of what blocks a start only the status changes.
DetailButtons(op) ==
    /\ OnTab("detail") /\ Shown(page, seen) # None
    /\ \/ op = "start" /\ Summary(page, seen).status = "approved" /\ ~ Pending({"start"})
       \/ op = "restart" /\ WorkflowRun(page, seen) # None /\ ~ Pending({"restart"})
       \/ op = "item"
DetailTab(op, v) ==
    /\ DetailButtons(op)
    /\ Begin([Job(op, Shown(page, seen)) EXCEPT !.run = WorkflowRun(page, seen), !.verdict = v])

\* The gate is the stage of the latest run, the run is that of the last answer.
ReviewCard(op, v) ==
    /\ OnTab("review") /\ WorkflowRun(page, seen) # None /\ Shown(page, seen) # None
    /\ op \in Gates => Stage(page, seen) = op
    /\ op \in {"fail", "restart"} => Stage(page, seen) = "work"      \* it looks stale
    /\ Begin([Job(op, Shown(page, seen)) EXCEPT !.run = WorkflowRun(page, seen), !.verdict = v])

RunExternalCli ==
    /\ OnTab("detail") \/ OnTab("external_cli")
    /\ Shown(page, seen) # None /\ ~ Pending({"cli"})
    /\ Begin(Job("cli", Shown(page, seen)))

WorkspacePanel(op) ==
    /\ OnPanel
    /\ op = "assign" => page.space # None
    /\ ~ Pending({op})
    /\ Begin([Job(op, Summary(page, seen).of) EXCEPT !.goal = page.space])

------------------------------------------------------------------------------
(* The backend, and what follows an answer *)

\* invalidateTasks, for what is shown now: every page of this filter, the item
\* and its run.
Invalidates ==
    {q \in Keys : q[1] = "page" /\ q[2] = page.filter}
    \cup {q \in Keys : q[1] \in {"item", "run"} /\ q[2] = Shown(page, seen)}

Fetching(j) == [j EXCEPT !.at = "fetch", !.shown = Shown(page, seen),
                         !.waits = Invalidates \cap Mounted(page, seen)]
Answered(j) == jobs' = (jobs \ {j}) \cup {Fetching(j)} /\ due' = due \cup Invalidates

Created(j) ==
    /\ j.at = "out" /\ j.op = "create" /\ (j.parent # None => table.status[j.parent] # "none")
    /\ \E i \in Items :
          /\ i = log.last + 1 /\ log' = [log EXCEPT !.last = i]
          /\ table' = [table EXCEPT !.status[i] = "draft"]
          /\ seen' = [seen EXCEPT ![ListKey(page)] =
                         IF Cardinality(@) < PageSize THEN @ \cup {Row(table', i)} ELSE @]
          /\ page' = Rendered([page EXCEPT !.active = i], seen')
    /\ Answered(j)
    /\ UNCHANGED <<rough, acts>>

Updated(j) ==
    /\ j.at = "out" /\ j.op = "update" /\ table.status[j.item] # "none"
    /\ table' = [table EXCEPT !.status[j.item] = j.draft.status]
    /\ Answered(j)
    /\ UNCHANGED <<seen, page, log, rough, acts>>

Deleted(j) ==
    /\ j.at = "out" /\ j.op = "delete"
    /\ table' = [table EXCEPT !.status[j.item] = "none", !.auto = @ \ {j.item}]
    /\ Answered(j)
    /\ UNCHANGED <<seen, page, log, rough, acts>>

\* approve_work_item, reject_work_item; an approval has the workflow started.
Decides(i, v) ==
    table' = [table EXCEPT !.status[i] = IF v = "approve" THEN "approved" ELSE "draft",
                           !.auto = IF v = "approve" THEN @ \cup {i} ELSE @]

Decided(j) ==
    /\ j.at = "out" /\ j.op \in {"item", "row"} /\ table.status[j.item] # "none"
    /\ Decides(j.item, j.verdict)
    /\ Answered(j)
    /\ UNCHANGED <<seen, page, log, rough, acts>>

\* One call after the other; only the last is followed by an invalidation.
BulkDecided(j) ==
    /\ j.at = "out" /\ j.op = "bulk" /\ table.status[Head(j.rows)] # "none"
    /\ Decides(Head(j.rows), j.verdict)
    /\ IF Len(j.rows) > 1
       THEN jobs' = (jobs \ {j}) \cup {[j EXCEPT !.rows = Tail(@)]} /\ UNCHANGED <<due, page>>
       ELSE Answered(j) /\ page' = Rendered([page EXCEPT !.ticks = <<>>], seen)
    /\ UNCHANGED <<seen, log, rough, acts>>

Live(i) == {r \in RunsOf(table, i) : table.runs[r].stage # "ended"}
NewRun(i) == [item |-> i, stage |-> "work"]

\* A start finds the live run of the item or makes a new one.
Started(j) ==
    /\ j.at = "out" /\ j.op = "start" /\ table.status[j.item] # "none"
    /\ IF Live(j.item) # {} THEN UNCHANGED table
       ELSE Len(table.runs) < MaxRuns /\ table' = [table EXCEPT !.runs = Append(@, NewRun(j.item))]
    /\ page' = [page EXCEPT !.run = LatestRun(table', j.item)]
    /\ Answered(j)
    /\ UNCHANGED <<seen, log, rough, acts>>

Restarted(j) ==
    /\ j.at = "out" /\ j.op = "restart" /\ Len(table.runs) < MaxRuns
    /\ LET i == table.runs[j.run].item
       IN  table' = [table EXCEPT !.runs = Append([@ EXCEPT ![j.run].stage = "ended"], NewRun(i))]
    /\ page' = [page EXCEPT !.run = Len(table'.runs)]
    /\ Answered(j)
    /\ UNCHANGED <<seen, log, rough, acts>>

\* The approval is recorded for the item, then the run is acted on.
Recorded(j) ==
    /\ j.at = "out" /\ j.op \in Gates /\ (j.op = "test" => j.verdict = "approve")
    /\ table.status[j.item] # "none"
    /\ jobs' = (jobs \ {j}) \cup {[j EXCEPT !.at = "act"]}
    /\ UNCHANGED <<table, seen, due, page, log, rough, acts>>

Acted(j) ==
    /\ \/ j.at = "act" /\ table.runs[j.run].stage \in Gates
       \/ j.at = "out" /\ j.op = "test" /\ j.verdict = "reject" /\ table.runs[j.run].stage \in Gates
       \/ j.at = "out" /\ j.op = "fail"
    /\ table' = [table EXCEPT !.runs[j.run].stage = IF j.op = "fail" THEN "ended" ELSE "work"]
    /\ Answered(j)
    /\ UNCHANGED <<seen, page, log, rough, acts>>

CliStarted(j) ==
    /\ j.at = "out" /\ j.op = "cli"
    /\ page' = Rendered([page EXCEPT !.cli = j.item, !.tab = "external_cli"], seen)
    /\ jobs' = jobs \ {j}
    /\ UNCHANGED <<table, seen, due, log, rough, acts>>

\* The row that comes back is put where the item that is shown now is kept.
WorkspaceSet(j) ==
    /\ j.at = "out" /\ j.op \in {"assign", "clear"} /\ table.status[j.item] # "none"
    /\ seen' = IF Shown(page, seen) = None THEN seen
               ELSE [seen EXCEPT ![<<"item", Shown(page, seen)>>] = Row(table, j.item)]
    /\ page' = Rendered([page EXCEPT !.space = None], seen')
    /\ due' = due \cup {q \in Invalidates : q[1] # "run"}
    /\ jobs' = jobs \ {j}
    /\ UNCHANGED <<table, log, rough, acts>>

\* A workspace of its own; the page is left for the IDE and entered again, a
\* create dialog that was open is open still, with an empty form.
WorkspaceCreated(j) ==
    /\ j.at = "out" /\ j.op = "space" /\ table.status[j.item] # "none"
    /\ Answered(j)
    /\ UNCHANGED <<table, seen, page, log, rough, acts>>

\* The row is gone, the stage is another by now, or the call fails.
Refused(j) ==
    /\ j.at \in {"out", "act"}
    /\ \/ rough \/ j.op \in Gates \cup {"create", "start", "restart"}
       \/ j.op # "bulk" /\ j.item # None /\ table.status[j.item] = "none"
       \/ j.op = "bulk" /\ table.status[Head(j.rows)] = "none"
    /\ jobs' = jobs \ {j}
    /\ UNCHANGED <<table, seen, due, page, log, rough, acts>>

\* After the queries have been fetched.
Follows(j) ==
    CASE j.op = "create" -> [page EXCEPT !.creating = FALSE, !.parent = None, !.tab = "detail"]
      [] j.op = "update" -> [page EXCEPT !.editing = FALSE]
      [] j.op = "delete" -> IF j.shown = j.item THEN [page EXCEPT !.active = None] ELSE page
      [] j.op = "start" -> [page EXCEPT !.tab = "review"]
      [] OTHER -> page

Finish(j) ==
    /\ j.at = "fetch" /\ j.waits = {}
    /\ page' = IF j.op = "space" THEN Remounted(page) ELSE Rendered(Follows(j), seen)
    /\ log' = IF j.op = "space" THEN [log EXCEPT !.opened = None] ELSE log
    /\ jobs' = jobs \ {j}
    /\ UNCHANGED <<table, seen, due, rough, acts>>

Fetches(q) ==
    /\ seen' = [seen EXCEPT ![q] = Content(table, q)]
    /\ page' = Rendered(page, seen')
    /\ due' = due \ {q}
    /\ jobs' = {[j EXCEPT !.waits = @ \ {q}] : j \in jobs}
    /\ UNCHANGED <<table, log, rough, acts>>

Fetch(q) == q \in due /\ q \in Mounted(page, seen) \cup UNION {j.waits : j \in jobs} /\ Fetches(q)

\* The runs are asked for again every four seconds.
Poll(q) == q[1] = "run" /\ q \in Mounted(page, seen) /\ seen[q] # Content(table, q) /\ Fetches(q)

\* The engine: a workflow started after an approval, and a stage that ends.
AutoStart(i) ==
    /\ i \in table.auto
    /\ table' = [table EXCEPT !.auto = @ \ {i},
                   !.runs = IF Live(i) = {} /\ Len(@) < MaxRuns THEN Append(@, NewRun(i)) ELSE @]
    /\ UNCHANGED <<seen, due, page, jobs, log, rough, acts>>

Advance(r) ==
    /\ r \in Runs(table) /\ table.runs[r].stage = "work"
    /\ acts < MaxActs[rough] /\ acts' = acts + 1            \* a bound
    /\ \E s \in Gates \cup {"ended"} : table' = [table EXCEPT !.runs[r].stage = s]
    /\ UNCHANGED <<seen, due, page, jobs, log, rough>>

------------------------------------------------------------------------------
Init ==
    /\ table = [status |-> [i \in Items |-> IF i = 1 THEN "approved"
                                           ELSE IF i <= Start THEN "draft" ELSE "none"],
                runs |-> <<NewRun(1)>>, auto |-> {}]
    /\ seen = [q \in Keys |-> IF q[1] = "page" THEN {} ELSE IF q[1] = "item" THEN Nowhere ELSE NoRun]
    /\ due = Keys
    /\ page = [tab |-> "detail", filter |-> "", index |-> 0, active |-> None, ticks |-> <<>>,
               run |-> None, cli |-> None, creating |-> FALSE, parent |-> None, editing |-> FALSE,
               draft |-> Blank, space |-> None]
    /\ jobs = {} /\ log = [opened |-> None, last |-> Start] /\ rough \in BOOLEAN /\ acts = 0

Act ==
    \/ \E t \in Tabs : ChooseTab(t)
    \/ \E f \in Filters : ChooseFilter(f)
    \/ \E n \in {0, 1} : ChoosePage(n)
    \/ \E i \in Items : Select(i) \/ Tick(i) \/ OpenRoute(i) \/ DeleteRow(i)
    \/ \E i \in Items, v \in Verdicts : DecideRow(i, v)
    \/ \E v \in Verdicts : \/ DecideBulk(v) \/ DetailTab("item", v)
                           \/ \E g \in Gates : ReviewCard(g, v)
    \/ \E op \in {"start", "restart"} : DetailTab(op, "approve")
    \/ \E op \in {"fail", "restart"} : ReviewCard(op, "approve")
    \/ OpenCreateStory \/ OpenCreateTask \/ OpenEdit \/ Dismiss \/ CreateModal \/ EditModal
    \/ EditWorkspace \/ RunExternalCli
    \/ \E op \in {"assign", "clear", "space"} : WorkspacePanel(op)

Next ==
    \/ Acts /\ Act
    \/ \E j \in jobs :
          \/ Created(j) \/ Updated(j) \/ Deleted(j) \/ Decided(j) \/ BulkDecided(j) \/ Started(j)
          \/ Restarted(j) \/ Recorded(j) \/ Acted(j) \/ CliStarted(j) \/ WorkspaceSet(j)
          \/ WorkspaceCreated(j) \/ Refused(j) \/ Finish(j)
    \/ \E q \in Keys : Fetch(q) \/ Poll(q)
    \/ \E i \in Items : AutoStart(i)
    \/ \E r \in Runs(table) : Advance(r)

Spec == Init /\ [][Next]_vars

------------------------------------------------------------------------------
(* Properties *)

TypeOK ==
    /\ table.status \in [Items -> {"none", "draft", "approved"}] /\ table.auto \subseteq Items
    /\ \A r \in Runs(table) : table.runs[r].item \in Items
    /\ due \subseteq Keys /\ page.tab \in Tabs /\ page.filter \in Filters
    /\ page.active \in Items \cup {None} /\ Ticked(page) \subseteq Items
    /\ page.draft.of \in Items \cup {None} /\ page.run \in {None} \cup Runs(table)
    /\ \A j \in jobs : j.at \in {"out", "act", "fetch"} /\ j.waits \subseteq Keys

\* For a person who waits for the answers, an edit is saved to the item whose
\* text fills the draft, although one draft serves every item and it is only
\* filled when the row of the item shown arrives.  A list that was not fetched
\* again can still show an item that is gone: its edit is refused.
OwnDraft ==
    ~ rough => \A j \in jobs :
        j.op = "update" /\ table.status[j.item] # "none" => j.draft.of = j.item

\* However the person hurries and whichever answers come meanwhile, a task goes
\* under the story its dialog was opened from, and a story under none.
UnderOpened == \A j \in jobs : j.op = "create" => j.parent = j.goal

\* For the person who waits, a decision about a workflow goes to a run of the
\* item that is shown, not to one an earlier answer left selected.
OwnRun ==
    ~ rough => \A j \in jobs :
        j.op \in Gates \cup {"fail", "restart"} => table.runs[j.run].item = j.item
==============================================================================
