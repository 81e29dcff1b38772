# AruviStudio: a TLA+ verification project

AruviStudio is a desktop application (Tauri: a Rust back end in `src-tauri/`, a React front
end in `src/`) that plans products, drives work items through an agent-run delivery workflow,
and offers the same services to other programs over MCP (stdio and HTTP), webhooks and a mobile
API. Everything is kept in one SQLite database that **several processes may have open at once**:
the desktop application, the headless server and any number of stdio MCP servers. No process
knows of the others; what keeps them apart is a SQLite transaction, a unique index, or nothing.

The front end keeps no truth of its own, but it decides what is asked of the back end: a page
holds selections, drafts and copies of what its queries answered last, and its handlers act on
the page *as it was rendered*, while answers come whenever they come. A companion application on
the phone (`mobile/`) is one more such front end.

Paths are those of the sources: `services/`, `persistence/`, `commands/`, `workflows/` are under
`src-tauri/src/`; the pages, named by their feature (`planner/`, `products/`, `agents/`, ...), under
`src/features/`; `mobile/` is the phone's.

## 1. Inventory

| Component | State it keeps | Operations | What is hard | What makes it correct | Here |
|---|---|---|---|---|---|
| **Agent-work ledger** (`persistence/agent_work_*_repo.rs`) | rows, prerequisites, conflict-zone locks; leases by the wall clock | claim, heartbeat, status change, requeue, sweep, commit link, reserve/release, seed, prerequisites | many agents, several processes; statement-by-statement tools beside one transactional claim; lapsed leases; silent agents | a conflict zone belongs to one live claim; prerequisites come first; a silent claim is recovered; a token guards its claim | `AgentWork`, `AgentWorkClients`, `ZoneLease` |
| Ledger batches, events, evidence, catalog links | `agent_work_batches`, `_events`, `_evidence`, the run's pointers | start/link a batch, append an event, import a catalog | the pointer to the current batch is written by everybody | one current batch; events never contradict the row | planned |
| **Delivery workflow** (`services/workflow_service*`, `workflows/`) | `workflow_runs`, `workflow_stage_history`, `agent_runs` | start/resume, user action, stage chain, coordinator review, failure, override | one mutex per *process*; long chains of stages with a crash possible at any statement; errors that unwind through nested stages | one active run per work item; ended is final; nothing is pushed unreviewed; a request ends, and leaves its run ended or waiting | `Workflow` |
| Agent execution and tool loop (`services/agent_service*`) | one agent run, its messages | model call, tool calls, output validation | retries, limits on turns | a run ends with an output or a stored failure | a step with an outcome in `Workflow` |
| **External CLI runs and bulk import** (`services/external_cli_*`, `services/bulk_import_service.rs`, their repositories) | `external_cli_runs`, `bulk_import_jobs`, the child process, the task of each | submit, launch, drain, finalise with a review checkpoint; import chunk by chunk; recovery at a start | a start ends the rows of *other* live processes too; a crash between a child's exit and its row; a chunk is one transaction and its progress another; finalisation moves a workflow without its mutex | a row reports what its task did; no open row is without a task; a successful run leaves item and workflow to the review | `Background` |
| **Planner** (`planner/`, `services/planner_*`) | sessions with a staged design; the page with its copy, busy flags, microphone | text, voice and edit turns, repository analysis, confirm, dismiss, switch product, leave | read–modify–write of a session around a model call; five busy flags; answers that outlive the page; captures granted late | no lost turn; a design is created once; nothing is staged that is not shown; the microphone is released | `Planner` |
| **Agent registry** (`agents/`, `commands/agent_commands.rs`) | agents, teams, skills, links, memberships, scopes, policies, model bindings; forms and picks of the page | select, type, save, delete, link by link, bind in bulk | a form seeded by effects while the selection changes at once; a save of several calls around a refetch | no row gets another's form; links end as picked; one primary binding | `Registry` |
| **Product catalog** (`products/`, `services/product_service.rs`, `persistence/product_*`) | products, areas, capabilities, features, stories, tasks, dependencies; dialogs, selections, query caches | open, select, create, edit, remove, record a dependency | a parent is read from a store when Save is pressed; each change invalidates a hand-written list of queries | rows go where their dialog was opened; screens show the database; dependencies name the right product | `Catalog` |
| **Work items and approvals** (`work-items/`, `commands/approval_commands.rs`, `services/work_item_service.rs`) | items, decisions, the run each item shows; filter, pages, ticks, one draft for all items | list, tick, approve one or many, edit, start, decide at a gate, delete | an answer selects a run after the item changed; approval starts a run in the background, found by polling | an edit goes to its item; a task under its story; a decision to a run of the item shown | `WorkItems` |
| **IDE** (`ide/`, `services/repo_*`) | repositories and what they are attached to, tabs with unsaved text, the copilot's stream and proposal | open, type, save, attach, create a workspace, ask, apply | early or missing stream events and a timer; patches to open files; queries that decide the workspace | clean text is on the disk; proposals and workspaces stay with their product; the copilot comes to rest | `Ide` |
| **Chats, speech, model streams** (`chat/`, `shared/voice.ts`) | flags and refs of the two pages, captures, streams, timers | send, dictate, listen, transcribe, speak, stop | a loop of six flags set by effects; captures granted after the page left; a missed end of a stream | one capture; the page does not hear itself; the chat comes to rest | `Chat` |
| **Mobile companion** (`mobile/`) | one busy flag, one recorder, products and a tree, models on the device, an address | record, send, ask the planner about a node, browse, install a model, reconnect | nested handlers on one flag, a polled recorder, handlers with the state they were rendered with, a fallback address | one prompt at a time; no recording of a reply; a node of its product; listed models exist | `Phone` |
| Git push and CI dispatch (`services/workflow_git_push.rs`, `commands/ci_commands.rs`) | commit, branch, dispatch record | commit, push, dispatch preview, retry | a lost answer, a retry | a preview per push | the push is a step in `Workflow` |
| MCP server, webhooks, mobile API, channels | none | pass requests on | they are the callers | – | the callers of the models |
| Application state, settings, secrets, database set-up | pool, mutexes | open, migrate, recover | recovery at start-up | – | the recovery is in `Background` |
| Front end: the other pages (settings, providers, portfolio, repositories list, CI, model calls) | lists and forms | single commands | – | – | not modelled |

How they interact: the front end, the MCP server, webhooks and channels call the *services*; a
service calls *repositories*, which run SQL. The workflow service sits behind
`AppState.workflow_service: Arc<Mutex<..>>`, so one process carries out one workflow request at
a time, from the click to the end of every stage that it sets off; some commands
(`mark_workflow_run_failed`, the external CLI's finalisation) write the same rows without that
mutex. The ledger has no lock in memory at all. Approving a work item starts its workflow in a
background task. The pages share a workspace store (the selected product, node, item and run) and a
cache of queries; a page never sees a change of another process until it fetches again. `PROJECT.json` lists each component with its files and status, and under
`hazards` every place where the code is hard to test, at its line.

## 2. Modules

| Module | What it is |
|---|---|
| `AgentWork` | the ledger: rows, prerequisites, locks, calls in flight; one action per statement; `Spec` (any client), `LoopSpec` (the guide's loop with fairness) |
| `AgentWorkClients` | the ledger under clients that keep five rules (`RuledSpec`), the safety properties, the inductive invariant, the refinement mapping |
| `ZoneLease` | the abstract lease service: what the ledger promises |
| `AgentWorkProofs` | theorems about the three |
| `MCAgentWork` + `ruled edits live late fence silent .cfg` | small instances |
| `Workflow` | the delivery workflow: rows, the request of each server, crashes, the operator's override |
| `WorkflowProofs` | theorems about it |
| `MCWorkflow` + `workflow overbooked zombie twins .cfg` | small instances |
| `Registry`, `Catalog`, `WorkItems` | the three pages that keep the tables, each with the commands and statements behind it |
| `Background`, `BackgroundProofs` | runs of the coding tool and imports, with crashes, a second process and recovery; theorems about them |
| `Desk` | those four together: `Spec`, and the properties of all of them |
| `CatalogProofs`, `DeskProofs` | theorems: the catalog's invariant; then everything about `Desk` |
| `MCDesk` + `desk.cfg` | a small instance of `Desk` |
| `Planner`, `PlannerProofs` | the planner's page and sessions; theorems about them |
| `Ide`, `Chat`, `Phone` | the IDE, the two chats, the mobile application |
| `Tools` | the four that work with a model together: `Spec`, and the properties of all of them |
| `TalkProofs`, `ToolsProofs` | theorems: the invariants of the chats and the phone; then the IDE's, and everything about `Tools` |
| `MCTools` + `tools.cfg` | a small instance of `Tools` |

`Desk` and `Tools` hold several systems side by side: the variable `shown` says which one a
behaviour is of, `INSTANCE ... WITH` gives each its constants, and the variables of the others
stay as they were. Nothing is shared between them but the names of the variables. A property of the two that has the
name of several parts is their conjunction, each for the behaviours it is about: `OwnForm` is that of
`Registry` and `Catalog` and `WorkItems!OwnDraft`; `LinksAsPicked` is `SkillsAsPicked` and `OnePrimary`; `FilesAsShown`
is `Ide!CleanIsSaved` and `Phone!ModelsThere`; `OwnContext` is `Ide!OwnWorkspace`, `Phone!OwnContext` and `Phone!StatusOfAddress`.

The constants of `Desk` and `Tools` carry the part they belong to in their names (`RowIds`, `RowSort`, `StartRows` are
the catalog's `Ids`, `Sort`, `Start`; `ToolRuns` the background's `Runs`; `Preselected` the planner's `First`; `OnDisk` the
IDE's `Seeded`). What the theorems need of them are the named assumptions of the two modules, which TLC evaluates in
every run: `RegistryIds`, `RowTable`, `ItemNumbers`, `BackgroundIds` (ids of different tables differ, none is the value
for *nothing*, items are numbered from 1, the catalog at the start is a tree a page can be opened on) and `ChosenProducts`,
`PlannerConstants`, `PhoneConstants`, `IdeConstants` (the product that is selected at the start is one of the products or none; *nothing* is no product, node,
session or model; the phone has a model to install; the IDE's first product has a folder a person picked).

A definition marked *Variant* in a comment is a deliberately wrong form of the one that follows
it. No specification uses it; `PROJECT.json` (`mutants`) pairs it with the property that detects it.

### 2.1 The ledger

State. `rows[i]` is the row of `agent_work_items` of feature `i` in one roadmap run: its status,
claim token, what remains of its lease, its conflict zones; `"missing"` is a row that is not
there (the claim's `COALESCE(prereq.status, 'missing')`). `deps` is `agent_work_dependencies`.
`locks[z]` is the unreleased row of `agent_work_locks` for zone `z`; it is a function because the
unique index `idx_agent_work_locks_active_zone` allows one. `call[c]` is the tool call that
client `c` has in flight: the next statement (`pc`) and the handler's local variables.

| Action | Code |
|---|---|
| `ClaimItem`, `ClaimNothing` | `claim_next_item`: one `BEGIN IMMEDIATE` transaction: sweep, candidate query with its `LIMIT`, zone loop, update, inserts, commit. One step |
| `HeartbeatStart`, `HeartbeatItem`, `HeartbeatLocks` | `heartbeat_item`: the clock is read, the row is updated where token and status match, then the locks |
| `UpdateStart`, `UpdateWrite`, `UpdateRelease` | `update_item_status`: token comparison, the write that does not name the token, the release for the four releasing statuses |
| `RequeueStart`, `RequeueExpiredStart`, `RequeueRead`, `RequeueRelease`, `RequeueWrite` | `requeue_item`, and `requeue_expired_items`, which selects rows once and then requeues them one by one |
| `CommitStart`, `CommitWrite`, `CommitRelease` | `link_commit`: per feature, mark and release. The list is worked through in any order |
| `ReserveStart`, `ReserveInsert`, `ReleaseZone` | `reserve_conflict_zone` (lookup, insert against the unique index), `release_conflict_zone` |
| `UpsertItem`, `UpsertDependency`, `DeleteDependency` | `upsert_item` (`ON CONFLICT`: status and zones overwritten, token and lease kept), the dependency tools |
| `Tick`, `Abandon` | time; the death of a process or a failed statement between two statements |

Abstractions. Time is what remains of a lease, which is all the code compares
(`lease_expires_at <= now`); an absolute clock would make every state new. Tokens are UUIDs: a
fresh one is a token that no row, lock or call knows. Metadata, events and the error texts are
left out; a call that returns an error without having written is not a step. Malformed
`conflict_zones_json`, on which a claim would fail and take its sweep back, is not in the model because
nothing can write it: `upsert_item` is the only writer and stores the JSON of a validated list.
`ReserveStart` is narrower than `reserve_conflict_zone`, which compares feature and token with nothing: the callers
here reserve for a row with the token it has, or for no row with a fresh one.

**The clients' rules.** The tools are advisory: most of them check neither the lease nor the
caller. `late.cfg` shows that with arbitrary clients two live claims can share a zone. What the
ledger guarantees it guarantees to clients that keep five rules, stated as guards in
`AgentWorkClients`, where the code's own actions stay untouched: *serial* (calls on one row do
not overlap), *prompt* (the two writes of a heartbeat happen within a lease, which is at least
30 seconds, and the process does not die between them), *timely* (a claim is renewed before it
lapses), *forward* (only a claim makes an inactive row active; committed and skipped are final)
and *handsoff* (nobody requeues, re-seeds, adds prerequisites to, or releases a zone of a live
claim). Calls of different rows, claims and time interleave freely between any two statements.

### 2.2 The delivery workflow

State. `runs[r]` is a row of `workflow_runs` with what belongs to it: stage, status, pending
stage of a coordinator review, team and coordinator assignment, the stages with a failed agent
run, and `reviewed`, a reading of the stage history: there is an approved test review younger
than the last coding. `worker[s]` is the request server `s` is carrying out under its mutex.
`worker[o]` of an operator is a call of `mark_workflow_run_failed`, which takes no mutex.

| Action | Code |
|---|---|
| `StartScan`, `StartFind`/`Resume`, `StartClose`, `Create`, `Capacity`, `Assign` | `start_work_item_workflow`: close orphaned reviews, find the active run, resume it where it stands or close it, else insert, count the team's runs, assign |
| `UserAction` | `handle_user_action` at a gate: approve or reject |
| `WriteStage`, `WriteStatus` | `transition_stage`: stage, status and history are separate statements; then the stage reached is executed |
| `Enter`, `Refuse`, `Pend`, `ReviewRun`, `Unpend` | `execute_stage`: repository guard, coordinator review before the stage, the review itself, the return to the reviewed stage with the bypass flag |
| `AgentAssign`, `AgentSucceeds`, `AgentMissing`, `AgentFails`, `Push`, `Gate` | the bodies of the stages, with every outcome; a gate waits, or goes on when an agent stage came to it and automatic approval is set |
| `MarkStage`, `MarkStatus` | `mark_workflow_failed`: stage, then status |
| `Staff`, `Crash`, `Override` | a coordinator is disabled or enabled; a process dies; the operator's override |

Abstractions and assumptions. One team owns all items, with at most one coordinator. `Required`,
the stages whose policy asks for a coordinator review, does not change while a run is under way
and does not contain `coordinator_review` itself. The many enclosing stages that repeat
`mark_workflow_failed` while an error unwinds are one marking: the repetitions write the same
values. Agent outputs, artifacts and prompts are left out. A crash drops the request and frees
the mutex (a new process has a new one); the rows stay.

### 2.3 The person

The pages are modelled with a person who does anything a page offers at the moment: every action
of a person has the guard of the control it stands for (`ComposerOffers`, `HeaderOffers`,
`MicOffered`, ...: what is rendered and what is enabled), and `MaxActs` bounds how many there
are. `rough` says whether this person may hurry. One who is *not* rough waits until nothing is
under way before the next act (and, where the comment at the variable says so, the back end does
not refuse the calls). The distinction is needed because much of what the pages promise they
promise only to such a person, and it is kept per property: a property without `~ rough`
holds however people hurry (`OwnForm`, `OwnProposal`, `OwnWorkspace`, the planner's `OneTurn`,
the task's place in `WorkItems!UnderOpened`). `Phone` keeps a set instead of a flag, one member for
each thing the person did not wait for. Even the patient person is exposed to what is hard: effects
and queries run in any order, a save is several calls, answers move the selection, streams end
before they began, and time-outs fire late.

### 2.4 `Planner`

`staged[s]` and `asked[s]` are the session in the back end's memory, `catalog[n]` counts the rows
a node became, `page` is the page's React state, `calls` the invocations under way, each with a
clone of its session (`snap`) from `ReadSession` until it is written back; `mics` counts captures
that hold the device.

| Action | Code |
|---|---|
| `SendText`, `EditDraft`, `AnalyzeRepository`, `ConfirmPlan`, `DismissPlan`, `SelectNode`, `ShowView`, `SwitchProduct`, `LeavePage`, `OpenPage`, `ChooseModel` | the page's handlers (`planner/hooks/*`), guarded by what its components offer |
| `StartListening`, `StopListening`, `CancelVoice`, `RetryVoice`, `SubmitVoice`, `SpeakView`; `MicGranted`, `MicRefused`, `Heard`, `NotHeard` | `usePlannerVoiceCapture`, `usePlannerVoiceSubmission`: the capture is known to the page only once it was granted |
| `OpenSession`, `OpenForTurn`, `ReadSession`, `RouteVoice`, `PlanDesigns`, `PlanWaits`, `PlanFails`, `VoiceCommand`, `Analyze`, `Edit`, `Commit`, `CommitFailed`, `NothingToConfirm`, `ClearPending`, `Refuse` | the turn in `services/planner_*`: clone, model, write back; a voice turn may save its clone early, then serves a command from it or has the session read again; the commit of a design, not in one transaction |
| `HandleTurn`, `HandleRefused`, `HandleConfirm`, `HandleOpen`, `ClearRefused` | what the page does with each answer |

### 2.5 The desk: `Registry`, `Catalog`, `WorkItems`

All three have the same shape. `table` is the database, `seen` what each query of the page
answered last, `due` the queries that were never fetched or were invalidated, `page` the store
and the component state, `jobs` the mutations under way with what their handlers captured. `Act`
is the person; the actions of a job are the command (`WriteRow`, `Created`, `Decided`, ...) and
then what the mutation's success handler does (`Follow`, `Finish`): it waits for the queries it
invalidated, and then selects, seeds or closes. `Fetch` answers a query at any time.

* `Registry`: a save writes the row, waits for all queries, and then brings the links to the
  captured picks call by call (`Unlink`, `Link`), each of which may fail (`LinkFails`). A binding
  is two statements per agent (`BindClear`, `BindInsert`). The form is seeded by the rendering.
* `Catalog`: `Sort` and `Start` give a small tree; a new row has an id that was never used (`log.used`), as a UUID is. `Save(k)` reads the parent from the store;
  `Ask`/`Confirm` are the removal dialogs (`plan`, `node`, `item`, `product`); removed rows set
  their children free or take them along, as the schema says. A story goes task by task (`TaskRemoved`) and then itself, each
  call on its own. A plan is reset with its delivery or without (`InPlan`, `InDelivery`), and what either invalidates is
  invalidated in one step at its end. A dependency is recorded as a call, its row is not kept. `Invalidates` is the hand-written
  list of each mutation; `Content` and `Mounted` say what a query would answer and which are on
  the screen.
* `WorkItems`: the backlog with its pages, the detail with one draft, decisions about an item or
  a gate, deletion, runs. `AutoStart` is the background task an approval spawns, `Advance` the
  engine (of which `Workflow` has the steps), `Poll` the queries that are fetched by time.

### 2.6 `Ide`

`table` holds folders of registered repositories, what is attached to products and the item, and
the disk; `page` the product, the workspace, the tabs with their text and mark, the copilot with
its proposal. The workspace is chosen by an effect (`Rendered`, `Preferred`). A save is a call and the
marking of its answer (`Saved`); a proposal is applied patch by patch and open tabs are read again
(`PatchApplied`, `Reread`). A stream is started by a call (`StreamStarted`) and ends by an event
(`StreamEnded`) that may come first; `Timer` is the 180 s timer. Texts are numbers, new for every change.

### 2.7 `Chat`

One page at a time is shown, the other is gone, but its calls go on. A voice turn is a record that
goes through capture, transcription, stream and speech; the listening loop is an effect
(`Rendered`, `Watched`, `Idle`) and its timer (`armed`, `Listen`). Late and refused microphones,
failed transcriptions, early events and speech that is cut off are actions of their own.
A page that is left stops its capture and the browser's speech, and what else it had begun goes on: its turn is transcribed,
sent and spoken, a microphone granted late stays open. `Mics` counts those captures too, and `Settled` is a person who
waits for them.

### 2.8 `Phone`

`page` is the state of the application, `table` the device (recorder, speech, files, saved
preferences), the net and the products of the desktop; a handler under way keeps in `was` the state it was rendered with,
as a closure does. Screens share `page.busy` and the recorder, whose state the screens learn by
`Poll`. `Send`, `PanelSend`, `Mic`, `PanelMic` begin handlers; `Recording`, `Stopped`,
`Transcribed`, `SessionMade`, `Replied` and the failures carry them on. `Load`, `Listed`,
`Summarized`, `TreeLoaded` are the loading of products; `CheckConnection` and `Connected` the
check with its fallback to the phone's own address; `InstallModel` to `Removed` the speech models.

### 2.9 `Background`

A run or an import has a row and, while a process works on it, a task in `jobs`, whose `at` is the
next statement.

| Action | Code |
|---|---|
| submit, `Launch`, `Exit`, `Drain` | `external_cli_service.rs`: the row is written and read back, the child spawned, its readers joined |
| `ItemToReview`, `FindFlow`, `CreateFlow`, `MoveFlow`, `FlowRuns`, `NoteMove`, `CompleteRun`, `Fallback` | `external_cli_finalization.rs`, statement by statement, each with its failure |
| the steps of an import | `bulk_import_service.rs`: mark, chunk, progress, complete, error |
| `Start`, `RecoverEvents`, `RecoverRuns`, `RecoverImports`, `Crash` | a process starts, fails every row that is not ended, and dies at any statement |
| `Engine`, `SetStatus` | what else moves the workflow run and the item |

`log.alone` is TRUE as long as no two processes were up together; `log.lost` are rows whose end
failed to be written. Properties about recovery are stated for a process that is alone, because
that is what the code gives (see section 6).

## 3. Runs

| Run | Specification and bounds | Checks | Shows |
|---|---|---|---|
| `ruled` | `RuledSpec`; 2 rows, 2 overlapping zones, 2 clients, 4 tokens, lease 2 | `TypeOK` `Covered` `NeverStolen` `LeaseSpec` | every live claim is covered by its locks, is not taken over, and the ledger implements `ZoneLease` |
| `edits` | `RuledSpec`; 1 client with the editing tools, 3 tokens, lease 1 | `Exclusive` `InOrder` | also with reservations, re-seeding, requeues and changing prerequisites no zone is shared and no claim runs ahead of its prerequisites |
| `live` | `LoopSpec`; two rows in a chain with an agent that may die anywhere and a coordinator that sweeps, or three ready rows and a window of two | `LapsedLockGoes` `ExpiredRecovered` `FirstIsServed` `ClaimRespectsLocks` | without any client rule: lapsed locks go, silent claims return, a row whose turn it is is served past blocked ones and past rows that wait, a claim never takes a running lock |
| `late` | `Spec` | `Exclusive` **violated** | a heartbeat after the lease lapsed revives a claim beside another one |
| `fence` | `Spec` | `TokenGuardsStatus` **violated** | the token is checked in one statement and the status written in another |
| `silent` | `LoopSpec` | `LapsedRecovered` **violated** | no sweep selects an `implemented` row |
| `workflow` | `Spec`; 2 items, 2 runs, 1 server, capacity 1, 1 crash, a review before the last gate | `TypeOK` `OneActive` `EndedIsFinal` `Returns` `ReviewedPush` `Rests` | starts after a crash resume or close what is there; nothing is pushed unreviewed; every request ends, and leaves its run ended or at a gate |
| `overbooked` | `Spec`; 2 items, capacity 1 | `WithinCapacity` **violated** | the refused run stays in draft and the next start resumes it unchecked |
| `zombie` | `OverrideSpec`; 1 run, 1 operator | `EndedIsFinal` **violated** | the override writes between two statements of a transition |
| `twins` | `Spec`; 2 servers | `OneActive` **violated** | two processes create two active runs for one item |
| `desk` | `Spec` of `Desk`: registry with 2 agents, 1 team, 2 skills, 3 facts; catalog with 13 rows of 6 sorts; work items 3, 2 per page, 2 runs; 2 tool runs or 1 import of at most 2 chunks in 2 processes | `TypeOK` `OwnForm` `UnderOpened` `LinksAsPicked` `FreshTree` `OwnRun` `AsReported` | forms, parents, links, screens and decisions stay with what they are about; rows of background work report what was done |
| `tools` | `Spec` of `Tools`: planner with 2 products, 2 nodes, 2 sessions, 4 calls; IDE with 2 products, 4 folders, 2 files; both chats; phone with 2 products, 1 speech model, 2 addresses | `TypeOK` `OneTurn` `NothingHidden` `AppliedOnce` `MicReleased` `FilesAsShown` `OwnProposal` `OwnContext` `HalfDuplex` `Settles` | turns do not overlap, designs are applied once, microphones are released and hear no replies, contexts stay with their product, no page stays busy |

The bounds. Two rows and two overlapping zone sets are the smallest ledger in which a claim can
be blocked by part of its zones and a prerequisite can matter; the proofs show that more add
nothing. Four tokens are what two rows, a lock left from an earlier claim and a call that
remembers an older token can hold together; where fewer are given, a claim waits for a token to
become unknown, and `FreshTokens` says so. A lease of 1 or 2 tells *running*, *about to lapse* and *lapsed*
apart. `MaxCandidates` 2 in `live` makes the candidate window (250 in the code) smaller than the
three ready rows of `MCQueues`: the third is beyond it until one before it is claimed, and the second is reached past a blocked first one. A
window that counts rows which wait for prerequisites starves a row there. Two clients give every pair of concurrent calls; `SYMMETRY` is over the clients and
is used only where nothing temporal is checked that it would make unsound (`NeverStolen` and
`LeaseSpec` are box formulas, symmetric in the clients). In the workflow, two runs are the old one and the one a
restart creates; a third would need a third start after two terminated runs, which is the second
start again. One crash is what it takes to meet a recovery, and the theorems hold for any number; the review of
`push_preparation` is one that a gate leads to, and the last before the push (`MCRequired`). `Create`
reports an error when the run ids are used up, which the model treats as a failed insert.

In `desk` and `tools` the bounds that matter are `Slots`, the calls under way at once (2: every pair of
concurrent calls; 3 in the registry, 4 in the planner), and `MaxActs`, what the person does. A person in a
hurry does 2 things in the registry, the work items, the planner, the IDE and on the phone, 4 in the catalog, where a dialog
needs two, and 5 in the chats; a patient person 4, 5, 6 and on the phone 3. Two products, or two rows of a sort, are what it takes to mistake one for
another; three items with two on a page make a page that is left behind. The background has two tool runs on one item, so that
two checkpoints meet, one or two crashes, and imports of at most two chunks, so that one is between the first and the last. Each mutant of these runs is
found within the same bounds. The
theorems of section 5 have none of the bounds on rows, items, products, nodes, folders, processes, runs, chunks and acts.
`desk` explores 736,798 distinct states, `tools` 707,344.
The two runs turn deadlock checking off: a person may stop, acts are bounded, and a system with
nothing under way has nothing left to do. In the other runs it is on.

### Fairness

`LoopSpec` of the ledger: `WF(Claim)`, agents that are idle keep asking (the guide's loop,
`docs/mcp-resources/agent-work-coordination.md`); `WF(Continue(c))`, a call that has begun runs to its
end unless its client dies, which `Abandon` may do to any client that is not `Steady`;
`SF(RequeueExpiredStart(c))` for steady clients, the coordinator comes back to its sweep again and again
although it may be busy each time the sweep could begin. `Spec` of the workflow: `WF(Step(s))`, a
server carries on a request it has begun; nothing makes a person act, a coordinator be enabled
or a request begin. `Returns` needs no more than that; a crash ends a request too.

`Tools` assumes `WF(Answers(i))` for each call slot: a call of the planner, a request for its
microphone and a transcription included, is answered or refused and the answer handled by the page; the call that *starts* a stream is answered; a timer that was set
fires. Nothing is assumed of the person, of the end of a stream, or of the microphones and the speech of the other pages. `Settles` therefore
rests on the timers of the IDE (180 s) and of the direct chat (120 s), which are set after the start was answered, and is
claimed neither of the voice session, which has no timer, nor of the phone, whose requests have
no timeout. Nothing is assumed of background tasks: their readers are joined without a timeout, and a pipe that a
grandchild keeps open holds the task for ever.

## 4. Findings

Six runs end in a counterexample, each against a sentence, a test or a message of the repository
(quoted in `PROJECT.json`): the late heartbeat (`late`), the unfenced status change (`fence`), the
silent `implemented` claim (`silent`), the draft left by a refused start (`overbooked`), the
override without the mutex (`zombie`), two processes that start one item (`twins`).

## 5. Theorems

`AgentWorkProofs`, for any number of rows, zones, tokens and clients:

* `TypeCorrect` and `LocksRespected` hold for `Spec`, whatever the clients do.
* `Inductive`: `RuledSpec => []IInv`. `Covered` alone is not inductive: a call that already
  passed its check may still write. `IInv` adds what every call in flight may rely on:
  `Serial` (no two calls work on one row), `InFlight` (the heartbeat's claim is still live and
  carries its token; a status change does not revive; what is about to be released or reset
  belongs to no live claim) and `InOrder` (a finished prerequisite is finished for good). The
  proof has one lemma per tool, each showing that its statement disturbs no other row.
* `CoveredAlways`, `ExclusiveAlways` (two owners of one zone would be one lock with two
  owners), `InOrderAlways`, `NeverStolenAlways` follow from it, and so does
* `Refinement`: `RuledSpec => LeaseSpec`. A claim is a `Grant`; whatever ends claims, time
  included, is a `Drop`; everything else stutters.

`WorkflowProofs`:

* `WorkflowTyped`, for any number of servers: the invariant adds to `TypeOK` that a request
  has the run and the stages its next statement works on (`Placed`).
* With one server (`Servers = {s}`, the assumption the mutex of a single process stands for):
  `OneActiveAlways` and `EndedIsFinalAlways` from `SafeInv`, i.e. `OneActive`, `Ended` (a
  row whose status has ended is in a terminal stage, or was closed in `coordinator_review`),
  and `Knows` (what the request found about its run still
  holds: nobody else starts, ends or moves it); `ReviewedPushAlways` from `Backed` (a run in a push stage
  has its review) and `Asks` (so does a run a request is about to move there). `twins`
  and `zombie` show that the one-server assumption cannot be dropped.

The assumptions are the named `ASSUME`s of `AgentWork` and `Workflow` (types of the constants,
names distinct from ids, leases positive as the code clamps them); TLC evaluates them in every run.

`PlannerProofs`, for any products, nodes and session ids, every `MaxActs`, and a product selected at the
start that is one of them or none (`First \subseteq Products \cup {None}`):

* `TypeCorrect`: `TypeOK` with what each call carries (`CallRec`, `Proper`: two calls never
  share an id), so that every handler finds what it works on.
* `OneTurnAlways`, for any person. `OneTurn` is not inductive: five flags, raised and lowered by
  different handlers, have to be up exactly as long as the turn they stand for. `Apart` says so: the calls of a page
  that is gone are dead, a voice turn has its flag up, and nothing is transcribed meanwhile.
* `MicReleasedAlways`, for the waiting person: `Held` relates the captures, the
  page's flag and the call that asks for the microphone.
* `NothingHiddenAlways` and `AppliedOnceAlways`, for the waiting person, where *none* is no session and no node and a
  product is no node (`Distinct`). `NothingHidden` speaks of moments when nothing is under way; `Shown` says what holds in between: one call
  about the design at a time, `Told` what it has read of the session and what its answer will make of the page, whichever
  way it ends; `OneOpening` and `Staging` that a session which arrives late is empty and only ever given to a page without one.
  That last part is the delicate one: the effect and a turn may both open a session, and either may come first.
  `Waiting` adds that what a session stages has no row and is staged in no other session.

`BackgroundProofs`, for any processes, tool runs, imports (disjoint from the runs) and sizes of files:

* `BackgroundTypes`: rows and tasks, and one task per row at most.
* `AsReportedAlways`: `IInv` adds to the parts of `AsReported` why they last. `Up` and `OneProc`:
  a lone process that starts meets no task of its own. `Swept`: by the time imports are recovered
  no run is open. `Submitted` and `Counting`: what the task of an import has written and counted before each of its
  statements, which makes a completed import whole. `Single` and `Reviewing`: an undisturbed item has one
  run of the tool and one active workflow run, and what the checkpoint has done before each statement.

`DeskProofs` (with `CatalogProofs`), for any agents, teams, skills, facts, catalog rows and their sorts, items, page size, processes, runs,
imports and every number of acts: each invariant of the run `desk` holds of `Desk!Spec`. `shown` never changes, so that each
theorem is the sum of what is proved page by page; of each page first what holds for every person (`..IInv`),
then what holds besides for one who waits (`..Waited`):

* *Registry*: `RegIInv` is the types and `RegFormed`, the form on the screen was seeded from the row that is selected. `RegWaited`: one job; the
  queries that are not due show the table (`RegMirror`); between the write and the last link, links removed and links to come
  add up to the picks (`RegAsPicked`); a primary binding is cleared before one is inserted (`RegAtMostOne`).
* *Catalog*: `CatIInv` is the shape of the tree (every row under a row of the right sort), `CatSettled` what the calls and dialogs name and `CatFormed` the
  drafts. `CatWaited`: one dialog, one call, and `CatMirror`: whatever is not due shows
  what the database has. It is the statement that each hand-written list of invalidations is complete, and the largest proof here.
* *Work items*: `ItemIInv` says what each list may show of items that changed or went, and that a run belongs to one item;
  `ItemWaited`, that the draft and the run on the screen are the shown item's.
* *Background*: `BackgroundProofs`, for `Tool` and for `Import`.

The theorems: `TypesKept`, `OwnFormAlways`, `UnderOpenedAlways`, `LinksAsPickedAlways`, `FreshTreeAlways`, `OwnRunAlways`,
`AsReportedAlways`.

`ToolsProofs` (with `TalkProofs`), for any products, plan nodes, sessions, folders, files, numbers of rows, speech models and acts:
each invariant of the run `tools` holds of `Tools!Spec`.

* *Planner*: a behaviour that shows it is one of `Planner` (`PlannerShown`), and `PlannerProofs` is instantiated.
* *IDE*: `IdeIInv`. `IdeRowsThere`: calls and the page name rows there are. `IdeOpenOnce`: a file has one tab. `IdeAsked`: a proposal and the
  call that brings it are of the product on the screen. `IdeCurrent`: a query shows the database, or is due, or a call is still going to invalidate
  it; `IdeSettled`: the workspace is the one the effect would choose. `IdeWaited`: one call, a folder is registered once, and a clean tab is on the
  disk or about to be read again by the patch that is being applied (`IdeClean`).
* *Chats*: `ChatIInv`: each flag of the page belongs to a call that will lower it (`ChatOwn`, `ChatHolds`), one capture
  (`ChatOneLoop`), one turn that speaks (`ChatOneTalk`), all of it counting what pages that were left still do for a person who waits, and the timer of the loop is set on an idle page only (`ChatArmedIdle`).
* *Phone*: `PhIInv`: the handlers that remember the state they were rendered with are those that raised the flag; `PhMicWaited`,
  `PhProductsWaited`, `PhAddressWaited`, `PhModelsWaited` compare what they remember with the state of the device.

The theorems: `TypesKept`, `OneTurnAlways`, `HalfDuplexAlways`, `OwnProposalAlways`, `OwnContextAlways`, `FilesAsShownAlways`, `MicReleasedAlways`,
`NothingHiddenAlways`, `AppliedOnceAlways`.

What all of these keep is the bound on the calls under way at once (`Slots`, the registry's `Jobs` and the planner's `Ids`, of two to four), which is a definition and no constant: a page with more
concurrent calls than that is in neither the runs nor the theorems.

Only model-checked: everything about progress (`LapsedLockGoes`, `ExpiredRecovered`,
`FirstIsServed`, `Returns`, `Settles`), since the proof system does not handle liveness under fairness; `ClaimRespectsLocks`, an action property of the
`LoopSpec`; and `Rests` of the workflow, whose inductive invariant has to say what every statement of every nested stage leaves for the next. Disproved by TLC, so not theorems: the six findings' properties in their runs.

## 6. Not modelled, and the plan

A policy that requires a review of a stage without one in `is_valid_transition`
(`docker_test_execution`, `git_push`) is allowed by the model (`RequiredAssumption`) and by the theorems, but
the runs do not use one: with it, `Rests` fails after a crash, since a start that resumes the run
there returns with an error and leaves it active.

Not modelled in the workflow: `advance_workflow` (a manual move that ignores gates and status: it
can leave a run done and running at once), policies changed during a run, several teams, deletion
of agents and teams, the CI dispatch after the push. Not modelled in the ledger: batches, events,
evidence, the run's pointers, the bulk import of a catalog. Not modelled of the pages: texts and
their layout, searching and sorting, the book's text and its export, the organisation chart, a
work item's artifacts and findings, product areas with a workspace of their own, the remote page the phone embeds and its list of model
calls. Planner sessions are kept in memory; their copies in the database are left out.
Pure I/O (providers, the streaming protocol, speech recognition, git, the parser of patches) answers, fails or stays silent.

### What the proofs showed

A theorem that could not be proved was each time a state the run was too small, or the model too generous, to show. What was changed for it:

* *Registry.* A link that fails leaves links that differ from the picks while the page reports success, and no bound of the run had
  noticed that the claim about links had to exclude it: the claim is now about behaviours
  in which nobody hurries and no call has failed yet (`rough`). What was picked goes with a row
  that is deleted; the first row's form is seeded by the rendering that shows it.
* *Work items.* A list that was not fetched again still offers an item that is gone, and opening it gives a blank draft. The model gave it
  the draft of the item before.
* *Catalog.* The model handed out the ids of removed rows again, which UUIDs never are; a stale draft could so become one of the new row.
  `log.used` keeps them apart.
* *IDE.* Creating a workspace could leave its call under way for ever in a case the code returns from; nothing a waiting person did
  afterwards was in the model, so that clean text was claimed of less than it seemed.
* *Phone, planner.* Nothing was wrong, but the reason was not the one expected: `OneTurn` of the phone rests on what handlers remember, and
  `NothingHidden` on sessions being empty until they are given to a page.

### What the models showed beside the properties

Each property is as strong as the code allows; where a stronger one fails, the model was
made to have the behaviour and the property says for whom it holds. What a maintainer may want to know:

* *Planner.* "confirm" in the composer's menu fills in the draft, which is then sent as a turn like any other. Confirmation of a plan reports "Applied design to catalog." whatever the answer
  (`usePlannerPendingPlanActions.ts:68`). A commit that fails midway leaves rows that a retry
  creates again (`planner_commit.rs:104`); hence `AppliedOnce` for calls that do not fail. A dismissal that the back end refuses
  is swallowed. Answers are applied after another product was chosen. A microphone granted after a
  second toggle or after leaving stays open.
* *Registry.* A failed link is reported as "Agent profile updated."; overlapping saves leave
  wrong links; two hurried bindings leave two primary models (`agent_commands.rs:41-58`).
* *Catalog.* `ProductManagementDeliveryModals.tsx` promises that the hierarchy under a removed
  node goes with it; `delete_capability` removes one row and the schema sets its children free
  (`migrations/043`). An area or capability edited from the book opens the dialog with the draft
  of another (`useProductOverviewPageController.ts:176-200`), which `OwnForm` leaves out. The
  summary of the status tab is never invalidated. A dependency begun before another product is chosen keeps its source
  capability: it is saved under the new product, unchecked (`useProductHierarchyMutations.ts:172-173`, `strategy_repo.rs:289-313`), and
  `ProductDependenciesTab` shows it blank. No property says otherwise, since no document does. A task added while its story is being
  deleted is left without a story. A plan reset with its delivery also removes items the model does not reach, those of features
  that are gone already; no list shows them before or after.
* *Work items.* "Approve Selected (N)" counts the ticks on the page and decides all of them
  (`useWorkItemBacklogApprovalActions`); an item that was deleted while ticked stops every bulk decision. After an approval
  from the list, saving an open edit takes the approval back. The dialogs of `WorkItems` ask for
  a title the model assumes a person to have typed, so the buttons are enabled; they stay so during a save and can be pressed again. A run that was selected by an answer stays selected when a newer one started by itself.
* *IDE.* Typing during a save is marked saved (`useIDEWorkspaceController.ts:233-245`); overlapping saves land out
  of order. A folder attached to a product that has a default is only a second default, so the
  page goes back to the first. The default itself is a `LIMIT 1` without an order (`repository_repo.rs:98-112`, `135-145`): the model takes the row
  inserted first, which the index `idx_repo_attachments_scope` gives today and SQL does not promise. Creating a workspace is one step
  of the model; the code deletes the old default and inserts the new one in two statements (`workspace.rs:140`), and when the second fails the
  product is left without a workspace. An item that is given a workspace of its own does not occur in the run, where the product has one by then. Creating a workspace overwrites `README.md` and `.gitignore`. The timer of an old stream lowers the
  busy flag of a newer one.
* *Chats.* In the voice chat the end of a stream that comes before the answer to its start leaves the
  turn pending for ever; a refused microphone stops the loop. A stopped session still transcribes, sends and speaks. When the voice page is left and
  entered again, the old turn goes on and speaks beside the new session's microphone (`VoiceChatPage.tsx:74-77`, `174-177`), and a
  microphone granted to the page that was left stays open: `HalfDuplex` counts both, holds of a person who waits for them, and
  of any other only says that one visit of the page opens one capture.
* *Phone.* The effect that reads the preferences is set off again by every rendering, so that an unsaved voice mode is
  soon undone; an empty product list is loaded again for ever. Stop can be pressed twice while the
  recorder's state is stale, and the recording is sent twice. A recording begun in the panel and stopped on the voice screen
  leaves the panel recording. A partial download counts as an installed model the next time. A
  fallback replaces the address that was typed. Reading the preferences leaves tab and *read replies* as they are in the model, because both
  are saved at every change and by nothing else; an empty token and a saved voice mode that is no longer known are left out.
* *Background.* The start of a second process fails the live runs and imports of the first, which then completes them
  over that. A crash or a failed artifact after the checkpoint leaves a failed run with its item in review. A
  process that crashes beside another leaves its rows open until the next start. The finalisation can revive an ended
  workflow run, and two concurrent tool runs on one item can create two active ones.

### Plan

1. The proof of `Rests`, and of `ClaimRespectsLocks` for `LoopSpec`.
2. `Workflow`: `advance_workflow`, the approval and the finalisation as its other callers, CI dispatch after the push.
3. `AgentWork`: batches and run pointers, catalog import.
4. An abstract specification of a query cache (a screen that is not invalidated shows the database), which the three pages of the desk
   implement; `RegMirror` and `CatMirror` are its mapping.

## 7. Running

    tlc -workers 2 -config ruled.cfg MCAgentWork.tla
    tlc -workers 2 -config workflow.cfg MCWorkflow.tla
    tlc -workers 2 -config desk.cfg MCDesk.tla
    tlc -workers 2 -config tools.cfg MCTools.tla
    tlapm AgentWorkProofs.tla
    tlapm WorkflowProofs.tla
    tlapm PlannerProofs.tla
    tlapm BackgroundProofs.tla
    tlapm CatalogProofs.tla
    tlapm DeskProofs.tla
    tlapm TalkProofs.tla
    tlapm ToolsProofs.tla
