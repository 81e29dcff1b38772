--------------------------------- MODULE Ide ---------------------------------
(***************************************************************************)
(* The IDE page: the workspace of the product, the open files with their   *)
(* unsaved text, and the copilot whose patch proposals are applied to the  *)
(* workspace.                                                              *)
(*                                                                         *)
(* The open files are kept in a store and outlive the page; everything     *)
(* else of the page goes when another page is shown.  The workspace is     *)
(* chosen by an effect: it follows what is attached to the product, or to  *)
(* the work item the page was entered with.  The product areas, which can  *)
(* have a workspace of their own, are left out.  So is a failure between   *)
(* the statements that create a workspace: it succeeds or fails as a whole.*)
(***************************************************************************)
EXTENDS Integers, Sequences, FiniteSets

CONSTANTS
    Products, First,   \* products, the one listed first
    Picked,            \* folders a person may attach
    There,             \* one of them, the workspace of the first product
    Own,               \* per product: the folder a workspace is created in
    Files,             \* paths of files in a folder
    Seeded,            \* the files that creating a workspace writes
    MaxRows, MaxActs

None == 0
Folders == Picked \cup {Own[p] : p \in Products}
RowIds == 1 .. MaxRows
Keys == {<<"list">>, <<"item">>} \cup ({"home"} \X Products)
Modes == {"chat", "patch"}
Slots == 1 .. 2                       \* bound on the calls under way
NoProposal == [of |-> None, patches |-> <<>>]

\* The text of a file: its first text, what creating a workspace writes, the
\* typed ones, each with a number of its own, and patched ones.
Original == 0
Template == -1
Patched(t) == t + 10

VARIABLES
    table,    \* folders of the registered repositories, what is attached, the disk
    seen,     \* what each query answered last
    due,      \* queries never fetched or invalidated
    page,     \* product, workspace, open files, copilot
    jobs,     \* calls under way and timers
    rough,    \* FALSE: the person waits until nothing is under way, and calls
              \* do not fail
    acts

vars == <<table, seen, due, page, jobs, rough, acts>>

------------------------------------------------------------------------------
(* Queries, and the workspace they give *)

Rows(tb) == 1 .. Len(tb.folder)
Disk(r, f) == table.disk[table.folder[r]][f]

\* The first default attachment counts, whatever was attached later: the query
\* takes one row of the index on the scope, which lists them as they were inserted.
Home(tb, p) == IF tb.homes[p] = <<>> THEN None ELSE Head(tb.homes[p])

Content(tb, q) ==
    CASE q[1] = "list" -> Rows(tb)
      [] q[1] = "home" -> Home(tb, q[2])
      [] q[1] = "item" -> IF tb.item # None THEN tb.item ELSE Home(tb, First)

Mounted(pg) == {<<"list">>, <<"home", pg.product>>} \cup (IF pg.item THEN {<<"item">>} ELSE {})

\* workItemResolvedRepo ?? scopeResolvedRepo
Preferred(pg, sn) ==
    IF pg.item /\ sn[<<"item">>] # None THEN sn[<<"item">>] ELSE sn[<<"home", pg.product>>]

\* Variant: an effect that keeps a workspace when the product has none.
RenderedKeepingRepo(pg, sn) ==
    IF Preferred(pg, sn) \in sn[<<"list">>] THEN [pg EXCEPT !.repo = Preferred(pg, sn)] ELSE pg

\* The page after a rendering and its effect: without a preferred workspace
\* none is selected, and one that is listed is selected instead of any other.
Rendered(pg, sn) ==
    LET r == Preferred(pg, sn)
    IN  IF r = None \/ r \in sn[<<"list">>] THEN [pg EXCEPT !.repo = r] ELSE pg

------------------------------------------------------------------------------
(* The open files *)

Id(o) == <<o.repo, o.file>>
IsOpen(pg, id) == \E k \in DOMAIN pg.open : Id(pg.open[k]) = id
Tab(pg, id) == CHOOSE k \in DOMAIN pg.open : Id(pg.open[k]) = id
OpenOf(pg, id) == pg.open[Tab(pg, id)]
NoFile == <<None, None>>

\* activeFile: the active tab, when it is a file of the selected workspace.
Active(pg) == IF IsOpen(pg, pg.active) /\ pg.active[1] = pg.repo THEN pg.active ELSE NoFile

openFile(pg, id, t) ==
    [pg EXCEPT !.active = id,
               !.open = IF IsOpen(pg, id) THEN @
                        ELSE Append(@, [repo |-> id[1], file |-> id[2], text |-> t, dirty |-> FALSE])]

\* One file at most has the id, so filtering takes out one.
closeFile(pg, id) ==
    LET k == Tab(pg, id)
        rest == [i \in 1 .. Len(pg.open) - 1 |-> pg.open[IF i < k THEN i ELSE i + 1]]
    IN  [pg EXCEPT !.open = rest,
                   !.active = IF @ # id THEN @ ELSE IF rest = <<>> THEN NoFile ELSE Id(rest[Len(rest)])]

WithText(pg, id, t, d) ==
    [pg EXCEPT !.open = [k \in DOMAIN @ |->
        IF Id(@[k]) = id THEN [@[k] EXCEPT !.text = t, !.dirty = d] ELSE @[k]]]
updateFileContent(pg, id, t) == WithText(pg, id, t, TRUE)
replaceFileContent(pg, id, t) == WithText(pg, id, t, FALSE)
markFileSaved(pg, id) ==
    IF IsOpen(pg, id) THEN WithText(pg, id, OpenOf(pg, id).text, FALSE) ELSE pg

------------------------------------------------------------------------------
(* The person *)

\* A timer is nothing a person waits for.
Quiet == {j \in jobs : j.at # "timer"} = {} /\ due \cap Mounted(page) = {} /\ ~ page.sending
Acts == acts < MaxActs[rough] /\ (rough \/ Quiet) /\ acts' = acts + 1
Becomes(pg) == page' = pg /\ UNCHANGED <<table, seen, due, jobs, rough>>

\* resetCopilot
Reset(pg) == [pg EXCEPT !.asked = {}, !.proposal = NoProposal]

\* Choosing no product has the first one selected by an effect.
ChooseProduct(p) ==
    /\ p # page.product \/ p = First
    /\ Becomes(Rendered([Reset(page) EXCEPT !.product = p, !.item = FALSE, !.repo = None], seen))

Clear == ~ page.sending /\ Reset(page) # page /\ Becomes(Reset(page))

ChooseTab(id) == IsOpen(page, id) /\ id # page.active /\ Becomes([page EXCEPT !.active = id])
CloseTab(id) == IsOpen(page, id) /\ Becomes(closeFile(page, id))
Type == Active(page) # NoFile /\ Becomes(updateFileContent(page, page.active, acts + 1))

\* Another page is shown and left again, with a product selected there; the
\* calls under way go on, the timers and the listeners of the copilot have
\* nothing left to change.
Reenter(p) ==
    /\ page' = Rendered([Reset(page) EXCEPT !.product = p, !.item = FALSE, !.repo = None,
                                            !.sending = FALSE], seen)
    /\ jobs' = {[j EXCEPT !.live = FALSE] : j \in {k \in jobs : k.op # "send"}}
    /\ UNCHANGED <<table, seen, due, rough>>

Job(op) == [n |-> 0, op |-> op, at |-> "out", live |-> TRUE, product |-> page.product, repo |-> page.repo,
            file |-> None, text |-> Original, patches |-> <<>>, known |-> {}, folder |-> None,
            item |-> FALSE, mode |-> "chat", msg |-> acts, over |-> FALSE,
            todo |-> <<>>, waits |-> {}]
Pending(op) == \E j \in jobs : j.live /\ j.op = op

Free == Slots \ {j.n : j \in jobs}
Begin(j, pg) ==
    /\ Free # {}
    /\ jobs' = jobs \cup {[j EXCEPT !.n = CHOOSE n \in Free : \A o \in Free : n <= o]}
    /\ page' = pg
    /\ UNCHANGED <<table, seen, due, rough>>

\* The rows of the tree; a file that is open already is only activated.
OpenFile(f) ==
    /\ page.repo # None
    /\ IF IsOpen(page, <<page.repo, f>>) THEN Becomes([page EXCEPT !.active = <<page.repo, f>>])
       ELSE Begin([Job("read") EXCEPT !.file = f], page)

\* The button waits for the save before, the shortcut does not.
Save ==
    /\ Active(page) # NoFile
    /\ Begin([Job("save") EXCEPT !.file = page.active[2], !.text = OpenOf(page, page.active).text], page)

\* The folder is looked for among the repositories as they were rendered.
AttachFolder(d) ==
    LET rows == {r \in seen[<<"list">>] : table.folder[r] = d}
    IN  Begin([Job("folder") EXCEPT !.folder = d,
                 !.repo = IF rows = {} THEN None ELSE CHOOSE r \in rows : \A o \in rows : r <= o], page)

CreateWorkspace ==
    /\ page.repo = None /\ Preferred(page, seen) = None
    /\ Begin([Job("create") EXCEPT !.item = page.item], page)

\* The answer gets a message of its own, named by the act that asked for it.
\* The mode cannot be changed before the answer has come.
Send(m) ==
    /\ ~ page.sending
    /\ Begin([Job("send") EXCEPT !.mode = m],
             [page EXCEPT !.sending = TRUE, !.asked = @ \cup {acts},
                          !.proposal = IF m = "patch" THEN NoProposal ELSE @])

\* The patches go to the workspace selected now, whichever was when they were
\* asked for; the open files are those of this moment.
Apply ==
    /\ page.proposal # NoProposal /\ page.repo # None /\ ~ Pending("apply")
    /\ Begin([Job("apply") EXCEPT !.patches = page.proposal.patches,
                                  !.known = {Id(page.open[k]) : k \in DOMAIN page.open}], page)

------------------------------------------------------------------------------
(* The files *)

Gone(j) == jobs' = jobs \ {j}
Goes(j, new) == jobs' = (jobs \ {j}) \cup {new}

FileRead(j) ==
    /\ j.at = "out" /\ j.op = "read"
    /\ page' = openFile(page, <<j.repo, j.file>>, Disk(j.repo, j.file))
    /\ Gone(j) /\ UNCHANGED <<table, seen, due, rough, acts>>

\* What was typed since the save was pressed counts as saved.
Saved(j) ==
    /\ j.at = "out" /\ j.op = "save"
    /\ table' = [table EXCEPT !.disk[table.folder[j.repo]][j.file] = j.text]
    /\ page' = markFileSaved(page, <<j.repo, j.file>>)
    /\ Gone(j) /\ UNCHANGED <<seen, due, rough, acts>>

NextPatch(j) ==
    IF Len(j.patches) = 1 THEN Gone(j) ELSE Goes(j, [j EXCEPT !.at = "out", !.patches = Tail(@)])

\* Variant: patches of which the open files are not read again.
PatchAppliedUnread(j) ==
    /\ j.at = "out" /\ j.op = "apply"
    /\ table' = [table EXCEPT !.disk[table.folder[j.repo]][Head(j.patches)] = Patched(@)]
    /\ NextPatch(j)
    /\ UNCHANGED <<seen, due, page, rough, acts>>

PatchApplied(j) ==
    /\ j.at = "out" /\ j.op = "apply"
    /\ table' = [table EXCEPT !.disk[table.folder[j.repo]][Head(j.patches)] = Patched(@)]
    /\ IF <<j.repo, Head(j.patches)>> \in j.known THEN Goes(j, [j EXCEPT !.at = "read"]) ELSE NextPatch(j)
    /\ UNCHANGED <<seen, due, page, rough, acts>>

\* An open file is read again, over what was typed in it.
Reread(j) ==
    /\ j.at = "read"
    /\ page' = replaceFileContent(page, <<j.repo, Head(j.patches)>>, Disk(j.repo, Head(j.patches)))
    /\ NextPatch(j)
    /\ UNCHANGED <<table, seen, due, rough, acts>>

------------------------------------------------------------------------------
(* The workspaces *)

KeysOf(kind) == {q \in Keys : q[1] = kind}

\* The queries are invalidated one kind after the other, each when what the
\* page shows of the one before has been fetched.
Invalidates(j, new, kinds) ==
    /\ due' = due \cup KeysOf(Head(kinds))
    /\ Goes(j, [new EXCEPT !.at = "fetch", !.todo = Tail(kinds), !.waits = KeysOf(Head(kinds)) \cap Mounted(page)])

\* Registering does not look for the folder among the rows there are.
Registered(j) ==
    /\ j.at = "out" /\ j.op = "folder" /\ j.repo = None /\ Len(table.folder) < MaxRows
    /\ table' = [table EXCEPT !.folder = Append(@, j.folder)]
    /\ Goes(j, [j EXCEPT !.repo = Len(table'.folder), !.at = "attach"])
    /\ UNCHANGED <<seen, due, page, rough, acts>>

\* A default attachment more; those there are stay defaults.
Attached(j) ==
    /\ j.op = "folder" /\ (j.at = "attach" \/ (j.at = "out" /\ j.repo # None))
    /\ table' = [table EXCEPT !.homes[j.product] = Append(@, j.repo)]
    /\ Invalidates(j, j, IF j.at = "attach" THEN <<"list", "home">> ELSE <<"home">>)
    /\ UNCHANGED <<seen, page, rough, acts>>

\* The folder is made ready, found or registered, and the only default of the
\* product, that of the work item if there is one.  The command's statements are
\* one step.
Provisioned(j) ==
    /\ j.at = "out" /\ j.op = "create"
    /\ LET p == IF j.item THEN First ELSE j.product
           rows == {r \in Rows(table) : table.folder[r] = Own[p]}
           r == IF rows = {} THEN Len(table.folder) + 1 ELSE CHOOSE o \in rows : \A k \in rows : o <= k
       IN  /\ r <= MaxRows
           /\ table' = [table EXCEPT
                 !.folder = IF rows = {} THEN Append(@, Own[p]) ELSE @,
                 !.disk[Own[p]] = [f \in Files |-> IF f \in Seeded THEN Template ELSE @[f]],
                 !.homes[p] = <<r>>, !.item = IF j.item THEN r ELSE @]
           /\ Invalidates(j, [j EXCEPT !.repo = r], <<"list", "home", "item">>)
    /\ UNCHANGED <<seen, page, rough, acts>>

InvalidatesNext(j) ==
    /\ j.at = "fetch" /\ j.waits = {} /\ j.todo # <<>>
    /\ Invalidates(j, j, j.todo)
    /\ UNCHANGED <<table, seen, page, rough, acts>>

\* handleSelectRepository; the effect has the last word.
Select(j) ==
    /\ j.at = "fetch" /\ j.waits = {} /\ j.todo = <<>>
    /\ page' = IF j.live THEN Rendered([page EXCEPT !.repo = j.repo], seen) ELSE page
    /\ Gone(j) /\ UNCHANGED <<table, seen, due, rough, acts>>

Fetch(q) ==
    /\ q \in due /\ q \in Mounted(page) \cup UNION {j.waits : j \in jobs}
    /\ seen' = [seen EXCEPT ![q] = Content(table, q)]
    /\ page' = Rendered(page, seen')
    /\ due' = due \ {q}
    /\ jobs' = {[j EXCEPT !.waits = @ \ {q}] : j \in jobs}
    /\ UNCHANGED <<table, rough, acts>>

------------------------------------------------------------------------------
(* The copilot *)

\* Until the call has answered, the page does not know its stream: what the
\* stream says before, its end too, is dropped.
StreamOver(j) ==
    /\ j.op = "send" /\ j.at = "out" /\ ~ j.over
    /\ Goes(j, [j EXCEPT !.over = TRUE])
    /\ UNCHANGED <<table, seen, due, page, rough, acts>>

StreamStarted(j) ==
    /\ j.op = "send" /\ j.at = "out"
    /\ Goes(j, [j EXCEPT !.at = "on"])
    /\ UNCHANGED <<table, seen, due, page, rough, acts>>

Patches == {<<f>> : f \in Files} \cup {p \in Files \X Files : p[1] # p[2]}

\* Variant: an end that takes every answer for one of the conversation that is shown.
StreamEndedAnywhere(j) ==
    /\ j.op = "send" /\ j.at = "on" /\ ~ j.over
    /\ \/ page' = [page EXCEPT !.sending = FALSE]
       \/ /\ j.mode = "patch"
          /\ \E p \in Patches : page' = [page EXCEPT !.sending = FALSE, !.proposal = [of |-> j.product, patches |-> p]]
    /\ Goes(j, [j EXCEPT !.at = "timer"])
    /\ UNCHANGED <<table, seen, due, rough, acts>>

\* An end or an error.  Of an answer in patch mode the proposal is taken, if
\* it is one and its message is still in the conversation.
StreamEnded(j) ==
    /\ j.op = "send" /\ j.at = "on" /\ ~ j.over
    /\ \/ page' = [page EXCEPT !.sending = FALSE]
       \/ /\ j.mode = "patch" /\ j.msg \in page.asked
          /\ \E p \in Patches : page' = [page EXCEPT !.sending = FALSE, !.proposal = [of |-> j.product, patches |-> p]]
    /\ Goes(j, [j EXCEPT !.at = "timer"])
    /\ UNCHANGED <<table, seen, due, rough, acts>>

\* Three minutes after the start; the flag goes down whoever raised it.
Timer(j) ==
    /\ j.op = "send" /\ j.at \in {"on", "timer"}
    /\ page' = [page EXCEPT !.sending = FALSE]
    /\ Gone(j) /\ UNCHANGED <<table, seen, due, rough, acts>>

\* A call fails; a patch may always turn out not to fit the file.
Refused(j) ==
    /\ j.at \in {"out", "attach", "read"} /\ (rough \/ (j.op = "apply" /\ j.at = "out"))
    /\ page' = IF j.op = "send" THEN [page EXCEPT !.sending = FALSE, !.asked = @ \ {j.msg}] ELSE page
    /\ Gone(j) /\ UNCHANGED <<table, seen, due, rough, acts>>

------------------------------------------------------------------------------
Init ==
    /\ table = [folder |-> <<There>>, item |-> None,
                homes |-> [p \in Products |-> IF p = First THEN <<1>> ELSE <<>>],
                disk |-> [d \in Folders |-> [f \in Files |-> Original]]]
    /\ seen = [q \in Keys |-> IF q = <<"home", First>> \/ q = <<"item">> THEN 1
                              ELSE IF q = <<"list">> THEN {1} ELSE None]
    /\ due = {<<"home", p>> : p \in Products \ {First}}
    /\ \E i \in BOOLEAN : page = [product |-> First, item |-> i, repo |-> 1, open |-> <<>>,
               active |-> NoFile, sending |-> FALSE, asked |-> {}, proposal |-> NoProposal]
    /\ jobs = {} /\ rough \in BOOLEAN /\ acts = 0

Act ==
    \/ \E p \in Products : ChooseProduct(p) \/ Reenter(p)
    \/ Clear \/ Type \/ Save \/ CreateWorkspace \/ Apply
    \/ \E m \in Modes : Send(m)
    \/ \E id \in RowIds \X Files : ChooseTab(id) \/ CloseTab(id)
    \/ \E f \in Files : OpenFile(f)
    \/ \E d \in Folders : AttachFolder(d)

Serve(j) ==
    \/ FileRead(j) \/ Saved(j) \/ PatchApplied(j) \/ Reread(j) \/ Registered(j) \/ Attached(j)
    \/ Provisioned(j) \/ InvalidatesNext(j) \/ Select(j) \/ StreamOver(j) \/ StreamStarted(j)
    \/ StreamEnded(j) \/ Timer(j) \/ Refused(j)

Next == (Acts /\ Act) \/ (\E j \in jobs : Serve(j)) \/ (\E q \in Keys : Fetch(q))

\* The start of a stream is answered and its timer fires.  That the stream
\* ends is not assumed, nor that its end is heard.
Spec == Init /\ [][Next]_vars
             /\ \A n \in Slots : WF_vars(\E j \in jobs : j.n = n /\ (StreamStarted(j) \/ Timer(j)))

------------------------------------------------------------------------------
(* Properties *)

TypeOK ==
    /\ \A r \in Rows(table) : table.folder[r] \in Folders
    /\ \A p \in Products : \A k \in DOMAIN table.homes[p] : table.homes[p][k] \in Rows(table)
    /\ due \subseteq Keys /\ page.product \in Products /\ page.repo \in {None} \cup Rows(table)
    /\ \A k \in DOMAIN page.open : page.open[k].repo \in Rows(table) /\ page.open[k].file \in Files
    /\ \A j \in jobs : j.at \in {"out", "attach", "read", "fetch", "on", "timer"} /\ j.n \in Slots

\* For a person who waits, a file without the mark of unsaved text is on the
\* disk as it is shown: after saves, patches to files that are open, and
\* folders that serve two products.  Creating a workspace in a folder there is
\* writes its own files without a word; those are left out.
CleanIsSaved ==
    ~ rough /\ Quiet => \A k \in DOMAIN page.open :
        LET o == page.open[k]
        IN  o.dirty \/ o.file \in Seeded \/ o.text = Disk(o.repo, o.file)

\* However the person hurries and however late an answer is, the proposal that
\* can be applied was asked for under the product that is selected.
OwnProposal == page.proposal # NoProposal => page.proposal.of = page.product

\* Whichever calls came or failed in whichever order, none of them half way
\* through creating a workspace, when nothing is under way the workspace that is
\* shown is the one the database has for the product, or for the work item the
\* page was entered with.
OwnWorkspace ==
    {j \in jobs : j.at # "timer"} = {} /\ due \cap Mounted(page) = {} =>
        page.repo = Preferred(page, [q \in Keys |-> Content(table, q)])

\* The copilot never stays busy, although the end of a stream can be missed.
ComesToRest == page.sending ~> ~ page.sending
==============================================================================
