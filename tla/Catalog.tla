-------------------------------- MODULE Catalog --------------------------------
(***************************************************************************)
(* The products page: the catalog of products, the management console of   *)
(* areas, capabilities, features, stories and tasks, the book, and the     *)
(* dialogs that create, edit and remove them.                              *)
(*                                                                         *)
(* A dialog holds a draft of its own; the row it is saved to is whichever  *)
(* is selected in the workspace store when Save is pressed.  Answers fetch *)
(* the invalidated queries again and then move the selection.              *)
(***************************************************************************)
EXTENDS Integers

CONSTANTS
    Ids, Sort,        \* rows, existing or not, and the sort of each
    Start,            \* the parent each row has at the start, or Nobody
    Nobody, MaxActs

Nodes == {"area", "capability", "feature"}
Kinds == {"product", "area", "capability", "story", "task"}     \* of dialogs
KindOf(i) == IF Sort[i] = "feature" THEN "capability" ELSE Sort[i]
Removals == {"product", "plan", "node", "item"}
Tabs == {"list", "status", "overview", "design", "dependencies"}
Consoles == {"areas", "capabilities", "features", "work_items"}
Top == "top"          \* the parent of a product
Of(s) == {i \in Ids : Sort[i] = s}

List == <<"products", Top>>
Keys == {List} \cup ({"tree", "book"} \X Of("product"))
               \cup ({"stories"} \X Of("feature")) \cup ({"tasks"} \X Of("story"))
NoDependency == [from |-> Nobody, on |-> Nobody, onCap |-> Nobody]
Slots == 1 .. 2       \* bound on the calls under way

VARIABLES
    table,    \* the database: the parent of each row, Nobody without a row
    seen,     \* what each query answered last: rows with their parents
    due,      \* queries never fetched or invalidated
    page,     \* tabs, route, workspace store, dialogs and their drafts
    jobs,     \* mutations under way
    log,      \* what the dialogs were opened for, the ids ever used
    rough,    \* FALSE: the person waits until nothing is under way
    acts

vars == <<table, seen, due, page, jobs, log, rough, acts>>

------------------------------------------------------------------------------
(* Rows and queries *)

Up(tb, i) == IF i \in Ids THEN tb[i] ELSE Nobody
Above(tb, i) == {Up(tb, i), Up(tb, Up(tb, i)), Up(tb, Up(tb, Up(tb, i)))}
Rows(tb, S) == {<<i, tb[i]>> : i \in {k \in S : tb[k] # Nobody}}

Content(tb, q) ==
    CASE q[1] = "products" -> Rows(tb, Of("product"))
      [] q[1] = "tree" -> Rows(tb, {i \in Ids : Sort[i] \in Nodes /\ q[2] \in Above(tb, i)})
      [] q[1] = "book" -> Rows(tb, {i \in Of("area") : tb[i] = q[2]})
      [] OTHER -> Rows(tb, {i \in Ids : tb[i] = q[2] /\ Sort[i] \in {"story", "task"}})

Found(rs) == {r[1] : r \in rs}
Under(rs, i) == (CHOOSE r \in rs : r[1] = i)[2]
Answer(sn, name, i) == IF i = Nobody THEN {} ELSE sn[<<name, i>>]

First(S) == IF S = {} THEN Nobody ELSE CHOOSE i \in S : TRUE
Pick(i, S) == IF i \in S THEN i ELSE First(S)

------------------------------------------------------------------------------
(* What the page derives from the store and the queries *)

Product(pg, sn) == Pick(pg.store.product, Found(sn[List]))
Tree(pg, sn) == Answer(sn, "tree", Product(pg, sn))
Listed(pg, sn, s) == {i \in Found(Tree(pg, sn)) : Sort[i] = s}

\* selectedProductArea, selectedCapability: nothing when the tree has no such node.
Area(pg, sn) == IF pg.store.area \in Found(Tree(pg, sn)) THEN pg.store.area ELSE Nobody
Capability(pg, sn) == IF pg.store.cap \in Found(Tree(pg, sn)) THEN pg.store.cap ELSE Nobody

ShownArea(pg, sn) == Pick(pg.store.area, Listed(pg, sn, "area"))
Beneath(pg, sn, s, n) == {i \in Listed(pg, sn, s) : Under(Tree(pg, sn), i) = n}

ShownCapability(pg, sn) ==
    LET all == Beneath(pg, sn, "capability", ShownArea(pg, sn))
        cap == Capability(pg, sn)
        parent == IF cap = Nobody THEN Nobody ELSE Under(Tree(pg, sn), cap)
    IN  IF pg.store.cap \in all THEN pg.store.cap ELSE Pick(parent, all)

ShownFeature(pg, sn) == Pick(pg.store.cap, Listed(pg, sn, "feature"))
Stories(pg, sn) == Found(Answer(sn, "stories", ShownFeature(pg, sn)))
ShownStory(pg, sn) ==
    IF pg.story \in Stories(pg, sn) THEN pg.story ELSE Pick(pg.store.work, Stories(pg, sn))
Tasks(pg, sn) == Found(Answer(sn, "tasks", ShownStory(pg, sn)))

\* The queries the tabs enable.
Mounted(pg, sn) ==
    {List}
    \cup {<<"tree", i>> : i \in {p \in Found(sn[List]) :
             \/ pg.tab \in {"status", "dependencies"}
             \/ pg.tab = "design" /\ p = Product(pg, sn)}}
    \cup {<<"book", p>> : p \in {p \in {Product(pg, sn)} \ {Nobody} : pg.tab = "overview"}}
    \cup {<<"stories", f>> : f \in {f \in {ShownFeature(pg, sn)} \ {Nobody} :
             pg.tab = "design" /\ pg.console = "work_items"}}
    \cup {<<"tasks", s>> : s \in {ShownStory(pg, sn)} \ {Nobody}}

\* The setters of the workspace store.
SetProduct(pg, p) ==
    [pg EXCEPT !.store = [product |-> p, area |-> Nobody, cap |-> Nobody, work |-> Nobody]]
SetArea(pg, a) == [pg EXCEPT !.store.area = a, !.store.cap = Nobody, !.store.work = Nobody]
SetCapability(pg, c) == [pg EXCEPT !.store.cap = c, !.store.work = Nobody]
SetNode(pg, a, c) ==
    [pg EXCEPT !.store.area = a, !.store.cap = c, !.store.work = Nobody]

\* The page after a rendering and its effects: the store follows the product
\* that is shown, a changed selection drops the work item and the story, and
\* the drafts of open edit dialogs are seeded from a changed selection.
Rendered(pg, sn) ==
    LET new == IF pg.store.product # Product(pg, sn) THEN SetProduct(pg, Product(pg, sn)) ELSE pg
        moved == <<Product(new, sn), new.store.area, new.store.cap>>
                     # <<Product(page, seen), page.store.area, page.store.cap>>
        other == <<ShownFeature(new, sn), Product(new, sn), new.console>>
                     # <<ShownFeature(page, seen), Product(page, seen), page.console>>
        seed(k, i, before) == IF i # Nobody /\ <<new.dlg[k], i>> # <<page.dlg[k], before>>
                              THEN i ELSE new.draft[k]
    IN  [new EXCEPT
           !.store.work = IF moved THEN Nobody ELSE @,
           !.story = IF other THEN Nobody ELSE @,
           !.draft["product"] = IF Product(new, sn) \notin {Nobody, Product(page, seen)}
                                THEN Product(new, sn) ELSE @,
           !.draft["area"] = IF new.dlg["area"] = "edit"
                             THEN seed("area", Area(new, sn), Area(page, seen)) ELSE @,
           !.draft["capability"] = IF new.dlg["capability"] = "edit"
                             THEN seed("capability", Capability(new, sn), Capability(page, seen))
                             ELSE @]

\* The route of one product: another page is mounted, with forms of its own,
\* when the list was shown; and the product of the route becomes active, with
\* nothing selected in it, when it changes.
Routed(pg, p) ==
    LET fresh == [pg EXCEPT !.tab = "design", !.console = "areas", !.story = Nobody,
                            !.draft = [k \in Kinds |-> Nobody], !.editing = [k \in Kinds |-> Nobody],
                            !.ask = [r \in Removals |-> Nobody], !.dep = NoDependency]
        shown == IF pg.route = Nobody THEN fresh ELSE pg
        seeded == Rendered(shown, seen)
        moved == IF pg.route = p THEN seeded ELSE SetProduct(seeded, p)
    IN  [moved EXCEPT !.route = p,
                      !.draft["product"] = IF pg.route = Nobody THEN p ELSE @]

------------------------------------------------------------------------------
(* The person.  A dialog covers the page. *)

Modal == \/ \E k \in Kinds : page.dlg[k] # "closed"
         \/ \E r \in Removals : page.ask[r] # Nobody
Quiet == jobs = {} /\ due \cap Mounted(page, seen) = {}
Acts == acts < MaxActs[rough] /\ (rough \/ Quiet) /\ acts' = acts + 1
OnPage(tabs) == page.tab \in tabs /\ ~ Modal
OnConsole(c) == OnPage({"design"}) /\ page.console = c
Becomes(pg) == page' = Rendered(pg, seen) /\ UNCHANGED <<table, seen, due, jobs, log, rough>>

ChooseTab(t) ==
    /\ OnPage(Tabs \ {t})
    /\ t \in {"list", "status"} \/ Product(page, seen) # Nobody
    /\ Becomes([page EXCEPT !.tab = t])

\* The selector of the product, next to the tabs.
ChooseProduct(p) ==
    /\ OnPage(Tabs) /\ p \in Found(seen[List]) /\ p # Product(page, seen)
    /\ Becomes([SetProduct(page, p) EXCEPT
                  !.tab = IF @ \in {"list", "status"} THEN "overview" ELSE @])

\* openProductOverview, openProductStatus, openProductDependencies
CatalogRows == IF OnPage({"list"}) THEN Found(seen[List]) ELSE {}
OpenProduct(p, t) ==
    /\ p \in CatalogRows /\ t \in {"overview", "status", "dependencies"}
    /\ Becomes([SetProduct(page, p) EXCEPT !.tab = t])

\* openProductDesign
ManageProduct(p) ==
    /\ p \in CatalogRows
    /\ page' = Routed([SetProduct(page, p) EXCEPT !.tab = "design"], p)
    /\ UNCHANGED <<table, seen, due, jobs, log, rough>>

StatusRows(p) ==
    IF OnPage({"status"}) /\ p \in Found(seen[List]) THEN Found(seen[<<"tree", p>>]) ELSE {}
OpenStatusRow(p, i) ==
    /\ i \in StatusRows(p)
    /\ LET parent == Under(seen[<<"tree", p>>], i)
           a == CASE Sort[i] = "area" -> i [] Sort[parent] = "area" -> parent
                  [] OTHER -> Under(seen[<<"tree", p>>], parent)
       IN  Becomes([SetNode(SetProduct(page, p), a, IF Sort[i] = "area" THEN Nobody ELSE i)
                      EXCEPT !.tab = "design"])

ChooseConsole(c) ==
    /\ OnPage({"design"}) /\ Product(page, seen) # Nobody /\ c # page.console
    /\ Becomes([page EXCEPT !.console = c])

\* The area a node of the tree belongs to.
AreaOf(i) ==
    LET up(k) == Under(Tree(page, seen), k)
    IN  CASE Sort[i] = "area" -> i [] Sort[up(i)] = "area" -> up(i) [] OTHER -> up(up(i))
Selecting(i) == SetNode(page, AreaOf(i), IF Sort[i] = "area" THEN Nobody ELSE i)

\* What each tab of the console lists, and the selectors beside the lists.
AreasTab == Listed(page, seen, "area")
CapabilitiesTab == Beneath(page, seen, "capability", ShownArea(page, seen))
FeaturesTab == Beneath(page, seen, "feature", ShownCapability(page, seen))
FeatureSelector == Listed(page, seen, "feature")
StoriesPane == Stories(page, seen)
StoryDetailPane == Tasks(page, seen)

Offered ==
    CASE page.console = "areas" -> AreasTab
      [] page.console = "capabilities" -> CapabilitiesTab
      [] page.console = "features" -> FeaturesTab
      [] page.console = "work_items" -> {}

\* Open an area, a capability, or the stories of a feature.
OpenNode(i) ==
    /\ OnPage({"design"}) /\ i \in Offered
    /\ Becomes([Selecting(i) EXCEPT
                  !.console = CASE Sort[i] = "area" -> "capabilities"
                                [] Sort[i] = "capability" -> "features"
                                [] Sort[i] = "feature" -> "work_items"])

\* The selectors beside the lists: areas, capabilities, features.
SelectNode(i) ==
    /\ \/ OnConsole("capabilities") /\ i \in AreasTab
       \/ OnConsole("features") /\ i \in CapabilitiesTab
       \/ OnConsole("work_items") /\ i \in FeatureSelector
    /\ Becomes([Selecting(i) EXCEPT !.story = IF Sort[i] = "feature" THEN Nobody ELSE @])

SelectStory(s) ==
    /\ OnConsole("work_items") /\ s \in StoriesPane
    /\ Becomes([page EXCEPT !.story = s, !.store.work = s])

\* A dialog opens: for a new row under n, or for the row n.
Opens(pg, k, mode, n) ==
    /\ page' = Rendered([pg EXCEPT !.dlg[k] = mode], seen)
    /\ log' = [log EXCEPT !.goal[k] = n, !.book[k] = FALSE]
    /\ UNCHANGED <<table, seen, due, jobs, rough>>

CreateProduct == OnPage({"list"}) /\ Opens(page, "product", "create", Top)
CreateArea ==
    OnConsole("areas") /\ Opens(page, "area", "create", Product(page, seen))

\* Variant: creating without selecting what is created under.
CreateCapabilityHere(n) ==
    /\ OnConsole("capabilities") /\ n = ShownArea(page, seen) /\ n # Nobody
    /\ Opens(page, "capability", "create", n)

\* openCreateCapabilityForArea, openCreateFeatureForCapability
CreateCapability(n) ==
    /\ \/ OnConsole("capabilities") /\ n = ShownArea(page, seen)
       \/ OnConsole("features") /\ n = ShownCapability(page, seen)
    /\ n # Nobody
    /\ Opens(Selecting(n), "capability", "create", n)

CreateStory ==
    /\ OnConsole("work_items") /\ ShownFeature(page, seen) # Nobody
    /\ Opens([page EXCEPT !.editing["story"] = Nobody], "story", "create", ShownFeature(page, seen))
CreateTask ==
    /\ OnConsole("work_items") /\ ShownStory(page, seen) # Nobody
    /\ Opens([page EXCEPT !.editing["task"] = Nobody], "task", "create", ShownStory(page, seen))

\* editProductFromList
EditProduct(p) ==
    /\ p \in CatalogRows
    /\ Opens([SetProduct(page, p) EXCEPT !.draft["product"] = p], "product", "edit", p)

\* openEditProductArea, openEditCapabilityNode
EditNode(i) ==
    /\ OnPage({"design"}) /\ i \in Offered
    /\ Opens([Selecting(i) EXCEPT !.draft[KindOf(i)] = i], KindOf(i), "edit", i)

\* openEditStoryDialog, openEditTaskDialog
EditItem(i) ==
    /\ OnConsole("work_items") /\ i \in StoriesPane \cup StoryDetailPane
    /\ Opens([page EXCEPT !.editing[Sort[i]] = i, !.draft[Sort[i]] = i], Sort[i], "edit", i)

\* The book: its areas are those of the query, the capabilities of an area and
\* what is below them are loaded when its chapter is opened.
BookAreas == Found(seen[<<"book", Product(page, seen)>>])
AreaChapter(a) == {i \in Ids : Sort[i] \in {"capability", "feature"} /\ a \in Above(table, i)}

\* A row of the book is selected, its dialog opened, and the route of its
\* product entered.
EditRow(pg, i) ==
    /\ page' = Routed([pg EXCEPT !.dlg[KindOf(i)] = "edit"], Product(page, seen))
    /\ log' = [log EXCEPT !.goal[KindOf(i)] = i, !.book[KindOf(i)] = Sort[i] # "product"]
    /\ UNCHANGED <<table, seen, due, jobs, rough>>

OnBook == OnPage({"overview"}) /\ Product(page, seen) # Nobody
OfBook == SetProduct(page, Product(page, seen))
EditBook == OnBook /\ EditRow(OfBook, Product(page, seen))
EditAreaOfBook(a) == OnBook /\ a \in BookAreas /\ EditRow(SetArea(OfBook, a), a)
EditCapabilityOfBook(a, i) ==
    OnBook /\ a \in BookAreas /\ i \in AreaChapter(a) /\ EditRow(SetNode(OfBook, a, i), i)

\* Another page and back: what the products page keeps itself is fresh, the
\* store is what the way out made of it.
Leave(pg) ==
    Becomes([pg EXCEPT !.tab = "list", !.console = "areas", !.route = Nobody, !.story = Nobody,
                       !.draft = [k \in Kinds |-> Nobody], !.editing = [k \in Kinds |-> Nobody],
                       !.dep = NoDependency])

\* planFromItem: to the planner with a node of the book.
PlanFromBook ==
    /\ OnBook
    /\ \/ Leave(OfBook)
       \/ \E a \in BookAreas :
              \/ Leave(SetArea(OfBook, a))
              \/ \E i \in AreaChapter(a) : Leave(SetNode(OfBook, a, i))

\* openFeatureInBuilder, openStoryInBuilder: to the page of the work items.
OpenBuilder ==
    /\ OnConsole("work_items")
    /\ \/ ShownFeature(page, seen) # Nobody /\ Leave(Selecting(ShownFeature(page, seen)))
       \/ \E i \in StoriesPane \cup StoryDetailPane : Leave([page EXCEPT !.store.work = i])

\* The capabilities a dependency may be on, those of the product depended on.
DependencyTargets == {c \in Found(Answer(seen, "tree", page.dep.on)) : Sort[c] # "area"}

\* The product that is depended on; a capability of another is dropped.
DependsOn(p) == [page EXCEPT !.dep.on = p, !.dep.onCap = Nobody]

\* The draft of a dependency stays as it is when another product is chosen.
DraftDependency ==
    /\ OnPage({"dependencies"})
    /\ \/ \E c \in Found(Tree(page, seen)) :
              Sort[c] # "area" /\ Becomes([page EXCEPT !.dep.from = c])
       \/ \E p \in Found(seen[List]) \ {Product(page, seen)} : Becomes(DependsOn(p))
       \/ \E c \in DependencyTargets : Becomes([page EXCEPT !.dep.onCap = c])

\* requestArchiveProduct, requestResetProductPlan, requestDeleteHierarchyNode,
\* requestDeleteWorkItem
Ask(r, i) ==
    /\ CASE r = "product" -> i \in CatalogRows
         [] r = "plan" -> OnConsole("areas") /\ i = Product(page, seen) /\ i # Nobody
         [] r = "node" -> OnPage({"design"}) /\ i \in Offered
         [] r = "item" -> OnConsole("work_items") /\ i \in StoriesPane \cup StoryDetailPane
    /\ Becomes([page EXCEPT !.ask[r] = i])

\* Close, Cancel or a click beside the dialog.
Dismiss ==
    /\ Modal
    /\ \/ \E k \in Kinds : page.dlg[k] # "closed" /\ Becomes([page EXCEPT !.dlg[k] = "closed"])
       \/ \E r \in Removals : page.ask[r] # Nobody /\ Becomes([page EXCEPT !.ask[r] = Nobody])

Pending(ops, k) == \E j \in jobs : j.op \in ops /\ j.kind = k

\* When the dialogs can be saved.  The button of a product, an area or a
\* capability can be pressed again while a save is under way.
Filled(k) == page.dlg[k] = "create" \/ (page.dlg[k] = "edit" /\ page.draft[k] # Nobody)
ProductModal == Filled("product")
AreaModal == Filled("area") /\ Product(page, seen) # Nobody
CapabilityModal == Filled("capability") /\ page.store.area # Nobody
WorkItemModal(k) ==
    /\ Filled(k) /\ ~ Pending({"create", "update"}, k)
    /\ (IF k = "story" THEN ShownFeature(page, seen) ELSE ShownStory(page, seen)) # Nobody

CanSave(k) ==
    CASE k = "product" -> ProductModal
      [] k = "area" -> AreaModal
      [] k = "capability" -> CapabilityModal
      [] OTHER -> WorkItemModal(k)

\* When the removals can be confirmed, the name typed and the boxes ticked.  A
\* plan is reset for the selected product only.
Asked(r) == page.ask[r] # Nobody /\ ~ Pending({"remove"}, r)
DeleteProductModal == Asked("product")
ResetPlanModal == Asked("plan") /\ page.ask["plan"] = Product(page, seen)
DeleteHierarchyModal == Asked("node")
DeleteWorkItemModal == Asked("item")

\* The row an edit is saved to, and the parent of what is created.
Target(k) ==
    CASE k = "product" -> Product(page, seen)
      [] k = "area" -> page.store.area
      [] k = "capability" -> page.store.cap
      [] OTHER -> page.editing[k]
Parent(k) ==
    CASE k = "product" -> Top
      [] k = "area" -> Product(page, seen)
      [] k = "capability" -> IF page.store.cap # Nobody THEN page.store.cap ELSE page.store.area
      [] k = "story" -> ShownFeature(page, seen)
      [] k = "task" -> ShownStory(page, seen)

Free == Slots \ {j.n : j \in jobs}
Begin(j) ==
    /\ Free # {}
    /\ jobs' = jobs \cup {[j EXCEPT !.n = CHOOSE n \in Free : TRUE]}
    /\ UNCHANGED <<table, seen, due, page, rough>>

Job(op, k) ==
    [n |-> 0, op |-> op, kind |-> k, id |-> Nobody, under |-> Nobody, form |-> Nobody,
     goal |-> Nobody, book |-> FALSE, dep |-> NoDependency, shown |-> Nobody, waits |-> {},
     at |-> "out"]

Save(k) ==
    /\ CanSave(k)
    /\ LET job == [Job(IF page.dlg[k] = "edit" THEN "update" ELSE "create", k) EXCEPT
                     !.form = page.draft[k], !.goal = log.goal[k], !.book = log.book[k]]
       IN  Begin(IF job.op = "update" THEN [job EXCEPT !.id = Target(k)]
                                      ELSE [job EXCEPT !.under = Parent(k)])
    /\ UNCHANGED log

Confirm(r) ==
    /\ CASE r = "product" -> DeleteProductModal [] r = "plan" -> ResetPlanModal
         [] r = "node" -> DeleteHierarchyModal [] r = "item" -> DeleteWorkItemModal
    /\ Begin([Job("remove", r) EXCEPT !.id = page.ask[r]])
    /\ UNCHANGED log

\* The row of a dependency: the product selected now, from, on, onCap.
AddDependency ==
    /\ OnPage({"dependencies"}) /\ Product(page, seen) # Nobody /\ page.dep.on # Nobody
    /\ ~ Pending({"depend"}, "product")
    /\ Begin([Job("depend", "product") EXCEPT !.id = Product(page, seen), !.dep = page.dep])
    /\ UNCHANGED log

\* refreshActiveProductPageTab
Refresh ==
    /\ OnPage(Tabs)
    /\ page.tab \in {"list", "status"} \/ Product(page, seen) # Nobody
    /\ due' = due \cup CASE page.tab = "list" -> {List}
                         [] page.tab \in {"status", "dependencies"} ->
                                {q \in Keys : q[1] \in {"products", "tree"}}
                         [] page.tab = "overview" -> {List, <<"book", Product(page, seen)>>}
                         [] page.tab = "design" ->
                                {q \in Mounted(page, seen) : \/ q[1] \in {"products", "tree"}
                                                              \/ page.console = "work_items"}
    /\ UNCHANGED <<table, seen, page, jobs, log, rough>>

------------------------------------------------------------------------------
(* The backend, and what follows an answer *)

\* invalidateHierarchy and invalidateTasks, for the product selected now.  After
\* the reset of a plan both are awaited, one after the other in the code.
HierarchyKeys == {List} \cup {q \in Keys : q[1] \in {"tree", "book"} /\ q[2] = Product(page, seen)}
TaskKeys == {q \in Keys : \/ q[1] = "stories" /\ q[2] \in Listed(page, seen, "feature")
                          \/ q[1] = "tasks"}

\* Variant: invalidating without the queries of the product's tree.
InvalidatesList(j) == IF j.kind \in {"story", "task", "item"} THEN TaskKeys ELSE {List}

Invalidates(j) ==
    CASE j.kind \in {"story", "task", "item"} -> TaskKeys
      [] j.kind = "plan" -> HierarchyKeys \cup TaskKeys
      [] OTHER -> HierarchyKeys

Answered(j, i) ==
    /\ jobs' = (jobs \ {j}) \cup {[j EXCEPT !.at = "fetch", !.id = i, !.shown = Product(page, seen),
                                            !.waits = Invalidates(j) \cap Mounted(page, seen)]}
    /\ due' = due \cup Invalidates(j)

\* create_product, create_product_area, create_capability, create_work_item
Created(j) ==
    /\ j.at = "out" /\ j.op = "create"
    /\ \E i \in Ids :
          /\ KindOf(i) = j.kind /\ i \notin log.used
          /\ j.under = Top \/ Up(table, j.under) # Nobody
          /\ j.kind = "capability" => <<Sort[j.under], Sort[i]>> \in
                {<<"area", "capability">>, <<"capability", "feature">>}
          /\ table' = [table EXCEPT ![i] = j.under]
          /\ log' = [log EXCEPT !.used = @ \cup {i}]
          /\ Answered(j, i)
    /\ UNCHANGED <<seen, page, rough, acts>>

Updated(j) ==
    /\ j.at = "out" /\ j.op = "update" /\ Up(table, j.id) # Nobody
    /\ Answered(j, j.id)
    /\ UNCHANGED <<table, seen, page, log, rough, acts>>

\* archive_product, reset_product_plan, delete_product_area, delete_capability,
\* delete_work_item.  What is below an area goes with it; what is below a
\* capability stays, under the area; stories stay with the node they name, but
\* a plan may be reset with the delivery: with the items of its product.
InPlan(p, i) == i \in Ids /\ Sort[i] \in Nodes /\ p \in Above(table, i)
InDelivery(p, i) == \/ Sort[i] = "story" /\ InPlan(p, Up(table, i))
                    \/ Sort[i] = "task" /\ InPlan(p, Up(table, Up(table, i)))
Left(j, delivery, i) ==
    CASE j.kind = "product" -> IF i = j.id THEN Nobody ELSE table[i]
      [] j.kind = "plan" -> IF InPlan(j.id, i) \/ (delivery /\ InDelivery(j.id, i))
                            THEN Nobody ELSE table[i]
      [] j.kind = "item" -> IF i = j.id \/ table[i] = j.id THEN Nobody ELSE table[i]
      [] j.kind = "node" ->
            IF i = j.id \/ (Sort[j.id] = "area" /\ Sort[i] \in Nodes /\ j.id \in Above(table, i))
            THEN Nobody
            ELSE IF Sort[i] = "feature" /\ table[i] = j.id THEN table[j.id] ELSE table[i]

Removed(j) ==
    /\ j.at = "out" /\ j.op = "remove"
    /\ \E delivery \in BOOLEAN : table' = [i \in Ids |-> Left(j, delivery, i)]
    /\ Answered(j, j.id)
    /\ UNCHANGED <<seen, page, log, rough, acts>>

\* A story goes by several calls: those of its tasks, then its own.  A task that
\* was added meanwhile is left without a story, in no list.
TaskRemoved(j) ==
    /\ j.at = "out" /\ j.op = "remove" /\ j.kind = "item"
    /\ \E i \in Of("task") :
          /\ table[i] = j.id
          /\ table' = [table EXCEPT ![i] = Nobody]
    /\ UNCHANGED <<seen, due, page, jobs, log, rough, acts>>

\* create_product_dependency: rows that exist, and not the product itself; the
\* capability it is from may be another's.  What is recorded is not kept here.
Depended(j) ==
    /\ j.at = "out" /\ j.op = "depend" /\ j.dep.on # j.id
    /\ \A i \in {j.id, j.dep.on, j.dep.from, j.dep.onCap} \ {Nobody} : table[i] # Nobody
    /\ page' = [page EXCEPT !.dep = NoDependency]
    /\ jobs' = jobs \ {j}
    /\ UNCHANGED <<table, seen, due, log, rough, acts>>

\* The row is gone or there is none, a name is taken, the call fails.
Refused(j) ==
    /\ j.at = "out"
    /\ rough \/ j.op \in {"create", "depend"} \/ (j.op = "update" /\ Up(table, j.id) = Nobody)
    /\ jobs' = jobs \ {j}
    /\ UNCHANGED <<table, seen, due, page, log, rough, acts>>

Fetch(q) ==
    /\ q \in due /\ q \in Mounted(page, seen) \cup UNION {j.waits : j \in jobs}
    /\ due' = due \ {q}
    /\ seen' = [seen EXCEPT ![q] = Content(table, q)]
    /\ page' = Rendered(page, seen')
    /\ jobs' = {[j EXCEPT !.waits = @ \ {q}] : j \in jobs}
    /\ UNCHANGED <<table, log, rough, acts>>

\* A fetch that fails ends the wait all the same.
FetchFails(q) ==
    /\ rough /\ \E j \in jobs : q \in j.waits
    /\ jobs' = {[j EXCEPT !.waits = @ \ {q}] : j \in jobs}
    /\ UNCHANGED <<table, seen, due, page, log, rough, acts>>

\* onSuccess, after the queries have been fetched: the selection moves to what
\* was written, and the dialog of that kind closes, whichever is open now.
Follows(j) ==
    IF j.op = "remove"
    THEN LET pg == [page EXCEPT !.ask[j.kind] = Nobody]
         IN  CASE j.kind = "product" -> IF j.shown = j.id THEN SetProduct(pg, Nobody) ELSE pg
               [] j.kind \in {"plan", "node"} -> SetArea(pg, Nobody)
               [] j.kind = "item" -> [pg EXCEPT !.story = Nobody]
    ELSE LET pg == [page EXCEPT !.dlg[j.kind] = "closed",
                                !.editing[j.kind] = IF j.op = "update" THEN Nobody ELSE @]
         IN  CASE j.kind = "product" -> IF j.op = "create" THEN SetProduct(pg, j.id) ELSE pg
               [] j.kind = "area" -> SetArea(pg, j.id)
               [] j.kind = "capability" -> SetCapability(pg, j.id)
               [] j.kind = "story" -> [pg EXCEPT !.story = j.id, !.store.work = j.id]
               [] j.kind = "task" -> pg

Finish(j) ==
    /\ j.at = "fetch" /\ j.waits = {}
    /\ page' = Rendered(Follows(j), seen)
    /\ jobs' = jobs \ {j}
    /\ UNCHANGED <<table, seen, due, log, rough, acts>>

------------------------------------------------------------------------------
Init ==
    /\ table = Start
    /\ seen = [q \in Keys |-> IF q = List THEN Content(Start, q) ELSE {}]
    /\ due = Keys \ {List}
    /\ LET p == First(Found(Content(Start, List)))
       IN  page = [tab |-> "list", console |-> "areas", route |-> Nobody,
                   store |-> [product |-> p, area |-> Nobody, cap |-> Nobody, work |-> Nobody],
                   story |-> Nobody, dlg |-> [k \in Kinds |-> "closed"],
                   draft |-> [k \in Kinds |-> IF k = "product" THEN p ELSE Nobody],
                   editing |-> [k \in Kinds |-> Nobody], ask |-> [r \in Removals |-> Nobody],
                   dep |-> NoDependency]
    /\ jobs = {}
    /\ log = [goal |-> [k \in Kinds |-> Nobody], book |-> [k \in Kinds |-> FALSE],
              used |-> {i \in Ids : Start[i] # Nobody}]
    /\ rough \in BOOLEAN /\ acts = 0

Act ==
    \/ \E t \in Tabs : ChooseTab(t) \/ \E p \in Of("product") : OpenProduct(p, t)
    \/ \E p \in Of("product") : \/ ChooseProduct(p) \/ ManageProduct(p) \/ EditProduct(p)
                                \/ \E i \in Ids : OpenStatusRow(p, i)
    \/ \E c \in Consoles : ChooseConsole(c)
    \/ \E i \in Ids : \/ OpenNode(i) \/ SelectNode(i) \/ SelectStory(i) \/ CreateCapability(i)
                      \/ EditNode(i) \/ EditItem(i) \/ EditAreaOfBook(i)
                      \/ \E a \in Of("area") : EditCapabilityOfBook(a, i)
                      \/ \E r \in Removals : Ask(r, i)
    \/ CreateProduct \/ CreateArea \/ CreateStory \/ CreateTask
    \/ EditBook \/ PlanFromBook \/ OpenBuilder \/ DraftDependency \/ AddDependency
    \/ Dismiss \/ Refresh
    \/ \E k \in Kinds : Save(k)
    \/ \E r \in Removals : Confirm(r)

Next ==
    \/ Acts /\ Act
    \/ \E j \in jobs : \/ Created(j) \/ Updated(j) \/ Removed(j) \/ TaskRemoved(j)
                       \/ Depended(j) \/ Refused(j) \/ Finish(j)
    \/ \E q \in Keys : Fetch(q) \/ FetchFails(q)

Spec == Init /\ [][Next]_vars

------------------------------------------------------------------------------
(* Properties *)

\* Where the rows of each sort are.  The nodes of a product form a tree, all of
\* it there; an area may outlive its product, a story its feature.
Placed(tb, i) ==
    /\ Sort[i] = "product" => tb[i] = Top
    /\ Sort[i] = "area" => tb[i] \in Of("product")
    /\ Sort[i] = "capability" => tb[i] \in Of("area") /\ tb[tb[i]] # Nobody
    /\ Sort[i] = "feature" => tb[i] \in Of("area") \cup Of("capability") /\ tb[tb[i]] # Nobody
    /\ Sort[i] = "story" => tb[i] \in Of("feature")
    /\ Sort[i] = "task" => tb[i] \in Of("story")
Shape(tb) == /\ tb \in [Ids -> Ids \cup {Nobody, Top}]
             /\ \A i \in Ids : tb[i] # Nobody => Placed(tb, i)

TypeOK ==
    /\ Shape(table)
    /\ \A q \in Keys : seen[q] \subseteq Ids \X (Ids \cup {Top})
    /\ due \subseteq Keys
    /\ page.tab \in Tabs /\ page.console \in Consoles
    /\ \A k \in Kinds : page.draft[k] \in Ids \cup {Nobody} /\ page.dlg[k] \in {"closed", "create", "edit"}
    /\ \A j \in jobs : j.at \in {"out", "fetch"} /\ j.waits \subseteq Keys

\* However the person hurries and whatever is answered meanwhile, an edit is
\* saved with the form of the row it is saved to: no row is overwritten with
\* another's text.  Not so for an area or a capability edited from the book.
OwnForm ==
    \A j \in jobs : (j.op = "update" /\ ~ j.book /\ j.id # Nobody) => j.form = j.id

\* For a person who waits, a new row goes under the node its dialog was opened
\* for, although the parent is read from the store when Save is pressed.
UnderOpened == ~ rough => \A j \in jobs : (j.op = "create") => j.under = j.goal

\* For the same person, when nothing is under way the lists and the trees on the
\* screen are those of the database, whichever dialog made the change.
FreshTree == ~ rough /\ Quiet => \A q \in Mounted(page, seen) : seen[q] = Content(table, q)
==============================================================================
