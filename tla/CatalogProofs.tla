---------------------------- MODULE CatalogProofs ----------------------------
(***************************************************************************)
(* What the products page keeps, for every catalog: an invariant of every  *)
(* page, IInv, and what holds besides of one used by a person who waits,   *)
(* Waited.  DeskProofs takes both to the behaviours of Desk.               *)
(***************************************************************************)
EXTENDS Desk, TLAPS

(* Types *)

\* The rows by sort, and what a dialog, a call and the page may hold.
CatPerhaps(S) == S \cup {Nobody}
CatCaps == {i \in RowIds : RowSort[i] \in {"capability", "feature"}}
CatNodeIds == {i \in RowIds : RowSort[i] \in Catalog!Nodes}
CatItemIds == {i \in RowIds : RowSort[i] \in {"story", "task"}}
CatOfKind(k) == {i \in RowIds : Catalog!KindOf(i) = k}
CatRemovable(r) == CASE r = "node" -> CatNodeIds [] r = "item" -> CatItemIds [] OTHER -> Catalog!Of("product")
CatParentsOf(k) == CASE k = "product" -> {Catalog!Top} [] k = "area" -> Catalog!Of("product")
                  [] k = "capability" -> CatNodeIds [] k = "story" -> Catalog!Of("feature")
                  [] k = "task" -> Catalog!Of("story")
CatStoreRec == [product : CatPerhaps(Catalog!Of("product")), area : CatPerhaps(Catalog!Of("area")),
                cap : CatPerhaps(CatCaps), work : CatPerhaps(RowIds)]
CatDepRec == [from : CatPerhaps(CatNodeIds), on : CatPerhaps(Catalog!Of("product")),
              onCap : CatPerhaps(CatNodeIds)]
CatPageBase == [tab : Catalog!Tabs, console : Catalog!Consoles,
                route : CatPerhaps(Catalog!Of("product")), store : CatStoreRec,
                story : CatPerhaps(RowIds), dlg : [Catalog!Kinds -> {"closed", "create", "edit"}],
                draft : [Catalog!Kinds -> CatPerhaps(RowIds)],
                editing : [Catalog!Kinds -> CatPerhaps(RowIds)],
                ask : [Catalog!Removals -> CatPerhaps(RowIds)], dep : CatDepRec]
CatPageRec == {pg \in CatPageBase : /\ \A k \in Catalog!Kinds : pg.editing[k] \in CatPerhaps(CatOfKind(k))
                                    /\ \A r \in Catalog!Removals : pg.ask[r] \in CatPerhaps(CatRemovable(r))}

\* A call: an edit carries the form of its row, but for the book's.
CatJobBase == [n : {0} \cup Catalog!Slots, op : {"create", "update", "remove", "depend"},
               kind : Catalog!Kinds \cup Catalog!Removals, id : CatPerhaps(RowIds),
               under : RowIds \cup {Nobody, Catalog!Top}, form : CatPerhaps(RowIds),
               goal : RowIds \cup {Nobody, Catalog!Top}, book : BOOLEAN, dep : CatDepRec,
               shown : CatPerhaps(Catalog!Of("product")), waits : SUBSET Catalog!Keys,
               at : {"out", "fetch"}]
CatJobRec == {j \in CatJobBase :
              /\ j.op \in {"create", "update"} =>
                     j.kind \in Catalog!Kinds /\ j.id \in CatPerhaps(CatOfKind(j.kind))
                     /\ (j.at = "fetch" => j.id # Nobody)
              /\ j.op = "create" => j.under \in CatParentsOf(j.kind)
              /\ j.op = "remove" => j.kind \in Catalog!Removals /\ j.id \in CatRemovable(j.kind)
              /\ j.op = "depend" => j.id \in Catalog!Of("product") /\ j.at = "out"
              /\ j.op = "update" /\ ~ j.book /\ j.id # Nobody => j.form = j.id
              /\ j.at = "out" => j.waits = {}}

\* What is recorded.
CatLogRec == [goal : [Catalog!Kinds -> RowIds \cup {Nobody, Catalog!Top}],
              book : [Catalog!Kinds -> BOOLEAN], used : SUBSET RowIds]

\* The tree of a product that was fetched: whole, every node under one of it.
CatTreeOK(rs) ==
    /\ \A r \in rs : RowSort[r[1]] \in Catalog!Nodes
    /\ \A r, s \in rs : r[1] = s[1] => r = s
    /\ \A r \in rs : RowSort[r[1]] = "area" => r[2] \in Catalog!Of("product")
    /\ \A r \in rs : RowSort[r[1]] = "capability" => r[2] \in Catalog!Of("area")
    /\ \A r \in rs : RowSort[r[1]] = "feature"
       => r[2] \in Catalog!Of("area") \cup Catalog!Of("capability") /\ r[2] \in Catalog!Found(rs)

\* What a query may have answered.
CatAnswerOK(q, rs) ==
    /\ rs \subseteq RowIds \X (RowIds \cup {Catalog!Top})
    /\ q[1] = "products" => \A r \in rs : RowSort[r[1]] = "product"
    /\ q[1] = "tree" => CatTreeOK(rs)
    /\ q[1] = "book" => \A r \in rs : RowSort[r[1]] = "area"
    /\ q[1] = "stories" => \A r \in rs : RowSort[r[1]] = "story"
    /\ q[1] = "tasks" => \A r \in rs : RowSort[r[1]] = "task"
CatSeenOK(sn) == sn = [q \in Catalog!Keys |-> sn[q]] /\ \A q \in Catalog!Keys : CatAnswerOK(q, sn[q])

\* The product a node is in.
CatProd(tb, i) == IF RowSort[i] = "area" THEN tb[i]
               ELSE IF RowSort[i] = "capability" \/ RowSort[tb[i]] = "area" THEN tb[tb[i]]
               ELSE tb[tb[tb[i]]]

\* A node that was seen in the tree of p is there, if at all.
CatKnown(tb, us, i, p) == i \in us /\ RowSort[i] \in Catalog!Nodes /\ (tb[i] # Nobody
=> CatProd(tb, i) = p)

\* So of every tree that was fetched.
CatTreesKnown(tb, us, sn) == \A p \in Catalog!Of("product") : \A r \in sn[<<"tree", p>>] : CatKnown(tb, us, r[1], p)
CatSettled(tb, lg, sn) ==
    /\ \A i \in RowIds : tb[i] # Nobody => i \in lg.used
    /\ CatTreesKnown(tb, lg.used, sn)

\* The store follows the product that is shown, and a draft the row its dialog
\* is saved to, but for the book's.
CatFormed(pg, sn, lg) ==
    /\ pg.store.product = Catalog!Product(pg, sn)
    /\ Catalog!Product(pg, sn) # Nobody => pg.draft["product"] \in {Nobody, Catalog!Product(pg, sn)}
    /\ pg.dlg["area"] = "edit" /\ ~ lg.book["area"] => pg.store.area \in {Nobody, pg.draft["area"]}
    /\ pg.dlg["capability"] = "edit" /\ ~ lg.book["capability"] =>
           pg.store.cap \in {Nobody, pg.draft["capability"]}
    /\ \A k \in {"story", "task"} : pg.editing[k] # Nobody => pg.draft[k] = pg.editing[k]

\* The invariant, whoever uses the page.
CatTyped == /\ Catalog!Shape(table) /\ CatSeenOK(seen) /\ due \subseteq Catalog!Keys
                 /\ page \in CatPageRec /\ jobs \subseteq CatJobRec
            /\ log \in CatLogRec /\ rough \in BOOLEAN

CatIInv == CatTyped /\ CatSettled(table, log, seen) /\ CatFormed(page, seen, log)

(* For a person who waits *)
\* A removal, or a new row, that is about the product shown.
CatTaskQueries == {"tasks"} \X Catalog!Of("story")
CatHere(i) == CatKnown(table, log.used, i, Catalog!Product(page, seen))
CatFeaturesSeen(p) == \A f \in Catalog!Of("feature") :
                          table[f] # Nobody /\ CatProd(table, f) = p => f \in Catalog!Listed(page, seen, "feature")
CatRemoveIn(r, i) == /\ r = "plan" => i = Catalog!Product(page, seen) /\ CatFeaturesSeen(i)
                     /\ r = "node" => CatHere(i)
                     /\ r = "item" /\ RowSort[i] = "story" /\ table[i] # Nobody =>
                            table[i] \in Catalog!Listed(page, seen, "feature")
CatCreateIn(k, i) == i = Catalog!Parent(k) /\ (k = "capability" => CatHere(i))

\* One dialog is open; the call under way is its own, and what was read when it
\* was opened is still there to be read when Save is pressed.
CatFetching == \E j \in jobs : j.at = "fetch"
CatOneOpen(pg) == /\ \A k, l \in Catalog!Kinds : pg.dlg[k] # "closed" /\ pg.dlg[l] # "closed" => k = l
                  /\ \A r, s \in Catalog!Removals : pg.ask[r] # Nobody /\ pg.ask[s] # Nobody => r = s
                  /\ \A k \in Catalog!Kinds, r \in Catalog!Removals : pg.dlg[k] # "closed"
                     => pg.ask[r] = Nobody
CatPending1(j) ==
    /\ j.op = "create" => j.under = j.goal
    /\ \A k \in Catalog!Kinds : page.dlg[k] # "closed" => j.op \in {"create", "update"} /\ j.kind = k
    /\ \A r \in Catalog!Removals : page.ask[r] # Nobody => j.op = "remove" /\ j.kind = r
    /\ j.at = "out" => /\ due \cap Catalog!Mounted(page, seen) = {}
                       /\ j.op = "create" => CatCreateIn(j.kind, j.under)
                       /\ j.op = "remove" => CatRemoveIn(j.kind, j.id)
CatAimed ==
    /\ \A k \in Catalog!Kinds : page.dlg[k] = "create" => /\ CatCreateIn(k, log.goal[k])
                                                          /\ due \cap Catalog!Mounted(page, seen) \subseteq CatTaskQueries
    /\ \A r \in Catalog!Removals : page.ask[r] # Nobody => /\ CatRemoveIn(r, page.ask[r])
                                                           /\ due \cap Catalog!Mounted(page, seen) = {}

\* What is not due shows what the database has, but for tasks that are removed
\* before their story.
CatMirror(tb, sn, du) == \A q \in Catalog!Keys \ du : sn[q] = Catalog!Content(tb, q)
CatPartly == IF \E j \in jobs : j.at = "out" /\ j.op = "remove" /\ j.kind = "item"
             THEN CatTaskQueries ELSE {}
CatWaited == ~ rough => /\ \A j, k \in jobs : j = k
                        /\ CatMirror(table, seen, due \cup CatPartly)
                        /\ CatOneOpen(page)
                        /\ \A j \in jobs : CatPending1(j)
                        /\ ~ CatFetching => CatAimed

\* What may be due, or not settled, besides.
LEMMA CatMirrorMore ==
    \A tb, sn, du, ds : CatMirror(tb, sn, du) => CatMirror(tb, sn, du \cup ds)
  BY DEF CatMirror
LEMMA CatPartlyNone ==
    ASSUME \A j \in jobs : j.at = "out" => j.op # "remove" PROVE due \cup CatPartly = due
  BY DEF CatPartly

\* The rows, by sort.
LEMMA CatRowFacts ==
    /\ Nobody \notin RowIds /\ Catalog!Top \notin RowIds /\ Nobody # Catalog!Top
    /\ \A i \in RowIds : RowSort[i] \in {"product", "area", "capability", "feature", "story", "task"}
    /\ \A s : Catalog!Of(s) \subseteq RowIds /\ CatNodeIds \subseteq RowIds
       /\ CatItemIds \subseteq RowIds /\ CatCaps \subseteq CatNodeIds
    /\ Catalog!Of("area") \subseteq CatNodeIds /\ Catalog!Of("capability") \subseteq CatCaps
       /\ Catalog!Of("feature") \subseteq CatCaps
    /\ Catalog!Of("story") \subseteq CatItemIds /\ Catalog!Of("task") \subseteq CatItemIds
    /\ \A i \in RowIds : Catalog!KindOf(i) \in Catalog!Kinds
       /\ \A k \in Catalog!Kinds : i \in CatOfKind(k) <=> Catalog!KindOf(i) = k
    /\ CatOfKind("product") = Catalog!Of("product") /\ CatOfKind("area") = Catalog!Of("area")
       /\ CatOfKind("capability") = CatCaps
    /\ CatOfKind("story") = Catalog!Of("story") /\ CatOfKind("task") = Catalog!Of("task")
  BY RowTable DEF Catalog!Of, CatNodeIds, CatItemIds, CatCaps, Catalog!Nodes, Catalog!KindOf,
     Catalog!Kinds, CatOfKind

\* The queries.
LEMMA CatKeyFacts ==
    /\ Catalog!List \in Catalog!Keys /\ Catalog!List[1] = "products"
    /\ \A p \in Catalog!Of("product") : <<"tree", p>> \in Catalog!Keys /\ <<"book", p>> \in Catalog!Keys
    /\ \A f \in Catalog!Of("feature") : <<"stories", f>> \in Catalog!Keys
    /\ \A s \in Catalog!Of("story") : <<"tasks", s>> \in Catalog!Keys
    /\ \A q \in Catalog!Keys : \/ q = Catalog!List
                               \/ q[1] = "tree" /\ q[2] \in Catalog!Of("product")
                                  /\ q = <<"tree", q[2]>>
                               \/ q[1] = "book" /\ q[2] \in Catalog!Of("product")
                                  /\ q = <<"book", q[2]>>
                               \/ q[1] = "stories" /\ q[2] \in Catalog!Of("feature")
                                  /\ q = <<"stories", q[2]>>
                               \/ q[1] = "tasks" /\ q[2] \in Catalog!Of("story")
                                  /\ q = <<"tasks", q[2]>>
  BY DEF Catalog!Keys, Catalog!List

\* A node is in one product.
LEMMA CatAboveProd ==
    ASSUME NEW tb, Catalog!Shape(tb), NEW i \in CatNodeIds, tb[i] # Nobody
    PROVE  /\ CatProd(tb, i) \in Catalog!Of("product")
           /\ \A p \in Catalog!Of("product") : p \in Catalog!Above(tb, i) <=> p = CatProd(tb, i)
           /\ RowSort[i] \in {"capability", "feature"} => tb[i] \in CatNodeIds
              /\ CatProd(tb, tb[i]) = CatProd(tb, i)
           /\ \A a \in Catalog!Of("area") : a \in Catalog!Above(tb, i) => tb[a] # Nobody
              /\ CatProd(tb, a) = CatProd(tb, i)
<1>1. i \in RowIds /\ RowSort[i] \in {"area", "capability", "feature"}
      /\ tb \in [RowIds -> RowIds \cup {Nobody, Catalog!Top}]
  BY DEF CatNodeIds, Catalog!Nodes, Catalog!Shape
<1>2. \A x \in RowIds : tb[x] # Nobody => Catalog!Placed(tb, x)
  BY DEF Catalog!Shape
<1>3. \A x : Catalog!Up(tb, x) = IF x \in RowIds THEN tb[x] ELSE Nobody
  BY DEF Catalog!Up
<1>4. CASE RowSort[i] = "area"
  <2>1. tb[i] \in Catalog!Of("product") /\ Catalog!Up(tb, i) = tb[i]
        /\ Catalog!Up(tb, tb[i]) \in {Nobody, Catalog!Top} /\ CatProd(tb, i) = tb[i]
    BY <1>1, <1>2, <1>3, <1>4 DEF Catalog!Placed, CatProd, Catalog!Of
  <2>2. Catalog!Up(tb, Catalog!Up(tb, tb[i])) = Nobody
    BY <2>1, <1>3, CatRowFacts
  <2> QED
    BY <1>1, <1>4, <2>1, <2>2, CatRowFacts DEF Catalog!Above, Catalog!Of, Catalog!Nodes
<1>5. CASE RowSort[i] = "capability"
  <2>1. tb[i] \in Catalog!Of("area") /\ tb[tb[i]] # Nobody /\ Catalog!Up(tb, i) = tb[i]
    BY <1>1, <1>2, <1>3, <1>5 DEF Catalog!Placed
  <2>2. tb[tb[i]] \in Catalog!Of("product") /\ Catalog!Up(tb, tb[i]) = tb[tb[i]]
        /\ CatProd(tb, i) = tb[tb[i]]
        /\ CatProd(tb, tb[i]) = tb[tb[i]]
    BY <2>1, <1>2, <1>3, <1>5 DEF Catalog!Placed, Catalog!Of, CatProd
  <2>3. Catalog!Up(tb, tb[tb[i]]) \in {Nobody, Catalog!Top}
    BY <2>2, <1>2, <1>3 DEF Catalog!Placed, Catalog!Of
  <2>4. Catalog!Above(tb, i) = {tb[i], tb[tb[i]], Catalog!Up(tb, tb[tb[i]])}
    BY <2>1, <2>2 DEF Catalog!Above
  <2> QED
    BY <1>1, <1>5, <2>1, <2>2, <2>3, <2>4, CatRowFacts DEF Catalog!Of
<1>6. CASE RowSort[i] = "feature" /\ tb[i] \in Catalog!Of("area")
  <2>1. tb[tb[i]] # Nobody /\ Catalog!Up(tb, i) = tb[i]
    BY <1>1, <1>2, <1>3, <1>6 DEF Catalog!Placed
  <2>2. tb[tb[i]] \in Catalog!Of("product") /\ Catalog!Up(tb, tb[i]) = tb[tb[i]]
        /\ CatProd(tb, i) = tb[tb[i]]
        /\ CatProd(tb, tb[i]) = tb[tb[i]]
    BY <2>1, <1>2, <1>3, <1>6 DEF Catalog!Placed, Catalog!Of, CatProd
  <2>3. Catalog!Up(tb, tb[tb[i]]) \in {Nobody, Catalog!Top}
    BY <2>2, <1>2, <1>3 DEF Catalog!Placed, Catalog!Of
  <2>4. Catalog!Above(tb, i) = {tb[i], tb[tb[i]], Catalog!Up(tb, tb[tb[i]])}
    BY <2>1, <2>2 DEF Catalog!Above
  <2> QED
    BY <1>1, <1>6, <2>1, <2>2, <2>3, <2>4, CatRowFacts DEF Catalog!Of
<1>7. CASE RowSort[i] = "feature" /\ tb[i] \in Catalog!Of("capability")
  <2>1. tb[tb[i]] # Nobody /\ Catalog!Up(tb, i) = tb[i] /\ RowSort[tb[i]] = "capability"
    BY <1>1, <1>2, <1>3, <1>7 DEF Catalog!Placed, Catalog!Of
  <2>2. tb[tb[i]] \in Catalog!Of("area") /\ tb[tb[tb[i]]] # Nobody /\ Catalog!Up(tb, tb[i]) = tb[tb[i]]
    BY <2>1, <1>2, <1>3, <1>7 DEF Catalog!Placed, Catalog!Of
  <2>3. tb[tb[tb[i]]] \in Catalog!Of("product") /\ Catalog!Up(tb, tb[tb[i]]) = tb[tb[tb[i]]]
    BY <2>2, <1>2, <1>3 DEF Catalog!Placed, Catalog!Of
  <2>4. Catalog!Above(tb, i) = {tb[i], tb[tb[i]], tb[tb[tb[i]]]}
    BY <2>1, <2>2, <2>3 DEF Catalog!Above
  <2>5. CatProd(tb, i) = tb[tb[tb[i]]] /\ CatProd(tb, tb[i]) = tb[tb[tb[i]]]
        /\ CatProd(tb, tb[tb[i]]) = tb[tb[tb[i]]]
    BY <1>7, <2>1, <2>2 DEF CatProd, Catalog!Of
  <2> QED
    BY <1>1, <1>7, <2>1, <2>2, <2>3, <2>4, <2>5, CatRowFacts DEF Catalog!Of
<1> QED
  BY <1>1, <1>2, <1>4, <1>5, <1>6, <1>7 DEF Catalog!Placed

\* The tree of a product is made of the nodes that are in it.
LEMMA CatContentTree ==
    ASSUME NEW tb, Catalog!Shape(tb), NEW p \in Catalog!Of("product")
    PROVE  Catalog!Content(tb, <<"tree", p>>) =
               {<<i, tb[i]>> : i \in {k \in CatNodeIds : tb[k] # Nobody /\ CatProd(tb, k) = p}}
<1>1. Catalog!Content(tb, <<"tree", p>>) = Catalog!Rows(tb, {i \in RowIds : RowSort[i] \in Catalog!Nodes
      /\ p \in Catalog!Above(tb, i)})
  BY DEF Catalog!Content
<1>2. \A i \in CatNodeIds : tb[i] # Nobody => (p \in Catalog!Above(tb, i) <=> CatProd(tb, i) = p)
  BY CatAboveProd
<1>3. {k \in {i \in RowIds : RowSort[i] \in Catalog!Nodes
      /\ p \in Catalog!Above(tb, i)} : tb[k] # Nobody}
          = {k \in CatNodeIds : tb[k] # Nobody /\ CatProd(tb, k) = p}
  BY <1>2 DEF CatNodeIds
<1> QED
  BY <1>1, <1>3 DEF Catalog!Rows

\* What the backend answers.
LEMMA CatContentOK ==
    ASSUME NEW tb, Catalog!Shape(tb), NEW q \in Catalog!Keys
    PROVE  CatAnswerOK(q, Catalog!Content(tb, q))
<1>0. \A i \in RowIds : tb[i] # Nobody => Catalog!Placed(tb, i) /\ tb[i] \in RowIds \cup {Catalog!Top}
  BY DEF Catalog!Shape
<1>1. CASE q = Catalog!List
  <2>1. Catalog!Content(tb, q) = {<<i, tb[i]>> : i \in {k \in Catalog!Of("product") : tb[k] # Nobody}}
    BY <1>1, CatKeyFacts DEF Catalog!Content, Catalog!Rows
  <2> QED
    BY <1>0, <1>1, <2>1, CatKeyFacts DEF CatAnswerOK, Catalog!Of
<1>2. CASE q[1] = "tree" /\ q[2] \in Catalog!Of("product") /\ q = <<"tree", q[2]>>
  <2> DEFINE p == q[2]
             In == {k \in CatNodeIds : tb[k] # Nobody /\ CatProd(tb, k) = p}
             rs == {<<i, tb[i]>> : i \in In}
  <2>1. Catalog!Content(tb, q) = rs
    BY <1>2, CatContentTree
  <2>3. \A i \in In : RowSort[i] \in Catalog!Nodes /\ tb[i] \in RowIds \cup {Catalog!Top}
        /\ i \in RowIds /\ Catalog!Placed(tb, i)
    BY <1>0 DEF CatNodeIds
  <2>4. \A i \in In : RowSort[i] = "feature" => tb[i] \in In
    <3> SUFFICES ASSUME NEW i \in In, RowSort[i] = "feature" PROVE tb[i] \in In
      OBVIOUS
    <3>1. tb[i] \in CatNodeIds /\ CatProd(tb, tb[i]) = CatProd(tb, i)
      BY CatAboveProd
    <3>2. tb[tb[i]] # Nobody
      BY <2>3 DEF Catalog!Placed
    <3> QED
      BY <3>1, <3>2
  <2>5. \A r \in rs : \E i \in In : r = <<i, tb[i]>> /\ r[1] = i /\ r[2] = tb[i]
    OBVIOUS
  <2>8. \A i \in In : <<i, tb[i]>> \in rs /\ <<i, tb[i]>>[1] = i
    OBVIOUS
  <2> HIDE DEF In, rs
  <2>2. Catalog!Found(rs) = In
    <3>1. ASSUME NEW i \in In PROVE i \in Catalog!Found(rs)
      BY <2>8 DEF Catalog!Found
    <3>2. ASSUME NEW i \in Catalog!Found(rs) PROVE i \in In
      BY <2>5 DEF Catalog!Found
    <3> QED
      BY <3>1, <3>2
  <2>6. CatTreeOK(rs)
    BY <2>2, <2>3, <2>4, <2>5 DEF CatTreeOK, Catalog!Placed
  <2>7. rs \subseteq RowIds \X (RowIds \cup {Catalog!Top})
    BY <2>3, <2>5
  <2> QED
    BY <1>2, <2>1, <2>6, <2>7 DEF CatAnswerOK
<1>3. CASE q[1] = "book" /\ q[2] \in Catalog!Of("product") /\ q = <<"book", q[2]>>
  <2>1. Catalog!Content(tb, q) = {<<i, tb[i]>> : i \in {k \in {i \in Catalog!Of("area") : tb[i] = q[2]} : tb[k] # Nobody}}
    BY <1>3 DEF Catalog!Content, Catalog!Rows
  <2> QED
    BY <1>0, <1>3, <2>1 DEF CatAnswerOK, Catalog!Of
<1>4. CASE \/ q[1] = "stories" /\ q[2] \in Catalog!Of("feature") /\ q = <<"stories", q[2]>>
           \/ q[1] = "tasks" /\ q[2] \in Catalog!Of("story") /\ q = <<"tasks", q[2]>>
  <2> DEFINE S == {i \in RowIds : tb[i] = q[2] /\ RowSort[i] \in {"story", "task"}}
  <2>1. Catalog!Content(tb, q) = {<<i, tb[i]>> : i \in {k \in S : tb[k] # Nobody}}
    BY <1>4 DEF Catalog!Content, Catalog!Rows
  <2>2. \A i \in S : tb[i] # Nobody => RowSort[i] = IF q[1] = "stories" THEN "story" ELSE "task"
    BY <1>0, <1>4 DEF Catalog!Placed, Catalog!Of
  <2> HIDE DEF S
  <2>3. \A r \in Catalog!Content(tb, q) : \E i \in S : r = <<i, tb[i]>> /\ r[1] = i /\ tb[i] # Nobody
    BY <2>1
  <2>4. S \subseteq RowIds
    BY DEF S
  <2> QED
    BY <1>0, <1>4, <2>2, <2>3, <2>4 DEF CatAnswerOK
<1> QED
  BY <1>1, <1>2, <1>3, <1>4, CatKeyFacts

\* A selection falls back on one of what is listed.
LEMMA CatPickIn ==
    ASSUME NEW S, NEW i
    PROVE  /\ Catalog!Pick(i, S) \in S \cup {Nobody} /\ (i \in S => Catalog!Pick(i, S) = i)
           /\ (S # {} => Catalog!Pick(i, S) \in S) /\ (S = {} => Catalog!Pick(i, S) = Nobody)
  BY DEF Catalog!Pick, Catalog!First

\* What was answered, by sort.
LEMMA CatAnswersTyped ==
    ASSUME NEW sn, CatSeenOK(sn)
    PROVE  /\ Catalog!Found(sn[Catalog!List]) \subseteq Catalog!Of("product")
           /\ \A p \in CatPerhaps(Catalog!Of("product")) :
                  /\ Catalog!Found(Catalog!Answer(sn, "tree", p)) \subseteq CatNodeIds
                     /\ CatTreeOK(Catalog!Answer(sn, "tree", p))
                  /\ Catalog!Found(Catalog!Answer(sn, "book", p)) \subseteq Catalog!Of("area")
           /\ \A f \in CatPerhaps(Catalog!Of("feature")) : Catalog!Found(Catalog!Answer(sn, "stories", f)) \subseteq Catalog!Of("story")
           /\ \A s \in CatPerhaps(Catalog!Of("story")) : Catalog!Found(Catalog!Answer(sn, "tasks", s)) \subseteq Catalog!Of("task")
<1>1. \A q \in Catalog!Keys : CatAnswerOK(q, sn[q])
  BY DEF CatSeenOK
<1>2. CatTreeOK({}) /\ Catalog!Found({}) = {}
  BY DEF CatTreeOK, Catalog!Found
<1>3. Catalog!Found(sn[Catalog!List]) \subseteq Catalog!Of("product")
  BY <1>1, CatKeyFacts DEF CatAnswerOK, Catalog!Found, Catalog!Of
<1>4. ASSUME NEW p \in Catalog!Of("product")
      PROVE  /\ Catalog!Found(sn[<<"tree", p>>]) \subseteq CatNodeIds /\ CatTreeOK(sn[<<"tree", p>>])
             /\ Catalog!Found(sn[<<"book", p>>]) \subseteq Catalog!Of("area")
  <2>1. CatAnswerOK(<<"tree", p>>, sn[<<"tree", p>>]) /\ CatAnswerOK(<<"book", p>>, sn[<<"book", p>>])
    BY <1>1, CatKeyFacts
  <2> QED
    BY <2>1 DEF CatAnswerOK, CatTreeOK, Catalog!Found, Catalog!Of, CatNodeIds
<1>5. ASSUME NEW f \in Catalog!Of("feature")
      PROVE  Catalog!Found(sn[<<"stories", f>>]) \subseteq Catalog!Of("story")
  <2>1. CatAnswerOK(<<"stories", f>>, sn[<<"stories", f>>])
    BY <1>1, CatKeyFacts
  <2> QED
    BY <2>1 DEF CatAnswerOK, Catalog!Found, Catalog!Of
<1>6. ASSUME NEW s \in Catalog!Of("story")
      PROVE  Catalog!Found(sn[<<"tasks", s>>]) \subseteq Catalog!Of("task")
  <2>1. CatAnswerOK(<<"tasks", s>>, sn[<<"tasks", s>>])
    BY <1>1, CatKeyFacts
  <2> QED
    BY <2>1 DEF CatAnswerOK, Catalog!Found, Catalog!Of
<1>7. \A x, s : Catalog!Answer(sn, x, s) = IF s = Nobody THEN {} ELSE sn[<<x, s>>]
  BY DEF Catalog!Answer
<1> QED
  BY <1>2, <1>3, <1>4, <1>5, <1>6, <1>7 DEF CatPerhaps

\* What a node of a fetched tree is under.
LEMMA CatUnderOf ==
    ASSUME NEW rs, CatTreeOK(rs), rs \subseteq RowIds \X (RowIds \cup {Catalog!Top}),
           NEW i \in Catalog!Found(rs)
    PROVE  /\ <<i, Catalog!Under(rs, i)>> \in rs
           /\ RowSort[i] = "area" => Catalog!Under(rs, i) \in Catalog!Of("product")
           /\ RowSort[i] = "capability" => Catalog!Under(rs, i) \in Catalog!Of("area")
           /\ RowSort[i] = "feature"
              => Catalog!Under(rs, i) \in Catalog!Of("area") \cup Catalog!Of("capability")
              /\ Catalog!Under(rs, i) \in Catalog!Found(rs)
<1>1. PICK r \in rs : r[1] = i
  BY DEF Catalog!Found
<1> DEFINE u == CHOOSE q \in rs : q[1] = i
<1>2. u \in rs /\ u[1] = i
  BY <1>1
<1>3. u = <<u[1], u[2]>>
  BY <1>2
<1>4. Catalog!Under(rs, i) = u[2]
  BY DEF Catalog!Under
<1> HIDE DEF u
<1> QED
  BY <1>2, <1>3, <1>4 DEF CatTreeOK

\* What the page derives from its store and from what was answered.
LEMMA CatDerivedTyped ==
    ASSUME NEW pg \in CatPageRec, NEW sn, CatSeenOK(sn)
    PROVE  /\ Catalog!Product(pg, sn) \in CatPerhaps(Catalog!Of("product"))
           /\ Catalog!Found(Catalog!Tree(pg, sn)) \subseteq CatNodeIds
              /\ CatTreeOK(Catalog!Tree(pg, sn))
                 /\ Catalog!Tree(pg, sn) \subseteq RowIds \X (RowIds \cup {Catalog!Top})
           /\ \A s : Catalog!Listed(pg, sn, s) \subseteq Catalog!Of(s) \cap Catalog!Found(Catalog!Tree(pg, sn))
           /\ \A s, n : Catalog!Beneath(pg, sn, s, n) \subseteq Catalog!Listed(pg, sn, s)
           /\ Catalog!Area(pg, sn) \in CatPerhaps(Catalog!Of("area"))
              /\ Catalog!Capability(pg, sn) \in CatPerhaps(CatCaps)
           /\ Catalog!Area(pg, sn) \in {Nobody, pg.store.area}
              /\ Catalog!Capability(pg, sn) \in {Nobody, pg.store.cap}
           /\ Catalog!ShownArea(pg, sn) \in CatPerhaps(Catalog!Listed(pg, sn, "area"))
           /\ Catalog!ShownCapability(pg, sn) \in CatPerhaps(Catalog!Listed(pg, sn, "capability"))
           /\ Catalog!ShownFeature(pg, sn) \in CatPerhaps(Catalog!Listed(pg, sn, "feature"))
           /\ Catalog!Stories(pg, sn) \subseteq Catalog!Of("story")
           /\ Catalog!ShownStory(pg, sn) \in CatPerhaps(Catalog!Of("story"))
           /\ Catalog!Tasks(pg, sn) \subseteq Catalog!Of("task")
           /\ Catalog!Mounted(pg, sn) \subseteq Catalog!Keys /\ Catalog!List \in Catalog!Mounted(pg, sn)
<1>0. pg.store \in CatStoreRec
  BY DEF CatPageRec, CatPageBase
<1>1. Catalog!Product(pg, sn) \in CatPerhaps(Catalog!Of("product"))
  BY CatPickIn, CatAnswersTyped DEF Catalog!Product, CatPerhaps
<1>2. Catalog!Found(Catalog!Tree(pg, sn)) \subseteq CatNodeIds /\ CatTreeOK(Catalog!Tree(pg, sn))
  BY <1>1, CatAnswersTyped DEF Catalog!Tree
<1>3. Catalog!Tree(pg, sn) \subseteq RowIds \X (RowIds \cup {Catalog!Top})
  BY <1>1, CatKeyFacts DEF Catalog!Tree, Catalog!Answer, CatSeenOK, CatAnswerOK, CatPerhaps
<1>4. \A s : Catalog!Listed(pg, sn, s) \subseteq Catalog!Of(s) \cap Catalog!Found(Catalog!Tree(pg, sn))
  BY <1>2 DEF Catalog!Listed, Catalog!Of, CatNodeIds
<1>5. \A s, n : Catalog!Beneath(pg, sn, s, n) \subseteq Catalog!Listed(pg, sn, s)
  BY DEF Catalog!Beneath
<1>6. /\ Catalog!Area(pg, sn) \in {Nobody, pg.store.area}
         /\ Catalog!Capability(pg, sn) \in {Nobody, pg.store.cap}
      /\ Catalog!Area(pg, sn) \in CatPerhaps(Catalog!Of("area"))
         /\ Catalog!Capability(pg, sn) \in CatPerhaps(CatCaps)
  BY <1>0 DEF Catalog!Area, Catalog!Capability, CatStoreRec, CatPerhaps
<1>7. Catalog!ShownArea(pg, sn) \in CatPerhaps(Catalog!Listed(pg, sn, "area"))
  BY CatPickIn DEF Catalog!ShownArea, CatPerhaps
<1>8. Catalog!ShownCapability(pg, sn) \in CatPerhaps(Catalog!Listed(pg, sn, "capability"))
  <2> DEFINE all == Catalog!Beneath(pg, sn, "capability", Catalog!ShownArea(pg, sn))
             cap == Catalog!Capability(pg, sn)
             parent == IF cap = Nobody THEN Nobody ELSE Catalog!Under(Catalog!Tree(pg, sn), cap)
  <2>1. Catalog!ShownCapability(pg, sn) = IF pg.store.cap \in all THEN pg.store.cap ELSE Catalog!Pick(parent, all)
    BY DEF Catalog!ShownCapability
  <2> HIDE DEF parent, all
  <2>2. Catalog!ShownCapability(pg, sn) \in all \cup {Nobody}
    BY <2>1, CatPickIn
  <2> QED
    BY <2>2, <1>5 DEF CatPerhaps, all
<1>9. Catalog!ShownFeature(pg, sn) \in CatPerhaps(Catalog!Listed(pg, sn, "feature"))
  BY CatPickIn DEF Catalog!ShownFeature, CatPerhaps
<1>10. Catalog!Stories(pg, sn) \subseteq Catalog!Of("story")
  BY <1>9, <1>4, CatAnswersTyped DEF Catalog!Stories, CatPerhaps
<1>11. Catalog!ShownStory(pg, sn) \in CatPerhaps(Catalog!Of("story"))
  BY <1>10, CatPickIn DEF Catalog!ShownStory, CatPerhaps
<1>12. Catalog!Tasks(pg, sn) \subseteq Catalog!Of("task")
  BY <1>11, CatAnswersTyped DEF Catalog!Tasks
<1>13. Catalog!Mounted(pg, sn) \subseteq Catalog!Keys /\ Catalog!List \in Catalog!Mounted(pg, sn)
  <2>1. Catalog!Found(sn[Catalog!List]) \subseteq Catalog!Of("product")
    BY CatAnswersTyped
  <2>2. Catalog!ShownFeature(pg, sn) \in CatPerhaps(Catalog!Of("feature"))
    BY <1>4, <1>9 DEF CatPerhaps
  <2> QED
    BY <1>1, <2>1, <2>2, <1>11, CatKeyFacts DEF Catalog!Mounted, CatPerhaps
<1> QED
  BY <1>1, <1>2, <1>3, <1>4, <1>5, <1>6, <1>7, <1>8, <1>9, <1>10, <1>11, <1>12, <1>13

\* Pages that differ in the store, perhaps.
CatButStore(new, pg) ==
    /\ new.tab = pg.tab /\ new.console = pg.console /\ new.route = pg.route /\ new.story = pg.story
    /\ new.dlg = pg.dlg /\ new.draft = pg.draft /\ new.editing = pg.editing /\ new.ask = pg.ask
    /\ new.dep = pg.dep
CatStores(pg, p, a, c, w) ==
    pg.store.product = p /\ pg.store.area = a /\ pg.store.cap = c /\ pg.store.work = w

\* The setters of the store.
LEMMA CatSettersTyped ==
    ASSUME NEW pg \in CatPageRec, NEW p \in CatPerhaps(Catalog!Of("product")),
           NEW a \in CatPerhaps(Catalog!Of("area")),
           NEW c \in CatPerhaps(CatCaps)
    PROVE  /\ Catalog!SetProduct(pg, p) \in CatPageRec /\ CatButStore(Catalog!SetProduct(pg, p), pg)
           /\ CatStores(Catalog!SetProduct(pg, p), p, Nobody, Nobody, Nobody)
           /\ Catalog!SetArea(pg, a) \in CatPageRec /\ CatButStore(Catalog!SetArea(pg, a), pg)
           /\ CatStores(Catalog!SetArea(pg, a), pg.store.product, a, Nobody, Nobody)
           /\ Catalog!SetCapability(pg, c) \in CatPageRec
              /\ CatButStore(Catalog!SetCapability(pg, c), pg)
           /\ CatStores(Catalog!SetCapability(pg, c), pg.store.product, pg.store.area, c, Nobody)
           /\ Catalog!SetNode(pg, a, c) \in CatPageRec /\ CatButStore(Catalog!SetNode(pg, a, c), pg)
           /\ CatStores(Catalog!SetNode(pg, a, c), pg.store.product, a, c, Nobody)
<1>1. pg.store \in CatStoreRec /\ pg \in CatPageBase
  BY DEF CatPageRec, CatPageBase
<1>2. pg.store.product \in CatPerhaps(Catalog!Of("product"))
      /\ pg.store.area \in CatPerhaps(Catalog!Of("area"))
  BY <1>1 DEF CatStoreRec
<1>3. Catalog!SetProduct(pg, p) \in CatPageBase /\ CatButStore(Catalog!SetProduct(pg, p), pg)
      /\ CatStores(Catalog!SetProduct(pg, p), p, Nobody, Nobody, Nobody)
  BY <1>1, <1>2 DEF Catalog!SetProduct, CatPageBase, CatStoreRec, CatButStore, CatStores,
     CatPerhaps
<1>4. Catalog!SetArea(pg, a) \in CatPageBase /\ CatButStore(Catalog!SetArea(pg, a), pg)
      /\ CatStores(Catalog!SetArea(pg, a), pg.store.product, a, Nobody, Nobody)
  BY <1>1, <1>2 DEF Catalog!SetArea, CatPageBase, CatStoreRec, CatButStore, CatStores,
     CatPerhaps
<1>5. Catalog!SetCapability(pg, c) \in CatPageBase /\ CatButStore(Catalog!SetCapability(pg, c), pg)
      /\ CatStores(Catalog!SetCapability(pg, c), pg.store.product, pg.store.area, c, Nobody)
  BY <1>1, <1>2 DEF Catalog!SetCapability, CatPageBase, CatStoreRec, CatButStore, CatStores,
     CatPerhaps
<1>6. Catalog!SetNode(pg, a, c) \in CatPageBase /\ CatButStore(Catalog!SetNode(pg, a, c), pg)
      /\ CatStores(Catalog!SetNode(pg, a, c), pg.store.product, a, c, Nobody)
  BY <1>1, <1>2 DEF Catalog!SetNode, CatPageBase, CatStoreRec, CatButStore, CatStores,
     CatPerhaps
<1>7. \A new \in CatPageBase : CatButStore(new, pg) => new \in CatPageRec
  BY DEF CatPageRec, CatButStore
<1> QED
  BY <1>3, <1>4, <1>5, <1>6, <1>7

\* What is derived of two pages that agree, from answers that agree but for the
\* tasks, is the same.
CatAgree(sn, tn) == \A q \in Catalog!Keys \ CatTaskQueries : sn[q] = tn[q]

\* What is derived of two pages that agree, from answers that agree but for the
\* tasks, is the same.
LEMMA CatSameDerived ==
    ASSUME NEW pg \in CatPageRec, NEW new \in CatPageRec, NEW sn, CatSeenOK(sn), NEW tn, CatSeenOK(tn),
           CatAgree(sn, tn),
           new.store.product = pg.store.product
    PROVE  /\ Catalog!Product(new, tn) = Catalog!Product(pg, sn)
                /\ Catalog!Tree(new, tn) = Catalog!Tree(pg, sn)
           /\ \A s : Catalog!Listed(new, tn, s) = Catalog!Listed(pg, sn, s)
           /\ new.store.cap = pg.store.cap
              => Catalog!ShownFeature(new, tn) = Catalog!ShownFeature(pg, sn)
           /\ /\ new.store.cap = pg.store.cap /\ new.store.work = pg.store.work /\ new.story = pg.story
              => Catalog!ShownStory(new, tn) = Catalog!ShownStory(pg, sn)
           /\ /\ new.store.cap = pg.store.cap \/ new.console # "work_items"
              /\ new.tab = pg.tab /\ new.console = pg.console
              => Catalog!Mounted(new, tn) \subseteq Catalog!Mounted(pg, sn) \cup CatTaskQueries
           /\ /\ new.store.cap = pg.store.cap /\ new.store.work = pg.store.work /\ new.story = pg.story
              /\ new.tab = pg.tab /\ new.console = pg.console
              => Catalog!Mounted(new, tn) = Catalog!Mounted(pg, sn)
<1>1. /\ sn[Catalog!List] = tn[Catalog!List]
      /\ \A p \in Catalog!Of("product") : sn[<<"tree", p>>] = tn[<<"tree", p>>]
      /\ \A f \in Catalog!Of("feature") : sn[<<"stories", f>>] = tn[<<"stories", f>>]
  BY CatKeyFacts DEF CatAgree, CatTaskQueries
<1>2. Catalog!Product(new, tn) = Catalog!Product(pg, sn)
  BY <1>1 DEF Catalog!Product
<1>3. Catalog!Tree(new, tn) = Catalog!Tree(pg, sn)
  BY <1>1, <1>2, CatDerivedTyped DEF Catalog!Tree, Catalog!Answer, CatPerhaps
<1>4. \A s : Catalog!Listed(new, tn, s) = Catalog!Listed(pg, sn, s)
  BY <1>3 DEF Catalog!Listed
<1>5. new.store.cap = pg.store.cap => Catalog!ShownFeature(new, tn) = Catalog!ShownFeature(pg, sn)
  BY <1>4 DEF Catalog!ShownFeature
<1>6. new.store.cap = pg.store.cap => Catalog!Stories(new, tn) = Catalog!Stories(pg, sn)
  <2>1. Catalog!ShownFeature(pg, sn) \in CatPerhaps(Catalog!Of("feature"))
    BY CatDerivedTyped DEF CatPerhaps
  <2> QED
    BY <1>1, <1>5, <2>1 DEF Catalog!Stories, Catalog!Answer, CatPerhaps
<1>7. new.store.cap = pg.store.cap /\ new.store.work = pg.store.work /\ new.story = pg.story
      => Catalog!ShownStory(new, tn) = Catalog!ShownStory(pg, sn)
  BY <1>6 DEF Catalog!ShownStory
<1>8. Catalog!ShownStory(new, tn) \in CatPerhaps(Catalog!Of("story"))
  BY CatDerivedTyped
<1>9. new.tab = pg.tab /\ new.console = pg.console /\ (new.store.cap = pg.store.cap
      \/ new.console # "work_items")
      => Catalog!Mounted(new, tn) \subseteq Catalog!Mounted(pg, sn) \cup CatTaskQueries
  BY <1>1, <1>2, <1>5, <1>8 DEF Catalog!Mounted, CatTaskQueries, CatPerhaps
<1>10. /\ new.store.cap = pg.store.cap /\ new.store.work = pg.store.work /\ new.story = pg.story
       /\ new.tab = pg.tab /\ new.console = pg.console
       => Catalog!Mounted(new, tn) = Catalog!Mounted(pg, sn)
  BY <1>1, <1>2, <1>5, <1>7 DEF Catalog!Mounted
<1> QED
  BY <1>2, <1>3, <1>4, <1>5, <1>7, <1>9, <1>10

\* A rendering: what it leaves, what it resets, what it seeds.
LEMMA CatRenderedFacts ==
    ASSUME NEW pg \in CatPageRec, NEW sn, CatSeenOK(sn), page \in CatPageRec, CatSeenOK(seen)
    PROVE  LET R == Catalog!Rendered(pg, sn)
           IN  /\ R \in CatPageRec
               /\ R.tab = pg.tab /\ R.console = pg.console /\ R.route = pg.route /\ R.dlg = pg.dlg
               /\ R.editing = pg.editing /\ R.ask = pg.ask /\ R.dep = pg.dep
               /\ R.store.product = Catalog!Product(pg, sn)
                  /\ Catalog!Product(R, sn) = Catalog!Product(pg, sn)
               /\ R.store.area \in {Nobody, pg.store.area} /\ R.store.cap \in {Nobody, pg.store.cap}
               /\ pg.store.product = Catalog!Product(pg, sn) =>
                      R.store.area = pg.store.area /\ R.store.cap = pg.store.cap
               /\ R.draft["product"] = IF Catalog!Product(pg, sn) \notin {Nobody, Catalog!Product(page, seen)}
                                       THEN Catalog!Product(pg, sn) ELSE pg.draft["product"]
               /\ pg.store.area \in {Nobody, pg.draft["area"]}
                  => R.store.area \in {Nobody, R.draft["area"]}
               /\ pg.store.cap \in {Nobody, pg.draft["capability"]} =>
                      R.store.cap \in {Nobody, R.draft["capability"]}
               /\ \A k \in {"story", "task"} : R.draft[k] = pg.draft[k]
               /\ /\ pg.store = page.store /\ page.store.product = Catalog!Product(page, seen)
                  /\ pg.story = page.story /\ pg.console = page.console /\ CatAgree(seen, sn)
                  => R.store = page.store /\ R.story = page.story
<1> DEFINE new == IF pg.store.product # Catalog!Product(pg, sn) THEN Catalog!SetProduct(pg, Catalog!Product(pg, sn)) ELSE pg
           moved == <<Catalog!Product(new, sn), new.store.area, new.store.cap>>
                        # <<Catalog!Product(page, seen), page.store.area, page.store.cap>>
           other == <<Catalog!ShownFeature(new, sn), Catalog!Product(new, sn), new.console>>
                        # <<Catalog!ShownFeature(page, seen), Catalog!Product(page, seen), page.console>>
           seed(k, i, before) == IF i # Nobody /\ <<new.dlg[k], i>> # <<page.dlg[k], before>>
                                 THEN i ELSE new.draft[k]
           work == IF moved THEN Nobody ELSE new.store.work
           story == IF other THEN Nobody ELSE new.story
           dp == IF Catalog!Product(new, sn) \notin {Nobody, Catalog!Product(page, seen)} THEN Catalog!Product(new, sn) ELSE new.draft["product"]
           da == IF new.dlg["area"] = "edit" THEN seed("area", Catalog!Area(new, sn), Catalog!Area(page, seen)) ELSE new.draft["area"]
           dc == IF new.dlg["capability"] = "edit"
                 THEN seed("capability", Catalog!Capability(new, sn), Catalog!Capability(page, seen)) ELSE new.draft["capability"]
           R == [new EXCEPT !.store.work = work, !.story = story, !.draft["product"] = dp,
                            !.draft["area"] = da, !.draft["capability"] = dc]
<1>0. Catalog!Product(pg, sn) \in CatPerhaps(Catalog!Of("product"))
  BY CatDerivedTyped
<1>1. /\ new \in CatPageRec /\ CatButStore(new, pg) /\ new.store.product = Catalog!Product(pg, sn)
      /\ new.store.area \in {Nobody, pg.store.area} /\ new.store.cap \in {Nobody, pg.store.cap}
      /\ pg.store.product = Catalog!Product(pg, sn) => new = pg
  BY <1>0, CatSettersTyped DEF CatPerhaps, CatButStore, CatStores
<1>2. Catalog!Product(new, sn) = Catalog!Product(pg, sn)
  <2>1. pg.store.product # Catalog!Product(pg, sn)
        => Catalog!Pick(Catalog!Product(pg, sn), Catalog!Found(sn[Catalog!List])) = Catalog!Product(pg, sn)
    BY CatPickIn DEF Catalog!Product
  <2> QED
    BY <1>1, <2>1 DEF Catalog!Product
<1>3. Catalog!Area(new, sn) \in {Nobody, new.store.area}
      /\ Catalog!Capability(new, sn) \in {Nobody, new.store.cap}
      /\ Catalog!Area(new, sn) \in CatPerhaps(RowIds)
         /\ Catalog!Capability(new, sn) \in CatPerhaps(RowIds)
      /\ Catalog!Product(new, sn) \in CatPerhaps(RowIds)
  BY <1>1, CatDerivedTyped, CatRowFacts DEF CatPerhaps
<1>4. Catalog!Rendered(pg, sn) = R
  BY <1>1 DEF Catalog!Rendered
<1>5. work \in CatPerhaps(RowIds) /\ story \in CatPerhaps(RowIds) /\ dp \in CatPerhaps(RowIds)
      /\ da \in CatPerhaps(RowIds)
      /\ dc \in CatPerhaps(RowIds) /\ new \in CatPageBase /\ new.store \in CatStoreRec
  BY <1>1, <1>3 DEF CatPageRec, CatPageBase, CatStoreRec, Catalog!Kinds, CatPerhaps
<1>6. dp = IF Catalog!Product(pg, sn) \notin {Nobody, Catalog!Product(page, seen)} THEN Catalog!Product(pg, sn) ELSE pg.draft["product"]
  BY <1>1, <1>2 DEF CatButStore
<1>7. pg.store.area \in {Nobody, pg.draft["area"]} => new.store.area \in {Nobody, da}
  BY <1>1, <1>3 DEF CatButStore
<1>8. pg.store.cap \in {Nobody, pg.draft["capability"]} => new.store.cap \in {Nobody, dc}
  BY <1>1, <1>3 DEF CatButStore
<1>9. /\ pg.store = page.store /\ page.store.product = Catalog!Product(page, seen)
      /\ pg.story = page.story /\ pg.console = page.console /\ CatAgree(seen, sn)
      => work = page.store.work /\ story = page.story /\ new = pg
  <2> SUFFICES ASSUME pg.store = page.store, page.store.product = Catalog!Product(page, seen),
                      pg.story = page.story, pg.console = page.console, CatAgree(seen, sn)
               PROVE  work = page.store.work /\ story = page.story /\ new = pg
    OBVIOUS
  <2>1. Catalog!Product(pg, sn) = Catalog!Product(page, seen)
        /\ Catalog!ShownFeature(pg, sn) = Catalog!ShownFeature(page, seen)
    BY CatSameDerived
  <2> QED
    BY <1>1, <2>1
<1> HIDE DEF work, story, dp, da, dc, new
<1>10. R \in CatPageBase /\ CatButStore([R EXCEPT !.store = new.store, !.story = new.story, !.draft = new.draft], new)
  BY <1>5 DEF CatPageBase, CatStoreRec, Catalog!Kinds, CatButStore, CatPerhaps
<1>11. /\ R.tab = new.tab /\ R.console = new.console /\ R.route = new.route /\ R.dlg = new.dlg
       /\ R.editing = new.editing /\ R.ask = new.ask /\ R.dep = new.dep /\ R.story = story
       /\ R.store.product = new.store.product /\ R.store.area = new.store.area
       /\ R.store.cap = new.store.cap /\ R.store.work = work
       /\ R.draft["product"] = dp /\ R.draft["area"] = da /\ R.draft["capability"] = dc
       /\ \A k \in {"story", "task"} : R.draft[k] = new.draft[k]
       /\ work = new.store.work => R.store = new.store
  BY <1>5 DEF CatPageBase, CatStoreRec, Catalog!Kinds
<1>12. R \in CatPageRec
  BY <1>1, <1>10, <1>11 DEF CatPageRec
<1>13. Catalog!Product(R, sn) = Catalog!Product(new, sn)
  BY <1>11 DEF Catalog!Product
<1> HIDE DEF R
<1> QED
  BY <1>1, <1>2, <1>4, <1>6, <1>7, <1>8, <1>9, <1>11, <1>12, <1>13 DEF CatButStore

CatClosed(pg) == (\A k \in Catalog!Kinds : pg.dlg[k] = "closed")
/\ \A r \in Catalog!Removals : pg.ask[r] = Nobody
CatIdle == rough \/ Catalog!Quiet
CatBoth == CatIInv /\ CatWaited

\* The page as it is opened.
LEMMA CatInitKeeps == Catalog!Init => CatBoth
<1> SUFFICES ASSUME Catalog!Init PROVE CatBoth
  OBVIOUS
<1> DEFINE rows == Catalog!Content(StartRows, Catalog!List)
           p == Catalog!First(Catalog!Found(rows))
<1>1. Catalog!Shape(StartRows) /\ table = StartRows
  BY RowTable DEF Catalog!Init
<1>2. \A q \in Catalog!Keys : CatAnswerOK(q, {})
  BY DEF CatAnswerOK, CatTreeOK, Catalog!Found
<1>3. CatSeenOK(seen) /\ seen[Catalog!List] = rows
      /\ \A q \in Catalog!Keys \ {Catalog!List} : seen[q] = {}
  <2>1. seen = [q \in Catalog!Keys |-> IF q = Catalog!List THEN Catalog!Content(StartRows, q) ELSE {}]
    BY DEF Catalog!Init
  <2> QED
    BY <1>1, <1>2, <2>1, CatContentOK, CatKeyFacts DEF CatSeenOK
<1>4. Catalog!Found(rows) \subseteq Catalog!Of("product") /\ p \in CatPerhaps(Catalog!Of("product"))
  BY <1>3, CatAnswersTyped DEF Catalog!First, CatPerhaps
<1>5. page = [tab |-> "list", console |-> "areas", route |-> Nobody,
              store |-> [product |-> p, area |-> Nobody, cap |-> Nobody, work |-> Nobody],
              story |-> Nobody, dlg |-> [k \in Catalog!Kinds |-> "closed"],
              draft |-> [k \in Catalog!Kinds |-> IF k = "product" THEN p ELSE Nobody],
              editing |-> [k \in Catalog!Kinds |-> Nobody], ask |-> [r \in Catalog!Removals |-> Nobody],
              dep |-> Catalog!NoDependency]
  BY <1>3 DEF Catalog!Init
<1>6. Catalog!Product(page, seen) = p
  <2>1. page.store.product = p
    BY <1>5
  <2> QED
    BY <1>3, <2>1, CatPickIn DEF Catalog!Product, Catalog!First
<1> HIDE DEF p
<1>7. page \in CatPageRec
  <2>1. p \in CatPerhaps(RowIds)
    BY <1>4, CatRowFacts DEF CatPerhaps
  <2> QED
    BY <1>4, <1>5, <2>1 DEF CatPageRec, CatPageBase, CatStoreRec, CatDepRec,
       Catalog!NoDependency, CatPerhaps, Catalog!Tabs, Catalog!Consoles
<1>8. CatClosed(page) /\ page.store.product = p /\ page.dep = Catalog!NoDependency
      /\ page.draft["product"] = p
      /\ \A k \in Catalog!Kinds : page.editing[k] = Nobody
  BY <1>5 DEF CatClosed, Catalog!Kinds
<1>9. CatFormed(page, seen, log)
  BY <1>6, <1>8 DEF CatFormed, CatClosed, Catalog!Kinds
<1>10. jobs = {} /\ rough \in BOOLEAN /\ due = Catalog!Keys \ {Catalog!List} /\ log \in CatLogRec
       /\ log.used = {i \in RowIds : StartRows[i] # Nobody}
  BY DEF Catalog!Init, CatLogRec, CatPerhaps
<1>11. CatSettled(table, log, seen)
  <2>1. \A q \in Catalog!Of("product") : seen[<<"tree", q>>] = {}
    <3>1. \A q \in Catalog!Of("product") : <<"tree", q>> \in Catalog!Keys \ {Catalog!List}
      BY CatKeyFacts DEF Catalog!List
    <3> QED
      BY <1>3, <3>1
  <2>2. CatTreesKnown(table, log.used, seen)
    BY <2>1 DEF CatTreesKnown
  <2>3. \A i \in RowIds : table[i] # Nobody => i \in log.used
    BY <1>1, <1>10
  <2> QED
    BY <1>10, <2>2, <2>3 DEF CatSettled
<1>12. CatIInv
  BY <1>1, <1>3, <1>7, <1>9, <1>10, <1>11 DEF CatIInv, CatTyped
<1>13. CatWaited
  BY <1>1, <1>3, <1>8, <1>10, CatKeyFacts DEF CatWaited, CatMirror, CatPartly, CatOneOpen, CatClosed,
     CatAimed
<1> QED
  BY <1>12, <1>13 DEF CatBoth

\* A rendering that keeps the forms of the dialogs with their rows.
LEMMA CatRenderKeeps ==
    ASSUME CatIInv, NEW new \in CatPageRec, page' = Catalog!Rendered(new, seen),
           UNCHANGED <<table, seen, due, jobs, rough>>,
           log' \in CatLogRec, log'.used = log.used,
           new.draft["product"] \in {Nobody, page.draft["product"], Catalog!Product(new, seen)},
           new.dlg["area"] = "edit" /\ ~ log'.book["area"]
           => new.store.area \in {Nobody, new.draft["area"]},
           new.dlg["capability"] = "edit" /\ ~ log'.book["capability"] =>
               new.store.cap \in {Nobody, new.draft["capability"]},
           \A k \in {"story", "task"} : new.editing[k] # Nobody => new.draft[k] = new.editing[k]
    PROVE  CatIInv'
<1>0. CatTyped /\ CatSettled(table, log, seen) /\ CatFormed(page, seen, log)
  BY DEF CatIInv
<1>1. page \in CatPageRec /\ CatSeenOK(seen)
  BY <1>0 DEF CatTyped
<1> DEFINE R == Catalog!Rendered(new, seen)
<1>2. /\ R \in CatPageRec /\ R.dlg = new.dlg /\ R.editing = new.editing /\ R.dep = new.dep
      /\ R.store.product = Catalog!Product(new, seen)
         /\ Catalog!Product(R, seen) = Catalog!Product(new, seen)
      /\ R.draft["product"] = IF Catalog!Product(new, seen) \notin {Nobody, Catalog!Product(page, seen)}
                              THEN Catalog!Product(new, seen) ELSE new.draft["product"]
      /\ new.store.area \in {Nobody, new.draft["area"]} => R.store.area \in {Nobody, R.draft["area"]}
      /\ new.store.cap \in {Nobody, new.draft["capability"]}
         => R.store.cap \in {Nobody, R.draft["capability"]}
      /\ \A k \in {"story", "task"} : R.draft[k] = new.draft[k]
  BY <1>1, CatRenderedFacts
<1> HIDE DEF R
<1>3. page' = R /\ seen' = seen /\ table' = table /\ jobs' = jobs
  BY DEF R
<1>4. CatFormed(R, seen, log')
  BY <1>0, <1>2 DEF CatFormed
<1>5. CatSettled(table, log', seen)
  BY <1>0 DEF CatSettled
<1>6. CatTyped'
  BY <1>0, <1>2, <1>3 DEF CatTyped
<1> QED
  BY <1>3, <1>4, <1>5, <1>6 DEF CatIInv

\* A page without an open dialog.
LEMMA CatClosedWaits ==
    ASSUME CatWaited, CatIdle, UNCHANGED <<table, seen, due, jobs, rough>>, ~ rough => CatClosed(page')
    PROVE  CatWaited'
<1>1. ~ rough => jobs = {} /\ CatMirror(table, seen, due)
  BY CatPartlyNone DEF CatIdle, Catalog!Quiet, CatWaited
<1> QED
  BY <1>1, CatMirrorMore DEF CatWaited, CatOneOpen, CatClosed, CatAimed

\* The person looks at something else.
LEMMA CatBrowseKeeps ==
    ASSUME CatBoth, CatIdle, CatClosed(page),
           NEW new \in CatPageRec, new.draft = page.draft, new.editing = page.editing,
           new.dlg = page.dlg, new.ask = page.ask,
           Catalog!Becomes(new)
    PROVE  CatBoth'
<1>1. page' = Catalog!Rendered(new, seen) /\ UNCHANGED <<table, seen, due, jobs, log, rough>>
  BY DEF Catalog!Becomes
<1>2. CatTyped /\ CatFormed(page, seen, log) /\ page \in CatPageRec /\ CatSeenOK(seen)
      /\ log \in CatLogRec
  BY DEF CatBoth, CatIInv, CatTyped
<1>3. CatClosed(page')
  BY <1>1, <1>2, CatRenderedFacts DEF CatClosed
<1>4. CatIInv'
  BY <1>1, <1>2, CatRenderKeeps DEF CatBoth, CatFormed, CatClosed, Catalog!Kinds
<1>5. CatWaited'
  BY <1>1, <1>3, CatClosedWaits DEF CatBoth
<1> QED
  BY <1>4, <1>5 DEF CatBoth

\* What the invariant says of the page.
LEMMA CatPageFacts ==
    ASSUME CatIInv
    PROVE  /\ page \in CatPageRec /\ page \in CatPageBase /\ page.store \in CatStoreRec
                /\ CatSeenOK(seen)
           /\ log \in CatLogRec /\ CatFormed(page, seen, log)
              /\ Catalog!Shape(table)
           /\ page.store.product = Catalog!Product(page, seen) /\ due \subseteq Catalog!Keys
              /\ jobs \subseteq CatJobRec
  BY DEF CatIInv, CatTyped, CatSettled, CatFormed, CatPageRec, CatPageBase

\* A node that is selected, with the area it is in.
LEMMA CatSelectingTyped ==
    ASSUME CatIInv, NEW i \in Catalog!Found(Catalog!Tree(page, seen))
    PROVE  /\ Catalog!AreaOf(i) \in Catalog!Of("area") /\ i \in CatNodeIds /\ (RowSort[i] = "area"
                => Catalog!AreaOf(i) = i)
           /\ Catalog!Selecting(i) \in CatPageRec /\ CatButStore(Catalog!Selecting(i), page)
           /\ CatStores(Catalog!Selecting(i), page.store.product, Catalog!AreaOf(i), IF RowSort[i] = "area" THEN Nobody ELSE i, Nobody)
<1>1. /\ Catalog!Found(Catalog!Tree(page, seen)) \subseteq CatNodeIds
         /\ CatTreeOK(Catalog!Tree(page, seen))
      /\ Catalog!Tree(page, seen) \subseteq RowIds \X (RowIds \cup {Catalog!Top})
  BY CatPageFacts, CatDerivedTyped
<1> DEFINE up(k) == Catalog!Under(Catalog!Tree(page, seen), k)
<1>2. i \in CatNodeIds /\ i \in RowIds /\ RowSort[i] \in {"area", "capability", "feature"}
  BY <1>1 DEF CatNodeIds, Catalog!Nodes
<1>3. \A k \in Catalog!Found(Catalog!Tree(page, seen)) :
          /\ RowSort[k] = "area" => up(k) \in Catalog!Of("product")
          /\ RowSort[k] = "capability" => up(k) \in Catalog!Of("area")
          /\ RowSort[k] = "feature" => up(k) \in Catalog!Of("area") \cup Catalog!Of("capability")
             /\ up(k) \in Catalog!Found(Catalog!Tree(page, seen))
  BY <1>1, CatUnderOf
<1>4. Catalog!AreaOf(i) = CASE RowSort[i] = "area" -> i [] RowSort[up(i)] = "area" -> up(i) [] OTHER -> up(up(i))
  BY DEF Catalog!AreaOf
<1> HIDE DEF up
<1>5. Catalog!AreaOf(i) \in Catalog!Of("area") /\ (RowSort[i] = "area" => Catalog!AreaOf(i) = i)
  <2>1. CASE RowSort[i] = "area"
    <3>1. up(i) \in Catalog!Of("product")
      BY <1>3, <2>1
    <3> QED
      BY <1>2, <1>4, <2>1, <3>1 DEF Catalog!Of
  <2>2. CASE RowSort[i] = "capability"
    <3>1. up(i) \in Catalog!Of("area")
      BY <1>3, <2>2
    <3> QED
      BY <1>4, <2>2, <3>1 DEF Catalog!Of
  <2>3. CASE RowSort[i] = "feature"
    <3>1. up(i) \in Catalog!Of("area") \/ (RowSort[up(i)] # "area" /\ up(up(i)) \in Catalog!Of("area"))
      BY <1>3, <2>3 DEF Catalog!Of
    <3> QED
      BY <1>4, <2>3, <3>1 DEF Catalog!Of
  <2> QED
    BY <1>2, <2>1, <2>2, <2>3
<1>6. i \in CatCaps \/ RowSort[i] = "area"
  BY <1>2 DEF CatCaps
<1>7. Catalog!Selecting(i) = Catalog!SetNode(page, Catalog!AreaOf(i), IF RowSort[i] = "area" THEN Nobody ELSE i)
  BY DEF Catalog!Selecting
<1> QED
  BY <1>2, <1>5, <1>6, <1>7, CatPageFacts, CatSettersTyped DEF CatPerhaps

\* What the lists offer is of the tree.
LEMMA CatOfferedInTree ==
    ASSUME CatIInv
    PROVE  /\ Catalog!Offered \subseteq Catalog!Found(Catalog!Tree(page, seen))
                /\ Catalog!AreasTab \subseteq Catalog!Found(Catalog!Tree(page, seen))
           /\ Catalog!CapabilitiesTab \subseteq Catalog!Found(Catalog!Tree(page, seen))
              /\ Catalog!FeatureSelector \subseteq Catalog!Found(Catalog!Tree(page, seen))
           /\ Catalog!FeaturesTab \subseteq Catalog!Found(Catalog!Tree(page, seen))
           /\ Catalog!StoriesPane \subseteq Catalog!Of("story")
              /\ Catalog!StoryDetailPane \subseteq Catalog!Of("task")
<1>1. (page.console \in Catalog!Consoles)
      /\ page.console \in {"areas", "capabilities", "features", "work_items"}
  BY CatPageFacts DEF CatPageBase, Catalog!Consoles
<1>2. Catalog!AreasTab \subseteq Catalog!Found(Catalog!Tree(page, seen))
      /\ Catalog!CapabilitiesTab \subseteq Catalog!Found(Catalog!Tree(page, seen))
      /\ Catalog!FeaturesTab \subseteq Catalog!Found(Catalog!Tree(page, seen))
         /\ Catalog!FeatureSelector \subseteq Catalog!Found(Catalog!Tree(page, seen))
  BY CatPageFacts, CatDerivedTyped DEF Catalog!AreasTab, Catalog!CapabilitiesTab,
     Catalog!FeaturesTab, Catalog!FeatureSelector
<1>3. Catalog!StoriesPane \subseteq Catalog!Of("story")
      /\ Catalog!StoryDetailPane \subseteq Catalog!Of("task")
  BY CatPageFacts, CatDerivedTyped DEF Catalog!StoriesPane, Catalog!StoryDetailPane
<1> QED
  BY <1>1, <1>2, <1>3 DEF Catalog!Offered

CatBrowsing ==
    \/ \E t \in Catalog!Tabs : Catalog!ChooseTab(t)
       \/ \E p \in Catalog!Of("product") : Catalog!OpenProduct(p, t)
    \/ \E p \in Catalog!Of("product") : Catalog!ChooseProduct(p)
       \/ \E i \in RowIds : Catalog!OpenStatusRow(p, i)
    \/ \E c \in Catalog!Consoles : Catalog!ChooseConsole(c)
    \/ \E i \in RowIds : Catalog!OpenNode(i) \/ Catalog!SelectNode(i) \/ Catalog!SelectStory(i)
    \/ Catalog!DraftDependency

\* The person looks about, on one page.
LEMMA CatBrowsingKeeps == ASSUME CatBoth, CatIdle, CatBrowsing PROVE CatBoth'
<1>0. CatIInv
  BY DEF CatBoth
<1>1. CatClosed(page)
  BY DEF CatBrowsing, Catalog!ChooseTab, Catalog!OpenProduct, Catalog!CatalogRows,
     Catalog!ChooseProduct, Catalog!OpenStatusRow, Catalog!StatusRows, Catalog!ChooseConsole,
     Catalog!OpenNode, Catalog!SelectNode, Catalog!SelectStory, Catalog!DraftDependency, Catalog!OnConsole, Catalog!OnPage, Catalog!Modal, CatClosed
<1>2. page \in CatPageRec /\ page \in CatPageBase /\ page.store \in CatStoreRec
      /\ CatSeenOK(seen) /\ Catalog!Found(seen[Catalog!List]) \subseteq Catalog!Of("product")
         /\ page.dep \in CatDepRec
  BY <1>0, CatPageFacts, CatAnswersTyped DEF CatPageBase
<1>3. ASSUME NEW t \in Catalog!Tabs, Catalog!ChooseTab(t) PROVE CatBoth'
  <2> DEFINE new == [page EXCEPT !.tab = t]
  <2>1. /\ new \in CatPageRec /\ new.draft = page.draft /\ new.editing = page.editing
           /\ new.dlg = page.dlg
        /\ new.ask = page.ask /\ new.dep = page.dep
    BY <1>2 DEF CatPageRec, CatPageBase
  <2>2. Catalog!Becomes(new)
    BY <1>3 DEF Catalog!ChooseTab
  <2> HIDE DEF new
  <2> QED
    BY <1>1, <1>2, <2>1, <2>2, CatBrowseKeeps
<1>4. ASSUME NEW t \in Catalog!Tabs, NEW p \in Catalog!Of("product"), Catalog!OpenProduct(p, t)
             \/ Catalog!ChooseProduct(p) PROVE CatBoth'
  <2> DEFINE s == Catalog!SetProduct(page, p)
  <2>1. s \in CatPageRec /\ CatButStore(s, page)
    BY <1>2, CatSettersTyped DEF CatPerhaps
  <2>2. PICK u \in Catalog!Tabs : Catalog!Becomes([s EXCEPT !.tab = u])
    <3>1. s.tab \in Catalog!Tabs
      BY <2>1 DEF CatPageRec, CatPageBase
    <3> HIDE DEF s
    <3>2. Catalog!ChooseProduct(p)
          => Catalog!Becomes([s EXCEPT !.tab = IF s.tab \in {"list", "status"} THEN "overview" ELSE s.tab])
      BY DEF Catalog!ChooseProduct, s
    <3>3. Catalog!OpenProduct(p, t) => Catalog!Becomes([s EXCEPT !.tab = t])
      BY DEF Catalog!OpenProduct, s
    <3> QED
      BY <1>4, <3>1, <3>2, <3>3 DEF Catalog!Tabs
  <2> DEFINE new == [s EXCEPT !.tab = u]
  <2> HIDE DEF s
  <2>3. /\ new \in CatPageRec /\ new.draft = page.draft /\ new.editing = page.editing
           /\ new.dlg = page.dlg
        /\ new.ask = page.ask /\ new.dep = page.dep
    BY <2>1 DEF CatPageRec, CatPageBase, CatButStore
  <2> HIDE DEF new
  <2>4. Catalog!Becomes(new)
    BY <2>2 DEF new
  <2> QED
    BY <1>1, <1>2, <2>3, <2>4, CatBrowseKeeps
<1>5. ASSUME NEW p \in Catalog!Of("product"),
             NEW i \in RowIds, Catalog!OpenStatusRow(p, i) PROVE CatBoth'
  <2> DEFINE tree == seen[<<"tree", p>>]
             parent == Catalog!Under(tree, i)
             a == CASE RowSort[i] = "area" -> i [] RowSort[parent] = "area" -> parent [] OTHER -> Catalog!Under(tree, parent)
             c == IF RowSort[i] = "area" THEN Nobody ELSE i
             s == Catalog!SetNode(Catalog!SetProduct(page, p), a, c)
             new == [s EXCEPT !.tab = "design"]
  <2>1. i \in Catalog!Found(tree)
    BY <1>5 DEF Catalog!OpenStatusRow, Catalog!StatusRows
  <2>2. Catalog!Found(tree) \subseteq CatNodeIds /\ CatTreeOK(tree)
        /\ tree \subseteq RowIds \X (RowIds \cup {Catalog!Top})
    <3>1. CatAnswerOK(<<"tree", p>>, tree)
      BY <1>2, CatKeyFacts DEF CatSeenOK
    <3> QED
      BY <3>1 DEF CatAnswerOK, CatTreeOK, Catalog!Found, CatNodeIds
  <2>3. Catalog!Becomes(new)
    BY <1>5 DEF Catalog!OpenStatusRow
  <2> HIDE DEF tree
  <2>4. /\ RowSort[i] = "area" => parent \in Catalog!Of("product")
        /\ RowSort[i] = "capability" => parent \in Catalog!Of("area")
        /\ RowSort[i] = "feature" => parent \in Catalog!Of("area") \cup Catalog!Of("capability")
           /\ parent \in Catalog!Found(tree)
        /\ \A k \in Catalog!Found(tree) : RowSort[k] = "capability"
           => Catalog!Under(tree, k) \in Catalog!Of("area")
    BY <2>1, <2>2, CatUnderOf
  <2>5. i \in CatNodeIds /\ RowSort[i] \in {"area", "capability", "feature"}
        /\ c \in CatPerhaps(CatCaps)
    BY <2>1, <2>2 DEF CatNodeIds, Catalog!Nodes, CatCaps, CatPerhaps
  <2> HIDE DEF parent
  <2>6. a \in Catalog!Of("area")
    <3>1. CASE RowSort[i] = "area"
      BY <2>4, <2>5, <3>1 DEF Catalog!Of, CatNodeIds
    <3>2. CASE RowSort[i] = "capability"
      BY <2>4, <3>2 DEF Catalog!Of
    <3>3. CASE RowSort[i] = "feature"
      <4>1. parent \in Catalog!Of("area") \/ (RowSort[parent] # "area"
            /\ Catalog!Under(tree, parent) \in Catalog!Of("area"))
        BY <2>4, <3>3 DEF Catalog!Of
      <4> QED
        BY <3>3, <4>1 DEF Catalog!Of
    <3> QED
      BY <2>5, <3>1, <3>2, <3>3
  <2> HIDE DEF a, c
  <2>7. Catalog!SetProduct(page, p) \in CatPageRec /\ CatButStore(Catalog!SetProduct(page, p), page)
    BY <1>2, CatSettersTyped DEF CatPerhaps
  <2>8. s \in CatPageRec /\ CatButStore(s, Catalog!SetProduct(page, p))
    BY <2>5, <2>6, <2>7, CatSettersTyped DEF CatPerhaps
  <2> HIDE DEF s
  <2>9. /\ new \in CatPageRec /\ new.draft = page.draft /\ new.editing = page.editing
           /\ new.dlg = page.dlg
        /\ new.ask = page.ask /\ new.dep = page.dep
    BY <2>7, <2>8 DEF CatPageRec, CatPageBase, CatButStore, Catalog!Tabs
  <2> HIDE DEF new
  <2> QED
    BY <1>1, <1>2, <2>3, <2>9, CatBrowseKeeps
<1>6. ASSUME NEW c \in Catalog!Consoles, Catalog!ChooseConsole(c) PROVE CatBoth'
  <2> DEFINE new == [page EXCEPT !.console = c]
  <2>1. /\ new \in CatPageRec /\ new.draft = page.draft /\ new.editing = page.editing
           /\ new.dlg = page.dlg
        /\ new.ask = page.ask /\ new.dep = page.dep
    BY <1>2 DEF CatPageRec, CatPageBase
  <2>2. Catalog!Becomes(new)
    BY <1>6 DEF Catalog!ChooseConsole
  <2> HIDE DEF new
  <2> QED
    BY <1>1, <1>2, <2>1, <2>2, CatBrowseKeeps
<1>7. ASSUME NEW i \in RowIds, Catalog!OpenNode(i) \/ Catalog!SelectNode(i) PROVE CatBoth'
  <2> DEFINE s == Catalog!Selecting(i)
  <2>1. i \in Catalog!Found(Catalog!Tree(page, seen))
    BY <1>0, <1>7, CatOfferedInTree DEF Catalog!OpenNode, Catalog!SelectNode
  <2>2. s \in CatPageRec /\ CatButStore(s, page) /\ s.story \in CatPerhaps(RowIds)
        /\ s.console \in Catalog!Consoles
        /\ RowSort[i] \in {"area", "capability", "feature"}
    BY <1>0, <2>1, CatSelectingTyped DEF CatPageRec, CatPageBase, CatNodeIds, Catalog!Nodes
  <2> HIDE DEF s
  <2>3. PICK c \in Catalog!Consoles, y \in CatPerhaps(RowIds) : Catalog!Becomes([s EXCEPT !.console = c, !.story = y])
    <3>1. Catalog!SelectNode(i)
          => Catalog!Becomes([s EXCEPT !.story = IF RowSort[i] = "feature" THEN Nobody ELSE s.story])
      BY DEF Catalog!SelectNode, s
    <3>2. \A y : [s EXCEPT !.story = y] = [s EXCEPT !.console = s.console, !.story = y]
      BY <2>2 DEF CatPageRec, CatPageBase
    <3>3. Catalog!OpenNode(i) => \E c \in Catalog!Consoles : Catalog!Becomes([s EXCEPT !.console = c])
      <4>1. Catalog!OpenNode(i) => Catalog!Becomes([s EXCEPT !.console = CASE RowSort[i] = "area" -> "capabilities"
                                [] RowSort[i] = "capability" -> "features"
                                [] RowSort[i] = "feature" -> "work_items"])
        BY DEF Catalog!OpenNode, s
      <4> QED
        BY <2>2, <4>1 DEF Catalog!Consoles
    <3>4. \A c : [s EXCEPT !.console = c] = [s EXCEPT !.console = c, !.story = s.story]
      BY <2>2 DEF CatPageRec, CatPageBase
    <3> QED
      BY <1>7, <2>2, <3>1, <3>2, <3>3, <3>4 DEF CatPerhaps
  <2> DEFINE new == [s EXCEPT !.console = c, !.story = y]
  <2>4. /\ new \in CatPageRec /\ new.draft = page.draft /\ new.editing = page.editing
           /\ new.dlg = page.dlg
        /\ new.ask = page.ask /\ new.dep = page.dep
    BY <2>2 DEF CatPageRec, CatPageBase, CatButStore
  <2> HIDE DEF new
  <2>5. Catalog!Becomes(new)
    BY <2>3 DEF new
  <2> QED
    BY <1>1, <1>2, <2>4, <2>5, CatBrowseKeeps
<1>8. ASSUME NEW i \in RowIds, Catalog!SelectStory(i) PROVE CatBoth'
  <2> DEFINE new == [page EXCEPT !.story = i, !.store.work = i]
  <2>1. /\ new \in CatPageRec /\ new.draft = page.draft /\ new.editing = page.editing
           /\ new.dlg = page.dlg
        /\ new.ask = page.ask /\ new.dep = page.dep
    BY <1>2 DEF CatPageRec, CatPageBase, CatStoreRec, CatPerhaps
  <2>2. Catalog!Becomes(new)
    BY <1>8 DEF Catalog!SelectStory
  <2> HIDE DEF new
  <2> QED
    BY <1>1, <1>2, <2>1, <2>2, CatBrowseKeeps
<1>9. ASSUME Catalog!DraftDependency PROVE CatBoth'
  <2>0. Catalog!Found(Catalog!Tree(page, seen)) \subseteq CatNodeIds
    BY <1>2, CatDerivedTyped
  <2>1. PICK d \in CatDepRec : Catalog!Becomes([page EXCEPT !.dep = d])
    <3>1. ASSUME NEW c \in Catalog!Found(Catalog!Tree(page, seen)), Catalog!Becomes([page EXCEPT !.dep.from = c])
          PROVE  \E d \in CatDepRec : Catalog!Becomes([page EXCEPT !.dep = d])
      <4>1. [page.dep EXCEPT !.from = c] \in CatDepRec
        BY <1>2, <2>0 DEF CatDepRec, CatPerhaps
      <4> QED
        BY <3>1, <4>1
    <3>2. ASSUME NEW p \in Catalog!Found(seen[Catalog!List]), Catalog!Becomes(Catalog!DependsOn(p))
          PROVE  \E d \in CatDepRec : Catalog!Becomes([page EXCEPT !.dep = d])
      <4>1. [[page.dep EXCEPT !.on = p] EXCEPT !.onCap = Nobody] \in CatDepRec
        BY <1>2 DEF CatDepRec, CatPerhaps
      <4> QED
        BY <3>2, <4>1 DEF Catalog!DependsOn
    <3>3. ASSUME NEW c \in Catalog!DependencyTargets, Catalog!Becomes([page EXCEPT !.dep.onCap = c])
          PROVE  \E d \in CatDepRec : Catalog!Becomes([page EXCEPT !.dep = d])
      <4>1. page.dep.on \in CatPerhaps(Catalog!Of("product"))
        BY <1>2 DEF CatDepRec
      <4>2. c \in CatNodeIds
        BY <1>2, <4>1, CatAnswersTyped DEF Catalog!DependencyTargets
      <4>3. [page.dep EXCEPT !.onCap = c] \in CatDepRec
        BY <1>2, <4>2 DEF CatDepRec, CatPerhaps
      <4> QED
        BY <3>3, <4>3
    <3> QED
      BY <1>9, <3>1, <3>2, <3>3 DEF Catalog!DraftDependency
  <2> DEFINE new == [page EXCEPT !.dep = d]
  <2>2. /\ new \in CatPageRec /\ new.draft = page.draft /\ new.editing = page.editing
           /\ new.dlg = page.dlg
        /\ new.ask = page.ask /\ new.dep = d
    BY <1>2 DEF CatPageRec, CatPageBase
  <2> HIDE DEF new
  <2>3. Catalog!Becomes(new)
    BY <2>1 DEF new
  <2> QED
    BY <1>1, <1>2, <2>1, <2>2, <2>3, CatBrowseKeeps
<1> QED
  BY <1>3, <1>4, <1>5, <1>6, <1>7, <1>8, <1>9 DEF CatBrowsing, Catalog!Tabs

\* To another page and back.
LEMMA CatLeaveKeeps ==
    ASSUME CatBoth, CatIdle, CatClosed(page), NEW pg \in CatPageRec,
           CatButStore(pg, page), Catalog!Leave(pg)
    PROVE  CatBoth'
<1> DEFINE new == [pg EXCEPT !.tab = "list", !.console = "areas", !.route = Nobody, !.story = Nobody,
                             !.draft = [k \in Catalog!Kinds |-> Nobody], !.editing = [k \in Catalog!Kinds |-> Nobody],
                             !.dep = Catalog!NoDependency]
<1>1. /\ new \in CatPageRec /\ new.dlg = page.dlg /\ new.ask = page.ask
         /\ new.dep = Catalog!NoDependency
      /\ \A k \in Catalog!Kinds : new.draft[k] = Nobody /\ new.editing[k] = Nobody
  BY DEF CatPageRec, CatPageBase, CatDepRec, Catalog!NoDependency, CatPerhaps, Catalog!Tabs,
     Catalog!Consoles, CatButStore
<1>2. Catalog!Becomes(new)
  BY DEF Catalog!Leave
<1> HIDE DEF new
<1>3. page' = Catalog!Rendered(new, seen) /\ UNCHANGED <<table, seen, due, jobs, log, rough>>
  BY <1>2 DEF Catalog!Becomes
<1>4. CatIInv /\ log \in CatLogRec /\ page \in CatPageRec /\ CatSeenOK(seen)
  BY CatPageFacts DEF CatBoth
<1>6. \A k \in Catalog!Kinds : page.dlg[k] = "closed"
  BY DEF CatClosed
<1>7. CatIInv'
  BY <1>1, <1>3, <1>4, <1>6, CatRenderKeeps DEF Catalog!Kinds
<1>8. CatClosed(page')
  BY <1>1, <1>3, <1>4, CatRenderedFacts DEF CatClosed
<1> QED
  BY <1>3, <1>7, <1>8, CatClosedWaits DEF CatBoth

\* The book's product, areas and chapters.
LEMMA CatBookFacts ==
    ASSUME CatIInv, Catalog!OnBook
    PROVE  /\ Catalog!Product(page, seen) \in Catalog!Of("product")
                /\ Catalog!Product(page, seen) \in Catalog!Found(seen[Catalog!List])
           /\ Catalog!OfBook \in CatPageRec /\ CatButStore(Catalog!OfBook, page)
           /\ Catalog!OfBook.store.product = Catalog!Product(page, seen)
           /\ Catalog!BookAreas \subseteq Catalog!Of("area")
              /\ \A a : Catalog!AreaChapter(a) \subseteq CatCaps
           /\ CatClosed(page)
<1>1. page \in CatPageRec /\ CatSeenOK(seen) /\ Catalog!Product(page, seen) # Nobody /\ CatClosed(page)
  BY CatPageFacts DEF Catalog!OnBook, Catalog!OnPage, Catalog!Modal, CatClosed
<1>2. Catalog!Product(page, seen) \in Catalog!Of("product")
      /\ Catalog!Product(page, seen) \in Catalog!Found(seen[Catalog!List])
  BY <1>1, CatPickIn, CatDerivedTyped DEF Catalog!Product, CatPerhaps
<1>3. Catalog!OfBook \in CatPageRec /\ CatButStore(Catalog!OfBook, page)
      /\ Catalog!OfBook.store.product = Catalog!Product(page, seen)
  BY <1>1, <1>2, CatSettersTyped DEF Catalog!OfBook, CatPerhaps, CatStores
<1>4. Catalog!BookAreas \subseteq Catalog!Of("area")
  BY <1>1, <1>2, CatAnswersTyped DEF Catalog!BookAreas, Catalog!Answer, CatPerhaps
<1>5. \A a : Catalog!AreaChapter(a) \subseteq CatCaps
  BY DEF Catalog!AreaChapter, CatCaps
<1> QED
  BY <1>1, <1>2, <1>3, <1>4, <1>5

\* To the planner, or to the page of the work items.
LEMMA CatLeavingKeeps == ASSUME CatBoth, CatIdle, Catalog!PlanFromBook
\/ Catalog!OpenBuilder PROVE CatBoth'
<1>0. CatIInv
  BY DEF CatBoth
<1>1. CASE Catalog!PlanFromBook
  <2>0. Catalog!OnBook
    BY <1>1 DEF Catalog!PlanFromBook
  <2>1. /\ Catalog!OfBook \in CatPageRec /\ CatButStore(Catalog!OfBook, page) /\ CatClosed(page)
        /\ Catalog!BookAreas \subseteq Catalog!Of("area")
           /\ \A a : Catalog!AreaChapter(a) \subseteq CatCaps
    BY <1>0, <2>0, CatBookFacts
  <2>2. PICK pg : Catalog!Leave(pg) /\ \/ pg = Catalog!OfBook
                                       \/ \E a \in Catalog!BookAreas : \/ pg = Catalog!SetArea(Catalog!OfBook, a)
                                                                       \/ \E i \in Catalog!AreaChapter(a) : pg = Catalog!SetNode(Catalog!OfBook, a, i)
    BY <1>1 DEF Catalog!PlanFromBook
  <2>3. pg \in CatPageRec /\ CatButStore(pg, Catalog!OfBook)
    <3>1. CatButStore(Catalog!OfBook, Catalog!OfBook)
      BY DEF CatButStore
    <3> QED
      BY <2>1, <2>2, <3>1, CatSettersTyped DEF CatPerhaps
  <2>4. CatButStore(pg, page)
    BY <2>1, <2>3 DEF CatButStore
  <2> QED
    BY <2>1, <2>2, <2>3, <2>4, CatLeaveKeeps
<1>2. CASE Catalog!OpenBuilder
  <2>1. CatClosed(page)
    BY <1>2 DEF Catalog!OpenBuilder, Catalog!OnConsole, Catalog!OnPage, Catalog!Modal, CatClosed
  <2>2. page \in CatPageRec /\ page \in CatPageBase /\ CatSeenOK(seen) /\ page.store \in CatStoreRec
    BY <1>0, CatPageFacts
  <2>3. CASE Catalog!ShownFeature(page, seen) # Nobody
        /\ Catalog!Leave(Catalog!Selecting(Catalog!ShownFeature(page, seen)))
    <3>1. Catalog!ShownFeature(page, seen) \in Catalog!Found(Catalog!Tree(page, seen))
      BY <2>2, <2>3, CatDerivedTyped DEF CatPerhaps
    <3>2. Catalog!Selecting(Catalog!ShownFeature(page, seen)) \in CatPageRec
          /\ CatButStore(Catalog!Selecting(Catalog!ShownFeature(page, seen)), page)
      BY <1>0, <3>1, CatSelectingTyped
    <3> QED
      BY <2>1, <2>3, <3>2, CatLeaveKeeps
  <2>4. ASSUME NEW i \in Catalog!StoriesPane \cup Catalog!StoryDetailPane, Catalog!Leave([page EXCEPT !.store.work = i])
        PROVE  CatBoth'
    <3>1. i \in RowIds
      BY <1>0, CatOfferedInTree, CatRowFacts
    <3> DEFINE pg == [page EXCEPT !.store.work = i]
    <3>2. pg \in CatPageRec /\ CatButStore(pg, page)
      BY <2>2, <3>1 DEF CatPageRec, CatPageBase, CatStoreRec, CatPerhaps, CatButStore
    <3>3. Catalog!Leave(pg)
      BY <2>4
    <3> HIDE DEF pg
    <3> QED
      BY <2>1, <3>2, <3>3, CatLeaveKeeps
  <2> QED
    BY <1>2, <2>3, <2>4 DEF Catalog!OpenBuilder
<1> QED
  BY <1>1, <1>2

\* A dialog is closed.
LEMMA CatDismissKeeps == ASSUME CatBoth, CatIdle, Catalog!Dismiss PROVE CatBoth'
<1>1. CatIInv /\ page \in CatPageRec /\ page \in CatPageBase /\ CatSeenOK(seen) /\ log \in CatLogRec
      /\ CatFormed(page, seen, log)
  BY CatPageFacts DEF CatBoth
<1>2. PICK new : /\ Catalog!Becomes(new)
                 /\ \/ \E k \in Catalog!Kinds : page.dlg[k] # "closed"
                         /\ new = [page EXCEPT !.dlg[k] = "closed"]
                    \/ \E r \in Catalog!Removals : page.ask[r] # Nobody
                       /\ new = [page EXCEPT !.ask[r] = Nobody]
  BY DEF Catalog!Dismiss
<1>3. /\ new \in CatPageRec /\ new.draft = page.draft /\ new.editing = page.editing
         /\ new.dep = page.dep
      /\ new.store = page.store
      /\ \A k \in Catalog!Kinds : new.dlg[k] \in {"closed", page.dlg[k]}
      /\ \A r \in Catalog!Removals : new.ask[r] \in {Nobody, page.ask[r]}
      /\ \/ \E k \in Catalog!Kinds : page.dlg[k] # "closed" /\ new.dlg[k] = "closed"
         \/ \E r \in Catalog!Removals : page.ask[r] # Nobody /\ new.ask[r] = Nobody
  <2>1. CASE \E k \in Catalog!Kinds : page.dlg[k] # "closed" /\ new = [page EXCEPT !.dlg[k] = "closed"]
    BY <1>1, <2>1 DEF CatPageRec, CatPageBase
  <2>2. CASE \E r \in Catalog!Removals : page.ask[r] # Nobody /\ new = [page EXCEPT !.ask[r] = Nobody]
    BY <1>1, <2>2 DEF CatPageRec, CatPageBase, CatPerhaps
  <2> QED
    BY <1>2, <2>1, <2>2
<1>4. page' = Catalog!Rendered(new, seen) /\ UNCHANGED <<table, seen, due, jobs, log, rough>>
  BY <1>2 DEF Catalog!Becomes
<1>5. CatIInv'
  <2>1. new.draft["product"] = page.draft["product"] /\ log'.book = log.book
    BY <1>3, <1>4
  <2>2. /\ new.dlg["area"] = "edit" /\ ~ log.book["area"]
           => new.store.area \in {Nobody, new.draft["area"]}
        /\ new.dlg["capability"] = "edit" /\ ~ log.book["capability"] =>
               new.store.cap \in {Nobody, new.draft["capability"]}
        /\ \A k \in {"story", "task"} : new.editing[k] # Nobody => new.draft[k] = new.editing[k]
    BY <1>1, <1>3 DEF CatFormed, Catalog!Kinds
  <2> QED
    BY <1>1, <1>3, <1>4, <2>1, <2>2, CatRenderKeeps
<1>6. ~ rough => CatClosed(page')
  <2>1. ~ rough => CatOneOpen(page)
    BY DEF CatBoth, CatWaited
  <2>2. ~ rough => CatClosed(new)
    BY <1>3, <2>1 DEF CatOneOpen, CatClosed
  <2> QED
    BY <1>1, <1>3, <1>4, <2>2, CatRenderedFacts DEF CatClosed
<1> QED
  BY <1>4, <1>5, <1>6, CatClosedWaits DEF CatBoth

\* More queries are due; the page is the same.
LEMMA CatRefreshKeeps == ASSUME CatBoth, CatIdle, Catalog!Refresh PROVE CatBoth'
<1>1. CatIInv /\ page \in CatPageRec /\ CatSeenOK(seen) /\ due \subseteq Catalog!Keys
      /\ page.tab \in Catalog!Tabs
  BY CatPageFacts DEF CatBoth, CatPageBase
<1>2. UNCHANGED <<table, seen, page, jobs, log, rough>> /\ due \subseteq due' /\ CatClosed(page)
  BY DEF Catalog!Refresh, Catalog!OnPage, Catalog!Modal, CatClosed
<1>3. due' \subseteq Catalog!Keys
  <2>1. Catalog!Mounted(page, seen) \subseteq Catalog!Keys
        /\ Catalog!Product(page, seen) \in CatPerhaps(Catalog!Of("product"))
    BY <1>1, CatDerivedTyped
  <2> QED
    BY <1>1, <2>1, CatKeyFacts DEF Catalog!Refresh, Catalog!Tabs, CatPerhaps
<1>4. CatIInv'
  BY <1>1, <1>2, <1>3 DEF CatIInv, CatTyped
<1>5. CatWaited'
  <2>1. ~ rough => jobs = {} /\ CatMirror(table, seen, due)
    BY CatPartlyNone DEF CatBoth, CatWaited, CatIdle, Catalog!Quiet
  <2>2. ~ rough => CatMirror(table, seen, due')
    BY <1>2, <2>1 DEF CatMirror
  <2> QED
    BY <1>2, <2>1, <2>2, CatMirrorMore DEF CatWaited, CatOneOpen, CatClosed, CatAimed
<1> QED
  BY <1>4, <1>5 DEF CatBoth

\* A rendering of a page that shows the same.
LEMMA CatSameShown ==
    ASSUME CatIInv, NEW new \in CatPageRec, new.store = page.store, new.story = page.story, new.tab = page.tab,
           new.console = page.console, page' = Catalog!Rendered(new, seen), seen' = seen
    PROVE  /\ page' \in CatPageRec /\ page'.store = page.store /\ page'.tab = page.tab
                /\ page'.console = page.console
           /\ page'.dlg = new.dlg /\ page'.ask = new.ask
           /\ Catalog!Product(page', seen) = Catalog!Product(page, seen)
           /\ \A s : Catalog!Listed(page', seen, s) = Catalog!Listed(page, seen, s)
           /\ Catalog!ShownFeature(page', seen) = Catalog!ShownFeature(page, seen)
              /\ Catalog!ShownStory(page', seen) = Catalog!ShownStory(page, seen)
           /\ Catalog!Mounted(page', seen) = Catalog!Mounted(page, seen)
<1>1. page \in CatPageRec /\ CatSeenOK(seen) /\ page.store.product = Catalog!Product(page, seen)
  BY CatPageFacts
<1>2. CatAgree(seen, seen)
  BY DEF CatAgree
<1>3. /\ page' \in CatPageRec /\ page'.store = page.store /\ page'.story = page.story
         /\ page'.tab = page.tab
      /\ page'.console = page.console /\ page'.dlg = new.dlg /\ page'.ask = new.ask
  BY <1>1, <1>2, CatRenderedFacts
<1> QED
  BY <1>1, <1>2, <1>3, CatSameDerived

\* The person asks to remove a row that is listed.
LEMMA CatAskKeeps ==
    ASSUME CatBoth, CatIdle, NEW r \in Catalog!Removals, NEW i \in RowIds, Catalog!Ask(r, i)
    PROVE  CatBoth'
<1>0. CatIInv /\ page \in CatPageRec /\ page \in CatPageBase /\ CatSeenOK(seen) /\ log \in CatLogRec
      /\ CatFormed(page, seen, log)
  BY CatPageFacts DEF CatBoth
<1>1. CatClosed(page)
  BY DEF Catalog!Ask, Catalog!Removals, Catalog!CatalogRows, Catalog!OnConsole, Catalog!OnPage,
     Catalog!Modal, CatClosed
<1> DEFINE new == [page EXCEPT !.ask[r] = i]
<1>2. i \in CatRemovable(r)
  <2>1. r = "product" => i \in Catalog!Of("product")
    BY <1>0, CatAnswersTyped DEF Catalog!Ask, Catalog!CatalogRows
  <2>2. r = "plan" => i \in Catalog!Of("product")
    BY <1>0, CatDerivedTyped DEF Catalog!Ask, CatPerhaps
  <2>3. r = "node" => i \in CatNodeIds
    BY <1>0, CatOfferedInTree, CatDerivedTyped DEF Catalog!Ask
  <2>4. r = "item" => i \in CatItemIds
    BY <1>0, CatOfferedInTree, CatRowFacts DEF Catalog!Ask
  <2> QED
    BY <2>1, <2>2, <2>3, <2>4 DEF CatRemovable, Catalog!Removals
<1>3. /\ new \in CatPageRec /\ new.draft = page.draft /\ new.editing = page.editing
         /\ new.dlg = page.dlg
      /\ new.dep = page.dep /\ new.store = page.store /\ new.story = page.story /\ new.tab = page.tab
      /\ new.console = page.console /\ new.ask[r] = i
         /\ \A s \in Catalog!Removals \ {r} : new.ask[s] = page.ask[s]
  BY <1>0, <1>2 DEF CatPageRec, CatPageBase, CatPerhaps
<1>4. Catalog!Becomes(new)
  BY DEF Catalog!Ask
<1> HIDE DEF new
<1>5. page' = Catalog!Rendered(new, seen) /\ UNCHANGED <<table, seen, due, jobs, log, rough>>
  BY <1>4 DEF Catalog!Becomes
<1>6. CatIInv'
  BY <1>0, <1>1, <1>3, <1>5, CatRenderKeeps DEF CatFormed, CatClosed, Catalog!Kinds
<1>7. ASSUME ~ rough PROVE CatWaited'
  <2>1. jobs = {} /\ CatMirror(table, seen, due) /\ due \cap Catalog!Mounted(page, seen) = {}
    BY <1>7, CatPartlyNone DEF CatBoth, CatWaited, CatIdle, Catalog!Quiet
  <2>2. /\ page'.dlg = new.dlg /\ page'.ask = new.ask
           /\ Catalog!Product(page', seen) = Catalog!Product(page, seen)
        /\ \A s : Catalog!Listed(page', seen, s) = Catalog!Listed(page, seen, s)
        /\ Catalog!Mounted(page', seen) = Catalog!Mounted(page, seen)
    BY <1>0, <1>3, <1>5, CatSameShown
  <2>3. \A k \in Catalog!Kinds : page'.dlg[k] = "closed"
    BY <1>1, <1>3, <2>2 DEF CatClosed
  <2>4. page'.ask[r] = i /\ \A s \in Catalog!Removals \ {r} : page'.ask[s] = Nobody
    BY <1>1, <1>3, <2>2 DEF CatClosed
  <2>5. CatRemoveIn(r, i)
    <3>1. r = "plan" => i = Catalog!Product(page, seen) /\ CatFeaturesSeen(i)
      <4> SUFFICES ASSUME r = "plan", NEW f \in Catalog!Of("feature"),
                          table[f] # Nobody, CatProd(table, f) = Catalog!Product(page, seen)
                   PROVE  f \in Catalog!Listed(page, seen, "feature")
        BY DEF Catalog!Ask, CatFeaturesSeen
      <4> DEFINE p == Catalog!Product(page, seen)
      <4>1. page.tab = "design" /\ p \in Catalog!Of("product")
            /\ p \in Catalog!Found(seen[Catalog!List])
        BY <1>0, CatDerivedTyped, CatPickIn DEF Catalog!Ask, Catalog!OnConsole, Catalog!OnPage,
           CatPerhaps, Catalog!Product
      <4>2. <<"tree", p>> \in Catalog!Mounted(page, seen) /\ <<"tree", p>> \in Catalog!Keys
        BY <4>1, CatKeyFacts DEF Catalog!Mounted
      <4>3. seen[<<"tree", p>>] = Catalog!Content(table, <<"tree", p>>)
        BY <2>1, <4>2 DEF CatMirror
      <4>4. <<f, table[f]>> \in seen[<<"tree", p>>]
        BY <1>0, <4>1, <4>3, CatContentTree, CatRowFacts DEF CatIInv, CatTyped
      <4>5. Catalog!Tree(page, seen) = seen[<<"tree", p>>]
        BY <4>1, CatRowFacts DEF Catalog!Tree, Catalog!Answer
      <4> QED
        BY <4>4, <4>5 DEF Catalog!Listed, Catalog!Found, Catalog!Of
    <3>2. r = "node" => CatHere(i)
      <4> SUFFICES ASSUME r = "node" PROVE CatHere(i)
        OBVIOUS
      <4>1. i \in Catalog!Found(Catalog!Tree(page, seen))
            /\ Catalog!Product(page, seen) \in CatPerhaps(Catalog!Of("product"))
        BY <1>0, CatOfferedInTree, CatDerivedTyped DEF Catalog!Ask
      <4>2. Catalog!Product(page, seen) \in Catalog!Of("product")
            /\ i \in Catalog!Found(seen[<<"tree", Catalog!Product(page, seen)>>])
        BY <4>1 DEF Catalog!Tree, Catalog!Answer, Catalog!Found, CatPerhaps
      <4> QED
        BY <1>0, <4>2 DEF CatIInv, CatSettled, CatTreesKnown, Catalog!Found, CatHere
    <3>3. r = "item" /\ RowSort[i] = "story" /\ table[i] # Nobody
          => table[i] \in Catalog!Listed(page, seen, "feature")
      <4> SUFFICES ASSUME r = "item", RowSort[i] = "story", table[i] # Nobody
                   PROVE  table[i] \in Catalog!Listed(page, seen, "feature")
        OBVIOUS
      <4> DEFINE f == Catalog!ShownFeature(page, seen)
      <4>1. i \in Catalog!StoriesPane /\ page.tab = "design" /\ page.console = "work_items"
        BY <1>0, CatOfferedInTree DEF Catalog!Ask, Catalog!OnConsole, Catalog!OnPage, Catalog!Of
      <4>2. f \in Catalog!Listed(page, seen, "feature") /\ f \in Catalog!Of("feature")
            /\ i \in Catalog!Found(seen[<<"stories", f>>])
            /\ f # Nobody
        BY <1>0, <4>1, CatDerivedTyped, CatRowFacts DEF Catalog!StoriesPane, Catalog!Stories,
           Catalog!Answer, Catalog!Found, CatPerhaps
      <4>3. <<"stories", f>> \in Catalog!Mounted(page, seen)
        BY <4>1, <4>2 DEF Catalog!Mounted
      <4>4. seen[<<"stories", f>>] = Catalog!Content(table, <<"stories", f>>)
        BY <2>1, <4>2, <4>3, CatKeyFacts DEF CatMirror
      <4>5. Catalog!Content(table, <<"stories", f>>) = Catalog!Rows(table, {x \in RowIds : table[x] = f
            /\ RowSort[x] \in {"story", "task"}})
        BY DEF Catalog!Content
      <4>6. table[i] = f
        BY <4>2, <4>4, <4>5 DEF Catalog!Rows, Catalog!Found
      <4> QED
        BY <4>2, <4>6
    <3> QED
      BY <3>1, <3>2, <3>3 DEF CatRemoveIn
  <2>6. CatRemoveIn(r, i)'
    BY <1>5, <2>2, <2>5 DEF CatRemoveIn, CatFeaturesSeen, CatHere
  <2>7. CatOneOpen(page') /\ CatAimed'
    BY <1>5, <2>1, <2>2, <2>3, <2>4, <2>6 DEF CatOneOpen, CatAimed
  <2> QED
    BY <1>5, <2>1, <2>7, CatMirrorMore DEF CatWaited
<1>8. CatWaited'
  BY <1>5, <1>7 DEF CatWaited
<1> QED
  BY <1>6, <1>8 DEF CatBoth

\* A dialog opens on a page, for a row that is selected in it.
LEMMA CatOpensKeeps ==
    ASSUME CatBoth, CatIdle, CatClosed(page), NEW pg \in CatPageRec, NEW k \in Catalog!Kinds,
           NEW mode \in {"create", "edit"},
           NEW n \in RowIds \cup {Nobody, Catalog!Top}, Catalog!Opens(pg, k, mode, n),
           pg.dlg = page.dlg, pg.ask = page.ask,
           pg.draft["product"] \in {Nobody, page.draft["product"], Catalog!Product(pg, seen)},
           k = "area" /\ mode = "edit" => pg.store.area \in {Nobody, pg.draft["area"]},
           k = "capability" /\ mode = "edit" => pg.store.cap \in {Nobody, pg.draft["capability"]},
           \A x \in {"story", "task"} : pg.editing[x] # Nobody => pg.draft[x] = pg.editing[x],
           ~ rough /\ mode = "create" =>
               /\ CatCreateIn(k, n)' /\ Catalog!Mounted(page', seen) \subseteq Catalog!Mounted(page, seen) \cup CatTaskQueries
    PROVE  CatBoth'
<1>0. CatIInv /\ page \in CatPageRec /\ CatSeenOK(seen) /\ log \in CatLogRec
  BY CatPageFacts DEF CatBoth
<1> DEFINE new == [pg EXCEPT !.dlg[k] = mode]
<1>1. /\ new \in CatPageRec /\ new.draft = pg.draft /\ new.editing = pg.editing /\ new.ask = pg.ask
      /\ new.dep = pg.dep /\ new.store = pg.store /\ new.dlg[k] = mode
      /\ \A l \in Catalog!Kinds \ {k} : new.dlg[l] = pg.dlg[l]
  BY DEF CatPageRec, CatPageBase
<1>2. page' = Catalog!Rendered(new, seen) /\ log' = [log EXCEPT !.goal[k] = n, !.book[k] = FALSE]
      /\ UNCHANGED <<table, seen, due, jobs, rough>>
  BY DEF Catalog!Opens
<1> HIDE DEF new
<1>3. /\ log' \in CatLogRec /\ log'.used = log.used /\ log'.goal[k] = n
  BY <1>0, <1>2 DEF CatLogRec
<1>4. Catalog!Product(new, seen) = Catalog!Product(pg, seen)
  BY <1>1 DEF Catalog!Product
<1>5. \A l \in Catalog!Kinds \ {k} : new.dlg[l] = "closed"
  BY <1>1 DEF CatClosed
<1>6. CatIInv'
  <2>1. new.dlg["area"] = "edit" => new.store.area \in {Nobody, new.draft["area"]}
    BY <1>1, <1>5 DEF Catalog!Kinds
  <2>2. new.dlg["capability"] = "edit" => new.store.cap \in {Nobody, new.draft["capability"]}
    BY <1>1, <1>5 DEF Catalog!Kinds
  <2>3. \A x \in {"story", "task"} : new.editing[x] # Nobody => new.draft[x] = new.editing[x]
    BY <1>1
  <2>4. new.draft["product"] \in {Nobody, page.draft["product"], Catalog!Product(new, seen)}
    BY <1>1, <1>4
  <2> QED
    BY <1>0, <1>1, <1>2, <1>3, <2>1, <2>2, <2>3, <2>4, CatRenderKeeps
<1>7. page'.dlg = new.dlg /\ page'.ask = page.ask
  BY <1>0, <1>1, <1>2, CatRenderedFacts
<1>8. ASSUME ~ rough PROVE CatWaited'
  <2>1. jobs = {} /\ CatMirror(table, seen, due) /\ due \cap Catalog!Mounted(page, seen) = {}
    BY <1>8, CatPartlyNone DEF CatBoth, CatWaited, CatIdle, Catalog!Quiet
  <2>2. CatOneOpen(page')
    BY <1>5, <1>7 DEF CatOneOpen, CatClosed
  <2>3. mode = "create" => CatCreateIn(k, n)'
        /\ due' \cap Catalog!Mounted(page', seen') \subseteq CatTaskQueries
    BY <1>2, <1>8, <2>1
  <2>4. CatAimed'
    BY <1>1, <1>3, <1>5, <1>7, <2>3 DEF CatAimed, CatClosed
  <2> QED
    BY <1>2, <2>1, <2>2, <2>4, CatMirrorMore DEF CatWaited
<1>9. CatWaited'
  BY <1>2, <1>8 DEF CatWaited
<1> QED
  BY <1>6, <1>9 DEF CatBoth

CatDialogs ==
    \/ Catalog!CreateProduct \/ Catalog!CreateArea \/ Catalog!CreateStory \/ Catalog!CreateTask
    \/ \E i \in RowIds : Catalog!CreateCapability(i) \/ Catalog!EditNode(i) \/ Catalog!EditItem(i)
    \/ \E p \in Catalog!Of("product") : Catalog!EditProduct(p)

\* A dialog opens on the page that is shown.
LEMMA CatCreatingKeeps ==
    ASSUME CatBoth, CatIdle, Catalog!CreateProduct \/ Catalog!CreateArea \/ Catalog!CreateStory
           \/ Catalog!CreateTask
    PROVE  CatBoth'
<1>0. CatIInv /\ page \in CatPageRec /\ page \in CatPageBase /\ CatSeenOK(seen) /\ log \in CatLogRec
      /\ CatFormed(page, seen, log)
         /\ Catalog!Product(page, seen) \in CatPerhaps(Catalog!Of("product"))
  BY CatPageFacts, CatDerivedTyped DEF CatBoth
<1>1. CatClosed(page)
  BY DEF Catalog!CreateProduct, Catalog!CreateArea, Catalog!CreateStory, Catalog!CreateTask,
     Catalog!OnConsole, Catalog!OnPage, Catalog!Modal, CatClosed
<1>2. /\ Catalog!ShownFeature(page, seen) \in CatPerhaps(Catalog!Of("feature"))
         /\ Catalog!ShownStory(page, seen) \in CatPerhaps(Catalog!Of("story"))
  BY <1>0, CatDerivedTyped DEF CatPerhaps
<1> DEFINE Ready(pg) == /\ pg \in CatPageRec /\ pg.dlg = page.dlg /\ pg.ask = page.ask
                             /\ pg.draft = page.draft
                        /\ pg.dep = page.dep /\ pg.store = page.store /\ pg.story = page.story
                        /\ pg.tab = page.tab /\ pg.console = page.console
                        /\ \A x \in {"story", "task"} : pg.editing[x] \in {Nobody, page.editing[x]}
<1>3. ASSUME NEW pg, Ready(pg), NEW k \in Catalog!Kinds \ {"capability"},
             NEW n \in RowIds \cup {Nobody, Catalog!Top},
             Catalog!Opens(pg, k, "create", n), n = Catalog!Parent(k)
      PROVE  CatBoth'
  <2>1. pg.draft["product"] \in {Nobody, page.draft["product"], Catalog!Product(pg, seen)}
    BY <1>3
  <2>2. \A x \in {"story", "task"} : pg.editing[x] # Nobody => pg.draft[x] = pg.editing[x]
    BY <1>0, <1>3 DEF CatFormed
  <2> DEFINE new == [pg EXCEPT !.dlg[k] = "create"]
  <2>3. new \in CatPageRec /\ new.store = page.store /\ new.story = page.story /\ new.tab = page.tab
        /\ new.console = page.console
    BY <1>3 DEF CatPageRec, CatPageBase
  <2>4. page' = Catalog!Rendered(new, seen) /\ UNCHANGED <<table, seen>>
    BY <1>3 DEF Catalog!Opens
  <2> HIDE DEF new
  <2>5. /\ page'.store = page.store
        /\ Catalog!Product(page', seen) = Catalog!Product(page, seen)
        /\ Catalog!ShownFeature(page', seen) = Catalog!ShownFeature(page, seen)
           /\ Catalog!ShownStory(page', seen) = Catalog!ShownStory(page, seen)
        /\ Catalog!Mounted(page', seen) = Catalog!Mounted(page, seen)
    BY <1>0, <2>3, <2>4, CatSameShown
  <2>6. Catalog!Parent(k)' = Catalog!Parent(k)
    BY <2>4, <2>5 DEF Catalog!Parent
  <2>7. CatCreateIn(k, n)'
    BY <1>3, <2>6 DEF CatCreateIn
  <2> QED
    BY <1>0, <1>1, <1>3, <2>1, <2>2, <2>5, <2>7, CatOpensKeeps
<1>4. Ready(page) /\ Ready([page EXCEPT !.editing["story"] = Nobody])
      /\ Ready([page EXCEPT !.editing["task"] = Nobody])
  BY <1>0 DEF CatPageRec, CatPageBase, CatPerhaps, Catalog!Kinds
<1> HIDE DEF Ready
<1>5. CASE Catalog!CreateProduct
  BY <1>3, <1>4, <1>5, CatRowFacts DEF Catalog!CreateProduct, Catalog!Parent, Catalog!Kinds
<1>6. CASE Catalog!CreateArea
  BY <1>0, <1>3, <1>4, <1>6, CatRowFacts DEF Catalog!CreateArea, Catalog!Parent, Catalog!Kinds,
     CatPerhaps
<1>7. CASE Catalog!CreateStory
  BY <1>2, <1>3, <1>4, <1>7, CatRowFacts DEF Catalog!CreateStory, Catalog!Parent,
     Catalog!Kinds, CatPerhaps
<1>8. CASE Catalog!CreateTask
  BY <1>2, <1>3, <1>4, <1>8, CatRowFacts DEF Catalog!CreateTask, Catalog!Parent, Catalog!Kinds,
     CatPerhaps
<1> QED
  BY <1>5, <1>6, <1>7, <1>8

\* A node is selected, and a capability or a feature created under it.
LEMMA CatCreateCapabilityKeeps == ASSUME CatBoth, CatIdle,
NEW n \in RowIds, Catalog!CreateCapability(n) PROVE CatBoth'
<1>0. CatIInv /\ page \in CatPageRec /\ page \in CatPageBase /\ CatSeenOK(seen) /\ log \in CatLogRec
      /\ CatFormed(page, seen, log)
         /\ Catalog!Product(page, seen) \in CatPerhaps(Catalog!Of("product"))
  BY CatPageFacts, CatDerivedTyped DEF CatBoth
<1>1. CatClosed(page) /\ page.tab = "design" /\ page.console # "work_items"
  BY DEF Catalog!CreateCapability, Catalog!OnConsole, Catalog!OnPage, Catalog!Modal, CatClosed
<1>2. n \in Catalog!Found(Catalog!Tree(page, seen)) /\ n # Nobody /\ (RowSort[n] = "area"
      \/ RowSort[n] = "capability")
  BY <1>0, CatDerivedTyped DEF Catalog!CreateCapability, CatPerhaps, Catalog!Of
<1> DEFINE pg == Catalog!Selecting(n)
           new == [pg EXCEPT !.dlg["capability"] = "create"]
<1>3. /\ Catalog!AreaOf(n) \in Catalog!Of("area") /\ n \in CatNodeIds /\ (RowSort[n] = "area"
         => Catalog!AreaOf(n) = n)
      /\ pg \in CatPageRec /\ CatButStore(pg, page)
      /\ CatStores(pg, page.store.product, Catalog!AreaOf(n), IF RowSort[n] = "area" THEN Nobody ELSE n, Nobody)
  BY <1>0, <1>2, CatSelectingTyped
<1>4. Catalog!Opens(pg, "capability", "create", n)
  BY DEF Catalog!CreateCapability
<1> HIDE DEF pg
<1>5. /\ new \in CatPageRec /\ new.store = pg.store /\ new.tab = page.tab /\ new.console = page.console
  BY <1>3 DEF CatPageRec, CatPageBase, CatButStore, Catalog!Kinds
<1>6. page' = Catalog!Rendered(new, seen) /\ UNCHANGED <<table, seen>> /\ log'.used = log.used
  BY <1>0, <1>4 DEF Catalog!Opens, CatLogRec
<1> HIDE DEF new
<1>7. page.store.product = Catalog!Product(page, seen) /\ CatAgree(seen, seen)
  BY <1>0 DEF CatFormed, CatAgree
<1>8. Catalog!Product(new, seen) = Catalog!Product(page, seen)
      /\ new.store.product = Catalog!Product(page, seen)
  BY <1>3, <1>5, <1>7 DEF CatStores, Catalog!Product
<1>9. /\ page' \in CatPageRec /\ page'.tab = page.tab /\ page'.console = page.console
      /\ page'.store.product = page.store.product /\ page'.store.area = Catalog!AreaOf(n)
      /\ page'.store.cap = IF RowSort[n] = "area" THEN Nobody ELSE n
  BY <1>0, <1>3, <1>5, <1>6, <1>7, <1>8, CatRenderedFacts DEF CatStores
<1>10. /\ Catalog!Product(page', seen) = Catalog!Product(page, seen)
       /\ Catalog!Mounted(page', seen) \subseteq Catalog!Mounted(page, seen) \cup CatTaskQueries
  BY <1>0, <1>1, <1>7, <1>9, CatSameDerived
<1>11. CatKnown(table, log.used, n, Catalog!Product(page, seen))
  <2>1. Catalog!Product(page, seen) \in Catalog!Of("product")
        /\ n \in Catalog!Found(seen[<<"tree", Catalog!Product(page, seen)>>])
    BY <1>0, <1>2 DEF Catalog!Tree, Catalog!Answer, Catalog!Found, CatPerhaps
  <2> QED
    BY <1>0, <2>1 DEF CatIInv, CatSettled, CatTreesKnown, Catalog!Found
<1>12. CatCreateIn("capability", n)'
  <2>1. Catalog!Parent("capability")' = n
    BY <1>2, <1>3, <1>9 DEF Catalog!Parent
  <2>2. CatHere(n)'
    BY <1>6, <1>10, <1>11 DEF CatHere
  <2> QED
    BY <2>1, <2>2 DEF CatCreateIn
<1>13. pg.dlg = page.dlg /\ pg.ask = page.ask /\ pg.dep = page.dep /\ pg.draft = page.draft
       /\ pg.editing = page.editing
  BY <1>3 DEF CatButStore
<1>14. \A x \in {"story", "task"} : pg.editing[x] # Nobody => pg.draft[x] = pg.editing[x]
  BY <1>0, <1>13 DEF CatFormed
<1> QED
  BY <1>0, <1>1, <1>3, <1>4, <1>10, <1>12, <1>13, <1>14, CatOpensKeeps DEF Catalog!Kinds

\* A row is edited: its form is its own.
LEMMA CatEditingKeeps ==
    ASSUME CatBoth, CatIdle,
           \/ \E i \in RowIds : Catalog!EditNode(i) \/ Catalog!EditItem(i)
           \/ \E p \in Catalog!Of("product") : Catalog!EditProduct(p)
    PROVE  CatBoth'
<1>0. CatIInv /\ page \in CatPageRec /\ page \in CatPageBase /\ CatSeenOK(seen)
      /\ CatFormed(page, seen, log)
  BY CatPageFacts DEF CatBoth
<1>1. CatClosed(page)
  BY DEF Catalog!EditNode, Catalog!EditItem, Catalog!EditProduct, Catalog!CatalogRows,
     Catalog!OnConsole, Catalog!OnPage, Catalog!Modal, CatClosed
<1>2. ASSUME NEW i \in RowIds, Catalog!EditNode(i) PROVE CatBoth'
  <2> DEFINE s == Catalog!Selecting(i)
             k == Catalog!KindOf(i)
             pg == [s EXCEPT !.draft[k] = i]
  <2>1. i \in Catalog!Found(Catalog!Tree(page, seen))
    BY <1>0, <1>2, CatOfferedInTree DEF Catalog!EditNode
  <2>2. /\ Catalog!AreaOf(i) \in Catalog!Of("area") /\ i \in CatNodeIds /\ (RowSort[i] = "area"
           => Catalog!AreaOf(i) = i)
        /\ s \in CatPageRec /\ CatButStore(s, page)
        /\ CatStores(s, page.store.product, Catalog!AreaOf(i), IF RowSort[i] = "area" THEN Nobody ELSE i, Nobody)
    BY <1>0, <2>1, CatSelectingTyped
  <2>3. k = IF RowSort[i] = "area" THEN "area" ELSE "capability"
    BY <2>2 DEF Catalog!KindOf, CatNodeIds, Catalog!Nodes
  <2>4. Catalog!Opens(pg, k, "edit", i)
    BY <1>2 DEF Catalog!EditNode
  <2> HIDE DEF s, k
  <2>5. /\ pg \in CatPageRec /\ pg.dlg = page.dlg /\ pg.ask = page.ask /\ pg.dep = page.dep
        /\ pg.store = s.store /\ pg.editing = page.editing /\ pg.draft[k] = i
        /\ \A l \in Catalog!Kinds \ {k} : pg.draft[l] = page.draft[l]
    BY <2>2, <2>3 DEF CatPageRec, CatPageBase, CatButStore, Catalog!Kinds, CatPerhaps
  <2> HIDE DEF pg
  <2>6. /\ k = "area" => pg.store.area \in {Nobody, pg.draft["area"]}
        /\ k = "capability" => pg.store.cap \in {Nobody, pg.draft["capability"]}
    BY <2>2, <2>3, <2>5 DEF CatStores
  <2>7. \A x \in {"story", "task"} : pg.editing[x] # Nobody => pg.draft[x] = pg.editing[x]
    BY <1>0, <2>3, <2>5 DEF CatFormed, Catalog!Kinds
  <2>8. pg.draft["product"] = page.draft["product"]
    BY <2>3, <2>5 DEF Catalog!Kinds
  <2>9. k \in Catalog!Kinds
    BY <2>3 DEF Catalog!Kinds
  <2> QED
    BY <1>1, <2>4, <2>5, <2>6, <2>7, <2>8, <2>9, CatOpensKeeps
<1>3. ASSUME NEW i \in RowIds, Catalog!EditItem(i) PROVE CatBoth'
  <2> DEFINE k == RowSort[i]
             pg == [page EXCEPT !.editing[k] = i, !.draft[k] = i]
  <2>1. k \in {"story", "task"} /\ i \in CatOfKind(k)
    BY <1>0, <1>3, CatOfferedInTree DEF Catalog!EditItem, Catalog!Of, CatOfKind, Catalog!KindOf
  <2>2. Catalog!Opens(pg, k, "edit", i)
    BY <1>3 DEF Catalog!EditItem
  <2> HIDE DEF k
  <2>3. /\ pg \in CatPageRec /\ pg.dlg = page.dlg /\ pg.ask = page.ask /\ pg.dep = page.dep
        /\ pg.draft[k] = i /\ pg.editing[k] = i
        /\ \A l \in Catalog!Kinds \ {k} : pg.draft[l] = page.draft[l] /\ pg.editing[l] = page.editing[l]
    <3>1. pg \in CatPageBase /\ pg.ask = page.ask
          /\ \A l \in Catalog!Kinds : pg.editing[l] = IF l = k THEN i ELSE page.editing[l]
      BY <1>0, <2>1 DEF CatPageBase, Catalog!Kinds, CatPerhaps
    <3>2. pg \in CatPageRec
      BY <1>0, <2>1, <3>1 DEF CatPageRec, CatPerhaps
    <3> QED
      BY <1>0, <2>1, <3>1, <3>2 DEF CatPageBase, Catalog!Kinds
  <2> HIDE DEF pg
  <2>4. \A x \in {"story", "task"} : pg.editing[x] # Nobody => pg.draft[x] = pg.editing[x]
    BY <1>0, <2>3 DEF CatFormed, Catalog!Kinds
  <2>5. pg.draft["product"] = page.draft["product"] /\ k \in Catalog!Kinds /\ k # "area"
        /\ k # "capability"
    BY <2>1, <2>3 DEF Catalog!Kinds
  <2> QED
    BY <1>0, <1>1, <2>2, <2>3, <2>4, <2>5, CatOpensKeeps
<1>4. ASSUME NEW p \in Catalog!Of("product"), Catalog!EditProduct(p) PROVE CatBoth'
  <2> DEFINE s == Catalog!SetProduct(page, p)
             pg == [s EXCEPT !.draft["product"] = p]
  <2>1. p \in Catalog!Found(seen[Catalog!List]) /\ p \in RowIds
    BY <1>4, CatRowFacts DEF Catalog!EditProduct, Catalog!CatalogRows
  <2>2. s \in CatPageRec /\ CatButStore(s, page) /\ s.store.product = p
    BY <1>0, CatSettersTyped DEF CatPerhaps, CatStores
  <2>3. Catalog!Opens(pg, "product", "edit", p)
    BY <1>4 DEF Catalog!EditProduct
  <2> HIDE DEF s
  <2>4. /\ pg \in CatPageRec /\ pg.dlg = page.dlg /\ pg.ask = page.ask /\ pg.dep = page.dep
        /\ pg.store = s.store /\ pg.editing = page.editing /\ pg.draft["product"] = p
        /\ \A l \in Catalog!Kinds \ {"product"} : pg.draft[l] = page.draft[l]
    BY <2>1, <2>2 DEF CatPageRec, CatPageBase, CatButStore, Catalog!Kinds, CatPerhaps
  <2> HIDE DEF pg
  <2>5. Catalog!Product(pg, seen) = p
    BY <2>1, <2>2, <2>4, CatPickIn DEF Catalog!Product
  <2>6. \A x \in {"story", "task"} : pg.editing[x] # Nobody => pg.draft[x] = pg.editing[x]
    BY <1>0, <2>4 DEF CatFormed, Catalog!Kinds
  <2> QED
    BY <1>0, <1>1, <2>1, <2>3, <2>4, <2>5, <2>6, CatOpensKeeps DEF Catalog!Kinds
<1> QED
  BY <1>2, <1>3, <1>4

\* The route of one product.
LEMMA CatRoutedFacts ==
    ASSUME CatIInv, NEW pg \in CatPageRec,
           NEW p \in Catalog!Found(seen[Catalog!List]), pg.store.product = p, pg.draft = page.draft,
           pg.editing = page.editing
    PROVE  LET X == Catalog!Routed(pg, p)
           IN  /\ X \in CatPageRec /\ X.dlg = pg.dlg /\ X.dep \in {pg.dep, Catalog!NoDependency}
               /\ \A r \in Catalog!Removals : X.ask[r] \in {Nobody, pg.ask[r]}
               /\ X.store.product = p /\ Catalog!Product(X, seen) = p
                  /\ X.draft["product"] \in {Nobody, p}
               /\ \A k \in {"story", "task"} : X.editing[k] # Nobody => X.draft[k] = X.editing[k]
<1>0. page \in CatPageRec /\ CatSeenOK(seen) /\ CatFormed(page, seen, log)
      /\ p \in Catalog!Of("product") /\ p # Nobody
  <2>1. page \in CatPageRec /\ CatSeenOK(seen) /\ CatFormed(page, seen, log)
    BY CatPageFacts
  <2>2. p \in Catalog!Of("product")
    BY <2>1, CatAnswersTyped
  <2> QED
    BY <2>1, <2>2, CatRowFacts
<1> DEFINE fresh == [pg EXCEPT !.tab = "design", !.console = "areas", !.story = Nobody,
                               !.draft = [k \in Catalog!Kinds |-> Nobody], !.editing = [k \in Catalog!Kinds |-> Nobody],
                               !.ask = [r \in Catalog!Removals |-> Nobody], !.dep = Catalog!NoDependency]
           opened == IF pg.route = Nobody THEN fresh ELSE pg
           seeded == Catalog!Rendered(opened, seen)
           moved == IF pg.route = p THEN seeded ELSE Catalog!SetProduct(seeded, p)
           X == [moved EXCEPT !.route = p, !.draft["product"] = IF pg.route = Nobody THEN p ELSE @]
<1>1. /\ fresh \in CatPageRec /\ fresh.dlg = pg.dlg /\ fresh.dep = Catalog!NoDependency
         /\ fresh.store = pg.store
      /\ \A r \in Catalog!Removals : fresh.ask[r] = Nobody
      /\ \A k \in Catalog!Kinds : fresh.editing[k] = Nobody
  BY DEF CatPageRec, CatPageBase, CatDepRec, Catalog!NoDependency, CatPerhaps, Catalog!Tabs,
     Catalog!Consoles
<1> HIDE DEF fresh
<1>2. /\ opened \in CatPageRec /\ opened.dlg = pg.dlg /\ opened.dep \in {pg.dep, Catalog!NoDependency}
      /\ opened.store.product = p
      /\ \A r \in Catalog!Removals : opened.ask[r] \in {Nobody, pg.ask[r]}
      /\ \A k \in {"story", "task"} : opened.editing[k] # Nobody => opened.draft[k] = opened.editing[k]
      /\ pg.route # Nobody => opened.draft["product"] = page.draft["product"]
  BY <1>0, <1>1 DEF CatFormed, Catalog!Kinds
<1> HIDE DEF opened
<1>3. Catalog!Product(opened, seen) = p
  BY <1>2, CatPickIn DEF Catalog!Product
<1>4. /\ seeded \in CatPageRec /\ seeded.dlg = pg.dlg /\ seeded.dep = opened.dep
         /\ seeded.ask = opened.ask
      /\ seeded.store.product = p /\ seeded.editing = opened.editing
      /\ seeded.draft["product"] = IF p \notin {Nobody, Catalog!Product(page, seen)} THEN p ELSE opened.draft["product"]
      /\ \A k \in {"story", "task"} : seeded.draft[k] = opened.draft[k]
  BY <1>0, <1>2, <1>3, CatRenderedFacts
<1> HIDE DEF seeded
<1>5. moved \in CatPageRec /\ CatButStore(moved, seeded) /\ moved.store.product = p
  BY <1>0, <1>4, CatSettersTyped DEF CatPerhaps, CatButStore, CatStores
<1>6. pg.route # Nobody => moved.draft["product"] \in {Nobody, p}
  BY <1>0, <1>2, <1>4, <1>5 DEF CatButStore, CatFormed
<1>7. Catalog!Routed(pg, p) = X
  BY DEF Catalog!Routed, fresh, opened, seeded
<1> HIDE DEF moved
<1>8. /\ X \in CatPageRec /\ X.dlg = moved.dlg /\ X.dep = moved.dep /\ X.ask = moved.ask
         /\ X.store = moved.store
      /\ X.editing = moved.editing /\ X.draft["product"] \in {Nobody, p}
      /\ \A k \in Catalog!Kinds \ {"product"} : X.draft[k] = moved.draft[k]
  BY <1>0, <1>5, <1>6, CatRowFacts DEF CatPageRec, CatPageBase, Catalog!Kinds, CatPerhaps
<1> HIDE DEF X
<1>9. Catalog!Product(X, seen) = p
  BY <1>5, <1>8, CatPickIn DEF Catalog!Product
<1>10. \A k \in {"story", "task"} : X.editing[k] # Nobody => X.draft[k] = X.editing[k]
  BY <1>2, <1>4, <1>5, <1>8 DEF CatButStore, Catalog!Kinds
<1> QED
  BY <1>2, <1>4, <1>5, <1>7, <1>8, <1>9, <1>10 DEF CatButStore

\* Another route: nothing is open but, perhaps, the dialog that edits a row.
LEMMA CatRoutedKeeps ==
    ASSUME CatBoth, CatIdle, CatClosed(page), NEW pg \in CatPageRec,
           NEW p \in Catalog!Found(seen[Catalog!List]), pg.store.product = p,
           pg.draft = page.draft, pg.editing = page.editing,
           page' = Catalog!Routed(pg, p), pg.dep = page.dep, pg.ask = page.ask,
           NEW k \in Catalog!Kinds, pg.dlg[k] \in {"closed", "edit"},
           \A l \in Catalog!Kinds \ {k} : pg.dlg[l] = "closed",
           UNCHANGED <<table, seen, due, jobs, rough>>,
           log' \in CatLogRec, log'.used = log.used,
           pg.dlg[k] = "edit" /\ k \in {"area", "capability"} => log'.book[k]
    PROVE  CatBoth'
<1>0. CatIInv /\ CatTyped /\ CatSettled(table, log, seen)
  BY DEF CatBoth, CatIInv
<1>1. /\ page' \in CatPageRec /\ page'.dlg = pg.dlg /\ page'.dep \in {page.dep, Catalog!NoDependency}
      /\ \A r \in Catalog!Removals : page'.ask[r] = Nobody
      /\ page'.store.product = p /\ Catalog!Product(page', seen) = p
         /\ page'.draft["product"] \in {Nobody, p}
      /\ \A x \in {"story", "task"} : page'.editing[x] # Nobody => page'.draft[x] = page'.editing[x]
  BY <1>0, CatRoutedFacts DEF CatClosed
<1>2. CatFormed(page', seen, log')
  BY <1>1 DEF CatFormed, Catalog!Kinds
<1>4. CatSettled(table, log', seen)
  BY <1>0 DEF CatSettled
<1>5. CatIInv'
  BY <1>0, <1>1, <1>2, <1>4 DEF CatIInv, CatTyped
<1>6. ~ rough => jobs = {} /\ CatMirror(table, seen, due)
  BY CatPartlyNone DEF CatBoth, CatWaited, CatIdle, Catalog!Quiet
<1>7. CatOneOpen(page') /\ CatAimed'
  BY <1>1 DEF CatOneOpen, CatAimed
<1> QED
  BY <1>5, <1>6, <1>7, CatMirrorMore DEF CatBoth, CatWaited

\* The console of a product of the list.
LEMMA CatManageKeeps == ASSUME CatBoth, CatIdle,
NEW p \in Catalog!Of("product"), Catalog!ManageProduct(p) PROVE CatBoth'
<1>0. CatIInv /\ page \in CatPageRec /\ page \in CatPageBase /\ CatSeenOK(seen) /\ log \in CatLogRec
  BY CatPageFacts DEF CatBoth
<1>1. CatClosed(page) /\ p \in Catalog!Found(seen[Catalog!List])
  BY DEF Catalog!ManageProduct, Catalog!CatalogRows, Catalog!OnPage, Catalog!Modal, CatClosed
<1> DEFINE s == Catalog!SetProduct(page, p)
           pg == [s EXCEPT !.tab = "design"]
<1>2. s \in CatPageRec /\ CatButStore(s, page) /\ s.store.product = p
  BY <1>0, CatSettersTyped DEF CatPerhaps, CatStores
<1>3. page' = Catalog!Routed(pg, p) /\ UNCHANGED <<table, seen, due, jobs, log, rough>>
  BY DEF Catalog!ManageProduct
<1> HIDE DEF s
<1>4. /\ pg \in CatPageRec /\ pg.store.product = p /\ pg.draft = page.draft /\ pg.editing = page.editing
      /\ pg.dep = page.dep /\ pg.ask = page.ask /\ pg.dlg = page.dlg /\ pg.route = page.route
  BY <1>2 DEF CatPageRec, CatPageBase, CatButStore, Catalog!Tabs
<1> HIDE DEF pg
<1> QED
  BY <1>0, <1>1, <1>3, <1>4, CatRoutedKeeps DEF CatClosed, Catalog!Kinds

\* A row of the book is edited.
LEMMA CatEditRowKeeps ==
    ASSUME CatBoth, CatIdle, Catalog!OnBook, NEW pg \in CatPageRec,
           CatButStore(pg, page), pg.store.product = Catalog!Product(page, seen),
           NEW i \in RowIds, RowSort[i] \in Catalog!Nodes \cup {"product"}, Catalog!EditRow(pg, i)
    PROVE  CatBoth'
<1>0. CatIInv /\ log \in CatLogRec /\ CatClosed(page)
      /\ Catalog!Product(page, seen) \in Catalog!Found(seen[Catalog!List])
  BY CatPageFacts, CatBookFacts DEF CatBoth
<1> DEFINE k == Catalog!KindOf(i)
           new == [pg EXCEPT !.dlg[k] = "edit"]
<1>1. k \in Catalog!Kinds /\ (k # "product" => RowSort[i] # "product")
  BY DEF Catalog!KindOf, Catalog!Kinds, Catalog!Nodes
<1>2. page' = Catalog!Routed(new, Catalog!Product(page, seen))
      /\ UNCHANGED <<table, seen, due, jobs, rough>>
      /\ log' = [log EXCEPT !.goal[k] = i, !.book[k] = RowSort[i] # "product"]
  BY DEF Catalog!EditRow
<1> HIDE DEF k
<1>3. /\ new \in CatPageRec /\ new.store.product = Catalog!Product(page, seen) /\ new.draft = page.draft
      /\ new.editing = page.editing /\ new.dep = page.dep /\ new.ask = page.ask
      /\ new.dlg[k] = "edit" /\ \A l \in Catalog!Kinds \ {k} : new.dlg[l] = "closed"
  BY <1>0, <1>1 DEF CatPageRec, CatPageBase, CatButStore, CatClosed
<1> HIDE DEF new
<1>4. log' \in CatLogRec /\ log'.used = log.used /\ (k # "product"
      => log'.book[k])
  BY <1>0, <1>1, <1>2 DEF CatLogRec
<1> QED
  BY <1>0, <1>1, <1>2, <1>3, <1>4, CatRoutedKeeps

\* A row of the book is edited, under the route of its product.
LEMMA CatBookKeeps ==
    ASSUME CatBoth, CatIdle, \/ Catalog!EditBook
                             \/ \E i \in RowIds : Catalog!EditAreaOfBook(i)
                                \/ \E a \in Catalog!Of("area") : Catalog!EditCapabilityOfBook(a, i)
    PROVE  CatBoth'
<1>1. CatIInv /\ Catalog!OnBook
  BY DEF CatBoth, Catalog!EditBook, Catalog!EditAreaOfBook, Catalog!EditCapabilityOfBook
<1>2. /\ Catalog!Product(page, seen) \in Catalog!Of("product") /\ Catalog!OfBook \in CatPageRec
         /\ CatButStore(Catalog!OfBook, page)
      /\ Catalog!OfBook.store.product = Catalog!Product(page, seen)
      /\ Catalog!BookAreas \subseteq Catalog!Of("area")
         /\ \A a : Catalog!AreaChapter(a) \subseteq CatCaps
  BY <1>1, CatBookFacts
<1>3. CASE Catalog!EditBook
  BY <1>1, <1>2, <1>3, CatEditRowKeeps DEF Catalog!EditBook, Catalog!Of
<1>4. ASSUME NEW i \in RowIds, Catalog!EditAreaOfBook(i) PROVE CatBoth'
  <2> DEFINE pg == Catalog!SetArea(Catalog!OfBook, i)
  <2>1. i \in Catalog!Of("area") /\ Catalog!EditRow(pg, i)
    BY <1>2, <1>4 DEF Catalog!EditAreaOfBook
  <2>2. pg \in CatPageRec /\ CatButStore(pg, Catalog!OfBook)
        /\ pg.store.product = Catalog!OfBook.store.product
    BY <1>2, <2>1, CatSettersTyped DEF CatPerhaps, CatStores
  <2> HIDE DEF pg
  <2>3. CatButStore(pg, page)
    BY <1>2, <2>2 DEF CatButStore
  <2> QED
    BY <1>1, <1>2, <2>1, <2>2, <2>3, CatEditRowKeeps DEF Catalog!Of, Catalog!Nodes
<1>5. ASSUME NEW i \in RowIds, NEW a \in Catalog!Of("area"), Catalog!EditCapabilityOfBook(a, i) PROVE CatBoth'
  <2> DEFINE pg == Catalog!SetNode(Catalog!OfBook, a, i)
  <2>1. i \in CatCaps /\ Catalog!EditRow(pg, i)
    BY <1>2, <1>5 DEF Catalog!EditCapabilityOfBook
  <2>2. pg \in CatPageRec /\ CatButStore(pg, Catalog!OfBook)
        /\ pg.store.product = Catalog!OfBook.store.product
    BY <1>2, <2>1, CatSettersTyped DEF CatPerhaps, CatStores
  <2> HIDE DEF pg
  <2>3. CatButStore(pg, page)
    BY <1>2, <2>2 DEF CatButStore
  <2> QED
    BY <1>1, <1>2, <2>1, <2>2, <2>3, CatEditRowKeeps DEF CatCaps, Catalog!Nodes
<1> QED
  BY <1>3, <1>4, <1>5

\* A call goes out.
LEMMA CatBeginKeeps ==
    ASSUME CatBoth, CatIdle, NEW j \in CatJobRec, j.at = "out",
           ~ rough => CatPending1(j),
           Catalog!Begin(j), log' = log
    PROVE  CatBoth'
<1>1. CatIInv /\ CatTyped /\ CatSettled(table, log, seen) /\ CatWaited
  BY DEF CatBoth, CatIInv
<1>2. PICK n : n = CHOOSE x \in Catalog!Free : TRUE
  OBVIOUS
<1>3. PICK J : J = [j EXCEPT !.n = n]
  OBVIOUS
<1>9. jobs' = jobs \cup {J} /\ UNCHANGED <<table, seen, due, page, rough>>
  BY <1>2, <1>3 DEF Catalog!Begin
<1>10. n \in Catalog!Slots
  BY <1>2 DEF Catalog!Begin, Catalog!Free
<1>4. /\ J \in CatJobRec /\ J.op = j.op /\ J.kind = j.kind /\ J.under = j.under /\ J.goal = j.goal
         /\ J.at = j.at
      /\ J.id = j.id /\ J.dep = j.dep
  BY <1>3, <1>10 DEF CatJobRec, CatJobBase
<1>5. CatIInv'
  <2>1. CatSettled(table, log, seen)
    BY <1>1
  <2> QED
    BY <1>1, <1>9, <1>4, <2>1 DEF CatIInv, CatTyped
<1>6. ASSUME ~ rough PROVE CatWaited'
  <2>1. jobs = {} /\ jobs' = {J}
    BY <1>9, <1>6 DEF CatIdle, Catalog!Quiet
  <2>2. CatPending1(J)'
    <3>1. \A k, i : CatCreateIn(k, i)' <=> CatCreateIn(k, i)
      BY <1>9 DEF CatCreateIn, Catalog!Parent, CatHere
    <3>2. \A r, i : CatRemoveIn(r, i)' <=> CatRemoveIn(r, i)
      BY <1>9 DEF CatRemoveIn, CatFeaturesSeen, CatHere
    <3> QED
      BY <1>9, <1>4, <1>6, <3>1, <3>2 DEF CatPending1
  <2>3. ~ CatFetching => CatAimed
    BY <1>1, <1>6 DEF CatWaited
  <2>4. CatAimed
    BY <2>1, <2>3 DEF CatFetching
  <2>5. CatAimed'
    <3>1. \A k, i : CatCreateIn(k, i)' <=> CatCreateIn(k, i)
      BY <1>9 DEF CatCreateIn, Catalog!Parent, CatHere
    <3>2. \A r, i : CatRemoveIn(r, i)' <=> CatRemoveIn(r, i)
      BY <1>9 DEF CatRemoveIn, CatFeaturesSeen, CatHere
    <3> QED
      BY <1>9, <2>4, <3>1, <3>2 DEF CatAimed
  <2>6. CatMirror(table, seen, due)
    BY <1>1, <1>6, <2>1, CatPartlyNone DEF CatWaited
  <2>7. CatMirror(table', seen', due' \cup CatPartly')
    BY <1>9, <2>6, CatMirrorMore
  <2> QED
    BY <1>1, <1>9, <1>6, <2>1, <2>2, <2>5, <2>7 DEF CatWaited
<1>7. CatWaited'
  BY <1>9, <1>6 DEF CatWaited
<1> QED
  BY <1>5, <1>7 DEF CatBoth

\* A call with nothing filled in.
LEMMA CatJobTyped ==
    ASSUME NEW op \in {"create", "update", "remove", "depend"},
           NEW k \in Catalog!Kinds \cup Catalog!Removals
    PROVE  /\ Catalog!Job(op, k) \in CatJobBase
           /\ Catalog!Job(op, k).op = op /\ Catalog!Job(op, k).kind = k /\ Catalog!Job(op, k).at = "out"
              /\ Catalog!Job(op, k).waits = {}
           /\ Catalog!Job(op, k).book = FALSE /\ Catalog!Job(op, k).dep = Catalog!NoDependency
              /\ Catalog!Job(op, k).id = Nobody
  BY DEF Catalog!Job, CatJobBase, CatDepRec, Catalog!NoDependency, CatPerhaps

\* A save: of the row selected, or under the node selected, which are those the
\* dialog was opened for.
LEMMA CatSaveKeeps == ASSUME CatBoth, CatIdle, NEW k \in Catalog!Kinds, Catalog!Save(k) PROVE CatBoth'
<1>0. /\ CatIInv /\ page \in CatPageRec /\ page \in CatPageBase /\ page.store \in CatStoreRec
         /\ CatSeenOK(seen)
      /\ log \in CatLogRec /\ CatFormed(page, seen, log)
  BY CatPageFacts DEF CatBoth
<1>1. Catalog!Filled(k) /\ (page.dlg[k] = "create" \/ (page.dlg[k] = "edit" /\ page.draft[k] # Nobody))
  BY DEF Catalog!Save, Catalog!CanSave, Catalog!ProductModal, Catalog!AreaModal,
     Catalog!CapabilityModal, Catalog!WorkItemModal, Catalog!Filled, Catalog!Kinds
<1> DEFINE op == IF page.dlg[k] = "edit" THEN "update" ELSE "create"
           J == [Catalog!Job(op, k) EXCEPT !.form = page.draft[k], !.goal = log.goal[k], !.book = log.book[k]]
           j == IF J.op = "update" THEN [J EXCEPT !.id = Catalog!Target(k)] ELSE [J EXCEPT !.under = Catalog!Parent(k)]
<1>2. Catalog!Begin(j) /\ log' = log
  BY DEF Catalog!Save
<1>3. op \in {"create", "update"} /\ (op = "update" <=> page.dlg[k] = "edit")
      /\ (op = "create" <=> page.dlg[k] = "create")
  BY <1>1
<1> HIDE DEF op
<1>4. /\ J \in CatJobBase /\ J.op = op /\ J.kind = k /\ J.at = "out" /\ J.waits = {}
         /\ J.dep = Catalog!NoDependency
      /\ J.form = page.draft[k] /\ J.goal = log.goal[k] /\ J.book = log.book[k] /\ J.id = Nobody
  <2>1. page.draft[k] \in CatPerhaps(RowIds) /\ log.goal[k] \in RowIds \cup {Nobody, Catalog!Top}
        /\ log.book[k] \in BOOLEAN
    BY <1>0 DEF CatPageBase, CatLogRec
  <2>2. Catalog!Job(op, k) \in CatJobBase
    BY <1>3, CatJobTyped
  <2>3. J \in CatJobBase /\ J.op = Catalog!Job(op, k).op /\ J.kind = Catalog!Job(op, k).kind
        /\ J.at = Catalog!Job(op, k).at
        /\ J.waits = Catalog!Job(op, k).waits /\ J.dep = Catalog!Job(op, k).dep
           /\ J.id = Catalog!Job(op, k).id
        /\ J.form = page.draft[k] /\ J.goal = log.goal[k] /\ J.book = log.book[k]
    BY <2>1, <2>2 DEF CatJobBase
  <2>4. /\ Catalog!Job(op, k).op = op /\ Catalog!Job(op, k).kind = k /\ Catalog!Job(op, k).at = "out"
           /\ Catalog!Job(op, k).waits = {}
        /\ Catalog!Job(op, k).dep = Catalog!NoDependency /\ Catalog!Job(op, k).id = Nobody
    BY DEF Catalog!Job
  <2> QED
    BY <2>3, <2>4
<1> HIDE DEF J
<1>5. /\ Catalog!Product(page, seen) \in CatPerhaps(Catalog!Of("product"))
         /\ Catalog!ShownFeature(page, seen) \in CatPerhaps(Catalog!Of("feature"))
      /\ Catalog!ShownStory(page, seen) \in CatPerhaps(Catalog!Of("story"))
      /\ page.store.area \in CatPerhaps(Catalog!Of("area")) /\ page.store.cap \in CatPerhaps(CatCaps)
  BY <1>0, CatDerivedTyped DEF CatPerhaps, CatStoreRec
<1>6. op = "update" => /\ Catalog!Target(k) \in CatPerhaps(CatOfKind(k))
                       /\ ~ log.book[k] /\ Catalog!Target(k) # Nobody
                          => page.draft[k] = Catalog!Target(k)
  <2> SUFFICES ASSUME op = "update"
               PROVE  /\ Catalog!Target(k) \in CatPerhaps(CatOfKind(k))
                      /\ ~ log.book[k] /\ Catalog!Target(k) # Nobody
                         => page.draft[k] = Catalog!Target(k)
    OBVIOUS
  <2>1. page.dlg[k] = "edit" /\ page.draft[k] # Nobody
    BY <1>1, <1>3
  <2>2. CASE k = "product"
    BY <1>0, <1>5, <2>1, <2>2, CatRowFacts DEF Catalog!Target, CatPerhaps, CatFormed
  <2>3. CASE k = "area"
    BY <1>0, <1>5, <2>1, <2>3, CatRowFacts DEF Catalog!Target, CatPerhaps, CatFormed
  <2>4. CASE k = "capability"
    BY <1>0, <1>5, <2>1, <2>4, CatRowFacts DEF Catalog!Target, CatPerhaps, CatFormed
  <2>5. CASE k \in {"story", "task"}
    <3>1. page.editing[k] \in CatPerhaps(CatOfKind(k)) /\ (page.editing[k] # Nobody
          => page.draft[k] = page.editing[k])
      BY <1>0, <2>5 DEF CatPageRec, CatFormed
    <3> QED
      BY <2>5, <3>1 DEF Catalog!Target
  <2> QED
    BY <2>2, <2>3, <2>4, <2>5 DEF Catalog!Kinds
<1>7. op = "create" => Catalog!Parent(k) \in CatParentsOf(k)
  <2>1. Catalog!CanSave(k)
    BY DEF Catalog!Save
  <2>2. CASE k = "product"
    BY <2>2 DEF Catalog!Parent, CatParentsOf
  <2>3. CASE k = "area"
    BY <1>5, <2>1, <2>3 DEF Catalog!Parent, CatParentsOf, Catalog!CanSave, Catalog!AreaModal,
       CatPerhaps
  <2>4. CASE k = "capability"
    BY <1>5, <2>1, <2>4, CatRowFacts DEF Catalog!Parent, CatParentsOf, Catalog!CanSave,
       Catalog!CapabilityModal, CatPerhaps
  <2>5. CASE k = "story"
    BY <1>5, <2>1, <2>5 DEF Catalog!Parent, CatParentsOf, Catalog!CanSave,
       Catalog!WorkItemModal, CatPerhaps
  <2>6. CASE k = "task"
    BY <1>5, <2>1, <2>6 DEF Catalog!Parent, CatParentsOf, Catalog!CanSave,
       Catalog!WorkItemModal, CatPerhaps
  <2> QED
    BY <2>2, <2>3, <2>4, <2>5, <2>6 DEF Catalog!Kinds
<1>8. /\ j \in CatJobBase /\ j.op = op /\ j.kind = k /\ j.at = "out" /\ j.waits = {}
         /\ j.dep = Catalog!NoDependency
      /\ j.form = page.draft[k] /\ j.goal = log.goal[k] /\ j.book = log.book[k]
      /\ op = "update" => j.id = Catalog!Target(k)
      /\ op = "create" => j.under = Catalog!Parent(k) /\ j.id = Nobody
  <2>1. op = "update" => Catalog!Target(k) \in CatPerhaps(RowIds)
    BY <1>6 DEF CatOfKind, CatPerhaps
  <2>2. op = "create" => Catalog!Parent(k) \in RowIds \cup {Nobody, Catalog!Top}
    BY <1>7, CatRowFacts DEF CatParentsOf, Catalog!Kinds
  <2>3. CASE op = "update"
    BY <1>3, <1>4, <2>1, <2>3 DEF CatJobBase
  <2>4. CASE op = "create"
    BY <1>3, <1>4, <2>2, <2>4 DEF CatJobBase
  <2> QED
    BY <1>3, <2>3, <2>4
<1> HIDE DEF j
<1>9. j \in CatJobRec
  BY <1>3, <1>6, <1>7, <1>8 DEF CatJobRec, CatPerhaps
<1>11. ~ rough => CatPending1(j)
  <2> SUFFICES ASSUME ~ rough PROVE CatPending1(j)
    OBVIOUS
  <2>1. jobs = {} /\ due \cap Catalog!Mounted(page, seen) = {} /\ CatOneOpen(page)
    BY DEF CatBoth, CatWaited, CatIdle, Catalog!Quiet
  <2>2. CatAimed
    BY <2>1 DEF CatBoth, CatWaited, CatFetching
  <2>3. op = "create" => log.goal[k] = Catalog!Parent(k) /\ CatCreateIn(k, Catalog!Parent(k))
    BY <1>3, <2>2 DEF CatAimed, CatCreateIn
  <2>4. (\A l \in Catalog!Kinds : page.dlg[l] # "closed" => l = k)
        /\ (\A r \in Catalog!Removals : page.ask[r] = Nobody)
    BY <1>1, <2>1 DEF CatOneOpen
  <2> QED
    BY <1>3, <1>8, <2>1, <2>3, <2>4 DEF CatPending1
<1> QED
  BY <1>2, <1>8, <1>9, <1>11, CatBeginKeeps

\* A removal is confirmed.
LEMMA CatConfirmKeeps == ASSUME CatBoth, CatIdle,
NEW r \in Catalog!Removals, Catalog!Confirm(r) PROVE CatBoth'
<1>0. CatIInv /\ page \in CatPageRec /\ page \in CatPageBase
  BY CatPageFacts DEF CatBoth
<1>1. page.ask[r] # Nobody /\ page.ask[r] \in CatRemovable(r) /\ page.ask[r] \in RowIds
  BY <1>0 DEF Catalog!Confirm, Catalog!DeleteProductModal, Catalog!ResetPlanModal,
     Catalog!DeleteHierarchyModal, Catalog!DeleteWorkItemModal, Catalog!Asked,
     Catalog!Removals, CatPageRec, CatPageBase, CatPerhaps
<1> DEFINE j == [Catalog!Job("remove", r) EXCEPT !.id = page.ask[r]]
<1>2. Catalog!Begin(j) /\ log' = log
  BY DEF Catalog!Confirm
<1>3. /\ j \in CatJobBase /\ j.op = "remove" /\ j.kind = r /\ j.at = "out" /\ j.waits = {}
         /\ j.dep = Catalog!NoDependency
      /\ j.id = page.ask[r]
  <2>1. Catalog!Job("remove", r) \in CatJobBase
    BY CatJobTyped
  <2>2. /\ j \in CatJobBase /\ j.op = Catalog!Job("remove", r).op
           /\ j.kind = Catalog!Job("remove", r).kind
        /\ j.at = Catalog!Job("remove", r).at /\ j.waits = Catalog!Job("remove", r).waits
           /\ j.dep = Catalog!Job("remove", r).dep
        /\ j.id = page.ask[r]
    BY <1>1, <2>1 DEF CatJobBase, CatPerhaps
  <2> QED
    BY <2>2, CatJobTyped
<1> HIDE DEF j
<1>4. j \in CatJobRec
  BY <1>1, <1>3 DEF CatJobRec
<1>5. ~ rough => CatPending1(j)
  <2> SUFFICES ASSUME ~ rough PROVE CatPending1(j)
    OBVIOUS
  <2>1. jobs = {} /\ due \cap Catalog!Mounted(page, seen) = {} /\ CatOneOpen(page)
    BY DEF CatBoth, CatWaited, CatIdle, Catalog!Quiet
  <2>2. CatAimed
    BY <2>1 DEF CatBoth, CatWaited, CatFetching
  <2>3. (\A k \in Catalog!Kinds : page.dlg[k] = "closed")
        /\ (\A s \in Catalog!Removals : page.ask[s] # Nobody => s = r)
    BY <1>1, <2>1 DEF CatOneOpen
  <2> QED
    BY <1>1, <1>3, <2>1, <2>2, <2>3 DEF CatPending1, CatAimed
<1> QED
  BY <1>2, <1>3, <1>4, <1>5, CatBeginKeeps

\* A dependency is sent as it was drafted.
LEMMA CatAddDependencyKeeps == ASSUME CatBoth, CatIdle, Catalog!AddDependency PROVE CatBoth'
<1>0. CatIInv /\ page \in CatPageRec /\ page \in CatPageBase /\ CatSeenOK(seen)
      /\ page.dep \in CatDepRec
  BY CatPageFacts DEF CatBoth, CatPageBase
<1>1. CatClosed(page) /\ Catalog!Product(page, seen) # Nobody
  BY DEF Catalog!AddDependency, Catalog!OnPage, Catalog!Modal, CatClosed
<1>2. Catalog!Product(page, seen) \in Catalog!Of("product") /\ Catalog!Product(page, seen) \in RowIds
  BY <1>0, <1>1, CatDerivedTyped, CatRowFacts DEF CatPerhaps
<1> DEFINE J == Catalog!Job("depend", "product")
           j == [J EXCEPT !.id = Catalog!Product(page, seen), !.dep = page.dep]
<1>3. Catalog!Begin(j) /\ log' = log
  BY DEF Catalog!AddDependency
<1>4. J \in CatJobBase /\ J.op = "depend" /\ J.kind = "product" /\ J.at = "out" /\ J.waits = {}
  BY CatJobTyped DEF Catalog!Kinds
<1> HIDE DEF J
<1>5. /\ j \in CatJobBase /\ j.op = "depend" /\ j.at = "out" /\ j.waits = {}
         /\ j.id = Catalog!Product(page, seen)
      /\ j.dep = page.dep
  BY <1>0, <1>2, <1>4 DEF CatJobBase, CatPerhaps
<1> HIDE DEF j
<1>6. j \in CatJobRec
  BY <1>0, <1>2, <1>5 DEF CatJobRec
<1>7. ~ rough => CatPending1(j)
  BY <1>1, <1>5 DEF CatPending1, CatClosed, CatIdle, Catalog!Quiet
<1> QED
  BY <1>3, <1>5, <1>6, <1>7, CatBeginKeeps

\* What a call changes in the database, for a person who waits: rows of the
\* product shown, stories of its features, tasks.
CatSteady(tb, tc) == \A x \in CatNodeIds : tb[x] # Nobody /\ tc[x] # Nobody
=> CatProd(tc, x) = CatProd(tb, x)
CatWithin(tb, tc, j) ==
    \A x \in RowIds : tc[x] # tb[x] =>
        /\ RowSort[x] \in {"story", "task"} => j.kind \in {"story", "task", "item", "plan"}
        /\ RowSort[x] \notin {"story", "task"} => j.kind \notin {"story", "task", "item"}
        /\ RowSort[x] \in Catalog!Nodes
           => /\ tb[x] # Nobody => CatProd(tb, x) = Catalog!Product(page, seen)
              /\ tc[x] # Nobody => CatProd(tc, x) = Catalog!Product(page, seen)
        /\ RowSort[x] = "story" => {tb[x], tc[x]} \subseteq CatPerhaps(Catalog!Listed(page, seen, "feature"))

\* A query that is not invalidated would answer the same.
LEMMA CatContentKept ==
    ASSUME CatIInv, NEW tb, Catalog!Shape(tb), NEW tc, Catalog!Shape(tc), CatSteady(tb, tc), NEW j,
           CatWithin(tb, tc, j),
           NEW q \in Catalog!Keys \ Catalog!Invalidates(j)
    PROVE  Catalog!Content(tc, q) = Catalog!Content(tb, q)
<1> DEFINE nodes == j.kind \notin {"story", "task", "item"}
           items == j.kind \in {"story", "task", "item", "plan"}
<1>1. /\ nodes => q # Catalog!List /\ (q[1] \in {"tree", "book"}
         => q[2] # Catalog!Product(page, seen))
      /\ items => q[1] # "tasks" /\ (q[1] = "stories"
         => q[2] \notin Catalog!Listed(page, seen, "feature"))
  BY CatKeyFacts DEF Catalog!Invalidates, Catalog!HierarchyKeys, Catalog!TaskKeys
<1>2. \A x \in RowIds : (tb[x] # Nobody => Catalog!Placed(tb, x)) /\ (tc[x] # Nobody
      => Catalog!Placed(tc, x))
  BY DEF Catalog!Shape
<1>3. CASE q = Catalog!List
  <2>1. \A x \in Catalog!Of("product") : tc[x] = tb[x]
    BY <1>1, <1>3 DEF CatWithin, Catalog!Of
  <2>2. {<<i, tc[i]>> : i \in {k \in Catalog!Of("product") : tc[k] # Nobody}}
            = {<<i, tb[i]>> : i \in {k \in Catalog!Of("product") : tb[k] # Nobody}}
    BY <2>1
  <2> QED
    BY <1>3, <2>2, CatKeyFacts DEF Catalog!Content, Catalog!Rows
<1>4. CASE q[1] = "tree" /\ q[2] \in Catalog!Of("product") /\ q = <<"tree", q[2]>>
  <2> DEFINE In(t) == {k \in CatNodeIds : t[k] # Nobody /\ CatProd(t, k) = q[2]}
  <2>1. ASSUME NEW x \in CatNodeIds
        PROVE  (x \in In(tb) <=> x \in In(tc)) /\ (x \in In(tb) => tc[x] = tb[x])
    <3>1. x \in RowIds /\ RowSort[x] \in Catalog!Nodes /\ RowSort[x] \notin {"story", "task"}
      BY <2>1 DEF CatNodeIds, Catalog!Nodes
    <3>2. CASE tc[x] = tb[x]
      BY <3>2, <2>1 DEF CatSteady
    <3>3. CASE tc[x] # tb[x]
      <4>1. nodes /\ (tb[x] # Nobody => CatProd(tb, x) # q[2]) /\ (tc[x] # Nobody
            => CatProd(tc, x) # q[2])
        BY <1>1, <1>4, <3>1, <3>3 DEF CatWithin
      <4> QED
        BY <4>1
    <3> QED
      BY <3>2, <3>3
  <2>2. In(tb) = In(tc) /\ \A x \in In(tb) : tc[x] = tb[x]
    BY <2>1
  <2>3. Catalog!Content(tb, q) = {<<i, tb[i]>> : i \in In(tb)}
        /\ Catalog!Content(tc, q) = {<<i, tc[i]>> : i \in In(tc)}
    BY <1>4, CatContentTree
  <2> HIDE DEF In
  <2> QED
    BY <2>2, <2>3
<1>5. CASE q[1] = "book" /\ q[2] \in Catalog!Of("product") /\ q = <<"book", q[2]>>
  <2> DEFINE In(t) == {k \in {i \in Catalog!Of("area") : t[i] = q[2]} : t[k] # Nobody}
  <2>1. ASSUME NEW x \in Catalog!Of("area")
        PROVE  (x \in In(tb) <=> x \in In(tc)) /\ (x \in In(tb) => tc[x] = tb[x])
    <3>1. x \in RowIds /\ RowSort[x] = "area" /\ RowSort[x] \in Catalog!Nodes
          /\ RowSort[x] \notin {"story", "task"}
      BY <2>1 DEF Catalog!Of, Catalog!Nodes
    <3>2. CASE tc[x] # tb[x]
      <4>1. CatProd(tb, x) = tb[x] /\ CatProd(tc, x) = tc[x]
        BY <3>1 DEF CatProd
      <4>2. (tb[x] # Nobody => tb[x] # q[2]) /\ (tc[x] # Nobody => tc[x] # q[2])
        BY <1>1, <1>5, <3>1, <3>2, <4>1 DEF CatWithin
      <4> QED
        BY <4>2
    <3> QED
      BY <2>1, <3>2
  <2>2. In(tb) = In(tc) /\ \A x \in In(tb) : tc[x] = tb[x]
    BY <2>1
  <2>3. Catalog!Content(tb, q) = {<<i, tb[i]>> : i \in In(tb)}
        /\ Catalog!Content(tc, q) = {<<i, tc[i]>> : i \in In(tc)}
    BY <1>5 DEF Catalog!Content, Catalog!Rows
  <2> HIDE DEF In
  <2> QED
    BY <2>2, <2>3
<1>6. CASE \/ q[1] = "stories" /\ q[2] \in Catalog!Of("feature") /\ q = <<"stories", q[2]>>
           \/ q[1] = "tasks" /\ q[2] \in Catalog!Of("story") /\ q = <<"tasks", q[2]>>
  <2> DEFINE In(t) == {k \in {i \in RowIds : t[i] = q[2]
      /\ RowSort[i] \in {"story", "task"}} : t[k] # Nobody}
  <2>0. q[2] # Nobody
    BY <1>6, CatRowFacts
  <2>1. ASSUME NEW x \in RowIds
        PROVE  (x \in In(tb) <=> x \in In(tc)) /\ (x \in In(tb) => tc[x] = tb[x])
    <3>2. CASE tc[x] # tb[x] /\ RowSort[x] \in {"story", "task"}
      <4>1. items /\ q[1] = "stories" /\ q[2] \in Catalog!Of("feature")
        BY <1>1, <1>6, <2>1, <3>2 DEF CatWithin
      <4>2. CASE RowSort[x] = "story"
        BY <1>1, <2>0, <3>2, <4>1, <4>2 DEF CatWithin, CatPerhaps
      <4>3. CASE RowSort[x] = "task"
        BY <1>2, <2>0, <4>1, <4>3 DEF Catalog!Placed, Catalog!Of
      <4> QED
        BY <3>2, <4>2, <4>3
    <3> QED
      BY <2>1, <3>2
  <2>2. In(tb) = In(tc) /\ \A x \in In(tb) : tc[x] = tb[x]
    BY <2>1
  <2>3. Catalog!Content(tb, q) = {<<i, tb[i]>> : i \in In(tb)}
        /\ Catalog!Content(tc, q) = {<<i, tc[i]>> : i \in In(tc)}
    BY <1>6 DEF Catalog!Content, Catalog!Rows
  <2> HIDE DEF In
  <2> QED
    BY <2>2, <2>3
<1> QED
  BY <1>3, <1>4, <1>5, <1>6, CatKeyFacts

\* An answer, and the queries it makes due.
LEMMA CatAnsweredKeeps ==
    ASSUME CatBoth, NEW j \in jobs, j.at = "out", j.op # "depend",
           NEW i \in RowIds, Catalog!Answered(j, i),
           j.op \in {"create", "update"} => i \in CatOfKind(j.kind),
           j.op \in {"update", "remove"} => i = j.id,
           UNCHANGED <<seen, page, rough>>,
           log' \in CatLogRec, log'.book = log.book, log.used \subseteq log'.used,
           Catalog!Shape(table'), CatSteady(table, table'), \A x \in RowIds : table'[x] # Nobody
           => x \in log'.used,
           \A x \in log.used : table'[x] # Nobody => table[x] # Nobody,
           ~ rough => CatWithin(table, table', j)
    PROVE  CatBoth'
<1>0. /\ CatIInv /\ CatTyped /\ CatSettled(table, log, seen) /\ CatWaited
         /\ CatFormed(page, seen, log)
      /\ page \in CatPageRec /\ CatSeenOK(seen) /\ j \in CatJobRec /\ due \subseteq Catalog!Keys
  BY DEF CatBoth, CatIInv, CatTyped
<1>1. PICK J : J = [j EXCEPT !.at = "fetch", !.id = i, !.shown = Catalog!Product(page, seen),
                             !.waits = Catalog!Invalidates(j) \cap Catalog!Mounted(page, seen)]
  OBVIOUS
<1>2. jobs' = (jobs \ {j}) \cup {J} /\ due' = due \cup Catalog!Invalidates(j)
  BY <1>1 DEF Catalog!Answered
<1>3. Catalog!Product(page, seen) \in CatPerhaps(Catalog!Of("product"))
      /\ Catalog!Mounted(page, seen) \subseteq Catalog!Keys
  BY <1>0, CatDerivedTyped
<1>4. Catalog!Invalidates(j) \subseteq Catalog!Keys
  BY CatKeyFacts DEF Catalog!Invalidates, Catalog!TaskKeys, Catalog!HierarchyKeys
<1>5. /\ J \in CatJobBase /\ J.at = "fetch" /\ J.id = i /\ J.op = j.op /\ J.kind = j.kind
         /\ J.dep = j.dep
      /\ J.under = j.under /\ J.goal = j.goal /\ J.form = j.form /\ J.book = j.book
  <2>1. Catalog!Invalidates(j) \cap Catalog!Mounted(page, seen) \in SUBSET Catalog!Keys
        /\ i \in CatPerhaps(RowIds)
    BY <1>4 DEF CatPerhaps
  <2>2. j \in CatJobBase
    BY <1>0 DEF CatJobRec
  <2> QED
    BY <1>1, <1>3, <2>1, <2>2 DEF CatJobBase
<1>6. J \in CatJobRec
  BY <1>0, <1>5, CatRowFacts DEF CatJobRec, CatPerhaps
<1>7. \A x, p : CatKnown(table, log.used, x, p) => CatKnown(table', log'.used, x, p)
  BY <1>0 DEF CatKnown, CatSteady, CatTyped, CatLogRec, CatNodeIds
<1>9. CatSettled(table', log', seen)
  BY <1>0, <1>7 DEF CatSettled, CatTreesKnown
<1>10. CatIInv'
  <2>1. CatFormed(page, seen, log')
    BY <1>0 DEF CatFormed
  <2> QED
    BY <1>0, <1>2, <1>4, <1>6, <1>9, <2>1 DEF CatIInv, CatTyped
<1>11. ASSUME ~ rough PROVE CatWaited'
  <2>1. jobs' = {J} /\ CatFetching'
    BY <1>0, <1>2, <1>5, <1>11 DEF CatWaited, CatFetching
  <2>2. CatMirror(table', seen, due')
    <3>1. \A q \in Catalog!Keys \ Catalog!Invalidates(j) : Catalog!Content(table', q) = Catalog!Content(table, q)
      BY <1>0, <1>11, CatContentKept DEF CatTyped
    <3>2. CatPartly \subseteq Catalog!Invalidates(j)
      <4> SUFFICES ASSUME CatPartly # {} PROVE CatTaskQueries \subseteq Catalog!Invalidates(j)
        BY DEF CatPartly
      <4>1. j.kind = "item"
        BY <1>0, <1>11 DEF CatPartly, CatWaited
      <4> QED
        BY <4>1, CatKeyFacts DEF Catalog!Invalidates, Catalog!TaskKeys, CatTaskQueries
    <3> QED
      BY <1>0, <1>2, <1>11, <3>1, <3>2 DEF CatWaited, CatMirror
  <2>3. CatPending1(j)
    BY <1>0, <1>11 DEF CatWaited
  <2>4. CatPending1(J)'
    BY <1>5, <2>3 DEF CatPending1
  <2> QED
    BY <1>0, <1>11, <2>1, <2>2, <2>4, CatMirrorMore DEF CatWaited
<1>12. CatWaited'
  BY <1>11 DEF CatWaited
<1> QED
  BY <1>10, <1>12 DEF CatBoth

\* A row is updated.
LEMMA CatUpdatedKeeps == ASSUME CatBoth, NEW j \in jobs, Catalog!Updated(j) PROVE CatBoth'
<1>1. /\ j \in CatJobRec /\ log \in CatLogRec /\ Catalog!Shape(table)
         /\ \A x \in RowIds : table[x] # Nobody => x \in log.used
  BY DEF CatBoth, CatIInv, CatTyped, CatSettled
<1>2. /\ j.at = "out" /\ j.op = "update" /\ Catalog!Up(table, j.id) # Nobody
         /\ Catalog!Answered(j, j.id)
      /\ UNCHANGED <<table, seen, page, log, rough>>
  BY DEF Catalog!Updated
<1>3. j.id \in RowIds /\ j.id \in CatOfKind(j.kind)
  <2>1. j.id \in RowIds /\ j.id # Nobody
    BY <1>2, CatRowFacts DEF Catalog!Up
  <2>2. j.id \in CatPerhaps(CatOfKind(j.kind))
    BY <1>1, <1>2 DEF CatJobRec
  <2> QED
    BY <2>1, <2>2 DEF CatPerhaps
<1>4. CatSteady(table, table') /\ CatWithin(table, table', j)
  BY <1>2 DEF CatSteady, CatWithin
<1> QED
  BY <1>1, <1>2, <1>3, <1>4, CatAnsweredKeeps

\* A call is refused.
LEMMA CatRefusedKeeps == ASSUME CatBoth, NEW j \in jobs, Catalog!Refused(j) PROVE CatBoth'
<1>1. /\ CatIInv /\ CatTyped /\ CatSettled(table, log, seen) /\ CatWaited
      /\ j.at = "out" /\ jobs' = jobs \ {j} /\ UNCHANGED <<table, seen, due, page, log, rough>>
  BY DEF CatBoth, CatIInv, Catalog!Refused
<1>2. CatIInv'
  BY <1>1 DEF CatIInv, CatTyped, CatSettled
<1>3. ASSUME ~ rough PROVE CatWaited'
  <2>1. jobs = {j} /\ jobs' = {} /\ ~ CatFetching
    BY <1>1, <1>3 DEF CatWaited, CatFetching
  <2>2. CatAimed
    BY <1>1, <1>3, <2>1 DEF CatWaited
  <2>3. (\A k, i : CatCreateIn(k, i)' <=> CatCreateIn(k, i))
        /\ (\A r, i : CatRemoveIn(r, i)' <=> CatRemoveIn(r, i))
    BY <1>1 DEF CatCreateIn, CatRemoveIn, CatFeaturesSeen, Catalog!Parent, CatHere
  <2>4. CatAimed'
    BY <1>1, <2>2, <2>3 DEF CatAimed
  <2>5. CatMirror(table, seen, due)
    BY <1>1, <1>3, <2>1, CatPartlyNone DEF CatWaited, Catalog!Refused
  <2>6. CatMirror(table', seen', due' \cup CatPartly')
    BY <1>1, <2>5, CatMirrorMore
  <2> QED
    BY <1>1, <1>3, <2>1, <2>4, <2>6 DEF CatWaited
<1> QED
  BY <1>1, <1>2, <1>3 DEF CatBoth, CatWaited

\* A call that has fetched one of its queries.
LEMMA CatWaitsLess ==
    ASSUME NEW j \in CatJobRec, NEW q, NEW k, k = [j EXCEPT !.waits = @ \ {q}]
    PROVE  /\ k \in CatJobRec /\ k.op = j.op /\ k.kind = j.kind /\ k.at = j.at /\ k.under = j.under
                /\ k.goal = j.goal
           /\ k.id = j.id /\ k.dep = j.dep
<1>1. /\ k \in CatJobBase /\ k.op = j.op /\ k.kind = j.kind /\ k.at = j.at /\ k.under = j.under
         /\ k.goal = j.goal
      /\ k.id = j.id /\ k.dep = j.dep /\ k.form = j.form /\ k.book = j.book /\ k.waits = j.waits \ {q}
  BY DEF CatJobRec, CatJobBase
<1> QED
  BY <1>1 DEF CatJobRec

\* The fetch of a query fails.
LEMMA CatFetchFailsKeeps == ASSUME CatBoth, NEW q, Catalog!FetchFails(q) PROVE CatBoth'
<1>1. /\ CatIInv /\ CatTyped /\ CatSettled(table, log, seen) /\ rough
         /\ jobs \subseteq CatJobRec
      /\ jobs' = {[j EXCEPT !.waits = @ \ {q}] : j \in jobs}
         /\ UNCHANGED <<table, seen, due, page, log, rough>>
  BY DEF CatBoth, CatIInv, CatTyped, Catalog!FetchFails
<1>2. \A k \in jobs' : k \in CatJobRec
  BY <1>1, CatWaitsLess
<1>3. CatIInv'
  BY <1>1, <1>2 DEF CatIInv, CatTyped, CatSettled
<1> QED
  BY <1>1, <1>3 DEF CatBoth, CatWaited

\* A dependency is recorded.
LEMMA CatDependedKeeps == ASSUME CatBoth, NEW j \in jobs, Catalog!Depended(j) PROVE CatBoth'
<1>1. /\ CatIInv /\ CatTyped /\ CatSettled(table, log, seen) /\ CatWaited
         /\ page \in CatPageRec /\ page \in CatPageBase
      /\ log \in CatLogRec /\ j \in CatJobRec /\ j.dep \in CatDepRec /\ CatSeenOK(seen)
         /\ CatFormed(page, seen, log)
  BY CatPageFacts DEF CatBoth, CatIInv, CatTyped, CatJobRec, CatJobBase
<1>2. /\ j.at = "out" /\ j.op = "depend" /\ jobs' = jobs \ {j} /\ UNCHANGED <<table, seen, due, rough>>
      /\ log' = log /\ page' = [page EXCEPT !.dep = Catalog!NoDependency]
  BY DEF Catalog!Depended
<1>3. log' \in CatLogRec /\ log'.used = log.used /\ log'.book = log.book
  BY <1>1, <1>2
<1>4. /\ page' \in CatPageRec /\ page'.dep = Catalog!NoDependency /\ page'.store = page.store
         /\ page'.dlg = page.dlg
      /\ page'.ask = page.ask /\ page'.draft = page.draft /\ page'.editing = page.editing
  BY <1>1, <1>2 DEF CatPageRec, CatPageBase, CatDepRec, Catalog!NoDependency, CatPerhaps
<1>5. Catalog!Product(page', seen) = Catalog!Product(page, seen)
  BY <1>4 DEF Catalog!Product
<1>6. CatFormed(page', seen, log')
  BY <1>1, <1>3, <1>4, <1>5 DEF CatFormed
<1>7. CatSettled(table, log', seen)
  BY <1>1, <1>3 DEF CatSettled
<1>8. CatIInv'
  BY <1>1, <1>2, <1>3, <1>4, <1>6, <1>7 DEF CatIInv, CatTyped
<1>9. ASSUME ~ rough PROVE CatWaited'
  <2>1. jobs = {j} /\ jobs' = {} /\ CatPending1(j) /\ CatMirror(table, seen, due)
    BY <1>1, <1>2, <1>9, CatPartlyNone DEF CatWaited
  <2>2. CatClosed(page')
    BY <1>2, <1>4, <2>1 DEF CatPending1, CatClosed
  <2> QED
    BY <1>2, <2>1, <2>2, CatMirrorMore DEF CatWaited, CatClosed, CatOneOpen, CatAimed
<1> QED
  BY <1>2, <1>8, <1>9 DEF CatBoth, CatWaited

\* What does not change above a node leaves it in its product.
LEMMA CatSteadyBy ==
    ASSUME NEW tb, Catalog!Shape(tb), NEW tc, Catalog!Shape(tc), \A y \in CatNodeIds : tb[y] # Nobody
           => tc[y] \in {Nobody, tb[y]}
    PROVE  CatSteady(tb, tc)
<1> SUFFICES ASSUME NEW x \in CatNodeIds, tb[x] # Nobody, tc[x] # Nobody PROVE CatProd(tc, x) = CatProd(tb, x)
  BY DEF CatSteady
<1>1. x \in RowIds /\ RowSort[x] \in {"area", "capability", "feature"}
  BY DEF CatNodeIds, Catalog!Nodes
<1>2. \A y \in CatNodeIds : y \in RowIds /\ (tc[y] # Nobody => Catalog!Placed(tc, y)) /\ (tb[y] # Nobody
      => Catalog!Placed(tb, y))
  BY DEF Catalog!Shape, CatNodeIds
<1>3. tc[x] = tb[x] /\ Catalog!Placed(tb, x) /\ Catalog!Placed(tc, x)
  BY <1>2
<1>4. CASE RowSort[x] = "area"
  BY <1>3, <1>4 DEF CatProd
<1>5. CASE RowSort[x] = "capability"
  <2>1. tb[x] \in CatNodeIds /\ tc[tb[x]] # Nobody /\ tb[tb[x]] # Nobody
    BY <1>3, <1>5, CatRowFacts DEF Catalog!Placed
  <2>2. tc[tb[x]] = tb[tb[x]]
    BY <2>1
  <2> QED
    BY <1>3, <1>5, <2>2 DEF CatProd
<1>6. CASE RowSort[x] = "feature"
  <2>1. tb[x] \in CatNodeIds /\ tb[x] \in Catalog!Of("area") \cup Catalog!Of("capability")
        /\ tc[tb[x]] # Nobody /\ tb[tb[x]] # Nobody
    BY <1>3, <1>6, CatRowFacts DEF Catalog!Placed
  <2>2. tc[tb[x]] = tb[tb[x]]
    BY <2>1
  <2>3. CASE RowSort[tb[x]] = "area"
    BY <1>3, <1>6, <2>2, <2>3 DEF CatProd
  <2>4. CASE RowSort[tb[x]] = "capability"
    <3>1. tb[tb[x]] \in CatNodeIds /\ tb[tb[tb[x]]] # Nobody /\ tc[tb[tb[x]]] # Nobody
      BY <1>2, <2>1, <2>2, <2>4, CatRowFacts DEF Catalog!Placed
    <3>2. tc[tb[tb[x]]] = tb[tb[tb[x]]]
      BY <3>1
    <3> QED
      BY <1>3, <1>6, <2>2, <2>4, <3>2 DEF CatProd
  <2> QED
    BY <2>1, <2>3, <2>4 DEF Catalog!Of
<1> QED
  BY <1>1, <1>4, <1>5, <1>6

\* A row is created: in the product shown, for a person who waits.
LEMMA CatCreatedKeeps == ASSUME CatBoth, NEW j \in jobs, Catalog!Created(j) PROVE CatBoth'
<1>0. /\ CatIInv /\ CatTyped /\ CatSettled(table, log, seen) /\ CatWaited
         /\ page \in CatPageRec /\ CatSeenOK(seen)
      /\ j \in CatJobRec /\ log \in CatLogRec /\ Catalog!Shape(table)
  BY DEF CatBoth, CatIInv, CatTyped
<1>1. PICK i \in RowIds : /\ Catalog!KindOf(i) = j.kind /\ i \notin log.used
                          /\ j.under = Catalog!Top \/ Catalog!Up(table, j.under) # Nobody
                          /\ j.kind = "capability" => <<RowSort[j.under], RowSort[i]>> \in
                                {<<"area", "capability">>, <<"capability", "feature">>}
                          /\ table' = [table EXCEPT ![i] = j.under]
                          /\ log' = [log EXCEPT !.used = @ \cup {i}]
                          /\ Catalog!Answered(j, i)
  BY DEF Catalog!Created
<1>2. j.at = "out" /\ j.op = "create" /\ UNCHANGED <<seen, page, rough>>
  BY DEF Catalog!Created
<1> DEFINE u == j.under
           k == j.kind
<1>3. k \in Catalog!Kinds /\ u \in CatParentsOf(k) /\ u # Nobody /\ u \in RowIds \cup {Catalog!Top}
      /\ i \in CatOfKind(k)
  <2>1. k \in Catalog!Kinds /\ u \in CatParentsOf(k)
    BY <1>0, <1>2 DEF CatJobRec
  <2> QED
    BY <1>1, <2>1, CatRowFacts DEF CatParentsOf, Catalog!Kinds
<1>4. table[i] = Nobody /\ (u \in RowIds => table[u] # Nobody /\ u # i)
  <2>1. table[i] = Nobody
    BY <1>0, <1>1 DEF CatSettled
  <2> QED
    BY <1>1, <1>3, <2>1, CatRowFacts DEF Catalog!Up
<1> HIDE DEF u
<1>5. /\ table \in [RowIds -> RowIds \cup {Nobody, Catalog!Top}] /\ \A x \in RowIds : table[x] # Nobody
         => Catalog!Placed(table, x)
      /\ table'[i] = u /\ \A x \in RowIds \ {i} : table'[x] = table[x]
      /\ table' \in [RowIds -> RowIds \cup {Nobody, Catalog!Top}]
      /\ \A x \in RowIds : table[x] # Nobody => table'[x] = table[x]
  BY <1>0, <1>1, <1>3, <1>4 DEF Catalog!Shape, u
<1>6. Catalog!Placed(table', i)
  <2>1. CASE k = "product"
    BY <1>3, <1>5, <2>1, CatRowFacts DEF CatParentsOf, Catalog!Placed, Catalog!Of
  <2>2. CASE k = "area"
    BY <1>3, <1>5, <2>2, CatRowFacts DEF CatParentsOf, Catalog!Placed, Catalog!Of
  <2>3. CASE k = "story"
    BY <1>3, <1>5, <2>3, CatRowFacts DEF CatParentsOf, Catalog!Placed, Catalog!Of
  <2>4. CASE k = "task"
    BY <1>3, <1>5, <2>4, CatRowFacts DEF CatParentsOf, Catalog!Placed, Catalog!Of
  <2>5. CASE k = "capability"
    <3>1. u \in CatNodeIds /\ u \in RowIds
      BY <1>3, <2>5 DEF CatParentsOf, CatNodeIds
    <3>2. table'[u] # Nobody
      BY <1>4, <1>5, <3>1
    <3>3. \/ RowSort[u] = "area" /\ RowSort[i] = "capability"
          \/ RowSort[u] = "capability" /\ RowSort[i] = "feature"
      BY <1>1, <2>5 DEF u
    <3> QED
      BY <1>5, <3>1, <3>2, <3>3 DEF Catalog!Placed, Catalog!Of
  <2> QED
    BY <1>3, <2>1, <2>2, <2>3, <2>4, <2>5 DEF Catalog!Kinds
<1>7. Catalog!Shape(table')
  <2> SUFFICES ASSUME NEW x \in RowIds \ {i}, table'[x] # Nobody PROVE Catalog!Placed(table', x)
    BY <1>5, <1>6 DEF Catalog!Shape
  <2>1. Catalog!Placed(table, x) /\ table'[x] = table[x]
    BY <1>5
  <2>2. \A y \in RowIds : table[y] # Nobody => table'[y] # Nobody
    BY <1>5
  <2> QED
    BY <2>1, <2>2, CatRowFacts DEF Catalog!Placed
<1>8. CatSteady(table, table')
  BY <1>0, <1>5, <1>7, CatSteadyBy, CatRowFacts
<1>9. log' \in CatLogRec /\ log'.used = log.used \cup {i}
      /\ log'.book = log.book
  BY <1>0, <1>1 DEF CatLogRec
<1>10. /\ \A x \in RowIds : table'[x] # Nobody => x \in log'.used
       /\ \A x \in log.used : table'[x] # Nobody => table[x] # Nobody
  BY <1>0, <1>1, <1>5, <1>9 DEF CatSettled, CatLogRec
<1>11. ~ rough => CatWithin(table, table', j)
  <2> SUFFICES ASSUME ~ rough
               PROVE  /\ RowSort[i] \in {"story", "task"} => j.kind \in {"story", "task", "item", "plan"}
                      /\ RowSort[i] \notin {"story", "task"} => j.kind \notin {"story", "task", "item"}
                      /\ RowSort[i] \in Catalog!Nodes
                         => CatProd(table', i) = Catalog!Product(page, seen)
                      /\ RowSort[i] = "story" => u \in Catalog!Listed(page, seen, "feature")
    BY <1>4, <1>5 DEF CatWithin, CatPerhaps
  <2>1. CatCreateIn(k, u)
    BY <1>0, <1>2 DEF CatWaited, CatPending1, u
  <2>2. /\ RowSort[i] \in {"story", "task"} => j.kind \in {"story", "task", "item", "plan"}
        /\ RowSort[i] \notin {"story", "task"} => j.kind \notin {"story", "task", "item"}
    BY <1>1, <1>3 DEF Catalog!KindOf, Catalog!Kinds
  <2>3. RowSort[i] \in Catalog!Nodes => CatProd(table', i) = Catalog!Product(page, seen)
    <3>1. CASE RowSort[i] = "area"
      BY <1>1, <1>5, <2>1, <3>1 DEF CatCreateIn, Catalog!Parent, Catalog!KindOf, CatProd
    <3>2. CASE RowSort[i] \in {"capability", "feature"}
      <4>1. k = "capability" /\ u \in CatNodeIds /\ u \in RowIds
        BY <1>1, <1>3, <3>2 DEF Catalog!KindOf, CatParentsOf, CatNodeIds
      <4>2. CatProd(table, u) = Catalog!Product(page, seen)
        BY <1>4, <2>1, <4>1 DEF CatCreateIn, CatHere, CatKnown
      <4>3. table'[u] # Nobody /\ table[u] # Nobody /\ table'[i] # Nobody /\ i \in CatNodeIds
        BY <1>3, <1>4, <1>5, <3>2, <4>1 DEF CatNodeIds, Catalog!Nodes
      <4>4. CatProd(table', u) = CatProd(table, u)
        BY <1>8, <4>1, <4>3 DEF CatSteady
      <4>5. CatProd(table', table'[i]) = CatProd(table', i)
        BY <1>7, <3>2, <4>3, CatAboveProd
      <4> QED
        BY <1>5, <4>2, <4>4, <4>5
    <3> QED
      BY <3>1, <3>2 DEF Catalog!Nodes
  <2>4. RowSort[i] = "story" => u \in Catalog!Listed(page, seen, "feature")
    <3> SUFFICES ASSUME RowSort[i] = "story" PROVE u \in Catalog!Listed(page, seen, "feature")
      OBVIOUS
    <3>1. k = "story" /\ u = Catalog!ShownFeature(page, seen)
      BY <1>1, <2>1 DEF Catalog!KindOf, CatCreateIn, Catalog!Parent
    <3> QED
      BY <1>0, <1>3, <3>1, CatDerivedTyped DEF CatPerhaps
  <2> QED
    BY <2>2, <2>3, <2>4
<1>12. i \in CatOfKind(j.kind)
  BY <1>3
<1>13. Catalog!Answered(j, i) /\ j.op # "depend" /\ j.op \notin {"update", "remove"}
       /\ log.used \subseteq log'.used
  BY <1>1, <1>2, <1>9
<1> QED
  BY <1>2, <1>7, <1>8, <1>9, <1>10, <1>11, <1>12, <1>13, CatAnsweredKeeps

\* Rows that go with what is below them.
LEMMA CatGoneKeeps ==
    ASSUME NEW tb, Catalog!Shape(tb), NEW tc \in [RowIds -> RowIds \cup {Nobody, Catalog!Top}],
           \A x \in RowIds : tc[x] \in {Nobody, tb[x]},
           \A x \in CatNodeIds : tc[x] # Nobody /\ tb[x] \in CatNodeIds => tc[tb[x]] # Nobody
    PROVE  Catalog!Shape(tc) /\ CatSteady(tb, tc)
<1>1. Catalog!Shape(tc)
  <2> SUFFICES ASSUME NEW x \in RowIds, tc[x] # Nobody PROVE Catalog!Placed(tc, x)
    BY DEF Catalog!Shape
  <2>1. tc[x] = tb[x] /\ Catalog!Placed(tb, x)
    BY DEF Catalog!Shape
  <2>2. RowSort[x] \in {"capability", "feature"} => x \in CatNodeIds /\ tb[x] \in CatNodeIds
    BY <2>1, CatRowFacts DEF Catalog!Placed, CatNodeIds, Catalog!Nodes
  <2>3. RowSort[x] \in {"capability", "feature"} => tc[tb[x]] # Nobody
    BY <2>1, <2>2
  <2> QED
    BY <2>1, <2>3 DEF Catalog!Placed
<1>2. \A y \in CatNodeIds : tc[y] \in {Nobody, tb[y]}
  BY CatRowFacts
<1> QED
  BY <1>1, <1>2, CatSteadyBy

\* A capability that goes: its features move to its area.
LEMMA CatMovedKeeps ==
    ASSUME NEW tb, Catalog!Shape(tb), NEW id \in RowIds, RowSort[id] \in {"capability", "feature"},
           NEW tc,
           tc = [x \in RowIds |-> IF x = id THEN Nobody
                               ELSE IF RowSort[x] = "feature" /\ tb[x] = id THEN tb[id] ELSE tb[x]]
    PROVE  /\ Catalog!Shape(tc) /\ CatSteady(tb, tc) /\ \A x \in RowIds : tc[x] # Nobody
                => tb[x] # Nobody
           /\ \A x \in RowIds : tc[x] # tb[x] =>
                  /\ x \in CatNodeIds /\ tb[id] # Nobody /\ CatProd(tb, x) = CatProd(tb, id)
<1>1. tb \in [RowIds -> RowIds \cup {Nobody, Catalog!Top}] /\ \A x \in RowIds : tb[x] # Nobody
      => Catalog!Placed(tb, x)
  BY DEF Catalog!Shape
<1>2. id # Nobody /\ id \notin Catalog!Of("area") /\ id \in CatNodeIds
  BY CatRowFacts DEF Catalog!Of, CatNodeIds, Catalog!Nodes
<1> DEFINE Moved(x) == x # id /\ RowSort[x] = "feature" /\ tb[x] = id
<1>3. ASSUME NEW x \in RowIds, Moved(x)
      PROVE  /\ tc[x] = tb[id] /\ tb[id] \in Catalog!Of("area") /\ tb[tb[id]] # Nobody
                  /\ tc[tb[id]] = tb[tb[id]]
             /\ RowSort[id] = "capability" /\ tb[id] # Nobody /\ x \in CatNodeIds /\ tb[x] # Nobody
  <2>1. tb[x] # Nobody /\ Catalog!Placed(tb, x)
    BY <1>1, <1>2, <1>3
  <2>2. RowSort[id] = "capability" /\ tb[id] # Nobody
    BY <1>2, <1>3, <2>1 DEF Catalog!Placed, Catalog!Of
  <2>3. tb[id] \in Catalog!Of("area") /\ tb[tb[id]] # Nobody
    BY <1>1, <2>2 DEF Catalog!Placed
  <2> QED
    BY <1>2, <1>3, <2>1, <2>2, <2>3 DEF CatNodeIds, Catalog!Nodes, Catalog!Of
<1>4. \A x \in RowIds : ~ Moved(x) => tc[x] = IF x = id THEN Nobody ELSE tb[x]
  OBVIOUS
<1>5. tc \in [RowIds -> RowIds \cup {Nobody, Catalog!Top}]
  BY <1>1
<1>6. \A a \in Catalog!Of("area") : tc[a] = tb[a]
  BY <1>2 DEF Catalog!Of
<1>7. \A c \in Catalog!Of("capability") \ {id} : tc[c] = tb[c]
  BY DEF Catalog!Of
<1> HIDE DEF Moved
<1>8. Catalog!Shape(tc)
  <2> SUFFICES ASSUME NEW x \in RowIds, tc[x] # Nobody PROVE Catalog!Placed(tc, x)
    BY <1>5 DEF Catalog!Shape
  <2>1. CASE Moved(x)
    BY <1>3, <2>1 DEF Catalog!Placed, Moved
  <2>2. CASE ~ Moved(x)
    <3>1. x # id /\ tc[x] = tb[x] /\ Catalog!Placed(tb, x)
      BY <1>1, <1>4, <2>2
    <3>2. RowSort[x] = "feature" => tb[x] # id
      BY <2>2, <3>1 DEF Moved
    <3> QED
      BY <1>6, <1>7, <3>1, <3>2 DEF Catalog!Placed
  <2> QED
    BY <2>1, <2>2
<1>9. CatSteady(tb, tc)
  <2> SUFFICES ASSUME NEW x \in CatNodeIds, tb[x] # Nobody, tc[x] # Nobody PROVE CatProd(tc, x) = CatProd(tb, x)
    BY DEF CatSteady
  <2>0. x \in RowIds /\ RowSort[x] \in {"area", "capability", "feature"} /\ Catalog!Placed(tb, x)
    BY <1>1 DEF CatNodeIds, Catalog!Nodes
  <2>1. CASE Moved(x)
    <3>1. CatProd(tc, x) = tb[tb[id]]
      BY <1>3, <2>0, <2>1 DEF CatProd, Catalog!Of, Moved
    <3>2. CatProd(tb, x) = tb[tb[id]]
      BY <1>3, <2>0, <2>1 DEF CatProd, Catalog!Of, Moved
    <3> QED
      BY <3>1, <3>2
  <2>2. CASE ~ Moved(x)
    <3>1. x # id /\ tc[x] = tb[x]
      BY <1>4, <2>0, <2>2
    <3>2. CASE RowSort[x] = "area"
      BY <3>1, <3>2 DEF CatProd
    <3>3. CASE RowSort[x] = "capability"
      BY <1>6, <2>0, <3>1, <3>3 DEF CatProd, Catalog!Placed
    <3>4. CASE RowSort[x] = "feature" /\ tb[x] \in Catalog!Of("area")
      BY <1>6, <3>1, <3>4 DEF CatProd, Catalog!Of
    <3>5. CASE RowSort[x] = "feature" /\ tb[x] \in Catalog!Of("capability")
      <4>1. tb[x] # id /\ tb[tb[x]] # Nobody /\ tb[x] \in RowIds /\ RowSort[tb[x]] = "capability"
        BY <2>0, <2>2, <3>1, <3>5 DEF Moved, Catalog!Placed, Catalog!Of
      <4>2. tc[tb[x]] = tb[tb[x]] /\ tb[tb[x]] \in Catalog!Of("area")
        BY <1>1, <1>7, <3>5, <4>1 DEF Catalog!Placed
      <4> QED
        BY <1>6, <3>1, <3>5, <4>1, <4>2 DEF CatProd
    <3> QED
      BY <2>0, <3>2, <3>3, <3>4, <3>5 DEF Catalog!Placed
  <2> QED
    BY <2>1, <2>2
<1>10. ASSUME NEW x \in RowIds, tc[x] # tb[x]
       PROVE  x \in CatNodeIds /\ tb[id] # Nobody /\ CatProd(tb, x) = CatProd(tb, id)
  <2>1. CASE Moved(x)
    <3>1. x \in CatNodeIds /\ tb[x] # Nobody /\ tb[x] = id /\ RowSort[x] = "feature" /\ tb[id] # Nobody
      BY <1>3, <2>1 DEF Moved
    <3> QED
      BY <3>1, CatAboveProd
  <2>2. CASE ~ Moved(x)
    BY <1>2, <1>4, <1>10, <2>2
  <2> QED
    BY <2>1, <2>2
<1> QED
  BY <1>3, <1>4, <1>8, <1>9, <1>10

\* A row goes, with what is below it.
LEMMA CatRemovedKeeps == ASSUME CatBoth, NEW j \in jobs, Catalog!Removed(j) PROVE CatBoth'
<1>0. /\ CatIInv /\ CatTyped /\ CatSettled(table, log, seen) /\ CatWaited
         /\ page \in CatPageRec /\ CatSeenOK(seen)
      /\ j \in CatJobRec /\ log \in CatLogRec /\ Catalog!Shape(table)
  BY DEF CatBoth, CatIInv, CatTyped
<1>1. PICK all \in BOOLEAN :
      /\ j.at = "out" /\ j.op = "remove" /\ table' = [i \in RowIds |-> Catalog!Left(j, all, i)]
         /\ Catalog!Answered(j, j.id)
      /\ UNCHANGED <<seen, page, log, rough>>
  BY DEF Catalog!Removed
<1> DEFINE id == j.id
           gone(x) == RowSort[x] \in Catalog!Nodes /\ id \in Catalog!Above(table, x)
<1>2. j.kind \in Catalog!Removals /\ id \in CatRemovable(j.kind) /\ id \in RowIds
  BY <1>0, <1>1, CatRowFacts DEF CatJobRec, CatRemovable, Catalog!Removals
<1>3. table \in [RowIds -> RowIds \cup {Nobody, Catalog!Top}] /\ (\A x \in RowIds : table[x] # Nobody
      => Catalog!Placed(table, x))
      /\ (\A x \in RowIds : table'[x] = Catalog!Left(j, all, x)) /\ id # Nobody
  BY <1>0, <1>1, <1>2, CatRowFacts DEF Catalog!Shape
<1>4. ~ rough => CatRemoveIn(j.kind, id)
  BY <1>0, <1>1 DEF CatWaited, CatPending1
<1>6. \A x \in CatNodeIds : table[x] \in CatNodeIds => table[x] # Nobody
      /\ RowSort[x] \in {"capability", "feature"}
  BY <1>3, CatRowFacts DEF CatNodeIds, Catalog!Nodes, Catalog!Placed, Catalog!Of
<1> HIDE DEF id
<1> DEFINE Good == /\ Catalog!Shape(table') /\ CatSteady(table, table')
                   /\ \A x \in RowIds : table'[x] # Nobody => table[x] # Nobody
                   /\ ~ rough => CatWithin(table, table', j)
<1>7. ASSUME \A x \in RowIds : table'[x] \in {Nobody, table[x]},
             \A x \in CatNodeIds : table'[x] # Nobody /\ table[x] \in CatNodeIds
             => table'[table[x]] # Nobody
      PROVE  Catalog!Shape(table') /\ CatSteady(table, table') /\ \A x \in RowIds : table'[x] # Nobody
             => table[x] # Nobody
  <2>1. table' \in [RowIds -> RowIds \cup {Nobody, Catalog!Top}]
    <3>1. table' = [x \in RowIds |-> table'[x]]
      BY <1>1
    <3> QED
      BY <1>3, <1>7, <3>1
  <2> QED
    BY <1>0, <1>7, <2>1, CatGoneKeeps
<1>8. ASSUME j.kind = "product"
       PROVE  Good
  <2>1. \A x \in RowIds : table'[x] = IF x = id THEN Nobody ELSE table[x]
    BY <1>3, <1>8 DEF Catalog!Left, id
  <2>2. id \in Catalog!Of("product") /\ id \notin CatNodeIds
    BY <1>2, <1>8 DEF CatRemovable, Catalog!Of, CatNodeIds, Catalog!Nodes
  <2>3. \A x \in CatNodeIds : table'[x] = table[x]
    BY <2>1, <2>2, CatRowFacts
  <2>6. \A x \in CatNodeIds : table'[x] # Nobody /\ table[x] \in CatNodeIds => table'[table[x]] # Nobody
    <3> SUFFICES ASSUME NEW x \in CatNodeIds, table'[x] # Nobody, table[x] \in CatNodeIds PROVE table'[table[x]] # Nobody
      OBVIOUS
    <3>1. table[x] # Nobody /\ RowSort[x] \in {"capability", "feature"} /\ x \in RowIds
      BY <1>6, CatRowFacts
    <3>2. table[table[x]] # Nobody
      BY <1>3, <3>1 DEF Catalog!Placed
    <3> QED
      BY <2>3, <3>2
  <2>4. Catalog!Shape(table') /\ CatSteady(table, table') /\ \A x \in RowIds : table'[x] # Nobody
        => table[x] # Nobody
    BY <1>7, <2>1, <2>6
  <2>5. CatWithin(table, table', j)
    BY <1>8, <2>1, <2>2 DEF CatWithin, Catalog!Of, Catalog!Nodes
  <2> QED
    BY <2>4, <2>5
<1>9. ASSUME j.kind = "plan"
       PROVE  Good
  <2> DEFINE items(x) == all /\ Catalog!InDelivery(id, x)
  <2>1. \A x \in RowIds : table'[x] = IF gone(x) \/ items(x) THEN Nobody ELSE table[x]
    BY <1>3, <1>9 DEF Catalog!Left, Catalog!InPlan, id
  <2>2. id \in Catalog!Of("product")
    BY <1>2, <1>9 DEF CatRemovable
  <2>3. \A x \in CatNodeIds : table[x] # Nobody => (gone(x) <=> CatProd(table, x) = id)
    BY <1>0, <2>2, CatAboveProd DEF CatNodeIds
  <2>8. \A x \in RowIds : items(x) => RowSort[x] \in {"story", "task"} /\ x \notin CatNodeIds
    BY DEF Catalog!InDelivery, CatNodeIds, Catalog!Nodes
  <2>9. \A x \in CatNodeIds : x \in RowIds /\ table'[x] = IF gone(x) THEN Nobody ELSE table[x]
    BY <2>1, <2>8, CatRowFacts
  <2>4. ASSUME NEW x \in CatNodeIds, table'[x] # Nobody, table[x] \in CatNodeIds PROVE table'[table[x]] # Nobody
    <3>0. x \in RowIds /\ table[x] \in RowIds
      BY <2>4, CatRowFacts
    <3>1. table[x] # Nobody /\ RowSort[x] \in {"capability", "feature"} /\ CatProd(table, x) # id
      BY <1>6, <2>3, <2>4, <2>9, <3>0
    <3>2. CatProd(table, table[x]) # id
      BY <1>0, <2>4, <3>1, CatAboveProd
    <3>3. table[table[x]] # Nobody
      BY <1>3, <3>0, <3>1 DEF Catalog!Placed
    <3> QED
      BY <2>3, <2>4, <2>9, <3>0, <3>2, <3>3
  <2>10. \A x \in RowIds : table'[x] \in {Nobody, table[x]}
    BY <2>1
  <2>5. Catalog!Shape(table') /\ CatSteady(table, table') /\ \A x \in RowIds : table'[x] # Nobody
        => table[x] # Nobody
    BY <1>7, <2>4, <2>10
  <2>6. ~ rough => CatWithin(table, table', j)
    <3> SUFFICES ASSUME ~ rough, NEW x \in RowIds, table'[x] # table[x]
                 PROVE  /\ table'[x] = Nobody
                        /\ \/ x \in CatNodeIds /\ CatProd(table, x) = Catalog!Product(page, seen)
                           \/ RowSort[x] = "task"
                           \/ RowSort[x] = "story" /\ table[x] \in Catalog!Listed(page, seen, "feature")
      BY <1>9 DEF CatWithin, CatNodeIds, Catalog!Nodes, CatPerhaps
    <3>1. table'[x] = Nobody /\ table[x] # Nobody /\ (gone(x) \/ items(x))
      BY <2>1
    <3>2. id = Catalog!Product(page, seen) /\ CatFeaturesSeen(id)
      BY <1>4, <1>9 DEF CatRemoveIn
    <3>3. CASE gone(x)
      <4>1. x \in CatNodeIds
        BY <3>3 DEF CatNodeIds
      <4> QED
        BY <2>3, <3>1, <3>2, <3>3, <4>1
    <3>4. CASE RowSort[x] = "story" /\ items(x)
      <4> DEFINE f == table[x]
      <4>1. f \in Catalog!Of("feature") /\ f \in RowIds /\ f \in CatNodeIds
        BY <1>3, <3>1, <3>4, CatRowFacts DEF Catalog!Placed, CatCaps
      <4>2. Catalog!InPlan(id, f)
        BY <3>4 DEF Catalog!InDelivery, Catalog!Up
      <4>3. id \in Catalog!Above(table, f)
        BY <4>2 DEF Catalog!InPlan
      <4>4. table[f] # Nobody
        <5> SUFFICES ASSUME table[f] = Nobody PROVE FALSE
          OBVIOUS
        <5>1. Catalog!Above(table, f) = {Nobody}
          BY <4>1, CatRowFacts DEF Catalog!Above, Catalog!Up
        <5> QED
          BY <1>3, <4>3, <5>1
      <4>5. CatProd(table, f) = id
        BY <1>0, <2>2, <4>1, <4>3, <4>4, CatAboveProd
      <4> QED
        BY <3>1, <3>2, <3>4, <4>1, <4>4, <4>5 DEF CatFeaturesSeen
    <3> QED
      BY <2>8, <3>1, <3>3, <3>4
  <2> QED
    BY <2>5, <2>6
<1>10. ASSUME j.kind = "item"
       PROVE  Good
  <2>1. \A x \in RowIds : table'[x] = IF x = id \/ table[x] = id THEN Nobody ELSE table[x]
    BY <1>3, <1>10 DEF Catalog!Left, id
  <2>2. id \in CatItemIds /\ id \notin CatNodeIds /\ RowSort[id] \in {"story", "task"}
    BY <1>2, <1>10 DEF CatRemovable, CatItemIds, CatNodeIds, Catalog!Nodes
  <2>3. \A x \in RowIds : table[x] = id => RowSort[x] = "task" /\ RowSort[id] = "story"
    BY <1>3, <2>2, CatRowFacts DEF Catalog!Placed, Catalog!Of
  <2>4. \A x \in CatNodeIds : x \in RowIds /\ table'[x] = table[x]
    BY <2>1, <2>2, <2>3, CatRowFacts DEF CatNodeIds, Catalog!Nodes
  <2>5. \A x \in CatNodeIds : table'[x] # Nobody /\ table[x] \in CatNodeIds => table'[table[x]] # Nobody
    <3> SUFFICES ASSUME NEW x \in CatNodeIds, table'[x] # Nobody, table[x] \in CatNodeIds PROVE table'[table[x]] # Nobody
      OBVIOUS
    <3>1. table[x] # Nobody /\ RowSort[x] \in {"capability", "feature"} /\ x \in RowIds
      BY <1>6, <2>4
    <3>2. table[table[x]] # Nobody
      BY <1>3, <3>1 DEF Catalog!Placed
    <3> QED
      BY <2>4, <3>2
  <2>6. Catalog!Shape(table') /\ CatSteady(table, table') /\ \A x \in RowIds : table'[x] # Nobody
        => table[x] # Nobody
    BY <1>7, <2>1, <2>5
  <2>7. ~ rough => CatWithin(table, table', j)
    <3> SUFFICES ASSUME ~ rough, NEW x \in RowIds, table'[x] # table[x]
                 PROVE  /\ RowSort[x] \in {"story", "task"} /\ table'[x] = Nobody
                        /\ RowSort[x] = "story" => table[x] \in Catalog!Listed(page, seen, "feature")
      BY <1>10 DEF CatWithin, Catalog!Nodes, CatPerhaps
    <3>1. table'[x] = Nobody /\ table[x] # Nobody /\ (x = id \/ table[x] = id)
      BY <2>1
    <3>2. CatRemoveIn("item", id)
      BY <1>4, <1>10
    <3> QED
      BY <2>2, <2>3, <3>1, <3>2 DEF CatRemoveIn
  <2> QED
    BY <2>6, <2>7
<1>11. ASSUME j.kind = "node" /\ RowSort[id] = "area"
       PROVE  Good
  <2>1. id \in Catalog!Of("area") /\ id \in CatNodeIds
    BY <1>2, <1>11 DEF Catalog!Of, CatNodeIds, Catalog!Nodes
  <2>2. \A x \in RowIds : RowSort[x] = "feature" /\ table[x] = id => gone(x)
    BY <1>3 DEF Catalog!Above, Catalog!Up, Catalog!Nodes
  <2>3. \A x \in RowIds : table'[x] = IF x = id \/ gone(x) THEN Nobody ELSE table[x]
    BY <1>3, <1>11, <2>2 DEF Catalog!Left, id
  <2>4. \A x \in CatNodeIds : table[x] # Nobody /\ gone(x) => table[id] # Nobody
        /\ CatProd(table, x) = CatProd(table, id)
    BY <1>0, <2>1, CatAboveProd
  <2>5. ASSUME NEW x \in CatNodeIds, table'[x] # Nobody, table[x] \in CatNodeIds PROVE table'[table[x]] # Nobody
    <3>0. x \in RowIds /\ table[x] \in RowIds /\ x # id /\ ~ gone(x) /\ RowSort[x] \in Catalog!Nodes
      BY <2>3, <2>5, CatRowFacts DEF CatNodeIds
    <3>1. table[x] # Nobody /\ RowSort[x] \in {"capability", "feature"}
      BY <1>6, <2>5
    <3>2. table[table[x]] # Nobody
      BY <1>3, <3>0, <3>1 DEF Catalog!Placed
    <3>3. id # table[x] /\ id # Catalog!Up(table, table[x])
          /\ id # Catalog!Up(table, Catalog!Up(table, table[x]))
      BY <3>0 DEF Catalog!Above, Catalog!Up
    <3>4. id \notin Catalog!Above(table, table[x])
      <4>1. table[x] \in Catalog!Of("area") \cup Catalog!Of("capability")
        BY <1>3, <3>0, <3>1 DEF Catalog!Placed
      <4>2. Catalog!Up(table, table[x]) = table[table[x]]
        BY <3>0 DEF Catalog!Up
      <4>3. CASE table[x] \in Catalog!Of("area")
        <5>1. table[table[x]] \in Catalog!Of("product")
          BY <1>3, <3>0, <3>2, <4>3 DEF Catalog!Placed, Catalog!Of
        <5>2. Catalog!Up(table, Catalog!Up(table, table[x])) \in {Nobody, Catalog!Top}
          BY <1>3, <4>2, <5>1, CatRowFacts DEF Catalog!Up, Catalog!Placed, Catalog!Of
        <5>3. Catalog!Up(table, Catalog!Up(table, Catalog!Up(table, table[x]))) = Nobody
          BY <5>2, CatRowFacts DEF Catalog!Up
        <5> QED
          BY <1>3, <3>3, <5>3 DEF Catalog!Above
      <4>4. CASE table[x] \in Catalog!Of("capability")
        <5>1. table[table[x]] \in Catalog!Of("area") /\ table[table[table[x]]] # Nobody
          BY <1>3, <3>0, <3>2, <4>4 DEF Catalog!Placed, Catalog!Of
        <5>2. table[table[table[x]]] \in Catalog!Of("product")
          BY <1>3, <5>1 DEF Catalog!Placed, Catalog!Of
        <5>3. Catalog!Up(table, Catalog!Up(table, table[x])) = table[table[table[x]]]
          BY <4>2, <5>1 DEF Catalog!Up, Catalog!Of
        <5>4. Catalog!Up(table, Catalog!Up(table, Catalog!Up(table, table[x]))) \in {Nobody, Catalog!Top}
          BY <1>3, <5>2, <5>3, CatRowFacts DEF Catalog!Up, Catalog!Placed, Catalog!Of
        <5> QED
          BY <1>2, <1>3, <3>3, <5>4, CatRowFacts DEF Catalog!Above, id
      <4> QED
        BY <4>1, <4>3, <4>4
    <3> QED
      BY <2>3, <3>0, <3>2, <3>3, <3>4
  <2>6. Catalog!Shape(table') /\ CatSteady(table, table') /\ \A x \in RowIds : table'[x] # Nobody
        => table[x] # Nobody
    BY <1>7, <2>3, <2>5
  <2>7. ~ rough => CatWithin(table, table', j)
    <3> SUFFICES ASSUME ~ rough, NEW x \in RowIds, table'[x] # table[x]
                 PROVE  x \in CatNodeIds /\ CatProd(table, x) = Catalog!Product(page, seen)
                        /\ table'[x] = Nobody
      BY <1>11 DEF CatWithin, CatNodeIds, Catalog!Nodes
    <3>1. x \in CatNodeIds /\ table'[x] = Nobody /\ table[x] # Nobody /\ (x = id \/ gone(x))
      BY <2>1, <2>3 DEF CatNodeIds
    <3>2. CatHere(id)
      BY <1>4, <1>11 DEF CatRemoveIn
    <3> QED
      BY <2>4, <3>1, <3>2 DEF CatHere, CatKnown
  <2> QED
    BY <2>6, <2>7
<1>12. ASSUME j.kind = "node" /\ RowSort[id] \in {"capability", "feature"}
       PROVE  Good
  <2>1. \A x \in RowIds : table'[x] = IF x = id THEN Nobody
                                   ELSE IF RowSort[x] = "feature"
                                   /\ table[x] = id THEN table[id] ELSE table[x]
    BY <1>3, <1>12 DEF Catalog!Left, id
  <2>2. table' = [x \in RowIds |-> IF x = id THEN Nobody
                                ELSE IF RowSort[x] = "feature"
                                /\ table[x] = id THEN table[id] ELSE table[x]]
    BY <1>1, <2>1
  <2>3. /\ Catalog!Shape(table') /\ CatSteady(table, table') /\ \A x \in RowIds : table'[x] # Nobody
           => table[x] # Nobody
        /\ \A x \in RowIds : table'[x] # table[x] =>
                  /\ x \in CatNodeIds /\ table[id] # Nobody /\ CatProd(table, x) = CatProd(table, id)
    BY <1>0, <1>2, <1>12, <2>2, CatMovedKeeps DEF id
  <2>4. ~ rough => CatWithin(table, table', j)
    <3> SUFFICES ASSUME ~ rough, NEW x \in RowIds, table'[x] # table[x]
                 PROVE  /\ x \in CatNodeIds
                        /\ table[x] # Nobody => CatProd(table, x) = Catalog!Product(page, seen)
                        /\ table'[x] # Nobody => CatProd(table', x) = Catalog!Product(page, seen)
      BY <1>12 DEF CatWithin, CatNodeIds, Catalog!Nodes
    <3>1. CatHere(id)
      BY <1>4, <1>12 DEF CatRemoveIn
    <3>2. x \in CatNodeIds /\ CatProd(table, x) = Catalog!Product(page, seen)
      BY <2>3, <3>1 DEF CatHere, CatKnown
    <3>3. table'[x] # Nobody => CatProd(table', x) = CatProd(table, x)
      BY <2>3, <3>2 DEF CatSteady
    <3> QED
      BY <3>2, <3>3
  <2> QED
    BY <2>3, <2>4
<1>13. Good
  <2>1. j.kind = "node" => RowSort[id] \in {"area", "capability", "feature"}
    BY <1>2 DEF CatRemovable, CatNodeIds, Catalog!Nodes
  <2> QED
    BY <1>2, <1>8, <1>9, <1>10, <1>11, <1>12, <2>1 DEF Catalog!Removals
<1> HIDE DEF Good
<1>14. \A x \in RowIds : table'[x] # Nobody => x \in log'.used
  BY <1>0, <1>1, <1>13 DEF Good, CatSettled
<1>15. \A x \in log.used : table'[x] # Nobody => table[x] # Nobody
  BY <1>0, <1>13 DEF Good, CatLogRec
<1> QED
  BY <1>0, <1>1, <1>2, <1>13, <1>14, <1>15, CatAnsweredKeeps DEF Good, id

\* What is asked of the database, but for the tasks of a story, is the same when
\* a task goes.
LEMMA CatTaskGoneKept ==
    ASSUME NEW tb, Catalog!Shape(tb), NEW tc, Catalog!Shape(tc), NEW i \in Catalog!Of("task"),
           \A x \in RowIds \ {i} : tc[x] = tb[x], tc[i] = Nobody,
           NEW q \in Catalog!Keys \ CatTaskQueries
    PROVE  Catalog!Content(tc, q) = Catalog!Content(tb, q)
<1>0. i \in RowIds /\ RowSort[i] = "task"
  BY DEF Catalog!Of
<1>1. \A x \in RowIds : RowSort[x] # "task" => tc[x] = tb[x]
  BY <1>0
<1>2. CASE q = Catalog!List
  <2>1. {<<x, tc[x]>> : x \in {k \in Catalog!Of("product") : tc[k] # Nobody}}
            = {<<x, tb[x]>> : x \in {k \in Catalog!Of("product") : tb[k] # Nobody}}
    BY <1>1 DEF Catalog!Of
  <2> QED
    BY <1>2, <2>1, CatKeyFacts DEF Catalog!Content, Catalog!Rows
<1>3. CASE q[1] = "tree" /\ q[2] \in Catalog!Of("product") /\ q = <<"tree", q[2]>>
  <2>1. \A x \in CatNodeIds : x \in RowIds /\ tc[x] = tb[x]
    BY <1>1 DEF CatNodeIds, Catalog!Nodes
  <2>2. CatSteady(tb, tc)
    BY <2>1, CatSteadyBy
  <2>3. {k \in CatNodeIds : tc[k] # Nobody /\ CatProd(tc, k) = q[2]}
            = {k \in CatNodeIds : tb[k] # Nobody /\ CatProd(tb, k) = q[2]}
    BY <2>1, <2>2 DEF CatSteady
  <2>4. {<<x, tc[x]>> : x \in {k \in CatNodeIds : tc[k] # Nobody /\ CatProd(tc, k) = q[2]}}
            = {<<x, tb[x]>> : x \in {k \in CatNodeIds : tb[k] # Nobody /\ CatProd(tb, k) = q[2]}}
    BY <2>1, <2>3
  <2> QED
    BY <1>3, <2>4, CatContentTree
<1>4. CASE q[1] = "book" /\ q[2] \in Catalog!Of("product") /\ q = <<"book", q[2]>>
  <2>1. \A x \in Catalog!Of("area") : tc[x] = tb[x]
    BY <1>1 DEF Catalog!Of
  <2>2. {<<x, tc[x]>> : x \in {k \in {a \in Catalog!Of("area") : tc[a] = q[2]} : tc[k] # Nobody}}
            = {<<x, tb[x]>> : x \in {k \in {a \in Catalog!Of("area") : tb[a] = q[2]} : tb[k] # Nobody}}
    BY <2>1
  <2> QED
    BY <1>4, <2>2 DEF Catalog!Content, Catalog!Rows
<1>5. CASE q[1] = "stories" /\ q[2] \in Catalog!Of("feature") /\ q = <<"stories", q[2]>>
  <2> DEFINE In(t) == {k \in {x \in RowIds : t[x] = q[2] /\ RowSort[x] \in {"story", "task"}} : t[k] # Nobody}
  <2>1. q[2] # Nobody /\ q[2] \notin Catalog!Of("story")
    BY <1>5, CatRowFacts DEF Catalog!Of
  <2>2. tb[i] # q[2] /\ tc[i] # q[2]
    BY <1>0, <2>1 DEF Catalog!Shape, Catalog!Placed
  <2>3. In(tc) = In(tb) /\ \A x \in In(tb) : tc[x] = tb[x]
    BY <2>2
  <2>4. Catalog!Content(tb, q) = {<<x, tb[x]>> : x \in In(tb)}
        /\ Catalog!Content(tc, q) = {<<x, tc[x]>> : x \in In(tc)}
    BY <1>5 DEF Catalog!Content, Catalog!Rows
  <2> HIDE DEF In
  <2> QED
    BY <2>3, <2>4
<1>6. q[1] = "tasks" /\ q[2] \in Catalog!Of("story") /\ q = <<"tasks", q[2]>> => q \in CatTaskQueries
  BY DEF CatTaskQueries
<1> QED
  BY <1>2, <1>3, <1>4, <1>5, <1>6, CatKeyFacts

\* A task goes before its story.
LEMMA CatTaskRemovedKeeps == ASSUME CatBoth, NEW j \in jobs, Catalog!TaskRemoved(j) PROVE CatBoth'
<1>0. /\ CatIInv /\ CatTyped /\ CatSettled(table, log, seen) /\ CatWaited
      /\ j \in CatJobRec /\ Catalog!Shape(table) /\ jobs \subseteq CatJobRec
  BY DEF CatBoth, CatIInv, CatTyped
<1>1. PICK i \in Catalog!Of("task") : table[i] = j.id /\ table' = [table EXCEPT ![i] = Nobody]
  BY DEF Catalog!TaskRemoved
<1>2. /\ j.at = "out" /\ j.op = "remove" /\ j.kind = "item"
      /\ UNCHANGED <<seen, due, page, jobs, log, rough>>
  BY DEF Catalog!TaskRemoved
<1>3. /\ i \in RowIds /\ i # Nobody /\ RowSort[i] = "task" /\ i \notin CatNodeIds
      /\ table \in [RowIds -> RowIds \cup {Nobody, Catalog!Top}]
  BY <1>0, <1>1, CatRowFacts DEF Catalog!Of, Catalog!Shape, CatNodeIds, Catalog!Nodes
<1>4. /\ table' \in [RowIds -> RowIds \cup {Nobody, Catalog!Top}] /\ table'[i] = Nobody
      /\ \A x \in RowIds \ {i} : table'[x] = table[x]
  BY <1>1, <1>3
<1>5. \A x \in CatNodeIds : x \in RowIds /\ table'[x] = table[x]
  BY <1>3, <1>4, CatRowFacts
<1>6. \A x \in CatNodeIds : table'[x] # Nobody /\ table[x] \in CatNodeIds => table'[table[x]] # Nobody
  <2> SUFFICES ASSUME NEW x \in CatNodeIds, table[x] # Nobody, table[x] \in CatNodeIds
               PROVE  table[table[x]] # Nobody
    BY <1>5
  <2>1. Catalog!Placed(table, x) /\ x \in RowIds /\ table[x] \in RowIds
    BY <1>0, CatRowFacts DEF Catalog!Shape
  <2>2. RowSort[x] # "area"
    BY <2>1, CatRowFacts DEF Catalog!Placed, CatNodeIds, Catalog!Of, Catalog!Nodes
  <2> QED
    BY <2>1, <2>2 DEF Catalog!Placed, CatNodeIds, Catalog!Nodes
<1>7. Catalog!Shape(table') /\ CatSteady(table, table')
  <2>1. \A x \in RowIds : table'[x] \in {Nobody, table[x]}
    BY <1>4
  <2> QED
    BY <1>0, <1>4, <1>6, <2>1, CatGoneKeeps
<1>8. CatSettled(table', log', seen')
  <2>1. \A x, p : CatKnown(table, log.used, x, p) => CatKnown(table', log.used, x, p)
    <3> SUFFICES ASSUME NEW x, NEW p, CatKnown(table, log.used, x, p)
                 PROVE  CatKnown(table', log.used, x, p)
      OBVIOUS
    <3>1. x \in CatNodeIds
      BY <1>0 DEF CatKnown, CatTyped, CatLogRec, CatNodeIds
    <3>2. table'[x] = table[x]
      BY <1>5, <3>1
    <3>3. table[x] # Nobody => CatProd(table', x) = CatProd(table, x)
      BY <1>7, <3>1, <3>2 DEF CatSteady
    <3> QED
      BY <3>2, <3>3 DEF CatKnown
  <2>2. \A x \in RowIds : table'[x] # Nobody => x \in log.used
    BY <1>0, <1>4 DEF CatSettled
  <2> QED
    BY <1>0, <1>2, <2>1, <2>2 DEF CatSettled, CatTreesKnown
<1>9. CatIInv'
  <2>1. CatFormed(page, seen, log)
    BY <1>0 DEF CatIInv
  <2> QED
    BY <1>0, <1>2, <1>7, <1>8, <2>1 DEF CatIInv, CatTyped
<1>10. ASSUME ~ rough PROVE CatWaited'
  <2>1. jobs = {j} /\ CatPending1(j) /\ CatOneOpen(page)
        /\ CatMirror(table, seen, due \cup CatPartly)
    BY <1>0, <1>10 DEF CatWaited
  <2>2. CatPartly = CatTaskQueries /\ CatPartly' = CatTaskQueries
    BY <1>2 DEF CatPartly, CatTaskQueries
  <2>3. CatMirror(table', seen, due \cup CatTaskQueries)
    <3>1. \A q \in Catalog!Keys \ CatTaskQueries : Catalog!Content(table', q) = Catalog!Content(table, q)
      BY <1>0, <1>1, <1>4, <1>7, CatTaskGoneKept
    <3> QED
      BY <2>1, <2>2, <3>1 DEF CatMirror
  <2>4. ASSUME NEW x, CatRemoveIn("item", x) PROVE CatRemoveIn("item", x)'
    <3>1. RowSort[x] = "story" /\ table'[x] # Nobody => table'[x] = table[x]
      <4> SUFFICES ASSUME RowSort[x] = "story", table'[x] # Nobody PROVE table'[x] = table[x]
        OBVIOUS
      <4>1. x # i
        BY <1>3
      <4>2. CASE x \in RowIds
        BY <1>4, <4>1, <4>2
      <4>3. CASE x \notin RowIds
        BY <1>1, <4>1
      <4> QED
        BY <4>2, <4>3
    <3> QED
      BY <1>2, <2>4, <3>1 DEF CatRemoveIn
  <2>5. CatPending1(j)'
    <3>1. CatRemoveIn("item", j.id)
      BY <1>2, <2>1 DEF CatPending1
    <3>2. CatRemoveIn("item", j.id)'
      BY <1>2, <2>4, <3>1
    <3> QED
      BY <1>2, <2>1, <3>2 DEF CatPending1
  <2>6. ~ CatFetching /\ CatAimed
    BY <1>0, <1>2, <1>10, <2>1 DEF CatFetching, CatWaited
  <2>7. CatAimed'
    <3>1. \A k \in Catalog!Kinds : page.dlg[k] = "closed"
      BY <1>2, <2>1 DEF CatPending1
    <3>2. \A r \in Catalog!Removals : page.ask[r] # Nobody => r = "item"
      BY <1>2, <2>1 DEF CatPending1
    <3> QED
      BY <1>2, <2>4, <2>6, <3>1, <3>2 DEF CatAimed
  <2> QED
    BY <1>2, <2>1, <2>2, <2>3, <2>5, <2>7 DEF CatWaited
<1>11. CatWaited'
  BY <1>2, <1>10 DEF CatWaited
<1> QED
  BY <1>9, <1>11 DEF CatBoth

\* A rendering of fresh answers keeps the forms of the dialogs with their rows.
LEMMA CatRenderForms ==
    ASSUME CatIInv, NEW new \in CatPageRec, NEW sn, CatSeenOK(sn), NEW lg,
           new.draft["product"] \in {Nobody, page.draft["product"], Catalog!Product(new, sn)},
           new.dlg["area"] = "edit" /\ ~ lg.book["area"]
           => new.store.area \in {Nobody, new.draft["area"]},
           new.dlg["capability"] = "edit" /\ ~ lg.book["capability"] =>
               new.store.cap \in {Nobody, new.draft["capability"]},
           \A k \in {"story", "task"} : new.editing[k] # Nobody => new.draft[k] = new.editing[k]
    PROVE  /\ Catalog!Rendered(new, sn) \in CatPageRec /\ CatFormed(Catalog!Rendered(new, sn), sn, lg)
           /\ Catalog!Rendered(new, sn).dep = new.dep /\ Catalog!Rendered(new, sn).dlg = new.dlg
              /\ Catalog!Rendered(new, sn).ask = new.ask
<1>0. page \in CatPageRec /\ CatSeenOK(seen) /\ CatFormed(page, seen, log)
  BY CatPageFacts
<1> DEFINE R == Catalog!Rendered(new, sn)
<1>1. /\ R \in CatPageRec /\ R.dlg = new.dlg /\ R.editing = new.editing /\ R.dep = new.dep
         /\ R.ask = new.ask
      /\ R.store.product = Catalog!Product(new, sn) /\ Catalog!Product(R, sn) = Catalog!Product(new, sn)
      /\ R.draft["product"] = IF Catalog!Product(new, sn) \notin {Nobody, Catalog!Product(page, seen)}
                              THEN Catalog!Product(new, sn) ELSE new.draft["product"]
      /\ new.store.area \in {Nobody, new.draft["area"]} => R.store.area \in {Nobody, R.draft["area"]}
      /\ new.store.cap \in {Nobody, new.draft["capability"]}
         => R.store.cap \in {Nobody, R.draft["capability"]}
      /\ \A k \in {"story", "task"} : R.draft[k] = new.draft[k]
  BY <1>0, CatRenderedFacts
<1> HIDE DEF R
<1>2. CatFormed(R, sn, lg)
  BY <1>0, <1>1 DEF CatFormed
<1> QED
  BY <1>1, <1>2 DEF R

\* Where the selection moves after an answer, and what it closes.
LEMMA CatFollowsFacts ==
    ASSUME CatIInv, NEW j \in jobs, j.at = "fetch"
    PROVE  LET F == Catalog!Follows(j)
           IN  /\ F \in CatPageRec /\ F.draft = page.draft /\ F.dep = page.dep
               /\ \A k \in Catalog!Kinds : F.dlg[k] = IF j.op # "remove"
                  /\ k = j.kind THEN "closed" ELSE page.dlg[k]
               /\ \A r \in Catalog!Removals : F.ask[r] = IF j.op = "remove"
                  /\ r = j.kind THEN Nobody ELSE page.ask[r]
               /\ \A k \in Catalog!Kinds : F.editing[k] \in {Nobody, page.editing[k]}
               /\ F.dlg["area"] = "edit" => F.store.area \in {Nobody, page.store.area}
               /\ F.dlg["capability"] = "edit" => F.store.cap \in {Nobody, page.store.cap}
<1>0. page \in CatPageRec /\ page \in CatPageBase /\ page.store \in CatStoreRec /\ j \in CatJobRec
      /\ j \in CatJobBase
  BY CatPageFacts DEF CatIInv, CatTyped, CatJobRec
<1>1. CASE j.op = "remove"
  <2> DEFINE pg == [page EXCEPT !.ask[j.kind] = Nobody]
  <2>1. j.kind \in Catalog!Removals
    BY <1>0, <1>1 DEF CatJobRec
  <2>2. /\ pg \in CatPageRec /\ pg.draft = page.draft /\ pg.dep = page.dep /\ pg.store = page.store
        /\ pg.dlg = page.dlg /\ pg.editing = page.editing
        /\ \A r \in Catalog!Removals : pg.ask[r] = IF r = j.kind THEN Nobody ELSE page.ask[r]
    BY <1>0, <2>1 DEF CatPageRec, CatPageBase, CatPerhaps
  <2>3. Catalog!Follows(j) = CASE j.kind = "product" -> IF j.shown = j.id THEN Catalog!SetProduct(pg, Nobody) ELSE pg
                       [] j.kind \in {"plan", "node"} -> Catalog!SetArea(pg, Nobody)
                       [] j.kind = "item" -> [pg EXCEPT !.story = Nobody]
    BY <1>1 DEF Catalog!Follows
  <2> HIDE DEF pg
  <2>4. /\ Catalog!SetProduct(pg, Nobody) \in CatPageRec
           /\ CatButStore(Catalog!SetProduct(pg, Nobody), pg)
        /\ CatStores(Catalog!SetProduct(pg, Nobody), Nobody, Nobody, Nobody, Nobody)
        /\ Catalog!SetArea(pg, Nobody) \in CatPageRec /\ CatButStore(Catalog!SetArea(pg, Nobody), pg)
        /\ CatStores(Catalog!SetArea(pg, Nobody), pg.store.product, Nobody, Nobody, Nobody)
    BY <2>2, CatSettersTyped DEF CatPerhaps
  <2> DEFINE it == [pg EXCEPT !.story = Nobody]
  <2>5. /\ it \in CatPageRec /\ it.draft = pg.draft /\ it.dep = pg.dep /\ it.store = pg.store
        /\ it.dlg = pg.dlg /\ it.editing = pg.editing /\ it.ask = pg.ask
    BY <2>2 DEF CatPageRec, CatPageBase, CatPerhaps
  <2>6. Catalog!Follows(j) \in {Catalog!SetProduct(pg, Nobody), pg, Catalog!SetArea(pg, Nobody), it}
    BY <2>1, <2>3 DEF Catalog!Removals
  <2> HIDE DEF it
  <2>7. CASE Catalog!Follows(j) = pg
    BY <1>1, <2>2, <2>7
  <2>8. CASE Catalog!Follows(j) = it
    BY <1>1, <2>2, <2>5, <2>8
  <2>9. CASE Catalog!Follows(j) = Catalog!SetProduct(pg, Nobody)
    BY <1>1, <2>2, <2>4, <2>9 DEF CatButStore, CatStores
  <2>10. CASE Catalog!Follows(j) = Catalog!SetArea(pg, Nobody)
    BY <1>1, <2>2, <2>4, <2>10 DEF CatButStore, CatStores
  <2> QED
    BY <2>6, <2>7, <2>8, <2>9, <2>10
<1>2. CASE j.op # "remove"
  <2> DEFINE pg == [page EXCEPT !.dlg[j.kind] = "closed",
                                !.editing[j.kind] = IF j.op = "update" THEN Nobody ELSE @]
  <2>1. j.op \in {"create", "update"} /\ j.kind \in Catalog!Kinds /\ j.id \in CatOfKind(j.kind)
        /\ j.id \in RowIds
    BY <1>0, <1>2 DEF CatJobRec, CatJobBase, CatPerhaps, CatOfKind
  <2>2. /\ pg \in CatPageRec /\ pg.draft = page.draft /\ pg.dep = page.dep /\ pg.store = page.store
        /\ pg.ask = page.ask /\ \A k \in Catalog!Kinds : pg.editing[k] \in {Nobody, page.editing[k]}
        /\ \A k \in Catalog!Kinds : pg.dlg[k] = IF k = j.kind THEN "closed" ELSE page.dlg[k]
    BY <1>0, <2>1 DEF CatPageRec, CatPageBase, CatPerhaps
  <2>3. Catalog!Follows(j) = CASE j.kind = "product" -> IF j.op = "create" THEN Catalog!SetProduct(pg, j.id) ELSE pg
                       [] j.kind = "area" -> Catalog!SetArea(pg, j.id)
                       [] j.kind = "capability" -> Catalog!SetCapability(pg, j.id)
                       [] j.kind = "story" -> [pg EXCEPT !.story = j.id, !.store.work = j.id]
                       [] j.kind = "task" -> pg
    BY <1>2 DEF Catalog!Follows
  <2> HIDE DEF pg
  <2>4. CASE j.kind = "product" /\ j.op = "create"
    <3>1. Catalog!SetProduct(pg, j.id) \in CatPageRec /\ CatButStore(Catalog!SetProduct(pg, j.id), pg)
          /\ CatStores(Catalog!SetProduct(pg, j.id), j.id, Nobody, Nobody, Nobody)
      BY <2>1, <2>2, <2>4, CatRowFacts, CatSettersTyped DEF CatPerhaps
    <3>2. Catalog!Follows(j) = Catalog!SetProduct(pg, j.id)
      BY <2>3, <2>4
    <3> QED
      BY <1>2, <2>2, <3>1, <3>2 DEF CatButStore, CatStores
  <2>5. CASE (j.kind = "product" /\ j.op # "create") \/ j.kind = "task"
    <3>1. Catalog!Follows(j) = pg
      BY <2>3, <2>5
    <3> QED
      BY <1>2, <2>2, <3>1
  <2>6. CASE j.kind = "area"
    <3>1. Catalog!SetArea(pg, j.id) \in CatPageRec /\ CatButStore(Catalog!SetArea(pg, j.id), pg)
          /\ CatStores(Catalog!SetArea(pg, j.id), pg.store.product, j.id, Nobody, Nobody)
      BY <2>1, <2>2, <2>6, CatRowFacts, CatSettersTyped DEF CatPerhaps
    <3>2. Catalog!Follows(j) = Catalog!SetArea(pg, j.id)
      BY <2>3, <2>6
    <3>3. pg.dlg["area"] = "closed"
      BY <2>2, <2>6 DEF Catalog!Kinds
    <3> QED
      BY <1>2, <2>2, <3>1, <3>2, <3>3 DEF CatButStore, CatStores
  <2>7. CASE j.kind = "capability"
    <3>1. Catalog!SetCapability(pg, j.id) \in CatPageRec
          /\ CatButStore(Catalog!SetCapability(pg, j.id), pg)
          /\ CatStores(Catalog!SetCapability(pg, j.id), pg.store.product, pg.store.area, j.id, Nobody)
      BY <2>1, <2>2, <2>7, CatRowFacts, CatSettersTyped DEF CatPerhaps
    <3>2. Catalog!Follows(j) = Catalog!SetCapability(pg, j.id)
      BY <2>3, <2>7
    <3>3. pg.dlg["capability"] = "closed"
      BY <2>2, <2>7 DEF Catalog!Kinds
    <3> QED
      BY <1>2, <2>2, <3>1, <3>2, <3>3 DEF CatButStore, CatStores
  <2>8. CASE j.kind = "story"
    <3> DEFINE it == [pg EXCEPT !.story = j.id, !.store.work = j.id]
    <3>1. /\ it \in CatPageRec /\ it.draft = pg.draft /\ it.dep = pg.dep /\ it.dlg = pg.dlg
          /\ it.editing = pg.editing /\ it.ask = pg.ask /\ it.store.area = pg.store.area
          /\ it.store.cap = pg.store.cap
      <4>1. pg.store \in CatStoreRec /\ pg \in CatPageBase
        BY <2>2 DEF CatPageRec, CatPageBase
      <4> QED
        BY <2>1, <2>2, <4>1 DEF CatPageRec, CatPageBase, CatStoreRec, CatPerhaps
    <3>2. Catalog!Follows(j) = it
      BY <2>3, <2>8
    <3> HIDE DEF it
    <3> QED
      BY <1>2, <2>2, <3>1, <3>2
  <2> QED
    BY <2>1, <2>4, <2>5, <2>6, <2>7, <2>8 DEF Catalog!Kinds
<1> QED
  BY <1>1, <1>2

\* A call is over: the selection moves, the dialog closes.
LEMMA CatFinishKeeps == ASSUME CatBoth, NEW j \in jobs, Catalog!Finish(j) PROVE CatBoth'
<1>0. /\ CatIInv /\ CatTyped /\ CatSettled(table, log, seen) /\ CatWaited
         /\ CatFormed(page, seen, log)
      /\ page \in CatPageRec /\ CatSeenOK(seen)
  BY DEF CatBoth, CatIInv, CatTyped
<1>1. /\ j.at = "fetch" /\ page' = Catalog!Rendered(Catalog!Follows(j), seen) /\ jobs' = jobs \ {j}
      /\ UNCHANGED <<table, seen, due, log, rough>>
  BY DEF Catalog!Finish
<1> DEFINE F == Catalog!Follows(j)
<1>2. /\ F \in CatPageRec /\ F.draft = page.draft /\ F.dep = page.dep
      /\ \A k \in Catalog!Kinds : F.dlg[k] = IF j.op # "remove"
         /\ k = j.kind THEN "closed" ELSE page.dlg[k]
      /\ \A r \in Catalog!Removals : F.ask[r] = IF j.op = "remove"
         /\ r = j.kind THEN Nobody ELSE page.ask[r]
      /\ \A k \in Catalog!Kinds : F.editing[k] \in {Nobody, page.editing[k]}
      /\ F.dlg["area"] = "edit" => F.store.area \in {Nobody, page.store.area}
      /\ F.dlg["capability"] = "edit" => F.store.cap \in {Nobody, page.store.cap}
  BY <1>0, <1>1, CatFollowsFacts
<1> HIDE DEF F
<1>3. /\ F.dlg["area"] = "edit" => page.dlg["area"] = "edit"
      /\ F.dlg["capability"] = "edit" => page.dlg["capability"] = "edit"
  BY <1>2 DEF Catalog!Kinds
<1>4. /\ F.dlg["area"] = "edit" /\ ~ log.book["area"] => F.store.area \in {Nobody, F.draft["area"]}
      /\ F.dlg["capability"] = "edit" /\ ~ log.book["capability"]
         => F.store.cap \in {Nobody, F.draft["capability"]}
      /\ \A k \in {"story", "task"} : F.editing[k] # Nobody => F.draft[k] = F.editing[k]
      /\ F.draft["product"] = page.draft["product"]
  BY <1>0, <1>2, <1>3 DEF CatFormed, Catalog!Kinds
<1>5. /\ page' \in CatPageRec /\ CatFormed(page', seen, log) /\ page'.dep = page.dep
         /\ page'.dlg = F.dlg
      /\ page'.ask = F.ask
  <2>1. page' = Catalog!Rendered(F, seen)
    BY <1>1 DEF F
  <2> QED
    BY <1>0, <1>2, <1>4, <2>1, CatRenderForms
<1>6. CatIInv'
  BY <1>0, <1>1, <1>5 DEF CatIInv, CatTyped, CatSettled
<1>7. ASSUME ~ rough PROVE CatWaited'
  <2>1. jobs = {j} /\ jobs' = {} /\ CatPending1(j) /\ CatMirror(table, seen, due)
    BY <1>0, <1>1, <1>7, CatPartlyNone DEF CatWaited
  <2>2. CatClosed(page')
    BY <1>2, <1>5, <2>1 DEF CatPending1, CatClosed
  <2> QED
    BY <1>1, <2>1, <2>2, CatMirrorMore DEF CatWaited, CatClosed, CatOneOpen, CatAimed
<1> QED
  BY <1>1, <1>6, <1>7 DEF CatBoth, CatWaited

\* A query is fetched; an open dialog keeps the node it was opened for.
LEMMA CatFetchKeeps == ASSUME CatBoth, NEW q \in Catalog!Keys, Catalog!Fetch(q) PROVE CatBoth'
<1>0. /\ CatIInv /\ CatTyped /\ CatSettled(table, log, seen) /\ CatWaited
         /\ CatFormed(page, seen, log)
      /\ page \in CatPageRec /\ CatSeenOK(seen) /\ Catalog!Shape(table) /\ jobs \subseteq CatJobRec
  BY DEF CatBoth, CatIInv, CatTyped
<1>1. /\ q \in due /\ q \in Catalog!Mounted(page, seen) \cup UNION {j.waits : j \in jobs}
         /\ due' = due \ {q}
      /\ seen' = [seen EXCEPT ![q] = Catalog!Content(table, q)] /\ page' = Catalog!Rendered(page, seen')
      /\ jobs' = {[j EXCEPT !.waits = @ \ {q}] : j \in jobs} /\ UNCHANGED <<table, log, rough>>
  BY DEF Catalog!Fetch
<1>2. /\ seen' = [k \in Catalog!Keys |-> seen'[k]] /\ seen'[q] = Catalog!Content(table, q)
      /\ \A k \in Catalog!Keys \ {q} : seen'[k] = seen[k]
  BY <1>0, <1>1 DEF CatSeenOK
<1>3. CatSeenOK(seen')
  BY <1>0, <1>2, CatContentOK DEF CatSeenOK
<1>4. /\ page' \in CatPageRec /\ CatFormed(page', seen', log) /\ page'.dep = page.dep
         /\ page'.dlg = page.dlg
      /\ page'.ask = page.ask
  BY <1>0, <1>1, <1>3, CatRenderForms DEF CatFormed
<1>5. CatTreesKnown(table, log.used, seen')
  <2> SUFFICES ASSUME NEW p \in Catalog!Of("product"), NEW r \in seen'[<<"tree", p>>]
               PROVE  CatKnown(table, log.used, r[1], p)
    BY DEF CatTreesKnown
  <2>1. CASE q = <<"tree", p>>
    <3>1. seen'[<<"tree", p>>] = {<<i, table[i]>> : i \in {k \in CatNodeIds : table[k] # Nobody
          /\ CatProd(table, k) = p}}
      BY <1>0, <1>2, <2>1, CatContentTree
    <3>2. PICK i \in CatNodeIds : table[i] # Nobody /\ CatProd(table, i) = p /\ r[1] = i
      BY <3>1
    <3> QED
      BY <1>0, <3>2, CatRowFacts DEF CatKnown, CatSettled, CatNodeIds
  <2>2. CASE q # <<"tree", p>>
    BY <1>0, <1>2, <2>2, CatKeyFacts DEF CatSettled, CatTreesKnown
  <2> QED
    BY <2>1, <2>2
<1>6. \A k \in jobs' : \E j \in jobs : /\ k \in CatJobRec /\ k.op = j.op /\ k.kind = j.kind
                                            /\ k.at = j.at
                                       /\ k.under = j.under /\ k.goal = j.goal /\ k.id = j.id
                                          /\ k.dep = j.dep
  <2> SUFFICES ASSUME NEW k \in jobs'
               PROVE  \E j \in jobs : /\ k \in CatJobRec /\ k.op = j.op /\ k.kind = j.kind
                                           /\ k.at = j.at
                                      /\ k.under = j.under /\ k.goal = j.goal /\ k.id = j.id
                                         /\ k.dep = j.dep
    OBVIOUS
  <2>1. PICK j \in jobs : k = [j EXCEPT !.waits = @ \ {q}]
    BY <1>1
  <2>2. j \in CatJobRec
    BY <1>0
  <2>3. /\ k \in CatJobRec /\ k.op = j.op /\ k.kind = j.kind /\ k.at = j.at /\ k.under = j.under
        /\ k.goal = j.goal /\ k.id = j.id /\ k.dep = j.dep
    BY <2>1, <2>2, CatWaitsLess
  <2> QED
    BY <2>3
<1>7. CatSettled(table, log, seen')
  BY <1>0, <1>5 DEF CatSettled
<1>8. CatIInv'
  BY <1>0, <1>1, <1>3, <1>4, <1>6, <1>7 DEF CatIInv, CatTyped
<1>9. ASSUME ~ rough PROVE CatWaited'
  <2>1. /\ \A j, k \in jobs : j = k
        /\ CatMirror(table, seen, due \cup CatPartly) /\ CatOneOpen(page) /\ \A j \in jobs : CatPending1(j)
    BY <1>0, <1>9 DEF CatWaited
  <2>2. \A j, k \in jobs' : j = k
    BY <1>1, <2>1
  <2>4. CatOneOpen(page')
    BY <1>4, <2>1 DEF CatOneOpen
  <2>5. \A j \in jobs : j.at # "out"
    <3> SUFFICES ASSUME NEW j \in jobs, j.at = "out" PROVE FALSE
      OBVIOUS
    <3>1. jobs = {j} /\ j.waits = {} /\ due \cap Catalog!Mounted(page, seen) = {}
      BY <1>0, <2>1 DEF CatPending1, CatJobRec
    <3> QED
      BY <1>1, <3>1
  <2>3. CatMirror(table, seen', due')
    <3>1. CatMirror(table, seen, due)
      BY <2>1, <2>5, CatPartlyNone
    <3> QED
      BY <1>1, <1>2, <3>1 DEF CatMirror
  <2>6. ASSUME NEW k \in jobs' PROVE CatPending1(k)'
    <3>1. PICK j \in jobs : k.op = j.op /\ k.kind = j.kind /\ k.at = j.at /\ k.under = j.under
          /\ k.goal = j.goal
      BY <1>6
    <3> QED
      BY <1>4, <2>1, <2>5, <3>1 DEF CatPending1
  <2>7. ASSUME ~ CatFetching' PROVE CatAimed'
    <3>1. jobs = {}
      <4> SUFFICES ASSUME NEW j \in jobs PROVE FALSE
        OBVIOUS
      <4>1. j.at = "fetch" /\ j \in CatJobRec
        BY <1>0, <2>5 DEF CatJobRec, CatJobBase
      <4>2. PICK k : k = [j EXCEPT !.waits = @ \ {q}]
        OBVIOUS
      <4>3. k \in jobs' /\ k.at = "fetch"
        BY <1>1, <4>1, <4>2, CatWaitsLess
      <4> QED
        BY <2>7, <4>3 DEF CatFetching
    <3>2. CatAimed /\ q \in Catalog!Mounted(page, seen)
      BY <1>0, <1>1, <1>9, <3>1 DEF CatWaited, CatFetching
    <3>3. \A r \in Catalog!Removals : page.ask[r] = Nobody
      BY <1>1, <3>2 DEF CatAimed
    <3>4. ASSUME NEW k \in Catalog!Kinds, page.dlg[k] = "create"
          PROVE  CatCreateIn(k, log.goal[k])'
                 /\ due' \cap Catalog!Mounted(page', seen') \subseteq CatTaskQueries
      <4>1. CatCreateIn(k, log.goal[k]) /\ due \cap Catalog!Mounted(page, seen) \subseteq CatTaskQueries
        BY <3>2, <3>4 DEF CatAimed
      <4>2. q \in CatTaskQueries
        BY <1>1, <3>2, <4>1
      <4>3. CatAgree(seen, seen')
        BY <1>2, <4>2 DEF CatAgree
      <4>4. page.store.product = Catalog!Product(page, seen)
        BY <1>0 DEF CatFormed
      <4>5. page'.store = page.store /\ page'.story = page.story /\ page'.tab = page.tab
            /\ page'.console = page.console
        BY <1>0, <1>1, <1>3, <4>3, <4>4, CatRenderedFacts
      <4>6. /\ Catalog!Product(page', seen') = Catalog!Product(page, seen)
            /\ Catalog!ShownFeature(page', seen') = Catalog!ShownFeature(page, seen)
            /\ Catalog!ShownStory(page', seen') = Catalog!ShownStory(page, seen)
            /\ Catalog!Mounted(page', seen') = Catalog!Mounted(page, seen)
        BY <1>0, <1>3, <1>4, <4>3, <4>5, CatSameDerived
      <4>7. Catalog!Parent(k)' = Catalog!Parent(k)
        BY <4>5, <4>6 DEF Catalog!Parent
      <4>8. \A i : CatHere(i)' <=> CatHere(i)
        BY <1>1, <4>6 DEF CatHere
      <4>9. CatCreateIn(k, log.goal[k])'
        BY <1>1, <4>1, <4>7, <4>8 DEF CatCreateIn
      <4> QED
        BY <1>1, <4>1, <4>6, <4>9
    <3> QED
      BY <1>4, <3>3, <3>4 DEF CatAimed
  <2> QED
    BY <1>1, <2>2, <2>3, <2>4, <2>6, <2>7, CatMirrorMore DEF CatWaited
<1> QED
  BY <1>1, <1>8, <1>9 DEF CatBoth, CatWaited

\* Every step keeps the invariant.
LEMMA CatStepKeeps == ASSUME CatBoth, [Catalog!Next]_Catalog!vars PROVE CatBoth'
<1>1. CASE UNCHANGED Catalog!vars
  <2>1. UNCHANGED <<table, seen, due, page, jobs, log, rough>>
    BY <1>1 DEF Catalog!vars
  <2>2. CatIInv'
    BY <2>1 DEF CatBoth, CatIInv, CatTyped
  <2>3. CatWaited'
    <3>1. (\A k, i : CatCreateIn(k, i)' <=> CatCreateIn(k, i))
          /\ (\A r, i : CatRemoveIn(r, i)' <=> CatRemoveIn(r, i))
      BY <2>1 DEF CatCreateIn, CatRemoveIn, CatFeaturesSeen, Catalog!Parent, CatHere
    <3>2. (CatAimed' <=> CatAimed) /\ (CatFetching' <=> CatFetching)
          /\ \A j : CatPending1(j)' <=> CatPending1(j)
      BY <2>1, <3>1 DEF CatAimed, CatFetching, CatPending1
    <3>3. CatPartly' = CatPartly
      BY <2>1 DEF CatPartly
    <3>4. CatMirror(table', seen', due' \cup CatPartly') <=> CatMirror(table, seen, due \cup CatPartly)
      BY <2>1, <3>3
    <3> QED
      BY <2>1, <3>2, <3>4 DEF CatBoth, CatWaited
  <2> QED
    BY <2>2, <2>3 DEF CatBoth
<1>2. CASE Catalog!Acts /\ Catalog!Act
  <2>1. CatIdle
    BY <1>2 DEF Catalog!Acts, CatIdle
  <2>2. CASE CatBrowsing
    BY <2>1, <2>2, CatBrowsingKeeps
  <2>3. CASE \E p \in Catalog!Of("product") : Catalog!ManageProduct(p)
    BY <2>1, <2>3, CatManageKeeps
  <2>4. CASE \/ \E i \in RowIds : Catalog!EditNode(i) \/ Catalog!EditItem(i)
             \/ \E p \in Catalog!Of("product") : Catalog!EditProduct(p)
    BY <2>1, <2>4, CatEditingKeeps
  <2>5. CASE \/ Catalog!EditBook
             \/ \E i \in RowIds : Catalog!EditAreaOfBook(i)
                \/ \E a \in Catalog!Of("area") : Catalog!EditCapabilityOfBook(a, i)
    BY <2>1, <2>5, CatBookKeeps
  <2>6. CASE \E i \in RowIds : Catalog!CreateCapability(i)
    BY <2>1, <2>6, CatCreateCapabilityKeeps
  <2>7. CASE Catalog!CreateProduct \/ Catalog!CreateArea \/ Catalog!CreateStory \/ Catalog!CreateTask
    BY <2>1, <2>7, CatCreatingKeeps
  <2>8. CASE Catalog!PlanFromBook \/ Catalog!OpenBuilder
    BY <2>1, <2>8, CatLeavingKeeps
  <2>9. CASE \E i \in RowIds : \E r \in Catalog!Removals : Catalog!Ask(r, i)
    BY <2>1, <2>9, CatAskKeeps
  <2>10. CASE Catalog!AddDependency \/ Catalog!Dismiss \/ Catalog!Refresh
    BY <2>1, <2>10, CatAddDependencyKeeps, CatDismissKeeps, CatRefreshKeeps
  <2>11. CASE \/ \E k \in Catalog!Kinds : Catalog!Save(k)
              \/ \E r \in Catalog!Removals : Catalog!Confirm(r)
    BY <2>1, <2>11, CatSaveKeeps, CatConfirmKeeps
  <2> QED
    BY <1>2, <2>2, <2>3, <2>4, <2>5, <2>6, <2>7, <2>8, <2>9, <2>10, <2>11 DEF Catalog!Act,
       CatBrowsing
<1>3. ASSUME NEW j \in jobs, Catalog!Created(j) \/ Catalog!Updated(j) \/ Catalog!Removed(j)
             \/ Catalog!TaskRemoved(j) \/ Catalog!Depended(j) \/ Catalog!Refused(j) \/ Catalog!Finish(j)
      PROVE  CatBoth'
  BY <1>3, CatCreatedKeeps, CatUpdatedKeeps, CatRemovedKeeps, CatTaskRemovedKeeps,
     CatDependedKeeps, CatRefusedKeeps, CatFinishKeeps
<1>4. ASSUME NEW q \in Catalog!Keys, Catalog!Fetch(q) \/ Catalog!FetchFails(q) PROVE CatBoth'
  BY <1>4, CatFetchKeeps, CatFetchFailsKeeps
<1> QED
  BY <1>1, <1>2, <1>3, <1>4 DEF Catalog!Next

\* The invariant says what the types are.
LEMMA CatTypeOKHolds == CatIInv => Catalog!TypeOK
<1> SUFFICES ASSUME CatIInv PROVE Catalog!TypeOK
  OBVIOUS
<1>1. Catalog!Shape(table) /\ CatSeenOK(seen) /\ due \subseteq Catalog!Keys /\ page \in CatPageBase
      /\ jobs \subseteq CatJobRec
  BY CatPageFacts
<1>2. \A q \in Catalog!Keys : seen[q] \subseteq RowIds \X (RowIds \cup {Catalog!Top})
  BY <1>1 DEF CatSeenOK, CatAnswerOK
<1>3. /\ page.tab \in Catalog!Tabs /\ page.console \in Catalog!Consoles
      /\ \A k \in Catalog!Kinds : page.draft[k] \in RowIds \cup {Nobody}
         /\ page.dlg[k] \in {"closed", "create", "edit"}
  BY <1>1 DEF CatPageBase, CatPerhaps
<1>4. \A j \in jobs : j.at \in {"out", "fetch"} /\ j.waits \subseteq Catalog!Keys
  BY <1>1 DEF CatJobRec, CatJobBase
<1> QED
  BY <1>1, <1>2, <1>3, <1>4 DEF Catalog!TypeOK

\* The invariant says that an edit is saved with the form of its row.
LEMMA CatOwnFormHolds == CatIInv => Catalog!OwnForm
  BY DEF CatIInv, CatTyped, CatJobRec, Catalog!OwnForm

\* The invariant says that a new row goes under the node it was opened for.
LEMMA CatUnderOpenedHolds == CatBoth => Catalog!UnderOpened
  BY DEF CatBoth, CatWaited, CatPending1, Catalog!UnderOpened

\* The invariant says that what is shown is what the database has.
LEMMA CatFreshTreeHolds == CatBoth => Catalog!FreshTree
<1> SUFFICES ASSUME CatBoth, ~ rough, Catalog!Quiet,
                    NEW q \in Catalog!Mounted(page, seen) PROVE seen[q] = Catalog!Content(table, q)
  BY DEF Catalog!FreshTree
<1>1. Catalog!Mounted(page, seen) \subseteq Catalog!Keys
  BY CatPageFacts, CatDerivedTyped DEF CatBoth
<1> QED
  BY <1>1, CatPartlyNone DEF CatBoth, CatWaited, CatMirror, Catalog!Quiet

==============================================================================
