------------------------------ MODULE ToolsProofs ------------------------------
(***************************************************************************)
(* What the pages that work with a model keep, for every value of the      *)
(* constants.  Of each page an invariant is proved, step by step: of the   *)
(* IDE here, of the chats and the phone in TalkProofs, of the planner in   *)
(* PlannerProofs.  The theorems at the end say what that means for the     *)
(* behaviours of Tools.                                                    *)
(***************************************************************************)
EXTENDS TalkProofs, Sequences, WellFoundedInduction

------------------------------------------------------------------------------
(* The IDE: what it may hold, and its invariant *)

\* What the page, the tables and the calls under way may hold.
IdeOpenRec == [repo : Nat, file : Files, text : Int, dirty : BOOLEAN]
IdeProposals == {Ide!NoProposal} \cup [of : Products, patches : Ide!Patches]
IdePageRec == [product : Products, item : BOOLEAN, repo : Nat, open : Seq(IdeOpenRec),
            active : Nat \X (Files \cup {Ide!None}), sending : BOOLEAN, asked : SUBSET Nat,
            proposal : IdeProposals]
IdeTableRec == [folder : Seq(Ide!Folders), item : Nat, homes : [Products -> Seq(Nat)],
             disk : [Ide!Folders -> [Files -> Int]]]
IdeLists == {<<>>, <<"home">>, <<"item">>, <<"home", "item">>}
IdeCallRec == [n : {0} \cup Ide!Slots, op : {"read", "save", "apply", "folder", "create", "send"},
            at : {"out", "attach", "read", "fetch", "on", "timer"}, live : BOOLEAN,
            product : Products, repo : Nat, file : Files \cup {Ide!None}, text : Int,
            patches : Ide!Patches \cup {<<>>}, known : SUBSET (Nat \X Files),
            folder : Ide!Folders \cup {Ide!None}, item : BOOLEAN, mode : Ide!Modes, msg : Nat,
            over : BOOLEAN, todo : IdeLists, waits : SUBSET Ide!Keys]
IdeJobRec == {j \in IdeCallRec :
           /\ j.op \in {"read", "save", "apply"} => j.repo # Ide!None
           /\ j.op \in {"read", "save"} => j.at = "out" /\ j.file \in Files
           /\ j.op = "apply" => j.at \in {"out", "read"} /\ j.patches \in Ide!Patches
           /\ j.op = "folder" => j.at \in {"out", "attach", "fetch"} /\ j.folder \in Ide!Folders
           /\ j.op = "create" => j.at \in {"out", "fetch"}
           /\ j.op = "send" => j.at \in {"out", "on", "timer"}
           /\ j.at \in {"attach", "fetch"} => j.repo # Ide!None
           /\ j.at # "fetch" => j.todo = <<>>}

\* Two pages that differ in the files and the tabs, or in nothing.
IdeSameButFiles(X, pg) ==
    /\ X.product = pg.product /\ X.item = pg.item /\ X.repo = pg.repo
    /\ X.asked = pg.asked /\ X.proposal = pg.proposal

IdeTyped ==
    /\ page \in IdePageRec /\ table \in IdeTableRec /\ jobs \subseteq IdeJobRec
    /\ due \subseteq Ide!Keys /\ acts \in Nat /\ DOMAIN seen = Ide!Keys

\* Every number of a row is the number of one.
IdeKnown(r) == r \in {Ide!None} \cup Ide!Rows(table)
IdeRowsThere ==
    /\ \A p \in Products : \A k \in DOMAIN table.homes[p] : table.homes[p][k] \in Ide!Rows(table)
    /\ IdeKnown(table.item) /\ IdeKnown(page.repo) /\ table.homes[First] # <<>>
    /\ \A k \in DOMAIN page.open : page.open[k].repo \in Ide!Rows(table)
    /\ seen[<<"list">>] \subseteq Ide!Rows(table) /\ IdeKnown(seen[<<"item">>])
    /\ \A p \in Products : IdeKnown(seen[<<"home", p>>])
    /\ \A j \in jobs : IdeKnown(j.repo) /\ j.n # 0

\* No file is open twice.
IdeOpenOnce == \A k, l \in DOMAIN page.open : Ide!Id(page.open[k]) = Ide!Id(page.open[l]) => k = l

\* A message that is in the conversation was asked for under the product.
IdeAsked ==
    /\ Ide!OwnProposal
    /\ \A n \in page.asked : n < acts
    /\ \A j \in jobs : j.msg < acts
    /\ \A j \in jobs : j.op = "send" /\ j.msg \in page.asked => j.product = page.product

\* A query that is not to be fetched shows what the tables hold, or is about to
\* be invalidated; and what is attached is in the list.
IdeAhead(j, kind) == \E k \in DOMAIN j.todo : j.todo[k] = kind
IdeInList(r) == r \in {Ide!None} \cup seen[<<"list">>] \/ <<"list">> \in due
IdeCurrent ==
    /\ \A q \in Ide!Keys \ {<<"list">>} :
          q \in due \/ seen[q] = Ide!Content(table, q) \/ \E j \in jobs : IdeAhead(j, q[1])
    /\ IdeInList(table.item) /\ \A p \in Products : IdeInList(Ide!Home(table, p))
    /\ \A j \in jobs : j.op = "folder" /\ j.at = "out" => IdeInList(j.repo)

\* The page is as its effect leaves it.
IdeSettled ==
    Ide!Preferred(page, seen) \in {Ide!None} \cup seen[<<"list">>] =>
        page.repo = Ide!Preferred(page, seen)

\* What a person who waits can rely on: no folder is registered twice, and the
\* list names every row; one call is under way, about the files as they are;
\* but for a file that a patch makes the page read again, what is not marked as
\* unsaved is on the disk.
IdeBusy(j) == j.at # "timer"
IdeAlone == \A i, j \in jobs : IdeBusy(i) /\ IdeBusy(j) => i = j
IdeOneRowEach == \A r, s \in Ide!Rows(table) : table.folder[r] = table.folder[s] => r = s
IdeListRead ==
    <<"list">> \in due \/ seen[<<"list">>] = Ide!Rows(table) \/ \E j \in jobs : j.at = "attach"
IdeFits(j) ==
    /\ j.op = "folder" /\ j.at = "out" /\ j.repo = Ide!None =>
          \A r \in Ide!Rows(table) : table.folder[r] # j.folder
    /\ j.op = "save" => \A k \in DOMAIN page.open :
          Ide!Id(page.open[k]) = <<j.repo, j.file>> => page.open[k].text = j.text
    /\ j.op = "apply" => j.known = {Ide!Id(page.open[k]) : k \in DOMAIN page.open}
IdeOnDisk(tb, o) == o.dirty \/ o.file \in OnDisk \/ o.text = tb.disk[tb.folder[o.repo]][o.file]
IdeRereads(j, o) == j.at = "read" /\ Ide!Id(o) = <<j.repo, Head(j.patches)>>
IdeClean == \A k \in DOMAIN page.open :
    IdeOnDisk(table, page.open[k]) \/ \E j \in jobs : IdeRereads(j, page.open[k])
IdeWaited ==
    ~ rough => IdeAlone /\ IdeOneRowEach /\ IdeListRead /\ (\A j \in jobs : IdeFits(j)) /\ IdeClean

IdeIInv == IdeTyped /\ IdeRowsThere /\ IdeOpenOnce /\ IdeAsked /\ IdeCurrent /\ IdeSettled /\ IdeWaited

------------------------------------------------------------------------------
(* Sets of numbers *)

\* A set of numbers has a smallest one.
LEMMA IdeLeastFacts ==
    ASSUME NEW S \in SUBSET Nat, S # {}
    PROVE  \E x \in S : \A y \in S : x <= y
<1> DEFINE R == OpToRel(<, Nat)
<1>1. IsWellFoundedOn(R, Nat)
  BY NatLessThanWellFounded
<1>2. \A x, y \in Nat : <<y, x>> \in R <=> y < x
  BY DEF OpToRel
<1> HIDE DEF R
<1>3. PICK x \in S : \A y \in S : ~ (<<y, x>> \in R)
  BY <1>1, WFMin
<1>4. \A y \in S : ~ (y < x) /\ y \in Nat /\ x \in Nat
  BY <1>2, <1>3
<1> QED
  BY <1>4

\* A set of numbers below n has a largest one.
LEMMA IdeGreatestFacts ==
    ASSUME NEW n \in Nat, NEW S \in SUBSET (1 .. n), S # {}
    PROVE  \E x \in S : \A y \in S : y <= x
<1> DEFINE T == {m \in Nat : \A y \in S : y <= m}
<1>1. n \in T
  OBVIOUS
<1>2. PICK m \in T : \A k \in T : m <= k
  <2> HIDE DEF T
  <2>1. T \subseteq Nat
    BY DEF T
  <2> QED
    BY <1>1, <2>1, IdeLeastFacts
<1>3. m \in S
  <2> SUFFICES ASSUME m \notin S
               PROVE  FALSE
    OBVIOUS
  <2>1. \A y \in S : y \in 1 .. n /\ y <= m /\ y # m
    OBVIOUS
  <2>2. m - 1 \in Nat
    BY <2>1, \E y \in S : TRUE
  <2>3. m - 1 \in T
    BY <2>1, <2>2
  <2> QED
    BY <1>2, <2>3
<1> QED
  BY <1>3

------------------------------------------------------------------------------
(* Sequences, and the files that are open *)

\* A function on 1 .. n is a sequence of n.
LEMMA IdeSeqOfFunction ==
    ASSUME NEW S, NEW n \in Nat, NEW f \in [1 .. n -> S] PROVE f \in Seq(S) /\ Len(f) = n
  BY SMT

\* Typing in a file leaves the files that are open, and their order.
LEMMA IdeTypedFacts ==
    ASSUME NEW pg \in IdePageRec, NEW id, NEW t \in Int, NEW X, X = Ide!updateFileContent(pg, id, t)
    PROVE  /\ IdeSameButFiles(X, pg) /\ X \in IdePageRec /\ DOMAIN X.open = DOMAIN pg.open
           /\ \A k \in DOMAIN pg.open :
                 /\ Ide!Id(X.open[k]) = Ide!Id(pg.open[k]) /\ X.open[k].repo = pg.open[k].repo
                 /\ X.open[k].file = pg.open[k].file
                 /\ Ide!Id(pg.open[k]) = id => X.open[k].text = t /\ X.open[k].dirty
                 /\ Ide!Id(pg.open[k]) # id => X.open[k] = pg.open[k]
<1> DEFINE s == [k \in DOMAIN pg.open |->
                    IF Ide!Id(pg.open[k]) = id THEN [pg.open[k] EXCEPT !.text = t, !.dirty = TRUE] ELSE pg.open[k]]
<1>1. pg.open \in Seq(IdeOpenRec) /\ Len(pg.open) \in Nat /\ DOMAIN pg.open = 1 .. Len(pg.open)
  BY DEF IdePageRec
<1>2. \A k \in DOMAIN pg.open : pg.open[k] \in IdeOpenRec
  BY <1>1
<1>3. \A k \in DOMAIN pg.open : s[k] \in IdeOpenRec
  BY <1>2 DEF IdeOpenRec
<1>4. s \in [1 .. Len(pg.open) -> IdeOpenRec]
  BY <1>1, <1>3
<1>5. s \in Seq(IdeOpenRec)
  BY <1>1, <1>4, IdeSeqOfFunction
<1>6. \A k \in DOMAIN pg.open :
         /\ Ide!Id(s[k]) = Ide!Id(pg.open[k]) /\ s[k].repo = pg.open[k].repo
         /\ s[k].file = pg.open[k].file
         /\ Ide!Id(pg.open[k]) = id => s[k].text = t /\ s[k].dirty
         /\ Ide!Id(pg.open[k]) # id => s[k] = pg.open[k]
  BY <1>2 DEF IdeOpenRec, Ide!Id
<1>7. DOMAIN s = DOMAIN pg.open
  OBVIOUS
<1>8. X = [pg EXCEPT !.open = s]
  BY DEF Ide!WithText, Ide!updateFileContent
<1> HIDE DEF s
<1>9. X \in IdePageRec /\ X.open = s
  BY <1>5, <1>8 DEF IdePageRec
<1>10. IdeSameButFiles(X, pg)
  BY <1>8 DEF IdePageRec, IdeSameButFiles
<1> QED
  BY <1>6, <1>7, <1>9, <1>10

\* So does a text that is read or saved, and the file loses its mark.
LEMMA IdeCleanFacts ==
    ASSUME NEW pg \in IdePageRec, NEW id, NEW t \in Int, NEW X, X = Ide!replaceFileContent(pg, id, t)
    PROVE  /\ IdeSameButFiles(X, pg) /\ X \in IdePageRec /\ DOMAIN X.open = DOMAIN pg.open
           /\ \A k \in DOMAIN pg.open :
                 /\ Ide!Id(X.open[k]) = Ide!Id(pg.open[k]) /\ X.open[k].repo = pg.open[k].repo
                 /\ X.open[k].file = pg.open[k].file
                 /\ Ide!Id(pg.open[k]) = id => X.open[k].text = t /\ ~ X.open[k].dirty
                 /\ Ide!Id(pg.open[k]) # id => X.open[k] = pg.open[k]
<1> DEFINE s == [k \in DOMAIN pg.open |->
                    IF Ide!Id(pg.open[k]) = id THEN [pg.open[k] EXCEPT !.text = t, !.dirty = FALSE] ELSE pg.open[k]]
<1>1. pg.open \in Seq(IdeOpenRec) /\ Len(pg.open) \in Nat /\ DOMAIN pg.open = 1 .. Len(pg.open)
  BY DEF IdePageRec
<1>2. \A k \in DOMAIN pg.open : pg.open[k] \in IdeOpenRec
  BY <1>1
<1>3. \A k \in DOMAIN pg.open : s[k] \in IdeOpenRec
  BY <1>2 DEF IdeOpenRec
<1>4. s \in [1 .. Len(pg.open) -> IdeOpenRec]
  BY <1>1, <1>3
<1>5. s \in Seq(IdeOpenRec)
  BY <1>1, <1>4, IdeSeqOfFunction
<1>6. \A k \in DOMAIN pg.open :
         /\ Ide!Id(s[k]) = Ide!Id(pg.open[k]) /\ s[k].repo = pg.open[k].repo
         /\ s[k].file = pg.open[k].file
         /\ Ide!Id(pg.open[k]) = id => s[k].text = t /\ ~ s[k].dirty
         /\ Ide!Id(pg.open[k]) # id => s[k] = pg.open[k]
  BY <1>2 DEF IdeOpenRec, Ide!Id
<1>7. DOMAIN s = DOMAIN pg.open
  OBVIOUS
<1>8. X = [pg EXCEPT !.open = s]
  BY DEF Ide!WithText, Ide!replaceFileContent
<1> HIDE DEF s
<1>9. X \in IdePageRec /\ X.open = s
  BY <1>5, <1>8 DEF IdePageRec
<1>10. IdeSameButFiles(X, pg)
  BY <1>8 DEF IdePageRec, IdeSameButFiles
<1> QED
  BY <1>6, <1>7, <1>9, <1>10

\* The tab of a file that is open.
LEMMA IdeTabFacts ==
    ASSUME NEW pg \in IdePageRec, NEW id, Ide!IsOpen(pg, id)
    PROVE  /\ Ide!Tab(pg, id) \in DOMAIN pg.open /\ Ide!Id(pg.open[Ide!Tab(pg, id)]) = id
           /\ Ide!OpenOf(pg, id) = pg.open[Ide!Tab(pg, id)] /\ Ide!OpenOf(pg, id) \in IdeOpenRec
<1>1. Ide!Tab(pg, id) \in DOMAIN pg.open /\ Ide!Id(pg.open[Ide!Tab(pg, id)]) = id
  BY DEF Ide!IsOpen, Ide!Tab
<1>2. pg.open \in Seq(IdeOpenRec)
  BY DEF IdePageRec
<1> QED
  BY <1>1, <1>2 DEF Ide!OpenOf

\* A file that is not open is opened last.
LEMMA IdeOpenFacts ==
    ASSUME NEW pg \in IdePageRec, NEW r \in Nat, NEW f \in Files, NEW t \in Int,
           NEW X, X = Ide!openFile(pg, <<r, f>>, t)
    PROVE  /\ IdeSameButFiles(X, pg) /\ X \in IdePageRec
           /\ \A k \in DOMAIN X.open :
                 \/ k \in DOMAIN pg.open /\ X.open[k] = pg.open[k]
                 \/ X.open[k].repo = r /\ X.open[k].file = f /\ X.open[k].text = t
           /\ (\A k, l \in DOMAIN pg.open : Ide!Id(pg.open[k]) = Ide!Id(pg.open[l]) => k = l) =>
                 \A k, l \in DOMAIN X.open : Ide!Id(X.open[k]) = Ide!Id(X.open[l]) => k = l
<1> DEFINE o == [repo |-> r, file |-> f, text |-> t, dirty |-> FALSE]
           s == Append(pg.open, o)
<1>1. pg.open \in Seq(IdeOpenRec) /\ Len(pg.open) \in Nat /\ DOMAIN pg.open = 1 .. Len(pg.open)
  BY DEF IdePageRec
<1>2. o \in IdeOpenRec
  BY DEF IdeOpenRec
<1>3. o.repo = r /\ o.file = f /\ o.text = t
  OBVIOUS
<1> HIDE DEF o
<1>4. /\ s \in Seq(IdeOpenRec) /\ DOMAIN s = 1 .. Len(pg.open) + 1 /\ s[Len(pg.open) + 1] = o
      /\ \A k \in DOMAIN pg.open : s[k] = pg.open[k]
  BY <1>1, <1>2
<1>5. DOMAIN s = DOMAIN pg.open \cup {Len(pg.open) + 1}
  BY <1>1, <1>4
<1> HIDE DEF s
<1>6. <<r, f>> \in Nat \X (Files \cup {Ide!None})
  OBVIOUS
<1>7. PICK a \in Nat \X (Files \cup {Ide!None}) : a = <<r, f>>
  BY <1>6
<1>8. CASE Ide!IsOpen(pg, <<r, f>>)
  <2>1. X = [pg EXCEPT !.active = a, !.open = pg.open]
    BY <1>7, <1>8 DEF Ide!openFile
  <2>2. X \in IdePageRec
    BY <1>1, <2>1 DEF IdePageRec
  <2>3. X.open = pg.open /\ IdeSameButFiles(X, pg)
    BY <2>1 DEF IdePageRec, IdeSameButFiles
  <2> QED
    BY <1>8, <2>2, <2>3
<1>9. CASE ~ Ide!IsOpen(pg, <<r, f>>)
  <2>1. X = [pg EXCEPT !.active = a, !.open = s]
    BY <1>7, <1>9 DEF Ide!openFile, o, s
  <2>2. X \in IdePageRec
    BY <1>4, <2>1 DEF IdePageRec
  <2>3. X.open = s /\ IdeSameButFiles(X, pg)
    BY <2>1 DEF IdePageRec, IdeSameButFiles
  <2>4. \A k \in DOMAIN pg.open : Ide!Id(pg.open[k]) # <<r, f>>
    BY <1>9 DEF Ide!IsOpen
  <2>5. \A k \in DOMAIN X.open :
           \/ k \in DOMAIN pg.open /\ X.open[k] = pg.open[k]
           \/ k = Len(pg.open) + 1 /\ X.open[k] = o
    BY <1>4, <1>5, <2>3
  <2>6. \A k \in DOMAIN X.open :
           \/ k \in DOMAIN pg.open /\ X.open[k] = pg.open[k]
           \/ X.open[k].repo = r /\ X.open[k].file = f /\ X.open[k].text = t
    BY <1>3, <2>5
  <2>7. Ide!Id(o) = <<r, f>>
    BY <1>3 DEF Ide!Id
  <2>8. (\A k, l \in DOMAIN pg.open : Ide!Id(pg.open[k]) = Ide!Id(pg.open[l]) => k = l) =>
           \A k, l \in DOMAIN X.open : Ide!Id(X.open[k]) = Ide!Id(X.open[l]) => k = l
    BY <2>4, <2>5, <2>7
  <2> QED
    BY <2>2, <2>3, <2>6, <2>8
<1> QED
  BY <1>8, <1>9

\* What stays open when a file is closed was open before, in the same order.
LEMMA IdeCloseFacts ==
    ASSUME NEW pg \in IdePageRec, NEW id, Ide!IsOpen(pg, id)
    PROVE  LET X == Ide!closeFile(pg, id)
           IN  /\ IdeSameButFiles(X, pg) /\ X \in IdePageRec
               /\ \E n \in DOMAIN pg.open :
                     /\ \A k \in DOMAIN X.open : (IF k < n THEN k ELSE k + 1) \in DOMAIN pg.open
                     /\ \A k \in DOMAIN X.open : X.open[k] = pg.open[IF k < n THEN k ELSE k + 1]
                     /\ DOMAIN X.open \subseteq Nat
<1> DEFINE n == Ide!Tab(pg, id)
           m == Len(pg.open) - 1
           s == [i \in 1 .. m |-> pg.open[IF i < n THEN i ELSE i + 1]]
           a == IF pg.active # id THEN pg.active ELSE IF s = <<>> THEN Ide!NoFile ELSE Ide!Id(s[Len(s)])
<1>1. pg.open \in Seq(IdeOpenRec) /\ Len(pg.open) \in Nat /\ DOMAIN pg.open = 1 .. Len(pg.open)
  BY DEF IdePageRec
<1>2. n \in DOMAIN pg.open
  BY IdeTabFacts
<1> HIDE DEF n
<1>3. m \in Nat
  BY <1>1, <1>2
<1>4. \A k \in 1 .. m : (IF k < n THEN k ELSE k + 1) \in DOMAIN pg.open
  BY <1>1, <1>2
<1>5. s \in [1 .. m -> IdeOpenRec]
  BY <1>1, <1>4
<1>6. s \in Seq(IdeOpenRec) /\ Len(s) = m /\ DOMAIN s = 1 .. m
  BY <1>3, <1>5, IdeSeqOfFunction
<1>7. \A k \in 1 .. m : s[k] = pg.open[IF k < n THEN k ELSE k + 1]
  OBVIOUS
<1> HIDE DEF m
<1>8. Ide!closeFile(pg, id) = [pg EXCEPT !.open = s, !.active = a]
  BY DEF Ide!closeFile, n, m
<1> HIDE DEF s
<1>9. a \in Nat \X (Files \cup {Ide!None})
  <2>1. CASE pg.active # id
    BY <2>1 DEF IdePageRec
  <2>2. CASE pg.active = id /\ s = <<>>
    BY <2>2 DEF Ide!NoFile, Ide!None
  <2>3. CASE pg.active = id /\ s # <<>>
    <3>1. Len(s) \in DOMAIN s /\ s[Len(s)] \in IdeOpenRec
      BY <1>6, <2>3
    <3> QED
      BY <2>3, <3>1 DEF Ide!Id, IdeOpenRec
  <2> QED
    BY <2>1, <2>2, <2>3
<1> HIDE DEF a
<1>10. [pg EXCEPT !.open = s, !.active = a] \in IdePageRec
  BY <1>6, <1>9 DEF IdePageRec
<1>11. [pg EXCEPT !.open = s, !.active = a].open = s /\ [pg EXCEPT !.open = s, !.active = a].active = a
  BY DEF IdePageRec
<1>12. DOMAIN s \subseteq Nat /\ \A k \in DOMAIN s : (IF k < n THEN k ELSE k + 1) \in DOMAIN pg.open
  BY <1>4, <1>6
<1>13. \A k \in DOMAIN s : s[k] = pg.open[IF k < n THEN k ELSE k + 1]
  BY <1>6, <1>7
<1>14. IdeSameButFiles([pg EXCEPT !.open = s, !.active = a], pg)
  BY DEF IdePageRec, IdeSameButFiles
<1> QED
  BY <1>2, <1>8, <1>10, <1>11, <1>12, <1>13, <1>14

------------------------------------------------------------------------------
(* The page and its effect *)

\* The page after the effect differs in the workspace alone.
LEMMA IdeRenderedFacts ==
    ASSUME NEW pg \in IdePageRec, NEW sn, Ide!Preferred(pg, sn) \in Nat
    PROVE  LET X == Ide!Rendered(pg, sn)
           IN  /\ X = [pg EXCEPT !.repo = X.repo] /\ X \in IdePageRec
               /\ X.repo \in {pg.repo, Ide!Preferred(pg, sn)}
               /\ Ide!Preferred(pg, sn) \in {Ide!None} \cup sn[<<"list">>]
                  => X.repo = Ide!Preferred(pg, sn)
               /\ Ide!Preferred(X, sn) = Ide!Preferred(pg, sn)
<1> DEFINE r == IF Ide!Preferred(pg, sn) \in {Ide!None} \cup sn[<<"list">>] THEN Ide!Preferred(pg, sn) ELSE pg.repo
<1>1. Ide!Rendered(pg, sn) = [pg EXCEPT !.repo = r]
  BY DEF Ide!Rendered, IdePageRec
<1>2. r \in Nat
  BY DEF IdePageRec
<1>3. /\ r \in {pg.repo, Ide!Preferred(pg, sn)}
      /\ Ide!Preferred(pg, sn) \in {Ide!None} \cup sn[<<"list">>] => r = Ide!Preferred(pg, sn)
  OBVIOUS
<1> HIDE DEF r
<1>4. /\ [pg EXCEPT !.repo = r] \in IdePageRec /\ [pg EXCEPT !.repo = r].repo = r
      /\ [pg EXCEPT !.repo = r].item = pg.item /\ [pg EXCEPT !.repo = r].product = pg.product
  BY <1>2 DEF IdePageRec
<1>5. Ide!Preferred([pg EXCEPT !.repo = r], sn) = Ide!Preferred(pg, sn)
  BY <1>4 DEF Ide!Preferred
<1> QED
  BY <1>1, <1>3, <1>4, <1>5

\* A workspace that a query names is the number of a row.
LEMMA IdePreferredKnown ==
    ASSUME IdeRowsThere, IdeTyped, NEW pg \in IdePageRec
    PROVE  /\ IdeKnown(Ide!Preferred(pg, seen)) /\ Ide!Preferred(pg, seen) \in Nat
           /\ Ide!Rows(table) \subseteq Nat /\ \A r \in Ide!Rows(table) : r # Ide!None
<1>1. IdeKnown(Ide!Preferred(pg, seen))
  BY DEF IdeRowsThere, Ide!Preferred, IdePageRec
<1>2. Len(table.folder) \in Nat
  BY DEF IdeTyped, IdeTableRec
<1> QED
  BY <1>1, <1>2 DEF IdeKnown, Ide!Rows, Ide!None

\* A person who waits finds every file settled and every row in the list.
LEMMA IdeActFacts ==
    ASSUME IdeIInv, Ide!Acts
    PROVE  /\ acts' = acts + 1 /\ acts' \in Nat
           /\ ~ rough => /\ \A j \in jobs : ~ IdeBusy(j)
                         /\ seen[<<"list">>] = Ide!Rows(table)
                         /\ \A k \in DOMAIN page.open : IdeOnDisk(table, page.open[k])
<1>1. acts' = acts + 1 /\ acts' \in Nat
  BY DEF Ide!Acts, IdeIInv, IdeTyped
<1> SUFFICES ASSUME ~ rough PROVE /\ \A j \in jobs : ~ IdeBusy(j)
                                  /\ seen[<<"list">>] = Ide!Rows(table)
                                  /\ \A k \in DOMAIN page.open : IdeOnDisk(table, page.open[k])
  BY <1>1
<1>2. \A j \in jobs : j.at = "timer"
  BY DEF Ide!Acts, Ide!Quiet
<1>3. <<"list">> \notin due
  BY DEF Ide!Acts, Ide!Quiet, Ide!Mounted
<1> QED
  BY <1>2, <1>3 DEF IdeIInv, IdeWaited, IdeListRead, IdeClean, IdeRereads, IdeBusy

------------------------------------------------------------------------------
(* What leaves a part of the invariant alone *)

\* The rows stay, and what names them.
LEMMA IdeRowsFrame ==
    ASSUME IdeRowsThere, Ide!Rows(table) \subseteq Ide!Rows(table'), table'.homes = table.homes,
           table'.item = table.item, seen' = seen, page'.repo \in {Ide!None} \cup Ide!Rows(table'),
           \A k \in DOMAIN page'.open : page'.open[k].repo \in Ide!Rows(table'),
           \A j \in jobs' : j.repo \in {Ide!None} \cup Ide!Rows(table') /\ j.n # 0
    PROVE  IdeRowsThere'
  BY DEF IdeRowsThere, IdeKnown

\* The conversation stays, or loses messages.
LEMMA IdeAskedFrame ==
    ASSUME IdeAsked, page'.product = page.product, page'.proposal = page.proposal,
           page'.asked \subseteq page.asked, acts' = acts,
           \A j \in jobs' : \E i \in jobs : i.msg = j.msg /\ i.op = j.op /\ i.product = j.product
    PROVE  IdeAsked'
  BY DEF IdeAsked, Ide!OwnProposal

\* The tables and what was fetched stay; calls keep what they will invalidate.
LEMMA IdeCurrentFrame ==
    ASSUME IdeCurrent, table'.homes = table.homes, table'.item = table.item, seen' = seen,
           due \subseteq due',
           \A j \in jobs : j.todo # <<>> => \E i \in jobs' : i.todo = j.todo,
           \A j \in jobs' : j.op = "folder" /\ j.at = "out" =>
               \E i \in jobs : i.op = "folder" /\ i.at = "out" /\ i.repo = j.repo
    PROVE  IdeCurrent'
<1>1. \A q \in Ide!Keys \ {<<"list">>} : Ide!Content(table', q) = Ide!Content(table, q)
  BY DEF Ide!Content, Ide!Home, Ide!Keys
<1>2. \A p : Ide!Home(table', p) = Ide!Home(table, p)
  BY DEF Ide!Home
<1>3. \A j \in jobs : \A kind : IdeAhead(j, kind) => \E i \in jobs' : IdeAhead(i, kind)
  BY DEF IdeAhead
<1>4. \A r : IdeInList(r) => r \in {Ide!None} \cup seen'[<<"list">>] \/ <<"list">> \in due'
  BY DEF IdeInList
<1>5. \A q \in Ide!Keys \ {<<"list">>} :
         q \in due' \/ seen'[q] = Ide!Content(table', q) \/ \E j \in jobs' : IdeAhead(j, q[1])
  BY <1>1, <1>3 DEF IdeCurrent
<1>6. /\ table'.item \in {Ide!None} \cup seen'[<<"list">>] \/ <<"list">> \in due'
      /\ \A p \in Products : Ide!Home(table', p) \in {Ide!None} \cup seen'[<<"list">>]
         \/ <<"list">> \in due'
  BY <1>2, <1>4 DEF IdeCurrent
<1>7. \A j \in jobs' : j.op = "folder" /\ j.at = "out" =>
         j.repo \in {Ide!None} \cup seen'[<<"list">>] \/ <<"list">> \in due'
  BY <1>4 DEF IdeCurrent
<1> QED
  BY <1>5, <1>6, <1>7 DEF IdeCurrent, IdeInList, IdeAhead

\* The workspace stays, and what selects it.
LEMMA IdeSettledFrame ==
    ASSUME IdeSettled, page'.product = page.product, page'.item = page.item, page'.repo = page.repo,
           seen' = seen
    PROVE  IdeSettled'
  BY DEF IdeSettled, Ide!Preferred

\* All calls but one are timers.
LEMMA IdeWaitedFrame ==
    ASSUME NEW k, rough' = rough,
           ~ rough => /\ \A i \in jobs' : i = k \/ (i.at = "timer" /\ i.op = "send")
                      /\ IdeOneRowEach' /\ IdeListRead' /\ IdeClean'
                      /\ k \in jobs' => IdeFits(k)'
    PROVE  IdeWaited'
<1>1. ASSUME NEW i \in jobs', i.at = "timer", i.op = "send" PROVE IdeFits(i)'
  BY <1>1 DEF IdeFits
<1>2. ~ rough => \A i \in jobs' : IdeFits(i)'
  BY <1>1
<1>3. ~ rough => IdeAlone'
  BY DEF IdeAlone, IdeBusy
<1> QED
  BY <1>2, <1>3 DEF IdeWaited

\* The other calls of a person who waits are timers.
LEMMA IdeOthersWait ==
    ASSUME IdeTyped, IdeWaited, ~ rough, NEW j \in jobs, IdeBusy(j)
    PROVE  \A i \in jobs : i = j \/ (i.at = "timer" /\ i.op = "send")
<1>1. \A i \in IdeJobRec : i.at = "timer" => i.op = "send"
  BY DEF IdeJobRec, IdeCallRec
<1> QED
  BY <1>1 DEF IdeWaited, IdeAlone, IdeBusy, IdeTyped

------------------------------------------------------------------------------
(* What the person does *)

\* The person changes the page alone.
LEMMA IdePageActKeeps ==
    ASSUME IdeIInv, Ide!Acts, NEW pg \in IdePageRec, Ide!Becomes(pg), IdeKnown(pg.repo),
           \A k \in DOMAIN pg.open : pg.open[k].repo \in Ide!Rows(table),
           \A k, l \in DOMAIN pg.open : Ide!Id(pg.open[k]) = Ide!Id(pg.open[l]) => k = l,
           Ide!Preferred(pg, seen) \in {Ide!None} \cup seen[<<"list">>]
           => pg.repo = Ide!Preferred(pg, seen),
           pg.proposal # Ide!NoProposal => pg.proposal = page.proposal /\ pg.product = page.product,
           pg.asked \subseteq page.asked, pg.product = page.product \/ pg.asked = {},
           (\A k \in DOMAIN page.open : IdeOnDisk(table, page.open[k]))
           => \A k \in DOMAIN pg.open : IdeOnDisk(table, pg.open[k])
    PROVE  IdeIInv'
<1>1. /\ page' = pg /\ table' = table /\ seen' = seen /\ due' = due /\ jobs' = jobs /\ rough' = rough
      /\ acts' = acts + 1 /\ acts \in Nat /\ acts' \in Nat
  BY IdeActFacts DEF Ide!Becomes, IdeIInv, IdeTyped
<1>2. IdeTyped'
  BY <1>1 DEF IdeIInv, IdeTyped
<1>3. IdeRowsThere'
  BY <1>1, IdeRowsFrame DEF IdeIInv, IdeRowsThere, IdeKnown
<1>4. IdeOpenOnce'
  BY <1>1 DEF IdeOpenOnce
<1>5. IdeAsked'
  <2>1. \A n \in page'.asked : n < acts'
    BY <1>1 DEF IdeIInv, IdeAsked, IdeTyped, IdePageRec
  <2>2. \A j \in jobs' : j.msg < acts'
    BY <1>1 DEF IdeIInv, IdeAsked, IdeTyped, IdeJobRec, IdeCallRec
  <2> QED
    BY <1>1, <2>1, <2>2 DEF IdeIInv, IdeAsked, Ide!OwnProposal
<1>6. IdeCurrent'
  BY <1>1, IdeCurrentFrame DEF IdeIInv
<1>7. IdeSettled'
  BY <1>1 DEF IdeSettled
<1>8. IdeWaited'
  <2>1. ASSUME ~ rough
        PROVE  /\ \A i \in jobs' : i.at = "timer" /\ i.op = "send"
               /\ IdeOneRowEach' /\ IdeListRead' /\ IdeClean'
    <3>1. /\ \A j \in jobs : ~ IdeBusy(j) /\ j \in IdeJobRec
          /\ seen[<<"list">>] = Ide!Rows(table) /\ IdeOneRowEach
          /\ \A l \in DOMAIN page.open : IdeOnDisk(table, page.open[l])
      BY <2>1, IdeActFacts DEF IdeIInv, IdeWaited, IdeTyped
    <3>2. \A i \in jobs' : i.at = "timer" /\ i.op = "send"
      BY <1>1, <3>1 DEF IdeJobRec, IdeCallRec, IdeBusy
    <3>3. IdeOneRowEach' /\ IdeListRead'
      BY <1>1, <3>1 DEF IdeOneRowEach, IdeListRead
    <3>4. IdeClean'
      BY <1>1, <3>1 DEF IdeClean, IdeOnDisk, Ide!Disk
    <3> QED
      BY <3>2, <3>3, <3>4
  <2>2. ~ rough => /\ \A i \in jobs' : i = Ide!None \/ (i.at = "timer" /\ i.op = "send")
                   /\ IdeOneRowEach' /\ IdeListRead' /\ IdeClean'
                   /\ Ide!None \in jobs' => IdeFits(Ide!None)'
    <3>1. ASSUME ~ rough, Ide!None \in jobs' PROVE IdeFits(Ide!None)'
      BY <2>1, <3>1 DEF IdeFits
    <3> QED
      BY <2>1, <3>1
  <2> QED
    BY <1>1, <2>2, IdeWaitedFrame
<1> QED
  BY <1>2, <1>3, <1>4, <1>5, <1>6, <1>7, <1>8 DEF IdeIInv

\* A call begins under a number that is free.
LEMMA IdeBeginFacts ==
    ASSUME IdeTyped, NEW j \in IdeJobRec, NEW pg, Ide!Begin(j, pg)
    PROVE  /\ page' = pg /\ table' = table /\ seen' = seen /\ due' = due /\ rough' = rough
           /\ \E n \in Ide!Slots : jobs' = jobs \cup {[j EXCEPT !.n = n]}
<1> DEFINE n == CHOOSE n \in Ide!Free : \A o \in Ide!Free : n <= o
<1>1. \E m \in Ide!Free : \A o \in Ide!Free : m <= o
  BY DEF Ide!Begin, Ide!Free, Ide!Slots
<1>2. n \in Ide!Slots
  BY <1>1 DEF Ide!Free
<1> QED
  BY <1>2 DEF Ide!Begin

\* The person starts a call.
LEMMA IdeBeginKeeps ==
    ASSUME IdeIInv, Ide!Acts, NEW j \in IdeJobRec,
           NEW pg \in IdePageRec, Ide!Begin(j, pg), j.at = "out", j.msg = acts,
           IdeKnown(j.repo), j.op = "folder" => IdeInList(j.repo),
           j.op = "send" => j.product = pg.product,
           pg.asked \subseteq page.asked \cup {acts}, j.op = "send" \/ pg.asked \subseteq page.asked,
           pg.product = page.product, pg.item = page.item, pg.repo = page.repo, pg.open = page.open,
           pg.proposal \in {page.proposal, Ide!NoProposal},
           seen[<<"list">>] = Ide!Rows(table) => IdeFits(j)
    PROVE  IdeIInv'
<1>1. /\ page' = pg /\ table' = table /\ seen' = seen /\ due' = due /\ rough' = rough
      /\ acts' = acts + 1 /\ acts \in Nat /\ acts' \in Nat
  BY IdeActFacts, IdeBeginFacts DEF IdeIInv, IdeTyped
<1>2. PICK n \in Ide!Slots : jobs' = jobs \cup {[j EXCEPT !.n = n]}
  BY IdeBeginFacts DEF IdeIInv
<1> DEFINE k == [j EXCEPT !.n = n]
<1>3. /\ k \in IdeJobRec /\ k.op = j.op /\ k.at = j.at /\ k.repo = j.repo /\ k.msg = j.msg /\ k.n = n
      /\ k.product = j.product /\ k.folder = j.folder /\ k.text = j.text /\ k.file = j.file
      /\ k.known = j.known /\ k.todo = j.todo
  BY DEF IdeJobRec, IdeCallRec
<1> HIDE DEF k
<1>4. jobs' = jobs \cup {k} /\ k.n # 0
  BY <1>2, <1>3 DEF k, Ide!Slots
<1>5. IdeTyped'
  BY <1>1, <1>3, <1>4 DEF IdeIInv, IdeTyped
<1>6. IdeRowsThere'
  <2>1. \A i \in jobs' : i.repo \in {Ide!None} \cup Ide!Rows(table') /\ i.n # 0
    BY <1>1, <1>3, <1>4 DEF IdeIInv, IdeRowsThere, IdeKnown
  <2> QED
    BY <1>1, <2>1, IdeRowsFrame DEF IdeIInv, IdeRowsThere, IdeKnown
<1>7. IdeOpenOnce'
  BY <1>1 DEF IdeIInv, IdeOpenOnce
<1>8. IdeAsked'
  <2>1. \A i \in page'.asked : i < acts' /\ (i \in page.asked \/ (i = acts /\ j.op = "send"))
    BY <1>1 DEF IdeIInv, IdeAsked, IdeTyped, IdePageRec
  <2>2. \A i \in jobs : i.msg < acts' /\ i.msg # acts
    BY <1>1 DEF IdeIInv, IdeAsked, IdeTyped, IdeJobRec, IdeCallRec
  <2>3. \A i \in jobs' : i.msg < acts' /\ (i.op = "send" /\ i.msg \in page'.asked
        => i.product = page'.product)
    BY <1>1, <1>3, <1>4, <2>1, <2>2 DEF IdeIInv, IdeAsked
  <2>4. Ide!OwnProposal'
    BY <1>1 DEF IdeIInv, IdeAsked, Ide!OwnProposal
  <2> QED
    BY <2>1, <2>3, <2>4 DEF IdeAsked
<1>9. IdeCurrent'
  <2>1. \A i \in jobs' : i.op = "folder" /\ i.at = "out" => IdeInList(i.repo)
    BY <1>3, <1>4 DEF IdeIInv, IdeCurrent
  <2>2. \A i \in jobs : \A kind : IdeAhead(i, kind) => \E l \in jobs' : IdeAhead(l, kind)
    BY <1>4
  <2>3. \A q \in Ide!Keys : Ide!Content(table', q) = Ide!Content(table, q)
    BY <1>1
  <2>4. \A q \in Ide!Keys \ {<<"list">>} :
           q \in due' \/ seen'[q] = Ide!Content(table', q) \/ \E l \in jobs' : IdeAhead(l, q[1])
    BY <1>1, <2>2, <2>3 DEF IdeIInv, IdeCurrent
  <2>5. IdeInList(table.item)' /\ \A p \in Products : IdeInList(Ide!Home(table, p))'
    BY <1>1 DEF IdeIInv, IdeCurrent, IdeInList
  <2>6. \A i \in jobs' : i.op = "folder" /\ i.at = "out" => IdeInList(i.repo)'
    BY <1>1, <2>1 DEF IdeInList
  <2> QED
    BY <2>4, <2>5, <2>6 DEF IdeCurrent, IdeAhead
<1>10. IdeSettled'
  BY <1>1, IdeSettledFrame DEF IdeIInv
<1>11. IdeWaited'
  <2>1. ASSUME ~ rough
        PROVE  /\ \A i \in jobs' : i = k \/ (i.at = "timer" /\ i.op = "send")
               /\ IdeOneRowEach' /\ IdeListRead' /\ IdeClean' /\ (k \in jobs' => IdeFits(k)')
    <3>1. /\ \A i \in jobs : ~ IdeBusy(i) /\ i \in IdeJobRec
          /\ seen[<<"list">>] = Ide!Rows(table) /\ IdeOneRowEach
          /\ \A l \in DOMAIN page.open : IdeOnDisk(table, page.open[l])
      BY <2>1, IdeActFacts DEF IdeIInv, IdeWaited, IdeTyped
    <3>2. \A i \in jobs' : i = k \/ (i.at = "timer" /\ i.op = "send")
      BY <1>4, <3>1 DEF IdeJobRec, IdeCallRec, IdeBusy
    <3>3. IdeOneRowEach' /\ IdeListRead'
      BY <1>1, <3>1 DEF IdeOneRowEach, IdeListRead
    <3>4. IdeClean'
      BY <1>1, <3>1 DEF IdeClean, IdeOnDisk, Ide!Disk
    <3>5. IdeFits(k)'
      <4>1. IdeFits(j)
        BY <3>1
      <4> QED
        BY <1>1, <1>3, <4>1 DEF IdeFits
    <3> QED
      BY <3>2, <3>3, <3>4, <3>5
  <2> QED
    BY <1>1, <2>1, IdeWaitedFrame
<1> QED
  BY <1>5, <1>6, <1>7, <1>8, <1>9, <1>10, <1>11 DEF IdeIInv

\* What the page is before the person acts.
LEMMA IdePageFacts ==
    ASSUME IdeIInv
    PROVE  /\ page \in IdePageRec /\ IdeKnown(page.repo) /\ page.repo \in Nat /\ acts \in Nat
           /\ \A k \in DOMAIN page.open : page.open[k].repo \in Ide!Rows(table)
              /\ page.open[k] \in IdeOpenRec
           /\ \A k, l \in DOMAIN page.open : Ide!Id(page.open[k]) = Ide!Id(page.open[l]) => k = l
           /\ Ide!Preferred(page, seen) \in {Ide!None} \cup seen[<<"list">>]
              => page.repo = Ide!Preferred(page, seen)
           /\ page.proposal # Ide!NoProposal => page.proposal.of = page.product
           /\ Ide!Rows(table) \subseteq Nat /\ \A r \in Ide!Rows(table) : r # Ide!None
<1>1. page \in IdePageRec /\ acts \in Nat
  BY DEF IdeIInv, IdeTyped
<1>2. \A k \in DOMAIN page.open : page.open[k] \in IdeOpenRec
  BY <1>1 DEF IdePageRec
<1> QED
  BY <1>1, <1>2, IdePreferredKnown DEF IdeIInv, IdeRowsThere, IdeOpenOnce, IdeSettled,
     IdeAsked, Ide!OwnProposal, IdePageRec

\* The page on the workspace of a product, without its copilot.
LEMMA IdeResetFacts ==
    ASSUME IdeIInv, NEW pg \in IdePageRec, pg.open = page.open, pg.asked = {}, pg.proposal = Ide!NoProposal,
           pg.repo = Ide!None
    PROVE  LET X == Ide!Rendered(pg, seen)
           IN  /\ X \in IdePageRec /\ IdeKnown(X.repo) /\ X.open = page.open /\ X.asked = {}
               /\ X.proposal = Ide!NoProposal
               /\ Ide!Preferred(X, seen) \in {Ide!None} \cup seen[<<"list">>]
                  => X.repo = Ide!Preferred(X, seen)
<1> DEFINE X == Ide!Rendered(pg, seen)
<1>1. IdeKnown(Ide!Preferred(pg, seen)) /\ Ide!Preferred(pg, seen) \in Nat
  BY IdePreferredKnown DEF IdeIInv
<1>2. /\ X = [pg EXCEPT !.repo = X.repo] /\ X \in IdePageRec
      /\ X.repo \in {Ide!None, Ide!Preferred(pg, seen)}
      /\ Ide!Preferred(pg, seen) \in {Ide!None} \cup seen[<<"list">>]
         => X.repo = Ide!Preferred(pg, seen)
      /\ Ide!Preferred(X, seen) = Ide!Preferred(pg, seen)
  BY <1>1, IdeRenderedFacts
<1> HIDE DEF X
<1>3. X.open = pg.open /\ X.asked = pg.asked /\ X.proposal = pg.proposal
  BY <1>2 DEF IdePageRec
<1>4. IdeKnown(X.repo)
  BY <1>1, <1>2 DEF IdeKnown
<1> QED
  BY <1>2, <1>3, <1>4 DEF X

\* Another product; its workspace is selected and the conversation cleared.
LEMMA IdeChooseProductKeeps ==
    ASSUME IdeIInv, Ide!Acts, NEW p \in Products, Ide!ChooseProduct(p)
    PROVE  IdeIInv'
<1> DEFINE pg == [Ide!Reset(page) EXCEPT !.product = p, !.item = FALSE, !.repo = Ide!None]
           X == Ide!Rendered(pg, seen)
<1>1. page \in IdePageRec
  BY DEF IdeIInv, IdeTyped
<1>2. pg \in IdePageRec
  BY <1>1 DEF IdePageRec, Ide!Reset, IdeProposals, Ide!None
<1>3. pg.open = page.open /\ pg.asked = {} /\ pg.proposal = Ide!NoProposal /\ pg.repo = Ide!None
  BY <1>1 DEF IdePageRec, Ide!Reset
<1>4. Ide!Becomes(X)
  BY DEF Ide!ChooseProduct
<1> HIDE DEF pg
<1>5. /\ X \in IdePageRec /\ IdeKnown(X.repo) /\ X.open = page.open /\ X.asked = {}
      /\ X.proposal = Ide!NoProposal
      /\ Ide!Preferred(X, seen) \in {Ide!None} \cup seen[<<"list">>] => X.repo = Ide!Preferred(X, seen)
  BY <1>2, <1>3, IdeResetFacts
<1> HIDE DEF X
<1> QED
  BY <1>4, <1>5, IdePageFacts, IdePageActKeeps

\* The conversation is cleared.
LEMMA IdeClearKeeps == ASSUME IdeIInv, Ide!Acts, Ide!Clear PROVE IdeIInv'
<1> DEFINE X == Ide!Reset(page)
<1>1. page \in IdePageRec
  BY DEF IdeIInv, IdeTyped
<1>2. /\ X \in IdePageRec /\ X.repo = page.repo /\ X.open = page.open /\ X.asked = {}
      /\ X.proposal = Ide!NoProposal /\ X.product = page.product /\ X.item = page.item
  BY <1>1 DEF IdePageRec, Ide!Reset, IdeProposals
<1>3. Ide!Becomes(X)
  BY DEF Ide!Clear
<1> HIDE DEF X
<1>4. Ide!Preferred(X, seen) = Ide!Preferred(page, seen)
  BY <1>2 DEF Ide!Preferred
<1> QED
  BY <1>2, <1>3, <1>4, IdePageFacts, IdePageActKeeps

\* Only the files and the tab change.
LEMMA IdeFilesActKeeps ==
    ASSUME IdeIInv, Ide!Acts, NEW pg \in IdePageRec, Ide!Becomes(pg), IdeSameButFiles(pg, page),
           \A k \in DOMAIN pg.open : pg.open[k].repo \in Ide!Rows(table),
           \A k, l \in DOMAIN pg.open : Ide!Id(pg.open[k]) = Ide!Id(pg.open[l]) => k = l,
           (\A k \in DOMAIN page.open : IdeOnDisk(table, page.open[k]))
           => \A k \in DOMAIN pg.open : IdeOnDisk(table, pg.open[k])
    PROVE  IdeIInv'
<1>1. /\ pg.repo = page.repo /\ pg.asked = page.asked
      /\ pg.proposal = page.proposal /\ pg.product = page.product /\ pg.item = page.item
  BY DEF IdeSameButFiles
<1>2. Ide!Preferred(pg, seen) = Ide!Preferred(page, seen)
  BY <1>1 DEF Ide!Preferred
<1> QED
  BY <1>1, <1>2, IdePageFacts, IdePageActKeeps

\* Only the tab changes.
LEMMA IdeTabActKeeps == ASSUME IdeIInv, Ide!Acts, NEW r \in Ide!Rows(table), NEW f \in Files,
                            Ide!Becomes([page EXCEPT !.active = <<r, f>>]) PROVE IdeIInv'
<1> DEFINE X == [page EXCEPT !.active = <<r, f>>]
<1>1. X \in IdePageRec /\ X.open = page.open /\ X.active = <<r, f>>
  BY IdePageFacts DEF IdePageRec
<1>2. IdeSameButFiles(X, page)
  BY IdePageFacts DEF IdePageRec, IdeSameButFiles
<1> HIDE DEF X
<1>3. Ide!Becomes(X)
  BY DEF X
<1> QED
  BY <1>1, <1>2, <1>3, IdePageFacts, IdeFilesActKeeps

\* Another of the files that are open.
LEMMA IdeChooseTabKeeps ==
    ASSUME IdeIInv, Ide!Acts, NEW r, NEW f, Ide!ChooseTab(<<r, f>>)
    PROVE  IdeIInv'
<1>1. r \in Ide!Rows(table) /\ f \in Files
  BY IdePageFacts DEF Ide!ChooseTab, Ide!IsOpen, Ide!Id, IdeOpenRec
<1> QED
  BY <1>1, IdeTabActKeeps DEF Ide!ChooseTab

\* A file is closed.
LEMMA IdeCloseTabKeeps == ASSUME IdeIInv, Ide!Acts, NEW id, Ide!CloseTab(id) PROVE IdeIInv'
<1> DEFINE X == Ide!closeFile(page, id)
<1>1. page \in IdePageRec /\ Ide!IsOpen(page, id) /\ Ide!Becomes(X)
  BY IdePageFacts DEF Ide!CloseTab
<1>2. IdeSameButFiles(X, page) /\ X \in IdePageRec
  BY <1>1, IdeCloseFacts
<1>3. PICK n \in DOMAIN page.open :
         /\ \A k \in DOMAIN X.open : (IF k < n THEN k ELSE k + 1) \in DOMAIN page.open
         /\ \A k \in DOMAIN X.open : X.open[k] = page.open[IF k < n THEN k ELSE k + 1]
         /\ DOMAIN X.open \subseteq Nat
  BY <1>1, IdeCloseFacts
<1> HIDE DEF X
<1>4. \A k, l \in DOMAIN X.open : Ide!Id(X.open[k]) = Ide!Id(X.open[l]) => k = l
  <2>1. DOMAIN page.open \subseteq Nat
    BY <1>1 DEF IdePageRec
  <2> QED
    BY <1>3, <2>1, IdePageFacts
<1>5. \A k \in DOMAIN X.open : \E l \in DOMAIN page.open : X.open[k] = page.open[l]
  BY <1>3
<1> QED
  BY <1>1, <1>2, <1>4, <1>5, IdePageFacts, IdeFilesActKeeps

\* The person types in a file.
LEMMA IdeTypeKeeps == ASSUME IdeIInv, Ide!Acts, Ide!Type PROVE IdeIInv'
<1> DEFINE X == Ide!updateFileContent(page, page.active, acts + 1)
<1>1. page \in IdePageRec /\ Ide!Becomes(X)
  BY IdePageFacts DEF Ide!Type
<1>2. PICK t \in Int : X = Ide!updateFileContent(page, page.active, t)
  BY IdePageFacts
<1> HIDE DEF X
<1>3. /\ IdeSameButFiles(X, page) /\ X \in IdePageRec /\ DOMAIN X.open = DOMAIN page.open
      /\ \A k \in DOMAIN page.open :
            /\ Ide!Id(X.open[k]) = Ide!Id(page.open[k]) /\ X.open[k].repo = page.open[k].repo
            /\ Ide!Id(page.open[k]) = page.active => X.open[k].text = t /\ X.open[k].dirty
            /\ Ide!Id(page.open[k]) # page.active => X.open[k] = page.open[k]
  BY <1>1, <1>2, IdeTypedFacts
<1>5. \A k \in DOMAIN X.open : X.open[k].dirty \/ X.open[k] = page.open[k]
  BY <1>2, <1>3
<1>6. (\A k \in DOMAIN page.open : IdeOnDisk(table, page.open[k]))
      => \A k \in DOMAIN X.open : IdeOnDisk(table, X.open[k])
  BY <1>3, <1>5 DEF IdeOnDisk
<1> QED
  BY <1>1, <1>3, <1>6, IdePageFacts, IdeFilesActKeeps

\* What a call is when it begins.
LEMMA IdeJobFacts ==
    ASSUME IdeIInv, NEW op \in {"read", "save", "apply", "folder", "create", "send"}
    PROVE  LET j == Ide!Job(op)
           IN  /\ j \in IdeCallRec /\ j.op = op /\ j.at = "out" /\ j.repo = page.repo /\ j.todo = <<>>
               /\ j.msg = acts /\ j.product = page.product
<1>1. /\ {} \in SUBSET Ide!Keys /\ {} \in SUBSET (Nat \X Files) /\ <<>> \in IdeLists
      /\ 0 \in {0} \cup Ide!Slots
      /\ page.product \in Products /\ acts \in Nat /\ page.repo \in Nat
      /\ "chat" \in Ide!Modes /\ Ide!Original \in Int
  BY IdePageFacts DEF IdeLists, Ide!Modes, Ide!Original, IdePageRec
<1>2. Ide!Job(op) \in IdeCallRec
  BY <1>1 DEF Ide!Job, IdeCallRec
<1> QED
  BY <1>2 DEF Ide!Job

\* A file of the tree: its tab, or a call that reads it.
LEMMA IdeOpenFileKeeps == ASSUME IdeIInv, Ide!Acts, NEW f \in Files, Ide!OpenFile(f) PROVE IdeIInv'
<1>1. CASE Ide!IsOpen(page, <<page.repo, f>>)
  <2>1. page.repo \in Ide!Rows(table)
    BY IdePageFacts DEF Ide!OpenFile, IdeKnown
  <2> QED
    BY <1>1, <2>1, IdeTabActKeeps DEF Ide!OpenFile
<1>2. CASE ~ Ide!IsOpen(page, <<page.repo, f>>)
  <2> DEFINE j == [Ide!Job("read") EXCEPT !.file = f]
  <2>1. page.repo # Ide!None /\ Ide!Begin(j, page)
    BY <1>2 DEF Ide!OpenFile
  <2>2. PICK i \in IdeCallRec :
           /\ i = Ide!Job("read") /\ i.op = "read" /\ i.at = "out" /\ i.repo = page.repo
           /\ i.todo = <<>>
           /\ i.msg = acts /\ i.product = page.product
    BY IdeJobFacts
  <2>3. /\ [i EXCEPT !.file = f] \in IdeCallRec /\ j = [i EXCEPT !.file = f]
    BY <2>2, <2>1, IdePageFacts DEF IdeCallRec, IdePageRec
  <2>4. j.at = "out" /\ j.op = "read" /\ j.msg = acts /\ j.repo = page.repo /\ j.todo = <<>>
        /\ j \in IdeCallRec /\ j.file = f
    BY <2>2, <2>3 DEF IdeCallRec
  <2>5. j \in IdeJobRec
    BY <2>4, <2>1, IdePageFacts DEF IdeJobRec
  <2> HIDE DEF j
  <2>6. IdeFits(j)
    BY <2>4 DEF IdeFits
  <2> QED
    BY <2>1, <2>5, <2>4, <2>6, IdePageFacts, IdeBeginKeeps
<1> QED
  BY <1>1, <1>2

\* A file is saved as it is shown.
LEMMA IdeSaveKeeps == ASSUME IdeIInv, Ide!Acts, Ide!Save PROVE IdeIInv'
<1> DEFINE t == Ide!OpenOf(page, page.active).text
           j == [Ide!Job("save") EXCEPT !.file = page.active[2], !.text = t]
<1>1. Ide!IsOpen(page, page.active) /\ page.active[1] = page.repo /\ Ide!Begin(j, page)
  BY DEF Ide!Save, Ide!Active
<1>2. /\ Ide!Tab(page, page.active) \in DOMAIN page.open
      /\ Ide!Id(page.open[Ide!Tab(page, page.active)]) = page.active
      /\ Ide!OpenOf(page, page.active) = page.open[Ide!Tab(page, page.active)]
  BY <1>1, IdePageFacts, IdeTabFacts
<1>3. /\ page.active[2] \in Files /\ page.repo \in Ide!Rows(table) /\ t \in Int
      /\ page.active = <<page.repo, page.active[2]>>
  BY <1>1, <1>2, IdePageFacts DEF Ide!Id, IdeOpenRec
<1>4. \A k \in DOMAIN page.open : Ide!Id(page.open[k]) = <<page.repo, page.active[2]>>
      => page.open[k].text = t
  BY <1>2, <1>3, IdePageFacts
<1> HIDE DEF t
<1>5. PICK i \in IdeCallRec :
         /\ i = Ide!Job("save") /\ i.op = "save" /\ i.at = "out" /\ i.repo = page.repo /\ i.todo = <<>>
         /\ i.msg = acts /\ i.product = page.product
  BY IdeJobFacts
<1>6. /\ [i EXCEPT !.file = page.active[2], !.text = t] \in IdeCallRec
      /\ j = [i EXCEPT !.file = page.active[2], !.text = t]
  BY <1>5, <1>3, <1>1, IdePageFacts DEF IdeCallRec, IdePageRec
<1>7. /\ j.at = "out" /\ j.op = "save" /\ j.msg = acts /\ j.repo = page.repo /\ j.text = t
      /\ j.file = page.active[2] /\ j.todo = <<>> /\ j \in IdeCallRec
  BY <1>5, <1>6 DEF IdeCallRec
<1>8. j \in IdeJobRec
  BY <1>7, <1>3, <1>1, IdePageFacts DEF IdeJobRec
<1> HIDE DEF j
<1>9. IdeFits(j)
  BY <1>4, <1>7 DEF IdeFits
<1> QED
  BY <1>1, <1>8, <1>7, <1>9, IdePageFacts, IdeBeginKeeps

\* A folder is attached to the product, registered first if it is not listed.
LEMMA IdeAttachFolderKeeps ==
    ASSUME IdeIInv, Ide!Acts, NEW d \in Ide!Folders, Ide!AttachFolder(d)
    PROVE  IdeIInv'
<1> DEFINE rows == {r \in seen[<<"list">>] : table.folder[r] = d}
           row == IF rows = {} THEN Ide!None ELSE CHOOSE r \in rows : \A o \in rows : r <= o
           j == [Ide!Job("folder") EXCEPT !.folder = d, !.repo = row]
<1>1. Ide!Begin(j, page)
  BY DEF Ide!AttachFolder
<1>2. seen[<<"list">>] \subseteq Ide!Rows(table)
  BY DEF IdeIInv, IdeRowsThere
<1>3. /\ row = Ide!None \/ row \in seen[<<"list">>]
      /\ row = Ide!None => rows = {}
  <2>1. CASE rows = {}
    BY <2>1
  <2>2. CASE rows # {}
    <3>1. rows \subseteq Ide!Rows(table) /\ rows \subseteq Nat
      BY <1>2, IdePageFacts
    <3>2. \E r \in rows : \A o \in rows : r <= o
      BY <2>2, <3>1, IdeLeastFacts
    <3>3. row \in rows
      BY <2>2, <3>2
    <3> QED
      BY <3>1, <3>3, IdePageFacts
  <2> QED
    BY <2>1, <2>2
<1>4. row \in {Ide!None} \cup seen[<<"list">>] /\ row \in Nat
  BY <1>2, <1>3, IdePageFacts DEF Ide!None
<1>5. seen[<<"list">>] = Ide!Rows(table) /\ row = Ide!None
      => \A r \in Ide!Rows(table) : table.folder[r] # d
  BY <1>3
<1> HIDE DEF row
<1>6. PICK i \in IdeCallRec :
         /\ i = Ide!Job("folder") /\ i.op = "folder" /\ i.at = "out" /\ i.repo = page.repo
         /\ i.todo = <<>>
         /\ i.msg = acts /\ i.product = page.product
  BY IdeJobFacts
<1>7. /\ [i EXCEPT !.folder = d, !.repo = row] \in IdeCallRec
      /\ j = [i EXCEPT !.folder = d, !.repo = row]
  BY <1>6, <1>4, IdePageFacts DEF IdeCallRec, IdePageRec
<1>8. j.at = "out" /\ j.op = "folder" /\ j.msg = acts /\ j.repo = row /\ j.folder = d /\ j.todo = <<>>
      /\ j \in IdeCallRec
  BY <1>6, <1>7 DEF IdeCallRec
<1>9. j \in IdeJobRec
  BY <1>8, <1>4, IdePageFacts DEF IdeJobRec
<1> HIDE DEF j
<1>10. seen[<<"list">>] = Ide!Rows(table) => IdeFits(j)
  BY <1>5, <1>8 DEF IdeFits
<1>11. IdeKnown(j.repo) /\ IdeInList(j.repo)
  BY <1>2, <1>4, <1>8 DEF IdeKnown, IdeInList
<1> QED
  BY <1>1, <1>9, <1>8, <1>10, <1>11, IdePageFacts, IdeBeginKeeps

\* A workspace is created for a product that has none.
LEMMA IdeCreateWorkspaceKeeps == ASSUME IdeIInv, Ide!Acts, Ide!CreateWorkspace PROVE IdeIInv'
<1> DEFINE j == [Ide!Job("create") EXCEPT !.item = page.item]
<1>1. Ide!Begin(j, page)
  BY DEF Ide!CreateWorkspace
<1>2. PICK i \in IdeCallRec :
         /\ i = Ide!Job("create") /\ i.op = "create" /\ i.at = "out" /\ i.repo = page.repo
         /\ i.todo = <<>>
         /\ i.msg = acts /\ i.product = page.product
  BY IdeJobFacts
<1>3. /\ [i EXCEPT !.item = page.item] \in IdeCallRec /\ j = [i EXCEPT !.item = page.item]
  BY <1>2, <1>1, IdePageFacts DEF IdeCallRec, IdePageRec
<1>4. j.at = "out" /\ j.op = "create" /\ j.msg = acts /\ j.repo = page.repo /\ j.todo = <<>>
      /\ j \in IdeCallRec
  BY <1>2, <1>3 DEF IdeCallRec
<1>5. j \in IdeJobRec
  BY <1>4, <1>1, IdePageFacts DEF IdeJobRec
<1> HIDE DEF j
<1>6. IdeFits(j)
  BY <1>4 DEF IdeFits
<1> QED
  BY <1>1, <1>5, <1>4, <1>6, IdePageFacts, IdeBeginKeeps

\* The copilot is asked.
LEMMA IdeSendKeeps == ASSUME IdeIInv, Ide!Acts, NEW m \in Ide!Modes, Ide!Send(m) PROVE IdeIInv'
<1> DEFINE j == [Ide!Job("send") EXCEPT !.mode = m]
           a == page.asked \cup {acts}
           o == IF m = "patch" THEN Ide!NoProposal ELSE page.proposal
           X == [page EXCEPT !.sending = TRUE, !.asked = a, !.proposal = o]
<1>1. Ide!Begin(j, X)
  BY IdePageFacts DEF Ide!Send, IdePageRec
<1>2. PICK i \in IdeCallRec :
         /\ i = Ide!Job("send") /\ i.op = "send" /\ i.at = "out" /\ i.repo = page.repo /\ i.todo = <<>>
         /\ i.msg = acts /\ i.product = page.product
  BY IdeJobFacts
<1>3. /\ [i EXCEPT !.mode = m] \in IdeCallRec /\ j = [i EXCEPT !.mode = m]
  BY <1>2, <1>1, IdePageFacts DEF IdeCallRec, IdePageRec
<1>4. j.at = "out" /\ j.op = "send" /\ j.msg = acts /\ j.repo = page.repo /\ j.product = page.product
      /\ j.todo = <<>> /\ j \in IdeCallRec
  BY <1>2, <1>3 DEF IdeCallRec
<1>5. j \in IdeJobRec
  BY <1>4, <1>1, IdePageFacts DEF IdeJobRec
<1> HIDE DEF j
<1>6. IdeFits(j)
  BY <1>4 DEF IdeFits
<1>7. o \in IdeProposals /\ o \in {page.proposal, Ide!NoProposal} /\ a \in SUBSET Nat
  BY IdePageFacts DEF IdePageRec, IdeProposals
<1> HIDE DEF a, o
<1>8. X \in IdePageRec
  BY <1>7, IdePageFacts DEF IdePageRec
<1>9. /\ X.asked = a /\ X.proposal = o /\ X.open = page.open /\ X.repo = page.repo
      /\ X.item = page.item /\ X.product = page.product
  BY IdePageFacts DEF IdePageRec
<1> HIDE DEF X
<1>10. X.asked \subseteq page.asked \cup {acts}
  BY <1>9 DEF a
<1> QED
  BY <1>1, <1>5, <1>4, <1>6, <1>7, <1>8, <1>9, <1>10, IdePageFacts, IdeBeginKeeps

\* The patches of a proposal are applied, to the workspace that is selected.
LEMMA IdeApplyKeeps == ASSUME IdeIInv, Ide!Acts, Ide!Apply PROVE IdeIInv'
<1> DEFINE p == page.proposal.patches
           d == {Ide!Id(page.open[k]) : k \in DOMAIN page.open}
           j == [Ide!Job("apply") EXCEPT !.patches = p, !.known = d]
<1>1. Ide!Begin(j, page) /\ page.repo # Ide!None
  BY DEF Ide!Apply
<1>2. p \in Ide!Patches
  BY IdePageFacts DEF Ide!Apply, IdePageRec, IdeProposals
<1>3. d \in SUBSET (Nat \X Files)
  BY IdePageFacts DEF Ide!Id, IdeOpenRec
<1> HIDE DEF p
<1>4. d = {Ide!Id(page.open[k]) : k \in DOMAIN page.open}
  OBVIOUS
<1> HIDE DEF d
<1>5. PICK i \in IdeCallRec :
         /\ i = Ide!Job("apply") /\ i.op = "apply" /\ i.at = "out" /\ i.repo = page.repo
         /\ i.todo = <<>>
         /\ i.msg = acts /\ i.product = page.product
  BY IdeJobFacts
<1>6. /\ [i EXCEPT !.patches = p, !.known = d] \in IdeCallRec
      /\ j = [i EXCEPT !.patches = p, !.known = d]
  BY <1>5, <1>1, <1>2, <1>3, IdePageFacts DEF IdeCallRec, IdePageRec
<1>7. j.at = "out" /\ j.op = "apply" /\ j.msg = acts /\ j.repo = page.repo /\ j.known = d
      /\ j.todo = <<>> /\ j \in IdeCallRec /\ j.patches = p
  BY <1>5, <1>6 DEF IdeCallRec
<1>8. j \in IdeJobRec
  BY <1>7, <1>1, <1>2, <1>3, IdePageFacts DEF IdeJobRec
<1> HIDE DEF j
<1>9. IdeFits(j)
  BY <1>4, <1>7 DEF IdeFits
<1> QED
  BY <1>1, <1>8, <1>7, <1>9, IdePageFacts, IdeBeginKeeps

\* What a call is when the page that made it is gone.
LEMMA IdeLiveFacts ==
    ASSUME NEW j \in IdeJobRec
    PROVE  LET k == [j EXCEPT !.live = FALSE]
           IN  /\ k \in IdeJobRec /\ k.op = j.op /\ k.at = j.at /\ k.repo = j.repo
               /\ k.todo = j.todo /\ k.msg = j.msg /\ k.n = j.n
<1> DEFINE k == [j EXCEPT !.live = FALSE]
<1>1. j \in IdeCallRec
  BY DEF IdeJobRec
<1>2. k \in IdeCallRec
  BY <1>1 DEF IdeCallRec
<1>3. /\ k.op = j.op /\ k.at = j.at /\ k.repo = j.repo /\ k.todo = j.todo /\ k.msg = j.msg /\ k.n = j.n
      /\ k.file = j.file /\ k.patches = j.patches /\ k.folder = j.folder
  BY <1>1 DEF IdeCallRec
<1> HIDE DEF k
<1>4. k \in IdeJobRec
  BY <1>2, <1>3 DEF IdeJobRec
<1> QED
  BY <1>3, <1>4 DEF k

\* The page is left and entered again; the calls under way go on, but for those
\* of the copilot.
LEMMA IdeReenterKeeps == ASSUME IdeIInv, Ide!Acts, NEW p \in Products, Ide!Reenter(p) PROVE IdeIInv'
<1> DEFINE pg == [Ide!Reset(page) EXCEPT !.product = p, !.item = FALSE, !.repo = Ide!None, !.sending = FALSE]
           X == Ide!Rendered(pg, seen)
<1>1. page' = X /\ page \in IdePageRec
  BY IdePageFacts DEF Ide!Reenter
<1>2. pg \in IdePageRec /\ pg.open = page.open /\ pg.asked = {} /\ pg.proposal = Ide!NoProposal
      /\ pg.repo = Ide!None
  <2>1. pg \in IdePageRec
    BY <1>1 DEF IdePageRec, Ide!Reset, IdeProposals, Ide!None
  <2>2. pg.open = page.open /\ pg.asked = {} /\ pg.proposal = Ide!NoProposal /\ pg.repo = Ide!None
    BY <1>1 DEF IdePageRec, Ide!Reset
  <2> QED
    BY <2>1, <2>2
<1> HIDE DEF pg
<1>3. /\ X \in IdePageRec /\ IdeKnown(X.repo) /\ X.open = page.open /\ X.asked = {}
      /\ X.proposal = Ide!NoProposal
      /\ Ide!Preferred(X, seen) \in {Ide!None} \cup seen[<<"list">>] => X.repo = Ide!Preferred(X, seen)
  BY <1>2, IdeResetFacts
<1> HIDE DEF X
<1>4. /\ page' = X /\ table' = table /\ seen' = seen /\ due' = due /\ rough' = rough
      /\ acts' = acts + 1 /\ acts \in Nat /\ acts' \in Nat
      /\ jobs' = {[j EXCEPT !.live = FALSE] : j \in {k \in jobs : k.op # "send"}}
  BY <1>1, IdeActFacts, IdePageFacts DEF Ide!Reenter
<1>5. \A j \in IdeJobRec : [j EXCEPT !.live = FALSE].todo = j.todo
  BY IdeLiveFacts
<1>6. \A k \in jobs' : /\ k \in IdeJobRec /\ k.op # "send"
                       /\ \E j \in jobs : /\ k.op = j.op /\ k.at = j.at /\ k.repo = j.repo
                                          /\ k.todo = j.todo /\ k.msg = j.msg /\ k.n = j.n
  <2> SUFFICES ASSUME NEW k \in jobs'
               PROVE  /\ k \in IdeJobRec /\ k.op # "send"
                      /\ \E j \in jobs : /\ k.op = j.op /\ k.at = j.at /\ k.repo = j.repo
                                         /\ k.todo = j.todo /\ k.msg = j.msg /\ k.n = j.n
    OBVIOUS
  <2>1. PICK j \in jobs : j.op # "send" /\ k = [j EXCEPT !.live = FALSE]
    BY <1>4
  <2>2. j \in IdeJobRec
    BY DEF IdeIInv, IdeTyped
  <2> QED
    BY <2>1, <2>2, IdeLiveFacts
<1>7. \A j \in jobs : j.todo # <<>> => \E k \in jobs' : k.todo = j.todo
  <2>1. \A j \in IdeJobRec : j.todo # <<>> => j.op # "send"
    BY DEF IdeJobRec, IdeCallRec
  <2> QED
    BY <1>4, <1>5, <2>1 DEF IdeIInv, IdeTyped
<1>8. IdeTyped'
  BY <1>3, <1>4, <1>6 DEF IdeIInv, IdeTyped
<1>9. IdeRowsThere'
  <2>1. \A j \in jobs' : j.repo \in {Ide!None} \cup Ide!Rows(table') /\ j.n # 0
    BY <1>4, <1>6 DEF IdeIInv, IdeRowsThere, IdeKnown
  <2> QED
    BY <1>3, <1>4, <2>1, IdeRowsFrame DEF IdeIInv, IdeRowsThere, IdeKnown
<1>10. IdeOpenOnce'
  BY <1>3, <1>4 DEF IdeIInv, IdeOpenOnce
<1>11. IdeAsked'
  <2>1. \A j \in jobs' : j.msg < acts'
    BY <1>4, <1>6 DEF IdeIInv, IdeAsked, IdeTyped, IdeJobRec, IdeCallRec
  <2> QED
    BY <1>3, <1>4, <2>1 DEF IdeAsked, Ide!OwnProposal
<1>12. IdeCurrent'
  <2>1. \A k \in jobs' : k.op = "folder" /\ k.at = "out" =>
           \E j \in jobs : j.op = "folder" /\ j.at = "out" /\ j.repo = k.repo
    BY <1>6
  <2> QED
    BY <1>4, <1>7, <2>1, IdeCurrentFrame DEF IdeIInv
<1>13. IdeSettled'
  BY <1>3, <1>4 DEF IdeSettled
<1>14. IdeWaited'
  <2>1. ASSUME ~ rough
        PROVE  jobs' = {} /\ IdeOneRowEach' /\ IdeListRead' /\ IdeClean'
    <3>1. /\ \A j \in jobs : ~ IdeBusy(j) /\ j \in IdeJobRec
          /\ seen[<<"list">>] = Ide!Rows(table) /\ IdeOneRowEach
          /\ \A l \in DOMAIN page.open : IdeOnDisk(table, page.open[l])
      BY <2>1, IdeActFacts DEF IdeIInv, IdeWaited, IdeTyped
    <3>2. \A j \in jobs : j.op = "send"
      BY <3>1 DEF IdeJobRec, IdeCallRec, IdeBusy
    <3>3. jobs' = {}
      BY <1>4, <3>2
    <3>4. IdeOneRowEach' /\ IdeListRead'
      BY <1>4, <3>1 DEF IdeOneRowEach, IdeListRead
    <3>5. IdeClean'
      BY <1>3, <1>4, <3>1 DEF IdeClean, IdeOnDisk, Ide!Disk
    <3> QED
      BY <3>3, <3>4, <3>5
  <2> QED
    BY <1>4, <2>1, IdeWaitedFrame
<1> QED
  BY <1>8, <1>9, <1>10, <1>11, <1>12, <1>13, <1>14 DEF IdeIInv

------------------------------------------------------------------------------
(* What the calls do *)

\* What a call under way is about.
LEMMA IdeCallFacts ==
    ASSUME IdeIInv, NEW j \in jobs
    PROVE  /\ j \in IdeJobRec /\ j \in IdeCallRec /\ IdeKnown(j.repo) /\ j.repo \in Nat /\ j.n # 0
                /\ j.msg < acts
           /\ j.op = "send" /\ j.msg \in page.asked => j.product = page.product
           /\ j.op \in {"read", "save", "apply"} => j.repo \in Ide!Rows(table)
              /\ table.folder[j.repo] \in Ide!Folders
           /\ j.at \in {"attach", "fetch"} => j.repo \in Ide!Rows(table)
           /\ j.at # "fetch" => j.todo = <<>>
           /\ j.at = "read" => j.op = "apply" /\ j.patches \in Ide!Patches
           /\ ~ IdeBusy(j) => j.op = "send"
<1>1. j \in IdeJobRec /\ j \in IdeCallRec /\ j.repo \in Nat
  BY DEF IdeIInv, IdeTyped, IdeJobRec, IdeCallRec
<1>2. IdeKnown(j.repo) /\ j.n # 0
  BY DEF IdeIInv, IdeRowsThere
<1>3. j.msg < acts /\ (j.op = "send" /\ j.msg \in page.asked => j.product = page.product)
  BY DEF IdeIInv, IdeAsked
<1>4. /\ j.op \in {"read", "save", "apply"} => j.repo \in Ide!Rows(table)
      /\ j.at \in {"attach", "fetch"} => j.repo \in Ide!Rows(table)
      /\ j.at # "fetch" => j.todo = <<>>
      /\ j.at = "read" => j.op = "apply" /\ j.patches \in Ide!Patches
      /\ ~ IdeBusy(j) => j.op = "send"
  BY <1>1, <1>2 DEF IdeJobRec, IdeCallRec, IdeKnown, IdeBusy
<1>5. \A r \in Ide!Rows(table) : table.folder[r] \in Ide!Folders
  BY DEF IdeIInv, IdeTyped, IdeTableRec, Ide!Rows
<1> QED
  BY <1>1, <1>2, <1>3, <1>4, <1>5

\* What a person who waits for a call relies on.
LEMMA IdeWaitFacts ==
    ASSUME IdeIInv, ~ rough, NEW j \in jobs
    PROVE  /\ IdeOneRowEach /\ IdeFits(j) /\ (j.at # "attach" /\ IdeBusy(j) => <<"list">> \in due
                \/ seen[<<"list">>] = Ide!Rows(table))
           /\ IdeBusy(j) => \A i \in jobs : i = j \/ (i.at = "timer" /\ i.op = "send" /\ ~ IdeBusy(i))
           /\ IdeBusy(j) => \A k \in DOMAIN page.open : IdeOnDisk(table, page.open[k])
              \/ IdeRereads(j, page.open[k])
<1>1. IdeBusy(j) => \A i \in jobs : i = j \/ (i.at = "timer" /\ i.op = "send" /\ ~ IdeBusy(i))
  BY IdeOthersWait DEF IdeIInv, IdeBusy
<1>2. IdeOneRowEach /\ IdeFits(j) /\ IdeListRead /\ IdeClean
  BY DEF IdeIInv, IdeWaited
<1>3. j.at # "attach" /\ IdeBusy(j) => <<"list">> \in due \/ seen[<<"list">>] = Ide!Rows(table)
  BY <1>1, <1>2 DEF IdeListRead
<1>4. IdeBusy(j) => \A k \in DOMAIN page.open : IdeOnDisk(table, page.open[k])
      \/ IdeRereads(j, page.open[k])
  BY <1>1, <1>2 DEF IdeClean, IdeRereads
<1> QED
  BY <1>1, <1>2, <1>3, <1>4

\* A step of a call that changes no query and no workspace.
LEMMA IdeCallKeeps ==
    ASSUME IdeIInv, NEW j \in jobs, NEW N \in SUBSET IdeJobRec, jobs' = (jobs \ {j}) \cup N,
           \A i \in N : /\ i.n = j.n /\ i.op = j.op /\ i.product = j.product /\ i.msg = j.msg
                        /\ i.repo = j.repo /\ (IdeBusy(i) => IdeBusy(j)),
           \A i, k \in N : i = k, j.todo = <<>>, j.op # "folder" \/ N = {}, rough \/ j.at # "attach",
           table' \in IdeTableRec, table'.folder = table.folder, table'.homes = table.homes,
           table'.item = table.item, seen' = seen, due' = due, rough' = rough, acts' = acts,
           page' \in IdePageRec, page'.product = page.product, page'.item = page.item,
           page'.repo = page.repo, page'.asked \subseteq page.asked,
           page'.proposal # Ide!NoProposal => page'.proposal.of = page.product,
           \A k \in DOMAIN page'.open : page'.open[k].repo \in Ide!Rows(table), IdeOpenOnce',
           IdeBusy(j) \/ page'.open = page.open, ~ rough => IdeClean' /\ \A i \in N : IdeFits(i)'
    PROVE  IdeIInv'
<1>1. IdeTyped'
  BY DEF IdeIInv, IdeTyped
<1>2. IdeRowsThere'
  <2>1. Ide!Rows(table') = Ide!Rows(table)
    BY DEF Ide!Rows
  <2>2. \A i \in jobs' : i.repo \in {Ide!None} \cup Ide!Rows(table') /\ i.n # 0
    BY <2>1, IdeCallFacts DEF IdeKnown
  <2> QED
    BY <2>1, <2>2, IdeRowsFrame, IdePageFacts DEF IdeIInv, IdeKnown
<1>3. IdeAsked'
  <2>1. \A i \in jobs' : i.msg < acts' /\ (i.op = "send" /\ i.msg \in page'.asked
        => i.product = page'.product)
    BY IdeCallFacts
  <2>2. Ide!OwnProposal' /\ \A n \in page'.asked : n < acts'
    BY DEF IdeIInv, IdeAsked, Ide!OwnProposal
  <2> QED
    BY <2>1, <2>2 DEF IdeAsked
<1>4. IdeCurrent'
  <2>1. \A i \in jobs : i.todo # <<>> => \E k \in jobs' : k.todo = i.todo
    OBVIOUS
  <2>2. \A k \in jobs' : k.op = "folder" /\ k.at = "out" =>
           \E i \in jobs : i.op = "folder" /\ i.at = "out" /\ i.repo = k.repo
    OBVIOUS
  <2> QED
    BY <2>1, <2>2, IdeCurrentFrame DEF IdeIInv
<1>5. IdeSettled'
  BY IdeSettledFrame DEF IdeIInv
<1>6. IdeWaited'
  <2> SUFFICES ASSUME ~ rough
               PROVE  IdeAlone' /\ IdeOneRowEach' /\ IdeListRead' /\ (\A i \in jobs' : IdeFits(i)')
                      /\ IdeClean'
    BY DEF IdeWaited
  <2>1. /\ IdeAlone /\ IdeOneRowEach /\ IdeListRead /\ \A i \in jobs : IdeFits(i)
    BY DEF IdeIInv, IdeWaited
  <2>2. IdeAlone'
    BY <2>1 DEF IdeAlone, IdeBusy
  <2>3. IdeOneRowEach' /\ IdeListRead'
    BY <2>1 DEF IdeOneRowEach, IdeListRead, Ide!Rows
  <2>4. \A i \in jobs \ {j} : IdeFits(i)'
    <3>1. CASE page'.open = page.open
      BY <2>1, <3>1 DEF IdeFits, Ide!Rows
    <3>2. CASE IdeBusy(j)
      <4>1. \A i \in jobs \ {j} : i.op = "send"
        BY <3>2, IdeWaitFacts
      <4> QED
        BY <4>1 DEF IdeFits
    <3> QED
      BY <3>1, <3>2
  <2> QED
    BY <2>2, <2>3, <2>4
<1> QED
  BY <1>1, <1>2, <1>3, <1>4, <1>5, <1>6 DEF IdeIInv

\* The disk is read and written where a row's folder says.
LEMMA IdeDiskFacts ==
    ASSUME IdeIInv, NEW r \in Ide!Rows(table), NEW f \in Files
    PROVE  /\ table.folder[r] \in Ide!Folders /\ Ide!Disk(r, f) \in Int /\ r \in Nat
           /\ \A t \in Int : LET X == [table EXCEPT !.disk[table.folder[r]][f] = t]
                 IN  /\ X \in IdeTableRec /\ X.folder = table.folder /\ X.homes = table.homes
                 /\ X.item = table.item
                     /\ X.disk[table.folder[r]][f] = t
                     /\ \A d \in Ide!Folders, g \in Files :
                           d # table.folder[r] \/ g # f => X.disk[d][g] = table.disk[d][g]
<1>1. table \in IdeTableRec
  BY DEF IdeIInv, IdeTyped
<1>2. table.folder[r] \in Ide!Folders /\ r \in Nat
  BY <1>1 DEF IdeTableRec, Ide!Rows
<1>3. Ide!Disk(r, f) \in Int
  BY <1>1, <1>2 DEF IdeTableRec, Ide!Disk
<1>4. ASSUME NEW t \in Int
      PROVE  LET X == [table EXCEPT !.disk[table.folder[r]][f] = t]
             IN  /\ X \in IdeTableRec /\ X.folder = table.folder /\ X.homes = table.homes
             /\ X.item = table.item
                 /\ X.disk[table.folder[r]][f] = t
                 /\ \A d \in Ide!Folders, g \in Files :
                       d # table.folder[r] \/ g # f => X.disk[d][g] = table.disk[d][g]
  <2> DEFINE c == table.folder[r]
             e == [table.disk EXCEPT ![c][f] = t]
             X == [table EXCEPT !.disk[c][f] = t]
  <2>1. e \in [Ide!Folders -> [Files -> Int]]
    BY <1>1, <1>2 DEF IdeTableRec
  <2>2. /\ e[c][f] = t
        /\ \A d \in Ide!Folders, g \in Files : d # c \/ g # f => e[d][g] = table.disk[d][g]
    BY <1>1, <1>2 DEF IdeTableRec
  <2>3. X = [table EXCEPT !.disk = e]
    BY <1>1 DEF IdeTableRec
  <2> HIDE DEF e
  <2>4. X \in IdeTableRec /\ X.folder = table.folder /\ X.homes = table.homes /\ X.item = table.item
        /\ X.disk = e
    BY <1>1, <2>1, <2>3 DEF IdeTableRec
  <2> QED
    BY <2>2, <2>4
<1> QED
  BY <1>2, <1>3, <1>4

\* A file is read, and shown as it is on the disk.
LEMMA IdeFileReadKeeps == ASSUME IdeIInv, NEW j \in jobs, Ide!FileRead(j) PROVE IdeIInv'
<1>1. /\ page' = Ide!openFile(page, <<j.repo, j.file>>, Ide!Disk(j.repo, j.file)) /\ jobs' = jobs \ {j}
      /\ table' = table /\ seen' = seen /\ due' = due /\ rough' = rough /\ acts' = acts
      /\ j.op = "read" /\ j.at = "out"
  BY DEF Ide!FileRead, Ide!Gone
<1>2. /\ j \in IdeJobRec /\ j.repo \in Ide!Rows(table) /\ j.todo = <<>> /\ IdeBusy(j) /\ j.repo \in Nat
      /\ j.file \in Files
  BY <1>1, IdeCallFacts DEF IdeBusy, IdeJobRec
<1>3. PICK r \in Nat, f \in Files, t \in Int : r = j.repo /\ f = j.file /\ t = Ide!Disk(j.repo, j.file)
  BY <1>2, IdeDiskFacts
<1>4. page \in IdePageRec /\ table \in IdeTableRec
  BY IdePageFacts DEF IdeIInv, IdeTyped
<1>5. /\ IdeSameButFiles(page', page) /\ page' \in IdePageRec
      /\ \A k \in DOMAIN page'.open :
            \/ k \in DOMAIN page.open /\ page'.open[k] = page.open[k]
            \/ page'.open[k].repo = r /\ page'.open[k].file = f /\ page'.open[k].text = t
      /\ (\A k, l \in DOMAIN page.open : Ide!Id(page.open[k]) = Ide!Id(page.open[l]) => k = l) =>
            \A k, l \in DOMAIN page'.open : Ide!Id(page'.open[k]) = Ide!Id(page'.open[l]) => k = l
  <2>1. page' = Ide!openFile(page, <<r, f>>, t)
    BY <1>1, <1>3
  <2>2. IdeSameButFiles(page', page) /\ page' \in IdePageRec
    BY <1>4, <2>1, IdeOpenFacts
  <2>3. \A k \in DOMAIN page'.open :
           \/ k \in DOMAIN page.open /\ page'.open[k] = page.open[k]
           \/ page'.open[k].repo = r /\ page'.open[k].file = f /\ page'.open[k].text = t
    BY <1>4, <2>1, IdeOpenFacts
  <2>4. (\A k, l \in DOMAIN page.open : Ide!Id(page.open[k]) = Ide!Id(page.open[l]) => k = l) =>
           \A k, l \in DOMAIN page'.open : Ide!Id(page'.open[k]) = Ide!Id(page'.open[l]) => k = l
    BY <1>4, <2>1, IdeOpenFacts
  <2> QED
    BY <2>2, <2>3, <2>4
<1>6. /\ page'.product = page.product /\ page'.item = page.item /\ page'.repo = page.repo
      /\ page'.asked = page.asked /\ page'.proposal = page.proposal
  BY <1>5 DEF IdeSameButFiles
<1>7. \A k \in DOMAIN page'.open : page'.open[k].repo \in Ide!Rows(table)
  BY <1>2, <1>3, <1>5, IdePageFacts
<1>8. IdeOpenOnce'
  BY <1>5, IdePageFacts DEF IdeOpenOnce
<1>9. ~ rough => IdeClean'
  <2> SUFFICES ASSUME ~ rough
               PROVE  \A k \in DOMAIN page'.open : IdeOnDisk(table', page'.open[k])
    BY DEF IdeClean
  <2>1. \A k \in DOMAIN page.open : IdeOnDisk(table, page.open[k])
    BY <1>1, <1>2, IdeWaitFacts DEF IdeRereads
  <2> QED
    BY <1>1, <1>3, <1>5, <2>1 DEF IdeOnDisk, Ide!Disk
<1>10. PICK N \in SUBSET IdeJobRec : N = {}
  OBVIOUS
<1>11. jobs' = (jobs \ {j}) \cup N /\ \A i : i \notin N
  BY <1>1, <1>10
<1> QED
  BY <1>1, <1>2, <1>4, <1>5, <1>6, <1>7, <1>8, <1>9, <1>10, <1>11, IdePageFacts, IdeCallKeeps

\* The other files on the disk, for a person who waits: one row has a folder.
LEMMA IdeOtherFiles ==
    ASSUME IdeIInv, ~ rough, IdeOneRowEach, NEW r \in Ide!Rows(table), NEW f \in Files, NEW t \in Int,
           NEW tb, tb = [table EXCEPT !.disk[table.folder[r]][f] = t]
    PROVE  /\ tb.disk[tb.folder[r]][f] = t
           /\ \A k \in DOMAIN page.open : Ide!Id(page.open[k]) # <<r, f>> =>
                 (IdeOnDisk(tb, page.open[k]) <=> IdeOnDisk(table, page.open[k]))
<1>1. /\ tb.folder = table.folder /\ table.folder[r] \in Ide!Folders
      /\ tb.disk[table.folder[r]][f] = t
      /\ \A d \in Ide!Folders, g \in Files :
            d # table.folder[r] \/ g # f => tb.disk[d][g] = table.disk[d][g]
  BY IdeDiskFacts
<1>2. ASSUME NEW k \in DOMAIN page.open, Ide!Id(page.open[k]) # <<r, f>>
      PROVE  IdeOnDisk(tb, page.open[k]) <=> IdeOnDisk(table, page.open[k])
  <2> DEFINE o == page.open[k]
  <2>1. o.repo \in Ide!Rows(table) /\ o.file \in Files
    BY IdePageFacts DEF IdeOpenRec
  <2>2. o.repo # r \/ o.file # f
    BY <1>2 DEF Ide!Id
  <2>3. table.folder[o.repo] # table.folder[r] \/ o.file # f
    BY <2>1, <2>2 DEF IdeOneRowEach
  <2>4. table.folder[o.repo] \in Ide!Folders
    BY <2>1, IdeDiskFacts
  <2>5. tb.disk[tb.folder[o.repo]][o.file] = table.disk[table.folder[o.repo]][o.file]
    BY <1>1, <2>1, <2>3, <2>4
  <2> QED
    BY <2>5 DEF IdeOnDisk
<1> QED
  BY <1>1, <1>2

\* What was typed last is on the disk: the save was told the text that is shown.
LEMMA IdeSavedKeeps == ASSUME IdeIInv, NEW j \in jobs, Ide!Saved(j) PROVE IdeIInv'
<1> DEFINE id == <<j.repo, j.file>>
<1>1. /\ page' = Ide!markFileSaved(page, id) /\ jobs' = jobs \ {j}
      /\ table' = [table EXCEPT !.disk[table.folder[j.repo]][j.file] = j.text]
      /\ seen' = seen /\ due' = due /\ rough' = rough /\ acts' = acts
      /\ j.op = "save" /\ j.at = "out"
  BY DEF Ide!Saved, Ide!Gone
<1>2. /\ j \in IdeJobRec /\ j.repo \in Ide!Rows(table) /\ j.todo = <<>> /\ IdeBusy(j)
      /\ j.file \in Files
  BY <1>1, IdeCallFacts DEF IdeBusy, IdeJobRec
<1>3. PICK r \in Ide!Rows(table), f \in Files, t \in Int : r = j.repo /\ f = j.file /\ t = j.text
  BY <1>2 DEF IdeJobRec, IdeCallRec
<1>4. page \in IdePageRec
  BY IdePageFacts
<1>5. table' = [table EXCEPT !.disk[table.folder[r]][f] = t]
  BY <1>1, <1>3
<1>6. /\ table' \in IdeTableRec /\ table'.folder = table.folder /\ table'.homes = table.homes
      /\ table'.item = table.item
  BY <1>5, IdeDiskFacts
<1>7. /\ IdeSameButFiles(page', page) /\ page' \in IdePageRec /\ DOMAIN page'.open = DOMAIN page.open
      /\ \A k \in DOMAIN page.open : Ide!Id(page'.open[k]) = Ide!Id(page.open[k])
      /\ \A k \in DOMAIN page.open : page'.open[k].repo = page.open[k].repo
      /\ \A k \in DOMAIN page.open : Ide!Id(page.open[k]) = id => page'.open[k].text = page.open[k].text
      /\ \A k \in DOMAIN page.open : Ide!Id(page.open[k]) # id => page'.open[k] = page.open[k]
  <2>1. CASE ~ Ide!IsOpen(page, id)
    BY <1>1, <1>4, <2>1 DEF Ide!markFileSaved, IdeSameButFiles
  <2>2. CASE Ide!IsOpen(page, id)
    <3>1. PICK u \in Int : u = Ide!OpenOf(page, id).text
      BY <1>4, <2>2, IdeTabFacts DEF IdeOpenRec
    <3>2. page' = Ide!replaceFileContent(page, id, u)
      BY <1>1, <2>2, <3>1 DEF Ide!markFileSaved, Ide!replaceFileContent
    <3>3. \A k \in DOMAIN page.open : Ide!Id(page.open[k]) = id => page.open[k].text = u
      BY <1>4, <2>2, <3>1, IdeTabFacts, IdePageFacts
    <3> HIDE DEF id
    <3>4. IdeSameButFiles(page', page) /\ page' \in IdePageRec
      BY <1>4, <3>2, IdeCleanFacts
    <3>5. /\ DOMAIN page'.open = DOMAIN page.open
          /\ \A k \in DOMAIN page.open : Ide!Id(page'.open[k]) = Ide!Id(page.open[k])
      BY <1>4, <3>2, IdeCleanFacts
    <3>6. /\ \A k \in DOMAIN page.open : page'.open[k].repo = page.open[k].repo
          /\ \A k \in DOMAIN page.open : Ide!Id(page.open[k]) = id => page'.open[k].text = u
      BY <1>4, <3>2, IdeCleanFacts
    <3>7. \A k \in DOMAIN page.open : Ide!Id(page.open[k]) # id => page'.open[k] = page.open[k]
      BY <1>4, <3>2, IdeCleanFacts
    <3> QED
      BY <3>3, <3>4, <3>5, <3>6, <3>7
  <2> QED
    BY <2>1, <2>2
<1>8. /\ page'.product = page.product /\ page'.item = page.item /\ page'.repo = page.repo
      /\ page'.asked = page.asked /\ page'.proposal = page.proposal
  BY <1>7 DEF IdeSameButFiles
<1>9. IdeOpenOnce' /\ \A k \in DOMAIN page'.open : page'.open[k].repo \in Ide!Rows(table)
  BY <1>7, IdePageFacts DEF IdeOpenOnce
<1>10. ~ rough => IdeClean'
  <2> SUFFICES ASSUME ~ rough, NEW k \in DOMAIN page'.open
               PROVE  IdeOnDisk(table', page'.open[k])
    BY DEF IdeClean
  <2>1. IdeOneRowEach /\ IdeFits(j) /\ IdeOnDisk(table, page.open[k])
    BY <1>1, <1>2, <1>7, IdeWaitFacts DEF IdeRereads
  <2>2. CASE Ide!Id(page.open[k]) # id
    <3>1. IdeOnDisk(table', page.open[k])
      BY <1>3, <1>5, <1>7, <2>1, <2>2, IdeOtherFiles
    <3> QED
      BY <1>7, <2>2, <3>1
  <2>3. CASE Ide!Id(page.open[k]) = id
    <3>1. page.open[k].text = j.text
      BY <1>1, <1>7, <2>1, <2>3 DEF IdeFits
    <3>2. page'.open[k].text = t /\ page'.open[k].repo = r /\ page'.open[k].file = f
      BY <1>3, <1>7, <2>3, <3>1 DEF Ide!Id
    <3>3. table'.disk[table'.folder[r]][f] = t
      BY <1>5, <1>6, IdeDiskFacts
    <3> QED
      BY <3>2, <3>3 DEF IdeOnDisk
  <2> QED
    BY <2>2, <2>3
<1>11. PICK N \in SUBSET IdeJobRec : N = {}
  OBVIOUS
<1>12. jobs' = (jobs \ {j}) \cup N /\ \A i : i \notin N
  BY <1>1, <1>11
<1> QED
  BY <1>1, <1>2, <1>6, <1>7, <1>8, <1>9, <1>10, <1>11, <1>12, IdePageFacts, IdeCallKeeps

\* A step of the copilot leaves the files and the disk alone.
LEMMA IdeCopilotKeeps ==
    ASSUME IdeIInv, NEW j \in jobs, j.op = "send",
           NEW N \in SUBSET IdeJobRec, jobs' = (jobs \ {j}) \cup N,
           \A i \in N : /\ i.n = j.n /\ i.op = j.op /\ i.product = j.product /\ i.msg = j.msg
                        /\ i.repo = j.repo /\ (IdeBusy(i) => IdeBusy(j)),
           \A i, k \in N : i = k, table' = table, seen' = seen, due' = due, rough' = rough, acts' = acts,
           page' \in IdePageRec, page'.product = page.product, page'.item = page.item,
           page'.repo = page.repo, page'.asked \subseteq page.asked, page'.open = page.open,
           page'.proposal # Ide!NoProposal => page'.proposal.of = page.product
    PROVE  IdeIInv'
<1>1. j.todo = <<>> /\ j.at # "attach" /\ j.at # "read"
  BY IdeCallFacts DEF IdeJobRec, IdeCallRec
<1>2. IdeOpenOnce' /\ \A k \in DOMAIN page'.open : page'.open[k].repo \in Ide!Rows(table)
  BY IdePageFacts DEF IdeOpenOnce
<1>3. ~ rough => IdeClean' /\ \A i \in N : IdeFits(i)'
  <2> SUFFICES ASSUME ~ rough PROVE IdeClean' /\ \A i \in N : IdeFits(i)'
    OBVIOUS
  <2>1. \A i \in N : IdeFits(i)'
    BY DEF IdeFits
  <2>2. IdeClean
    BY DEF IdeIInv, IdeWaited
  <2>3. ASSUME NEW k \in DOMAIN page.open
        PROVE  IdeOnDisk(table, page.open[k]) \/ \E i \in jobs' : IdeRereads(i, page.open[k])
    <3>1. ASSUME NEW i \in jobs, IdeRereads(i, page.open[k]) PROVE i \in jobs'
      BY <1>1, <3>1 DEF IdeRereads
    <3> QED
      BY <2>2, <3>1 DEF IdeClean
  <2> QED
    BY <2>1, <2>3 DEF IdeClean
<1>4. table' \in IdeTableRec
  BY DEF IdeIInv, IdeTyped
<1> QED
  BY <1>1, <1>2, <1>3, <1>4, IdeCallKeeps

\* A stream ends before the page knows it.
LEMMA IdeStreamOverKeeps == ASSUME IdeIInv, NEW j \in jobs, Ide!StreamOver(j) PROVE IdeIInv'
<1> DEFINE i == [j EXCEPT !.over = TRUE]
<1>1. /\ j.op = "send" /\ j.at = "out" /\ jobs' = (jobs \ {j}) \cup {i}
      /\ table' = table /\ seen' = seen /\ due' = due /\ page' = page /\ rough' = rough /\ acts' = acts
  BY DEF Ide!StreamOver, Ide!Goes
<1>2. j \in IdeCallRec
  BY IdeCallFacts
<1>3. i \in IdeCallRec
  BY <1>2 DEF IdeCallRec
<1>4. /\ i.n = j.n /\ i.op = j.op /\ i.product = j.product /\ i.msg = j.msg /\ i.repo = j.repo
      /\ i.at = j.at /\ i.todo = j.todo
  BY <1>2 DEF IdeCallRec
<1>5. i \in IdeJobRec
  BY <1>1, <1>3, <1>4, IdeCallFacts DEF IdeJobRec
<1> HIDE DEF i
<1>6. PICK N \in SUBSET IdeJobRec : N = {i}
  BY <1>5
<1>7. jobs' = (jobs \ {j}) \cup N /\ \A k \in N : k = i
  BY <1>1, <1>6
<1>8. IdeBusy(i) => IdeBusy(j)
  BY <1>4 DEF IdeBusy
<1> QED
  BY <1>1, <1>4, <1>6, <1>7, <1>8, IdePageFacts, IdeCopilotKeeps

\* The start of a stream is answered.
LEMMA IdeStreamStartedKeeps == ASSUME IdeIInv, NEW j \in jobs, Ide!StreamStarted(j) PROVE IdeIInv'
<1> DEFINE i == [j EXCEPT !.at = "on"]
<1>1. /\ j.op = "send" /\ j.at = "out" /\ jobs' = (jobs \ {j}) \cup {i}
      /\ table' = table /\ seen' = seen /\ due' = due /\ page' = page /\ rough' = rough /\ acts' = acts
  BY DEF Ide!StreamStarted, Ide!Goes
<1>2. j \in IdeCallRec /\ j.todo = <<>>
  BY <1>1, IdeCallFacts
<1>3. i \in IdeCallRec
  BY <1>2 DEF IdeCallRec
<1>4. /\ i.n = j.n /\ i.op = j.op /\ i.product = j.product /\ i.msg = j.msg /\ i.repo = j.repo
      /\ i.at = "on" /\ i.todo = j.todo
  BY <1>2 DEF IdeCallRec
<1>5. i \in IdeJobRec
  BY <1>1, <1>2, <1>3, <1>4 DEF IdeJobRec
<1> HIDE DEF i
<1>6. PICK N \in SUBSET IdeJobRec : N = {i}
  BY <1>5
<1>7. jobs' = (jobs \ {j}) \cup N /\ \A k \in N : k = i
  BY <1>1, <1>6
<1>8. IdeBusy(i) => IdeBusy(j)
  BY <1>1 DEF IdeBusy
<1> QED
  BY <1>1, <1>4, <1>6, <1>7, <1>8, IdePageFacts, IdeCopilotKeeps

\* A proposal is taken when its message is in the conversation, and was asked
\* for under the product that is selected then.
LEMMA IdeStreamEndedKeeps == ASSUME IdeIInv, NEW j \in jobs, Ide!StreamEnded(j) PROVE IdeIInv'
<1> DEFINE i == [j EXCEPT !.at = "timer"]
<1>1. /\ j.op = "send" /\ j.at = "on" /\ jobs' = (jobs \ {j}) \cup {i}
      /\ table' = table /\ seen' = seen /\ due' = due /\ rough' = rough /\ acts' = acts
  BY DEF Ide!StreamEnded, Ide!Goes
<1>2. j \in IdeCallRec /\ j.todo = <<>>
  BY <1>1, IdeCallFacts
<1>3. i \in IdeCallRec
  BY <1>2 DEF IdeCallRec
<1>4. /\ i.n = j.n /\ i.op = j.op /\ i.product = j.product /\ i.msg = j.msg /\ i.repo = j.repo
      /\ i.at = "timer" /\ i.todo = j.todo
  BY <1>2 DEF IdeCallRec
<1>5. i \in IdeJobRec
  BY <1>1, <1>2, <1>3, <1>4 DEF IdeJobRec
<1> HIDE DEF i
<1>6. PICK N \in SUBSET IdeJobRec : N = {i}
  BY <1>5
<1>7. jobs' = (jobs \ {j}) \cup N /\ \A k \in N : k = i
  BY <1>1, <1>6
<1>8. IdeBusy(i) => IdeBusy(j)
  BY <1>1 DEF IdeBusy
<1>9. PICK o \in IdeProposals :
         /\ page' = [page EXCEPT !.sending = FALSE, !.proposal = o]
         /\ o # Ide!NoProposal => o.of = page.product
  <2>1. CASE page' = [page EXCEPT !.sending = FALSE]
    <3>1. page' = [page EXCEPT !.sending = FALSE, !.proposal = page.proposal]
      BY <2>1, IdePageFacts DEF IdePageRec
    <3>2. page.proposal \in IdeProposals
      BY IdePageFacts DEF IdePageRec
    <3> QED
      BY <3>1, <3>2, IdePageFacts
  <2>2. CASE /\ j.mode = "patch" /\ j.msg \in page.asked
             /\ \E p \in Ide!Patches : page' = [page EXCEPT !.sending = FALSE, !.proposal = [of |-> j.product, patches |-> p]]
    <3>1. PICK p \in Ide!Patches : page' = [page EXCEPT !.sending = FALSE, !.proposal = [of |-> j.product, patches |-> p]]
      BY <2>2
    <3>2. j.product = page.product /\ j.product \in Products
      BY <1>1, <1>2, <2>2, IdeCallFacts DEF IdeCallRec
    <3>3. PICK o \in IdeProposals : o = [of |-> j.product, patches |-> p]
      BY <3>2 DEF IdeProposals
    <3>4. o.of = page.product
      BY <3>2, <3>3
    <3> QED
      BY <3>1, <3>3, <3>4
  <2> QED
    BY <2>1, <2>2 DEF Ide!StreamEnded
<1>10. page' \in IdePageRec
  BY <1>9, IdePageFacts DEF IdePageRec
<1>11. /\ page'.product = page.product /\ page'.item = page.item /\ page'.repo = page.repo
       /\ page'.asked = page.asked /\ page'.open = page.open /\ page'.proposal = o
  BY <1>9, IdePageFacts DEF IdePageRec
<1> QED
  BY <1>1, <1>4, <1>6, <1>7, <1>8, <1>9, <1>10, <1>11, IdeCopilotKeeps

\* The timer takes the busy flag down.
LEMMA IdeTimerKeeps == ASSUME IdeIInv, NEW j \in jobs, Ide!Timer(j) PROVE IdeIInv'
<1>1. /\ j.op = "send" /\ jobs' = jobs \ {j} /\ page' = [page EXCEPT !.sending = FALSE]
      /\ table' = table /\ seen' = seen /\ due' = due /\ rough' = rough /\ acts' = acts
  BY DEF Ide!Timer, Ide!Gone
<1>2. page' \in IdePageRec
  BY <1>1, IdePageFacts DEF IdePageRec
<1>3. /\ page'.product = page.product /\ page'.item = page.item /\ page'.repo = page.repo
      /\ page'.asked = page.asked /\ page'.open = page.open /\ page'.proposal = page.proposal
  BY <1>1, IdePageFacts DEF IdePageRec
<1>4. PICK N \in SUBSET IdeJobRec : N = {}
  OBVIOUS
<1>5. jobs' = (jobs \ {j}) \cup N /\ \A i : i \notin N
  BY <1>1, <1>4
<1> QED
  BY <1>1, <1>2, <1>3, <1>4, <1>5, IdePageFacts, IdeCopilotKeeps

\* A call that fails; one that reads files again fails for a hurried person only.
LEMMA IdeRefusedKeeps == ASSUME IdeIInv, NEW j \in jobs, Ide!Refused(j) PROVE IdeIInv'
<1>1. /\ jobs' = jobs \ {j} /\ j.at \in {"out", "attach", "read"} /\ (rough \/ j.at = "out")
      /\ page' = IF j.op = "send" THEN [page EXCEPT !.sending = FALSE, !.asked = @ \ {j.msg}] ELSE page
      /\ table' = table /\ seen' = seen /\ due' = due /\ rough' = rough /\ acts' = acts
  BY DEF Ide!Refused, Ide!Gone
<1>2. PICK a \in SUBSET page.asked, b \in BOOLEAN : page' = [page EXCEPT !.sending = b, !.asked = a]
  <2>1. CASE j.op = "send"
    <3>1. page' = [page EXCEPT !.sending = FALSE, !.asked = page.asked \ {j.msg}]
      BY <1>1, <2>1, IdePageFacts DEF IdePageRec
    <3> QED
      BY <3>1
  <2>2. CASE j.op # "send"
    <3>1. page' = [page EXCEPT !.sending = page.sending, !.asked = page.asked]
      BY <1>1, <2>2, IdePageFacts DEF IdePageRec
    <3>2. page.sending \in BOOLEAN
      BY IdePageFacts DEF IdePageRec
    <3> QED
      BY <3>1, <3>2
  <2> QED
    BY <2>1, <2>2
<1>3. a \in SUBSET Nat
  BY IdePageFacts DEF IdePageRec
<1>4. page' \in IdePageRec
  BY <1>2, <1>3, IdePageFacts DEF IdePageRec
<1>5. /\ page'.product = page.product /\ page'.item = page.item /\ page'.repo = page.repo
      /\ page'.asked = a /\ page'.open = page.open /\ page'.proposal = page.proposal
  BY <1>2, IdePageFacts DEF IdePageRec
<1>6. PICK N \in SUBSET IdeJobRec : N = {}
  OBVIOUS
<1>7. jobs' = (jobs \ {j}) \cup N /\ \A i : i \notin N
  BY <1>1, <1>6
<1>8. j.todo = <<>> /\ IdeBusy(j) /\ table' \in IdeTableRec
  BY <1>1, IdeCallFacts DEF IdeBusy, IdeIInv, IdeTyped
<1>9. IdeOpenOnce' /\ \A k \in DOMAIN page'.open : page'.open[k].repo \in Ide!Rows(table)
  BY <1>5, IdePageFacts DEF IdeOpenOnce
<1>10. ~ rough => IdeClean'
  <2> SUFFICES ASSUME ~ rough, NEW k \in DOMAIN page.open PROVE IdeOnDisk(table, page.open[k])
    BY <1>1, <1>5 DEF IdeClean
  <2> QED
    BY <1>1, <1>8, IdeWaitFacts DEF IdeRereads
<1> QED
  BY <1>1, <1>2, <1>4, <1>5, <1>6, <1>7, <1>8, <1>9, <1>10, IdePageFacts, IdeCallKeeps

\* A patch of one or two files.
LEMMA IdePatchFacts ==
    ASSUME NEW p \in Ide!Patches
    PROVE  Head(p) \in Files /\ (Len(p) # 1 => Tail(p) \in Ide!Patches)
<1>1. CASE p \in {<<f>> : f \in Files}
  <2>1. PICK f \in Files : p = <<f>>
    BY <1>1
  <2> QED
    BY <2>1
<1>2. CASE p \in {q \in Files \X Files : q[1] # q[2]}
  <2>1. PICK a \in Files, b \in Files : p = <<a, b>>
    BY <1>2
  <2>2. Head(p) = a /\ Tail(p) = <<b>>
    BY <2>1
  <2> QED
    BY <2>2 DEF Ide!Patches
<1> QED
  BY <1>1, <1>2 DEF Ide!Patches

\* The patch after is the same call, about the patches that are left.
LEMMA IdeNextPatchFacts ==
    ASSUME IdeIInv, NEW j \in jobs, j.op = "apply", j.patches \in Ide!Patches, Ide!NextPatch(j)
    PROVE  \E N \in SUBSET IdeJobRec :
              /\ jobs' = (jobs \ {j}) \cup N /\ \A i, k \in N : i = k
              /\ \A i \in N : /\ i.n = j.n /\ i.op = j.op /\ i.product = j.product /\ i.msg = j.msg
                              /\ i.repo = j.repo /\ i.known = j.known
<1>1. CASE Len(j.patches) = 1
  <2>1. PICK N \in SUBSET IdeJobRec : N = {}
    OBVIOUS
  <2>2. jobs' = (jobs \ {j}) \cup N /\ \A i : i \notin N
    BY <1>1, <2>1 DEF Ide!NextPatch, Ide!Gone
  <2> QED
    BY <2>2
<1>2. CASE Len(j.patches) # 1
  <2> DEFINE p == Tail(j.patches)
             i == [j EXCEPT !.at = "out", !.patches = p]
  <2>1. p \in Ide!Patches
    BY <1>2, IdePatchFacts
  <2>2. j \in IdeCallRec /\ j.todo = <<>> /\ j.repo # Ide!None
    BY IdeCallFacts DEF IdeJobRec, IdeCallRec
  <2>3. jobs' = (jobs \ {j}) \cup {i}
    BY <1>2, <2>2 DEF Ide!NextPatch, Ide!Goes, IdeCallRec
  <2> HIDE DEF p
  <2>4. i \in IdeCallRec
    BY <2>1, <2>2 DEF IdeCallRec
  <2>5. /\ i.n = j.n /\ i.op = j.op /\ i.product = j.product /\ i.msg = j.msg /\ i.repo = j.repo
        /\ i.at = "out" /\ i.todo = j.todo /\ i.known = j.known /\ i.patches = p
    BY <2>2 DEF IdeCallRec
  <2>6. i \in IdeJobRec
    BY <2>1, <2>2, <2>4, <2>5 DEF IdeJobRec
  <2> HIDE DEF i
  <2>7. PICK N \in SUBSET IdeJobRec : N = {i}
    BY <2>6
  <2>8. jobs' = (jobs \ {j}) \cup N /\ \A k \in N : k = i
    BY <2>3, <2>7
  <2> QED
    BY <2>5, <2>8
<1> QED
  BY <1>1, <1>2

\* A patch to a file that is open is followed by reading the file again.
LEMMA IdePatchAppliedKeeps == ASSUME IdeIInv, NEW j \in jobs, Ide!PatchApplied(j) PROVE IdeIInv'
<1> DEFINE h == Head(j.patches)
           u == Ide!Patched(table.disk[table.folder[j.repo]][h])
<1>1. /\ j.op = "apply" /\ j.at = "out" /\ page' = page
      /\ seen' = seen /\ due' = due /\ rough' = rough /\ acts' = acts
  BY DEF Ide!PatchApplied
<1>2. /\ j.repo \in Ide!Rows(table) /\ j.patches \in Ide!Patches /\ j.todo = <<>> /\ IdeBusy(j)
      /\ j \in IdeCallRec
      /\ j.repo # Ide!None
  BY <1>1, IdeCallFacts DEF IdeBusy, IdeJobRec
<1>3. PICK r \in Ide!Rows(table), f \in Files : r = j.repo /\ f = h
  BY <1>2, IdePatchFacts
<1>4. u \in Int /\ table \in IdeTableRec /\ table.folder[r] \in Ide!Folders
  BY <1>3, IdeDiskFacts DEF Ide!Disk, Ide!Patched, IdeIInv, IdeTyped
<1>5. table' = [table EXCEPT !.disk[table.folder[r]][f] = u]
  BY <1>3, <1>4 DEF Ide!PatchApplied, IdeTableRec
<1>6. PICK t \in Int : table' = [table EXCEPT !.disk[table.folder[r]][f] = t]
  BY <1>4, <1>5
<1>7. /\ table' \in IdeTableRec /\ table'.folder = table.folder /\ table'.homes = table.homes
      /\ table'.item = table.item
  BY <1>6, IdeDiskFacts
<1>8. \E N \in SUBSET IdeJobRec :
         /\ jobs' = (jobs \ {j}) \cup N /\ \A i, k \in N : i = k
         /\ \A i \in N : /\ i.n = j.n /\ i.op = j.op /\ i.product = j.product /\ i.msg = j.msg
                         /\ i.repo = j.repo /\ i.known = j.known
         /\ <<r, f>> \in j.known => \E i \in N : i.at = "read" /\ i.repo = r /\ Head(i.patches) = f
  <2>1. CASE <<r, f>> \in j.known
    <3> DEFINE i == [j EXCEPT !.at = "read"]
    <3>1. jobs' = (jobs \ {j}) \cup {i}
      BY <1>3, <2>1 DEF Ide!PatchApplied, Ide!Goes
    <3>2. i \in IdeCallRec
      BY <1>2 DEF IdeCallRec
    <3>3. /\ i.n = j.n /\ i.op = j.op /\ i.product = j.product /\ i.msg = j.msg /\ i.repo = j.repo
          /\ i.at = "read" /\ i.todo = j.todo /\ i.known = j.known /\ i.patches = j.patches
      BY <1>2 DEF IdeCallRec
    <3>4. i \in IdeJobRec
      BY <1>1, <1>2, <3>2, <3>3 DEF IdeJobRec
    <3> HIDE DEF i
    <3>5. PICK N \in SUBSET IdeJobRec : N = {i}
      BY <3>4
    <3>6. jobs' = (jobs \ {j}) \cup N /\ i \in N /\ \A k \in N : k = i
      BY <3>1, <3>5
    <3>7. Head(i.patches) = f /\ i.repo = r
      BY <1>3, <3>3
    <3> QED
      BY <3>3, <3>6, <3>7
  <2>2. CASE <<r, f>> \notin j.known
    <3>1. Ide!NextPatch(j)
      BY <1>3, <2>2 DEF Ide!PatchApplied
    <3>2. PICK N \in SUBSET IdeJobRec :
             /\ jobs' = (jobs \ {j}) \cup N /\ \A i, k \in N : i = k
             /\ \A i \in N : /\ i.n = j.n /\ i.op = j.op /\ i.product = j.product /\ i.msg = j.msg
                             /\ i.repo = j.repo /\ i.known = j.known
      BY <1>1, <1>2, <3>1, IdeNextPatchFacts
    <3> QED
      BY <2>2, <3>2
  <2> QED
    BY <2>1, <2>2
<1>9. PICK N \in SUBSET IdeJobRec :
         /\ jobs' = (jobs \ {j}) \cup N /\ \A i, k \in N : i = k
         /\ \A i \in N : /\ i.n = j.n /\ i.op = j.op /\ i.product = j.product /\ i.msg = j.msg
                         /\ i.repo = j.repo /\ i.known = j.known
         /\ <<r, f>> \in j.known => \E i \in N : i.at = "read" /\ i.repo = r /\ Head(i.patches) = f
  BY <1>8
<1>10. IdeOpenOnce' /\ \A k \in DOMAIN page'.open : page'.open[k].repo \in Ide!Rows(table)
  BY <1>1, IdePageFacts DEF IdeOpenOnce
<1>11. ~ rough => IdeClean' /\ \A i \in N : IdeFits(i)'
  <2> SUFFICES ASSUME ~ rough PROVE IdeClean' /\ \A i \in N : IdeFits(i)'
    OBVIOUS
  <2>1. IdeOneRowEach /\ IdeFits(j)
    BY IdeWaitFacts
  <2>2. \A k \in DOMAIN page.open : IdeOnDisk(table, page.open[k])
    BY <1>1, <1>2, IdeWaitFacts DEF IdeRereads
  <2>3. \A i \in N : IdeFits(i)'
    BY <1>1, <1>9, <2>1 DEF IdeFits
  <2>4. ASSUME NEW k \in DOMAIN page.open
        PROVE  IdeOnDisk(table', page.open[k]) \/ \E i \in jobs' : IdeRereads(i, page.open[k])
    <3>1. CASE Ide!Id(page.open[k]) # <<r, f>>
      BY <1>6, <2>1, <2>2, <3>1, IdeOtherFiles
    <3>2. CASE Ide!Id(page.open[k]) = <<r, f>>
      <4>1. <<r, f>> \in j.known
        BY <1>1, <2>1, <3>2 DEF IdeFits
      <4> QED
        BY <1>9, <3>2, <4>1 DEF IdeRereads
    <3> QED
      BY <3>1, <3>2
  <2> QED
    BY <1>1, <2>3, <2>4 DEF IdeClean
<1>12. \A i \in N : IdeBusy(i) => IdeBusy(j)
  BY <1>2
<1> HIDE DEF h, u
<1> QED
  BY <1>1, <1>2, <1>7, <1>9, <1>10, <1>11, <1>12, IdePageFacts, IdeCallKeeps

\* The file is read again, over what was typed in it.
LEMMA IdeRereadKeeps == ASSUME IdeIInv, NEW j \in jobs, Ide!Reread(j) PROVE IdeIInv'
<1> DEFINE h == Head(j.patches)
<1>1. /\ j.at = "read" /\ page' = Ide!replaceFileContent(page, <<j.repo, h>>, Ide!Disk(j.repo, h))
      /\ Ide!NextPatch(j)
      /\ table' = table /\ seen' = seen /\ due' = due /\ rough' = rough /\ acts' = acts
  BY DEF Ide!Reread
<1>2. /\ j.op = "apply" /\ j.repo \in Ide!Rows(table) /\ j.patches \in Ide!Patches /\ j.todo = <<>>
      /\ IdeBusy(j)
  BY <1>1, IdeCallFacts DEF IdeBusy
<1>3. PICK r \in Ide!Rows(table), f \in Files : r = j.repo /\ f = h
  BY <1>2, IdePatchFacts
<1>4. PICK t \in Int : t = table.disk[table.folder[r]][f]
  BY IdeDiskFacts DEF Ide!Disk
<1>5. page' = Ide!replaceFileContent(page, <<r, f>>, t)
  BY <1>1, <1>3, <1>4 DEF Ide!Disk
<1> DEFINE id == <<r, f>>
<1>6. page' = Ide!replaceFileContent(page, id, t)
  BY <1>5
<1>7. page \in IdePageRec /\ table \in IdeTableRec
  BY IdePageFacts DEF IdeIInv, IdeTyped
<1> HIDE DEF id
<1>8. IdeSameButFiles(page', page) /\ page' \in IdePageRec
  BY <1>6, <1>7, IdeCleanFacts
<1>9. /\ DOMAIN page'.open = DOMAIN page.open
      /\ \A k \in DOMAIN page.open : Ide!Id(page'.open[k]) = Ide!Id(page.open[k])
  BY <1>6, <1>7, IdeCleanFacts
<1>10. \A k \in DOMAIN page.open : page'.open[k].repo = page.open[k].repo
       /\ page'.open[k].file = page.open[k].file
  BY <1>6, <1>7, IdeCleanFacts
<1>11. \A k \in DOMAIN page.open : Ide!Id(page.open[k]) = id => page'.open[k].text = t
  BY <1>6, <1>7, IdeCleanFacts
<1>12. \A k \in DOMAIN page.open : Ide!Id(page.open[k]) # id => page'.open[k] = page.open[k]
  BY <1>6, <1>7, IdeCleanFacts
<1>13. /\ page'.product = page.product /\ page'.item = page.item /\ page'.repo = page.repo
       /\ page'.asked = page.asked /\ page'.proposal = page.proposal
  BY <1>8 DEF IdeSameButFiles
<1>14. PICK N \in SUBSET IdeJobRec :
          /\ jobs' = (jobs \ {j}) \cup N /\ \A i, k \in N : i = k
          /\ \A i \in N : /\ i.n = j.n /\ i.op = j.op /\ i.product = j.product /\ i.msg = j.msg
                          /\ i.repo = j.repo /\ i.known = j.known
  <2>1. Ide!NextPatch(j) /\ j.op = "apply" /\ j.patches \in Ide!Patches
    BY <1>1, <1>2
  <2> QED
    BY <2>1, IdeNextPatchFacts
<1>15. IdeOpenOnce' /\ \A k \in DOMAIN page'.open : page'.open[k].repo \in Ide!Rows(table)
  BY <1>9, <1>10, IdePageFacts DEF IdeOpenOnce
<1>16. ~ rough => IdeClean' /\ \A i \in N : IdeFits(i)'
  <2> SUFFICES ASSUME ~ rough PROVE IdeClean' /\ \A i \in N : IdeFits(i)'
    OBVIOUS
  <2>1. IdeFits(j) /\ \A k \in DOMAIN page.open : IdeOnDisk(table, page.open[k])
        \/ IdeRereads(j, page.open[k])
    BY <1>2, IdeWaitFacts
  <2>2. {Ide!Id(page'.open[k]) : k \in DOMAIN page'.open} = {Ide!Id(page.open[k]) : k \in DOMAIN page.open}
    BY <1>9
  <2>3. \A i \in N : IdeFits(i)'
    BY <1>2, <1>14, <2>1, <2>2 DEF IdeFits
  <2>4. ASSUME NEW k \in DOMAIN page.open PROVE IdeOnDisk(table', page'.open[k])
    <3>1. CASE Ide!Id(page.open[k]) # id
      BY <1>1, <1>3, <1>12, <2>1, <3>1 DEF IdeRereads, id
    <3>2. CASE Ide!Id(page.open[k]) = id
      <4>1. page'.open[k].text = t /\ page'.open[k].repo = r /\ page'.open[k].file = f
        BY <1>10, <1>11, <3>2 DEF Ide!Id, id
      <4> QED
        BY <1>1, <1>4, <4>1 DEF IdeOnDisk
    <3> QED
      BY <3>1, <3>2
  <2> QED
    BY <1>9, <2>3, <2>4 DEF IdeClean
<1>17. \A i \in N : IdeBusy(i) => IdeBusy(j)
  BY <1>2
<1> HIDE DEF h
<1> QED
  BY <1>1, <1>2, <1>7, <1>8, <1>13, <1>14, <1>15, <1>16, <1>17, IdePageFacts, IdeCallKeeps

------------------------------------------------------------------------------
(* What becomes of the workspaces *)

\* A step of a call that changes the workspaces, the queries or what is selected.
LEMMA IdeWorkspaceKeeps ==
    ASSUME IdeIInv, NEW j \in jobs, IdeBusy(j), j.op \in {"folder", "create"},
           NEW N \in SUBSET IdeJobRec,
           jobs' = (jobs \ {j}) \cup N, \A i, k \in N : i = k,
           \A i \in N : i.n = j.n /\ i.op = j.op /\ i.msg = j.msg /\ i.repo \in Ide!Rows(table')
           /\ i.at # "out",
           table' \in IdeTableRec, Ide!Rows(table) \subseteq Ide!Rows(table'),
           \A p \in Products : \A k \in DOMAIN table'.homes[p] : table'.homes[p][k] \in Ide!Rows(table'),
           table'.homes[First] # <<>>, table'.item \in {Ide!None} \cup Ide!Rows(table'),
           seen' = seen, due' \subseteq Ide!Keys, rough' = rough, acts' = acts,
           page' \in IdePageRec, page'.product = page.product, page'.asked = page.asked,
           page'.proposal = page.proposal, page'.open = page.open,
           page'.repo \in {Ide!None} \cup Ide!Rows(table'), IdeCurrent', IdeSettled',
           ~ rough => IdeOneRowEach' /\ IdeListRead'
           /\ \A k \in DOMAIN page.open : IdeOnDisk(table', page.open[k])
    PROVE  IdeIInv'
<1>1. IdeTyped'
  BY DEF IdeIInv, IdeTyped
<1>2. IdeRowsThere'
  <2>1. \A i \in jobs' : i.repo \in {Ide!None} \cup Ide!Rows(table') /\ i.n # 0
    BY IdeCallFacts DEF IdeKnown
  <2>2. \A k \in DOMAIN page'.open : page'.open[k].repo \in Ide!Rows(table')
    BY IdePageFacts
  <2>3. /\ seen[<<"list">>] \subseteq Ide!Rows(table')
        /\ seen[<<"item">>] \in {Ide!None} \cup Ide!Rows(table')
        /\ \A p \in Products : seen[<<"home", p>>] \in {Ide!None} \cup Ide!Rows(table')
    BY DEF IdeIInv, IdeRowsThere, IdeKnown
  <2> QED
    BY <2>1, <2>2, <2>3 DEF IdeRowsThere, IdeKnown
<1>3. IdeOpenOnce'
  BY DEF IdeIInv, IdeOpenOnce
<1>4. IdeAsked'
  <2>1. \A i \in jobs' : i.msg < acts' /\ (i.op = "send" /\ i.msg \in page'.asked
        => i.product = page'.product)
    BY IdeCallFacts
  <2> QED
    BY <2>1 DEF IdeIInv, IdeAsked, Ide!OwnProposal
<1>5. IdeWaited'
  <2> SUFFICES ASSUME ~ rough
               PROVE  IdeAlone' /\ IdeOneRowEach' /\ IdeListRead' /\ (\A i \in jobs' : IdeFits(i)')
                      /\ IdeClean'
    BY DEF IdeWaited
  <2>1. \A i \in jobs : i = j \/ (i.op = "send" /\ ~ IdeBusy(i))
    BY IdeWaitFacts
  <2>2. IdeAlone'
    BY <2>1 DEF IdeAlone, IdeBusy
  <2>3. \A i \in jobs' : IdeFits(i)'
    BY <2>1 DEF IdeFits
  <2>4. IdeClean'
    BY DEF IdeClean
  <2> QED
    BY <2>2, <2>3, <2>4
<1> QED
  BY <1>1, <1>2, <1>3, <1>4, <1>5 DEF IdeIInv

\* The tables before the step.
LEMMA IdeTableFacts ==
    ASSUME IdeIInv
    PROVE  /\ table \in IdeTableRec /\ table.homes[First] # <<>>
                /\ table.item \in {Ide!None} \cup Ide!Rows(table)
           /\ \A p \in Products : table.homes[p] \in Seq(Nat)
           /\ \A p \in Products : \A k \in DOMAIN table.homes[p] : table.homes[p][k] \in Ide!Rows(table)
           /\ \A p \in Products : Ide!Home(table, p) \in {Ide!None} \cup Ide!Rows(table)
           /\ Len(table.folder) \in Nat /\ \A r \in Ide!Rows(table) : table.folder[r] \in Ide!Folders
           /\ First \in Products /\ due \subseteq Ide!Keys
<1>1. table \in IdeTableRec /\ due \subseteq Ide!Keys
  BY DEF IdeIInv, IdeTyped
<1>2. /\ table.homes[First] # <<>> /\ table.item \in {Ide!None} \cup Ide!Rows(table)
      /\ \A p \in Products : \A k \in DOMAIN table.homes[p] : table.homes[p][k] \in Ide!Rows(table)
  BY DEF IdeIInv, IdeRowsThere, IdeKnown
<1>3. \A p \in Products : table.homes[p] \in Seq(Nat)
  BY <1>1 DEF IdeTableRec
<1>4. \A p \in Products : Ide!Home(table, p) \in {Ide!None} \cup Ide!Rows(table)
  <2> SUFFICES ASSUME NEW p \in Products, table.homes[p] # <<>>
               PROVE  Head(table.homes[p]) \in Ide!Rows(table)
    BY DEF Ide!Home
  <2>1. 1 \in DOMAIN table.homes[p] /\ Head(table.homes[p]) = table.homes[p][1]
    BY <1>3
  <2> QED
    BY <1>2, <2>1
<1>5. Len(table.folder) \in Nat /\ \A r \in Ide!Rows(table) : table.folder[r] \in Ide!Folders
  BY <1>1 DEF IdeTableRec, Ide!Rows
<1> QED
  BY <1>1, <1>2, <1>3, <1>4, <1>5, IdeConstants

\* The page as it is, on the rows there are afterwards.
LEMMA IdeSamePageFacts ==
    ASSUME IdeIInv, page' = page, Ide!Rows(table) \subseteq Ide!Rows(table')
    PROVE  /\ page' \in IdePageRec /\ page'.repo \in {Ide!None} \cup Ide!Rows(table')
  BY IdePageFacts DEF IdeKnown

\* A folder becomes a row.
LEMMA IdeRegisteredKeeps == ASSUME IdeIInv, NEW j \in jobs, Ide!Registered(j) PROVE IdeIInv'
<1> DEFINE n == Len(table.folder) + 1
           s == Append(table.folder, j.folder)
           i == [j EXCEPT !.repo = n, !.at = "attach"]
<1>1. /\ j.op = "folder" /\ j.at = "out" /\ j.repo = Ide!None /\ table' = [table EXCEPT !.folder = s]
      /\ seen' = seen /\ due' = due /\ page' = page /\ rough' = rough /\ acts' = acts
  BY IdeTableFacts DEF Ide!Registered, IdeTableRec
<1>2. j \in IdeCallRec /\ j.folder \in Ide!Folders /\ j.todo = <<>> /\ IdeBusy(j)
  BY <1>1, IdeCallFacts DEF IdeJobRec, IdeBusy
<1>3. /\ s \in Seq(Ide!Folders) /\ Len(s) = n /\ s[n] = j.folder /\ n \in Nat /\ n # Ide!None
      /\ \A r \in 1 .. Len(table.folder) : s[r] = table.folder[r]
  BY <1>2, IdeTableFacts DEF IdeTableRec, Ide!None
<1>4. jobs' = (jobs \ {j}) \cup {i}
  <2>1. table'.folder = s
    BY <1>1, IdeTableFacts DEF IdeTableRec
  <2> QED
    BY <1>3, <2>1 DEF Ide!Registered, Ide!Goes
<1> HIDE DEF s
<1>5. /\ table' \in IdeTableRec /\ table'.folder = s /\ table'.homes = table.homes
      /\ table'.item = table.item
      /\ table'.disk = table.disk
  BY <1>1, <1>3, IdeTableFacts DEF IdeTableRec
<1>6. Ide!Rows(table') = Ide!Rows(table) \cup {n} /\ n \notin Ide!Rows(table)
  BY <1>3, <1>5, IdeTableFacts DEF Ide!Rows
<1> HIDE DEF n
<1>7. i \in IdeCallRec
  BY <1>2, <1>3 DEF IdeCallRec
<1>8. /\ i.n = j.n /\ i.op = j.op /\ i.msg = j.msg /\ i.at = "attach" /\ i.todo = j.todo /\ i.repo = n
      /\ i.folder = j.folder
  BY <1>2 DEF IdeCallRec
<1>9. i \in IdeJobRec
  BY <1>1, <1>2, <1>3, <1>7, <1>8 DEF IdeJobRec
<1> HIDE DEF i
<1>10. PICK N \in SUBSET IdeJobRec : N = {i}
  BY <1>9
<1>11. jobs' = (jobs \ {j}) \cup N /\ i \in N /\ \A k \in N : k = i
  BY <1>4, <1>10
<1>12. IdeCurrent'
  <2>1. \A k \in jobs : k.todo # <<>> => \E l \in jobs' : l.todo = k.todo
    BY <1>2, <1>11
  <2>2. \A k \in jobs' : k.op = "folder" /\ k.at = "out" =>
           \E l \in jobs : l.op = "folder" /\ l.at = "out" /\ l.repo = k.repo
    BY <1>8, <1>11
  <2> QED
    BY <1>1, <1>5, <2>1, <2>2, IdeCurrentFrame DEF IdeIInv
<1>13. IdeSettled'
  BY <1>1, IdeSettledFrame DEF IdeIInv
<1>14. ~ rough => IdeOneRowEach' /\ IdeListRead'
       /\ \A k \in DOMAIN page.open : IdeOnDisk(table', page.open[k])
  <2> SUFFICES ASSUME ~ rough
               PROVE  IdeOneRowEach' /\ IdeListRead'
                      /\ \A k \in DOMAIN page.open : IdeOnDisk(table', page.open[k])
    OBVIOUS
  <2>1. IdeOneRowEach /\ IdeFits(j) /\ \A k \in DOMAIN page.open : IdeOnDisk(table, page.open[k])
    BY <1>1, <1>2, IdeWaitFacts DEF IdeRereads
  <2>2. \A r \in Ide!Rows(table) : s[r] = table.folder[r] /\ table.folder[r] # j.folder
    BY <1>1, <1>3, <2>1 DEF IdeFits, Ide!Rows
  <2>3. IdeOneRowEach'
    BY <1>3, <1>5, <1>6, <2>1, <2>2 DEF IdeOneRowEach
  <2>4. IdeListRead'
    BY <1>8, <1>11 DEF IdeListRead
  <2>5. \A k \in DOMAIN page.open : IdeOnDisk(table', page.open[k])
    BY <1>5, <2>1, <2>2, IdePageFacts DEF IdeOnDisk
  <2> QED
    BY <2>3, <2>4, <2>5
<1>15. /\ \A p \in Products : \A k \in DOMAIN table'.homes[p] : table'.homes[p][k] \in Ide!Rows(table')
       /\ table'.homes[First] # <<>> /\ table'.item \in {Ide!None} \cup Ide!Rows(table')
       /\ due' \subseteq Ide!Keys
  BY <1>1, <1>5, <1>6, IdeTableFacts
<1>16. page' \in IdePageRec /\ page'.repo \in {Ide!None} \cup Ide!Rows(table')
  BY <1>1, <1>6, IdeSamePageFacts
<1>17. /\ j.op \in {"folder", "create"} /\ \A k, l \in N : k = l
       /\ Ide!Rows(table) \subseteq Ide!Rows(table')
       /\ seen' = seen /\ rough' = rough /\ acts' = acts
       /\ page'.product = page.product /\ page'.asked = page.asked
       /\ page'.proposal = page.proposal /\ page'.open = page.open
  BY <1>1, <1>6, <1>11
<1>18. \A k \in N : k.n = j.n /\ k.op = j.op /\ k.msg = j.msg /\ k.repo \in Ide!Rows(table')
                   /\ k.at # "out"
  BY <1>6, <1>8, <1>11
<1> QED
  BY <1>2, <1>5, <1>11, <1>12, <1>13, <1>14, <1>15, <1>16, <1>17, <1>18, IdeWorkspaceKeeps

\* The kinds of queries that are invalidated one after the other.
IdeKinds == {<<"home">>, <<"item">>, <<"home", "item">>, <<"list", "home">>, <<"list", "home", "item">>}

\* Of the kinds, one is first and the others follow.
LEMMA IdeKindsFacts ==
    ASSUME NEW s \in IdeKinds
    PROVE  /\ Tail(s) \in IdeLists
           /\ \A k \in DOMAIN s : s[k] = Head(s) \/ \E l \in DOMAIN Tail(s) : Tail(s)[l] = s[k]
<1> DEFINE t == Tail(s)
<1>1. CASE s = <<"home">> \/ s = <<"item">>
  <2>1. PICK a : s = <<a>>
    BY <1>1
  <2>2. t = <<>> /\ \A k \in DOMAIN s : s[k] = Head(s)
    BY <2>1
  <2> QED
    BY <2>2 DEF IdeLists
<1>2. CASE s = <<"home", "item">> \/ s = <<"list", "home">>
  <2>1. PICK a, b : s = <<a, b>> /\ b \in {"home", "item"}
    BY <1>2
  <2>2. Head(s) = a /\ t = <<b>> /\ \A k \in DOMAIN s : s[k] = a \/ s[k] = b
    BY <2>1
  <2> HIDE DEF t
  <2>3. 1 \in DOMAIN t /\ t[1] = b /\ t \in IdeLists
    BY <2>1, <2>2 DEF IdeLists
  <2> QED
    BY <2>2, <2>3 DEF t
<1>3. CASE s = <<"list", "home", "item">>
  <2>1. /\ Head(s) = "list" /\ t = <<"home", "item">>
        /\ \A k \in DOMAIN s : s[k] = "list" \/ s[k] = "home" \/ s[k] = "item"
    BY <1>3
  <2> HIDE DEF t
  <2>2. 1 \in DOMAIN t /\ t[1] = "home" /\ 2 \in DOMAIN t /\ t[2] = "item" /\ t \in IdeLists
    BY <2>1 DEF IdeLists
  <2> QED
    BY <2>1, <2>2 DEF t
<1> QED
  BY <1>1, <1>2, <1>3 DEF IdeKinds

\* Of the kinds, the first is due and the others are ahead.
LEMMA IdeInvalidatesFacts ==
    ASSUME IdeIInv, NEW j, NEW c \in IdeCallRec, NEW s \in IdeKinds, Ide!Invalidates(j, c, s),
           c.op \in {"folder", "create"}, c.repo # Ide!None, c.op = "folder" => c.folder \in Ide!Folders
    PROVE  /\ due' = due \cup Ide!KeysOf(Head(s)) /\ due' \subseteq Ide!Keys
           /\ \E i \in IdeJobRec :
                 /\ jobs' = (jobs \ {j}) \cup {i} /\ i.n = c.n /\ i.op = c.op /\ i.msg = c.msg
                 /\ i.repo = c.repo /\ i.at = "fetch"
                 /\ \A q \in Ide!Keys : (\E k \in DOMAIN s : s[k] = q[1]) => q \in due'
                    \/ IdeAhead(i, q[1])
<1> DEFINE t == Tail(s)
           w == Ide!KeysOf(Head(s)) \cap Ide!Mounted(page)
           i == [c EXCEPT !.at = "fetch", !.todo = t, !.waits = w]
<1>1. due' = due \cup Ide!KeysOf(Head(s)) /\ jobs' = (jobs \ {j}) \cup {i}
  BY DEF Ide!Invalidates, Ide!Goes
<1>2. t \in IdeLists /\ w \in SUBSET Ide!Keys
  BY IdeKindsFacts DEF Ide!KeysOf
<1> HIDE DEF w
<1>3. due' \subseteq Ide!Keys
  BY <1>1, IdeTableFacts DEF Ide!KeysOf
<1>4. \A k \in DOMAIN s : s[k] = Head(s) \/ \E l \in DOMAIN t : t[l] = s[k]
  BY IdeKindsFacts
<1> HIDE DEF t
<1>5. i \in IdeCallRec
  BY <1>2 DEF IdeCallRec
<1>6. /\ i.n = c.n /\ i.op = c.op /\ i.msg = c.msg /\ i.at = "fetch" /\ i.todo = t /\ i.repo = c.repo
      /\ i.folder = c.folder
  BY DEF IdeCallRec
<1>7. i \in IdeJobRec
  BY <1>5, <1>6 DEF IdeJobRec
<1> HIDE DEF i
<1>8. \A q \in Ide!Keys : (\E k \in DOMAIN s : s[k] = q[1]) => q \in due' \/ IdeAhead(i, q[1])
  BY <1>1, <1>4, <1>6 DEF Ide!KeysOf, IdeAhead
<1> QED
  BY <1>1, <1>3, <1>6, <1>7, <1>8

\* The queries there are.
LEMMA IdeKeyFacts ==
    /\ <<"list">> \in Ide!Keys /\ <<"list">>[1] = "list" /\ <<"item">> \in Ide!Keys
    /\ <<"item">>[1] = "item"
    /\ \A p \in Products : <<"home", p>> \in Ide!Keys /\ <<"home", p>>[1] = "home"
       /\ <<"home", p>>[2] = p
    /\ \A q \in Ide!Keys : q = <<"list">> \/ q = <<"item">> \/ \E p \in Products : q = <<"home", p>>
    /\ <<"list">> \in Ide!KeysOf("list")
  BY DEF Ide!Keys, Ide!KeysOf

\* The next kind of queries is invalidated.
LEMMA IdeInvalidatesNextKeeps ==
    ASSUME IdeIInv, NEW j \in jobs, Ide!InvalidatesNext(j)
    PROVE  IdeIInv'
<1>1. /\ j.at = "fetch" /\ j.todo # <<>> /\ Ide!Invalidates(j, j, j.todo)
      /\ table' = table /\ seen' = seen /\ page' = page /\ rough' = rough /\ acts' = acts
  BY DEF Ide!InvalidatesNext
<1>2. /\ j \in IdeCallRec /\ j.op \in {"folder", "create"} /\ j.repo \in Ide!Rows(table)
      /\ j.repo # Ide!None
      /\ (j.op = "folder" => j.folder \in Ide!Folders) /\ IdeBusy(j)
  BY <1>1, IdeCallFacts DEF IdeJobRec, IdeCallRec, IdeBusy
<1>3. j.todo \in IdeKinds
  BY <1>1, <1>2 DEF IdeCallRec, IdeLists, IdeKinds
<1>4. /\ due' = due \cup Ide!KeysOf(Head(j.todo)) /\ due' \subseteq Ide!Keys
  BY <1>1, <1>2, <1>3, IdeInvalidatesFacts
<1>5. PICK i \in IdeJobRec :
         /\ jobs' = (jobs \ {j}) \cup {i} /\ i.n = j.n /\ i.op = j.op /\ i.msg = j.msg
         /\ i.repo = j.repo /\ i.at = "fetch"
         /\ \A q \in Ide!Keys : (\E k \in DOMAIN j.todo : j.todo[k] = q[1]) => q \in due'
            \/ IdeAhead(i, q[1])
  <2>1. /\ Ide!Invalidates(j, j, j.todo) /\ j \in IdeCallRec /\ j.op \in {"folder", "create"}
        /\ j.repo # Ide!None /\ (j.op = "folder" => j.folder \in Ide!Folders)
    BY <1>1, <1>2
  <2> QED
    BY <1>3, <2>1, IdeInvalidatesFacts
<1>6. PICK N \in SUBSET IdeJobRec : N = {i}
  OBVIOUS
<1>7. jobs' = (jobs \ {j}) \cup N /\ i \in N /\ \A k \in N : k = i
  BY <1>5, <1>6
<1>8. IdeCurrent'
  <2>1. ASSUME NEW q \in Ide!Keys \ {<<"list">>}
        PROVE  q \in due' \/ seen'[q] = Ide!Content(table', q) \/ \E k \in jobs' : IdeAhead(k, q[1])
    <3>1. CASE q \in due
      BY <1>4, <3>1
    <3>2. CASE seen[q] = Ide!Content(table, q)
      BY <1>1, <3>2
    <3>3. CASE \E k \in jobs : IdeAhead(k, q[1])
      BY <1>5, <3>3 DEF IdeAhead
    <3> QED
      BY <3>1, <3>2, <3>3 DEF IdeIInv, IdeCurrent
  <2>2. IdeInList(table.item)' /\ \A p \in Products : IdeInList(Ide!Home(table, p))'
    BY <1>1, <1>4 DEF IdeIInv, IdeCurrent, IdeInList
  <2>3. \A k \in jobs' : k.op = "folder" /\ k.at = "out" => IdeInList(k.repo)'
    BY <1>1, <1>4, <1>5 DEF IdeIInv, IdeCurrent, IdeInList
  <2> QED
    BY <2>1, <2>2, <2>3 DEF IdeCurrent, IdeAhead
<1>9. IdeSettled'
  BY <1>1, IdeSettledFrame DEF IdeIInv
<1>10. ~ rough => IdeOneRowEach' /\ IdeListRead'
       /\ \A k \in DOMAIN page.open : IdeOnDisk(table', page.open[k])
  <2> SUFFICES ASSUME ~ rough
               PROVE  IdeOneRowEach' /\ IdeListRead'
                      /\ \A k \in DOMAIN page.open : IdeOnDisk(table', page.open[k])
    OBVIOUS
  <2>1. /\ IdeOneRowEach /\ \A k \in DOMAIN page.open : IdeOnDisk(table, page.open[k])
        /\ <<"list">> \in due \/ seen[<<"list">>] = Ide!Rows(table)
    BY <1>1, <1>2, IdeWaitFacts DEF IdeRereads
  <2> QED
    BY <1>1, <1>4, <2>1 DEF IdeOneRowEach, IdeListRead
<1>11. page' \in IdePageRec /\ page'.repo \in {Ide!None} \cup Ide!Rows(table')
  BY <1>1, IdeSamePageFacts
<1>12. /\ j.op \in {"folder", "create"} /\ \A k, l \in N : k = l
       /\ Ide!Rows(table) \subseteq Ide!Rows(table') /\ table' \in IdeTableRec
       /\ \A p \in Products : \A k \in DOMAIN table'.homes[p] : table'.homes[p][k] \in Ide!Rows(table')
       /\ table'.homes[First] # <<>> /\ table'.item \in {Ide!None} \cup Ide!Rows(table')
  BY <1>1, <1>2, <1>7, IdeTableFacts
<1>13. /\ seen' = seen /\ rough' = rough /\ acts' = acts /\ due' \subseteq Ide!Keys
       /\ page'.product = page.product /\ page'.asked = page.asked
       /\ page'.proposal = page.proposal /\ page'.open = page.open
  BY <1>1, <1>4
<1>14. \A k \in N : k.n = j.n /\ k.op = j.op /\ k.msg = j.msg /\ k.repo \in Ide!Rows(table')
                   /\ k.at # "out"
  BY <1>1, <1>2, <1>5, <1>7
<1> QED
  BY <1>2, <1>7, <1>8, <1>9, <1>10, <1>11, <1>12, <1>13, <1>14, IdeWorkspaceKeeps

\* The workspace is selected; what is preferred has the last word.
LEMMA IdeSelectKeeps == ASSUME IdeIInv, NEW j \in jobs, Ide!Select(j) PROVE IdeIInv'
<1> DEFINE pg == [page EXCEPT !.repo = j.repo]
           X == Ide!Rendered(pg, seen)
<1>1. /\ j.at = "fetch" /\ j.todo = <<>> /\ jobs' = jobs \ {j} /\ page' = IF j.live THEN X ELSE page
      /\ table' = table /\ seen' = seen /\ due' = due /\ rough' = rough /\ acts' = acts
  BY DEF Ide!Select, Ide!Gone
<1>2. j.op \in {"folder", "create"} /\ j.repo \in Ide!Rows(table) /\ IdeBusy(j) /\ j.repo \in Nat
  BY <1>1, IdeCallFacts DEF IdeJobRec, IdeCallRec, IdeBusy
<1>3. /\ pg \in IdePageRec /\ pg.repo = j.repo /\ pg.product = page.product /\ pg.asked = page.asked
      /\ pg.proposal = page.proposal /\ pg.open = page.open /\ pg.item = page.item
  BY <1>2, IdePageFacts DEF IdePageRec
<1> HIDE DEF pg
<1>4. IdeKnown(Ide!Preferred(pg, seen)) /\ Ide!Preferred(pg, seen) \in Nat
  BY <1>3, IdePreferredKnown DEF IdeIInv
<1>5. /\ X = [pg EXCEPT !.repo = X.repo] /\ X \in IdePageRec
      /\ X.repo \in {pg.repo, Ide!Preferred(pg, seen)}
      /\ Ide!Preferred(pg, seen) \in {Ide!None} \cup seen[<<"list">>]
         => X.repo = Ide!Preferred(pg, seen)
      /\ Ide!Preferred(X, seen) = Ide!Preferred(pg, seen)
  BY <1>3, <1>4, IdeRenderedFacts
<1> HIDE DEF X
<1>6. /\ X.product = page.product /\ X.asked = page.asked /\ X.proposal = page.proposal
      /\ X.open = page.open
  BY <1>3, <1>5 DEF IdePageRec
<1>7. /\ page' \in IdePageRec /\ page'.product = page.product /\ page'.asked = page.asked
      /\ page'.proposal = page.proposal /\ page'.open = page.open
      /\ page'.repo \in {Ide!None} \cup Ide!Rows(table')
  BY <1>1, <1>2, <1>3, <1>4, <1>5, <1>6, IdePageFacts DEF IdeKnown
<1>8. IdeSettled'
  BY <1>1, <1>5, IdePageFacts DEF IdeSettled
<1>9. IdeCurrent'
  <2>1. \A k \in jobs : k.todo # <<>> => \E l \in jobs' : l.todo = k.todo
    BY <1>1
  <2>2. \A k \in jobs' : k.op = "folder" /\ k.at = "out" =>
           \E l \in jobs : l.op = "folder" /\ l.at = "out" /\ l.repo = k.repo
    BY <1>1
  <2> QED
    BY <1>1, <2>1, <2>2, IdeCurrentFrame DEF IdeIInv
<1>10. ~ rough => IdeOneRowEach' /\ IdeListRead'
       /\ \A k \in DOMAIN page.open : IdeOnDisk(table', page.open[k])
  <2> SUFFICES ASSUME ~ rough
               PROVE  IdeOneRowEach' /\ IdeListRead'
                      /\ \A k \in DOMAIN page.open : IdeOnDisk(table', page.open[k])
    OBVIOUS
  <2>1. /\ IdeOneRowEach /\ \A k \in DOMAIN page.open : IdeOnDisk(table, page.open[k])
        /\ <<"list">> \in due \/ seen[<<"list">>] = Ide!Rows(table)
    BY <1>1, <1>2, IdeWaitFacts DEF IdeRereads
  <2> QED
    BY <1>1, <2>1 DEF IdeOneRowEach, IdeListRead
<1>11. PICK N \in SUBSET IdeJobRec : N = {}
  OBVIOUS
<1>12. jobs' = (jobs \ {j}) \cup N /\ \A i : i \notin N
  BY <1>1, <1>11
<1>13. /\ \A k, l \in N : k = l
       /\ Ide!Rows(table) \subseteq Ide!Rows(table') /\ table' \in IdeTableRec
       /\ \A p \in Products : \A k \in DOMAIN table'.homes[p] : table'.homes[p][k] \in Ide!Rows(table')
       /\ table'.homes[First] # <<>> /\ table'.item \in {Ide!None} \cup Ide!Rows(table')
       /\ due' \subseteq Ide!Keys
  BY <1>1, <1>12, IdeTableFacts
<1>14. \A k \in N : k.n = j.n /\ k.op = j.op /\ k.msg = j.msg /\ k.repo \in Ide!Rows(table')
                   /\ k.at # "out"
  BY <1>12
<1> QED
  BY <1>1, <1>2, <1>7, <1>8, <1>9, <1>10, <1>12, <1>13, <1>14, IdeWorkspaceKeeps

\* What becomes due and what comes ahead covers the queries that may change.
LEMMA IdeCurrentAfter ==
    ASSUME IdeIInv, NEW j \in jobs, j.todo = <<>>,
           NEW i \in jobs', jobs' = (jobs \ {j}) \cup {i}, i.at = "fetch",
           due \subseteq due', seen' = seen,
           \A q \in Ide!Keys \ {<<"list">>} : Ide!Content(table', q) = Ide!Content(table, q)
           \/ q \in due' \/ IdeAhead(i, q[1]),
           <<"list">> \in due' \/ (/\ table'.item = table.item
                                   /\ \A p \in Products : Ide!Home(table', p) = Ide!Home(table, p)
                                      \/ IdeInList(Ide!Home(table', p)))
    PROVE  IdeCurrent'
<1>1. ASSUME NEW q \in Ide!Keys \ {<<"list">>}
      PROVE  q \in due' \/ seen'[q] = Ide!Content(table', q) \/ \E k \in jobs' : IdeAhead(k, q[1])
  <2>1. CASE q \in due
    BY <2>1
  <2>2. CASE seen[q] = Ide!Content(table, q)
    BY <2>2
  <2>3. CASE \E k \in jobs : IdeAhead(k, q[1])
    BY <2>3 DEF IdeAhead
  <2> QED
    BY <2>1, <2>2, <2>3 DEF IdeIInv, IdeCurrent
<1>2. IdeInList(table.item)' /\ \A p \in Products : IdeInList(Ide!Home(table, p))'
  <2>1. /\ table'.item \in {Ide!None} \cup seen'[<<"list">>] \/ <<"list">> \in due'
        /\ \A p \in Products : Ide!Home(table', p) \in {Ide!None} \cup seen'[<<"list">>]
           \/ <<"list">> \in due'
    BY DEF IdeIInv, IdeCurrent, IdeInList
  <2> QED
    BY <2>1 DEF IdeInList
<1>3. \A k \in jobs' : k.op = "folder" /\ k.at = "out" => IdeInList(k.repo)'
  BY DEF IdeIInv, IdeCurrent, IdeInList
<1> QED
  BY <1>1, <1>2, <1>3 DEF IdeCurrent, IdeAhead

\* What is attached last is the home of a product that had none.
LEMMA IdeAppendFacts ==
    ASSUME NEW S, NEW g \in Seq(S), NEW r \in S
    PROVE  /\ Append(g, r) # <<>> /\ (g # <<>> => Head(Append(g, r)) = Head(g))
           /\ g = <<>> => Head(Append(g, r)) = r
           /\ \A k \in DOMAIN Append(g, r) : Append(g, r)[k] = r \/ (k \in DOMAIN g
              /\ Append(g, r)[k] = g[k])
  OBVIOUS

\* A workspace is attached; another one stays the home of the product.
LEMMA IdeAttachedKeeps == ASSUME IdeIInv, NEW j \in jobs, Ide!Attached(j) PROVE IdeIInv'
<1> DEFINE h == table.homes[j.product]
           e == [table.homes EXCEPT ![j.product] = Append(h, j.repo)]
<1>1. /\ j.op = "folder" /\ (j.at = "attach" \/ (j.at = "out" /\ j.repo # Ide!None))
      /\ seen' = seen /\ page' = page /\ rough' = rough /\ acts' = acts
  BY DEF Ide!Attached
<1>2. /\ j \in IdeCallRec /\ j.folder \in Ide!Folders /\ j.product \in Products
      /\ j.repo \in Ide!Rows(table)
      /\ j.repo # Ide!None /\ j.repo \in Nat /\ j.todo = <<>> /\ IdeBusy(j) /\ j.at # "read"
  BY <1>1, IdeCallFacts DEF IdeJobRec, IdeCallRec, IdeBusy, IdeKnown
<1>3. PICK s \in IdeKinds : Ide!Invalidates(j, j, s)
      /\ s = IF j.at = "attach" THEN <<"list", "home">> ELSE <<"home">>
  BY DEF Ide!Attached, IdeKinds
<1>4. table' = [table EXCEPT !.homes = e]
  BY IdeTableFacts DEF Ide!Attached, IdeTableRec
<1>5. e \in [Products -> Seq(Nat)]
  BY <1>2, IdeTableFacts DEF IdeTableRec
<1>6. \A p \in Products :
         /\ \A k \in DOMAIN e[p] : e[p][k] \in Ide!Rows(table)
         /\ table.homes[p] # <<>> => e[p] # <<>> /\ Head(e[p]) = Head(table.homes[p])
         /\ table.homes[p] = <<>> => e[p] = <<>> \/ (e[p] # <<>> /\ Head(e[p]) = j.repo)
  <2>1. \A p \in Products \ {j.product} : e[p] = table.homes[p]
    BY IdeTableFacts DEF IdeTableRec
  <2>2. e[j.product] = Append(h, j.repo) /\ h \in Seq(Nat)
    BY <1>2, IdeTableFacts DEF IdeTableRec
  <2>3. \A k \in DOMAIN h : h[k] \in Ide!Rows(table)
    BY <1>2, IdeTableFacts
  <2> HIDE DEF e
  <2>4. PICK g \in Seq(Nat), r \in Nat : g = h /\ r = j.repo
    BY <1>2, <2>2
  <2>5. /\ Append(g, r) # <<>> /\ (g # <<>> => Head(Append(g, r)) = Head(g))
        /\ g = <<>> => Head(Append(g, r)) = r
    BY IdeAppendFacts
  <2>6. \A k \in DOMAIN Append(g, r) : Append(g, r)[k] \in Ide!Rows(table)
    BY <1>2, <2>3, <2>4, IdeAppendFacts
  <2>7. e[j.product] = Append(g, r) /\ table.homes[j.product] = g /\ r = j.repo
    BY <2>2, <2>4
  <2> HIDE DEF h
  <2>8. /\ \A k \in DOMAIN e[j.product] : e[j.product][k] \in Ide!Rows(table)
        /\ table.homes[j.product] # <<>> =>
              e[j.product] # <<>> /\ Head(e[j.product]) = Head(table.homes[j.product])
        /\ table.homes[j.product] = <<>> => e[j.product] # <<>> /\ Head(e[j.product]) = j.repo
    BY <2>5, <2>6, <2>7
  <2> QED
    BY <2>1, <2>8, IdeTableFacts
<1>7. /\ table' \in IdeTableRec /\ table'.homes = e /\ table'.folder = table.folder
      /\ table'.item = table.item
      /\ table'.disk = table.disk
  BY <1>4, <1>5, IdeTableFacts DEF IdeTableRec
<1>8. due' = due \cup Ide!KeysOf(Head(s)) /\ due' \subseteq Ide!Keys
  BY <1>1, <1>2, <1>3, IdeInvalidatesFacts
<1>9. PICK i \in IdeJobRec :
         /\ jobs' = (jobs \ {j}) \cup {i} /\ i.n = j.n /\ i.op = j.op /\ i.msg = j.msg
         /\ i.repo = j.repo /\ i.at = "fetch"
         /\ \A q \in Ide!Keys : (\E k \in DOMAIN s : s[k] = q[1]) => q \in due' \/ IdeAhead(i, q[1])
  <2>1. /\ Ide!Invalidates(j, j, s) /\ j \in IdeCallRec /\ j.op \in {"folder", "create"}
        /\ j.repo # Ide!None
        /\ (j.op = "folder" => j.folder \in Ide!Folders)
    BY <1>1, <1>2, <1>3
  <2> QED
    BY <2>1, IdeInvalidatesFacts
<1>10. /\ \A p \in Products : <<"home", p>> \in due' \/ IdeAhead(i, <<"home", p>>[1])
       /\ j.at = "attach" => <<"list">> \in due'
  <2>1. \E k \in DOMAIN s : s[k] = "home"
    <3>1. CASE j.at = "attach"
      <4>1. 2 \in DOMAIN s /\ s[2] = "home"
        BY <1>3, <3>1
      <4> QED
        BY <4>1
    <3>2. CASE j.at # "attach"
      <4>1. 1 \in DOMAIN s /\ s[1] = "home"
        BY <1>3, <3>2
      <4> QED
        BY <4>1
    <3> QED
      BY <3>1, <3>2
  <2>2. j.at = "attach" => Head(s) = "list"
    BY <1>3
  <2>3. j.at = "attach" => <<"list">> \in due'
    BY <1>8, <2>2, IdeKeyFacts
  <2>4. \A p \in Products : <<"home", p>> \in due' \/ IdeAhead(i, <<"home", p>>[1])
    BY <1>9, <2>1, IdeKeyFacts
  <2> QED
    BY <2>3, <2>4
<1>11. PICK N \in SUBSET IdeJobRec : N = {i}
  OBVIOUS
<1>12. jobs' = (jobs \ {j}) \cup N /\ i \in N /\ \A k \in N : k = i
  BY <1>9, <1>11
<1>13. IdeCurrent'
  <2>1. \A p \in Products : Ide!Home(table', p) = Ide!Home(table, p) \/ (Ide!Home(table', p) = j.repo)
    <3> SUFFICES ASSUME NEW p \in Products
                 PROVE  Ide!Home(table', p) = Ide!Home(table, p) \/ Ide!Home(table', p) = j.repo
      OBVIOUS
    <3>1. CASE table.homes[p] # <<>>
      BY <1>6, <1>7, <3>1 DEF Ide!Home
    <3>2. CASE table.homes[p] = <<>> /\ e[p] = <<>>
      BY <1>7, <3>2 DEF Ide!Home
    <3>3. CASE table.homes[p] = <<>> /\ e[p] # <<>> /\ Head(e[p]) = j.repo
      BY <1>7, <3>3 DEF Ide!Home
    <3> QED
      BY <1>6, <3>1, <3>2, <3>3
  <2>2. Ide!Home(table', First) = Ide!Home(table, First)
    BY <1>6, <1>7, IdeTableFacts DEF Ide!Home
  <2>3. Ide!Content(table', <<"item">>) = Ide!Content(table, <<"item">>)
    BY <1>7, <2>2 DEF Ide!Content
  <2>4. \A q \in Ide!Keys \ {<<"list">>} : Ide!Content(table', q) = Ide!Content(table, q) \/ q \in due'
        \/ IdeAhead(i, q[1])
    BY <1>10, <2>3, IdeKeyFacts
  <2>5. <<"list">> \in due' \/ (/\ table'.item = table.item
                                /\ \A p \in Products : Ide!Home(table', p) = Ide!Home(table, p)
                                   \/ IdeInList(Ide!Home(table', p)))
    <3>1. CASE j.at = "attach"
      BY <1>10, <3>1
    <3>2. CASE j.at = "out"
      <4>1. IdeInList(j.repo)
        BY <1>1, <3>2 DEF IdeIInv, IdeCurrent
      <4> QED
        BY <1>7, <2>1, <4>1
    <3> QED
      BY <1>1, <3>1, <3>2
  <2> QED
    BY <1>1, <1>2, <1>8, <1>9, <1>12, <2>4, <2>5, IdeCurrentAfter
<1>14. IdeSettled'
  BY <1>1, IdeSettledFrame DEF IdeIInv
<1>15. Ide!Rows(table') = Ide!Rows(table)
  BY <1>7 DEF Ide!Rows
<1>16. ~ rough => IdeOneRowEach' /\ IdeListRead'
       /\ \A k \in DOMAIN page.open : IdeOnDisk(table', page.open[k])
  <2> SUFFICES ASSUME ~ rough
               PROVE  IdeOneRowEach' /\ IdeListRead'
                      /\ \A k \in DOMAIN page.open : IdeOnDisk(table', page.open[k])
    OBVIOUS
  <2>1. /\ IdeOneRowEach /\ \A k \in DOMAIN page.open : IdeOnDisk(table, page.open[k])
        /\ j.at # "attach" => <<"list">> \in due \/ seen[<<"list">>] = Ide!Rows(table)
    BY <1>1, <1>2, IdeWaitFacts DEF IdeRereads
  <2>2. IdeOneRowEach' /\ \A k \in DOMAIN page.open : IdeOnDisk(table', page.open[k])
    BY <1>7, <1>15, <2>1 DEF IdeOneRowEach, IdeOnDisk
  <2>3. IdeListRead'
    BY <1>1, <1>8, <1>10, <1>15, <2>1 DEF IdeListRead
  <2> QED
    BY <2>2, <2>3
<1>17. page' \in IdePageRec /\ page'.repo \in {Ide!None} \cup Ide!Rows(table')
  BY <1>1, <1>15, IdeSamePageFacts
<1>18. /\ \A p \in Products : \A k \in DOMAIN table'.homes[p] : table'.homes[p][k] \in Ide!Rows(table')
       /\ table'.homes[First] # <<>> /\ table'.item \in {Ide!None} \cup Ide!Rows(table')
  BY <1>6, <1>7, <1>15, IdeTableFacts
<1>19. \A k \in N : k.n = j.n /\ k.op = j.op /\ k.msg = j.msg /\ k.repo \in Ide!Rows(table')
       /\ k.at # "out"
  BY <1>2, <1>9, <1>12, <1>15
<1>20. IdeBusy(j) /\ j.op \in {"folder", "create"} /\ Ide!Rows(table) \subseteq Ide!Rows(table')
  BY <1>1, <1>2, <1>15
<1>21. /\ page'.product = page.product /\ page'.asked = page.asked /\ page'.proposal = page.proposal
       /\ page'.open = page.open
  BY <1>1
<1>22. /\ (\A k, l \in N : k = l) /\ jobs' = (jobs \ {j}) \cup N /\ due' \subseteq Ide!Keys
       /\ seen' = seen /\ rough' = rough /\ acts' = acts /\ table' \in IdeTableRec
  BY <1>1, <1>7, <1>8, <1>12
<1> HIDE DEF h, e
<1> QED
  BY <1>22, <1>13, <1>14, <1>16, <1>17, <1>18, <1>19, <1>20, <1>21, IdeWorkspaceKeeps

\* The folder is made ready: a row for it is found or added, and becomes the
\* only workspace of the product.
LEMMA IdeProvisionedKeeps == ASSUME IdeIInv, NEW j \in jobs, Ide!Provisioned(j) PROVE IdeIInv'
<1> DEFINE p == IF j.item THEN First ELSE j.product
           rows == {r \in Ide!Rows(table) : table.folder[r] = Own[p]}
           n == Len(table.folder) + 1
           r == IF rows = {} THEN n ELSE CHOOSE o \in rows : \A k \in rows : o <= k
           s == IF rows = {} THEN Append(table.folder, Own[p]) ELSE table.folder
           d == [table.disk EXCEPT ![Own[p]] = [f \in Files |-> IF f \in OnDisk THEN Ide!Template ELSE @[f]]]
           h == [table.homes EXCEPT ![p] = <<r>>]
           w == IF j.item THEN r ELSE table.item
           c == [j EXCEPT !.repo = r]
           ks == <<"list", "home", "item">>
<1>1. /\ j.op = "create" /\ j.at = "out" /\ Ide!Invalidates(j, c, ks)
      /\ seen' = seen /\ page' = page /\ rough' = rough /\ acts' = acts
  BY DEF Ide!Provisioned
<1>2. j \in IdeCallRec /\ j.todo = <<>> /\ IdeBusy(j) /\ j.at # "attach" /\ j.at # "read"
  BY <1>1, IdeCallFacts DEF IdeBusy
<1>3. p \in Products /\ Own[p] \in Ide!Folders
  BY <1>2, IdeTableFacts DEF IdeCallRec, Ide!Folders
<1>4. table' = [table EXCEPT !.folder = s, !.disk = d, !.homes = h, !.item = w]
  BY IdeTableFacts DEF Ide!Provisioned, IdeTableRec
<1> HIDE DEF p
<1>5. /\ n \in Nat /\ n \notin Ide!Rows(table) /\ (rows = {} => r = n) /\ (rows # {} => r \in rows)
      /\ r \in Nat /\ r # Ide!None
  <2>1. n \in Nat /\ n \notin Ide!Rows(table) /\ n # Ide!None
    BY IdeTableFacts DEF Ide!Rows, Ide!None
  <2>2. rows \subseteq Ide!Rows(table) /\ rows \subseteq Nat
    BY IdePageFacts
  <2>3. ASSUME rows # {} PROVE r \in rows
    <3>1. \E o \in rows : \A k \in rows : o <= k
      BY <2>2, <2>3, IdeLeastFacts
    <3> QED
      BY <2>3, <3>1
  <2>4. rows = {} => r = n
    OBVIOUS
  <2> HIDE DEF r, n
  <2> QED
    BY <2>1, <2>2, <2>3, <2>4, IdePageFacts
<1> HIDE DEF r
<1>6. /\ s \in Seq(Ide!Folders) /\ \A o \in Ide!Rows(table) : s[o] = table.folder[o]
      /\ rows = {} => Len(s) = n /\ s[n] = Own[p]
      /\ rows # {} => Len(s) = Len(table.folder)
  BY <1>3, IdeTableFacts DEF IdeTableRec, Ide!Rows
<1>7. /\ 1 .. Len(s) = Ide!Rows(table) \cup {r}
      /\ \A a \in rows : a \in Ide!Rows(table) /\ table.folder[a] = Own[p]
      /\ rows = {} => \A a \in Ide!Rows(table) : table.folder[a] # Own[p]
  <2>1. /\ \A a \in rows : a \in Ide!Rows(table) /\ table.folder[a] = Own[p]
        /\ rows = {} => \A a \in Ide!Rows(table) : table.folder[a] # Own[p]
    OBVIOUS
  <2> HIDE DEF s, rows
  <2>2. 1 .. Len(s) = Ide!Rows(table) \cup {r}
    <3>1. Ide!Rows(table) = 1 .. Len(table.folder) /\ Len(table.folder) \in Nat
      BY IdeTableFacts DEF IdeTableRec, Ide!Rows
    <3>2. CASE rows = {}
      <4>1. Len(s) = Len(table.folder) + 1 /\ r = Len(table.folder) + 1
        BY <1>5, <1>6, <3>2
      <4> HIDE DEF n
      <4> QED
        BY <3>1, <4>1
    <3>3. CASE rows # {}
      BY <1>5, <1>6, <2>1, <3>1, <3>3
    <3> QED
      BY <3>2, <3>3
  <2> QED
    BY <2>1, <2>2
<1> HIDE DEF s
<1>8. /\ d \in [Ide!Folders -> [Files -> Int]]
      /\ \A e \in Ide!Folders, f \in Files \ OnDisk : d[e][f] = table.disk[e][f]
  <2> DEFINE g == [f \in Files |-> IF f \in OnDisk THEN Ide!Template ELSE table.disk[Own[p]][f]]
  <2>1. table.disk \in [Ide!Folders -> [Files -> Int]]
    BY IdeTableFacts DEF IdeTableRec
  <2>2. g \in [Files -> Int] /\ \A f \in Files \ OnDisk : g[f] = table.disk[Own[p]][f]
    BY <1>3, <2>1 DEF Ide!Template
  <2>3. d = [table.disk EXCEPT ![Own[p]] = g]
    BY <1>3, <2>1
  <2> HIDE DEF g, d
  <2> QED
    BY <1>3, <2>1, <2>2, <2>3
<1> HIDE DEF d
<1>9. /\ h \in [Products -> Seq(Nat)] /\ h[First] # <<>>
      /\ \A q \in Products : \A k \in DOMAIN h[q] : h[q][k] \in Ide!Rows(table) \cup {r}
  <2>1. \A q \in Products : h[q] = IF q = p THEN <<r>> ELSE table.homes[q]
    BY IdeTableFacts DEF IdeTableRec
  <2>2. <<r>> \in Seq(Nat) /\ <<r>> # <<>> /\ \A k \in DOMAIN <<r>> : <<r>>[k] = r
    BY <1>5
  <2>3. h \in [Products -> Seq(Nat)]
    BY <2>2, IdeTableFacts DEF IdeTableRec
  <2> HIDE DEF h
  <2> QED
    BY <2>1, <2>2, <2>3, IdeTableFacts
<1> HIDE DEF h
<1>10. w \in {Ide!None} \cup Ide!Rows(table) \cup {r} /\ w \in Nat
  <2>1. table.item \in Nat
    BY IdeTableFacts DEF IdeTableRec
  <2> QED
    BY <1>5, <2>1, IdeTableFacts
<1> HIDE DEF w
<1>11. /\ table' \in IdeTableRec /\ table'.folder = s /\ table'.disk = d /\ table'.homes = h
       /\ table'.item = w
  BY <1>4, <1>6, <1>8, <1>9, <1>10, IdeTableFacts DEF IdeTableRec
<1>12. Ide!Rows(table') = Ide!Rows(table) \cup {r}
  BY <1>7, <1>11 DEF Ide!Rows
<1>13. /\ c \in IdeCallRec /\ c.op = "create" /\ c.repo = r /\ c.n = j.n /\ c.msg = j.msg
  BY <1>1, <1>2, <1>5 DEF IdeCallRec
<1> HIDE DEF c
<1>14. PICK t \in IdeKinds : t = ks
  BY DEF IdeKinds
<1>15. /\ Ide!Invalidates(j, c, t) /\ c.op \in {"folder", "create"} /\ c.repo # Ide!None
      /\ (c.op = "folder" => c.folder \in Ide!Folders) /\ c \in IdeCallRec
  BY <1>1, <1>5, <1>13, <1>14
<1>16. due' = due \cup Ide!KeysOf(Head(t)) /\ due' \subseteq Ide!Keys
  BY <1>15, IdeInvalidatesFacts
<1>17. PICK i \in IdeJobRec :
          /\ jobs' = (jobs \ {j}) \cup {i} /\ i.n = c.n /\ i.op = c.op /\ i.msg = c.msg
          /\ i.repo = c.repo /\ i.at = "fetch"
          /\ \A q \in Ide!Keys : (\E k \in DOMAIN t : t[k] = q[1]) => q \in due' \/ IdeAhead(i, q[1])
  BY <1>15, IdeInvalidatesFacts
<1>18. /\ \A q \in Ide!Keys \ {<<"list">>} : q \in due' \/ IdeAhead(i, q[1])
       /\ <<"list">> \in due'
  <2>1. /\ Head(t) = "list" /\ 2 \in DOMAIN t /\ t[2] = "home" /\ 3 \in DOMAIN t /\ t[3] = "item"
    BY <1>14
  <2>2. \A q \in Ide!Keys \ {<<"list">>} : q[1] = "home" \/ q[1] = "item"
    BY IdeKeyFacts
  <2> QED
    BY <1>16, <1>17, <2>1, <2>2, IdeKeyFacts
<1>19. PICK N \in SUBSET IdeJobRec : N = {i}
  OBVIOUS
<1>20. /\ jobs' = (jobs \ {j}) \cup N /\ i \in N /\ (\A k \in N : k = i) /\ (\A k, l \in N : k = l)
       /\ jobs' = (jobs \ {j}) \cup {i} /\ i \in jobs'
  BY <1>17, <1>19
<1>21. IdeCurrent'
  BY <1>1, <1>2, <1>16, <1>17, <1>18, <1>20, IdeCurrentAfter
<1>22. IdeSettled'
  BY <1>1, IdeSettledFrame DEF IdeIInv
<1>23. ~ rough => IdeOneRowEach' /\ IdeListRead'
       /\ \A k \in DOMAIN page.open : IdeOnDisk(table', page.open[k])
  <2> SUFFICES ASSUME ~ rough
               PROVE  IdeOneRowEach' /\ IdeListRead'
                      /\ \A k \in DOMAIN page.open : IdeOnDisk(table', page.open[k])
    OBVIOUS
  <2>1. IdeOneRowEach /\ \A k \in DOMAIN page.open : IdeOnDisk(table, page.open[k])
    BY <1>2, IdeWaitFacts DEF IdeRereads
  <2>2. IdeOneRowEach'
    <3>1. CASE rows = {}
      <4>1. s[r] = Own[p] /\ \A a \in Ide!Rows(table) : s[a] # Own[p]
        BY <1>5, <1>6, <1>7, <3>1
      <4> QED
        BY <1>6, <1>11, <1>12, <2>1, <4>1 DEF IdeOneRowEach
    <3>2. CASE rows # {}
      <4>1. r \in Ide!Rows(table)
        BY <1>5, <1>7, <3>2
      <4> QED
        BY <1>6, <1>11, <1>12, <2>1, <4>1 DEF IdeOneRowEach
    <3> QED
      BY <3>1, <3>2
  <2>3. IdeListRead'
    BY <1>18 DEF IdeListRead
  <2>4. ASSUME NEW k \in DOMAIN page.open PROVE IdeOnDisk(table', page.open[k])
    <3>1. page.open[k].repo \in Ide!Rows(table) /\ page.open[k].file \in Files
      BY IdePageFacts DEF IdeOpenRec
    <3>2. s[page.open[k].repo] = table.folder[page.open[k].repo]
          /\ table.folder[page.open[k].repo] \in Ide!Folders
      BY <1>6, <3>1, IdeTableFacts
    <3>3. page.open[k].file \notin OnDisk =>
             d[s[page.open[k].repo]][page.open[k].file] = table.disk[table.folder[page.open[k].repo]][page.open[k].file]
      BY <1>8, <3>1, <3>2
    <3> QED
      BY <1>11, <2>1, <3>3 DEF IdeOnDisk
  <2> QED
    BY <2>2, <2>3, <2>4
<1>24. Ide!Rows(table) \subseteq Ide!Rows(table')
  BY <1>12
<1>25. page' \in IdePageRec /\ page'.repo \in {Ide!None} \cup Ide!Rows(table')
  BY <1>1, <1>24, IdeSamePageFacts
<1>26. /\ \A q \in Products : \A k \in DOMAIN table'.homes[q] : table'.homes[q][k] \in Ide!Rows(table')
       /\ table'.homes[First] # <<>> /\ table'.item \in {Ide!None} \cup Ide!Rows(table')
  BY <1>9, <1>10, <1>11, <1>12
<1>27. \A k \in N : k.n = j.n /\ k.op = j.op /\ k.msg = j.msg /\ k.repo \in Ide!Rows(table')
       /\ k.at # "out"
  BY <1>1, <1>12, <1>13, <1>17, <1>20
<1>28. /\ IdeBusy(j) /\ j.op \in {"folder", "create"} /\ due' \subseteq Ide!Keys
       /\ seen' = seen /\ rough' = rough /\ acts' = acts /\ table' \in IdeTableRec
       /\ page'.product = page.product /\ page'.asked = page.asked /\ page'.proposal = page.proposal
       /\ page'.open = page.open
  BY <1>1, <1>2, <1>11, <1>16
<1> HIDE DEF n, rows
<1> QED
  BY <1>20, <1>21, <1>22, <1>23, <1>24, <1>25, <1>26, <1>27, <1>28, IdeWorkspaceKeeps

\* What a query answers is there; what is preferred is selected if it is listed.
LEMMA IdeFetchKeeps == ASSUME IdeIInv, NEW q \in Ide!Keys, Ide!Fetch(q) PROVE IdeIInv'
<1> DEFINE a == Ide!Content(table, q)
           sn == [seen EXCEPT ![q] = a]
           Less(j) == [j EXCEPT !.waits = @ \ {q}]
<1>1. /\ seen' = sn /\ page' = Ide!Rendered(page, seen') /\ due' = due \ {q} /\ table' = table
      /\ jobs' = {Less(j) : j \in jobs} /\ rough' = rough /\ acts' = acts
  BY DEF Ide!Fetch
<1>2. \A j \in jobs :
         /\ Less(j) \in IdeJobRec /\ Less(j).n = j.n /\ Less(j).op = j.op /\ Less(j).at = j.at
         /\ Less(j).repo = j.repo /\ Less(j).todo = j.todo /\ Less(j).msg = j.msg
         /\ Less(j).product = j.product
         /\ Less(j).folder = j.folder /\ Less(j).file = j.file /\ Less(j).text = j.text
         /\ Less(j).known = j.known /\ Less(j).patches = j.patches
  <2> SUFFICES ASSUME NEW j \in jobs
               PROVE  /\ Less(j) \in IdeJobRec /\ Less(j).n = j.n /\ Less(j).op = j.op
                           /\ Less(j).at = j.at
                      /\ Less(j).repo = j.repo /\ Less(j).todo = j.todo /\ Less(j).msg = j.msg
                      /\ Less(j).product = j.product /\ Less(j).folder = j.folder
                      /\ Less(j).file = j.file
                      /\ Less(j).text = j.text /\ Less(j).known = j.known /\ Less(j).patches = j.patches
    OBVIOUS
  <2> DEFINE w == j.waits \ {q}
             i == [j EXCEPT !.waits = w]
  <2>1. j \in IdeJobRec /\ j \in IdeCallRec
    BY IdeCallFacts
  <2>2. w \in SUBSET Ide!Keys
    BY <2>1 DEF IdeCallRec
  <2>3. Less(j) = i
    BY <2>1 DEF IdeCallRec
  <2> HIDE DEF w
  <2>4. i \in IdeCallRec
    BY <2>1, <2>2 DEF IdeCallRec
  <2>5. /\ i.n = j.n /\ i.op = j.op /\ i.at = j.at /\ i.repo = j.repo /\ i.todo = j.todo
        /\ i.msg = j.msg
        /\ i.product = j.product /\ i.folder = j.folder /\ i.file = j.file /\ i.text = j.text
        /\ i.known = j.known /\ i.patches = j.patches
    BY <2>1 DEF IdeCallRec
  <2> HIDE DEF i
  <2>6. i \in IdeJobRec
    BY <2>1, <2>4, <2>5 DEF IdeJobRec
  <2> HIDE DEF Less
  <2> QED
    BY <2>3, <2>5, <2>6
<1> HIDE DEF Less
<1>3. \A i \in jobs' : \E j \in jobs : i = Less(j)
  BY <1>1
<1>4. \A j \in jobs : Less(j) \in jobs'
  BY <1>1
<1>5. /\ DOMAIN sn = Ide!Keys /\ sn[q] = a /\ \A k \in Ide!Keys : k # q => sn[k] = seen[k]
  BY DEF IdeIInv, IdeTyped
<1> HIDE DEF a, sn
<1>6. /\ q = <<"list">> => a = Ide!Rows(table)
      /\ q # <<"list">> => a \in {Ide!None} \cup Ide!Rows(table)
  <2>1. CASE q = <<"list">>
    BY <2>1 DEF a, Ide!Content
  <2>2. CASE q = <<"item">>
    BY <2>2, IdeKeyFacts, IdeTableFacts DEF a, Ide!Content
  <2>3. ASSUME NEW p \in Products, q = <<"home", p>> PROVE a \in {Ide!None} \cup Ide!Rows(table)
               /\ q # <<"list">>
    <3>1. a = Ide!Home(table, p)
      BY <2>3, IdeKeyFacts DEF a, Ide!Content
    <3>2. q # <<"list">>
      BY <2>3, IdeKeyFacts
    <3> QED
      BY <3>1, <3>2, IdeTableFacts
  <2> QED
    BY <2>1, <2>2, <2>3, IdeKeyFacts
<1>7. /\ sn[<<"list">>] \subseteq Ide!Rows(table) /\ sn[<<"item">>] \in {Ide!None} \cup Ide!Rows(table)
      /\ \A p \in Products : sn[<<"home", p>>] \in {Ide!None} \cup Ide!Rows(table)
      /\ q = <<"list">> => sn[<<"list">>] = Ide!Rows(table)
      /\ q # <<"list">> => sn[<<"list">>] = seen[<<"list">>]
  BY <1>5, <1>6, IdeKeyFacts DEF IdeIInv, IdeRowsThere, IdeKnown
<1>8. page \in IdePageRec /\ Ide!Preferred(page, sn) \in {Ide!None} \cup Ide!Rows(table)
      /\ Ide!Preferred(page, sn) \in Nat
  <2>1. page.product \in Products
    BY IdePageFacts DEF IdePageRec
  <2> QED
    BY <1>7, <2>1, IdePageFacts DEF Ide!Preferred, Ide!None
<1>9. page' = Ide!Rendered(page, sn)
  BY <1>1
<1>10. /\ page' = [page EXCEPT !.repo = page'.repo] /\ page' \in IdePageRec
       /\ page'.repo \in {page.repo, Ide!Preferred(page, sn)}
       /\ Ide!Preferred(page, sn) \in {Ide!None} \cup sn[<<"list">>]
          => page'.repo = Ide!Preferred(page, sn)
       /\ Ide!Preferred(page', sn) = Ide!Preferred(page, sn)
  BY <1>8, <1>9, IdeRenderedFacts
<1>11. /\ page'.product = page.product /\ page'.asked = page.asked /\ page'.proposal = page.proposal
       /\ page'.open = page.open /\ page'.item = page.item
  BY <1>8, <1>10 DEF IdePageRec
<1>12. IdeTyped'
  BY <1>1, <1>2, <1>3, <1>5, <1>10 DEF IdeIInv, IdeTyped
<1>13. IdeRowsThere'
  <2>1. \A i \in jobs' : i.repo \in {Ide!None} \cup Ide!Rows(table') /\ i.n # 0
    BY <1>1, <1>2, <1>3 DEF IdeIInv, IdeRowsThere, IdeKnown
  <2>2. page'.repo \in {Ide!None} \cup Ide!Rows(table')
    BY <1>1, <1>8, <1>10, IdePageFacts DEF IdeKnown
  <2> QED
    BY <1>1, <1>7, <1>11, <2>1, <2>2 DEF IdeIInv, IdeRowsThere, IdeKnown
<1>14. IdeOpenOnce'
  BY <1>11 DEF IdeIInv, IdeOpenOnce
<1>15. IdeAsked'
  <2>1. \A i \in jobs' : i.msg < acts' /\ (i.op = "send" /\ i.msg \in page'.asked
        => i.product = page'.product)
    BY <1>1, <1>2, <1>3, <1>11, IdeCallFacts
  <2> QED
    BY <1>1, <1>11, <2>1 DEF IdeIInv, IdeAsked, Ide!OwnProposal
<1>16. IdeCurrent'
  <2>1. ASSUME NEW k \in Ide!Keys \ {<<"list">>}
        PROVE  k \in due' \/ seen'[k] = Ide!Content(table', k) \/ \E j \in jobs' : IdeAhead(j, k[1])
    <3>1. CASE k = q
      BY <1>1, <1>5, <3>1 DEF a
    <3>2. CASE k # q /\ k \in due
      BY <1>1, <3>2
    <3>3. CASE k # q /\ seen[k] = Ide!Content(table, k)
      BY <1>1, <1>5, <3>3
    <3>4. CASE \E j \in jobs : IdeAhead(j, k[1])
      BY <1>2, <1>4, <3>4 DEF IdeAhead
    <3> QED
      BY <3>1, <3>2, <3>3, <3>4 DEF IdeIInv, IdeCurrent
  <2>2. ASSUME NEW r \in {Ide!None} \cup Ide!Rows(table), IdeInList(r)
        PROVE  r \in {Ide!None} \cup seen'[<<"list">>] \/ <<"list">> \in due'
    <3>1. CASE q = <<"list">>
      BY <1>1, <1>7, <3>1
    <3>2. CASE q # <<"list">>
      BY <1>1, <1>7, <2>2, <3>2 DEF IdeInList
    <3> QED
      BY <3>1, <3>2
  <2>3. IdeInList(table.item)' /\ \A p \in Products : IdeInList(Ide!Home(table, p))'
    <3>1. /\ table'.item \in {Ide!None} \cup seen'[<<"list">>] \/ <<"list">> \in due'
          /\ \A p \in Products : Ide!Home(table', p) \in {Ide!None} \cup seen'[<<"list">>]
             \/ <<"list">> \in due'
      BY <1>1, <2>2, IdeTableFacts DEF IdeIInv, IdeCurrent
    <3> QED
      BY <3>1 DEF IdeInList
  <2>4. ASSUME NEW i \in jobs', i.op = "folder", i.at = "out"
        PROVE  i.repo \in {Ide!None} \cup seen'[<<"list">>] \/ <<"list">> \in due'
    <3>1. PICK j \in jobs : i = Less(j)
      BY <1>3
    <3>2. IdeInList(j.repo) /\ j.repo \in {Ide!None} \cup Ide!Rows(table) /\ i.repo = j.repo
      BY <1>2, <2>4, <3>1 DEF IdeIInv, IdeCurrent, IdeRowsThere, IdeKnown
    <3> QED
      BY <2>2, <3>2
  <2>5. \A i \in jobs' : i.op = "folder" /\ i.at = "out" => IdeInList(i.repo)'
    BY <2>4 DEF IdeInList
  <2> QED
    BY <2>1, <2>3, <2>5 DEF IdeCurrent, IdeAhead
<1>17. IdeSettled'
  BY <1>1, <1>10 DEF IdeSettled
<1>18. IdeWaited'
  <2> SUFFICES ASSUME ~ rough
               PROVE  IdeAlone' /\ IdeOneRowEach' /\ IdeListRead' /\ (\A i \in jobs' : IdeFits(i)')
                      /\ IdeClean'
    BY <1>1 DEF IdeWaited
  <2>1. IdeAlone /\ IdeOneRowEach /\ IdeListRead /\ (\A i \in jobs : IdeFits(i)) /\ IdeClean
    BY DEF IdeIInv, IdeWaited
  <2>2. \A i, k \in jobs' : i.at # "timer" /\ k.at # "timer" => i = k
    BY <1>2, <1>3, <2>1 DEF IdeAlone, IdeBusy
  <2>3. IdeOneRowEach'
    BY <1>1, <2>1 DEF IdeOneRowEach
  <2>4. IdeListRead'
    <3>1. CASE q = <<"list">>
      BY <1>1, <1>7, <3>1 DEF IdeListRead
    <3>2. CASE q # <<"list">>
      BY <1>1, <1>2, <1>4, <1>7, <2>1, <3>2 DEF IdeListRead
    <3> QED
      BY <3>1, <3>2
  <2>5. ASSUME NEW i \in jobs' PROVE IdeFits(i)'
    <3>1. PICK j \in jobs : i = Less(j)
      BY <1>3
    <3>2. i.op = j.op /\ i.at = j.at /\ i.repo = j.repo /\ i.folder = j.folder /\ i.file = j.file
          /\ i.text = j.text /\ i.known = j.known
      BY <1>2, <3>1
    <3>3. IdeFits(j)
      BY <2>1
    <3> QED
      BY <1>1, <1>11, <3>2, <3>3 DEF IdeFits
  <2>6. \A j \in jobs : \A o : IdeRereads(j, o) => IdeRereads(Less(j), o)
    BY <1>2 DEF IdeRereads
  <2>7. IdeClean'
    BY <1>1, <1>4, <1>11, <2>1, <2>6 DEF IdeClean
  <2>8. IdeAlone'
    BY <2>2 DEF IdeAlone, IdeBusy
  <2> QED
    BY <2>3, <2>4, <2>5, <2>7, <2>8
<1> QED
  BY <1>12, <1>13, <1>14, <1>15, <1>16, <1>17, <1>18 DEF IdeIInv

------------------------------------------------------------------------------
(* The invariant *)

\* The page as it is opened.
LEMMA IdeInitKeeps == ASSUME Ide!Init PROVE IdeIInv
<1> DEFINE f == <<There>>
           h == [p \in Products |-> IF p = First THEN <<1>> ELSE <<>>]
           d == [c \in Ide!Folders |-> [g \in Files |-> Ide!Original]]
<1>1. PICK b \in BOOLEAN :
         page = [product |-> First, item |-> b, repo |-> 1, open |-> <<>>, active |-> Ide!NoFile,
                 sending |-> FALSE, asked |-> {}, proposal |-> Ide!NoProposal]
  BY DEF Ide!Init
<1>2. /\ table = [folder |-> f, item |-> Ide!None, homes |-> h, disk |-> d]
      /\ due = {<<"home", p>> : p \in Products \ {First}} /\ jobs = {} /\ acts = 0
      /\ seen = [q \in Ide!Keys |-> IF q = <<"home", First>> \/ q = <<"item">> THEN 1
                                ELSE IF q = <<"list">> THEN {1} ELSE Ide!None]
  BY DEF Ide!Init
<1>3. There \in Ide!Folders /\ First \in Products
  BY IdeConstants DEF Ide!Folders
<1>4. f \in Seq(Ide!Folders) /\ Len(f) = 1 /\ DOMAIN f = {1}
  BY <1>3
<1>5. /\ h \in [Products -> Seq(Nat)] /\ h[First] = <<1>> /\ \A p \in Products \ {First} : h[p] = <<>>
      /\ d \in [Ide!Folders -> [Files -> Int]]
  BY <1>3 DEF Ide!Original
<1> HIDE DEF f, h, d
<1>6. /\ table \in IdeTableRec /\ table.folder = f /\ table.item = Ide!None /\ table.homes = h
  BY <1>2, <1>4, <1>5 DEF IdeTableRec, Ide!None
<1>7. Ide!Rows(table) = {1}
  <2>1. Len(table.folder) = 1
    BY <1>4, <1>6
  <2>2. 1 .. 1 = {1}
    OBVIOUS
  <2> QED
    BY <2>1, <2>2 DEF Ide!Rows
<1>8. /\ page \in IdePageRec /\ page.product = First /\ page.item = b /\ page.repo = 1
      /\ page.open = <<>>
      /\ page.asked = {} /\ page.proposal = Ide!NoProposal
  <2>1. Ide!NoFile \in Nat \X (Files \cup {Ide!None}) /\ <<>> \in Seq(IdeOpenRec) /\ {} \in SUBSET Nat
        /\ Ide!NoProposal \in IdeProposals
    BY DEF Ide!NoFile, Ide!None, IdeProposals
  <2>2. page \in IdePageRec
    BY <1>1, <1>3, <2>1 DEF IdePageRec
  <2> QED
    BY <1>1, <2>2
<1>9. /\ DOMAIN seen = Ide!Keys /\ seen[<<"list">>] = {1} /\ seen[<<"item">>] = 1
      /\ seen[<<"home", First>>] = 1
      /\ \A p \in Products \ {First} : seen[<<"home", p>>] = Ide!None
  BY <1>2, <1>3 DEF Ide!Keys
<1>10. /\ Ide!Home(table, First) = 1 /\ \A p \in Products \ {First} : Ide!Home(table, p) = Ide!None
  <2>1. Head(<<1>>) = 1 /\ <<1>> # <<>>
    OBVIOUS
  <2> QED
    BY <1>5, <1>6, <2>1 DEF Ide!Home
<1>11. IdeTyped
  <2>1. due \subseteq Ide!Keys
    BY <1>2 DEF Ide!Keys
  <2> QED
    BY <1>2, <1>6, <1>8, <1>9, <2>1 DEF IdeTyped
<1>12. IdeRowsThere
  <2>1. \A p \in Products : \A k \in DOMAIN h[p] : h[p][k] \in {1}
    <3>1. \A k \in DOMAIN <<1>> : <<1>>[k] \in {1}
      OBVIOUS
    <3>2. DOMAIN <<>> = {}
      OBVIOUS
    <3> QED
      BY <1>5, <3>1, <3>2
  <2>2. h[First] # <<>>
    BY <1>5
  <2>3. \A k \in DOMAIN page.open : FALSE
    BY <1>8
  <2>4. \A p \in Products : seen[<<"home", p>>] \in {Ide!None} \cup {1}
    BY <1>9
  <2> QED
    BY <1>2, <1>6, <1>7, <1>8, <1>9, <2>1, <2>2, <2>3, <2>4 DEF IdeRowsThere, IdeKnown
<1>13. IdeOpenOnce /\ IdeAsked
  BY <1>2, <1>8 DEF IdeOpenOnce, IdeAsked, Ide!OwnProposal
<1>14. IdeCurrent
  <2>1. Ide!Content(table, <<"item">>) = 1
    BY <1>6, <1>10 DEF Ide!Content
  <2>2. Ide!Content(table, <<"home", First>>) = 1
    BY <1>10 DEF Ide!Content
  <2>3. \A q \in Ide!Keys \ {<<"list">>} : q \in due \/ seen[q] = Ide!Content(table, q)
    BY <1>2, <1>9, <2>1, <2>2, IdeKeyFacts
  <2>4. IdeInList(table.item) /\ \A p \in Products : IdeInList(Ide!Home(table, p))
    BY <1>6, <1>9, <1>10 DEF IdeInList
  <2> QED
    BY <1>2, <2>3, <2>4 DEF IdeCurrent
<1>15. IdeSettled
  <2>1. Ide!Preferred(page, seen) = 1
    BY <1>8, <1>9 DEF Ide!Preferred
  <2> QED
    BY <1>8, <2>1 DEF IdeSettled
<1>16. IdeWaited
  <2>1. IdeAlone /\ \A j \in jobs : IdeFits(j)
    BY <1>2 DEF IdeAlone
  <2>2. IdeOneRowEach
    BY <1>7 DEF IdeOneRowEach
  <2>3. IdeListRead
    BY <1>7, <1>9 DEF IdeListRead
  <2>4. IdeClean
    <3>1. \A k \in DOMAIN page.open : FALSE
      BY <1>8
    <3> QED
      BY <3>1 DEF IdeClean
  <2> QED
    BY <2>1, <2>2, <2>3, <2>4 DEF IdeWaited
<1> QED
  BY <1>11, <1>12, <1>13, <1>14, <1>15, <1>16 DEF IdeIInv

\* A step of nothing.
LEMMA IdeStutterKeeps == ASSUME IdeIInv, UNCHANGED Ide!vars PROVE IdeIInv'
<1>1. /\ table' = table /\ seen' = seen /\ due' = due /\ page' = page /\ jobs' = jobs /\ rough' = rough
      /\ acts' = acts
  BY DEF Ide!vars
<1>2. IdeTyped' /\ IdeOpenOnce'
  BY <1>1 DEF IdeIInv, IdeTyped, IdeOpenOnce
<1>3. IdeRowsThere'
  BY <1>1 DEF IdeIInv, IdeRowsThere, IdeKnown
<1>4. IdeAsked'
  BY <1>1 DEF IdeIInv, IdeAsked, Ide!OwnProposal
<1>5. IdeCurrent'
  <2>1. \A q : Ide!Content(table', q) = Ide!Content(table, q)
    BY <1>1
  <2>2. IdeInList(table.item)' /\ (\A p \in Products : IdeInList(Ide!Home(table, p))')
        /\ \A r : IdeInList(r) <=> IdeInList(r)'
    BY <1>1 DEF IdeIInv, IdeCurrent, IdeInList
  <2> QED
    BY <1>1, <2>1, <2>2 DEF IdeIInv, IdeCurrent
<1>6. IdeSettled'
  BY <1>1, IdeSettledFrame DEF IdeIInv
<1>7. IdeWaited'
  <2>1. \A j : IdeFits(j)' <=> IdeFits(j)
    BY <1>1 DEF IdeFits
  <2>2. /\ (IdeAlone' <=> IdeAlone)
        /\ (IdeOneRowEach' <=> IdeOneRowEach)
    BY <1>1 DEF IdeAlone, IdeOneRowEach
  <2> QED
    BY <1>1, <2>1, <2>2 DEF IdeIInv, IdeWaited, IdeAlone, IdeOneRowEach, IdeListRead, IdeClean
<1> QED
  BY <1>2, <1>3, <1>4, <1>5, <1>6, <1>7 DEF IdeIInv

\* One case for each thing the person can do.
LEMMA IdeActKeeps == ASSUME IdeIInv, Ide!Acts, Ide!Act PROVE IdeIInv'
<1>1. ASSUME NEW p \in Products, Ide!ChooseProduct(p) PROVE IdeIInv'
  BY <1>1, IdeChooseProductKeeps
<1>2. ASSUME NEW p \in Products, Ide!Reenter(p) PROVE IdeIInv'
  BY <1>2, IdeReenterKeeps
<1>3. ASSUME NEW m \in Ide!Modes, Ide!Send(m) PROVE IdeIInv'
  BY <1>3, IdeSendKeeps
<1>4. ASSUME NEW id \in Ide!RowIds \X Files, Ide!ChooseTab(id) PROVE IdeIInv'
  <2>1. PICK r, f : id = <<r, f>>
    OBVIOUS
  <2> QED
    BY <1>4, <2>1, IdeChooseTabKeeps
<1>5. ASSUME NEW id \in Ide!RowIds \X Files, Ide!CloseTab(id) PROVE IdeIInv'
  BY <1>5, IdeCloseTabKeeps
<1>6. ASSUME NEW f \in Files, Ide!OpenFile(f) PROVE IdeIInv'
  BY <1>6, IdeOpenFileKeeps
<1>7. ASSUME NEW d \in Ide!Folders, Ide!AttachFolder(d) PROVE IdeIInv'
  BY <1>7, IdeAttachFolderKeeps
<1> QED
  BY <1>1, <1>2, <1>3, <1>4, <1>5, <1>6, <1>7, IdeClearKeeps, IdeTypeKeeps, IdeSaveKeeps,
     IdeCreateWorkspaceKeeps,
     IdeApplyKeeps DEF Ide!Act

\* One case for each step of a call.
LEMMA IdeServeKeeps == ASSUME IdeIInv, NEW j \in jobs, Ide!Serve(j) PROVE IdeIInv'
  BY IdeFileReadKeeps, IdeSavedKeeps, IdePatchAppliedKeeps, IdeRereadKeeps, IdeRegisteredKeeps,
     IdeAttachedKeeps,
     IdeProvisionedKeeps, IdeInvalidatesNextKeeps, IdeSelectKeeps, IdeStreamOverKeeps, IdeStreamStartedKeeps,
     IdeStreamEndedKeeps, IdeTimerKeeps, IdeRefusedKeeps DEF Ide!Serve

\* Every step keeps the invariant.
LEMMA IdeStepKeeps == ASSUME IdeIInv, [Ide!Next]_(Ide!vars) PROVE IdeIInv'
  BY IdeActKeeps, IdeServeKeeps, IdeFetchKeeps, IdeStutterKeeps DEF Ide!Next

------------------------------------------------------------------------------
(* What it means *)

\* The invariant says what the types are.
LEMMA IdeTypeOKHolds == ASSUME IdeIInv PROVE Ide!TypeOK
<1>1. /\ \A r \in Ide!Rows(table) : table.folder[r] \in Ide!Folders
      /\ \A p \in Products : \A k \in DOMAIN table.homes[p] : table.homes[p][k] \in Ide!Rows(table)
      /\ due \subseteq Ide!Keys
  BY IdeTableFacts
<1>2. page.product \in Products /\ page.repo \in {Ide!None} \cup Ide!Rows(table)
  BY IdePageFacts DEF IdePageRec, IdeKnown
<1>3. \A k \in DOMAIN page.open : page.open[k].repo \in Ide!Rows(table) /\ page.open[k].file \in Files
  BY IdePageFacts DEF IdeOpenRec
<1>4. \A j \in jobs : j.at \in {"out", "attach", "read", "fetch", "on", "timer"} /\ j.n \in Ide!Slots
  BY IdeCallFacts DEF IdeCallRec
<1> QED
  BY <1>1, <1>2, <1>3, <1>4 DEF Ide!TypeOK

\* The invariant says that a proposal is the selected product's.
LEMMA IdeOwnProposalHolds == ASSUME IdeIInv PROVE Ide!OwnProposal
  BY DEF IdeIInv, IdeAsked

\* The invariant says that a file without the mark is on the disk.
LEMMA IdeCleanIsSavedHolds == ASSUME IdeIInv PROVE Ide!CleanIsSaved
<1> SUFFICES ASSUME ~ rough, Ide!Quiet, NEW k \in DOMAIN page.open
             PROVE  IdeOnDisk(table, page.open[k])
  BY DEF Ide!CleanIsSaved, IdeOnDisk, Ide!Disk
<1>1. \A j \in jobs : j.at = "timer"
  BY DEF Ide!Quiet
<1> QED
  BY <1>1 DEF IdeIInv, IdeWaited, IdeClean, IdeRereads

\* The invariant says that the workspace is the one the tables have.
LEMMA IdeOwnWorkspaceHolds == ASSUME IdeIInv PROVE Ide!OwnWorkspace
<1> DEFINE sn == [q \in Ide!Keys |-> Ide!Content(table, q)]
<1> SUFFICES ASSUME {j \in jobs : j.at # "timer"} = {}, due \cap Ide!Mounted(page) = {}
             PROVE  page.repo = Ide!Preferred(page, sn)
  BY DEF Ide!OwnWorkspace
<1>1. \A j \in jobs : j.todo = <<>>
  BY IdeCallFacts
<1>2. \A q \in Ide!Keys \ {<<"list">>} : q \in due \/ seen[q] = Ide!Content(table, q)
  BY <1>1 DEF IdeIInv, IdeCurrent, IdeAhead
<1>3. page.product \in Products
  BY IdePageFacts DEF IdePageRec
<1>4. /\ <<"list">> \notin due /\ <<"home", page.product>> \notin due
      /\ page.item => <<"item">> \notin due
  BY DEF Ide!Mounted
<1>5. /\ seen[<<"home", page.product>>] = sn[<<"home", page.product>>]
      /\ page.item => seen[<<"item">>] = sn[<<"item">>]
  BY <1>2, <1>3, <1>4, IdeKeyFacts
<1>6. /\ sn[<<"home", page.product>>] = Ide!Home(table, page.product)
      /\ sn[<<"item">>] = IF table.item # Ide!None THEN table.item ELSE Ide!Home(table, First)
  BY <1>3, IdeKeyFacts DEF Ide!Content
<1> HIDE DEF sn
<1>7. Ide!Preferred(page, seen) = Ide!Preferred(page, sn)
  BY <1>5 DEF Ide!Preferred
<1>8. \A p \in Products : Ide!Home(table, p) \in {Ide!None} \cup seen[<<"list">>]
  BY <1>4 DEF IdeIInv, IdeCurrent, IdeInList
<1>9. table.item \in {Ide!None} \cup seen[<<"list">>]
  BY <1>4 DEF IdeIInv, IdeCurrent, IdeInList
<1>10. Ide!Preferred(page, sn) \in {Ide!None} \cup seen[<<"list">>]
  BY <1>3, <1>6, <1>8, <1>9, IdeTableFacts DEF Ide!Preferred
<1> QED
  BY <1>7, <1>10 DEF IdeIInv, IdeSettled

------------------------------------------------------------------------------
(* The planner *)

PlannerP == INSTANCE PlannerProofs WITH
    First <- Preselected, None <- Nothing, MaxActs <- PlannerActs

\* A behaviour that shows the planner takes the steps of Planner, throughout.
LEMMA PlannerShown == Spec => (shown = "planner" => Planner!Unfair)
<1>1. Init => (shown = "planner" => Planner!Init)
  BY DEF Init
<1>2. shown = "planner" /\ [Next]_vars => (shown = "planner")' /\ [Planner!Next]_(Planner!vars)
  BY DEF Next, vars, Planner!vars, planned
<1> QED
  BY <1>1, <1>2, PTL DEF Spec, Unfair, Planner!Unfair

\* What is proved of Planner is proved of the page of Tools.
LEMMA SamePlanner ==
    /\ Planner!Init <=> PlannerP!Init
    /\ [Planner!Next]_(Planner!vars) <=> [PlannerP!Next]_(PlannerP!vars)
    /\ Planner!TypeOK <=> PlannerP!TypeOK
    /\ Planner!OneTurn <=> PlannerP!OneTurn
    /\ Planner!MicReleased <=> PlannerP!MicReleased
    /\ Planner!NothingHidden <=> PlannerP!NothingHidden
    /\ Planner!AppliedOnce <=> PlannerP!AppliedOnce
<1> USE DEF
      Planner!vars, Planner!Ids, Planner!Views, Planner!Turns, Planner!Kinds,
      Planner!NoAnswer, Planner!Fresh, Planner!Lowest, Planner!FreeIds,
      Planner!Call, Planner!Mine, Planner!Busy, Planner!Calm, Planner!Dead,
      Planner!Ensured, Planner!Goes, Planner!Send, Planner!ComposerOffers,
      Planner!ProposalOffers, Planner!VoiceCardOffers, Planner!DesignOffers,
      Planner!HeaderOffers, Planner!RepositoryOffers, Planner!Stays,
      Planner!SendText, Planner!EditDraft, Planner!AnalyzeRepository,
      Planner!ConfirmPlan, Planner!DismissPlan, Planner!SelectNode,
      Planner!ShowView, Planner!ChooseModel, Planner!SwitchProduct,
      Planner!LeavePage, Planner!OpenPage, Planner!StartListening,
      Planner!MicGranted, Planner!MicRefused, Planner!StopListening,
      Planner!NotHeard, Planner!Heard, Planner!SubmitVoice, Planner!SpeakView,
      Planner!CancelVoice, Planner!RetryVoice, Planner!OpenSession,
      Planner!OpenForTurn, Planner!ReadSession, Planner!RouteVoice, Planner!Passed,
      Planner!Seeded, Planner!Answer,
      Planner!Save, Planner!Confirms, Planner!Commit, Planner!CommitFailed,
      Planner!NothingToConfirm, Planner!Unused, Planner!Plans, Planner!Chosen,
      Planner!PlanDesigns, Planner!PlanWaits, Planner!PlanFails,
      Planner!VoiceCommand, Planner!Analyze, Planner!Edit, Planner!Refuse,
      Planner!ClearPending, Planner!Mode, Planner!Handled, Planner!HandleTurn,
      Planner!HandleRefused, Planner!HandleConfirm, Planner!HandleOpen,
      Planner!ClearRefused, Planner!Init, Planner!Act, Planner!Serve,
      Planner!Receive, Planner!Answered, Planner!Next, Planner!TypeOK,
      Planner!OneTurn, Planner!MicReleased, Planner!NothingHidden,
      Planner!AppliedOnce, PlannerP!NothingHidden, PlannerP!AppliedOnce, PlannerP!vars, PlannerP!Ids,
      PlannerP!Views, PlannerP!Turns, PlannerP!Kinds, PlannerP!NoAnswer,
      PlannerP!Fresh, PlannerP!Lowest, PlannerP!FreeIds, PlannerP!Call,
      PlannerP!Mine, PlannerP!Busy, PlannerP!Calm, PlannerP!Dead,
      PlannerP!Ensured, PlannerP!Goes, PlannerP!Send, PlannerP!ComposerOffers,
      PlannerP!ProposalOffers, PlannerP!VoiceCardOffers, PlannerP!DesignOffers,
      PlannerP!HeaderOffers, PlannerP!RepositoryOffers, PlannerP!Stays,
      PlannerP!SendText, PlannerP!EditDraft, PlannerP!AnalyzeRepository,
      PlannerP!ConfirmPlan, PlannerP!DismissPlan, PlannerP!SelectNode,
      PlannerP!ShowView, PlannerP!ChooseModel, PlannerP!SwitchProduct,
      PlannerP!LeavePage, PlannerP!OpenPage, PlannerP!StartListening,
      PlannerP!MicGranted, PlannerP!MicRefused, PlannerP!StopListening,
      PlannerP!NotHeard, PlannerP!Heard, PlannerP!SubmitVoice,
      PlannerP!SpeakView, PlannerP!CancelVoice, PlannerP!RetryVoice,
      PlannerP!OpenSession, PlannerP!OpenForTurn, PlannerP!ReadSession, PlannerP!RouteVoice,
      PlannerP!Passed,
      PlannerP!Seeded, PlannerP!Answer, PlannerP!Save, PlannerP!Confirms,
      PlannerP!Commit, PlannerP!CommitFailed, PlannerP!NothingToConfirm,
      PlannerP!Unused, PlannerP!Plans, PlannerP!Chosen, PlannerP!PlanDesigns,
      PlannerP!PlanWaits, PlannerP!PlanFails, PlannerP!VoiceCommand,
      PlannerP!Analyze, PlannerP!Edit, PlannerP!Refuse, PlannerP!ClearPending,
      PlannerP!Mode, PlannerP!Handled, PlannerP!HandleTurn,
      PlannerP!HandleRefused, PlannerP!HandleConfirm, PlannerP!HandleOpen,
      PlannerP!ClearRefused, PlannerP!Init, PlannerP!Act, PlannerP!Serve,
      PlannerP!Receive, PlannerP!Answered, PlannerP!Next, PlannerP!TypeOK,
      PlannerP!OneTurn, PlannerP!MicReleased
<1>1. Planner!Init <=> PlannerP!Init
  OBVIOUS
<1>2. [Planner!Next]_(Planner!vars) <=> [PlannerP!Next]_(PlannerP!vars)
  OBVIOUS
<1>3. Planner!TypeOK <=> PlannerP!TypeOK
  OBVIOUS
<1>4. Planner!OneTurn <=> PlannerP!OneTurn
  OBVIOUS
<1>5. Planner!MicReleased <=> PlannerP!MicReleased
  OBVIOUS
<1>6. Planner!NothingHidden <=> PlannerP!NothingHidden
  OBVIOUS
<1>7. Planner!AppliedOnce <=> PlannerP!AppliedOnce
  OBVIOUS
<1> QED
  BY <1>1, <1>2, <1>3, <1>4, <1>5, <1>6, <1>7

------------------------------------------------------------------------------
(* The invariants, of the behaviours of Tools *)

\* The chats keep their invariant while one is shown.
LEMMA ChatInvariant == Spec => [](shown = "chat" => ChatIInv)
<1>1. Init => (shown = "chat" => ChatIInv)
  BY ChatInitKeeps DEF Init
<1>2. (shown = "chat" => ChatIInv) /\ [Next]_vars => (shown = "chat" => ChatIInv)'
  <2> SUFFICES ASSUME shown = "chat" => ChatIInv, [Next]_vars, (shown = "chat")' PROVE ChatIInv'
    OBVIOUS
  <2>1. shown = "chat" /\ [Chat!Next]_(Chat!vars)
    BY DEF Next, vars, Chat!vars
  <2> QED
    BY <2>1, ChatStepKeeps
<1> QED
  BY <1>1, <1>2, PTL DEF Spec, Unfair

\* So does the companion application.
LEMMA PhoneInvariant == Spec => [](shown = "phone" => PhIInv)
<1>1. Init => (shown = "phone" => PhIInv)
  BY PhInitKeeps DEF Init
<1>2. (shown = "phone" => PhIInv) /\ [Next]_vars => (shown = "phone" => PhIInv)'
  <2> SUFFICES ASSUME shown = "phone" => PhIInv, [Next]_vars, (shown = "phone")' PROVE PhIInv'
    OBVIOUS
  <2>1. shown = "phone" /\ [Phone!Next]_(Phone!vars)
    BY DEF Next, vars, Phone!vars, stored
  <2> QED
    BY <2>1, PhStepKeeps
<1> QED
  BY <1>1, <1>2, PTL DEF Spec, Unfair

\* And the IDE.
LEMMA IdeInvariant == Spec => [](shown = "ide" => IdeIInv)
<1>1. Init => (shown = "ide" => IdeIInv)
  BY IdeInitKeeps DEF Init
<1>2. (shown = "ide" => IdeIInv) /\ [Next]_vars => (shown = "ide" => IdeIInv)'
  <2> SUFFICES ASSUME shown = "ide" => IdeIInv, [Next]_vars, (shown = "ide")' PROVE IdeIInv'
    OBVIOUS
  <2>1. shown = "ide" /\ [Ide!Next]_(Ide!vars)
    BY DEF Next, vars, Ide!vars, stored
  <2> QED
    BY <2>1, IdeStepKeeps
<1> QED
  BY <1>1, <1>2, PTL DEF Spec, Unfair

------------------------------------------------------------------------------
(* The theorems *)

\* Whichever page is shown, its state stays of its types: one row a number, one
\* call a slot, and nothing names a row, a product or a session there is not.
THEOREM TypesKept == Spec => []TypeOK
<1>1. Planner!Unfair => []Planner!TypeOK
  <2>1. PlannerP!Unfair => []PlannerP!TypeOK
    BY ChosenProducts, PlannerP!TypeCorrect
  <2> QED
    BY <2>1, SamePlanner, PTL DEF Planner!Unfair, PlannerP!Unfair
<1>2. ~(shown = "planner") /\ [Next]_vars => (~(shown = "planner"))'
  BY DEF Next, vars
<1>3. Init => shown \in {"planner", "ide", "chat", "phone"}
  BY DEF Init
<1>4. shown \in {"planner", "ide", "chat", "phone"} /\ [Next]_vars
      => (shown \in {"planner", "ide", "chat", "phone"})'
  BY DEF Next, vars
<1>5. /\ shown \in {"planner", "ide", "chat", "phone"} /\ (shown = "planner" => Planner!TypeOK)
      /\ (shown = "ide" => IdeIInv) /\ (shown = "chat" => ChatIInv) /\ (shown = "phone" => PhIInv)
      => TypeOK
  BY IdeTypeOKHolds, ChatTypeOKHolds, PhTypeOKHolds DEF TypeOK
<1> QED
  BY <1>1, <1>2, <1>3, <1>4, <1>5, PlannerShown, IdeInvariant, ChatInvariant, PhoneInvariant, PTL
     DEF Spec, Unfair

\* Two turns of a planner page never work on the same session, and the phone
\* has one prompt under way at most, whichever screen it was given on.
THEOREM OneTurnAlways == Spec => []OneTurn
<1>1. Planner!Unfair => []Planner!OneTurn
  <2>1. PlannerP!Unfair => []PlannerP!OneTurn
    BY ChosenProducts, PlannerP!OneTurnAlways
  <2> QED
    BY <2>1, SamePlanner, PTL DEF Planner!Unfair, PlannerP!Unfair
<1>2. ~(shown = "planner") /\ [Next]_vars => (~(shown = "planner"))'
  BY DEF Next, vars
<1>3. (shown = "planner" => Planner!OneTurn) /\ (shown = "phone" => PhIInv) => OneTurn
  BY PhOneTurnHolds DEF OneTurn
<1> QED
  BY <1>1, <1>2, <1>3, PlannerShown, PhoneInvariant, PTL DEF Spec, Unfair

\* A person who waits is never recorded twice at a time, nor while a reply is
\* spoken, by a page that is shown or by one that was left; the phone likewise
\* for one who waits for its microphone.
THEOREM HalfDuplexAlways == Spec => []HalfDuplex
<1>1. (shown = "chat" => ChatIInv) /\ (shown = "phone" => PhIInv) => HalfDuplex
  BY ChatHalfDuplexHolds, PhHalfDuplexHolds DEF HalfDuplex
<1> QED
  BY <1>1, ChatInvariant, PhoneInvariant, PTL

\* The copilot's proposal that can be applied was asked for under the product
\* that is selected, for a person who hurries as for one who waits.
THEOREM OwnProposalAlways == Spec => []OwnProposal
<1>1. (shown = "ide" => IdeIInv) => OwnProposal
  BY IdeOwnProposalHolds DEF OwnProposal
<1> QED
  BY <1>1, IdeInvariant, PTL

\* When nothing is under way the workspace of the IDE is the one the database has
\* for the product; on the phone, a node is one of the product that is named with
\* it, and the address shown as connected is the one that answered.
THEOREM OwnContextAlways == Spec => []OwnContext
<1>1. (shown = "ide" => IdeIInv) /\ (shown = "phone" => PhIInv) => OwnContext
  BY IdeOwnWorkspaceHolds, PhOwnContextHolds, PhStatusOfAddressHolds DEF OwnContext
<1> QED
  BY <1>1, IdeInvariant, PhoneInvariant, PTL

\* For a person who waits for the answers, a file without the mark is on the disk
\* as it is shown; and a speech model that is listed as installed is on the phone.
THEOREM FilesAsShownAlways == Spec => []FilesAsShown
<1>1. (shown = "ide" => IdeIInv) /\ (shown = "phone" => PhIInv) => FilesAsShown
  BY IdeCleanIsSavedHolds, PhModelsThereHolds DEF FilesAsShown
<1> QED
  BY <1>1, IdeInvariant, PhoneInvariant, PTL

\* The microphone of a person who waits for the answers is held exactly while
\* the planner page listens, whichever way the page is left.
THEOREM MicReleasedAlways == Spec => []MicReleased
<1>1. Planner!Unfair => []Planner!MicReleased
  <2>1. PlannerP!Unfair => []PlannerP!MicReleased
    BY ChosenProducts, PlannerP!MicReleasedAlways
  <2> QED
    BY <2>1, SamePlanner, PTL DEF Planner!Unfair, PlannerP!Unfair
<1>2. ~(shown = "planner") /\ [Next]_vars => (~(shown = "planner"))'
  BY DEF Next, vars
<1>3. (shown = "planner" => Planner!MicReleased) => MicReleased
  BY DEF MicReleased
<1> QED
  BY <1>1, <1>2, <1>3, PlannerShown, PTL DEF Spec, Unfair

\* For a person who waits for the answers, the design a planner session holds
\* when nothing is under way is the one its page shows.
THEOREM NothingHiddenAlways == Spec => []NothingHidden
<1>1. Planner!Unfair => []Planner!NothingHidden
  <2>1. PlannerP!Unfair => []PlannerP!NothingHidden
    BY ChosenProducts, PlannerConstants, PlannerP!NothingHiddenAlways DEF PlannerP!Distinct
  <2> QED
    BY <2>1, SamePlanner, PTL DEF Planner!Unfair, PlannerP!Unfair
<1>2. ~(shown = "planner") /\ [Next]_vars => (~(shown = "planner"))'
  BY DEF Next, vars
<1>3. (shown = "planner" => Planner!NothingHidden) => NothingHidden
  BY DEF NothingHidden
<1> QED
  BY <1>1, <1>2, <1>3, PlannerShown, PTL DEF Spec, Unfair

\* For the same person, a node of a plan becomes a row once, however many sessions
\* were opened, dismissed and left behind.
THEOREM AppliedOnceAlways == Spec => []AppliedOnce
<1>1. Planner!Unfair => []Planner!AppliedOnce
  <2>1. PlannerP!Unfair => []PlannerP!AppliedOnce
    BY ChosenProducts, PlannerConstants, PlannerP!AppliedOnceAlways DEF PlannerP!Distinct
  <2> QED
    BY <2>1, SamePlanner, PTL DEF Planner!Unfair, PlannerP!Unfair
<1>2. ~(shown = "planner") /\ [Next]_vars => (~(shown = "planner"))'
  BY DEF Next, vars
<1>3. (shown = "planner" => Planner!AppliedOnce) => AppliedOnce
  BY DEF AppliedOnce
<1> QED
  BY <1>1, <1>2, <1>3, PlannerShown, PTL DEF Spec, Unfair

==============================================================================
