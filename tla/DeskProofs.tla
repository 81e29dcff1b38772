------------------------------ MODULE DeskProofs ------------------------------
(***************************************************************************)
(* What the pages of Desk and the background tasks keep, for every value   *)
(* of the constants.  Of each page an invariant is proved, step by step    *)
(* (the catalog's in CatalogProofs); the theorems at the end say what it   *)
(* means for the behaviours of Desk.                                       *)
(***************************************************************************)
EXTENDS CatalogProofs, WellFoundedInduction, SequenceTheorems

------------------------------------------------------------------------------
(* The registry *)

(* Types *)
RegOwners == Agents \cup Teams
RegRows == RegOwners \X Skills \X Registry!Stamps
RegForms == [of : Registry!Ids \cup {Nobody}, text : Registry!Texts \cup {""}]
RegTableRec == [rows : [Registry!Ids -> Registry!Texts \cup {""}], links : SUBSET RegRows,
                facts : SUBSET Facts,
             bound : [Agents -> Nat]]
RegPageRec == {pg \in [sel : [Registry!Kinds -> Registry!Ids \cup {Nobody}],
                       begun : [Registry!Kinds -> BOOLEAN],
                    draft : [Registry!Kinds -> RegForms], picks : [Registry!Linked -> SUBSET Skills]] :
               \A k \in Registry!Kinds : pg.sel[k] \in Registry!OfKind(k) \cup {Nobody}
                              /\ pg.draft[k].of \in Registry!OfKind(k) \cup {Nobody}}
RegOps == {"create", "update", "delete", "set", "unset", "bind"}
RegJobRec == {j \in [n : Registry!Jobs, op : RegOps, kind : Registry!Kinds,
                     id : Registry!Ids \cup {Nobody}, form : RegForms,
                  picks : SUBSET Skills, sn : RegTableRec,
                  todo : SUBSET (Facts \cup Agents \cup RegRows), add : SUBSET (Agents \cup Skills),
                  at : {"out", "refetch", "links"}, failed : BOOLEAN] :
              /\ j.id \in Registry!OfKind(j.kind) \cup {Nobody}
              /\ j.op \in {"set", "unset"} => j.todo \subseteq Facts
              /\ j.op = "update" => j.id # Nobody
              /\ j.op = "create" /\ j.at # "out" => j.id # Nobody
              /\ j.at = "links" => j.op \in {"create", "update"} /\ j.kind \in Registry!Linked
                                   /\ j.todo \subseteq RegRows /\ j.add \subseteq Skills}

\* Typed jobs of which no two have the same number, and which carry the form of
\* the row they update.
RegProper(js) == /\ js \subseteq RegJobRec
                 /\ \A j, k \in js : j.n = k.n => j = k
                 /\ \A j \in js : j.op = "update" => j.form.of = j.id

RegTyped ==
    /\ table \in RegTableRec /\ seen \in RegTableRec
    /\ \A l, m \in table.links : <<l[1], l[2]>> = <<m[1], m[2]>> => l = m
    /\ due \subseteq Registry!Queries /\ page \in RegPageRec
    /\ RegProper(jobs)
    /\ log \in [RegOwners -> SUBSET Skills] /\ rough \in BOOLEAN

\* The form of a row that is shown was seeded from it.
RegFormed(pg, sn) == \A k \in Registry!Kinds : Registry!Selected(pg, sn, k) # Nobody
=> pg.draft[k].of = pg.sel[k]

RegIInv == RegTyped /\ RegFormed(page, seen)

\* What a row's id is of.
LEMMA RegKindsOfIds ==
    ASSUME NEW k \in Registry!Kinds
    PROVE  /\ Registry!OfKind(k) \subseteq Registry!Ids /\ Nobody \notin Registry!OfKind(k)
           /\ k \in Registry!Linked => Registry!OfKind(k) \subseteq RegOwners
           /\ \A l \in Registry!Kinds : Registry!OfKind(k) \cap Registry!OfKind(l) # {} => k = l
  BY RegistryIds DEF Registry!OfKind, Registry!Kinds, Registry!Ids, Registry!Linked, RegOwners

\* The skills that are read for an owner are skills.
LEMMA RegSkillsTyped ==
    ASSUME NEW sn \in RegTableRec, NEW i
    PROVE  Registry!SkillsOf(sn, i) \in SUBSET Skills /\ Registry!LinksOf(sn, i) \in SUBSET RegRows
<1>1. Registry!LinksOf(sn, i) \in SUBSET RegRows
  BY DEF Registry!LinksOf, RegTableRec
<1>2. \A l \in RegRows : l[2] \in Skills
  BY DEF RegRows
<1> QED
  BY <1>1, <1>2 DEF Registry!SkillsOf

\* A rendering keeps the types of the page and seeds what is newly shown.
LEMMA RegSyncedForms ==
    ASSUME NEW sn \in RegTableRec, NEW pg \in RegPageRec,
           \A k \in Registry!Kinds : \/ Registry!Selected(pg, sn, k) = Nobody
                                     \/ pg.draft[k].of = pg.sel[k]
                                     \/ Registry!Shown(pg, sn, k) # Registry!Shown(page, seen, k)
    PROVE  /\ Registry!Synced(pg, sn) \in RegPageRec
           /\ RegFormed(Registry!Synced(pg, sn), sn)
<1> DEFINE new == Registry!Begun(pg, sn)
           kinds == {k \in Registry!Kinds : /\ Registry!Shown(new, sn, k) # Registry!Shown(page, seen, k) \/ Registry!Begins(pg, sn, k)
                                            /\ Registry!Selected(new, sn, k) # Nobody}
<1>1. new \in RegPageRec /\ new.draft = pg.draft /\ new.picks = pg.picks
  <2>1. \A k \in Registry!Kinds : Registry!Begins(pg, sn, k) =>
            (CHOOSE i \in Registry!OfKind(k) : ~ Registry!Absent(sn, i)) \in Registry!OfKind(k)
    BY DEF Registry!Begins
  <2> QED
    BY <2>1, RegKindsOfIds DEF Registry!Begun, RegPageRec
<1>2. \A k \in Registry!Kinds : ~ Registry!Begins(pg, sn, k) => new.sel[k] = pg.sel[k]
  BY DEF Registry!Begun, RegPageRec
<1>3. \A k \in Registry!Kinds : Registry!Selected(new, sn, k) # Nobody => new.sel[k] \in Registry!Ids
  BY <1>1 DEF Registry!Selected, RegPageRec
<1>4. \A k \in kinds : Registry!SeededForm(sn, new.sel[k]) \in RegForms
      /\ new.sel[k] \in Registry!OfKind(k)
  BY <1>1, <1>3, RegKindsOfIds DEF Registry!SeededForm, RegForms, RegTableRec, RegPageRec,
     Registry!Selected
<1>5. \A k \in Registry!Linked : Registry!SkillsOf(sn, new.sel[k]) \in SUBSET Skills
  BY RegSkillsTyped
<1>6. Registry!Synced(pg, sn) = Registry!Seeds(new, sn, kinds)
  BY DEF Registry!Synced
<1>7. Registry!Seeds(new, sn, kinds) \in RegPageRec /\ Registry!Seeds(new, sn, kinds).sel = new.sel
      /\ \A k \in Registry!Kinds : Registry!Seeds(new, sn, kinds).draft[k] =
            IF k \in kinds THEN Registry!SeededForm(sn, new.sel[k]) ELSE new.draft[k]
  <2> HIDE DEF new, kinds
  <2>0. kinds \subseteq Registry!Kinds
    BY DEF kinds
  <2>1. [k \in Registry!Kinds |-> IF k \in kinds THEN Registry!SeededForm(sn, new.sel[k]) ELSE new.draft[k]] \in [Registry!Kinds -> RegForms]
    BY <1>1, <1>4 DEF RegPageRec
  <2>2. [k \in Registry!Linked |-> IF k \in kinds THEN Registry!SkillsOf(sn, new.sel[k]) ELSE new.picks[k]] \in [Registry!Linked -> SUBSET Skills]
    BY <1>1, <1>5 DEF RegPageRec
  <2>3. \A k \in Registry!Kinds : new.draft[k].of \in Registry!OfKind(k) \cup {Nobody}
    BY <1>1 DEF RegPageRec
  <2>4. \A k \in kinds : Registry!SeededForm(sn, new.sel[k]).of \in Registry!OfKind(k)
    BY <1>4 DEF Registry!SeededForm
  <2> QED
    BY <1>1, <2>0, <2>1, <2>2, <2>3, <2>4 DEF Registry!Seeds, RegPageRec
<1>8. \A k \in Registry!Kinds : Registry!Selected(new, sn, k) # Nobody =>
         Registry!Seeds(new, sn, kinds).draft[k].of = new.sel[k]
  <2> SUFFICES ASSUME NEW k \in Registry!Kinds, Registry!Selected(new, sn, k) # Nobody
               PROVE  Registry!Seeds(new, sn, kinds).draft[k].of = new.sel[k]
    OBVIOUS
  <2>1. CASE k \in kinds
    <3> HIDE DEF new, kinds
    <3>1. Registry!Seeds(new, sn, kinds).draft[k] = Registry!SeededForm(sn, new.sel[k])
      BY <1>7, <2>1
    <3> QED
      BY <3>1 DEF Registry!SeededForm
  <2>2. CASE k \notin kinds
    <3>1. ~ Registry!Begins(pg, sn, k) /\ Registry!Shown(new, sn, k) = Registry!Shown(page, seen, k)
      BY <2>2
    <3>2. Registry!Shown(new, sn, k) = Registry!Shown(pg, sn, k)
          /\ Registry!Selected(new, sn, k) = Registry!Selected(pg, sn, k)
      BY <1>2, <3>1 DEF Registry!Shown, Registry!Selected
    <3> QED
      BY <1>1, <1>2, <1>7, <2>2, <3>1, <3>2
  <2> QED
    BY <2>1, <2>2
<1> QED
  BY <1>6, <1>7, <1>8 DEF RegFormed, Registry!Selected

\* One job less.
LEMMA RegProperWithout ==
    ASSUME NEW js, RegProper(js), NEW j
    PROVE  RegProper(js \ {j})
  BY DEF RegProper

\* One job more, under a number that is free.
LEMMA RegProperWith ==
    ASSUME NEW js, RegProper(js), NEW j \in js, NEW k \in RegJobRec, k.n = j.n,
           k.op = "update" => k.form.of = k.id
    PROVE  RegProper((js \ {j}) \cup {k})
  BY DEF RegProper

\* A job as it is sent.
LEMMA RegJobTyped ==
    ASSUME RegTyped, Registry!Free # {}, NEW op \in RegOps, NEW k \in Registry!Kinds,
           NEW i \in Registry!OfKind(k) \cup {Nobody},
           op = "update" => i # Nobody /\ page.draft[k].of = i
    PROVE  /\ Registry!Job(op, k, i) \in RegJobRec /\ RegProper(jobs \cup {Registry!Job(op, k, i)})
           /\ Registry!Job(op, k, i).op = op /\ Registry!Job(op, k, i).at = "out"
              /\ Registry!Job(op, k, i).id = i
           /\ \A todo \in SUBSET (Facts \cup Agents) :
                 (op \in {"set", "unset"} => todo \subseteq Facts) =>
                     RegProper(jobs \cup {[Registry!Job(op, k, i) EXCEPT !.todo = todo]})
<1>1. (CHOOSE n \in Registry!Free : TRUE) \in Registry!Free
  OBVIOUS
<1>2. Registry!Free \subseteq Registry!Jobs /\ \A j \in jobs : j.n \notin Registry!Free
  BY DEF Registry!Free
<1>3. page.draft[k] \in RegForms
  BY DEF RegTyped, RegPageRec
<1>4. (IF k \in Registry!Linked THEN page.picks[k] ELSE {}) \in SUBSET Skills
  BY DEF RegTyped, RegPageRec
<1>5. i \in Registry!Ids \cup {Nobody}
  BY RegKindsOfIds
<1>6. Registry!Job(op, k, i) \in RegJobRec
  BY <1>1, <1>2, <1>3, <1>4, <1>5 DEF Registry!Job, RegJobRec, RegTyped
<1>7. Registry!Job(op, k, i).n \in Registry!Free /\ Registry!Job(op, k, i).op = op
      /\ Registry!Job(op, k, i).at = "out"
      /\ Registry!Job(op, k, i).id = i /\ Registry!Job(op, k, i).form = page.draft[k]
  BY <1>1 DEF Registry!Job
<1>8. ASSUME NEW todo \in SUBSET (Facts \cup Agents), op \in {"set", "unset"} => todo \subseteq Facts
      PROVE  [Registry!Job(op, k, i) EXCEPT !.todo = todo] \in RegJobRec
  BY <1>6, <1>7, <1>8 DEF RegJobRec
<1> QED
  BY <1>2, <1>6, <1>7, <1>8 DEF RegProper, RegTyped, RegJobRec

\* The page as it is opened.
LEMMA RegInitKeeps == Registry!Init => RegIInv
<1> SUFFICES ASSUME Registry!Init PROVE RegIInv
  OBVIOUS
<1>1. Registry!Empty \in RegTableRec
  BY DEF Registry!Empty, RegTableRec
<1>2. table \in RegTableRec /\ table.links = {}
  BY <1>1 DEF Registry!Init, Registry!Empty, RegTableRec, Registry!Texts
<1>3. page \in RegPageRec
  BY DEF Registry!Init, RegPageRec, Registry!Blank, RegForms
<1>4. RegProper(jobs) /\ log \in [RegOwners -> SUBSET Skills] /\ rough \in BOOLEAN
  BY DEF Registry!Init, RegProper, RegOwners
<1>5. RegFormed(page, seen)
  BY DEF Registry!Init, RegFormed, Registry!Selected
<1> QED
  BY <1>1, <1>2, <1>3, <1>4, <1>5 DEF RegIInv, RegTyped, Registry!Init

\* What the person does to the page, and the page alone.
RegPageAct ==
    \/ \E k \in Registry!Kinds : \/ Registry!StartBlank(k) \/ Registry!ResetForm(k)
                                 \/ \E i \in Registry!OfKind(k) : Registry!Choose(k, i)
                                 \/ \E x \in Registry!Texts : Registry!Type(k, x)
    \/ \E k \in Registry!Linked, s \in Skills : Registry!TogglePick(k, s)
    \/ \E t \in Teams : Registry!ChooseTeamOfTree(t)
    \/ \E t \in Teams \cup {Nobody}, a \in Agents : Registry!ChooseAgentOfTree(t, a)

\* The person selects, types and picks.
LEMMA RegPageActsKeep ==
    ASSUME RegIInv, RegPageAct
    PROVE  RegIInv'
<1> USE DEF RegIInv
<1>0. page \in RegPageRec /\ seen \in RegTableRec /\ RegFormed(page, seen)
  BY DEF RegTyped
<1>1. /\ Registry!OfKind("agent") = Agents /\ Registry!OfKind("team") = Teams
      /\ \A k \in Registry!Kinds : Registry!OfKind(k) \subseteq Registry!Ids
         /\ Nobody \notin Registry!OfKind(k)
      /\ Agents \subseteq Registry!Ids /\ Teams \subseteq Registry!Ids
         /\ Nobody \notin Agents \cup Teams
  BY RegKindsOfIds, RegistryIds DEF Registry!OfKind, Registry!Ids
<1>s. SUFFICES page' \in RegPageRec /\ RegFormed(page', seen)
  <2>1. UNCHANGED <<table, seen, due, jobs, log, rough>>
    BY DEF RegPageAct, Registry!Choose, Registry!StartBlank, Registry!ResetForm, Registry!Type,
       Registry!TogglePick, Registry!ChooseTeamOfTree,
           Registry!ChooseAgentOfTree, Registry!Stays
  <2> QED
    BY <2>1 DEF RegTyped, RegFormed, Registry!Selected
<1>2. ASSUME NEW k \in Registry!Kinds, NEW i \in Registry!OfKind(k), Registry!Choose(k, i)
      PROVE  page' \in RegPageRec /\ RegFormed(page', seen)
  <2> DEFINE pg == [page EXCEPT !.sel[k] = i]
  <2>1. pg \in RegPageRec
    BY <1>0, <1>1 DEF RegPageRec
  <2>2. \A l \in Registry!Kinds : \/ Registry!Selected(pg, seen, l) = Nobody
                                       \/ pg.draft[l].of = pg.sel[l]
                                  \/ Registry!Shown(pg, seen, l) # Registry!Shown(page, seen, l)
    <3> SUFFICES ASSUME NEW l \in Registry!Kinds, Registry!Selected(pg, seen, l) # Nobody,
                        Registry!Shown(pg, seen, l) = Registry!Shown(page, seen, l)
                 PROVE  pg.draft[l].of = pg.sel[l]
      OBVIOUS
    <3>1. Registry!Selected(pg, seen, l) = Registry!Selected(page, seen, l)
      BY DEF Registry!Shown
    <3> QED
      BY <1>0, <1>2, <3>1 DEF Registry!Selected, RegFormed, RegPageRec, Registry!Choose
  <2> QED
    BY <1>0, <1>2, <2>1, <2>2, RegSyncedForms DEF Registry!Choose
<1>3. ASSUME NEW k \in Registry!Kinds, Registry!StartBlank(k)
      PROVE  page' \in RegPageRec /\ RegFormed(page', seen)
  <2> DEFINE pg == [page EXCEPT !.sel[k] = Nobody, !.draft[k] = Registry!Blank,
                                !.picks = [l \in Registry!Linked |-> IF l = k THEN {} ELSE @[l]]]
  <2>1. pg \in RegPageRec
    BY <1>0 DEF RegPageRec, Registry!Blank, RegForms
  <2>2. \A l \in Registry!Kinds : \/ Registry!Selected(pg, seen, l) = Nobody
                                       \/ pg.draft[l].of = pg.sel[l]
    BY <1>0 DEF Registry!Selected, RegFormed, RegPageRec
  <2> QED
    BY <1>0, <1>3, <2>1, <2>2, RegSyncedForms DEF Registry!StartBlank
<1>4. ASSUME NEW k \in Registry!Kinds, Registry!ResetForm(k)
      PROVE  page' \in RegPageRec /\ RegFormed(page', seen)
  <2> DEFINE o == Registry!Selected(page, seen, k)
             form == IF o = Nobody THEN Registry!Blank ELSE Registry!SeededForm(seen, o)
             picks == [l \in Registry!Linked |-> IF l # k THEN page.picks[l]
                                        ELSE IF o = Nobody THEN {} ELSE Registry!SkillsOf(seen, o)]
  <2>1. o \in Registry!OfKind(k) \cup {Nobody} /\ o \in Registry!Ids \cup {Nobody} /\ (o # Nobody
        => o = page.sel[k])
    BY <1>0, RegKindsOfIds DEF Registry!Selected, RegPageRec
  <2>2. form \in RegForms /\ form.of = o
    BY <1>0, <2>1 DEF Registry!SeededForm, Registry!Blank, RegForms, RegTableRec
  <2>3. picks \in [Registry!Linked -> SUBSET Skills]
    BY <1>0, RegSkillsTyped DEF RegPageRec
  <2>4. page' = [page EXCEPT !.draft[k] = form, !.picks = picks]
    BY <1>4 DEF Registry!ResetForm
  <2> HIDE DEF o, form, picks
  <2>5. page' \in RegPageRec
    BY <1>0, <2>1, <2>2, <2>3, <2>4 DEF RegPageRec
  <2>6. \A l \in Registry!Kinds : Registry!Selected(page', seen, l) = Registry!Selected(page, seen, l)
    BY <1>0, <2>4 DEF Registry!Selected, RegPageRec
  <2>7. RegFormed(page', seen)
    BY <1>0, <2>1, <2>2, <2>4, <2>6 DEF RegFormed, RegPageRec, o
  <2> QED
    BY <2>5, <2>7
<1>5. ASSUME NEW k \in Registry!Kinds, NEW x \in Registry!Texts, Registry!Type(k, x)
      PROVE  page' \in RegPageRec /\ RegFormed(page', seen)
  <2>1. page' = [page EXCEPT !.draft[k].text = x]
    BY <1>5 DEF Registry!Type
  <2>2. page' = [page EXCEPT !.draft[k] = [page.draft[k] EXCEPT !.text = x]]
    BY <1>0, <2>1 DEF RegPageRec
  <2>f. page.draft[k] \in RegForms
    BY <1>0 DEF RegPageRec
  <2>3. [page.draft[k] EXCEPT !.text = x] \in RegForms
    BY <2>f DEF RegForms
  <2>4. [page.draft[k] EXCEPT !.text = x].of = page.draft[k].of
    BY <1>0 DEF RegPageRec, RegForms
  <2> HIDE DEF RegForms
  <2>5. page' \in RegPageRec
    BY <1>0, <2>2, <2>3, <2>4 DEF RegPageRec
  <2> QED
    BY <1>0, <2>2, <2>4, <2>5 DEF RegPageRec, RegFormed, Registry!Selected
<1>6. ASSUME NEW k \in Registry!Linked, NEW s \in Skills, Registry!TogglePick(k, s)
      PROVE  page' \in RegPageRec /\ RegFormed(page', seen)
  BY <1>0, <1>6 DEF Registry!TogglePick, RegPageRec, RegFormed, Registry!Selected
<1>7. ASSUME NEW t \in Teams, Registry!ChooseTeamOfTree(t)
      PROVE  page' \in RegPageRec /\ RegFormed(page', seen)
  <2> DEFINE pg == [page EXCEPT !.sel["team"] = t, !.sel["agent"] = Nobody]
  <2>1. pg \in RegPageRec
    BY <1>0, <1>1 DEF RegPageRec, Registry!Kinds
  <2>2. \A l \in Registry!Kinds : \/ Registry!Selected(pg, seen, l) = Nobody
                                       \/ pg.draft[l].of = pg.sel[l]
                                  \/ Registry!Shown(pg, seen, l) # Registry!Shown(page, seen, l)
    <3> SUFFICES ASSUME NEW l \in Registry!Kinds, Registry!Selected(pg, seen, l) # Nobody,
                        Registry!Shown(pg, seen, l) = Registry!Shown(page, seen, l)
                 PROVE  pg.draft[l].of = pg.sel[l]
      OBVIOUS
    <3>1. Registry!Selected(pg, seen, l) = Registry!Selected(page, seen, l)
      BY DEF Registry!Shown
    <3> QED
      BY <1>0, <1>7, <3>1 DEF Registry!Selected, RegFormed, RegPageRec, Registry!Kinds
  <2> QED
    BY <1>0, <1>7, <2>1, <2>2, RegSyncedForms DEF Registry!ChooseTeamOfTree
<1>8. ASSUME NEW t \in Teams \cup {Nobody}, NEW a \in Agents, Registry!ChooseAgentOfTree(t, a)
      PROVE  page' \in RegPageRec /\ RegFormed(page', seen)
  <2> DEFINE pg == [page EXCEPT !.sel["team"] = t, !.sel["agent"] = a]
  <2>1. pg \in RegPageRec
    BY <1>0, <1>1 DEF RegPageRec, Registry!Kinds
  <2>2. \A l \in Registry!Kinds : \/ Registry!Selected(pg, seen, l) = Nobody
                                       \/ pg.draft[l].of = pg.sel[l]
                                  \/ Registry!Shown(pg, seen, l) # Registry!Shown(page, seen, l)
    <3> SUFFICES ASSUME NEW l \in Registry!Kinds, Registry!Selected(pg, seen, l) # Nobody,
                        Registry!Shown(pg, seen, l) = Registry!Shown(page, seen, l)
                 PROVE  pg.draft[l].of = pg.sel[l]
      OBVIOUS
    <3>1. Registry!Selected(pg, seen, l) = Registry!Selected(page, seen, l)
      BY DEF Registry!Shown
    <3> QED
      BY <1>0, <1>8, <3>1 DEF Registry!Selected, RegFormed, RegPageRec, Registry!Kinds
  <2> QED
    BY <1>0, <1>8, <2>1, <2>2, RegSyncedForms DEF Registry!ChooseAgentOfTree
<1> QED
  BY <1>2, <1>3, <1>4, <1>5, <1>6, <1>7, <1>8 DEF RegPageAct

\* What the person sends to the backend.
RegSending ==
    \/ \E k \in Registry!Kinds : Registry!Save(k) \/ Registry!Delete(k)
    \/ \E f \in Facts, op \in {"set", "unset"} : Registry!ChangeFact(f, op)
    \/ \E as \in SUBSET Agents : Registry!Bind(as)

\* The person saves, deletes or binds.
LEMMA RegSendsKeep ==
    ASSUME RegIInv, RegSending
    PROVE  RegIInv'
<1> USE DEF RegIInv
<1>0. page \in RegPageRec /\ seen \in RegTableRec /\ RegFormed(page, seen) /\ RegProper(jobs)
  BY DEF RegTyped
<1>s. SUFFICES RegProper(jobs') /\ log' \in [RegOwners -> SUBSET Skills]
  <2>1. UNCHANGED <<table, seen, due, page, rough>>
    BY DEF RegSending, Registry!Save, Registry!Delete, Registry!ChangeFact, Registry!Bind
  <2> QED
    BY <2>1 DEF RegTyped, RegFormed, Registry!Selected
<1>1. ASSUME NEW k \in Registry!Kinds, Registry!Save(k)
      PROVE  RegProper(jobs') /\ log' \in [RegOwners -> SUBSET Skills]
  <2> DEFINE i == Registry!Selected(page, seen, k)
             op2 == IF i = Nobody THEN "create" ELSE "update"
  <2>1. Registry!Begin(Registry!Job(op2, k, i))
        /\ log' = [p \in RegOwners |-> IF p = i THEN page.picks[k] ELSE log[p]]
    BY <1>1 DEF Registry!Save, RegOwners
  <2>2. i \in Registry!OfKind(k) \cup {Nobody} /\ (i # Nobody => i = page.sel[k])
    BY <1>0 DEF Registry!Selected, RegPageRec
  <2>3. i # Nobody => page.draft[k].of = i
    BY <1>0, <2>2 DEF RegFormed
  <2>4. op2 \in RegOps /\ (op2 = "update" => i # Nobody)
    BY DEF RegOps
  <2>5. \A p \in RegOwners : p = i => k \in Registry!Linked
    BY <2>2, RegistryIds DEF Registry!OfKind, Registry!Kinds, Registry!Linked, RegOwners
  <2>6. log' \in [RegOwners -> SUBSET Skills]
    BY <1>0, <2>1, <2>5 DEF RegTyped, RegPageRec
  <2> HIDE DEF i, op2
  <2>7. RegProper(jobs')
    BY <2>1, <2>2, <2>3, <2>4, RegJobTyped DEF Registry!Begin
  <2> QED
    BY <2>6, <2>7
<1>2. ASSUME NEW k \in Registry!Kinds, Registry!Delete(k)
      PROVE  RegProper(jobs') /\ log' \in [RegOwners -> SUBSET Skills]
  <2>1. page.sel[k] \in Registry!OfKind(k) \cup {Nobody} /\ "delete" \in RegOps
    BY <1>0 DEF RegPageRec, RegOps
  <2>2. RegProper(jobs')
    BY <1>2, <2>1, RegJobTyped DEF Registry!Delete, Registry!Begin
  <2> QED
    BY <1>2, <2>2 DEF Registry!Delete, RegTyped
<1>3. ASSUME NEW f \in Facts, NEW op \in {"set", "unset"}, Registry!ChangeFact(f, op)
      PROVE  RegProper(jobs') /\ log' \in [RegOwners -> SUBSET Skills]
  <2>1. Registry!Begin([Registry!Job(op, "team", Nobody) EXCEPT !.todo = {f}])
    BY <1>3 DEF Registry!ChangeFact
  <2>2. op \in RegOps /\ "team" \in Registry!Kinds /\ {f} \in SUBSET (Facts \cup Agents)
        /\ {f} \subseteq Facts
    BY DEF RegOps, Registry!Kinds
  <2>3. RegProper(jobs')
    BY <2>1, <2>2, RegJobTyped DEF Registry!Begin
  <2> QED
    BY <1>3, <2>3 DEF Registry!ChangeFact, RegTyped
<1>4. ASSUME NEW as \in SUBSET Agents, Registry!Bind(as)
      PROVE  RegProper(jobs') /\ log' \in [RegOwners -> SUBSET Skills]
  <2>1. Registry!Begin([Registry!Job("bind", "agent", Nobody) EXCEPT !.todo = as])
    BY <1>4 DEF Registry!Bind
  <2>2. "bind" \in RegOps /\ "agent" \in Registry!Kinds /\ as \in SUBSET (Facts \cup Agents)
    BY DEF RegOps, Registry!Kinds
  <2>3. RegProper(jobs')
    BY <2>1, <2>2, RegJobTyped DEF Registry!Begin
  <2> QED
    BY <1>4, <2>3 DEF Registry!Bind, RegTyped
<1> QED
  BY <1>1, <1>2, <1>3, <1>4 DEF RegSending

\* What the person does keeps the invariant.
LEMMA RegActKeeps == RegIInv /\ Registry!Act => RegIInv'
<1>1. Registry!Act => RegPageAct \/ RegSending
  BY DEF Registry!Act, RegPageAct, RegSending, Registry!ChangeMembership, Registry!ChangeScope,
     Registry!ChangePolicy
<1> QED
  BY <1>1, RegPageActsKeep, RegSendsKeep

\* Jobs that go on under their number keep the jobs proper.
LEMMA RegBecomesProper ==
    ASSUME RegProper(jobs), NEW j \in jobs,
           NEW k \in RegJobRec, k.n = j.n, k.op = j.op, k.form = j.form,
           j.op = "update" => k.id = j.id, Registry!Becomes(j, k)
    PROVE  RegProper(jobs')
<1>1. k.op = "update" => k.form.of = k.id
  BY DEF RegProper
<1> QED
  BY <1>1, RegProperWith DEF Registry!Becomes

\* A change of the tables leaves the page and the jobs.
LEMMA RegTablesOnly ==
    ASSUME RegIInv, UNCHANGED <<seen, page>>, due' \subseteq Registry!Queries, rough' \in BOOLEAN,
           table' \in RegTableRec, \A l, m \in table'.links : <<l[1], l[2]>> = <<m[1], m[2]>> => l = m,
           RegProper(jobs'), log' \in [RegOwners -> SUBSET Skills]
    PROVE  RegIInv'
  BY DEF RegIInv, RegTyped, RegFormed, Registry!Selected

\* A page that is rendered with the rows or links that were fetched.
LEMMA RegRenderedAgain ==
    ASSUME RegIInv, NEW sn \in RegTableRec
    PROVE  Registry!Synced(page, sn) \in RegPageRec /\ RegFormed(Registry!Synced(page, sn), sn)
<1>1. page \in RegPageRec /\ RegFormed(page, seen)
  BY DEF RegIInv, RegTyped
<1>2. ASSUME NEW k \in Registry!Kinds, Registry!Selected(page, sn, k) # Nobody, Registry!Shown(page, sn, k) = Registry!Shown(page, seen, k)
      PROVE  page.draft[k].of = page.sel[k]
  <2>1. Registry!Selected(page, sn, k) = Registry!Selected(page, seen, k)
    BY <1>2 DEF Registry!Shown
  <2> QED
    BY <1>1, <1>2, <2>1 DEF RegFormed
<1> QED
  BY <1>1, <1>2, RegSyncedForms

\* A row is written: the job goes on to the links.
LEMMA RegWriteRowKeeps ==
    ASSUME RegIInv, NEW j \in jobs, Registry!WriteRow(j)
    PROVE  RegIInv'
<1>0. /\ j \in RegJobRec /\ RegProper(jobs) /\ table \in RegTableRec /\ seen \in RegTableRec
         /\ page \in RegPageRec
      /\ log \in [RegOwners -> SUBSET Skills] /\ rough \in BOOLEAN /\ due \subseteq Registry!Queries
      /\ \A l, m \in table.links : <<l[1], l[2]>> = <<m[1], m[2]>> => l = m
      /\ RegFormed(page, seen) /\ Registry!OfKind(j.kind) \subseteq Registry!Ids
  BY RegKindsOfIds DEF RegIInv, RegTyped, RegProper, RegJobRec
<1>t. j.form.text \in Registry!Texts \cup {""}
  BY <1>0 DEF RegJobRec, RegForms
<1>1. ASSUME NEW i \in Registry!OfKind(j.kind), j.op = "create", j.at = "out",
             table' = [table EXCEPT !.rows[i] = j.form.text],
             Registry!Becomes(j, [j EXCEPT !.at = "refetch", !.id = i]), due' = Registry!Queries,
             log' = [p \in Agents \cup Teams |-> IF p = i THEN j.picks ELSE log[p]],
             seen' = IF j.kind = "team" THEN [seen EXCEPT !.rows[i] = j.form.text] ELSE seen,
             page' = Registry!Synced(page, seen'), UNCHANGED <<rough, acts>>
      PROVE  RegIInv'
  <2>1. table' \in RegTableRec /\ table'.links = table.links /\ seen' \in RegTableRec
    BY <1>0, <1>1, <1>t DEF RegTableRec
  <2>2. i \in Registry!Ids /\ i # Nobody
    BY <1>0, RegKindsOfIds DEF RegJobRec
  <2>3. [j EXCEPT !.at = "refetch", !.id = i] \in RegJobRec
    BY <1>0, <1>1, <2>2 DEF RegJobRec
  <2>4. RegProper(jobs')
    BY <1>0, <1>1, <2>3, RegBecomesProper DEF RegJobRec
  <2>5. log' \in [RegOwners -> SUBSET Skills]
    BY <1>0, <1>1 DEF RegOwners, RegJobRec
  <2>6. page' \in RegPageRec /\ RegFormed(page', seen')
    BY <1>1, <2>1, RegRenderedAgain
  <2> QED
    BY <1>0, <1>1, <2>1, <2>4, <2>5, <2>6 DEF RegIInv, RegTyped, RegFormed, Registry!Selected,
       Registry!Absent
<1>2. ASSUME NEW i \in Registry!OfKind(j.kind), j.at = "out", j.op = "update", i = j.id,
             table' = [table EXCEPT !.rows[i] = j.form.text],
             Registry!Answered(j), UNCHANGED <<log, seen, page, rough, acts>>
      PROVE  RegIInv'
  <2>1. table' \in RegTableRec /\ table'.links = table.links
    BY <1>0, <1>2, <1>t DEF RegTableRec
  <2>3. [j EXCEPT !.at = "refetch"] \in RegJobRec
    BY <1>0, <1>2 DEF RegJobRec
  <2>4. RegProper(jobs')
    BY <1>0, <1>2, <2>3, RegBecomesProper DEF RegJobRec, Registry!Answered
  <2> QED
    BY <1>0, <1>2, <2>1, <2>4, RegTablesOnly DEF Registry!Answered
<1>3. ASSUME NEW i \in Registry!OfKind(j.kind), j.at = "out", j.op = "delete", i = j.id,
             table' = [rows |-> [table.rows EXCEPT ![i] = ""],
                       links |-> {l \in table.links : i \notin {l[1], l[2]}},
                       facts |-> {f \in table.facts : i \notin About[f]},
                       bound |-> [a \in Agents |-> IF a = i THEN 0 ELSE table.bound[a]]],
             log' = [p \in Agents \cup Teams |-> IF p = i THEN {} ELSE log[p] \ {i}],
             Registry!Becomes(j, [j EXCEPT !.at = "refetch", !.sn = seen]), due' = Registry!Queries,
             UNCHANGED <<seen, page, rough, acts>>
      PROVE  RegIInv'
  <2>1. table' \in RegTableRec /\ table'.links \subseteq table.links
    BY <1>0, <1>3 DEF RegTableRec
  <2>3. [j EXCEPT !.at = "refetch", !.sn = seen] \in RegJobRec
    BY <1>0, <1>3 DEF RegJobRec
  <2>4. RegProper(jobs')
    BY <1>0, <1>3, <2>3, RegBecomesProper DEF RegJobRec
  <2>5. log' \in [RegOwners -> SUBSET Skills]
    BY <1>0, <1>3 DEF RegOwners
  <2>6. \A l, m \in table'.links : <<l[1], l[2]>> = <<m[1], m[2]>> => l = m
    BY <1>0, <2>1
  <2> QED
    BY <1>0, <1>3, <2>1, <2>4, <2>5, <2>6, RegTablesOnly
<1> QED
  BY <1>1, <1>2, <1>3 DEF Registry!WriteRow

\* The backend answers any call.
LEMMA RegServeKeeps ==
    ASSUME RegIInv, NEW j \in jobs, Registry!Serve(j)
    PROVE  RegIInv'
<1>0. /\ j \in RegJobRec /\ RegProper(jobs) /\ table \in RegTableRec /\ seen \in RegTableRec
         /\ page \in RegPageRec
      /\ log \in [RegOwners -> SUBSET Skills] /\ rough \in BOOLEAN /\ due \subseteq Registry!Queries
      /\ \A l, m \in table.links : <<l[1], l[2]>> = <<m[1], m[2]>> => l = m
  BY DEF RegIInv, RegTyped, RegProper, RegJobRec
<1>1. CASE Registry!WriteRow(j)
  BY <1>1, RegWriteRowKeeps
<1>2. CASE Registry!WriteFails(j)
  BY <1>0, <1>2, RegProperWithout, RegTablesOnly DEF Registry!WriteFails
<1>3. CASE Registry!WriteFact(j)
  <2>1. table' \in RegTableRec /\ table'.links = table.links
    BY <1>0, <1>3 DEF RegTableRec, Registry!WriteFact, RegJobRec
  <2>2. [j EXCEPT !.at = "refetch"] \in RegJobRec
    BY <1>0, <1>3 DEF RegJobRec, Registry!WriteFact
  <2>3. RegProper(jobs')
    BY <1>0, <1>3, <2>2, RegBecomesProper DEF RegJobRec, Registry!Answered, Registry!WriteFact
  <2> QED
    BY <1>0, <1>3, <2>1, <2>3, RegTablesOnly DEF Registry!WriteFact, Registry!Answered
<1>4. ASSUME NEW a \in Agents, Registry!BindClear(j, a) PROVE RegIInv'
  <2>1. table' \in RegTableRec /\ table'.links = table.links
    BY <1>0, <1>4 DEF RegTableRec, Registry!BindClear
  <2>2. [j EXCEPT !.todo = @ \ {a}, !.add = @ \cup {a}] \in RegJobRec
    BY <1>0, <1>4 DEF RegJobRec, Registry!BindClear
  <2>3. RegProper(jobs')
    BY <1>0, <1>4, <2>2, RegBecomesProper DEF RegJobRec, Registry!BindClear
  <2> QED
    BY <1>0, <1>4, <2>1, <2>3, RegTablesOnly DEF Registry!BindClear
<1>5. ASSUME NEW a \in Agents, Registry!BindInsert(j, a) PROVE RegIInv'
  <2>1. table' \in RegTableRec /\ table'.links = table.links
    <3>1. table.bound[a] \in Nat
      BY <1>0 DEF RegTableRec
    <3>2. table.bound[a] + 1 \in Nat
      BY <3>1
    <3> QED
      BY <1>0, <1>5, <3>2 DEF RegTableRec, Registry!BindInsert
  <2> DEFINE k == [j EXCEPT !.add = @ \ {a}]
             m == IF k.todo = {} /\ k.add = {} THEN [k EXCEPT !.at = "refetch"] ELSE k
  <2>2. m \in RegJobRec /\ m.n = j.n /\ m.op = j.op /\ m.form = j.form /\ m.id = j.id
    BY <1>0, <1>5 DEF RegJobRec, Registry!BindInsert
  <2>3. Registry!Becomes(j, m)
    BY <1>5 DEF Registry!BindInsert
  <2>4. RegProper(jobs')
    BY <1>0, <2>2, <2>3, RegBecomesProper
  <2> QED
    BY <1>0, <1>5, <2>1, <2>4, RegTablesOnly DEF Registry!BindInsert
<1>6. ASSUME NEW l \in j.todo, Registry!Unlink(j, l) PROVE RegIInv'
  <2>1. table' \in RegTableRec /\ table'.links \subseteq table.links
    BY <1>0, <1>6 DEF RegTableRec, Registry!Unlink
  <2>2. [j EXCEPT !.todo = @ \ {l}] \in RegJobRec
    BY <1>0, <1>6 DEF RegJobRec, Registry!Unlink
  <2>3. RegProper(jobs')
    BY <1>0, <1>6, <2>2, RegBecomesProper DEF RegJobRec, Registry!Unlink
  <2>4. \A x, y \in table'.links : <<x[1], x[2]>> = <<y[1], y[2]>> => x = y
    BY <1>0, <2>1
  <2> QED
    BY <1>0, <1>6, <2>1, <2>3, <2>4, RegTablesOnly DEF Registry!Unlink
<1>7. ASSUME NEW s \in Skills, Registry!Link(j, s) PROVE RegIInv'
  <2> DEFINE n == CHOOSE n \in Registry!FreshStamps(j.id, s) : TRUE
             new == <<j.id, s, n>>
  <2>1. table' = [table EXCEPT !.links = {l \in @ : l[1] # j.id \/ l[2] # s} \cup {new}]
    BY <1>7 DEF Registry!Link
  <2>2. n \in Registry!Stamps
    BY <1>7 DEF Registry!Link, Registry!FreshStamps
  <2>3. j.id \in RegOwners
    BY <1>0, <1>7, RegKindsOfIds DEF Registry!Link, RegJobRec
  <2>4. new \in RegRows /\ new[1] = j.id /\ new[2] = s
    BY <2>2, <2>3 DEF RegRows
  <2> HIDE DEF new
  <2>5. table' \in RegTableRec /\ table'.links = {l \in table.links : l[1] # j.id
        \/ l[2] # s} \cup {new}
    BY <1>0, <2>1, <2>4 DEF RegTableRec
  <2>6. \A x, y \in table'.links : <<x[1], x[2]>> = <<y[1], y[2]>> => x = y
    BY <1>0, <2>4, <2>5
  <2>7. [j EXCEPT !.add = @ \ {s}] \in RegJobRec
    BY <1>0, <1>7 DEF RegJobRec, Registry!Link
  <2>8. RegProper(jobs')
    BY <1>0, <1>7, <2>7, RegBecomesProper DEF RegJobRec, Registry!Link
  <2> QED
    BY <1>0, <1>7, <2>5, <2>6, <2>8, RegTablesOnly DEF Registry!Link
<1>8. CASE Registry!LinkFails(j)
  <2>1. RegProper(jobs')
    <3>1. ASSUME NEW l \in j.todo, j.at = "links", Registry!Becomes(j, [j EXCEPT !.todo = @ \ {l}, !.failed = TRUE])
          PROVE  RegProper(jobs')
      <4>1. [j EXCEPT !.todo = @ \ {l}, !.failed = TRUE] \in RegJobRec
        BY <1>0, <3>1 DEF RegJobRec
      <4> QED
        BY <1>0, <3>1, <4>1, RegBecomesProper DEF RegJobRec
    <3>2. ASSUME NEW s \in j.add, j.at = "links", Registry!Becomes(j, [j EXCEPT !.add = @ \ {s}, !.failed = TRUE])
          PROVE  RegProper(jobs')
      <4>1. [j EXCEPT !.add = @ \ {s}, !.failed = TRUE] \in RegJobRec
        BY <1>0, <3>2 DEF RegJobRec
      <4> QED
        BY <1>0, <3>2, <4>1, RegBecomesProper DEF RegJobRec
    <3> QED
      BY <1>8, <3>1, <3>2 DEF Registry!LinkFails
  <2> QED
    BY <1>0, <1>8, <2>1, RegTablesOnly DEF Registry!LinkFails
<1> QED
  BY <1>1, <1>2, <1>3, <1>4, <1>5, <1>6, <1>7, <1>8 DEF Registry!Serve

\* The page follows an answer: it invalidates, selects, or sends the next link.
LEMMA RegFollowKeeps ==
    ASSUME RegIInv, NEW j \in jobs, Registry!Follow(j)
    PROVE  RegIInv'
<1>0. /\ j \in RegJobRec /\ RegProper(jobs) /\ table \in RegTableRec /\ seen \in RegTableRec
         /\ page \in RegPageRec
      /\ log \in [RegOwners -> SUBSET Skills] /\ rough \in BOOLEAN /\ due \subseteq Registry!Queries
      /\ \A l, m \in table.links : <<l[1], l[2]>> = <<m[1], m[2]>> => l = m
      /\ RegFormed(page, seen) /\ j.kind \in Registry!Kinds
  BY DEF RegIInv, RegTyped, RegProper, RegJobRec
<1>1. CASE Registry!Saved(j)
  <2> DEFINE form == [of |-> j.id, text |-> j.form.text]
             picks == [l \in Registry!Linked |-> IF j.op = "create" /\ l = "team" /\ l = j.kind
                                        THEN {} ELSE page.picks[l]]
             pg == [page EXCEPT !.sel[j.kind] = j.id, !.draft[j.kind] = form, !.picks = picks]
  <2>1. j.id \in Registry!OfKind(j.kind) /\ j.id \in Registry!Ids
    BY <1>0, <1>1, RegKindsOfIds DEF Registry!Saved, RegJobRec
  <2>2. form \in RegForms /\ form.of = j.id
    BY <1>0, <2>1 DEF RegForms, RegJobRec
  <2>3. picks \in [Registry!Linked -> SUBSET Skills]
    BY <1>0 DEF RegPageRec
  <2>4. page' = Registry!Synced(pg, seen)
    BY <1>1 DEF Registry!Saved
  <2> HIDE DEF form, picks
  <2>5. pg \in RegPageRec
    BY <1>0, <2>1, <2>2, <2>3 DEF RegPageRec
  <2>6. \A l \in Registry!Kinds : Registry!Selected(pg, seen, l) = Nobody \/ pg.draft[l].of = pg.sel[l]
    BY <1>0, <2>2 DEF RegFormed, Registry!Selected, RegPageRec
  <2>7. page' \in RegPageRec /\ RegFormed(page', seen)
    BY <1>0, <2>4, <2>5, <2>6, RegSyncedForms
  <2>8. RegProper(jobs')
    <3>1. CASE j.kind \in Registry!Linked
      <4> DEFINE k == [j EXCEPT !.at = "links", !.todo = Registry!LinkChanges(j).drop, !.add = Registry!LinkChanges(j).add]
      <4>1. Registry!LinkChanges(j).drop \in SUBSET RegRows
            /\ Registry!LinkChanges(j).add \in SUBSET Skills
        BY <1>0, RegSkillsTyped DEF Registry!LinkChanges, RegJobRec
      <4>2. k \in RegJobRec
        BY <1>0, <1>1, <3>1, <4>1 DEF RegJobRec, Registry!Saved
      <4>3. Registry!Becomes(j, k)
        BY <1>1, <3>1 DEF Registry!Saved
      <4> QED
        BY <1>0, <4>2, <4>3, RegBecomesProper DEF RegJobRec
    <3>2. CASE j.kind \notin Registry!Linked
      <4>1. jobs' = jobs \ {j}
        BY <1>1, <3>2 DEF Registry!Saved
      <4> QED
        BY <1>0, <4>1, RegProperWithout
    <3> QED
      BY <3>1, <3>2
  <2>9. UNCHANGED <<table, seen, due, log, rough>>
    BY <1>1 DEF Registry!Saved
  <2> QED
    BY <1>0, <2>7, <2>8, <2>9 DEF RegIInv, RegTyped, RegFormed, Registry!Selected,
       Registry!Absent
<1>2. CASE Registry!Deleted(j)
  <2>0. PICK i \in {o \in Registry!OfKind(j.kind) \ {j.id} : ~ Registry!Absent(j.sn, o)} \cup {Nobody} :
            page' = Registry!Synced([page EXCEPT !.sel[j.kind] = i,
                                        !.draft[j.kind] = IF i = Nobody THEN Registry!Blank ELSE Registry!SeededForm(j.sn, i),
                                        !.picks = [l \in Registry!Linked |-> IF l = j.kind THEN {} ELSE @[l]]], seen)
    BY <1>2 DEF Registry!Deleted
  <2> DEFINE form == IF i = Nobody THEN Registry!Blank ELSE Registry!SeededForm(j.sn, i)
             picks == [l \in Registry!Linked |-> IF l = j.kind THEN {} ELSE page.picks[l]]
             pg == [page EXCEPT !.sel[j.kind] = i, !.draft[j.kind] = form, !.picks = picks]
  <2>1. i \in Registry!OfKind(j.kind) \cup {Nobody} /\ i \in Registry!Ids \cup {Nobody}
    BY <1>0, RegKindsOfIds
  <2>2. form \in RegForms /\ form.of = i
    BY <1>0, <2>1 DEF RegForms, RegJobRec, RegTableRec, Registry!Blank, Registry!SeededForm
  <2>3. picks \in [Registry!Linked -> SUBSET Skills]
    BY <1>0 DEF RegPageRec
  <2>4. page' = Registry!Synced(pg, seen)
    BY <2>0
  <2> HIDE DEF form, picks
  <2>5. pg \in RegPageRec
    BY <1>0, <2>1, <2>2, <2>3 DEF RegPageRec
  <2>6. \A l \in Registry!Kinds : Registry!Selected(pg, seen, l) = Nobody \/ pg.draft[l].of = pg.sel[l]
    BY <1>0, <2>2 DEF RegFormed, Registry!Selected, RegPageRec
  <2>7. page' \in RegPageRec /\ RegFormed(page', seen)
    BY <1>0, <2>4, <2>5, <2>6, RegSyncedForms
  <2>8. RegProper(jobs')
    BY <1>0, <1>2, RegProperWithout DEF Registry!Deleted
  <2>9. UNCHANGED <<table, seen, due, log, rough>>
    BY <1>2 DEF Registry!Deleted
  <2> QED
    BY <1>0, <2>7, <2>8, <2>9 DEF RegIInv, RegTyped, RegFormed, Registry!Selected,
       Registry!Absent
<1>3. CASE Registry!Changed(j)
  BY <1>0, <1>3, RegProperWithout, RegTablesOnly DEF Registry!Changed
<1>4. CASE Registry!LinksDone(j)
  <2>1. RegProper(jobs') /\ due' \subseteq Registry!Queries
    BY <1>0, <1>4, RegProperWithout DEF Registry!LinksDone
  <2>2. page' \in RegPageRec /\ page'.sel = page.sel /\ page'.draft = page.draft
    BY <1>0, <1>4 DEF Registry!LinksDone, RegPageRec, RegJobRec
  <2>3. UNCHANGED <<table, seen, log, rough>>
    BY <1>4 DEF Registry!LinksDone
  <2> QED
    BY <1>0, <2>1, <2>2, <2>3 DEF RegIInv, RegTyped, RegFormed, Registry!Selected,
       Registry!Absent
<1> QED
  BY <1>1, <1>2, <1>3, <1>4 DEF Registry!Follow

\* A query is fetched, or its fetch fails.
LEMMA RegFetchKeeps ==
    ASSUME RegIInv, NEW q \in Registry!Queries, Registry!Fetch(q) \/ Registry!FetchFails(q)
    PROVE  RegIInv'
<1>0. /\ RegProper(jobs) /\ table \in RegTableRec /\ seen \in RegTableRec /\ page \in RegPageRec
      /\ log \in [RegOwners -> SUBSET Skills] /\ rough \in BOOLEAN /\ due \subseteq Registry!Queries
      /\ \A l, m \in table.links : <<l[1], l[2]>> = <<m[1], m[2]>> => l = m
      /\ RegFormed(page, seen)
  BY DEF RegIInv, RegTyped
<1>1. CASE Registry!Fetch(q)
  <2>1. seen' \in RegTableRec
    BY <1>0, <1>1 DEF Registry!Fetch, Registry!Queries, RegTableRec
  <2>2. page' \in RegPageRec /\ RegFormed(page', seen')
    BY <1>1, <2>1, RegRenderedAgain DEF Registry!Fetch
  <2>3. UNCHANGED <<table, jobs, log, rough>> /\ due' \subseteq Registry!Queries
    BY <1>0, <1>1 DEF Registry!Fetch
  <2> QED
    BY <1>0, <2>1, <2>2, <2>3 DEF RegIInv, RegTyped, RegProper, RegFormed, Registry!Selected,
       Registry!Absent
<1>2. CASE Registry!FetchFails(q)
  BY <1>0, <1>2, RegTablesOnly DEF Registry!FetchFails
<1> QED
  BY <1>1, <1>2

\* Every step keeps the invariant.
LEMMA RegStepKeeps == RegIInv /\ [Registry!Next]_Registry!vars => RegIInv'
<1>1. RegIInv /\ UNCHANGED Registry!vars => RegIInv'
  BY DEF Registry!vars, RegIInv, RegTyped, RegFormed, Registry!Selected, Registry!Absent,
     RegProper
<1> QED
  BY <1>1, RegActKeeps, RegServeKeeps, RegFollowKeeps, RegFetchKeeps DEF Registry!Next

\* The invariant says what the types are.
LEMMA RegTypeOKHolds == RegIInv => Registry!TypeOK
<1> SUFFICES ASSUME RegIInv PROVE Registry!TypeOK
  OBVIOUS
<1>1. table \in RegTableRec /\ seen \in RegTableRec /\ page \in RegPageRec /\ jobs \subseteq RegJobRec
  BY DEF RegIInv, RegTyped, RegProper
<1> QED
  BY <1>1 DEF RegIInv, RegTyped, Registry!TypeOK, RegTableRec, RegPageRec, RegJobRec, RegRows,
     RegOwners

\* The invariant says that an edit is saved with the form of its row.
LEMMA RegOwnFormHolds == RegIInv => Registry!OwnForm
  BY DEF RegIInv, RegTyped, RegProper, Registry!OwnForm

(* For a person who waits *)

\* One thing is under way at a time, and a write finds nothing else due.
RegOneJob == /\ \A j, k \in jobs : j = k
             /\ \A j \in jobs : j.op \in {"create", "update"} => ~ j.failed

\* What was fetched is what there is.
RegMirror ==
    /\ "rows" \notin due => seen.rows = table.rows
    /\ "links" \notin due /\ (\A j \in jobs : j.at # "links") => seen.links = table.links

\* The save that settles the skills of p, and how far it is.
RegSettles(j, p) == j.op \in {"create", "update"} /\ j.id = p
RegSettledBy(tb, pk, j) ==
    /\ j.at = "out" => /\ j.sn.links = tb.links
                      /\ (j.op = "create" => j.id = Nobody)
                      /\ (j.op = "update" => ~ Registry!Absent(tb, j.id))
    /\ j.id \in Agents \cup Teams => pk[j.id] = j.picks
    /\ j.at = "refetch" => Registry!LinksOf(j.sn, j.id) = Registry!LinksOf(tb, j.id)
    /\ j.at = "links" => LET L == Registry!LinksOf(tb, j.id)
                        IN  /\ j.todo \subseteq L /\ \A l \in j.todo : l[2] \notin j.picks
                            /\ {l[2] : l \in L \ j.todo} \cup j.add = j.picks

RegAsPicked ==
    /\ \A p \in Agents \cup Teams :
          (\A j \in jobs : ~ RegSettles(j, p)) => Registry!SkillsOf(table, p) = log[p]
    /\ \A j \in jobs : j.op \in {"create", "update"} => RegSettledBy(table, log, j)

RegAtMostOne == /\ \A a \in Agents : table.bound[a] <= 1
                /\ \A j \in jobs : j.op = "bind" => \A a \in j.add \cap Agents : table.bound[a] = 0

RegWaited == ~ rough => RegOneJob /\ RegMirror /\ RegAsPicked /\ RegAtMostOne

\* Nothing is under way on a page that is opened.
LEMMA RegInitWaited == Registry!Init => RegWaited
<1> SUFFICES ASSUME Registry!Init PROVE RegWaited
  OBVIOUS
<1>1. table.links = {} /\ \A a \in Agents : table.bound[a] = 0
  BY DEF Registry!Init, Registry!Empty
<1>2. jobs = {} /\ due = Registry!Queries /\ \A p \in Agents \cup Teams : log[p] = {}
  BY DEF Registry!Init
<1>3. RegOneJob /\ RegMirror /\ RegAtMostOne
  BY <1>1, <1>2 DEF RegOneJob, RegMirror, RegAtMostOne, Registry!Queries
<1>4. RegAsPicked
  BY <1>1, <1>2 DEF RegAsPicked, Registry!SkillsOf, Registry!LinksOf
<1> QED
  BY <1>3, <1>4 DEF RegWaited

\* Nothing is sent before everything has come to rest.
LEMMA RegSendingWaited ==
    ASSUME RegIInv, RegWaited, RegSending, ~ rough'
    PROVE  RegWaited'
<1>0. /\ ~ rough /\ jobs = {} /\ due = {} /\ UNCHANGED <<table, seen, due, page>>
  <2>1. Registry!Acts /\ UNCHANGED <<table, seen, due, page, rough>>
    BY DEF RegSending, Registry!Save, Registry!Delete, Registry!ChangeFact, Registry!Bind
  <2> QED
    BY <2>1 DEF Registry!Acts, Registry!Quiet
<1>1. /\ seen.rows = table.rows /\ seen.links = table.links
      /\ \A p \in Agents \cup Teams : Registry!SkillsOf(table, p) = log[p]
      /\ \A a \in Agents : table.bound[a] <= 1
  BY <1>0 DEF RegWaited, RegMirror, RegAsPicked, RegAtMostOne
<1>t. /\ page \in RegPageRec /\ seen \in RegTableRec /\ log \in [RegOwners -> SUBSET Skills]
  BY DEF RegIInv, RegTyped
<1>2. ASSUME NEW j, jobs' = {j}, ~ j.failed, j.at # "links", j.op = "bind" => j.add = {},
             j.op \in {"create", "update"} => RegSettledBy(table', log', j),
             \A p \in Agents \cup Teams : ~ RegSettles(j, p) => log'[p] = log[p]
      PROVE  RegWaited'
  <2>1. RegOneJob'
    BY <1>2 DEF RegOneJob
  <2>2. RegMirror'
    BY <1>0, <1>1, <1>2 DEF RegMirror
  <2>3. RegAsPicked'
    BY <1>0, <1>1, <1>2 DEF RegAsPicked, Registry!SkillsOf, Registry!LinksOf
  <2>4. RegAtMostOne'
    BY <1>0, <1>1, <1>2 DEF RegAtMostOne
  <2> QED
    BY <2>1, <2>2, <2>3, <2>4 DEF RegWaited
<1>3. ASSUME NEW k \in Registry!Kinds, Registry!Save(k) PROVE RegWaited'
  <2> DEFINE i == Registry!Selected(page, seen, k)
             j == Registry!Job(IF i = Nobody THEN "create" ELSE "update", k, i)
  <2>1. jobs' = {j} /\ log' = [p \in Agents \cup Teams |-> IF p = i THEN page.picks[k] ELSE log[p]]
    BY <1>0, <1>3 DEF Registry!Save, Registry!Begin
  <2>2. /\ j.at = "out" /\ j.id = i /\ j.sn = seen /\ j.failed = FALSE
        /\ j.op = (IF i = Nobody THEN "create" ELSE "update")
        /\ j.picks = (IF k \in Registry!Linked THEN page.picks[k] ELSE {})
    BY DEF Registry!Job
  <2>3. i \in Registry!OfKind(k) \cup {Nobody} /\ (i # Nobody => ~ Registry!Absent(seen, i))
    BY <1>t DEF Registry!Selected, RegPageRec
  <2>4. \A p \in Agents \cup Teams : p = i => k \in Registry!Linked
    BY <2>3, RegistryIds DEF Registry!OfKind, Registry!Kinds, Registry!Linked
  <2>5. i # Nobody => ~ Registry!Absent(table, i)
    BY <1>1, <2>3 DEF Registry!Absent
  <2> HIDE DEF i, j
  <2>6. RegSettledBy(table', log', j)
    BY <1>0, <1>1, <2>1, <2>2, <2>4, <2>5 DEF RegSettledBy, Registry!Absent
  <2> QED
    BY <1>2, <1>t, <2>1, <2>2, <2>6 DEF RegSettles, RegOwners
<1>4. ASSUME NEW k \in Registry!Kinds, Registry!Delete(k) PROVE RegWaited'
  <2> DEFINE j == Registry!Job("delete", k, page.sel[k])
  <2>1. jobs' = {j} /\ log' = log
    BY <1>0, <1>4 DEF Registry!Delete, Registry!Begin
  <2>2. j.at = "out" /\ j.failed = FALSE /\ j.op = "delete"
    BY DEF Registry!Job
  <2> HIDE DEF j
  <2> QED
    BY <1>2, <2>1, <2>2
<1>5. ASSUME NEW f \in Facts, NEW op \in {"set", "unset"}, Registry!ChangeFact(f, op) PROVE RegWaited'
  <2> DEFINE j == [Registry!Job(op, "team", Nobody) EXCEPT !.todo = {f}]
  <2>1. jobs' = {j} /\ log' = log
    BY <1>0, <1>5 DEF Registry!ChangeFact, Registry!Begin
  <2>2. j.at = "out" /\ j.failed = FALSE /\ j.op = op
    BY DEF Registry!Job
  <2> HIDE DEF j
  <2> QED
    BY <1>2, <2>1, <2>2
<1>6. ASSUME NEW as \in SUBSET Agents, Registry!Bind(as) PROVE RegWaited'
  <2> DEFINE j == [Registry!Job("bind", "agent", Nobody) EXCEPT !.todo = as]
  <2>1. jobs' = {j} /\ log' = log
    BY <1>0, <1>6 DEF Registry!Bind, Registry!Begin
  <2>2. j.at = "out" /\ j.failed = FALSE /\ j.op = "bind" /\ j.add = {}
    BY DEF Registry!Job
  <2> HIDE DEF j
  <2> QED
    BY <1>2, <2>1, <2>2
<1> QED
  BY <1>3, <1>4, <1>5, <1>6 DEF RegSending

\* The facts of a state in which the one job is j.
RegAlone(j) == /\ jobs = {j} /\ ~ rough /\ j \in RegJobRec
               /\ j.op \in {"create", "update"} => ~ j.failed
               /\ RegMirror /\ RegAtMostOne
               /\ \A p \in Agents \cup Teams : ~ RegSettles(j, p)
                  => Registry!SkillsOf(table, p) = log[p]
               /\ j.op \in {"create", "update"} => RegSettledBy(table, log, j)
               /\ log \in [Agents \cup Teams -> SUBSET Skills]
               /\ table \in RegTableRec /\ seen \in RegTableRec

\* A job of a person who waits is the only one, and the links agree with it.
LEMMA RegWaitedAlone ==
    ASSUME RegIInv, RegWaited, NEW j \in jobs, ~ rough
    PROVE  RegAlone(j)
  BY DEF RegIInv, RegTyped, RegProper, RegWaited, RegOneJob, RegAsPicked, RegAlone, RegOwners

\* A step of the one job, after which it goes on as k.
LEMMA RegGoesOn ==
    ASSUME NEW j, RegAlone(j), NEW k, jobs' = {k}, k.op = j.op, k.failed = j.failed,
           RegMirror', RegAtMostOne',
           \A p \in Agents \cup Teams : ~ RegSettles(k, p) => Registry!SkillsOf(table', p) = log'[p],
           k.op \in {"create", "update"} => RegSettledBy(table', log', k)
    PROVE  RegWaited'
<1>1. RegOneJob' /\ RegAsPicked'
  BY DEF RegOneJob, RegAsPicked, RegAlone, Registry!SkillsOf, Registry!LinksOf
<1> QED
  BY <1>1 DEF RegWaited

\* The one job ends.
LEMMA RegComesToRest ==
    ASSUME jobs' = {}, RegMirror', RegAtMostOne',
           \A p \in Agents \cup Teams : Registry!SkillsOf(table', p) = log'[p]
    PROVE  RegWaited'
  BY DEF RegWaited, RegOneJob, RegAsPicked, Registry!SkillsOf, Registry!LinksOf

\* A row is written; the links are not settled before the job is over.
LEMMA RegWriteRowWaited ==
    ASSUME NEW j, RegAlone(j), Registry!WriteRow(j)
    PROVE  RegWaited'
<1>0. j \in RegJobRec /\ jobs = {j} /\ table \in RegTableRec
      /\ log \in [Agents \cup Teams -> SUBSET Skills]
      /\ seen \in RegTableRec /\ Nobody \notin Registry!Ids
         /\ Registry!OfKind(j.kind) \subseteq Registry!Ids
  BY RegKindsOfIds, RegistryIds DEF RegAlone, RegJobRec, Registry!Ids
<1>1. ASSUME NEW i \in Registry!OfKind(j.kind), j.op = "create", j.at = "out",
             table' = [table EXCEPT !.rows[i] = j.form.text],
             Registry!Becomes(j, [j EXCEPT !.at = "refetch", !.id = i]), due' = Registry!Queries,
             log' = [p \in Agents \cup Teams |-> IF p = i THEN j.picks ELSE log[p]]
      PROVE  RegWaited'
  <2> DEFINE k == [j EXCEPT !.at = "refetch", !.id = i]
  <2>1. /\ k.at = "refetch" /\ k.id = i /\ k.op = j.op /\ k.failed = j.failed /\ k.sn = j.sn
        /\ k.picks = j.picks
    BY <1>0 DEF RegJobRec
  <2>2. jobs' = {k}
    BY <1>0, <1>1 DEF Registry!Becomes
  <2>3. table'.links = table.links /\ table'.bound = table.bound
    BY <1>0, <1>1 DEF RegTableRec
  <2> HIDE DEF k
  <2>4. RegMirror'
    BY <1>1 DEF RegMirror, Registry!Queries
  <2>5. RegAtMostOne'
    BY <1>1, <2>1, <2>2, <2>3 DEF RegAtMostOne, RegAlone
  <2>6. \A p \in Agents \cup Teams : ~ RegSettles(k, p) => Registry!SkillsOf(table', p) = log'[p]
    <3>1. ASSUME NEW p \in Agents \cup Teams, ~ RegSettles(k, p) PROVE Registry!SkillsOf(table', p) = log'[p]
      <4>1. p # i /\ j.id = Nobody /\ p # Nobody
        BY <1>0, <1>1, <2>1, <3>1 DEF RegSettles, RegAlone, RegSettledBy, Registry!Ids
      <4>2. Registry!SkillsOf(table, p) = log[p]
        BY <4>1 DEF RegAlone, RegSettles
      <4> QED
        BY <1>1, <2>3, <4>1, <4>2 DEF Registry!SkillsOf, Registry!LinksOf
    <3> QED
      BY <3>1
  <2>7. RegSettledBy(table', log', k)
    BY <1>1, <2>1, <2>3 DEF RegSettledBy, RegAlone, Registry!LinksOf
  <2> QED
    BY <2>1, <2>2, <2>4, <2>5, <2>6, <2>7, RegGoesOn
<1>2. ASSUME NEW i \in Registry!OfKind(j.kind), j.at = "out", j.op = "update", i = j.id,
             table' = [table EXCEPT !.rows[i] = j.form.text],
             Registry!Answered(j), log' = log
      PROVE  RegWaited'
  <2> DEFINE k == [j EXCEPT !.at = "refetch"]
  <2>1. /\ k.at = "refetch" /\ k.id = j.id /\ k.op = j.op /\ k.failed = j.failed /\ k.sn = j.sn
        /\ k.picks = j.picks
    BY <1>0 DEF RegJobRec
  <2>2. jobs' = {k} /\ due' = Registry!Queries
    BY <1>0, <1>2 DEF Registry!Answered, Registry!Becomes
  <2>3. table'.links = table.links /\ table'.bound = table.bound
    BY <1>0, <1>2 DEF RegTableRec
  <2> HIDE DEF k
  <2>4. RegMirror'
    BY <2>2 DEF RegMirror, Registry!Queries
  <2>5. RegAtMostOne'
    BY <1>2, <2>1, <2>2, <2>3 DEF RegAtMostOne, RegAlone
  <2>6. \A p \in Agents \cup Teams : ~ RegSettles(k, p) => Registry!SkillsOf(table', p) = log'[p]
    BY <1>2, <2>1, <2>3 DEF RegAlone, RegSettles, Registry!SkillsOf, Registry!LinksOf
  <2>7. RegSettledBy(table', log', k)
    BY <1>2, <2>1, <2>3 DEF RegSettledBy, RegAlone, Registry!LinksOf
  <2> QED
    BY <2>1, <2>2, <2>4, <2>5, <2>6, <2>7, RegGoesOn
<1>3. ASSUME NEW i \in Registry!OfKind(j.kind), j.at = "out", j.op = "delete", i = j.id,
             table' = [rows |-> [table.rows EXCEPT ![i] = ""],
                       links |-> {l \in table.links : i \notin {l[1], l[2]}},
                       facts |-> {f \in table.facts : i \notin About[f]},
                       bound |-> [a \in Agents |-> IF a = i THEN 0 ELSE table.bound[a]]],
             log' = [p \in Agents \cup Teams |-> IF p = i THEN {} ELSE log[p] \ {i}],
             Registry!Becomes(j, [j EXCEPT !.at = "refetch", !.sn = seen]), due' = Registry!Queries
      PROVE  RegWaited'
  <2> DEFINE k == [j EXCEPT !.at = "refetch", !.sn = seen]
  <2>1. k.at = "refetch" /\ k.op = j.op /\ k.failed = j.failed
    BY <1>0 DEF RegJobRec
  <2>2. jobs' = {k}
    BY <1>0, <1>3 DEF Registry!Becomes
  <2> HIDE DEF k
  <2>4. RegMirror'
    BY <1>3 DEF RegMirror, Registry!Queries
  <2>5. RegAtMostOne'
    <3>1. \A a \in Agents : table'.bound[a] \in {0, table.bound[a]} /\ table.bound[a] <= 1
      BY <1>3 DEF RegAtMostOne, RegAlone
    <3>2. \A a \in Agents : table'.bound[a] <= 1
      BY <3>1
    <3> QED
      BY <1>3, <2>1, <2>2, <3>2 DEF RegAtMostOne
  <2>6. \A p \in Agents \cup Teams : Registry!SkillsOf(table', p) = log'[p]
    <3>1. ASSUME NEW p \in Agents \cup Teams PROVE Registry!SkillsOf(table', p) = log'[p]
      <4>1. Registry!SkillsOf(table, p) = log[p]
        BY <1>3 DEF RegAlone, RegSettles
      <4>2. table'.links = {l \in table.links : i \notin {l[1], l[2]}}
        BY <1>3
      <4>3. CASE p = i
        BY <1>3, <4>2, <4>3 DEF Registry!SkillsOf, Registry!LinksOf
      <4>4. CASE p # i
        <5>1. Registry!LinksOf(table', p) = {l \in Registry!LinksOf(table, p) : l[2] # i}
          BY <4>2, <4>4 DEF Registry!LinksOf
        <5>2. Registry!SkillsOf(table', p) = Registry!SkillsOf(table, p) \ {i}
          BY <5>1 DEF Registry!SkillsOf
        <5> QED
          BY <1>3, <4>1, <4>4, <5>2
      <4> QED
        BY <4>3, <4>4
    <3> QED
      BY <3>1
  <2> QED
    BY <1>3, <2>1, <2>2, <2>4, <2>5, <2>6, RegGoesOn
<1> QED
  BY <1>1, <1>2, <1>3 DEF Registry!WriteRow

\* The other answers: a row is gone with its links, a link is set, a model is bound.
LEMMA RegRestOfServeWaited ==
    ASSUME NEW j, RegAlone(j), Registry!Serve(j), ~ rough', ~ Registry!WriteRow(j)
    PROVE  RegWaited'
<1>0. j \in RegJobRec /\ jobs = {j} /\ ~ rough /\ table \in RegTableRec
      /\ log \in [Agents \cup Teams -> SUBSET Skills]
      /\ seen \in RegTableRec
  BY DEF RegAlone
<1>1. CASE Registry!WriteFails(j)
  <2>1. jobs' = {} /\ UNCHANGED <<table, seen, due, log>> /\ j.at = "out" /\ j.op = "create"
    BY <1>0, <1>1 DEF Registry!WriteFails, RegAlone, RegSettledBy
  <2>2. RegMirror'
    BY <1>0, <2>1 DEF RegMirror, RegAlone
  <2>3. RegAtMostOne'
    BY <2>1 DEF RegAtMostOne, RegAlone
  <2>4. \A p \in Agents \cup Teams : Registry!SkillsOf(table', p) = log'[p]
    BY <2>1, RegistryIds DEF RegAlone, RegSettles, RegSettledBy
  <2> QED
    BY <2>1, <2>2, <2>3, <2>4, RegComesToRest
<1>2. ASSUME NEW k, jobs' = {k}, k.op = j.op, k.op \notin {"create", "update"}, k.failed = j.failed,
             table'.links = table.links, log' = log, RegMirror', RegAtMostOne'
      PROVE  RegWaited'
  <2>1. \A p \in Agents \cup Teams : Registry!SkillsOf(table', p) = log'[p]
    BY <1>2 DEF RegAlone, RegSettles, Registry!SkillsOf, Registry!LinksOf
  <2> QED
    BY <1>2, <2>1, RegGoesOn
<1>3. CASE Registry!WriteFact(j)
  <2> DEFINE k == [j EXCEPT !.at = "refetch"]
  <2>1. k.at = "refetch" /\ k.op = j.op /\ k.failed = j.failed /\ j.op \in {"set", "unset"}
    BY <1>0, <1>3 DEF RegJobRec, Registry!WriteFact
  <2>2. jobs' = {k} /\ due' = Registry!Queries /\ log' = log
    BY <1>0, <1>3 DEF Registry!Answered, Registry!Becomes, Registry!WriteFact
  <2>3. table'.links = table.links /\ table'.bound = table.bound
    BY <1>0, <1>3 DEF RegTableRec, Registry!WriteFact
  <2> HIDE DEF k
  <2>4. RegMirror'
    BY <2>2 DEF RegMirror, Registry!Queries
  <2>5. RegAtMostOne'
    BY <2>1, <2>2, <2>3 DEF RegAtMostOne, RegAlone
  <2> QED
    BY <1>2, <2>1, <2>2, <2>3, <2>4, <2>5
<1>4. ASSUME NEW a \in Agents, Registry!BindClear(j, a) PROVE RegWaited'
  <2> DEFINE k == [j EXCEPT !.todo = @ \ {a}, !.add = @ \cup {a}]
  <2>1. k.at = j.at /\ k.op = j.op /\ k.failed = j.failed /\ j.op = "bind" /\ k.add = j.add \cup {a}
    BY <1>0, <1>4 DEF RegJobRec, Registry!BindClear
  <2>2. jobs' = {k} /\ due' = due /\ log' = log /\ seen' = seen
    BY <1>0, <1>4 DEF Registry!Becomes, Registry!BindClear
  <2>3. table'.links = table.links /\ table'.rows = table.rows
        /\ table'.bound = [table.bound EXCEPT ![a] = 0] /\ table.bound \in [Agents -> Nat]
    BY <1>0, <1>4 DEF RegTableRec, Registry!BindClear
  <2> HIDE DEF k
  <2>4. RegMirror'
    BY <1>0, <2>1, <2>2, <2>3 DEF RegMirror, RegAlone
  <2>5. RegAtMostOne'
    BY <1>0, <2>1, <2>2, <2>3 DEF RegAtMostOne, RegAlone
  <2> QED
    BY <1>2, <2>1, <2>2, <2>3, <2>4, <2>5
<1>5. ASSUME NEW a \in Agents, Registry!BindInsert(j, a) PROVE RegWaited'
  <2> DEFINE m == [j EXCEPT !.add = @ \ {a}]
             k == IF m.todo = {} /\ m.add = {} THEN [m EXCEPT !.at = "refetch"] ELSE m
  <2>1. k.op = j.op /\ k.failed = j.failed /\ j.op = "bind" /\ k.add = j.add \ {a} /\ a \in j.add
    BY <1>0, <1>5 DEF RegJobRec, Registry!BindInsert
  <2>2. jobs' = {k} /\ due' = Registry!Queries /\ log' = log
    BY <1>0, <1>5 DEF Registry!Becomes, Registry!BindInsert
  <2>3. table'.links = table.links /\ table.bound \in [Agents -> Nat]
        /\ \/ table'.bound = table.bound
           \/ table'.bound = [table.bound EXCEPT ![a] = @ + 1]
    BY <1>0, <1>5 DEF RegTableRec, Registry!BindInsert
  <2> HIDE DEF k
  <2>4. RegMirror'
    BY <2>2 DEF RegMirror, Registry!Queries
  <2>5. RegAtMostOne'
    <3>1. table.bound[a] = 0 /\ \A b \in Agents : table.bound[b] <= 1
      BY <1>0, <2>1 DEF RegAtMostOne, RegAlone
    <3>2. \A b \in Agents : table'.bound[b] <= 1 /\ (b # a => table'.bound[b] = table.bound[b])
      BY <2>3, <3>1
    <3> QED
      BY <1>0, <2>1, <2>2, <3>2 DEF RegAtMostOne, RegAlone
  <2> QED
    BY <1>2, <2>1, <2>2, <2>3, <2>4, <2>5
<1>6. ASSUME NEW k, jobs' = {k}, k.at = "links", k.op = j.op, k.failed = j.failed, j.at = "links",
             k.id = j.id, k.picks = j.picks, log' = log, seen' = seen, due' = due,
             table'.rows = table.rows, table'.bound = table.bound,
             \A p : p # j.id => Registry!LinksOf(table', p) = Registry!LinksOf(table, p),
             LET L == Registry!LinksOf(table', j.id)
             IN  /\ k.todo \subseteq L /\ \A l \in k.todo : l[2] \notin j.picks
                 /\ {l[2] : l \in L \ k.todo} \cup k.add = j.picks
      PROVE  RegWaited'
  <2>0. j.op \in {"create", "update"}
    BY <1>0, <1>6 DEF RegJobRec
  <2>1. RegMirror'
    BY <1>0, <1>6 DEF RegMirror, RegAlone
  <2>2. RegAtMostOne'
    BY <1>0, <1>6, <2>0 DEF RegAtMostOne, RegAlone
  <2>3. \A p \in Agents \cup Teams : ~ RegSettles(k, p) => Registry!SkillsOf(table', p) = log'[p]
    BY <1>6, <2>0 DEF RegAlone, RegSettles, Registry!SkillsOf
  <2>4. RegSettledBy(table', log', k)
    BY <1>6, <2>0 DEF RegAlone, RegSettledBy
  <2> QED
    BY <1>6, <2>1, <2>2, <2>3, <2>4, RegGoesOn
<1>l. j.at = "links" => LET L == Registry!LinksOf(table, j.id)
                        IN  /\ j.todo \subseteq L /\ \A l \in j.todo : l[2] \notin j.picks
                            /\ {l[2] : l \in L \ j.todo} \cup j.add = j.picks
  BY <1>0 DEF RegAlone, RegSettledBy, RegJobRec
<1>7. ASSUME NEW l \in j.todo, Registry!Unlink(j, l) PROVE RegWaited'
  <2> DEFINE k == [j EXCEPT !.todo = @ \ {l}]
  <2>1. k.at = "links" /\ k.op = j.op /\ k.failed = j.failed /\ k.id = j.id /\ k.picks = j.picks
        /\ k.todo = j.todo \ {l} /\ k.add = j.add /\ j.at = "links"
    BY <1>0, <1>7 DEF RegJobRec, Registry!Unlink
  <2>2. jobs' = {k} /\ due' = due /\ log' = log /\ seen' = seen
    BY <1>0, <1>7 DEF Registry!Becomes, Registry!Unlink
  <2>3. table'.links = table.links \ {l} /\ table'.rows = table.rows /\ table'.bound = table.bound
    BY <1>0, <1>7 DEF RegTableRec, Registry!Unlink
  <2> HIDE DEF k
  <2>4. l[1] = j.id
    BY <1>l, <2>1 DEF Registry!LinksOf
  <2>5. \A p : p # j.id => Registry!LinksOf(table', p) = Registry!LinksOf(table, p)
    BY <2>3, <2>4 DEF Registry!LinksOf
  <2>6. Registry!LinksOf(table', j.id) = Registry!LinksOf(table, j.id) \ {l}
    BY <2>3 DEF Registry!LinksOf
  <2>7. Registry!LinksOf(table', j.id) \ k.todo = Registry!LinksOf(table, j.id) \ j.todo
    BY <2>1, <2>6
  <2> QED
    BY <1>6, <1>l, <2>1, <2>2, <2>3, <2>5, <2>6, <2>7
<1>8. ASSUME NEW s \in Skills, Registry!Link(j, s) PROVE RegWaited'
  <2> DEFINE k == [j EXCEPT !.add = @ \ {s}]
             new == <<j.id, s, CHOOSE n \in Registry!FreshStamps(j.id, s) : TRUE>>
             L == Registry!LinksOf(table, j.id)
  <2>1. k.at = "links" /\ k.op = j.op /\ k.failed = j.failed /\ k.id = j.id /\ k.picks = j.picks
        /\ k.todo = j.todo /\ k.add = j.add \ {s} /\ j.at = "links" /\ s \in j.add
    BY <1>0, <1>8 DEF RegJobRec, Registry!Link
  <2>2. jobs' = {k} /\ due' = due /\ log' = log /\ seen' = seen
    BY <1>0, <1>8 DEF Registry!Becomes, Registry!Link
  <2>3. table'.links = {l \in table.links : l[1] # j.id \/ l[2] # s} \cup {new}
        /\ table'.rows = table.rows /\ table'.bound = table.bound
    BY <1>0, <1>8 DEF RegTableRec, Registry!Link
  <2>4. new[1] = j.id /\ new[2] = s
    OBVIOUS
  <2> HIDE DEF k, new
  <2>5. \A p : p # j.id => Registry!LinksOf(table', p) = Registry!LinksOf(table, p)
    BY <2>3, <2>4 DEF Registry!LinksOf
  <2>6. Registry!LinksOf(table', j.id) = {l \in L : l[2] # s} \cup {new}
    BY <2>3, <2>4 DEF Registry!LinksOf
  <2>7. s \in j.picks /\ \A l \in j.todo : l \in L /\ l[2] # s /\ l # new
    BY <1>l, <2>1, <2>4
  <2>8. Registry!LinksOf(table', j.id) \ k.todo = {l \in L \ j.todo : l[2] # s} \cup {new}
    BY <2>1, <2>6, <2>7
  <2>9. {l[2] : l \in Registry!LinksOf(table', j.id) \ k.todo} = ({l[2] : l \in L \ j.todo} \ {s}) \cup {s}
    BY <2>4, <2>8
  <2>10. {l[2] : l \in Registry!LinksOf(table', j.id) \ k.todo} \cup k.add = j.picks
    BY <1>l, <2>1, <2>7, <2>9
  <2>11. k.todo \subseteq Registry!LinksOf(table', j.id)
    BY <2>1, <2>6, <2>7
  <2> HIDE DEF L
  <2> QED
    BY <1>6, <1>l, <2>1, <2>2, <2>3, <2>5, <2>7, <2>10, <2>11
<1>9. ~ Registry!LinkFails(j)
  BY DEF Registry!LinkFails
<1> QED
  BY <1>1, <1>3, <1>4, <1>5, <1>7, <1>8, <1>9 DEF Registry!Serve

\* The next link is sent, or the job is over with the links as picked.
LEMMA RegFollowWaited ==
    ASSUME NEW j, RegAlone(j), Registry!Follow(j), ~ rough'
    PROVE  RegWaited'
<1>0. j \in RegJobRec /\ jobs = {j} /\ ~ rough /\ table \in RegTableRec
      /\ log \in [Agents \cup Teams -> SUBSET Skills]
      /\ seen \in RegTableRec
  BY DEF RegAlone
<1>1. CASE Registry!Saved(j) /\ j.kind \in Registry!Linked
  <2> DEFINE k == [j EXCEPT !.at = "links", !.todo = Registry!LinkChanges(j).drop, !.add = Registry!LinkChanges(j).add]
             L == Registry!LinksOf(table, j.id)
  <2>1. /\ k.at = "links" /\ k.id = j.id /\ k.op = j.op /\ k.failed = j.failed /\ k.picks = j.picks
        /\ k.todo = Registry!LinkChanges(j).drop /\ k.add = Registry!LinkChanges(j).add
    BY <1>0 DEF RegJobRec
  <2>2. jobs' = {k} /\ UNCHANGED <<table, seen, due, log>> /\ j.op \in {"create", "update"}
        /\ j.at = "refetch"
    BY <1>0, <1>1 DEF Registry!Saved, Registry!Becomes
  <2>3. Registry!LinksOf(j.sn, j.id) = L
    BY <2>2 DEF RegAlone, RegSettledBy
  <2>4. /\ k.todo = {l \in L : l[2] \notin j.picks}
        /\ k.add = j.picks \ {l[2] : l \in L}
    BY <2>1, <2>3 DEF Registry!LinkChanges, Registry!SkillsOf
  <2> HIDE DEF k
  <2>5. RegMirror'
    BY <1>0, <2>2 DEF RegMirror, RegAlone
  <2>6. RegAtMostOne'
    BY <1>0, <2>1, <2>2 DEF RegAtMostOne, RegAlone
  <2>7. \A p \in Agents \cup Teams : ~ RegSettles(k, p) => Registry!SkillsOf(table', p) = log'[p]
    BY <2>1, <2>2 DEF RegAlone, RegSettles
  <2>8. RegSettledBy(table', log', k)
    <3>1. {l[2] : l \in L \ k.todo} \cup k.add = j.picks
      BY <2>4
    <3> QED
      BY <2>1, <2>2, <2>4, <3>1 DEF RegSettledBy, RegAlone
  <2> QED
    BY <2>1, <2>2, <2>5, <2>6, <2>7, <2>8, RegGoesOn
<1>2. CASE Registry!Saved(j) /\ j.kind \notin Registry!Linked
  <2>1. jobs' = {} /\ UNCHANGED <<table, seen, due, log>> /\ j.at = "refetch"
    BY <1>0, <1>2 DEF Registry!Saved
  <2>2. j.id \notin Agents \cup Teams
    BY <1>0, <1>2, RegistryIds DEF RegJobRec, Registry!OfKind, Registry!Kinds, Registry!Linked
  <2>3. \A p \in Agents \cup Teams : Registry!SkillsOf(table', p) = log'[p]
    BY <2>1, <2>2 DEF RegAlone, RegSettles
  <2>4. RegMirror' /\ RegAtMostOne'
    BY <1>0, <2>1 DEF RegMirror, RegAtMostOne, RegAlone
  <2> QED
    BY <2>1, <2>3, <2>4, RegComesToRest
<1>3. CASE Registry!Deleted(j) \/ Registry!Changed(j)
  <2>1. jobs' = {} /\ UNCHANGED <<table, seen, due, log>> /\ j.at = "refetch"
        /\ j.op \notin {"create", "update"}
    BY <1>0, <1>3 DEF Registry!Deleted, Registry!Changed
  <2>2. \A p \in Agents \cup Teams : Registry!SkillsOf(table', p) = log'[p]
    BY <2>1 DEF RegAlone, RegSettles
  <2>3. RegMirror' /\ RegAtMostOne'
    BY <1>0, <2>1 DEF RegMirror, RegAtMostOne, RegAlone
  <2> QED
    BY <2>1, <2>2, <2>3, RegComesToRest
<1>4. CASE Registry!LinksDone(j)
  <2>1. j.op \in {"create", "update"} /\ ~ j.failed /\ j.todo = {} /\ j.add = {} /\ j.at = "links"
    BY <1>0, <1>4 DEF Registry!LinksDone, RegAlone, RegJobRec
  <2>2. jobs' = {} /\ UNCHANGED <<table, seen, log>> /\ due' = Registry!Queries
    BY <1>0, <1>4, <2>1 DEF Registry!LinksDone
  <2>3. \A p \in Agents \cup Teams : Registry!SkillsOf(table', p) = log'[p]
    <3>1. ASSUME NEW p \in Agents \cup Teams PROVE Registry!SkillsOf(table, p) = log[p]
      <4>1. CASE p = j.id
        <5>1. {l[2] : l \in Registry!LinksOf(table, p)} = j.picks /\ log[p] = j.picks
          BY <2>1, <4>1 DEF RegAlone, RegSettledBy
        <5> QED
          BY <5>1 DEF Registry!SkillsOf
      <4>2. CASE p # j.id
        BY <4>2 DEF RegAlone, RegSettles
      <4> QED
        BY <4>1, <4>2
    <3> QED
      BY <2>2, <3>1
  <2>4. RegMirror'
    BY <2>2 DEF RegMirror, Registry!Queries
  <2>5. RegAtMostOne'
    BY <2>2 DEF RegAtMostOne, RegAlone
  <2> QED
    BY <2>2, <2>3, <2>4, <2>5, RegComesToRest
<1> QED
  BY <1>1, <1>2, <1>3, <1>4 DEF Registry!Follow

\* A fetch makes what is seen what there is.
LEMMA RegFetchWaited ==
    ASSUME RegIInv, RegWaited, ~ rough', NEW q \in Registry!Queries, Registry!Fetch(q)
           \/ Registry!FetchFails(q)
    PROVE  RegWaited'
<1>1. Registry!Fetch(q) /\ ~ rough /\ seen \in RegTableRec /\ UNCHANGED <<table, jobs, log>>
  BY DEF Registry!Fetch, Registry!FetchFails, RegIInv, RegTyped
<1>2. RegOneJob' /\ RegAtMostOne' /\ RegAsPicked'
  BY <1>1 DEF RegWaited, RegOneJob, RegAtMostOne, RegAsPicked
<1>3. RegMirror'
  <2>1. /\ due' = due \ {q}
        /\ seen'.rows = IF q = "rows" THEN table.rows ELSE seen.rows
        /\ seen'.links = IF q = "links" THEN table.links ELSE seen.links
    BY <1>1 DEF Registry!Fetch, Registry!Queries, RegTableRec
  <2> QED
    BY <1>1, <2>1 DEF RegWaited, RegMirror
<1> QED
  BY <1>2, <1>3 DEF RegWaited

\* Selecting, typing and picking leave what is under way.
LEMMA RegPageWaited ==
    ASSUME RegWaited, UNCHANGED <<table, seen, due, jobs, log, rough>>
    PROVE  RegWaited'
  BY DEF RegWaited, RegOneJob, RegMirror, RegAsPicked, RegAtMostOne

\* Every step keeps what holds for a person who waits.
LEMMA RegStepWaited == RegIInv /\ RegWaited /\ [Registry!Next]_Registry!vars => RegWaited'
<1> SUFFICES ASSUME RegIInv, RegWaited, [Registry!Next]_Registry!vars, ~ rough' PROVE RegWaited'
  BY DEF RegWaited
<1>1. CASE UNCHANGED Registry!vars
  BY <1>1, RegPageWaited DEF Registry!vars
<1>2. CASE RegPageAct
  <2>1. UNCHANGED <<table, seen, due, jobs, log, rough>>
    BY <1>2 DEF RegPageAct, Registry!Choose, Registry!StartBlank, Registry!ResetForm,
       Registry!Type, Registry!TogglePick, Registry!ChooseTeamOfTree,
                Registry!ChooseAgentOfTree, Registry!Stays
  <2> QED
    BY <2>1, RegPageWaited
<1>3. CASE RegSending
  BY <1>3, RegSendingWaited
<1>4. ASSUME NEW j \in jobs, Registry!Serve(j) \/ Registry!Follow(j) PROVE RegWaited'
  <2>1. ~ rough
    BY <1>4 DEF Registry!Serve, Registry!Follow, Registry!WriteRow, Registry!WriteFails,
       Registry!WriteFact, Registry!BindClear, Registry!BindInsert, Registry!Unlink,
       Registry!Link,
                Registry!LinkFails, Registry!Saved, Registry!Deleted, Registry!Changed, Registry!LinksDone
  <2>2. RegAlone(j)
    BY <2>1, RegWaitedAlone
  <2> QED
    BY <1>4, <2>2, RegWriteRowWaited, RegRestOfServeWaited, RegFollowWaited
<1>5. ASSUME NEW q \in Registry!Queries, Registry!Fetch(q) \/ Registry!FetchFails(q) PROVE RegWaited'
  BY <1>5, RegFetchWaited
<1>6. Registry!Act => RegPageAct \/ RegSending
  BY DEF Registry!Act, RegPageAct, RegSending, Registry!ChangeMembership, Registry!ChangeScope,
     Registry!ChangePolicy
<1> QED
  BY <1>1, <1>2, <1>3, <1>4, <1>5, <1>6 DEF Registry!Next

\* At rest, the links are those that were picked.
LEMMA RegWaitedHolds == RegWaited => Registry!SkillsAsPicked /\ Registry!OnePrimary
  BY DEF RegWaited, RegAsPicked, RegAtMostOne, Registry!SkillsAsPicked, Registry!OnePrimary,
     Registry!Quiet

------------------------------------------------------------------------------
(* The work items *)

(* Types *)
ItemRows == [of : Items, status : {"draft", "approved"}]
ItemForms == ItemRows \cup {WorkItems!Nowhere, WorkItems!Blank}
ItemRunRec == [item : Items, stage : {"work", "plan", "test", "ended"}]
ItemTableRec == [status : [Items -> {"none", "draft", "approved"}], runs : Seq(ItemRunRec),
                 auto : SUBSET Items]
ItemPerhaps == Items \cup {WorkItems!None}
ItemPageRec == [tab : WorkItems!Tabs, filter : WorkItems!Filters, index : {0, 1}, active : ItemPerhaps,
                ticks : Seq(Items),
            run : Nat, cli : ItemPerhaps, creating : BOOLEAN, parent : ItemPerhaps, editing : BOOLEAN,
            draft : ItemForms \ {WorkItems!Nowhere}, space : ItemPerhaps]
ItemRunOps == WorkItems!Gates \cup {"fail", "restart"}
ItemItemOps == ItemRunOps \cup {"update", "item", "start", "assign", "clear", "space"}
ItemAllOps == ItemItemOps \cup {"create", "bulk", "delete", "row", "cli"}
ItemBase == [n : {0} \cup WorkItems!Slots, op : ItemAllOps, item : ItemPerhaps, run : Nat,
             draft : ItemForms, parent : ItemPerhaps,
         goal : ItemPerhaps, verdict : WorkItems!Verdicts, rows : Seq(Items),
         at : {"out", "act", "fetch"},
         shown : ItemPerhaps, waits : SUBSET WorkItems!Keys]
ItemJobRec == {j \in ItemBase :
              /\ j.op \notin {"create", "bulk"} => j.item \in Items
              /\ j.op \in ItemRunOps => j.run # WorkItems!None
              /\ j.op = "bulk" /\ j.at = "out" => j.rows # <<>>
              /\ j.at = "act" => j.op \in WorkItems!Gates
              /\ j.op = "update" => j.draft # WorkItems!Nowhere
              /\ j.at # "fetch" => j.waits = {}}

\* What a query answers with.
ItemAnswers(tb, q) ==
    CASE q[1] = "page" -> SUBSET ItemRows
      [] q[1] = "item" -> ItemRows \cup {WorkItems!Nowhere}
      [] q[1] = "run" -> {r \in [id : 0 .. Len(tb.runs),
       stage : {"none", "work", "plan", "test", "ended"}] :
                              r.id # WorkItems!None => tb.runs[r.id].item = q[2]}
ItemSeenOK(sn, tb) == /\ DOMAIN sn = WorkItems!Keys /\ sn = [q \in WorkItems!Keys |-> sn[q]]
                      /\ \A q \in WorkItems!Keys : sn[q] \in ItemAnswers(tb, q)

\* Rows are those of items that were created.
ItemKnown(tb, sn, lg) ==
    /\ \A i \in Items : tb.status[i] # "none" => i <= lg.last
    /\ \A q \in WorkItems!Keys : q[1] = "page" => \A r \in sn[q] : r.of <= lg.last

\* An item that was fetched was created, and is gone if there was no row.
ItemFetched(tb, sn, du, lg) ==
    \A i \in Items : <<"item", i>> \notin du =>
        i <= lg.last /\ (sn[<<"item", i>>] = WorkItems!Nowhere => tb.status[i] = "none")

\* The draft is filled with the row that is shown.
ItemFilled(pg, sn) == WorkItems!Detail(pg, sn) # WorkItems!Nowhere
=> pg.draft = WorkItems!Detail(pg, sn)

\* A dialog goes where it was opened.
ItemAimed(pg, lg) == pg.creating => pg.parent = lg.opened

ItemJobsOK(js, tb, lg) ==
    /\ js \subseteq ItemJobRec
    /\ \A j \in js : /\ j.run <= Len(tb.runs)
                     /\ \A i \in Items : <<"item", i>> \in j.waits => i <= lg.last
                     /\ j.op = "create" => j.parent = j.goal

ItemIInv ==
    /\ table \in ItemTableRec /\ ItemSeenOK(seen, table) /\ due \subseteq WorkItems!Keys
    /\ page \in ItemPageRec /\ page.run <= Len(table.runs)
    /\ ItemJobsOK(jobs, table, log)
    /\ log \in [opened : ItemPerhaps, last : Nat] /\ rough \in BOOLEAN
    /\ ItemKnown(table, seen, log) /\ ItemFetched(table, seen, due, log)
    /\ ItemFilled(page, seen) /\ ItemAimed(page, log)

\* What holds of the job of a person who waits.
ItemStill(j, tb, sn, du, pg) ==
    /\ j.at # "fetch" => /\ du \cap WorkItems!Mounted(pg, sn) = {}
                         /\ j.op \in ItemItemOps => j.item = WorkItems!Shown(pg, sn)
    /\ j.op \in ItemRunOps => tb.runs[j.run].item = j.item
    /\ j.op = "update" /\ tb.status[j.item] # "none" => j.draft.of = j.item
ItemRunShown(tb, sn, pg) == pg.run # WorkItems!None => tb.runs[pg.run].item = WorkItems!Shown(pg, sn)
ItemOwnRows(sn) == \A i \in Items : sn[<<"item", i>>] # WorkItems!Nowhere => sn[<<"item", i>>].of = i

ItemWaited ==
    ~ rough => /\ \A i, j \in jobs : i = j
               /\ \A j \in jobs : ItemStill(j, table, seen, due, page)
               /\ ItemRunShown(table, seen, page) /\ ItemOwnRows(seen)

\* A set of numbers has a smallest one.
LEMMA ItemSmallest ==
    ASSUME NEW S \in SUBSET Nat, S # {}
    PROVE  \E x \in S : \A y \in S : x <= y
<1> DEFINE R == OpToRel(<, Nat)
<1>1. IsWellFoundedOn(R, Nat)
  BY NatLessThanWellFounded
<1>2. \A x, y \in Nat : <<y, x>> \in R <=> y < x
  BY DEF OpToRel
<1> HIDE DEF R
<1>3. PICK x \in S : \A y \in S : ~ (<<y, x>> \in R)
  BY <1>1, WFMin
<1>4. \A y \in S : ~ (y < x) /\ y \in Nat /\ x \in Nat
  BY <1>2, <1>3
<1> QED
  BY <1>4

\* A set of numbers below n has a largest one.
LEMMA ItemLargest ==
    ASSUME NEW n \in Nat, NEW S \in SUBSET (1 .. n), S # {}
    PROVE  \E x \in S : \A y \in S : y <= x
<1> DEFINE T == {m \in Nat : \A y \in S : y <= m}
<1>1. n \in T
  OBVIOUS
<1>2. PICK m \in T : \A k \in T : m <= k
  <2> HIDE DEF T
  <2>1. T \subseteq Nat
    BY DEF T
  <2> QED
    BY <1>1, <2>1, ItemSmallest
<1>3. m \in S
  <2> SUFFICES ASSUME m \notin S
               PROVE  FALSE
    OBVIOUS
  <2>1. \A y \in S : y \in 1 .. n /\ y <= m /\ y # m
    OBVIOUS
  <2>2. m - 1 \in Nat
    BY <2>1, \E y \in S : TRUE
  <2>3. m - 1 \in T
    BY <2>1, <2>2
  <2> QED
    BY <1>2, <2>3
<1> QED
  BY <1>3

\* Numbering and keys.
LEMMA ItemItemFacts == /\ WorkItems!None \notin Items /\ Items \subseteq Nat /\ 1 \in Items
  BY ItemNumbers DEF WorkItems!None

\* The queries of the page, by what they ask for.
LEMMA ItemKeyFacts ==
    /\ \A q \in WorkItems!Keys :
          /\ q[1] \in {"page", "item", "run"}
          /\ q[1] = "page" => q[2] \in WorkItems!Filters /\ q[3] \in {0, 1}
             /\ q = <<"page", q[2], q[3]>>
          /\ q[1] # "page" => q[2] \in Items /\ q = <<q[1], q[2]>>
    /\ \A i \in Items : <<"item", i>> \in WorkItems!Keys /\ <<"run", i>> \in WorkItems!Keys
    /\ \A f \in WorkItems!Filters, n \in {0, 1} : <<"page", f, n>> \in WorkItems!Keys
  BY DEF WorkItems!Keys

\* The runs of an item are among the runs, the latest is one of them.
LEMMA ItemLatestOf ==
    ASSUME NEW tb \in ItemTableRec, NEW i \in Items
    PROVE  /\ WorkItems!LatestRun(tb, i) \in 0 .. Len(tb.runs)
           /\ WorkItems!LatestRun(tb, i) # WorkItems!None
              => tb.runs[WorkItems!LatestRun(tb, i)].item = i
           /\ WorkItems!RunsOf(tb, i) # {} => WorkItems!LatestRun(tb, i) # WorkItems!None
<1>1. Len(tb.runs) \in Nat
  BY DEF ItemTableRec
<1>2. CASE WorkItems!RunsOf(tb, i) = {}
  BY <1>1, <1>2 DEF WorkItems!LatestRun, WorkItems!None
<1>3. CASE WorkItems!RunsOf(tb, i) # {}
  <2>1. WorkItems!RunsOf(tb, i) \in SUBSET (1 .. Len(tb.runs))
    BY DEF WorkItems!RunsOf, WorkItems!Runs
  <2>2. \E r \in WorkItems!RunsOf(tb, i) : \A o \in WorkItems!RunsOf(tb, i) : o <= r
    BY <1>1, <1>3, <2>1, ItemLargest
  <2>3. WorkItems!LatestRun(tb, i) = CHOOSE r \in WorkItems!RunsOf(tb, i) : \A o \in WorkItems!RunsOf(tb, i) : o <= r
    BY <1>3 DEF WorkItems!LatestRun
  <2>4. WorkItems!LatestRun(tb, i) \in WorkItems!RunsOf(tb, i)
    <3> HIDE DEF WorkItems!RunsOf, WorkItems!LatestRun
    <3> QED
      BY <2>2, <2>3
  <2> QED
    BY <1>1, <2>1, <2>4 DEF WorkItems!RunsOf, WorkItems!None
<1> QED
  BY <1>2, <1>3

\* What the backend answers is typed.
LEMMA ItemContentTyped ==
    ASSUME NEW tb \in ItemTableRec, NEW q \in WorkItems!Keys
    PROVE  WorkItems!Content(tb, q) \in ItemAnswers(tb, q)
<1>1. \A i \in Items : WorkItems!Row(tb, i) \in ItemRows \cup {WorkItems!Nowhere}
      /\ (tb.status[i] # "none" => WorkItems!Row(tb, i) \in ItemRows)
  BY DEF WorkItems!Row, ItemRows, ItemTableRec
<1>2. CASE q[1] = "page"
  <2>1. \A i \in WorkItems!PageOf(WorkItems!Listed(tb, q[2]), q[3]) : i \in Items
        /\ tb.status[i] # "none"
    BY DEF WorkItems!PageOf, WorkItems!Listed
  <2>2. WorkItems!Content(tb, q) = {WorkItems!Row(tb, i) : i \in WorkItems!PageOf(WorkItems!Listed(tb, q[2]), q[3])}
    BY <1>2 DEF WorkItems!Content
  <2>3. ItemAnswers(tb, q) = SUBSET ItemRows
    BY <1>2 DEF ItemAnswers
  <2> QED
    BY <1>1, <2>1, <2>2, <2>3
<1>3. CASE q[1] = "item"
  BY <1>1, <1>3, ItemKeyFacts DEF WorkItems!Content, ItemAnswers
<1>4. CASE q[1] = "run"
  <2>1. q[2] \in Items
    BY <1>4, ItemKeyFacts
  <2> DEFINE r == WorkItems!LatestRun(tb, q[2])
  <2>2. r \in 0 .. Len(tb.runs) /\ (r # WorkItems!None => tb.runs[r].item = q[2])
    BY <2>1, ItemLatestOf
  <2>3. WorkItems!Content(tb, q) = IF r = WorkItems!None THEN WorkItems!NoRun ELSE [id |-> r, stage |-> tb.runs[r].stage]
    BY <1>4 DEF WorkItems!Content
  <2>4. r # WorkItems!None => tb.runs[r] \in ItemRunRec
    BY <2>2, ElementOfSeq DEF ItemTableRec, WorkItems!None
  <2>5. Len(tb.runs) \in Nat
    BY DEF ItemTableRec
  <2> HIDE DEF r
  <2> QED
    BY <1>4, <2>2, <2>3, <2>4, <2>5 DEF ItemAnswers, ItemRunRec, WorkItems!NoRun, WorkItems!None
<1> QED
  BY <1>2, <1>3, <1>4, ItemKeyFacts

\* What is shown is a row of the page of the backlog.
LEMMA ItemShownTyped ==
    ASSUME NEW pg \in ItemPageRec, NEW tb, NEW sn, ItemSeenOK(sn, tb)
    PROVE  /\ WorkItems!ListKey(pg) \in WorkItems!Keys /\ WorkItems!ListKey(pg)[1] = "page"
           /\ sn[WorkItems!ListKey(pg)] \subseteq ItemRows /\ WorkItems!Backlog(pg, sn) \subseteq Items
           /\ WorkItems!Shown(pg, sn) \in ItemPerhaps
           /\ WorkItems!Shown(pg, sn) # WorkItems!None
              => WorkItems!Shown(pg, sn) \in WorkItems!Backlog(pg, sn)
              /\ WorkItems!Shown(pg, sn) \in Items
           /\ WorkItems!Shown(pg, sn) = WorkItems!None => WorkItems!Backlog(pg, sn) = {}
           /\ WorkItems!Mounted(pg, sn) \subseteq WorkItems!Keys
<1>1. WorkItems!ListKey(pg) \in WorkItems!Keys /\ WorkItems!ListKey(pg)[1] = "page"
  BY DEF WorkItems!ListKey, WorkItems!Keys, ItemPageRec
<1>2. sn[WorkItems!ListKey(pg)] \subseteq ItemRows
  BY <1>1 DEF ItemSeenOK, ItemAnswers
<1>3. WorkItems!Backlog(pg, sn) \subseteq Items
  BY <1>2 DEF WorkItems!Backlog, ItemRows
<1>4. WorkItems!Backlog(pg, sn) # {}
      => \E i \in WorkItems!Backlog(pg, sn) : \A k \in WorkItems!Backlog(pg, sn) : i <= k
  BY <1>3, ItemItemFacts, ItemSmallest
<1>5. WorkItems!Backlog(pg, sn) # {} =>
          (CHOOSE i \in WorkItems!Backlog(pg, sn) : \A k \in WorkItems!Backlog(pg, sn) : i <= k) \in WorkItems!Backlog(pg, sn)
  BY <1>4
<1>6. /\ WorkItems!Backlog(pg, sn) # {} => WorkItems!Shown(pg, sn) \in WorkItems!Backlog(pg, sn)
      /\ WorkItems!Backlog(pg, sn) = {} => WorkItems!Shown(pg, sn) = WorkItems!None
  BY <1>5 DEF WorkItems!Shown
<1>7. WorkItems!Mounted(pg, sn) \subseteq WorkItems!Keys
  <2>1. \A i \in Items : {"item", "run"} \X {i} \subseteq WorkItems!Keys
    BY DEF WorkItems!Keys
  <2>2. {WorkItems!Shown(pg, sn)} \ {WorkItems!None} = {} \/ (WorkItems!Shown(pg, sn) \in Items
        /\ {WorkItems!Shown(pg, sn)} \ {WorkItems!None} = {WorkItems!Shown(pg, sn)})
    BY <1>3, <1>6
  <2>3. {"item", "run"} \X {} = {}
    OBVIOUS
  <2> QED
    BY <1>1, <2>1, <2>2, <2>3 DEF WorkItems!Mounted
<1> QED
  BY <1>1, <1>2, <1>3, <1>6, <1>7, ItemItemFacts DEF ItemPerhaps

\* What the page derives is of the item shown.
LEMMA ItemDerivedTyped ==
    ASSUME NEW pg \in ItemPageRec, NEW tb \in ItemTableRec, NEW sn,
           ItemSeenOK(sn, tb), pg.run <= Len(tb.runs),
           WorkItems!Shown(pg, sn) # WorkItems!None
    PROVE  /\ WorkItems!Detail(pg, sn) = sn[<<"item", WorkItems!Shown(pg, sn)>>]
                /\ WorkItems!Detail(pg, sn) \in ItemRows \cup {WorkItems!Nowhere}
           /\ WorkItems!Summary(pg, sn) \in ItemRows
           /\ ItemOwnRows(sn) => WorkItems!Summary(pg, sn).of = WorkItems!Shown(pg, sn)
           /\ WorkItems!WorkflowRun(pg, sn) \in 0 .. Len(tb.runs)
           /\ (ItemRunShown(tb, sn, pg) /\ WorkItems!WorkflowRun(pg, sn) # WorkItems!None) =>
                  tb.runs[WorkItems!WorkflowRun(pg, sn)].item = WorkItems!Shown(pg, sn)
<1> DEFINE s == WorkItems!Shown(pg, sn)
<1>1. s \in Items /\ s \in WorkItems!Backlog(pg, sn) /\ sn[WorkItems!ListKey(pg)] \subseteq ItemRows
  BY ItemShownTyped
<1>2. <<"item", s>> \in WorkItems!Keys /\ <<"run", s>> \in WorkItems!Keys
  BY <1>1, ItemKeyFacts
<1>3. WorkItems!Detail(pg, sn) = sn[<<"item", s>>]
      /\ WorkItems!Detail(pg, sn) \in ItemRows \cup {WorkItems!Nowhere}
  BY <1>2 DEF WorkItems!Detail, ItemSeenOK, ItemAnswers
<1>4. PICK r \in sn[WorkItems!ListKey(pg)] : r.of = s
  BY <1>1 DEF WorkItems!Backlog
<1>5. WorkItems!Summary(pg, sn) \in ItemRows /\ (WorkItems!Detail(pg, sn) = WorkItems!Nowhere
      => WorkItems!Summary(pg, sn).of = s)
  BY <1>1, <1>3, <1>4 DEF WorkItems!Summary
<1>6. WorkItems!Detail(pg, sn) # WorkItems!Nowhere
      => WorkItems!Summary(pg, sn) = WorkItems!Detail(pg, sn)
  BY DEF WorkItems!Summary
<1>7. ItemOwnRows(sn) => WorkItems!Summary(pg, sn).of = s
  BY <1>1, <1>3, <1>5, <1>6 DEF ItemOwnRows
<1>8. WorkItems!Latest(pg, sn) = sn[<<"run", s>>] /\ WorkItems!Latest(pg, sn).id \in 0 .. Len(tb.runs)
      /\ (WorkItems!Latest(pg, sn).id # WorkItems!None => tb.runs[WorkItems!Latest(pg, sn).id].item = s)
  BY <1>2 DEF WorkItems!Latest, ItemSeenOK, ItemAnswers
<1>9. Len(tb.runs) \in Nat /\ pg.run \in Nat
  BY DEF ItemTableRec, ItemPageRec
<1> QED
  BY <1>3, <1>5, <1>7, <1>8, <1>9 DEF WorkItems!WorkflowRun, ItemRunShown, WorkItems!None


\* A rendering: the page keeps its types, the draft is filled, and a run that
\* stays selected is of the item that was shown before.
LEMMA ItemRenderedFacts ==
    ASSUME ItemIInv, NEW pg \in ItemPageRec, NEW sn, NEW tb, ItemSeenOK(sn, tb), pg.draft = page.draft
    PROVE  /\ WorkItems!Rendered(pg, sn) \in ItemPageRec
           /\ WorkItems!Rendered(pg, sn).run \in {WorkItems!None, pg.run}
           /\ WorkItems!Rendered(pg, sn).run # WorkItems!None
              => WorkItems!Shown(WorkItems!Rendered(pg, sn), sn) = WorkItems!Shown(page, seen)
           /\ ItemFilled(WorkItems!Rendered(pg, sn), sn)
           /\ WorkItems!Rendered(pg, sn).parent = pg.parent
              /\ WorkItems!Rendered(pg, sn).creating = pg.creating
           /\ pg.filter = page.filter =>
                 /\ WorkItems!Shown(WorkItems!Rendered(pg, sn), sn) = WorkItems!Shown(pg, sn)
                 /\ WorkItems!Mounted(WorkItems!Rendered(pg, sn), sn) = WorkItems!Mounted(pg, sn)
<1> DEFINE new == IF pg.filter # page.filter THEN [pg EXCEPT !.index = 0, !.ticks = <<>>] ELSE pg
           moved == WorkItems!Shown(new, sn) # WorkItems!Shown(page, seen)
           detail == WorkItems!Detail(new, sn)
           R == [new EXCEPT !.active = WorkItems!Shown(new, sn), !.run = IF moved THEN WorkItems!None ELSE @,
                            !.cli = IF moved THEN WorkItems!None ELSE @,
                            !.draft = IF detail \notin {WorkItems!Nowhere, WorkItems!Detail(page, seen)} THEN detail ELSE @]
<1>1. WorkItems!Rendered(pg, sn) = R
  BY DEF WorkItems!Rendered
<1>2. /\ new \in ItemPageRec /\ new.draft = page.draft /\ new.run = pg.run /\ new.parent = pg.parent
      /\ new.creating = pg.creating /\ (pg.filter = page.filter => new = pg)
  BY EmptySeq DEF ItemPageRec
<1> HIDE DEF new
<1>3. /\ WorkItems!Shown(new, sn) \in ItemPerhaps
      /\ WorkItems!Shown(new, sn) # WorkItems!None
         => WorkItems!Shown(new, sn) \in WorkItems!Backlog(new, sn)
         /\ WorkItems!Shown(new, sn) \in Items
      /\ WorkItems!Shown(new, sn) = WorkItems!None => WorkItems!Backlog(new, sn) = {}
  BY <1>2, ItemShownTyped
<1>4. detail \in ItemRows \cup {WorkItems!Nowhere}
  <2>1. CASE WorkItems!Shown(new, sn) = WorkItems!None
    BY <2>1 DEF WorkItems!Detail
  <2>2. CASE WorkItems!Shown(new, sn) # WorkItems!None
    <3>1. <<"item", WorkItems!Shown(new, sn)>> \in WorkItems!Keys
      BY <1>3, <2>2, ItemKeyFacts
    <3> QED
      BY <2>2, <3>1 DEF WorkItems!Detail, ItemSeenOK, ItemAnswers
  <2> QED
    BY <2>1, <2>2
<1> HIDE DEF detail
<1>5. /\ R \in ItemPageRec /\ R.filter = new.filter /\ R.index = new.index
         /\ R.active = WorkItems!Shown(new, sn)
      /\ R.run = (IF moved THEN WorkItems!None ELSE new.run) /\ R.parent = new.parent
         /\ R.creating = new.creating
      /\ R.draft = IF detail \notin {WorkItems!Nowhere, WorkItems!Detail(page, seen)} THEN detail ELSE new.draft
  <2> DEFINE d == IF detail \notin {WorkItems!Nowhere, WorkItems!Detail(page, seen)} THEN detail ELSE new.draft
  <2>1. d \in ItemForms \ {WorkItems!Nowhere}
    <3>1. new.draft \in ItemForms \ {WorkItems!Nowhere}
      BY <1>2 DEF ItemPageRec
    <3> QED
      BY <1>4, <3>1 DEF ItemForms
  <2> HIDE DEF d, moved
  <2>2. R = [new EXCEPT !.active = WorkItems!Shown(new, sn), !.run = IF moved THEN WorkItems!None ELSE @,
                        !.cli = IF moved THEN WorkItems!None ELSE @, !.draft = d]
    BY DEF d
  <2>3. WorkItems!None \in ItemPerhaps /\ WorkItems!None \in Nat
    BY DEF ItemPerhaps, WorkItems!None
  <2> QED
    BY <1>2, <1>3, <2>1, <2>2, <2>3 DEF ItemPageRec, d
<1> HIDE DEF R, moved
<1>6. WorkItems!ListKey(R) = WorkItems!ListKey(new)
      /\ WorkItems!Backlog(R, sn) = WorkItems!Backlog(new, sn)
  BY <1>5 DEF WorkItems!ListKey, WorkItems!Backlog
<1>7. WorkItems!Shown(R, sn) = WorkItems!Shown(new, sn)
  <2>1. CASE WorkItems!Shown(new, sn) = WorkItems!None
    <3>1. WorkItems!Backlog(R, sn) = {}
      BY <1>3, <1>6, <2>1
    <3> QED
      BY <2>1, <3>1 DEF WorkItems!Shown
  <2>2. CASE WorkItems!Shown(new, sn) # WorkItems!None
    <3>1. R.active \in WorkItems!Backlog(R, sn)
      BY <1>3, <1>5, <1>6, <2>2
    <3> QED
      BY <1>5, <3>1 DEF WorkItems!Shown
  <2> QED
    BY <2>1, <2>2
<1>8. WorkItems!Detail(R, sn) = detail
  BY <1>7 DEF WorkItems!Detail, detail
<1>9. ItemFilled(R, sn)
  BY <1>2, <1>5, <1>8 DEF ItemFilled, ItemIInv
<1>10. R.run # WorkItems!None => WorkItems!Shown(R, sn) = WorkItems!Shown(page, seen)
  BY <1>5, <1>7 DEF moved
<1>11. WorkItems!Mounted(R, sn) = WorkItems!Mounted(new, sn)
  BY <1>6, <1>7 DEF WorkItems!Mounted
<1> QED
  BY <1>1, <1>2, <1>5, <1>7, <1>9, <1>10, <1>11

ItemBoth == ItemIInv /\ ItemWaited

\* The page changes, while nothing is under way for a person who waits.
LEMMA ItemPageKeeps ==
    ASSUME ItemBoth, page' \in ItemPageRec, page'.run <= Len(table.runs), ItemFilled(page', seen),
           ItemAimed(page', log'),
           log' \in [opened : ItemPerhaps, last : Nat], log'.last = log.last,
           UNCHANGED <<table, seen, due, jobs, rough>>,
           ~ rough => jobs = {} /\ ItemRunShown(table, seen, page')
    PROVE  ItemBoth'
<1>1. ItemIInv'
  BY DEF ItemBoth, ItemIInv, ItemJobsOK, ItemKnown, ItemFetched
<1>2. ItemWaited'
  BY DEF ItemBoth, ItemWaited
<1> QED
  BY <1>1, <1>2 DEF ItemBoth

\* A change the page renders.
LEMMA ItemRenderKeeps ==
    ASSUME ItemBoth, rough \/ WorkItems!Quiet,
           NEW pg \in ItemPageRec, page' = WorkItems!Rendered(pg, seen), pg.draft = page.draft,
           pg.run \in {WorkItems!None, page.run}, ItemAimed(pg, log'),
           log' \in [opened : ItemPerhaps, last : Nat], log'.last = log.last,
           UNCHANGED <<table, seen, due, jobs, rough>>
    PROVE  ItemBoth'
<1>1. /\ page' \in ItemPageRec /\ page'.run \in {WorkItems!None, pg.run} /\ (page'.run # WorkItems!None
         => WorkItems!Shown(page', seen) = WorkItems!Shown(page, seen))
      /\ ItemFilled(page', seen) /\ page'.parent = pg.parent /\ page'.creating = pg.creating
  BY ItemRenderedFacts DEF ItemBoth, ItemIInv
<1>2. page'.run <= Len(table.runs) /\ ItemAimed(page', log')
  BY <1>1 DEF ItemBoth, ItemIInv, WorkItems!None, ItemTableRec, ItemPageRec, ItemAimed
<1>3. ~ rough => jobs = {} /\ ItemRunShown(table, seen, page')
  BY <1>1 DEF ItemBoth, ItemWaited, WorkItems!Quiet, ItemRunShown
<1> QED
  BY <1>1, <1>2, <1>3, ItemPageKeeps

\* A job begins, for a person who waits when nothing is under way.
LEMMA ItemBeginKeeps ==
    ASSUME ItemBoth, rough \/ WorkItems!Quiet,
           NEW j \in ItemJobRec, j.at = "out", j.run <= Len(table.runs), j.op = "create"
           => j.parent = j.goal,
           ~ rough => ItemStill(j, table, seen, due, page), WorkItems!Begin(j)
    PROVE  ItemBoth'
<1> DEFINE k == [j EXCEPT !.n = CHOOSE n \in WorkItems!Free : TRUE]
<1>1. jobs' = jobs \cup {k} /\ UNCHANGED <<table, seen, due, page, log, rough>>
  BY DEF WorkItems!Begin
<1>2. (CHOOSE n \in WorkItems!Free : TRUE) \in WorkItems!Slots
  BY DEF WorkItems!Begin, WorkItems!Free
<1>3. /\ k \in ItemJobRec /\ k.at = j.at /\ k.run = j.run /\ k.op = j.op /\ k.parent = j.parent
         /\ k.goal = j.goal
      /\ k.item = j.item /\ k.draft = j.draft
  <2>1. j \in ItemBase
    BY DEF ItemJobRec
  <2>2. /\ k \in ItemBase /\ k.at = j.at /\ k.run = j.run /\ k.op = j.op /\ k.parent = j.parent
           /\ k.goal = j.goal
        /\ k.item = j.item /\ k.draft = j.draft /\ k.waits = j.waits /\ k.rows = j.rows
    BY <1>2, <2>1 DEF ItemBase
  <2> HIDE DEF k
  <2> QED
    BY <2>2 DEF ItemJobRec
<1> HIDE DEF k
<1>4. k.waits = {}
  BY <1>3 DEF ItemJobRec
<1>5. ItemIInv'
  BY <1>1, <1>3, <1>4 DEF ItemBoth, ItemIInv, ItemJobsOK
<1>6. ~ rough => ItemStill(k, table, seen, due, page)
  BY <1>3 DEF ItemStill
<1>7. ItemWaited'
  BY <1>1, <1>6 DEF ItemBoth, ItemWaited, WorkItems!Quiet
<1> QED
  BY <1>5, <1>7 DEF ItemBoth

\* The page as it is opened.
LEMMA ItemInitKeeps == WorkItems!Init => ItemBoth
<1> SUFFICES ASSUME WorkItems!Init
             PROVE  ItemBoth
  OBVIOUS
<1>1. table \in ItemTableRec /\ Len(table.runs) = 1
  <2>1. WorkItems!NewRun(1) \in ItemRunRec
    BY ItemItemFacts DEF WorkItems!NewRun, ItemRunRec
  <2>2. <<WorkItems!NewRun(1)>> \in Seq(ItemRunRec) /\ Len(<<WorkItems!NewRun(1)>>) = 1
    BY <2>1
  <2>3. table.runs = <<WorkItems!NewRun(1)>>
    BY DEF WorkItems!Init
  <2>4. [i \in Items |-> IF i = 1 THEN "approved" ELSE IF i <= StartItems THEN "draft" ELSE "none"]
            \in [Items -> {"none", "draft", "approved"}]
    OBVIOUS
  <2> QED
    BY <2>2, <2>3, <2>4 DEF WorkItems!Init, ItemTableRec
<1>2. ItemSeenOK(seen, table)
  <2>1. seen = [q \in WorkItems!Keys |-> IF q[1] = "page" THEN {} ELSE IF q[1] = "item" THEN WorkItems!Nowhere ELSE WorkItems!NoRun]
    BY DEF WorkItems!Init
  <2>2. \A q \in WorkItems!Keys : seen[q] \in ItemAnswers(table, q)
    BY <1>1, <2>1, ItemKeyFacts DEF ItemAnswers, WorkItems!NoRun, WorkItems!None
  <2> QED
    BY <2>1, <2>2 DEF ItemSeenOK
<1>3. page \in ItemPageRec /\ page.run = WorkItems!None /\ ~ page.creating
  BY EmptySeq DEF WorkItems!Init, ItemPageRec, WorkItems!Tabs, WorkItems!Filters, ItemPerhaps,
     ItemForms, WorkItems!Nowhere, WorkItems!Blank, WorkItems!None
<1>4. \A i \in Items : table.status[i] # "none" => i <= StartItems
  <2>1. table.status = [i \in Items |-> IF i = 1 THEN "approved" ELSE IF i <= StartItems THEN "draft" ELSE "none"]
    BY DEF WorkItems!Init
  <2>2. 1 <= StartItems
    BY ItemNumbers
  <2> QED
    BY <2>1, <2>2
<1>5. \A q \in WorkItems!Keys : q[1] = "page" => seen[q] = {}
  BY DEF WorkItems!Init
<1>6. \A i \in Items : <<"item", i>> \in due
  BY ItemKeyFacts DEF WorkItems!Init
<1>7. WorkItems!Shown(page, seen) = WorkItems!None
  <2>1. WorkItems!ListKey(page) \in WorkItems!Keys /\ WorkItems!ListKey(page)[1] = "page"
    BY <1>2, <1>3, ItemShownTyped
  <2> QED
    BY <1>5, <2>1 DEF WorkItems!Shown, WorkItems!Backlog
<1>8. \A i \in Items : seen[<<"item", i>>] = WorkItems!Nowhere
  BY ItemKeyFacts DEF WorkItems!Init
<1>9. ItemIInv
  <2>1. ItemFilled(page, seen)
    BY <1>7 DEF ItemFilled, WorkItems!Detail
  <2>2. log \in [opened : ItemPerhaps, last : Nat] /\ log.last = StartItems
    BY ItemNumbers DEF WorkItems!Init, ItemPerhaps
  <2>3. ItemKnown(table, seen, log) /\ ItemFetched(table, seen, due, log)
    BY <1>4, <1>5, <1>6, <2>2 DEF ItemKnown, ItemFetched
  <2>4. ItemJobsOK(jobs, table, log) /\ due \subseteq WorkItems!Keys /\ rough \in BOOLEAN
    BY DEF WorkItems!Init, ItemJobsOK
  <2>5. ItemAimed(page, log) /\ page.run <= Len(table.runs)
    BY <1>1, <1>3 DEF ItemAimed, WorkItems!None
  <2> QED
    BY <1>1, <1>2, <1>3, <2>1, <2>2, <2>3, <2>4, <2>5 DEF ItemIInv
<1>10. ItemWaited
  BY <1>3, <1>8 DEF ItemWaited, WorkItems!Init, ItemRunShown, ItemOwnRows
<1> QED
  BY <1>9, <1>10 DEF ItemBoth


\* One tick less.
LEMMA ItemWithoutTyped ==
    ASSUME NEW t \in Seq(Items), NEW i, \E k \in DOMAIN t : t[k] = i
    PROVE  WorkItems!Without(t, i) \in Seq(Items)
<1> DEFINE p == CHOOSE k \in DOMAIN t : t[k] = i
           w == [k \in 1 .. Len(t) - 1 |-> IF k < p THEN t[k] ELSE t[k + 1]]
<1>1. DOMAIN t = 1 .. Len(t) /\ Len(t) \in Nat /\ \A k \in 1 .. Len(t) : t[k] \in Items
  BY ElementOfSeq, LenProperties
<1>2. Len(t) - 1 \in Nat
  BY <1>1
<1>3. \A k \in 1 .. Len(t) - 1 : w[k] \in Items
  BY <1>1
<1>4. w \in [1 .. Len(t) - 1 -> Items]
  BY <1>3
<1> HIDE DEF w
<1>5. w \in Seq(Items)
  BY <1>2, <1>4, SeqDef
<1> QED
  BY <1>5 DEF WorkItems!Without, w

\* A page that is mounted anew.
LEMMA ItemRemountedFacts ==
    ASSUME ItemIInv, NEW pg \in ItemPageRec, pg.draft = page.draft
    PROVE  /\ WorkItems!Remounted(pg) \in ItemPageRec /\ WorkItems!Remounted(pg).run = WorkItems!None
                /\ ItemFilled(WorkItems!Remounted(pg), seen)
           /\ WorkItems!Remounted(pg).parent = WorkItems!None
<1> DEFINE new == [pg EXCEPT !.filter = "", !.index = 0, !.ticks = <<>>, !.parent = WorkItems!None,
                             !.space = WorkItems!None, !.editing = FALSE, !.run = WorkItems!None, !.cli = WorkItems!None]
           R == WorkItems!Rendered(new, seen)
           d == IF WorkItems!Detail(R, seen) = WorkItems!Nowhere THEN WorkItems!Blank ELSE WorkItems!Detail(R, seen)
<1>1. new \in ItemPageRec /\ new.draft = page.draft /\ new.run = WorkItems!None
      /\ new.parent = WorkItems!None
  BY EmptySeq DEF ItemPageRec, WorkItems!Filters, ItemPerhaps, WorkItems!None
<1>2. WorkItems!Remounted(pg) = [R EXCEPT !.draft = d]
  BY DEF WorkItems!Remounted
<1> HIDE DEF new
<1>3. R \in ItemPageRec /\ R.run = WorkItems!None /\ R.parent = WorkItems!None
  BY <1>1, ItemRenderedFacts DEF ItemIInv
<1> HIDE DEF R
<1>4. WorkItems!Detail(R, seen) \in ItemRows \cup {WorkItems!Nowhere}
  BY <1>3, ItemDerivedTyped DEF ItemIInv, WorkItems!Detail, WorkItems!None, ItemTableRec
<1>5. d \in ItemForms \ {WorkItems!Nowhere}
  BY <1>4 DEF ItemForms, WorkItems!Nowhere, WorkItems!Blank
<1> HIDE DEF d
<1>6. /\ [R EXCEPT !.draft = d] \in ItemPageRec /\ [R EXCEPT !.draft = d].run = WorkItems!None
      /\ [R EXCEPT !.draft = d].parent = WorkItems!None /\ [R EXCEPT !.draft = d].draft = d
  BY <1>3, <1>5 DEF ItemPageRec
<1>7. WorkItems!Detail([R EXCEPT !.draft = d], seen) = WorkItems!Detail(R, seen)
  BY <1>3 DEF WorkItems!Detail, WorkItems!Shown, WorkItems!Backlog, WorkItems!ListKey,
     ItemPageRec
<1>8. ItemFilled([R EXCEPT !.draft = d], seen)
  BY <1>6, <1>7 DEF ItemFilled, d
<1> QED
  BY <1>2, <1>6, <1>8

\* What the person chooses, ticks and opens.
LEMMA ItemPageActs ==
    ASSUME ItemBoth, rough \/ WorkItems!Quiet,
           \/ \E t \in WorkItems!Tabs : WorkItems!ChooseTab(t)
           \/ \E f \in WorkItems!Filters : WorkItems!ChooseFilter(f)
           \/ \E n \in {0, 1} : WorkItems!ChoosePage(n)
           \/ \E i \in Items : WorkItems!Select(i) \/ WorkItems!Tick(i) \/ WorkItems!OpenRoute(i)
           \/ WorkItems!OpenCreateStory \/ WorkItems!OpenCreateTask \/ WorkItems!OpenEdit
              \/ WorkItems!Dismiss \/ WorkItems!EditWorkspace
    PROVE  ItemBoth'
<1>0. page \in ItemPageRec /\ ItemAimed(page, log) /\ log \in [opened : ItemPerhaps, last : Nat]
  BY DEF ItemBoth, ItemIInv
<1>1. ASSUME NEW pg \in ItemPageRec, WorkItems!Becomes(pg), pg.draft = page.draft, pg.run = page.run,
             ~ pg.creating \/ (pg.creating = page.creating /\ pg.parent = page.parent)
      PROVE  ItemBoth'
  <2>1. page' = WorkItems!Rendered(pg, seen) /\ log' = log
        /\ UNCHANGED <<table, seen, due, jobs, rough>>
    BY <1>1 DEF WorkItems!Becomes
  <2>2. ItemAimed(pg, log')
    BY <1>0, <1>1, <2>1 DEF ItemAimed
  <2> QED
    BY <1>0, <1>1, <2>1, <2>2, ItemRenderKeeps
<1>2. ASSUME NEW t \in WorkItems!Tabs, WorkItems!ChooseTab(t)
      PROVE  ItemBoth'
  <2> DEFINE pg == [page EXCEPT !.tab = t]
  <2>1. pg \in ItemPageRec /\ pg.draft = page.draft /\ pg.run = page.run /\ pg.creating = page.creating
        /\ pg.parent = page.parent
    BY <1>0 DEF ItemPageRec
  <2>2. WorkItems!Becomes(pg)
    BY <1>2 DEF WorkItems!ChooseTab
  <2> HIDE DEF pg
  <2> QED
    BY <1>1, <2>1, <2>2
<1>3. ASSUME NEW f \in WorkItems!Filters, WorkItems!ChooseFilter(f)
      PROVE  ItemBoth'
  <2> DEFINE pg == [page EXCEPT !.filter = f]
  <2>1. pg \in ItemPageRec /\ pg.draft = page.draft /\ pg.run = page.run /\ pg.creating = page.creating
        /\ pg.parent = page.parent
    BY <1>0 DEF ItemPageRec
  <2>2. WorkItems!Becomes(pg)
    BY <1>3 DEF WorkItems!ChooseFilter
  <2> HIDE DEF pg
  <2> QED
    BY <1>1, <2>1, <2>2
<1>4. ASSUME NEW n \in {0, 1}, WorkItems!ChoosePage(n)
      PROVE  ItemBoth'
  <2> DEFINE pg == [page EXCEPT !.index = n]
  <2>1. pg \in ItemPageRec /\ pg.draft = page.draft /\ pg.run = page.run /\ pg.creating = page.creating
        /\ pg.parent = page.parent
    BY <1>0 DEF ItemPageRec
  <2>2. WorkItems!Becomes(pg)
    BY <1>4 DEF WorkItems!ChoosePage
  <2> HIDE DEF pg
  <2> QED
    BY <1>1, <2>1, <2>2
<1>5. ASSUME NEW i \in Items, WorkItems!Select(i)
      PROVE  ItemBoth'
  <2> DEFINE pg == [page EXCEPT !.active = i, !.tab = "detail"]
  <2>1. pg \in ItemPageRec /\ pg.draft = page.draft /\ pg.run = page.run /\ pg.creating = page.creating
        /\ pg.parent = page.parent
    BY <1>0 DEF ItemPageRec, WorkItems!Tabs, ItemPerhaps
  <2>2. WorkItems!Becomes(pg)
    BY <1>5 DEF WorkItems!Select
  <2> HIDE DEF pg
  <2> QED
    BY <1>1, <2>1, <2>2
<1>6. ASSUME NEW i \in Items, WorkItems!Tick(i)
      PROVE  ItemBoth'
  <2> DEFINE t == IF i \in WorkItems!Ticked(page) THEN WorkItems!Without(page.ticks, i) ELSE Append(page.ticks, i)
             pg == [page EXCEPT !.ticks = t]
  <2>1. page.ticks \in Seq(Items)
    BY <1>0 DEF ItemPageRec
  <2>2. i \in WorkItems!Ticked(page) => \E k \in DOMAIN page.ticks : page.ticks[k] = i
    BY DEF WorkItems!Ticked
  <2>3. t \in Seq(Items)
    BY <2>1, <2>2, ItemWithoutTyped, AppendProperties
  <2>4. WorkItems!Becomes(pg)
    BY <1>6 DEF WorkItems!Tick
  <2> HIDE DEF t
  <2>5. pg \in ItemPageRec /\ pg.draft = page.draft /\ pg.run = page.run /\ pg.creating = page.creating
        /\ pg.parent = page.parent
    BY <1>0, <2>3 DEF ItemPageRec
  <2> HIDE DEF pg
  <2> QED
    BY <1>1, <2>4, <2>5
<1>7. ASSUME NEW i \in Items, WorkItems!OpenRoute(i)
      PROVE  ItemBoth'
  <2> DEFINE pg == [page EXCEPT !.active = i]
  <2>1. pg \in ItemPageRec /\ pg.draft = page.draft
    BY <1>0 DEF ItemPageRec, ItemPerhaps
  <2>2. page' = WorkItems!Remounted(pg) /\ log' = log /\ UNCHANGED <<table, seen, due, jobs, rough>>
        /\ ~ page.creating
    BY <1>7 DEF WorkItems!OpenRoute, WorkItems!Modal
  <2>3. pg.creating = page.creating
    BY <1>0 DEF ItemPageRec
  <2> HIDE DEF pg
  <2>4. page' \in ItemPageRec /\ page'.run = WorkItems!None /\ ItemFilled(page', seen)
    BY <2>1, <2>2, ItemRemountedFacts DEF ItemBoth
  <2>5. ~ page'.creating
    <3> DEFINE new == [pg EXCEPT !.filter = "", !.index = 0, !.ticks = <<>>, !.parent = WorkItems!None,
                                 !.space = WorkItems!None, !.editing = FALSE, !.run = WorkItems!None, !.cli = WorkItems!None]
    <3>1. new \in ItemPageRec /\ new.draft = page.draft /\ ~ new.creating
      BY <2>1, <2>2, <2>3, EmptySeq DEF ItemPageRec, WorkItems!Filters, ItemPerhaps,
         WorkItems!None
    <3>2. WorkItems!Rendered(new, seen) \in ItemPageRec /\ ~ WorkItems!Rendered(new, seen).creating
      <4> HIDE DEF new
      <4> QED
        BY <3>1, ItemRenderedFacts DEF ItemBoth, ItemIInv
    <3>3. page' = [WorkItems!Rendered(new, seen) EXCEPT
                      !.draft = IF WorkItems!Detail(WorkItems!Rendered(new, seen), seen) = WorkItems!Nowhere THEN WorkItems!Blank
                                ELSE WorkItems!Detail(WorkItems!Rendered(new, seen), seen)]
      BY <2>2 DEF WorkItems!Remounted
    <3> HIDE DEF new
    <3> QED
      BY <3>2, <3>3 DEF ItemPageRec
  <2>6. page'.run <= Len(table.runs) /\ ItemAimed(page', log') /\ ItemRunShown(table, seen, page')
    BY <2>4, <2>5 DEF ItemBoth, ItemIInv, WorkItems!None, ItemTableRec, ItemAimed, ItemRunShown
  <2> QED
    BY <1>0, <2>2, <2>4, <2>6, ItemPageKeeps DEF WorkItems!Quiet
<1>8. ASSUME WorkItems!OpenCreateStory
      PROVE  ItemBoth'
  <2>1. page' = [page EXCEPT !.creating = TRUE, !.parent = WorkItems!None]
        /\ log' = [log EXCEPT !.opened = WorkItems!None]
        /\ UNCHANGED <<table, seen, due, jobs, rough>>
    BY <1>8 DEF WorkItems!OpenCreateStory
  <2>2. /\ page' \in ItemPageRec /\ page'.run = page.run /\ page'.draft = page.draft
           /\ page'.active = page.active
        /\ page'.parent = WorkItems!None /\ page'.filter = page.filter /\ page'.index = page.index
        /\ log' \in [opened : ItemPerhaps, last : Nat] /\ log'.last = log.last
           /\ log'.opened = WorkItems!None
    BY <1>0, <2>1 DEF ItemPageRec, ItemPerhaps
  <2>3. WorkItems!Shown(page', seen) = WorkItems!Shown(page, seen)
        /\ WorkItems!Detail(page', seen) = WorkItems!Detail(page, seen)
    BY <2>2 DEF WorkItems!Shown, WorkItems!Detail, WorkItems!Backlog, WorkItems!ListKey
  <2>4. ItemFilled(page', seen) /\ page'.run <= Len(table.runs) /\ ItemAimed(page', log')
    BY <2>2, <2>3 DEF ItemBoth, ItemIInv, ItemFilled, ItemAimed
  <2>5. ~ rough => jobs = {} /\ ItemRunShown(table, seen, page')
    BY <2>2, <2>3 DEF ItemBoth, ItemWaited, WorkItems!Quiet, ItemRunShown
  <2> QED
    BY <2>1, <2>2, <2>4, <2>5, ItemPageKeeps
<1>9. ASSUME WorkItems!OpenCreateTask
      PROVE  ItemBoth'
  <2> DEFINE pg == [page EXCEPT !.creating = TRUE, !.tab = "backlog", !.parent = WorkItems!Summary(page, seen).of]
  <2>1. page' = WorkItems!Rendered(pg, seen)
        /\ log' = [log EXCEPT !.opened = WorkItems!Summary(page, seen).of]
        /\ UNCHANGED <<table, seen, due, jobs, rough>> /\ WorkItems!Shown(page, seen) # WorkItems!None
    BY <1>9 DEF WorkItems!OpenCreateTask
  <2>2. WorkItems!Summary(page, seen).of \in Items
    BY <2>1, ItemDerivedTyped DEF ItemBoth, ItemIInv, ItemRows
  <2>3. pg \in ItemPageRec /\ pg.draft = page.draft /\ pg.run = page.run
        /\ pg.parent = WorkItems!Summary(page, seen).of
    BY <1>0, <2>2 DEF ItemPageRec, ItemPerhaps, WorkItems!Tabs
  <2>4. log' \in [opened : ItemPerhaps, last : Nat] /\ log'.last = log.last
        /\ log'.opened = WorkItems!Summary(page, seen).of
    BY <1>0, <2>1, <2>2 DEF ItemPerhaps
  <2> HIDE DEF pg
  <2>5. ItemAimed(pg, log')
    BY <2>3, <2>4 DEF ItemAimed
  <2> QED
    BY <2>1, <2>3, <2>4, <2>5, ItemRenderKeeps
<1>10. ASSUME WorkItems!OpenEdit
      PROVE  ItemBoth'
  <2> DEFINE pg == [page EXCEPT !.editing = TRUE]
  <2>1. pg \in ItemPageRec /\ pg.draft = page.draft /\ pg.run = page.run /\ pg.creating = page.creating
        /\ pg.parent = page.parent
    BY <1>0 DEF ItemPageRec
  <2>2. WorkItems!Becomes(pg)
    BY <1>10 DEF WorkItems!OpenEdit
  <2> HIDE DEF pg
  <2> QED
    BY <1>1, <2>1, <2>2
<1>11. ASSUME WorkItems!Dismiss
      PROVE  ItemBoth'
  <2> DEFINE pg == [page EXCEPT !.creating = FALSE, !.editing = FALSE]
  <2>1. pg \in ItemPageRec /\ pg.draft = page.draft /\ pg.run = page.run /\ ~ pg.creating
    BY <1>0 DEF ItemPageRec
  <2>2. WorkItems!Becomes(pg)
    BY <1>11 DEF WorkItems!Dismiss
  <2> HIDE DEF pg
  <2> QED
    BY <1>1, <2>1, <2>2
<1>12. ASSUME WorkItems!EditWorkspace
      PROVE  ItemBoth'
  <2>1. PICK sp \in ItemPerhaps : WorkItems!Becomes([page EXCEPT !.space = sp])
    <3>1. WorkItems!Shown(page, seen) \in ItemPerhaps /\ WorkItems!None \in ItemPerhaps
      BY ItemShownTyped DEF ItemBoth, ItemIInv, ItemPerhaps
    <3> QED
      BY <1>12, <3>1 DEF WorkItems!EditWorkspace
  <2> DEFINE pg == [page EXCEPT !.space = sp]
  <2>2. pg \in ItemPageRec /\ pg.draft = page.draft /\ pg.run = page.run /\ pg.creating = page.creating
        /\ pg.parent = page.parent
    BY <1>0 DEF ItemPageRec
  <2>3. WorkItems!Becomes(pg)
    BY <2>1
  <2> HIDE DEF pg
  <2> QED
    BY <1>1, <2>2, <2>3
<1> QED
  BY <1>2, <1>3, <1>4, <1>5, <1>6, <1>7, <1>8, <1>9, <1>10, <1>11, <1>12


\* A job as it is sent.
LEMMA ItemJobFacts ==
    ASSUME NEW op \in ItemAllOps, NEW i \in ItemPerhaps
    PROVE  /\ WorkItems!Job(op, i) \in ItemBase /\ WorkItems!Job(op, i).op = op
                /\ WorkItems!Job(op, i).item = i
           /\ WorkItems!Job(op, i).at = "out" /\ WorkItems!Job(op, i).waits = {}
              /\ WorkItems!Job(op, i).run = WorkItems!None
  BY EmptySeq DEF ItemBase, WorkItems!Job, ItemPerhaps, ItemForms, WorkItems!Verdicts,
     WorkItems!None

\* What the person sends.
LEMMA ItemSendActs ==
    ASSUME ItemBoth, rough \/ WorkItems!Quiet,
           \/ \E i \in Items : WorkItems!DeleteRow(i)
           \/ \E i \in Items, v \in WorkItems!Verdicts : WorkItems!DecideRow(i, v)
           \/ \E v \in WorkItems!Verdicts : \/ WorkItems!DecideBulk(v) \/ WorkItems!DetailTab("item", v)
                                            \/ \E g \in WorkItems!Gates : WorkItems!ReviewCard(g, v)
           \/ \E op \in {"start", "restart"} : WorkItems!DetailTab(op, "approve")
           \/ \E op \in {"fail", "restart"} : WorkItems!ReviewCard(op, "approve")
           \/ WorkItems!CreateModal \/ WorkItems!EditModal \/ WorkItems!RunExternalCli
           \/ \E op \in {"assign", "clear", "space"} : WorkItems!WorkspacePanel(op)
    PROVE  ItemBoth'
<1>0. /\ page \in ItemPageRec /\ ItemAimed(page, log) /\ log \in [opened : ItemPerhaps, last : Nat]
         /\ table \in ItemTableRec
      /\ ItemSeenOK(seen, table) /\ page.run <= Len(table.runs) /\ Len(table.runs) \in Nat
         /\ WorkItems!None \in ItemPerhaps
      /\ <<>> \in Seq(Items) /\ WorkItems!Nowhere \in ItemForms /\ "approve" \in WorkItems!Verdicts
         /\ 0 \in Nat
  BY EmptySeq DEF ItemBoth, ItemIInv, ItemTableRec, ItemPerhaps, ItemForms, WorkItems!Verdicts
<1>1. ~ rough => due \cap WorkItems!Mounted(page, seen) = {} /\ ItemRunShown(table, seen, page)
      /\ ItemOwnRows(seen)
  BY DEF ItemBoth, ItemWaited, WorkItems!Quiet
<1>2. ASSUME NEW op \in {"delete", "row", "cli"}, NEW i \in Items,
             NEW j \in ItemBase, WorkItems!Begin(j),
             j.op = op, j.item = i, j.at = "out", j.waits = {}, j.run = WorkItems!None
      PROVE  ItemBoth'
  <2>1. op \in ItemAllOps /\ op \notin ItemRunOps /\ op \notin ItemItemOps
    BY DEF ItemAllOps, ItemRunOps, ItemItemOps, WorkItems!Gates
  <2>2. j \in ItemJobRec
    BY <1>2, <2>1 DEF ItemJobRec, WorkItems!None
  <2>3. ~ rough => ItemStill(j, table, seen, due, page)
    BY <1>1, <1>2, <2>1 DEF ItemStill
  <2>4. j.run <= Len(table.runs) /\ (j.op = "create" => j.parent = j.goal)
    BY <1>0, <1>2 DEF WorkItems!None
  <2> QED
    BY <1>2, <2>2, <2>3, <2>4, ItemBeginKeeps
<1>3. ASSUME NEW op \in ItemRunOps \cup {"item", "start"},
             NEW v \in WorkItems!Verdicts, WorkItems!Shown(page, seen) # WorkItems!None,
             op \in ItemRunOps => WorkItems!WorkflowRun(page, seen) # WorkItems!None,
             WorkItems!Begin([WorkItems!Job(op, WorkItems!Shown(page, seen)) EXCEPT !.run = WorkItems!WorkflowRun(page, seen), !.verdict = v])
      PROVE  ItemBoth'
  <2> DEFINE b == WorkItems!Job(op, WorkItems!Shown(page, seen))
             r == WorkItems!WorkflowRun(page, seen)
             i == WorkItems!Shown(page, seen)
             j == [b EXCEPT !.run = r, !.verdict = v]
  <2>1. WorkItems!Begin(j)
    BY <1>3
  <2>2. op \in ItemAllOps /\ op \notin {"update", "create", "bulk"}
    BY DEF ItemAllOps, ItemItemOps, ItemRunOps, WorkItems!Gates
  <2>3. r \in 0 .. Len(table.runs) /\ (ItemRunShown(table, seen, page) /\ r # WorkItems!None
        => table.runs[r].item = i)
    BY <1>0, <1>3, ItemDerivedTyped
  <2>4. i \in Items /\ i \in ItemPerhaps /\ r \in Nat
    BY <1>0, <1>3, <2>3, ItemShownTyped
  <2> HIDE DEF r, i
  <2>5. j \in ItemJobRec /\ j.at = "out" /\ j.op = op /\ j.item = i /\ j.run = r
    <3>1. b \in ItemBase /\ b.op = op /\ b.item = i /\ b.at = "out" /\ b.waits = {}
          /\ b.run = WorkItems!None
      BY <1>0, <1>3, <2>2, <2>4, ItemJobFacts DEF i
    <3> HIDE DEF b
    <3>2. j \in ItemBase /\ j.op = op /\ j.at = "out" /\ j.waits = {} /\ j.op = op /\ j.item = i
          /\ j.run = r
      BY <1>0, <3>1, <1>3, <2>2, <2>4 DEF ItemBase
    <3> QED
      BY <3>2, <1>3, <2>2, <2>4 DEF ItemJobRec, WorkItems!None, r
  <2>6. ~ rough => ItemStill(j, table, seen, due, page)
    BY <1>1, <2>5, <1>3, <2>2, <2>3 DEF ItemStill, i, r
  <2>7. j.run <= Len(table.runs) /\ (j.op = "create" => j.parent = j.goal)
    BY <1>0, <2>5, <2>2, <2>3
  <2> HIDE DEF j
  <2> QED
    BY <2>1, <2>5, <2>6, <2>7, ItemBeginKeeps
<1>4. ASSUME NEW i \in Items, WorkItems!DeleteRow(i)
      PROVE  ItemBoth'
  <2> DEFINE j == WorkItems!Job("delete", i)
  <2>1. /\ j \in ItemBase /\ j.op = "delete" /\ j.item = i /\ j.at = "out" /\ j.waits = {}
           /\ j.run = WorkItems!None
        /\ WorkItems!Begin(j)
    BY <1>4, ItemJobFacts DEF WorkItems!DeleteRow, ItemAllOps, ItemPerhaps
  <2> HIDE DEF j
  <2> QED
    BY <1>2, <2>1
<1>5. ASSUME NEW i \in Items, NEW v \in WorkItems!Verdicts, WorkItems!DecideRow(i, v)
      PROVE  ItemBoth'
  <2> DEFINE k == WorkItems!Job("row", i)
             j == [k EXCEPT !.verdict = v]
  <2>1. /\ k \in ItemBase /\ k.op = "row" /\ k.item = i /\ k.at = "out" /\ k.waits = {}
           /\ k.run = WorkItems!None
    BY ItemJobFacts DEF ItemAllOps, ItemPerhaps
  <2>2. WorkItems!Begin(j)
    BY <1>5 DEF WorkItems!DecideRow
  <2> HIDE DEF k
  <2>3. j \in ItemBase /\ j.op = "row" /\ j.item = i /\ j.at = "out" /\ j.waits = {}
        /\ j.run = WorkItems!None
    BY <2>1 DEF ItemBase
  <2> HIDE DEF j
  <2> QED
    BY <1>2, <2>2, <2>3
<1>6. ASSUME WorkItems!RunExternalCli
      PROVE  ItemBoth'
  <2> DEFINE j == WorkItems!Job("cli", WorkItems!Shown(page, seen))
  <2>1. WorkItems!Shown(page, seen) \in Items
    BY <1>0, <1>6, ItemShownTyped DEF WorkItems!RunExternalCli
  <2>2. /\ j \in ItemBase /\ j.op = "cli" /\ j.item = WorkItems!Shown(page, seen) /\ j.at = "out"
           /\ j.waits = {} /\ j.run = WorkItems!None
        /\ WorkItems!Begin(j)
    BY <1>6, <2>1, ItemJobFacts DEF WorkItems!RunExternalCli, ItemAllOps, ItemPerhaps
  <2> HIDE DEF j
  <2> QED
    BY <1>2, <2>1, <2>2
<1>7. ASSUME NEW v \in WorkItems!Verdicts, WorkItems!DecideBulk(v)
      PROVE  ItemBoth'
  <2> DEFINE b == WorkItems!Job("bulk", WorkItems!None)
             j == [b EXCEPT !.verdict = v, !.rows = page.ticks]
  <2>1. WorkItems!Begin(j)
    BY <1>7 DEF WorkItems!DecideBulk
  <2>2. page.ticks \in Seq(Items) /\ page.ticks # <<>>
    <3>1. page.ticks \in Seq(Items)
      BY <1>0 DEF ItemPageRec
    <3>2. \E k \in DOMAIN page.ticks : TRUE
      BY <1>7 DEF WorkItems!DecideBulk, WorkItems!Ticked
    <3>3. DOMAIN <<>> = {}
      OBVIOUS
    <3> QED
      BY <3>1, <3>2, <3>3
  <2>3. "bulk" \in ItemAllOps /\ "bulk" \notin ItemItemOps /\ "bulk" \notin ItemRunOps
    BY DEF ItemAllOps, ItemRunOps, ItemItemOps, WorkItems!Gates
  <2>4. j \in ItemJobRec /\ j.at = "out" /\ j.op = "bulk" /\ j.run = WorkItems!None
    <3>1. b \in ItemBase /\ b.op = "bulk" /\ b.item = WorkItems!None /\ b.at = "out" /\ b.waits = {}
          /\ b.run = WorkItems!None
      BY <1>0, <2>2, <2>3, ItemJobFacts
    <3> HIDE DEF b
    <3>2. j \in ItemBase /\ j.op = "bulk" /\ j.at = "out" /\ j.waits = {} /\ j.op = "bulk"
          /\ j.run = WorkItems!None /\ j.rows = page.ticks
      BY <1>0, <3>1, <2>2, <2>3 DEF ItemBase
    <3> QED
      BY <3>2, <2>2, <2>3 DEF ItemJobRec, WorkItems!None
  <2>5. ~ rough => ItemStill(j, table, seen, due, page)
    BY <1>1, <2>4, <2>3 DEF ItemStill
  <2>6. j.run <= Len(table.runs) /\ (j.op = "create" => j.parent = j.goal)
    BY <1>0, <2>4 DEF WorkItems!None
  <2> HIDE DEF j
  <2> QED
    BY <2>1, <2>4, <2>5, <2>6, ItemBeginKeeps
<1>8. ASSUME NEW op \in {"item", "start", "restart"},
             NEW v \in WorkItems!Verdicts, WorkItems!DetailTab(op, v)
      PROVE  ItemBoth'
  <2>1. WorkItems!Shown(page, seen) # WorkItems!None /\ (op = "restart"
        => WorkItems!WorkflowRun(page, seen) # WorkItems!None)
        /\ WorkItems!Begin([WorkItems!Job(op, WorkItems!Shown(page, seen)) EXCEPT !.run = WorkItems!WorkflowRun(page, seen), !.verdict = v])
    BY <1>8 DEF WorkItems!DetailTab, WorkItems!DetailButtons
  <2>2. op \in ItemRunOps \cup {"item", "start"} /\ (op \in ItemRunOps => op = "restart")
    BY DEF ItemRunOps, WorkItems!Gates
  <2> QED
    BY <1>3, <2>1, <2>2
<1>9. ASSUME NEW op \in ItemRunOps, NEW v \in WorkItems!Verdicts, WorkItems!ReviewCard(op, v)
      PROVE  ItemBoth'
  <2>1. WorkItems!Shown(page, seen) # WorkItems!None
        /\ WorkItems!WorkflowRun(page, seen) # WorkItems!None
        /\ WorkItems!Begin([WorkItems!Job(op, WorkItems!Shown(page, seen)) EXCEPT !.run = WorkItems!WorkflowRun(page, seen), !.verdict = v])
    BY <1>9 DEF WorkItems!ReviewCard
  <2> QED
    BY <1>3, <2>1
<1>10. ASSUME WorkItems!CreateModal
       PROVE  ItemBoth'
  <2> DEFINE b == WorkItems!Job("create", WorkItems!None)
             j == [b EXCEPT !.parent = page.parent, !.goal = log.opened]
  <2>1. WorkItems!Begin(j) /\ page.creating
    BY <1>10 DEF WorkItems!CreateModal
  <2>2. page.parent \in ItemPerhaps /\ log.opened \in ItemPerhaps /\ page.parent = log.opened
    BY <1>0, <2>1 DEF ItemPageRec, ItemAimed
  <2>3. "create" \in ItemAllOps /\ "create" \notin ItemItemOps /\ "create" \notin ItemRunOps
    BY DEF ItemAllOps, ItemRunOps, ItemItemOps, WorkItems!Gates
  <2>4. j \in ItemJobRec /\ j.at = "out" /\ j.op = "create" /\ j.run = WorkItems!None
        /\ j.parent = j.goal
    <3>1. b \in ItemBase /\ b.op = "create" /\ b.item = WorkItems!None /\ b.at = "out" /\ b.waits = {}
          /\ b.run = WorkItems!None
      BY <1>0, <2>2, <2>3, ItemJobFacts
    <3> HIDE DEF b
    <3>2. j \in ItemBase /\ j.op = "create" /\ j.at = "out" /\ j.waits = {} /\ j.op = "create"
          /\ j.run = WorkItems!None /\ j.parent = j.goal
      BY <1>0, <3>1, <2>2, <2>3 DEF ItemBase
    <3> QED
      BY <3>2, <2>2, <2>3 DEF ItemJobRec, WorkItems!None
  <2>5. ~ rough => ItemStill(j, table, seen, due, page)
    BY <1>1, <2>4, <2>3 DEF ItemStill
  <2>6. j.run <= Len(table.runs) /\ (j.op = "create" => j.parent = j.goal)
    BY <1>0, <2>4, <2>2 DEF WorkItems!None
  <2> HIDE DEF j
  <2> QED
    BY <2>1, <2>4, <2>5, <2>6, ItemBeginKeeps
<1>11. ASSUME WorkItems!EditModal
       PROVE  ItemBoth'
  <2> DEFINE b == WorkItems!Job("update", WorkItems!Shown(page, seen))
             i == WorkItems!Shown(page, seen)
             j == [b EXCEPT !.draft = page.draft]
  <2>1. WorkItems!Begin(j) /\ i # WorkItems!None
    BY <1>11 DEF WorkItems!EditModal
  <2>2. page.draft \in ItemForms /\ page.draft # WorkItems!Nowhere
    BY <1>0 DEF ItemPageRec
  <2>3. "update" \in ItemAllOps /\ "update" \in ItemItemOps /\ "update" \notin ItemRunOps
    BY DEF ItemAllOps, ItemRunOps, ItemItemOps, WorkItems!Gates
  <2>4. i \in Items /\ i \in ItemPerhaps
    BY <1>0, <2>1, ItemShownTyped
  <2>5. ~ rough => (table.status[i] # "none" => page.draft.of = i)
    <3> SUFFICES ASSUME ~ rough, table.status[i] # "none"
                 PROVE  page.draft.of = i
      OBVIOUS
    <3>1. <<"item", i>> \in WorkItems!Mounted(page, seen)
      BY <2>1 DEF WorkItems!Mounted
    <3>2. <<"item", i>> \notin due
      BY <1>1, <3>1
    <3>3. seen[<<"item", i>>] # WorkItems!Nowhere
      BY <2>4, <3>2 DEF ItemBoth, ItemIInv, ItemFetched
    <3>4. seen[<<"item", i>>].of = i
      BY <1>1, <2>4, <3>3 DEF ItemOwnRows
    <3>5. WorkItems!Detail(page, seen) = seen[<<"item", i>>]
      BY <1>0, <2>1, ItemDerivedTyped
    <3> QED
      BY <3>3, <3>4, <3>5 DEF ItemBoth, ItemIInv, ItemFilled
  <2>6. j \in ItemJobRec /\ j.at = "out" /\ j.op = "update" /\ j.item = i /\ j.run = WorkItems!None
        /\ j.draft = page.draft
    <3>1. b \in ItemBase /\ b.op = "update" /\ b.item = i /\ b.at = "out" /\ b.waits = {}
          /\ b.run = WorkItems!None
      BY <1>0, <2>2, <2>3, <2>4, ItemJobFacts
    <3> HIDE DEF b
    <3>2. j \in ItemBase /\ j.op = "update" /\ j.at = "out" /\ j.waits = {} /\ j.op = "update"
          /\ j.item = i /\ j.run = WorkItems!None /\ j.draft = page.draft
      BY <1>0, <3>1, <2>2, <2>3, <2>4 DEF ItemBase
    <3> QED
      BY <3>2, <2>2, <2>3, <2>4 DEF ItemJobRec, WorkItems!None
  <2>7. ~ rough => ItemStill(j, table, seen, due, page)
    BY <1>1, <2>6, <2>3, <2>5 DEF ItemStill
  <2>8. j.run <= Len(table.runs) /\ (j.op = "create" => j.parent = j.goal)
    BY <1>0, <2>6 DEF WorkItems!None
  <2> HIDE DEF j
  <2> QED
    BY <2>1, <2>6, <2>7, <2>8, ItemBeginKeeps
<1>12. ASSUME NEW op \in {"assign", "clear", "space"}, WorkItems!WorkspacePanel(op)
       PROVE  ItemBoth'
  <2> DEFINE b == WorkItems!Job(op, WorkItems!Summary(page, seen).of)
             i == WorkItems!Summary(page, seen).of
             j == [b EXCEPT !.goal = page.space]
  <2>1. WorkItems!Begin(j) /\ WorkItems!Shown(page, seen) # WorkItems!None
    BY <1>12 DEF WorkItems!WorkspacePanel, WorkItems!OnPanel
  <2>2. i \in Items /\ (ItemOwnRows(seen) => i = WorkItems!Shown(page, seen))
    BY <1>0, <2>1, ItemDerivedTyped DEF ItemRows
  <2>3. op \in ItemAllOps /\ op \in ItemItemOps /\ op \notin ItemRunOps
    BY DEF ItemAllOps, ItemRunOps, ItemItemOps, WorkItems!Gates
  <2>4. page.space \in ItemPerhaps /\ i \in ItemPerhaps
    BY <1>0, <2>2 DEF ItemPageRec, ItemPerhaps
  <2> HIDE DEF i
  <2>5. j \in ItemJobRec /\ j.at = "out" /\ j.op = op /\ j.item = i /\ j.run = WorkItems!None
    <3>1. b \in ItemBase /\ b.op = op /\ b.item = i /\ b.at = "out" /\ b.waits = {}
          /\ b.run = WorkItems!None
      BY <1>0, <2>2, <2>3, <2>4, ItemJobFacts DEF i
    <3> HIDE DEF b
    <3>2. j \in ItemBase /\ j.op = op /\ j.at = "out" /\ j.waits = {} /\ j.op = op /\ j.item = i
          /\ j.run = WorkItems!None
      BY <1>0, <3>1, <2>2, <2>3, <2>4 DEF ItemBase
    <3> QED
      BY <3>2, <2>2, <2>3, <2>4 DEF ItemJobRec, WorkItems!None
  <2>6. ~ rough => ItemStill(j, table, seen, due, page)
    BY <1>1, <2>5, <2>2, <2>3 DEF ItemStill
  <2>7. j.run <= Len(table.runs) /\ (j.op = "create" => j.parent = j.goal)
    BY <1>0, <2>5 DEF WorkItems!None
  <2> HIDE DEF j
  <2> QED
    BY <2>1, <2>5, <2>6, <2>7, ItemBeginKeeps
<1> QED
  BY <1>0, <1>4, <1>5, <1>6, <1>7, <1>8, <1>9, <1>10, <1>11, <1>12 DEF ItemRunOps

ItemRunsGrow(tb, tb2) ==
    /\ Len(tb.runs) <= Len(tb2.runs)
    /\ \A r \in WorkItems!Runs(tb) : tb2.runs[r].item = tb.runs[r].item

\* What was fetched stays true of a database with more runs.
LEMMA ItemSeenKept ==
    ASSUME NEW tb \in ItemTableRec, NEW tb2 \in ItemTableRec, NEW sn, ItemSeenOK(sn, tb),
           ItemRunsGrow(tb, tb2)
    PROVE  ItemSeenOK(sn, tb2)
<1>1. Len(tb.runs) \in Nat /\ Len(tb2.runs) \in Nat /\ Len(tb.runs) <= Len(tb2.runs)
  BY DEF ItemTableRec, ItemRunsGrow
<1>2. ASSUME NEW q \in WorkItems!Keys
      PROVE  sn[q] \in ItemAnswers(tb2, q)
  <2>1. sn[q] \in ItemAnswers(tb, q)
    BY DEF ItemSeenOK
  <2>2. CASE q[1] \in {"page", "item"}
    BY <2>1, <2>2 DEF ItemAnswers
  <2>3. CASE q[1] = "run"
    <3>1. /\ sn[q] \in [id : 0 .. Len(tb.runs), stage : {"none", "work", "plan", "test", "ended"}]
          /\ sn[q].id # WorkItems!None => tb.runs[sn[q].id].item = q[2]
      BY <2>1, <2>3 DEF ItemAnswers
    <3>2. sn[q].id # WorkItems!None => sn[q].id \in WorkItems!Runs(tb)
      BY <1>1, <3>1 DEF WorkItems!Runs, WorkItems!None
    <3>3. sn[q].id # WorkItems!None => tb2.runs[sn[q].id].item = q[2]
      BY <3>1, <3>2 DEF ItemRunsGrow
    <3>4. sn[q] \in [id : 0 .. Len(tb2.runs), stage : {"none", "work", "plan", "test", "ended"}]
      BY <1>1, <3>1
    <3> QED
      BY <2>3, <3>3, <3>4 DEF ItemAnswers
  <2> QED
    BY <2>2, <2>3, ItemKeyFacts
<1> QED
  BY <1>2 DEF ItemSeenOK

\* The runs that a job or the page holds keep their items.
LEMMA ItemRunsKept ==
    ASSUME ItemBoth, table' \in ItemTableRec, ItemRunsGrow(table, table')
    PROVE  /\ ItemSeenOK(seen, table')
           /\ \A j \in jobs : j.run <= Len(table'.runs)
                              /\ (j.op \in ItemRunOps => table'.runs[j.run].item = table.runs[j.run].item)
           /\ page.run <= Len(table'.runs)
           /\ page.run # WorkItems!None => table'.runs[page.run].item = table.runs[page.run].item
           /\ ~ rough => ItemRunShown(table', seen, page)
<1>1. Len(table.runs) \in Nat /\ Len(table'.runs) \in Nat /\ Len(table.runs) <= Len(table'.runs)
  BY DEF ItemTableRec, ItemRunsGrow, ItemBoth, ItemIInv
<1>2. ItemSeenOK(seen, table')
  BY ItemSeenKept DEF ItemBoth, ItemIInv
<1>3. ASSUME NEW j \in jobs
      PROVE  j.run <= Len(table'.runs) /\ (j.op \in ItemRunOps
             => table'.runs[j.run].item = table.runs[j.run].item)
  <2>1. j.run \in Nat /\ j.run <= Len(table.runs) /\ (j.op \in ItemRunOps => j.run # WorkItems!None)
    BY DEF ItemBoth, ItemIInv, ItemJobsOK, ItemJobRec, ItemBase
  <2>2. j.op \in ItemRunOps => j.run \in WorkItems!Runs(table)
    BY <1>1, <2>1 DEF WorkItems!Runs, WorkItems!None
  <2> QED
    BY <1>1, <2>1, <2>2 DEF ItemRunsGrow
<1>4. page.run \in Nat /\ page.run <= Len(table.runs)
  BY DEF ItemBoth, ItemIInv, ItemPageRec
<1>5. page.run # WorkItems!None => page.run \in WorkItems!Runs(table)
  BY <1>1, <1>4 DEF WorkItems!Runs, WorkItems!None
<1>6. page.run # WorkItems!None => table'.runs[page.run].item = table.runs[page.run].item
  BY <1>5 DEF ItemRunsGrow
<1> QED
  BY <1>1, <1>2, <1>3, <1>4, <1>6 DEF ItemBoth, ItemWaited, ItemRunShown

\* The database changes, by the engine.
LEMMA ItemTableKeeps ==
    ASSUME ItemBoth, table' \in ItemTableRec, ItemRunsGrow(table, table'), table'.status = table.status,
           UNCHANGED <<seen, due, page, jobs, log, rough>>
    PROVE  ItemBoth'
<1>1. ItemJobsOK(jobs', table', log')
  BY ItemRunsKept DEF ItemBoth, ItemIInv, ItemJobsOK
<1>2. ItemIInv'
  BY <1>1, ItemRunsKept DEF ItemBoth, ItemIInv, ItemKnown, ItemFetched
<1>3. ItemWaited'
  BY ItemRunsKept DEF ItemBoth, ItemWaited, ItemStill
<1> QED
  BY <1>2, <1>3 DEF ItemBoth

\* A job whose answer has come.
LEMMA ItemFetchingFacts ==
    ASSUME ItemBoth, NEW j \in jobs
    PROVE  /\ WorkItems!Fetching(j) \in ItemJobRec /\ WorkItems!Fetching(j).at = "fetch"
                /\ WorkItems!Fetching(j).op = j.op
           /\ WorkItems!Fetching(j).item = j.item /\ WorkItems!Fetching(j).run = j.run
              /\ WorkItems!Fetching(j).draft = j.draft
           /\ WorkItems!Fetching(j).parent = j.parent /\ WorkItems!Fetching(j).goal = j.goal
           /\ \A i \in Items : <<"item", i>> \in WorkItems!Fetching(j).waits => i <= log.last
           /\ WorkItems!Invalidates \subseteq WorkItems!Keys
<1> DEFINE f == WorkItems!Fetching(j)
           w == WorkItems!Invalidates \cap WorkItems!Mounted(page, seen)
<1>1. j \in ItemBase /\ j \in ItemJobRec
  BY DEF ItemBoth, ItemIInv, ItemJobsOK, ItemJobRec
<1>2. WorkItems!Shown(page, seen) \in ItemPerhaps /\ w \in SUBSET WorkItems!Keys
  BY ItemShownTyped DEF ItemBoth, ItemIInv
<1>3. f = [j EXCEPT !.at = "fetch", !.shown = WorkItems!Shown(page, seen), !.waits = w]
  BY DEF WorkItems!Fetching
<1>4. ASSUME NEW i \in Items, <<"item", i>> \in w
      PROVE  i <= log.last
  <2>1. i = WorkItems!Shown(page, seen)
    BY <1>4 DEF WorkItems!Mounted, WorkItems!ListKey
  <2>2. i \in WorkItems!Backlog(page, seen) /\ WorkItems!ListKey(page) \in WorkItems!Keys
        /\ WorkItems!ListKey(page)[1] = "page"
    BY <2>1, ItemItemFacts, ItemShownTyped DEF ItemBoth, ItemIInv
  <2> QED
    BY <2>2 DEF WorkItems!Backlog, ItemBoth, ItemIInv, ItemKnown
<1> HIDE DEF w
<1>5. /\ f \in ItemBase /\ f.at = "fetch" /\ f.op = j.op /\ f.item = j.item /\ f.run = j.run
         /\ f.draft = j.draft
      /\ f.parent = j.parent /\ f.goal = j.goal /\ f.rows = j.rows /\ f.waits = w
  <2> HIDE DEF f
  <2> QED
    BY <1>1, <1>2, <1>3 DEF ItemBase
<1> HIDE DEF f
<1>6. f \in ItemJobRec
  BY <1>1, <1>5 DEF ItemJobRec
<1>7. WorkItems!Invalidates \subseteq WorkItems!Keys
  BY DEF WorkItems!Invalidates
<1> QED
  BY <1>4, <1>5, <1>6, <1>7 DEF f

\* The job of an answer, for whatever the answer changes.
LEMMA ItemAnsweredFacts ==
    ASSUME ItemBoth, NEW j \in jobs, WorkItems!Answered(j), table' \in ItemTableRec,
           ItemRunsGrow(table, table'),
           log'.last \in Nat, log.last <= log'.last,
           j.op = "update" /\ table'.status[j.item] # "none" => table.status[j.item] # "none"
    PROVE  /\ ItemJobsOK(jobs', table', log') /\ due' \subseteq WorkItems!Keys /\ due \subseteq due'
           /\ ~ rough => /\ \A i, k \in jobs' : i = k
                         /\ \A k \in jobs' : ItemStill(k, table', seen', due', page')
<1> DEFINE f == WorkItems!Fetching(j)
<1>1. /\ f \in ItemJobRec /\ f.at = "fetch" /\ f.op = j.op
      /\ f.item = j.item /\ f.run = j.run /\ f.draft = j.draft
      /\ f.parent = j.parent /\ f.goal = j.goal
      /\ \A i \in Items : <<"item", i>> \in f.waits => i <= log.last
      /\ WorkItems!Invalidates \subseteq WorkItems!Keys
  BY ItemFetchingFacts
<1>2. jobs' = (jobs \ {j}) \cup {f} /\ due' = due \cup WorkItems!Invalidates
  BY DEF WorkItems!Answered
<1> HIDE DEF f
<1>3. due' \subseteq WorkItems!Keys /\ due \subseteq due'
  BY <1>1, <1>2 DEF ItemBoth, ItemIInv
<1>4. log.last \in Nat /\ Items \subseteq Nat
  BY ItemItemFacts DEF ItemBoth, ItemIInv
<1>5. ItemJobsOK(jobs', table', log')
  <2>1. \A k \in jobs : k.run <= Len(table'.runs)
    BY ItemRunsKept
  <2>2. ASSUME NEW k \in jobs', NEW i \in Items, <<"item", i>> \in k.waits
        PROVE  i <= log'.last
    <3>1. i <= log.last
      BY <1>1, <1>2, <2>2 DEF ItemBoth, ItemIInv, ItemJobsOK
    <3> QED
      BY <1>4, <3>1
  <2> QED
    BY <1>1, <1>2, <2>1, <2>2 DEF ItemJobsOK, ItemBoth, ItemIInv
<1>6. ASSUME ~ rough
      PROVE  (\A i, k \in jobs' : i = k) /\ \A k \in jobs' : ItemStill(k, table', seen', due', page')
  <2>1. jobs' = {f}
    BY <1>2, <1>6 DEF ItemBoth, ItemWaited
  <2>2. ItemStill(j, table, seen, due, page)
    BY <1>6 DEF ItemBoth, ItemWaited
  <2>3. f.op \in ItemRunOps => table'.runs[f.run].item = f.item
    BY <1>1, <2>2, ItemRunsKept DEF ItemStill
  <2>4. f.op = "update" /\ table'.status[f.item] # "none" => f.draft.of = f.item
    BY <1>1, <2>2 DEF ItemStill
  <2> QED
    BY <1>1, <2>1, <2>3, <2>4 DEF ItemStill
<1> QED
  BY <1>3, <1>5, <1>6

\* An answer that leaves what was fetched: the page may change.
LEMMA ItemReplyKeeps ==
    ASSUME ItemBoth, NEW j \in jobs, WorkItems!Answered(j), table' \in ItemTableRec,
           ItemRunsGrow(table, table'),
           \A i \in Items : table.status[i] = "none" => table'.status[i] = "none",
           UNCHANGED <<seen, log, rough>>, page' \in ItemPageRec, page'.run <= Len(table'.runs),
           ItemFilled(page', seen), ItemAimed(page', log), ~ rough => ItemRunShown(table', seen, page')
    PROVE  ItemBoth'
<1>1. log.last \in Nat /\ log'.last = log.last
  BY DEF ItemBoth, ItemIInv
<1>2. j.op = "update" => j.item \in Items
  BY DEF ItemBoth, ItemIInv, ItemJobsOK, ItemJobRec
<1>3. /\ ItemJobsOK(jobs', table', log') /\ due' \subseteq WorkItems!Keys /\ due \subseteq due'
      /\ ~ rough => /\ \A i, k \in jobs' : i = k
                    /\ \A k \in jobs' : ItemStill(k, table', seen', due', page')
  BY <1>1, <1>2, ItemAnsweredFacts
<1>4. ItemFetched(table', seen', due', log') /\ ItemKnown(table', seen', log')
  BY <1>3 DEF ItemFetched, ItemKnown, ItemBoth, ItemIInv
<1>5. ItemIInv'
  BY <1>3, <1>4, ItemRunsKept DEF ItemBoth, ItemIInv
<1>6. ItemWaited'
  BY <1>3 DEF ItemBoth, ItemWaited
<1> QED
  BY <1>5, <1>6 DEF ItemBoth

\* An answer that the page notes.
LEMMA ItemReplyOnPage ==
    ASSUME ItemBoth, NEW j \in jobs, WorkItems!Answered(j), table' \in ItemTableRec,
           ItemRunsGrow(table, table'),
           \A i \in Items : table.status[i] = "none" => table'.status[i] = "none",
           UNCHANGED <<seen, page, log, rough>>
    PROVE  ItemBoth'
<1>1. page' \in ItemPageRec /\ page'.run <= Len(table'.runs) /\ ItemFilled(page', seen)
      /\ ItemAimed(page', log)
  BY ItemRunsKept DEF ItemBoth, ItemIInv
<1>2. ~ rough => ItemRunShown(table', seen, page')
  BY ItemRunsKept
<1> QED
  BY <1>1, <1>2, ItemReplyKeeps

\* A job is over.
LEMMA ItemDropKeeps ==
    ASSUME ItemBoth, NEW j \in jobs, jobs' = jobs \ {j}, table' = table, rough' = rough,
           ItemSeenOK(seen', table), due' \subseteq WorkItems!Keys, page' \in ItemPageRec, page'.run <= Len(table.runs),
           log' \in [opened : ItemPerhaps, last : Nat], log'.last = log.last,
           ItemKnown(table, seen', log'), ItemFetched(table, seen', due', log'),
           ItemFilled(page', seen'),
           ItemAimed(page', log'), ~ rough => ItemRunShown(table, seen', page') /\ ItemOwnRows(seen')
    PROVE  ItemBoth'
<1>1. ItemIInv'
  BY DEF ItemBoth, ItemIInv, ItemJobsOK
<1>2. ItemWaited'
  BY DEF ItemBoth, ItemWaited
<1> QED
  BY <1>1, <1>2 DEF ItemBoth

\* Facts about the database and its changes.
LEMMA ItemTableFacts ==
    ASSUME NEW tb \in ItemTableRec
    PROVE  /\ tb.status \in [Items -> {"none", "draft", "approved"}] /\ tb.runs \in Seq(ItemRunRec)
           /\ tb.auto \in SUBSET Items /\ Len(tb.runs) \in Nat
           /\ \A r \in WorkItems!Runs(tb) : tb.runs[r] \in ItemRunRec
  BY ElementOfSeq DEF ItemTableRec, WorkItems!Runs

\* The status and the started workflows change, the runs do not.
LEMMA ItemSameRuns ==
    ASSUME NEW tb \in ItemTableRec, NEW t \in ItemTableRec, t.runs = tb.runs
    PROVE  ItemRunsGrow(tb, t)
BY ItemTableFacts DEF ItemRunsGrow

\* A run more, and a run at another stage.
LEMMA ItemAppendFacts ==
    ASSUME NEW rs \in Seq(ItemRunRec), NEW i \in Items
    PROVE  /\ Append(rs, WorkItems!NewRun(i)) \in Seq(ItemRunRec)
                /\ Len(Append(rs, WorkItems!NewRun(i))) = Len(rs) + 1
           /\ \A r \in 1 .. Len(rs) : Append(rs, WorkItems!NewRun(i))[r] = rs[r]
           /\ Append(rs, WorkItems!NewRun(i))[Len(rs) + 1].item = i
<1>1. WorkItems!NewRun(i) \in ItemRunRec /\ WorkItems!NewRun(i).item = i
  BY DEF WorkItems!NewRun, ItemRunRec
<1> QED
  BY <1>1, AppendProperties

\* A run that goes on to another stage is the run of its item.
LEMMA ItemStageFacts ==
    ASSUME NEW rs \in Seq(ItemRunRec), NEW r \in 1 .. Len(rs),
           NEW s \in {"work", "plan", "test", "ended"}
    PROVE  /\ [rs EXCEPT ![r].stage = s] \in Seq(ItemRunRec)
                /\ Len([rs EXCEPT ![r].stage = s]) = Len(rs)
           /\ \A k \in 1 .. Len(rs) : [rs EXCEPT ![r].stage = s][k].item = rs[k].item
<1>1. rs[r] \in ItemRunRec
  BY ElementOfSeq
<1>2. [rs[r] EXCEPT !.stage = s] \in ItemRunRec /\ [rs[r] EXCEPT !.stage = s].item = rs[r].item
  BY <1>1 DEF ItemRunRec
<1>3. [rs EXCEPT ![r].stage = s] = [rs EXCEPT ![r] = [rs[r] EXCEPT !.stage = s]]
  OBVIOUS
<1> DEFINE n == [rs[r] EXCEPT !.stage = s]
<1> HIDE DEF n
<1>4. [rs EXCEPT ![r] = n] \in Seq(ItemRunRec) /\ Len([rs EXCEPT ![r] = n]) = Len(rs)
  BY <1>2, ExceptSeq DEF n
<1>5. \A k \in 1 .. Len(rs) : [rs EXCEPT ![r] = n][k] = IF k = r THEN n ELSE rs[k]
  BY <1>2, ExceptSeq DEF n
<1> QED
  BY <1>2, <1>3, <1>4, <1>5 DEF n

\* What a job is known to be.
LEMMA ItemJobKnown ==
    ASSUME ItemBoth, NEW j \in jobs
    PROVE  /\ j \in ItemJobRec /\ j \in ItemBase
           /\ j.op \notin {"create", "bulk"} => j.item \in Items
           /\ j.op \in ItemRunOps => j.run \in WorkItems!Runs(table) /\ j.run # WorkItems!None
           /\ j.at = "act" => j.op \in WorkItems!Gates
           /\ j.rows \in Seq(Items) /\ (j.op = "bulk" /\ j.at = "out" => j.rows # <<>>)
           /\ j.verdict \in WorkItems!Verdicts
           /\ j.draft \in ItemForms /\ (j.op = "update" => j.draft # WorkItems!Nowhere)
           /\ j.item \in ItemPerhaps /\ j.parent \in ItemPerhaps
           /\ j.op = "create" => j.parent = j.goal
           /\ j.at # "fetch" => j.waits = {}
           /\ ~ rough => jobs \ {j} = {} /\ ItemStill(j, table, seen, due, page)
<1>1. j \in ItemJobRec /\ j.run <= Len(table.runs) /\ Len(table.runs) \in Nat /\ (j.op = "create"
      => j.parent = j.goal)
  BY DEF ItemBoth, ItemIInv, ItemJobsOK, ItemTableRec
<1>2. j \in ItemBase
  BY <1>1 DEF ItemJobRec
<1>3. j.run \in Nat /\ j.rows \in Seq(Items) /\ j.verdict \in WorkItems!Verdicts
      /\ j.draft \in ItemForms
      /\ j.item \in ItemPerhaps /\ j.parent \in ItemPerhaps
  BY <1>2 DEF ItemBase
<1>4. j.op \in ItemRunOps => j.run \in WorkItems!Runs(table) /\ j.run # WorkItems!None
  BY <1>1, <1>3 DEF ItemJobRec, WorkItems!Runs, WorkItems!None
<1>5. ~ rough => jobs \ {j} = {} /\ ItemStill(j, table, seen, due, page)
  BY DEF ItemBoth, ItemWaited
<1> QED
  BY <1>1, <1>2, <1>3, <1>4, <1>5 DEF ItemJobRec

\* An item is saved.
LEMMA ItemUpdatedKeeps == ASSUME ItemBoth, NEW j \in jobs, WorkItems!Updated(j) PROVE ItemBoth'
<1> DEFINE s == [table.status EXCEPT ![j.item] = j.draft.status]
<1>1. /\ j.op = "update" /\ table.status[j.item] # "none" /\ WorkItems!Answered(j)
      /\ table' = [table EXCEPT !.status[j.item] = j.draft.status]
         /\ UNCHANGED <<seen, page, log, rough>>
  BY DEF WorkItems!Updated
<1>2. j.item \in Items /\ j.draft.status \in {"none", "draft", "approved"}
  <2>1. j.draft \in ItemForms
    BY ItemJobKnown
  <2> QED
    BY <1>1, <2>1, ItemJobKnown DEF ItemForms, ItemRows, WorkItems!Nowhere, WorkItems!Blank
<1>3. table \in ItemTableRec
  BY DEF ItemBoth, ItemIInv
<1>4. s \in [Items -> {"none", "draft", "approved"}] /\ \A k \in Items : k # j.item
      => s[k] = table.status[k]
  BY <1>2, <1>3, ItemTableFacts
<1>5. table' = [table EXCEPT !.status = s]
  BY <1>1, <1>3 DEF ItemTableRec
<1> HIDE DEF s
<1>6. table' \in ItemTableRec /\ table'.runs = table.runs /\ table'.status = s
  BY <1>3, <1>4, <1>5 DEF ItemTableRec
<1> QED
  BY <1>1, <1>3, <1>4, <1>6, ItemSameRuns, ItemReplyOnPage

\* An item is deleted: its row is gone and the page shows another.
LEMMA ItemDeletedKeeps == ASSUME ItemBoth, NEW j \in jobs, WorkItems!Deleted(j) PROVE ItemBoth'
<1> DEFINE s == [table.status EXCEPT ![j.item] = "none"]
           a == table.auto \ {j.item}
<1>1. /\ j.op = "delete" /\ WorkItems!Answered(j)
      /\ table' = [table EXCEPT !.status[j.item] = "none", !.auto = @ \ {j.item}]
         /\ UNCHANGED <<seen, page, log, rough>>
  BY DEF WorkItems!Deleted
<1>2. j.item \in Items
  BY <1>1, ItemJobKnown
<1>3. table \in ItemTableRec /\ a \in SUBSET Items
  BY ItemTableFacts DEF ItemBoth, ItemIInv
<1>4. /\ s \in [Items -> {"none", "draft", "approved"}]
      /\ \A k \in Items : table.status[k] = "none" => s[k] = "none"
  BY <1>2, <1>3, ItemTableFacts
<1>5. table' = [table EXCEPT !.status = s, !.auto = a]
  BY <1>1, <1>3 DEF ItemTableRec
<1> HIDE DEF s, a
<1>6. table' \in ItemTableRec /\ table'.runs = table.runs /\ table'.status = s
  BY <1>3, <1>4, <1>5 DEF ItemTableRec
<1> QED
  BY <1>1, <1>3, <1>4, <1>6, ItemSameRuns, ItemReplyOnPage

\* A decision changes statuses and leaves the runs.
LEMMA ItemDecidesFacts ==
    ASSUME ItemBoth, NEW i \in Items, NEW v, WorkItems!Decides(i, v)
    PROVE  table' \in ItemTableRec /\ ItemRunsGrow(table, table')
           /\ \A k \in Items : k # i => table'.status[k] = table.status[k]
<1> DEFINE s == [table.status EXCEPT ![i] = IF v = "approve" THEN "approved" ELSE "draft"]
           a == IF v = "approve" THEN table.auto \cup {i} ELSE table.auto
<1>1. table \in ItemTableRec /\ a \in SUBSET Items
  BY ItemTableFacts DEF ItemBoth, ItemIInv
<1>2. s \in [Items -> {"none", "draft", "approved"}] /\ \A k \in Items : k # i => s[k] = table.status[k]
  BY <1>1, ItemTableFacts
<1>3. table' = [table EXCEPT !.status = s, !.auto = a]
  BY <1>1 DEF WorkItems!Decides, ItemTableRec
<1> HIDE DEF s, a
<1>4. table' \in ItemTableRec /\ table'.runs = table.runs /\ table'.status = s
  BY <1>1, <1>2, <1>3 DEF ItemTableRec
<1> QED
  BY <1>1, <1>2, <1>4, ItemSameRuns

\* An item is approved or rejected.
LEMMA ItemDecidedKeeps == ASSUME ItemBoth, NEW j \in jobs, WorkItems!Decided(j) PROVE ItemBoth'
<1>1. /\ j.op \in {"item", "row"} /\ table.status[j.item] # "none" /\ WorkItems!Answered(j)
      /\ WorkItems!Decides(j.item, j.verdict) /\ UNCHANGED <<seen, page, log, rough>>
  BY DEF WorkItems!Decided
<1>2. j.item \in Items
  BY <1>1, ItemJobKnown
<1> QED
  BY <1>1, <1>2, ItemDecidesFacts, ItemReplyOnPage

\* The ticked items are decided together.
LEMMA ItemBulkDecidedKeeps == ASSUME ItemBoth, NEW j \in jobs, WorkItems!BulkDecided(j) PROVE ItemBoth'
<1>1. /\ j.at = "out" /\ j.op = "bulk" /\ table.status[Head(j.rows)] # "none"
         /\ WorkItems!Decides(Head(j.rows), j.verdict)
      /\ UNCHANGED <<seen, log, rough>>
  BY DEF WorkItems!BulkDecided
<1>2. j.rows \in Seq(Items) /\ j.rows # <<>> /\ j \in ItemBase /\ j \in ItemJobRec
  BY <1>1, ItemJobKnown
<1>3. Head(j.rows) \in Items /\ Tail(j.rows) \in Seq(Items) /\ Len(j.rows) \in Nat
      /\ Len(Tail(j.rows)) = Len(j.rows) - 1
  BY <1>2, HeadTailProperties
<1>4. table' \in ItemTableRec /\ ItemRunsGrow(table, table')
      /\ \A k \in Items : table.status[k] = "none" => table'.status[k] = "none"
  BY <1>1, <1>3, ItemDecidesFacts
<1>5. CASE Len(j.rows) > 1
  <2> DEFINE k == [j EXCEPT !.rows = Tail(@)]
  <2>1. jobs' = (jobs \ {j}) \cup {k} /\ UNCHANGED <<due, page>>
    BY <1>5 DEF WorkItems!BulkDecided
  <2>2. Tail(j.rows) # <<>>
    <3>1. Len(<<>>) = 0
      OBVIOUS
    <3>2. Len(Tail(j.rows)) = Len(j.rows) - 1 /\ Len(j.rows) \in Nat
      BY <1>2, HeadTailProperties
    <3>3. \A x, y : x = y - 1 /\ y \in Nat /\ y > 1 => x # 0
      OBVIOUS
    <3>4. Len(Tail(j.rows)) # 0
      BY <1>5, <3>2, <3>3, Zenon
    <3> QED
      BY <3>1, <3>4, Zenon
  <2>3. k \in ItemBase /\ k.op = "bulk" /\ k.at = "out" /\ k.waits = {} /\ k.run = j.run
        /\ k.rows = Tail(j.rows)
    BY <1>1, <1>2, <1>3, ItemJobKnown DEF ItemBase
  <2> HIDE DEF k
  <2>4. k \in ItemJobRec
    BY <2>2, <2>3 DEF ItemJobRec, ItemRunOps, WorkItems!Gates
  <2>5. ItemJobsOK(jobs', table', log')
    BY <1>1, <1>4, <2>1, <2>3, <2>4, ItemRunsKept DEF ItemBoth, ItemIInv, ItemJobsOK
  <2>6. ItemIInv'
    BY <1>1, <1>4, <2>1, <2>5, ItemRunsKept DEF ItemBoth, ItemIInv, ItemKnown, ItemFetched
  <2>7. ItemStill(j, table, seen, due, page) => ItemStill(k, table', seen, due, page)
    BY <1>1, <2>3 DEF ItemStill, ItemRunOps, ItemItemOps, WorkItems!Gates
  <2>8. ItemWaited'
    BY <1>1, <1>4, <2>1, <2>7, ItemRunsKept, ItemJobKnown DEF ItemBoth, ItemWaited
  <2> QED
    BY <2>6, <2>8 DEF ItemBoth
<1>6. CASE ~ (Len(j.rows) > 1)
  <2> DEFINE pg == [page EXCEPT !.ticks = <<>>]
  <2>1. WorkItems!Answered(j) /\ page' = WorkItems!Rendered(pg, seen)
    BY <1>6 DEF WorkItems!BulkDecided
  <2>2. page \in ItemPageRec /\ ItemIInv
    BY DEF ItemBoth, ItemIInv
  <2>3. pg \in ItemPageRec /\ pg.draft = page.draft /\ pg.run = page.run /\ pg.parent = page.parent
        /\ pg.creating = page.creating
    BY <2>2, EmptySeq DEF ItemPageRec
  <2> HIDE DEF pg
  <2>4. ItemSeenOK(seen, table') /\ page.run <= Len(table'.runs) /\ Len(table'.runs) \in Nat
    BY <1>4, ItemRunsKept, ItemTableFacts
  <2>5. /\ page' \in ItemPageRec /\ page'.run \in {WorkItems!None, pg.run}
        /\ page'.run # WorkItems!None => WorkItems!Shown(page', seen) = WorkItems!Shown(page, seen)
        /\ ItemFilled(page', seen) /\ page'.parent = pg.parent /\ page'.creating = pg.creating
    BY <2>1, <2>2, <2>3, <2>4, ItemRenderedFacts
  <2>6. page'.run <= Len(table'.runs) /\ ItemAimed(page', log)
    BY <2>3, <2>4, <2>5 DEF ItemBoth, ItemIInv, ItemAimed, WorkItems!None
  <2>7. ~ rough => ItemRunShown(table', seen, page')
    BY <1>4, <2>3, <2>5, ItemRunsKept DEF ItemRunShown
  <2> QED
    BY <1>1, <1>4, <2>1, <2>5, <2>6, <2>7, ItemReplyKeeps
<1> QED
  BY <1>5, <1>6

\* A workflow is started on an item.
LEMMA ItemStartedKeeps == ASSUME ItemBoth, NEW j \in jobs, WorkItems!Started(j) PROVE ItemBoth'
<1>1. /\ j.at = "out" /\ j.op = "start" /\ table.status[j.item] # "none" /\ WorkItems!Answered(j)
      /\ page' = [page EXCEPT !.run = WorkItems!LatestRun(table', j.item)]
         /\ UNCHANGED <<seen, log, rough>>
  BY DEF WorkItems!Started
<1>2. j.item \in Items /\ table \in ItemTableRec /\ (~ rough => j.item = WorkItems!Shown(page, seen))
  BY <1>1, ItemJobKnown DEF ItemBoth, ItemIInv, ItemStill, ItemItemOps
<1>3. table' \in ItemTableRec /\ ItemRunsGrow(table, table') /\ table'.status = table.status
  <2>1. CASE WorkItems!Live(j.item) # {}
    BY <1>2, <2>1, ItemTableFacts, ItemSameRuns DEF WorkItems!Started
  <2>2. CASE WorkItems!Live(j.item) = {}
    <3> DEFINE rs == Append(table.runs, WorkItems!NewRun(j.item))
    <3>1. table' = [table EXCEPT !.runs = rs]
      BY <1>2, <2>2 DEF WorkItems!Started, ItemTableRec
    <3>2. table.runs \in Seq(ItemRunRec) /\ Len(table.runs) \in Nat
      BY <1>2, ItemTableFacts
    <3>3. rs \in Seq(ItemRunRec) /\ Len(rs) = Len(table.runs) + 1
          /\ \A r \in 1 .. Len(table.runs) : rs[r] = table.runs[r]
      BY <1>2, <3>2, ItemAppendFacts
    <3> HIDE DEF rs
    <3>4. table' \in ItemTableRec /\ table'.runs = rs /\ table'.status = table.status
      BY <1>2, <3>1, <3>3 DEF ItemTableRec
    <3> QED
      BY <3>2, <3>3, <3>4 DEF ItemRunsGrow, WorkItems!Runs
  <2> QED
    BY <2>1, <2>2
<1> DEFINE l == WorkItems!LatestRun(table', j.item)
<1>4. l \in 0 .. Len(table'.runs) /\ (l # WorkItems!None => table'.runs[l].item = j.item)
      /\ Len(table'.runs) \in Nat
  BY <1>2, <1>3, ItemLatestOf, ItemTableFacts
<1> HIDE DEF l
<1>5. /\ page' \in ItemPageRec /\ page'.run = l /\ page'.draft = page.draft
         /\ page'.active = page.active
      /\ page'.filter = page.filter /\ page'.index = page.index
      /\ page'.parent = page.parent /\ page'.creating = page.creating
  BY <1>1, <1>4 DEF ItemBoth, ItemIInv, ItemPageRec, l
<1>6. WorkItems!Shown(page', seen) = WorkItems!Shown(page, seen)
      /\ WorkItems!Detail(page', seen) = WorkItems!Detail(page, seen)
  BY <1>5 DEF WorkItems!Shown, WorkItems!Detail, WorkItems!Backlog, WorkItems!ListKey
<1>7. ItemFilled(page', seen) /\ ItemAimed(page', log) /\ page'.run <= Len(table'.runs)
  BY <1>4, <1>5, <1>6 DEF ItemBoth, ItemIInv, ItemFilled, ItemAimed
<1>8. ~ rough => ItemRunShown(table', seen, page')
  BY <1>2, <1>4, <1>5, <1>6 DEF ItemRunShown
<1> QED
  BY <1>1, <1>3, <1>5, <1>7, <1>8, ItemReplyKeeps

\* A workflow is restarted: the page shows the new run.
LEMMA ItemRestartedKeeps == ASSUME ItemBoth, NEW j \in jobs, WorkItems!Restarted(j) PROVE ItemBoth'
<1> DEFINE i == table.runs[j.run].item
           rs == [table.runs EXCEPT ![j.run].stage = "ended"]
           ap == Append(rs, WorkItems!NewRun(i))
<1>1. /\ j.at = "out" /\ j.op = "restart" /\ WorkItems!Answered(j)
         /\ table' = [table EXCEPT !.runs = Append([@ EXCEPT ![j.run].stage = "ended"], WorkItems!NewRun(i))]
      /\ page' = [page EXCEPT !.run = Len(table'.runs)] /\ UNCHANGED <<seen, log, rough>>
  BY DEF WorkItems!Restarted
<1>2. table \in ItemTableRec /\ j.run \in WorkItems!Runs(table) /\ (~ rough
      => j.item = WorkItems!Shown(page, seen) /\ i = j.item)
  BY <1>1, ItemJobKnown DEF ItemBoth, ItemIInv, ItemStill, ItemItemOps, ItemRunOps
<1>3. table.runs \in Seq(ItemRunRec) /\ Len(table.runs) \in Nat /\ j.run \in 1 .. Len(table.runs)
      /\ i \in Items
  BY <1>2, ItemTableFacts DEF WorkItems!Runs, ItemRunRec
<1>4. rs \in Seq(ItemRunRec) /\ Len(rs) = Len(table.runs)
      /\ \A k \in 1 .. Len(table.runs) : rs[k].item = table.runs[k].item
  BY <1>3, ItemStageFacts
<1>5. table' = [table EXCEPT !.runs = ap]
  BY <1>1, <1>2 DEF ItemTableRec
<1> HIDE DEF rs, i
<1>6. ap \in Seq(ItemRunRec) /\ Len(ap) = Len(table.runs) + 1
      /\ \A k \in 1 .. Len(table.runs) : ap[k].item = table.runs[k].item
  BY <1>3, <1>4, ItemAppendFacts
<1>7. ap[Len(table.runs) + 1].item = i
  BY <1>3, <1>4, ItemAppendFacts
<1> HIDE DEF ap
<1>8. table' \in ItemTableRec /\ table'.runs = ap /\ table'.status = table.status
  BY <1>2, <1>5, <1>6 DEF ItemTableRec
<1>9. ItemRunsGrow(table, table')
  BY <1>3, <1>6, <1>8 DEF ItemRunsGrow, WorkItems!Runs
<1>10. /\ page' \in ItemPageRec /\ page'.run = Len(table.runs) + 1 /\ page'.draft = page.draft
          /\ page'.active = page.active
       /\ page'.filter = page.filter /\ page'.index = page.index
       /\ page'.parent = page.parent /\ page'.creating = page.creating
  <2> DEFINE n == Len(table.runs) + 1
  <2>1. page' = [page EXCEPT !.run = n] /\ n \in Nat
    BY <1>1, <1>3, <1>6, <1>8
  <2> HIDE DEF n
  <2>2. page' \in ItemPageRec /\ page'.run = n
    BY <2>1 DEF ItemBoth, ItemIInv, ItemPageRec
  <2> QED
    BY <2>1, <2>2 DEF ItemBoth, ItemIInv, ItemPageRec, n
<1>11. WorkItems!Shown(page', seen) = WorkItems!Shown(page, seen)
       /\ WorkItems!Detail(page', seen) = WorkItems!Detail(page, seen)
  BY <1>10 DEF WorkItems!Shown, WorkItems!Detail, WorkItems!Backlog, WorkItems!ListKey
<1>12. ItemFilled(page', seen) /\ ItemAimed(page', log) /\ page'.run <= Len(table'.runs)
  BY <1>3, <1>6, <1>8, <1>10, <1>11 DEF ItemBoth, ItemIInv, ItemFilled, ItemAimed
<1>13. ~ rough => ItemRunShown(table', seen, page')
  BY <1>2, <1>7, <1>8, <1>10, <1>11 DEF ItemRunShown
<1> QED
  BY <1>1, <1>8, <1>9, <1>10, <1>12, <1>13, ItemReplyKeeps

\* A command is recorded and the run fetched again.
LEMMA ItemRecordedKeeps == ASSUME ItemBoth, NEW j \in jobs, WorkItems!Recorded(j) PROVE ItemBoth'
<1> DEFINE k == [j EXCEPT !.at = "act"]
<1>1. /\ j.at = "out" /\ j.op \in WorkItems!Gates /\ jobs' = (jobs \ {j}) \cup {k}
      /\ UNCHANGED <<table, seen, due, page, log, rough>>
  BY DEF WorkItems!Recorded
<1>2. j \in ItemBase /\ j \in ItemJobRec
  BY ItemJobKnown
<1>3. /\ k \in ItemBase /\ k.at = "act" /\ k.op = j.op /\ k.item = j.item /\ k.run = j.run
         /\ k.draft = j.draft
      /\ k.waits = j.waits /\ k.parent = j.parent /\ k.goal = j.goal /\ k.rows = j.rows
  BY <1>2 DEF ItemBase
<1> HIDE DEF k
<1>4. k \in ItemJobRec
  BY <1>1, <1>2, <1>3 DEF ItemJobRec
<1>5. ItemIInv'
  BY <1>1, <1>3, <1>4 DEF ItemBoth, ItemIInv, ItemJobsOK
<1>6. ItemStill(j, table, seen, due, page) => ItemStill(k, table, seen, due, page)
  BY <1>1, <1>3 DEF ItemStill
<1>7. ItemWaited'
  BY <1>1, <1>6, ItemJobKnown DEF ItemBoth, ItemWaited
<1> QED
  BY <1>5, <1>7 DEF ItemBoth

\* A gate of a run is decided.
LEMMA ItemActedKeeps == ASSUME ItemBoth, NEW j \in jobs, WorkItems!Acted(j) PROVE ItemBoth'
<1> DEFINE s == IF j.op = "fail" THEN "ended" ELSE "work"
           rs == [table.runs EXCEPT ![j.run].stage = s]
<1>1. /\ j.op \in ItemRunOps /\ WorkItems!Answered(j) /\ UNCHANGED <<seen, page, log, rough>>
      /\ table' = [table EXCEPT !.runs[j.run].stage = s]
  BY ItemJobKnown DEF WorkItems!Acted, ItemRunOps, WorkItems!Gates
<1>2. table \in ItemTableRec /\ j.run \in 1 .. Len(table.runs)
  BY <1>1, ItemJobKnown DEF ItemBoth, ItemIInv, WorkItems!Runs
<1>3. table.runs \in Seq(ItemRunRec) /\ Len(table.runs) \in Nat
      /\ s \in {"work", "plan", "test", "ended"}
  BY <1>2, ItemTableFacts
<1>4. table' = [table EXCEPT !.runs = rs]
  BY <1>1, <1>2 DEF ItemTableRec
<1> HIDE DEF s
<1>5. rs \in Seq(ItemRunRec) /\ Len(rs) = Len(table.runs)
      /\ \A k \in 1 .. Len(table.runs) : rs[k].item = table.runs[k].item
  <2>1. CASE j.op = "fail"
    <3> DEFINE e == [table.runs EXCEPT ![j.run].stage = "ended"]
    <3>1. rs = e
      BY <2>1 DEF s
    <3>2. e \in Seq(ItemRunRec) /\ Len(e) = Len(table.runs)
          /\ \A k \in 1 .. Len(table.runs) : e[k].item = table.runs[k].item
      BY <1>2, <1>3, ItemStageFacts
    <3> HIDE DEF rs, e
    <3> QED
      BY <3>1, <3>2
  <2>2. CASE j.op # "fail"
    <3> DEFINE e == [table.runs EXCEPT ![j.run].stage = "work"]
    <3>1. rs = e
      BY <2>2 DEF s
    <3>2. e \in Seq(ItemRunRec) /\ Len(e) = Len(table.runs)
          /\ \A k \in 1 .. Len(table.runs) : e[k].item = table.runs[k].item
      BY <1>2, <1>3, ItemStageFacts
    <3> HIDE DEF rs, e
    <3> QED
      BY <3>1, <3>2
  <2> QED
    BY <2>1, <2>2
<1> HIDE DEF rs
<1>6. table' \in ItemTableRec /\ table'.runs = rs /\ table'.status = table.status
  BY <1>2, <1>4, <1>5 DEF ItemTableRec
<1>7. ItemRunsGrow(table, table')
  BY <1>3, <1>5, <1>6 DEF ItemRunsGrow, WorkItems!Runs
<1> QED
  BY <1>1, <1>6, <1>7, ItemReplyOnPage

\* An external run is started.
LEMMA ItemCliStartedKeeps == ASSUME ItemBoth, NEW j \in jobs, WorkItems!CliStarted(j) PROVE ItemBoth'
<1> DEFINE pg == [page EXCEPT !.cli = j.item, !.tab = "external_cli"]
<1>1. page' = WorkItems!Rendered(pg, seen) /\ jobs' = jobs \ {j}
      /\ UNCHANGED <<table, seen, due, log, rough>>
  BY DEF WorkItems!CliStarted
<1>2. page \in ItemPageRec /\ ItemIInv /\ ItemSeenOK(seen, table) /\ page.run <= Len(table.runs)
      /\ Len(table.runs) \in Nat
  BY ItemTableFacts DEF ItemBoth, ItemIInv
<1>3. pg \in ItemPageRec /\ pg.draft = page.draft /\ pg.run = page.run /\ pg.parent = page.parent
      /\ pg.creating = page.creating
  BY <1>2, ItemJobKnown DEF ItemPageRec, WorkItems!Tabs
<1> HIDE DEF pg
<1>4. /\ page' \in ItemPageRec /\ page'.run \in {WorkItems!None, pg.run}
      /\ page'.run # WorkItems!None => WorkItems!Shown(page', seen) = WorkItems!Shown(page, seen)
      /\ ItemFilled(page', seen) /\ page'.parent = pg.parent /\ page'.creating = pg.creating
  BY <1>1, <1>2, <1>3, ItemRenderedFacts
<1>5. page'.run <= Len(table.runs) /\ ItemAimed(page', log)
  BY <1>2, <1>3, <1>4 DEF ItemIInv, ItemAimed, WorkItems!None
<1>6. ~ rough => ItemRunShown(table, seen, page') /\ ItemOwnRows(seen)
  BY <1>3, <1>4 DEF ItemBoth, ItemWaited, ItemRunShown
<1> QED
  BY <1>1, <1>2, <1>4, <1>5, <1>6, ItemDropKeeps DEF ItemIInv

\* The row that comes back is of the item that is shown still, when the person waits.
LEMMA ItemWorkspaceSetKeeps == ASSUME ItemBoth,
NEW j \in jobs, WorkItems!WorkspaceSet(j) PROVE ItemBoth'
<1> DEFINE pg == [page EXCEPT !.space = WorkItems!None]
           s == WorkItems!Shown(page, seen)
           q == <<"item", s>>
           row == WorkItems!Row(table, j.item)
<1>1. /\ j.at = "out" /\ j.op \in {"assign", "clear"} /\ table.status[j.item] # "none"
      /\ seen' = IF s = WorkItems!None THEN seen ELSE [seen EXCEPT ![q] = row]
      /\ page' = WorkItems!Rendered(pg, seen')
         /\ due' = due \cup {k \in WorkItems!Invalidates : k[1] # "run"}
      /\ jobs' = jobs \ {j} /\ UNCHANGED <<table, log, rough>>
  BY DEF WorkItems!WorkspaceSet
<1>2. /\ page \in ItemPageRec /\ ItemIInv /\ ItemSeenOK(seen, table) /\ page.run <= Len(table.runs)
         /\ Len(table.runs) \in Nat
      /\ table \in ItemTableRec
  BY ItemTableFacts DEF ItemBoth, ItemIInv
<1>3. pg \in ItemPageRec /\ pg.draft = page.draft /\ pg.run = page.run /\ pg.parent = page.parent
      /\ pg.creating = page.creating
  BY <1>2 DEF ItemPageRec, ItemPerhaps
<1> HIDE DEF pg
<1>4. j.item \in Items /\ (~ rough => j.item = s)
  BY <1>1, ItemJobKnown DEF ItemStill, ItemItemOps
<1>5. row \in ItemRows /\ row.of = j.item /\ row # WorkItems!Nowhere
  BY <1>1, <1>2, <1>4, ItemItemFacts, ItemTableFacts DEF WorkItems!Row, ItemRows,
     WorkItems!Nowhere
<1> HIDE DEF row
<1>6. s # WorkItems!None => s \in Items /\ q \in WorkItems!Keys
  BY <1>2, ItemShownTyped, ItemKeyFacts
<1> HIDE DEF s
<1>7. /\ \A k \in WorkItems!Keys : k # q => seen'[k] = seen[k]
      /\ s # WorkItems!None => seen'[q] = row
      /\ s = WorkItems!None => seen' = seen
      /\ DOMAIN seen' = WorkItems!Keys /\ seen' = [k \in WorkItems!Keys |-> seen'[k]]
  BY <1>1, <1>2, <1>6 DEF ItemSeenOK
<1>8. ItemSeenOK(seen', table)
  <2>1. s # WorkItems!None => ItemAnswers(table, q) = ItemRows \cup {WorkItems!Nowhere}
    BY DEF ItemAnswers
  <2> QED
    BY <1>2, <1>5, <1>6, <1>7, <2>1 DEF ItemSeenOK
<1>9. ItemKnown(table, seen', log) /\ ItemFetched(table, seen', due', log)
      /\ due' \subseteq WorkItems!Keys
  <2>1. \A k \in WorkItems!Keys : k[1] = "page" => seen'[k] = seen[k]
    BY <1>7
  <2>2. \A i \in Items : <<"item", i>> \in WorkItems!Keys /\ (i # s => <<"item", i>> # q)
    BY ItemKeyFacts
  <2>3. \A i \in Items : i # s => seen'[<<"item", i>>] = seen[<<"item", i>>]
    BY <1>7, <2>2
  <2>4. s # WorkItems!None => seen'[<<"item", s>>] # WorkItems!Nowhere
    BY <1>5, <1>7
  <2>5. WorkItems!Invalidates \subseteq WorkItems!Keys
    BY DEF WorkItems!Invalidates
  <2>6. \A i \in Items : i = s => s # WorkItems!None
    BY ItemItemFacts
  <2> QED
    BY <1>1, <1>2, <2>1, <2>3, <2>4, <2>5, <2>6 DEF ItemIInv, ItemKnown, ItemFetched
<1>10. /\ page' \in ItemPageRec /\ page'.run \in {WorkItems!None, pg.run}
       /\ page'.run # WorkItems!None => WorkItems!Shown(page', seen') = WorkItems!Shown(page, seen)
       /\ ItemFilled(page', seen') /\ page'.parent = pg.parent /\ page'.creating = pg.creating
  BY <1>1, <1>2, <1>3, <1>8, ItemRenderedFacts
<1>11. page'.run <= Len(table.runs) /\ ItemAimed(page', log)
  BY <1>2, <1>3, <1>10 DEF ItemIInv, ItemAimed, WorkItems!None
<1>12. ~ rough => ItemRunShown(table, seen', page')
  BY <1>3, <1>10 DEF ItemBoth, ItemWaited, ItemRunShown
<1>13. ~ rough => ItemOwnRows(seen')
  <2> SUFFICES ASSUME ~ rough, NEW i \in Items, seen'[<<"item", i>>] # WorkItems!Nowhere
               PROVE  seen'[<<"item", i>>].of = i
    BY DEF ItemOwnRows
  <2>1. CASE i = s
    BY <1>4, <1>5, <1>7, <2>1, ItemItemFacts
  <2>2. CASE i # s
    <3>1. seen'[<<"item", i>>] = seen[<<"item", i>>]
      BY <1>7, <2>2, ItemKeyFacts
    <3> QED
      BY <3>1 DEF ItemBoth, ItemWaited, ItemOwnRows
  <2> QED
    BY <2>1, <2>2
<1> QED
  BY <1>1, <1>2, <1>8, <1>9, <1>10, <1>11, <1>12, <1>13, ItemDropKeeps DEF ItemIInv

\* A call is refused.
LEMMA ItemRefusedKeeps == ASSUME ItemBoth, NEW j \in jobs, WorkItems!Refused(j) PROVE ItemBoth'
<1>1. jobs' = jobs \ {j} /\ UNCHANGED <<table, seen, due, page, log, rough>>
  BY DEF WorkItems!Refused
<1> QED
  BY <1>1, ItemDropKeeps DEF ItemBoth, ItemIInv, ItemWaited

\* A job is over when what it invalidated is fetched.
LEMMA ItemFinishKeeps == ASSUME ItemBoth, NEW j \in jobs, WorkItems!Finish(j) PROVE ItemBoth'
<1>1. /\ page' = IF j.op = "space" THEN WorkItems!Remounted(page) ELSE WorkItems!Rendered(WorkItems!Follows(j), seen)
      /\ log' = IF j.op = "space" THEN [log EXCEPT !.opened = WorkItems!None] ELSE log
      /\ jobs' = jobs \ {j} /\ UNCHANGED <<table, seen, due, rough>>
  BY DEF WorkItems!Finish
<1>2. /\ page \in ItemPageRec /\ ItemIInv /\ ItemSeenOK(seen, table) /\ page.run <= Len(table.runs)
         /\ Len(table.runs) \in Nat
      /\ log \in [opened : ItemPerhaps, last : Nat]
  BY ItemTableFacts DEF ItemBoth, ItemIInv
<1>3. ASSUME page' \in ItemPageRec, page'.run <= Len(table.runs), log' \in [opened : ItemPerhaps,
                                                                            last : Nat],
             log'.last = log.last, ItemFilled(page', seen), ItemAimed(page', log'), ~ rough
             => ItemRunShown(table, seen, page')
      PROVE  ItemBoth'
  <2>1. ItemKnown(table, seen', log') /\ ItemFetched(table, seen', due', log')
        /\ due' \subseteq WorkItems!Keys
    BY <1>1, <1>2, <1>3 DEF ItemIInv, ItemKnown, ItemFetched
  <2>2. ~ rough => ItemOwnRows(seen')
    BY <1>1 DEF ItemBoth, ItemWaited
  <2> QED
    BY <1>1, <1>2, <1>3, <2>1, <2>2, ItemDropKeeps
<1>4. CASE j.op = "space"
  <2>1. page' = WorkItems!Remounted(page) /\ log' = [log EXCEPT !.opened = WorkItems!None]
    BY <1>1, <1>4
  <2>2. page' \in ItemPageRec /\ page'.run = WorkItems!None /\ ItemFilled(page', seen)
        /\ page'.parent = WorkItems!None
    BY <1>2, <2>1, ItemRemountedFacts
  <2>3. log' \in [opened : ItemPerhaps, last : Nat] /\ log'.last = log.last
        /\ log'.opened = WorkItems!None
    BY <1>2, <2>1 DEF ItemPerhaps
  <2> QED
    BY <1>2, <1>3, <2>2, <2>3 DEF ItemAimed, ItemRunShown, WorkItems!None
<1>5. CASE j.op # "space"
  <2> DEFINE pg == WorkItems!Follows(j)
  <2>1. page' = WorkItems!Rendered(pg, seen) /\ log' = log
    BY <1>1, <1>5
  <2>2. /\ pg \in ItemPageRec /\ pg.draft = page.draft /\ pg.run = page.run
        /\ pg.creating => page.creating /\ pg.parent = page.parent
    BY <1>2 DEF WorkItems!Follows, ItemPageRec, WorkItems!Tabs, ItemPerhaps
  <2> HIDE DEF pg
  <2>3. /\ page' \in ItemPageRec /\ page'.run \in {WorkItems!None, pg.run}
        /\ page'.run # WorkItems!None => WorkItems!Shown(page', seen) = WorkItems!Shown(page, seen)
        /\ ItemFilled(page', seen) /\ page'.parent = pg.parent /\ page'.creating = pg.creating
    BY <1>2, <2>1, <2>2, ItemRenderedFacts
  <2>4. page'.run <= Len(table.runs) /\ ItemAimed(page', log')
    BY <1>2, <2>1, <2>2, <2>3 DEF ItemIInv, ItemAimed, WorkItems!None
  <2>5. ~ rough => ItemRunShown(table, seen, page')
    BY <2>2, <2>3 DEF ItemBoth, ItemWaited, ItemRunShown
  <2> QED
    BY <1>2, <1>3, <2>1, <2>3, <2>4, <2>5
<1> QED
  BY <1>4, <1>5

\* A call to create is for one item, not there before; the page shows it by what
\* it has fetched.
LEMMA ItemCreatedKeeps == ASSUME ItemBoth, NEW j \in jobs, WorkItems!Created(j) PROVE ItemBoth'
<1>1. PICK i \in Items :
          /\ i = log.last + 1 /\ log' = [log EXCEPT !.last = i]
          /\ table' = [table EXCEPT !.status[i] = "draft"]
          /\ \/ seen' = [seen EXCEPT ![WorkItems!ListKey(page)] = seen[WorkItems!ListKey(page)] \cup {WorkItems!Row(table', i)}]
             \/ seen' = [seen EXCEPT ![WorkItems!ListKey(page)] = seen[WorkItems!ListKey(page)]]
          /\ page' = WorkItems!Rendered([page EXCEPT !.active = i], seen')
  BY DEF WorkItems!Created
<1>2. j.at = "out" /\ j.op = "create" /\ WorkItems!Answered(j) /\ rough' = rough
  BY DEF WorkItems!Created
<1> DEFINE key == WorkItems!ListKey(page)
           pg == [page EXCEPT !.active = i]
           s == [table.status EXCEPT ![i] = "draft"]
<1>3. /\ page \in ItemPageRec /\ ItemIInv /\ ItemSeenOK(seen, table) /\ page.run <= Len(table.runs)
         /\ Len(table.runs) \in Nat
      /\ log \in [opened : ItemPerhaps, last : Nat] /\ table \in ItemTableRec
  BY ItemTableFacts DEF ItemBoth, ItemIInv
<1>4. log' \in [opened : ItemPerhaps, last : Nat] /\ log'.last = log.last + 1 /\ log'.last = i
      /\ log'.opened = log.opened
  BY <1>1, <1>3
<1>5. /\ s \in [Items -> {"none", "draft", "approved"}] /\ s[i] = "draft"
      /\ \A k \in Items : k # i => s[k] = table.status[k]
  BY <1>3, ItemTableFacts
<1>6. table' = [table EXCEPT !.status = s]
  BY <1>1, <1>3 DEF ItemTableRec
<1> HIDE DEF s
<1>7. table' \in ItemTableRec /\ table'.runs = table.runs /\ table'.status = s
  BY <1>3, <1>5, <1>6 DEF ItemTableRec
<1>8. ItemRunsGrow(table, table')
  BY <1>3, <1>7, ItemSameRuns
<1>9. WorkItems!Row(table', i) \in ItemRows /\ WorkItems!Row(table', i).of = i
  BY <1>5, <1>7 DEF WorkItems!Row, ItemRows
<1>10. key \in WorkItems!Keys /\ key[1] = "page" /\ seen[key] \subseteq ItemRows
  BY <1>3, ItemShownTyped
<1>11. PICK rows : rows \in {seen[key] \cup {WorkItems!Row(table', i)}, seen[key]}
       /\ seen' = [seen EXCEPT ![key] = rows]
  BY <1>1
<1>12. rows \subseteq ItemRows /\ \A r \in rows : r \in seen[key] \/ r.of = i
  BY <1>9, <1>10, <1>11
<1> HIDE DEF key
<1>13. /\ \A k \in WorkItems!Keys : k # key => seen'[k] = seen[k]
       /\ seen'[key] = rows
       /\ DOMAIN seen' = WorkItems!Keys /\ seen' = [k \in WorkItems!Keys |-> seen'[k]]
  BY <1>3, <1>10, <1>11 DEF ItemSeenOK
<1>14. ItemSeenOK(seen', table')
  <2>1. ItemSeenOK(seen, table') /\ ItemAnswers(table', key) = SUBSET ItemRows
    BY <1>7, <1>8, <1>10, ItemRunsKept DEF ItemAnswers
  <2> QED
    BY <1>12, <1>13, <2>1 DEF ItemSeenOK
<1>15. ItemKnown(table', seen', log')
  <2>1. \A k \in Items : table.status[k] # "none" => k <= log.last
    BY <1>3 DEF ItemIInv, ItemKnown
  <2>2. \A q \in WorkItems!Keys : q[1] = "page" => \A r \in seen[q] : r.of <= log.last /\ r.of \in Nat
    <3>1. \A q \in WorkItems!Keys : q[1] = "page" => seen[q] \subseteq ItemRows
      BY <1>3 DEF ItemSeenOK, ItemAnswers
    <3> QED
      BY <1>3, <3>1, ItemItemFacts DEF ItemIInv, ItemKnown, ItemRows
  <2>3. ASSUME NEW k \in Items, table'.status[k] # "none"
        PROVE  k <= log'.last
    <3>1. k = i \/ k <= log.last
      BY <1>5, <1>7, <2>1, <2>3
    <3> QED
      BY <1>3, <1>4, <3>1, ItemItemFacts
  <2>4. ASSUME NEW q \in WorkItems!Keys, q[1] = "page", NEW r \in seen'[q]
        PROVE  r.of <= log'.last
    <3>1. CASE q = key
      <4>1. r \in seen[key] \/ r.of = i
        BY <1>12, <1>13, <2>4, <3>1
      <4> QED
        BY <1>3, <1>4, <1>10, <2>2, <4>1, ItemItemFacts
    <3>2. CASE q # key
      <4>1. r \in seen[q]
        BY <1>13, <2>4, <3>2
      <4> QED
        BY <1>3, <1>4, <2>2, <2>4, <4>1
    <3> QED
      BY <3>1, <3>2
  <2> QED
    BY <2>3, <2>4 DEF ItemKnown
<1>16. /\ ItemJobsOK(jobs', table', log') /\ due' \subseteq WorkItems!Keys /\ due \subseteq due'
       /\ ~ rough => /\ \A k, l \in jobs' : k = l
                     /\ \A k \in jobs' : ItemStill(k, table', seen', due', page')
  BY <1>2, <1>3, <1>4, <1>7, <1>8, ItemAnsweredFacts
<1>17. \A k \in Items : <<"item", k>> \in WorkItems!Keys /\ seen'[<<"item", k>>] = seen[<<"item", k>>]
  <2>1. \A k \in Items : <<"item", k>> \in WorkItems!Keys /\ <<"item", k>> # key
    BY <1>10, ItemKeyFacts
  <2> QED
    BY <1>13, <2>1
<1>18. ItemFetched(table', seen', due', log')
  <2> SUFFICES ASSUME NEW k \in Items, <<"item", k>> \notin due'
               PROVE  k <= log'.last /\ (seen'[<<"item", k>>] = WorkItems!Nowhere
                      => table'.status[k] = "none")
    BY DEF ItemFetched
  <2>1. k <= log.last /\ (seen[<<"item", k>>] = WorkItems!Nowhere => table.status[k] = "none")
    BY <1>3, <1>16 DEF ItemIInv, ItemFetched
  <2>2. k # i /\ k <= log'.last
    <3>1. k \in Nat /\ log.last \in Nat /\ log'.last = log.last + 1 /\ i = log.last + 1 /\ k <= log.last
      BY <1>1, <1>3, <1>4, <2>1, ItemItemFacts
    <3> QED
      BY <3>1
  <2> QED
    BY <1>5, <1>7, <1>17, <2>1, <2>2
<1>19. pg \in ItemPageRec /\ pg.draft = page.draft /\ pg.run = page.run /\ pg.parent = page.parent
       /\ pg.creating = page.creating
  BY <1>3 DEF ItemPageRec, ItemPerhaps
<1>20. page' = WorkItems!Rendered(pg, seen')
  BY <1>1
<1> HIDE DEF pg
<1>21. /\ page' \in ItemPageRec /\ page'.run \in {WorkItems!None, pg.run}
       /\ page'.run # WorkItems!None => WorkItems!Shown(page', seen') = WorkItems!Shown(page, seen)
       /\ ItemFilled(page', seen') /\ page'.parent = pg.parent /\ page'.creating = pg.creating
  BY <1>3, <1>14, <1>19, <1>20, ItemRenderedFacts
<1>22. page'.run <= Len(table'.runs) /\ ItemAimed(page', log')
  BY <1>3, <1>4, <1>7, <1>19, <1>21 DEF ItemIInv, ItemAimed, WorkItems!None
<1>23. ItemIInv'
  BY <1>2, <1>3, <1>4, <1>7, <1>14, <1>15, <1>16, <1>18, <1>21, <1>22 DEF ItemIInv
<1>24. ~ rough => ItemRunShown(table', seen', page') /\ ItemOwnRows(seen')
  <2>1. ~ rough => ItemRunShown(table', seen', page')
    BY <1>8, <1>7, <1>19, <1>21, ItemRunsKept DEF ItemBoth, ItemWaited, ItemRunShown
  <2>2. ~ rough => ItemOwnRows(seen')
    BY <1>17 DEF ItemBoth, ItemWaited, ItemOwnRows
  <2> QED
    BY <2>1, <2>2
<1> QED
  BY <1>2, <1>16, <1>23, <1>24 DEF ItemBoth, ItemWaited

\* A workspace is made.
LEMMA ItemWorkspaceCreatedKeeps == ASSUME ItemBoth,
NEW j \in jobs, WorkItems!WorkspaceCreated(j) PROVE ItemBoth'
<1>1. WorkItems!Answered(j) /\ UNCHANGED <<table, seen, page, log, rough>>
  BY DEF WorkItems!WorkspaceCreated
<1>2. table' \in ItemTableRec /\ ItemRunsGrow(table, table')
  BY <1>1, ItemSameRuns DEF ItemBoth, ItemIInv
<1> QED
  BY <1>1, <1>2, ItemReplyOnPage

\* A query is fetched that was due, or whose answer shows the same rows.
LEMMA ItemFetchesKeeps ==
    ASSUME ItemBoth, NEW q \in WorkItems!Keys, WorkItems!Fetches(q),
           q \in WorkItems!Mounted(page, seen) \cup UNION {j.waits : j \in jobs},
           ~ rough => \/ \A j \in jobs : j.at = "fetch"
                      \/ WorkItems!Shown(page, seen') = WorkItems!Shown(page, seen)
    PROVE  ItemBoth'
<1>1. /\ seen' = [seen EXCEPT ![q] = WorkItems!Content(table, q)]
         /\ page' = WorkItems!Rendered(page, seen') /\ due' = due \ {q}
      /\ jobs' = {[j EXCEPT !.waits = @ \ {q}] : j \in jobs}
      /\ UNCHANGED <<table, log, rough>>
  BY DEF WorkItems!Fetches
<1>2. /\ page \in ItemPageRec /\ ItemIInv /\ ItemSeenOK(seen, table) /\ page.run <= Len(table.runs)
         /\ Len(table.runs) \in Nat
      /\ log \in [opened : ItemPerhaps, last : Nat] /\ table \in ItemTableRec
  BY ItemTableFacts DEF ItemBoth, ItemIInv
<1> DEFINE c == WorkItems!Content(table, q)
<1>3. c \in ItemAnswers(table, q)
  BY <1>2, ItemContentTyped
<1>4. q[1] = "page" => \A r \in c : r.of <= log.last
  <2> SUFFICES ASSUME q[1] = "page", NEW r \in c
               PROVE  r.of <= log.last
    OBVIOUS
  <2>1. c = {WorkItems!Row(table, i) : i \in WorkItems!PageOf(WorkItems!Listed(table, q[2]), q[3])}
    BY DEF WorkItems!Content
  <2>2. PICK i \in WorkItems!PageOf(WorkItems!Listed(table, q[2]), q[3]) : r = WorkItems!Row(table, i)
    BY <2>1
  <2>3. i \in Items /\ table.status[i] # "none"
    BY DEF WorkItems!PageOf, WorkItems!Listed
  <2>4. r.of = i
    BY <2>2, <2>3 DEF WorkItems!Row
  <2> QED
    BY <1>2, <2>3, <2>4 DEF ItemIInv, ItemKnown
<1>5. q[1] = "item" => /\ c = WorkItems!Nowhere => table.status[q[2]] = "none"
                       /\ c # WorkItems!Nowhere => c.of = q[2]
  <2>1. q[1] = "item" => c = WorkItems!Row(table, q[2])
    BY DEF WorkItems!Content
  <2>2. q[1] = "item" => q[2] \in Items
    BY ItemKeyFacts
  <2> QED
    BY <2>1, <2>2, ItemItemFacts DEF WorkItems!Row, WorkItems!Nowhere
<1>6. ASSUME NEW i \in Items, q = <<"item", i>>
      PROVE  i <= log.last
  <2>1. CASE q \in WorkItems!Mounted(page, seen)
    <3>1. i = WorkItems!Shown(page, seen)
      BY <1>6, <2>1 DEF WorkItems!Mounted, WorkItems!ListKey
    <3>2. i \in WorkItems!Backlog(page, seen) /\ WorkItems!ListKey(page) \in WorkItems!Keys
          /\ WorkItems!ListKey(page)[1] = "page"
      BY <1>2, <3>1, ItemItemFacts, ItemShownTyped
    <3> QED
      BY <1>2, <3>2 DEF WorkItems!Backlog, ItemIInv, ItemKnown
  <2>2. CASE \E j \in jobs : q \in j.waits
    BY <1>2, <1>6, <2>2 DEF ItemIInv, ItemJobsOK
  <2> QED
    BY <2>1, <2>2
<1>7. seen' = [seen EXCEPT ![q] = c]
  BY <1>1
<1> HIDE DEF c
<1>8. /\ \A k \in WorkItems!Keys : k # q => seen'[k] = seen[k]
      /\ seen'[q] = c
      /\ DOMAIN seen' = WorkItems!Keys /\ seen' = [k \in WorkItems!Keys |-> seen'[k]]
  BY <1>2, <1>7 DEF ItemSeenOK
<1>9. ItemSeenOK(seen', table)
  BY <1>2, <1>3, <1>8 DEF ItemSeenOK
<1>10. ItemKnown(table, seen', log)
  BY <1>2, <1>4, <1>8 DEF ItemIInv, ItemKnown
<1>11. ItemFetched(table, seen', due', log)
  <2> SUFFICES ASSUME NEW i \in Items, <<"item", i>> \notin due'
               PROVE  i <= log.last /\ (seen'[<<"item", i>>] = WorkItems!Nowhere
                      => table.status[i] = "none")
    BY DEF ItemFetched
  <2> DEFINE k == <<"item", i>>
  <2>1. k \in WorkItems!Keys /\ k[1] = "item" /\ k[2] = i
    BY ItemKeyFacts
  <2>2. CASE k = q
    BY <1>5, <1>6, <1>8, <2>1, <2>2
  <2>3. CASE k # q
    BY <1>1, <1>2, <1>8, <2>1, <2>3 DEF ItemIInv, ItemFetched
  <2> QED
    BY <2>2, <2>3
<1>12. /\ page' \in ItemPageRec /\ page'.run \in {WorkItems!None, page.run}
       /\ page'.run # WorkItems!None => WorkItems!Shown(page', seen') = WorkItems!Shown(page, seen)
       /\ ItemFilled(page', seen') /\ page'.parent = page.parent /\ page'.creating = page.creating
       /\ WorkItems!Mounted(page', seen') = WorkItems!Mounted(page, seen')
       /\ WorkItems!Shown(page', seen') = WorkItems!Shown(page, seen')
  BY <1>1, <1>2, <1>9, ItemRenderedFacts
<1>13. page'.run <= Len(table.runs) /\ ItemAimed(page', log)
  BY <1>2, <1>12 DEF ItemIInv, ItemAimed, WorkItems!None
<1>14. ASSUME NEW k \in jobs'
       PROVE  \E j \in jobs : /\ k = [j EXCEPT !.waits = @ \ {q}] /\ k \in ItemJobRec
                                   /\ k.waits = j.waits \ {q}
                              /\ k.run = j.run /\ k.op = j.op /\ k.parent = j.parent /\ k.goal = j.goal
                              /\ k.item = j.item /\ k.draft = j.draft /\ k.at = j.at
  <2>1. PICK j \in jobs : k = [j EXCEPT !.waits = @ \ {q}]
    BY <1>1
  <2>2. j \in ItemBase /\ j \in ItemJobRec
    BY ItemJobKnown
  <2>3. /\ k \in ItemBase /\ k.waits = j.waits \ {q} /\ k.run = j.run /\ k.op = j.op
           /\ k.parent = j.parent
        /\ k.goal = j.goal /\ k.item = j.item /\ k.draft = j.draft /\ k.at = j.at /\ k.rows = j.rows
    BY <2>1, <2>2 DEF ItemBase
  <2>4. k \in ItemJobRec
    BY <2>2, <2>3 DEF ItemJobRec
  <2> QED
    BY <2>1, <2>3, <2>4
<1>15. ItemJobsOK(jobs', table, log)
  BY <1>2, <1>14 DEF ItemIInv, ItemJobsOK
<1>16. ItemIInv'
  BY <1>1, <1>2, <1>9, <1>10, <1>11, <1>12, <1>13, <1>15 DEF ItemIInv
<1>17. ASSUME ~ rough
       PROVE  /\ \A k, l \in jobs' : k = l
              /\ \A k \in jobs' : ItemStill(k, table, seen', due', page')
              /\ ItemRunShown(table, seen', page') /\ ItemOwnRows(seen')
  <2>1. \A k, l \in jobs' : k = l
    BY <1>1, <1>17 DEF ItemBoth, ItemWaited
  <2>2. ASSUME NEW k \in jobs'
        PROVE  ItemStill(k, table, seen', due', page')
    <3>1. PICK j \in jobs : /\ k.run = j.run /\ k.op = j.op /\ k.item = j.item /\ k.draft = j.draft
                                 /\ k.at = j.at
      BY <1>14
    <3>2. ItemStill(j, table, seen, due, page)
      BY <1>17 DEF ItemBoth, ItemWaited
    <3>3. CASE k.at = "fetch"
      BY <3>1, <3>2, <3>3 DEF ItemStill
    <3>4. CASE k.at # "fetch"
      <4>1. WorkItems!Shown(page, seen') = WorkItems!Shown(page, seen)
        BY <1>17, <3>1, <3>4
      <4>2. WorkItems!Shown(page', seen') = WorkItems!Shown(page, seen)
            /\ WorkItems!Mounted(page', seen') = WorkItems!Mounted(page, seen)
        BY <1>12, <4>1 DEF WorkItems!Mounted
      <4> QED
        BY <1>1, <3>1, <3>2, <3>4, <4>2 DEF ItemStill
    <3> QED
      BY <3>3, <3>4
  <2>3. ItemRunShown(table, seen', page')
    BY <1>12, <1>17 DEF ItemBoth, ItemWaited, ItemRunShown
  <2>4. ItemOwnRows(seen')
    <3> SUFFICES ASSUME NEW i \in Items, seen'[<<"item", i>>] # WorkItems!Nowhere
                 PROVE  seen'[<<"item", i>>].of = i
      BY DEF ItemOwnRows
    <3> DEFINE k == <<"item", i>>
    <3>1. k \in WorkItems!Keys /\ k[1] = "item" /\ k[2] = i
      BY ItemKeyFacts
    <3>2. CASE k = q
      BY <1>5, <1>8, <3>1, <3>2
    <3>3. CASE k # q
      BY <1>8, <1>17, <3>1, <3>3 DEF ItemBoth, ItemWaited, ItemOwnRows
    <3> QED
      BY <3>2, <3>3
  <2> QED
    BY <2>1, <2>2, <2>3, <2>4
<1> QED
  BY <1>1, <1>16, <1>17 DEF ItemBoth, ItemWaited

\* A query that is due is fetched.
LEMMA ItemFetchKeeps == ASSUME ItemBoth, NEW q \in WorkItems!Keys, WorkItems!Fetch(q) PROVE ItemBoth'
<1>1. q \in due /\ q \in WorkItems!Mounted(page, seen) \cup UNION {j.waits : j \in jobs}
      /\ WorkItems!Fetches(q)
  BY DEF WorkItems!Fetch
<1>2. ASSUME ~ rough, NEW j \in jobs, j.at # "fetch"
      PROVE  FALSE
  <2>1. ItemStill(j, table, seen, due, page) /\ j.waits = {} /\ jobs = {j}
    BY <1>2, ItemJobKnown
  <2>2. due \cap WorkItems!Mounted(page, seen) = {}
    BY <1>2, <2>1 DEF ItemStill
  <2>3. UNION {k.waits : k \in jobs} = {}
    BY <2>1
  <2> QED
    BY <1>1, <2>2, <2>3
<1> QED
  BY <1>1, <1>2, ItemFetchesKeeps

\* A query is polled.
LEMMA ItemPollKeeps == ASSUME ItemBoth, NEW q \in WorkItems!Keys, WorkItems!Poll(q) PROVE ItemBoth'
<1>1. q[1] = "run" /\ q \in WorkItems!Mounted(page, seen) /\ WorkItems!Fetches(q)
  BY DEF WorkItems!Poll
<1>2. WorkItems!ListKey(page) \in WorkItems!Keys /\ WorkItems!ListKey(page) # q
  BY <1>1, ItemShownTyped DEF ItemBoth, ItemIInv
<1>3. seen'[WorkItems!ListKey(page)] = seen[WorkItems!ListKey(page)]
  BY <1>1, <1>2 DEF ItemBoth, ItemIInv, ItemSeenOK, WorkItems!Fetches
<1>4. WorkItems!Shown(page, seen') = WorkItems!Shown(page, seen)
  BY <1>3 DEF WorkItems!Shown, WorkItems!Backlog
<1> QED
  BY <1>1, <1>4, ItemFetchesKeeps

\* The engine starts a workflow on an approved item.
LEMMA ItemAutoStartKeeps == ASSUME ItemBoth, NEW i \in Items, WorkItems!AutoStart(i) PROVE ItemBoth'
<1> DEFINE go == WorkItems!Live(i) = {} /\ Len(table.runs) < MaxRuns
           rs == IF go THEN Append(table.runs, WorkItems!NewRun(i)) ELSE table.runs
           a == table.auto \ {i}
<1>1. UNCHANGED <<seen, due, page, jobs, log, rough>>
  BY DEF WorkItems!AutoStart
<1>2. table \in ItemTableRec /\ table.runs \in Seq(ItemRunRec) /\ Len(table.runs) \in Nat
      /\ a \in SUBSET Items
  BY ItemTableFacts DEF ItemBoth, ItemIInv
<1>3. table' = [table EXCEPT !.auto = a, !.runs = rs]
  BY <1>2 DEF WorkItems!AutoStart, ItemTableRec
<1> HIDE DEF go
<1>4. /\ rs \in Seq(ItemRunRec) /\ Len(table.runs) <= Len(rs)
      /\ \A k \in 1 .. Len(table.runs) : rs[k] = table.runs[k]
  <2>1. CASE go
    <3>1. /\ Append(table.runs, WorkItems!NewRun(i)) \in Seq(ItemRunRec)
             /\ Len(Append(table.runs, WorkItems!NewRun(i))) = Len(table.runs) + 1
          /\ \A k \in 1 .. Len(table.runs) : Append(table.runs, WorkItems!NewRun(i))[k] = table.runs[k]
      BY <1>2, ItemAppendFacts
    <3> QED
      BY <1>2, <2>1, <3>1
  <2>2. CASE ~ go
    BY <1>2, <2>2
  <2> QED
    BY <2>1, <2>2
<1> HIDE DEF rs, a
<1>5. table' \in ItemTableRec /\ table'.runs = rs /\ table'.status = table.status
  BY <1>2, <1>3, <1>4 DEF ItemTableRec
<1>6. ItemRunsGrow(table, table')
  BY <1>4, <1>5 DEF ItemRunsGrow, WorkItems!Runs
<1> QED
  BY <1>1, <1>5, <1>6, ItemTableKeeps

\* The engine moves a run to its next stage.
LEMMA ItemAdvanceKeeps == ASSUME ItemBoth,
NEW r \in WorkItems!Runs(table), WorkItems!Advance(r) PROVE ItemBoth'
<1>1. PICK s \in WorkItems!Gates \cup {"ended"} : table' = [table EXCEPT !.runs[r].stage = s]
  BY DEF WorkItems!Advance
<1>2. UNCHANGED <<seen, due, page, jobs, log, rough>>
  BY DEF WorkItems!Advance
<1>3. table \in ItemTableRec /\ table.runs \in Seq(ItemRunRec) /\ Len(table.runs) \in Nat
      /\ r \in 1 .. Len(table.runs)
  BY ItemTableFacts DEF ItemBoth, ItemIInv, WorkItems!Runs
<1>4. ASSUME NEW st \in {"work", "plan", "test", "ended"}, table' = [table EXCEPT !.runs[r].stage = st],
             [table.runs EXCEPT ![r].stage = st] \in Seq(ItemRunRec),
             Len([table.runs EXCEPT ![r].stage = st]) = Len(table.runs),
             \A k \in 1 .. Len(table.runs) : [table.runs EXCEPT ![r].stage = st][k].item = table.runs[k].item
      PROVE  ItemBoth'
  <2> DEFINE rs == [table.runs EXCEPT ![r].stage = st]
  <2>1. table' = [table EXCEPT !.runs = rs]
    BY <1>3, <1>4 DEF ItemTableRec
  <2>2. rs \in Seq(ItemRunRec) /\ Len(rs) = Len(table.runs)
        /\ \A k \in 1 .. Len(table.runs) : rs[k].item = table.runs[k].item
    BY <1>4
  <2> HIDE DEF rs
  <2>3. table' \in ItemTableRec /\ table'.runs = rs /\ table'.status = table.status
    BY <1>3, <2>1, <2>2 DEF ItemTableRec
  <2>4. ItemRunsGrow(table, table')
    BY <1>3, <2>2, <2>3 DEF ItemRunsGrow, WorkItems!Runs
  <2> QED
    BY <1>2, <2>3, <2>4, ItemTableKeeps
<1>5. CASE s = "plan"
  <2>1. /\ [table.runs EXCEPT ![r].stage = "plan"] \in Seq(ItemRunRec)
        /\ Len([table.runs EXCEPT ![r].stage = "plan"]) = Len(table.runs)
        /\ \A k \in 1 .. Len(table.runs) : [table.runs EXCEPT ![r].stage = "plan"][k].item = table.runs[k].item
    BY <1>3, ItemStageFacts
  <2> QED
    BY <1>1, <1>4, <1>5, <2>1
<1>6. CASE s = "test"
  <2>1. /\ [table.runs EXCEPT ![r].stage = "test"] \in Seq(ItemRunRec)
        /\ Len([table.runs EXCEPT ![r].stage = "test"]) = Len(table.runs)
        /\ \A k \in 1 .. Len(table.runs) : [table.runs EXCEPT ![r].stage = "test"][k].item = table.runs[k].item
    BY <1>3, ItemStageFacts
  <2> QED
    BY <1>1, <1>4, <1>6, <2>1
<1>7. CASE s = "ended"
  <2>1. /\ [table.runs EXCEPT ![r].stage = "ended"] \in Seq(ItemRunRec)
        /\ Len([table.runs EXCEPT ![r].stage = "ended"]) = Len(table.runs)
        /\ \A k \in 1 .. Len(table.runs) : [table.runs EXCEPT ![r].stage = "ended"][k].item = table.runs[k].item
    BY <1>3, ItemStageFacts
  <2> QED
    BY <1>1, <1>4, <1>7, <2>1
<1> QED
  BY <1>5, <1>6, <1>7 DEF WorkItems!Gates

\* One step of the page, of the backend or of the engine.
LEMMA ItemStepKeeps == ItemBoth /\ [WorkItems!Next]_WorkItems!vars => ItemBoth'
<1> SUFFICES ASSUME ItemBoth, [WorkItems!Next]_WorkItems!vars
             PROVE  ItemBoth'
  OBVIOUS
<1>1. CASE UNCHANGED WorkItems!vars
  BY <1>1 DEF WorkItems!vars, ItemBoth, ItemIInv, ItemSeenOK, ItemJobsOK, ItemKnown,
     ItemFetched, ItemFilled, ItemAimed, ItemWaited, ItemStill, ItemRunShown, ItemOwnRows
<1>2. ASSUME WorkItems!Acts, WorkItems!Act
      PROVE  ItemBoth'
  <2>1. rough \/ WorkItems!Quiet
    BY <1>2 DEF WorkItems!Acts
  <2> QED
    BY <1>2, <2>1, ItemPageActs, ItemSendActs DEF WorkItems!Act
<1>3. ASSUME NEW j \in jobs,
             \/ WorkItems!Created(j) \/ WorkItems!Updated(j) \/ WorkItems!Deleted(j)
                \/ WorkItems!Decided(j) \/ WorkItems!BulkDecided(j) \/ WorkItems!Started(j)
             \/ WorkItems!Restarted(j) \/ WorkItems!Recorded(j) \/ WorkItems!Acted(j)
                \/ WorkItems!CliStarted(j) \/ WorkItems!WorkspaceSet(j)
             \/ WorkItems!WorkspaceCreated(j) \/ WorkItems!Refused(j) \/ WorkItems!Finish(j)
      PROVE  ItemBoth'
  BY <1>3, ItemCreatedKeeps, ItemUpdatedKeeps, ItemDeletedKeeps, ItemDecidedKeeps,
     ItemBulkDecidedKeeps, ItemStartedKeeps,
     ItemRestartedKeeps, ItemRecordedKeeps, ItemActedKeeps, ItemCliStartedKeeps, ItemWorkspaceSetKeeps,
     ItemWorkspaceCreatedKeeps, ItemRefusedKeeps, ItemFinishKeeps
<1> QED
  BY <1>1, <1>2, <1>3, ItemFetchKeeps, ItemPollKeeps, ItemAutoStartKeeps, ItemAdvanceKeeps
     DEF WorkItems!Next

\* What the invariant says of the page.
LEMMA ItemTypeOKHolds == ItemBoth => WorkItems!TypeOK
<1> SUFFICES ASSUME ItemBoth
             PROVE  WorkItems!TypeOK
  OBVIOUS
<1>1. table \in ItemTableRec /\ page \in ItemPageRec /\ page.run <= Len(table.runs)
  BY DEF ItemBoth, ItemIInv
<1>2. /\ table.status \in [Items -> {"none", "draft", "approved"}] /\ table.auto \subseteq Items
      /\ \A r \in WorkItems!Runs(table) : table.runs[r].item \in Items
  BY <1>1, ItemTableFacts DEF ItemRunRec
<1>3. WorkItems!Ticked(page) \subseteq Items
  <2>1. page.ticks \in Seq(Items)
    BY <1>1 DEF ItemPageRec
  <2> QED
    BY <2>1, ElementOfSeq DEF WorkItems!Ticked
<1>4. page.draft.of \in ItemPerhaps
  BY <1>1 DEF ItemPageRec, ItemForms, ItemRows, WorkItems!Blank, WorkItems!Nowhere, ItemPerhaps
<1>5. page.run \in {WorkItems!None} \cup WorkItems!Runs(table)
  <2>1. page.run \in Nat /\ Len(table.runs) \in Nat
    BY <1>1 DEF ItemPageRec, ItemTableRec
  <2> QED
    BY <1>1, <2>1 DEF WorkItems!Runs, WorkItems!None
<1>6. \A j \in jobs : j.at \in {"out", "act", "fetch"} /\ j.waits \subseteq WorkItems!Keys
  BY ItemJobKnown DEF ItemBase
<1>7. due \subseteq WorkItems!Keys
  BY DEF ItemBoth, ItemIInv
<1> QED
  BY <1>1, <1>2, <1>3, <1>4, <1>5, <1>6, <1>7 DEF WorkItems!TypeOK, ItemPageRec, ItemPerhaps

\* The invariant says that a save carries the draft of its item.
LEMMA ItemOwnDraftHolds == ItemBoth => WorkItems!OwnDraft
  BY DEF ItemBoth, ItemWaited, ItemStill, WorkItems!OwnDraft

\* The invariant says that an item is created where its dialog was opened.
LEMMA ItemUnderOpenedHolds == ItemBoth => WorkItems!UnderOpened
  BY DEF ItemBoth, ItemIInv, ItemJobsOK, WorkItems!UnderOpened

\* The invariant says that a decision goes to a run of its item.
LEMMA ItemOwnRunHolds == ItemBoth => WorkItems!OwnRun
  BY DEF ItemBoth, ItemWaited, ItemStill, WorkItems!OwnRun, ItemRunOps

------------------------------------------------------------------------------
(* The background *)

ToolP == INSTANCE BackgroundProofs WITH
    Runs <- ToolRuns, Imports <- {}, First <- Nobody, MaxActs <- ToolActs
ImportP == INSTANCE BackgroundProofs WITH Runs <- {}, First <- Nobody, MaxActs <- ImportActs

\* A behaviour that shows a tool run takes the steps of Background, throughout.
LEMMA ToolShown == Spec => (shown = "tool" => Tool!Spec)
<1>1. Init => (shown = "tool" => Tool!Init)
  BY DEF Init
<1>2. shown = "tool" /\ [Next]_vars => (shown = "tool")' /\ [Tool!Next]_(Tool!vars)
  BY DEF Next, vars, Tool!vars
<1> QED
  BY <1>1, <1>2, PTL DEF Spec, Tool!Spec

LEMMA ImportShown == Spec => (shown = "import" => Import!Spec)
<1>1. Init => (shown = "import" => Import!Init)
  BY DEF Init
<1>2. shown = "import" /\ [Next]_vars => (shown = "import")' /\ [Import!Next]_(Import!vars)
  BY DEF Next, vars, Import!vars
<1> QED
  BY <1>1, <1>2, PTL DEF Spec, Import!Spec

\* What is proved of Background is proved of the tasks of Desk.
LEMMA SameTool ==
    /\ Tool!Init <=> ToolP!Init
    /\ [Tool!Next]_(Tool!vars) <=> [ToolP!Next]_(ToolP!vars)
    /\ Tool!TypeOK <=> ToolP!TypeOK
    /\ Tool!AsReported <=> ToolP!AsReported
  BY DEF
      Tool!Absent, Tool!Active, Tool!Acts, Tool!AsReported, Tool!Begun,
      Tool!CheckProducts, Tool!CheckpointBreaks, Tool!Checkpointed,
      Tool!CompleteImport, Tool!CompleteRun, Tool!CountChunk, Tool!Crash,
      Tool!CreateFlow, Tool!Drain, Tool!Ends, Tool!Engine, Tool!Exit,
      Tool!FailImport, Tool!Fallback, Tool!FindFlow, Tool!FlowRuns, Tool!Flows,
      Tool!Goes, Tool!ImportBreaks, Tool!ImportGoes, Tool!ImportStep,
      Tool!ImportTasks, Tool!Init, Tool!ItemToReview, Tool!Launch,
      Tool!MarkRunning, Tool!MoveFlow, Tool!NoteMove, Tool!Next, Tool!NotForgotten, Tool!Open,
      Tool!OwnEnd, Tool!Process, Tool!ReadFile, Tool!RecoverEvents,
      Tool!RecoverImports, Tool!RecoverRunning, Tool!RecoverRuns,
      Tool!RunBreaks, Tool!RunGoes, Tool!RunStep, Tool!RunTasks, Tool!SetStatus,
      Tool!Start, Tool!Still, Tool!SubmitImport, Tool!SubmitRun, Tool!Tables,
      Tool!Tasks, Tool!TypeOK, Tool!UpsertChunk, Tool!Using, Tool!Whole,
      Tool!vars, ToolP!Absent, ToolP!Active, ToolP!Acts, ToolP!AsReported,
      ToolP!Begun, ToolP!CheckProducts, ToolP!CheckpointBreaks,
      ToolP!Checkpointed, ToolP!CompleteImport, ToolP!CompleteRun,
      ToolP!CountChunk, ToolP!Crash, ToolP!CreateFlow, ToolP!Drain, ToolP!Ends,
      ToolP!Engine, ToolP!Exit, ToolP!FailImport, ToolP!Fallback,
      ToolP!FindFlow, ToolP!FlowRuns, ToolP!Flows, ToolP!Goes,
      ToolP!ImportBreaks, ToolP!ImportGoes, ToolP!ImportStep, ToolP!ImportTasks,
      ToolP!Init, ToolP!ItemToReview, ToolP!Launch, ToolP!MarkRunning,
      ToolP!MoveFlow, ToolP!NoteMove, ToolP!Next, ToolP!NotForgotten, ToolP!Open, ToolP!OwnEnd,
      ToolP!Process, ToolP!ReadFile, ToolP!RecoverEvents, ToolP!RecoverImports,
      ToolP!RecoverRunning, ToolP!RecoverRuns, ToolP!RunBreaks, ToolP!RunGoes,
      ToolP!RunStep, ToolP!RunTasks, ToolP!SetStatus, ToolP!Start, ToolP!Still,
      ToolP!SubmitImport, ToolP!SubmitRun, ToolP!Tables, ToolP!Tasks,
      ToolP!TypeOK, ToolP!UpsertChunk, ToolP!Using, ToolP!Whole, ToolP!vars

LEMMA SameImport ==
    /\ Import!Init <=> ImportP!Init
    /\ [Import!Next]_(Import!vars) <=> [ImportP!Next]_(ImportP!vars)
    /\ Import!TypeOK <=> ImportP!TypeOK
    /\ Import!AsReported <=> ImportP!AsReported
  BY DEF
      Import!Absent, Import!Active, Import!Acts, Import!AsReported,
      Import!Begun, Import!CheckProducts, Import!CheckpointBreaks,
      Import!Checkpointed, Import!CompleteImport, Import!CompleteRun,
      Import!CountChunk, Import!Crash, Import!CreateFlow, Import!Drain,
      Import!Ends, Import!Engine, Import!Exit, Import!FailImport,
      Import!Fallback, Import!FindFlow, Import!FlowRuns, Import!Flows,
      Import!Goes, Import!ImportBreaks, Import!ImportGoes, Import!ImportStep,
      Import!ImportTasks, Import!Init, Import!ItemToReview, Import!Launch,
      Import!MarkRunning, Import!MoveFlow, Import!NoteMove, Import!Next, Import!NotForgotten,
      Import!Open, Import!OwnEnd, Import!Process, Import!ReadFile,
      Import!RecoverEvents, Import!RecoverImports, Import!RecoverRunning,
      Import!RecoverRuns, Import!RunBreaks, Import!RunGoes, Import!RunStep,
      Import!RunTasks, Import!SetStatus, Import!Start, Import!Still,
      Import!SubmitImport, Import!SubmitRun, Import!Tables, Import!Tasks,
      Import!TypeOK, Import!UpsertChunk, Import!Using, Import!Whole,
      Import!vars, ImportP!Absent, ImportP!Active, ImportP!Acts,
      ImportP!AsReported, ImportP!Begun, ImportP!CheckProducts,
      ImportP!CheckpointBreaks, ImportP!Checkpointed, ImportP!CompleteImport,
      ImportP!CompleteRun, ImportP!CountChunk, ImportP!Crash,
      ImportP!CreateFlow, ImportP!Drain, ImportP!Ends, ImportP!Engine,
      ImportP!Exit, ImportP!FailImport, ImportP!Fallback, ImportP!FindFlow,
      ImportP!FlowRuns, ImportP!Flows, ImportP!Goes, ImportP!ImportBreaks,
      ImportP!ImportGoes, ImportP!ImportStep, ImportP!ImportTasks, ImportP!Init,
      ImportP!ItemToReview, ImportP!Launch, ImportP!MarkRunning,
      ImportP!MoveFlow, ImportP!NoteMove, ImportP!Next, ImportP!NotForgotten, ImportP!Open,
      ImportP!OwnEnd, ImportP!Process, ImportP!ReadFile, ImportP!RecoverEvents,
      ImportP!RecoverImports, ImportP!RecoverRunning, ImportP!RecoverRuns,
      ImportP!RunBreaks, ImportP!RunGoes, ImportP!RunStep, ImportP!RunTasks,
      ImportP!SetStatus, ImportP!Start, ImportP!Still, ImportP!SubmitImport,
      ImportP!SubmitRun, ImportP!Tables, ImportP!Tasks, ImportP!TypeOK,
      ImportP!UpsertChunk, ImportP!Using, ImportP!Whole, ImportP!vars

------------------------------------------------------------------------------
(* The theorems *)

\* What holds of a behaviour that shows the registry, the catalog, or the work
\* items.
RegistryHolds == shown = "registry" => RegIInv /\ RegWaited
CatalogHolds == shown = "catalog" => CatBoth
WorkItemsHold == shown = "work items" => ItemBoth

\* The registry's steps are those of Registry, throughout.
LEMMA RegistryInvariant == Spec => []RegistryHolds
<1>1. Init => RegistryHolds
  BY RegInitKeeps, RegInitWaited DEF Init, RegistryHolds
<1>2. RegistryHolds /\ [Next]_vars => RegistryHolds'
  <2> SUFFICES ASSUME RegistryHolds, [Next]_vars, shown' = "registry"
               PROVE  RegIInv' /\ RegWaited'
    BY DEF RegistryHolds
  <2>1. RegIInv /\ RegWaited /\ [Registry!Next]_Registry!vars
    BY DEF RegistryHolds, Next, vars, Registry!vars
  <2> QED
    BY <2>1, RegStepKeeps, RegStepWaited
<1> QED
  BY <1>1, <1>2, PTL DEF Spec

\* So with the work items'.
LEMMA WorkItemsInvariant == Spec => []WorkItemsHold
<1>1. Init => WorkItemsHold
  BY ItemInitKeeps DEF Init, WorkItemsHold
<1>2. WorkItemsHold /\ [Next]_vars => WorkItemsHold'
  <2> SUFFICES ASSUME WorkItemsHold, [Next]_vars, shown' = "work items"
               PROVE  ItemBoth'
    BY DEF WorkItemsHold
  <2>1. ItemBoth /\ [WorkItems!Next]_WorkItems!vars
    BY DEF WorkItemsHold, Next, vars, WorkItems!vars
  <2> QED
    BY <2>1, ItemStepKeeps
<1> QED
  BY <1>1, <1>2, PTL DEF Spec

\* So with the catalog's.
LEMMA CatalogInvariant == Spec => []CatalogHolds
<1>1. Init => CatalogHolds
  BY CatInitKeeps DEF Init, CatalogHolds
<1>2. CatalogHolds /\ [Next]_vars => CatalogHolds'
  <2> SUFFICES ASSUME CatalogHolds, [Next]_vars, shown' = "catalog"
               PROVE  CatBoth'
    BY DEF CatalogHolds
  <2>1. CatBoth /\ [Catalog!Next]_Catalog!vars
    BY DEF CatalogHolds, Next, vars, Catalog!vars
  <2> QED
    BY <2>1, CatStepKeeps
<1> QED
  BY <1>1, <1>2, PTL DEF Spec

\* Every page, and the background, keeps its types.
THEOREM TypesKept == Spec => []TypeOK
<1>1. RegistryHolds => (shown = "registry" => Registry!TypeOK)
  BY RegTypeOKHolds DEF RegistryHolds
<1>2. CatalogHolds => (shown = "catalog" => Catalog!TypeOK)
  BY CatTypeOKHolds DEF CatalogHolds, CatBoth
<1>3. WorkItemsHold => (shown = "work items" => WorkItems!TypeOK)
  BY ItemTypeOKHolds DEF WorkItemsHold
<1>4. Tool!Spec => []Tool!TypeOK
  <2>1. ToolRuns \cap {} = {} /\ Chunks \in Nat
    BY BackgroundIds
  <2>2. ToolP!Spec => []ToolP!TypeOK
    BY <2>1, ToolP!BackgroundTypes
  <2> QED
    BY <2>2, SameTool, PTL DEF Tool!Spec, ToolP!Spec
<1>5. Import!Spec => []Import!TypeOK
  <2>1. {} \cap Imports = {} /\ Chunks \in Nat
    BY BackgroundIds
  <2>2. ImportP!Spec => []ImportP!TypeOK
    BY <2>1, ImportP!BackgroundTypes
  <2> QED
    BY <2>2, SameImport, PTL DEF Import!Spec, ImportP!Spec
<1>6. Init => shown \in {"registry", "catalog", "work items", "tool", "import"}
  BY DEF Init
<1>7. shown \in {"registry", "catalog", "work items", "tool", "import"} /\ [Next]_vars
      => (shown \in {"registry", "catalog", "work items", "tool", "import"})'
  BY DEF Next, vars
<1>8. ~(shown = "tool") /\ [Next]_vars => (~(shown = "tool"))'
  BY DEF Next, vars
<1>9. ~(shown = "import") /\ [Next]_vars => (~(shown = "import"))'
  BY DEF Next, vars
<1>10. /\ shown \in {"registry", "catalog", "work items", "tool", "import"}
       /\ shown = "registry" => Registry!TypeOK
       /\ shown = "catalog" => Catalog!TypeOK
       /\ shown = "work items" => WorkItems!TypeOK
       /\ shown = "tool" => Tool!TypeOK
       /\ shown = "import" => Import!TypeOK
       => TypeOK
  BY DEF TypeOK
<1> QED
  BY <1>1, <1>2, <1>3, <1>4, <1>5, <1>6, <1>7, <1>8, <1>9, <1>10, RegistryInvariant, CatalogInvariant,
     WorkItemsInvariant, ToolShown, ImportShown, PTL DEF Spec

\* However the person hurries and whatever is answered meanwhile, an edit is
\* saved with the form of the row it is saved to, on each of the pages.
THEOREM OwnFormAlways == Spec => []OwnForm
<1>1. RegistryHolds /\ CatalogHolds /\ WorkItemsHold => OwnForm
  BY RegOwnFormHolds, CatOwnFormHolds, ItemOwnDraftHolds
     DEF RegistryHolds, CatalogHolds, CatBoth, WorkItemsHold, OwnForm
<1> QED
  BY <1>1, RegistryInvariant, CatalogInvariant, WorkItemsInvariant, PTL

\* For a person who waits, a new row goes under the node its dialog was opened
\* for, although the parent is read from the store when Save is pressed.
THEOREM UnderOpenedAlways == Spec => []UnderOpened
<1>1. CatalogHolds /\ WorkItemsHold => UnderOpened
  BY CatUnderOpenedHolds, ItemUnderOpenedHolds DEF CatalogHolds, WorkItemsHold, UnderOpened
<1> QED
  BY <1>1, CatalogInvariant, WorkItemsInvariant, PTL

\* For the same person, when nothing is under way the lists and the trees on the
\* screen are those of the database, whichever dialog made the change.
THEOREM FreshTreeAlways == Spec => []FreshTree
<1>1. CatalogHolds => FreshTree
  BY CatFreshTreeHolds DEF CatalogHolds, FreshTree
<1> QED
  BY <1>1, CatalogInvariant, PTL

\* When nothing is under way, and no call failed and nobody raced ahead of an
\* answer, the skills of every agent and team are those that were picked, and no
\* agent is bound to two models.
THEOREM LinksAsPickedAlways == Spec => []LinksAsPicked
<1>1. RegistryHolds => LinksAsPicked
  BY RegWaitedHolds DEF RegistryHolds, LinksAsPicked
<1> QED
  BY <1>1, RegistryInvariant, PTL

\* A person who waits for what is under way decides about the runs of the item
\* on the screen, and of no other.
THEOREM OwnRunAlways == Spec => []OwnRun
<1>1. WorkItemsHold => OwnRun
  BY ItemOwnRunHolds DEF WorkItemsHold, OwnRun
<1> QED
  BY <1>1, WorkItemsInvariant, PTL

\* Two processes, crashes and failing statements notwithstanding, the rows of
\* what runs in the background report what it does.
THEOREM AsReportedAlways == Spec => []AsReported
<1>1. Tool!Spec => []Tool!AsReported
  <2>1. ToolRuns \cap {} = {} /\ Chunks \in Nat
    BY BackgroundIds
  <2>2. ToolP!Spec => []ToolP!AsReported
    BY <2>1, ToolP!AsReportedAlways
  <2> QED
    BY <2>2, SameTool, PTL DEF Tool!Spec, ToolP!Spec
<1>2. Import!Spec => []Import!AsReported
  <2>1. {} \cap Imports = {} /\ Chunks \in Nat
    BY BackgroundIds
  <2>2. ImportP!Spec => []ImportP!AsReported
    BY <2>1, ImportP!AsReportedAlways
  <2> QED
    BY <2>2, SameImport, PTL DEF Import!Spec, ImportP!Spec
<1>3. ~(shown = "tool") /\ [Next]_vars => (~(shown = "tool"))'
  BY DEF Next, vars
<1>4. ~(shown = "import") /\ [Next]_vars => (~(shown = "import"))'
  BY DEF Next, vars
<1>5. /\ shown = "tool" => Tool!AsReported
      /\ shown = "import" => Import!AsReported
      => AsReported
  BY DEF AsReported
<1> QED
  BY <1>1, <1>2, <1>3, <1>4, <1>5, ToolShown, ImportShown, PTL DEF Spec
=============================================================================
