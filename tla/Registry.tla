------------------------------- MODULE Registry -------------------------------
(***************************************************************************)
(* The agent registry page: agents, teams and skills, the skills each      *)
(* agent and team is linked to, model bindings, memberships, scopes and    *)
(* routing policies.                                                       *)
(*                                                                         *)
(* The page shows what its queries fetched last (seen).  A save captures   *)
(* the form, the picked skills and the links as they were rendered; when   *)
(* the row is written every query is fetched again (due), the form is      *)
(* seeded from the answer, and then the links are brought to the captured  *)
(* picks with one call per link.                                           *)
(***************************************************************************)
EXTENDS Integers

CONSTANTS
    Agents, Teams, Skills,   \* ids of rows, existing or not
    Facts,                   \* memberships, team scopes and stage policies that may be set
    About,                   \* per fact: the agents and teams it is about
    Sort,                    \* per fact: "membership", "scope" or "policy"
    There,                   \* rows that exist at the start
    Nobody,
    MaxActs                  \* bound on what the person does, by rough

Kinds == {"agent", "team", "skill"}
Linked == {"agent", "team"}
Ids == Agents \cup Teams \cup Skills
OfKind(k) == CASE k = "agent" -> Agents [] k = "team" -> Teams [] k = "skill" -> Skills
KindOf(i) == CHOOSE k \in Kinds : i \in OfKind(k)
Texts == {"x", "y"}       \* what a required field may hold; "" is an empty one
Queries == {"rows", "links", "others"}
Stamps == 1 .. 3          \* ids of link rows, new for every insertion
Jobs == 1 .. 3

VARIABLES
    table,    \* the database: rows, links, facts, and model bindings per agent
    seen,     \* the same, as the page's queries fetched it last
    due,      \* queries that are fetched again
    page,     \* per kind: the selected row, the form, and the picked skills
    jobs,     \* saves, deletions and other changes under way
    picked,   \* per agent and team: the skills its last save asked for
    rough,    \* FALSE: the person waits until nothing is under way, nothing has failed
    acts

vars == <<table, seen, due, page, jobs, picked, rough, acts>>

\* blankAgentDraft, blankTeamDraft, blankSkillDraft
Blank == [of |-> Nobody, text |-> ""]

Absent(tb, i) == tb.rows[i] = ""
LinksOf(tb, i) == {l \in tb.links : l[1] = i}
SkillsOf(tb, i) == {l[2] : l \in LinksOf(tb, i)}
Empty == [rows |-> [i \in Ids |-> ""], links |-> {}, facts |-> {},
          bound |-> [a \in Agents |-> 0]]

------------------------------------------------------------------------------
(* What the page derives and what it offers *)

\* selectEntityById on the rows fetched last.
Selected(pg, sn, k) ==
    IF pg.sel[k] # Nobody /\ ~ Absent(sn, pg.sel[k]) THEN pg.sel[k] ELSE Nobody

\* The row and the links the form of a kind is seeded from.
Shown(pg, sn, k) ==
    LET i == Selected(pg, sn, k)
    IN  [id |-> i, text |-> IF i = Nobody THEN "" ELSE sn.rows[i],
         links |-> IF i = Nobody THEN {} ELSE {l \in sn.links : l[1] \in OfKind(k)}]

SeededForm(sn, i) == [of |-> i, text |-> sn.rows[i]]

\* The first rows to arrive: a kind without a selection gets its first row, once.
Begins(pg, sn, k) == ~ pg.begun[k] /\ pg.sel[k] = Nobody /\ \E i \in OfKind(k) : ~ Absent(sn, i)
Begun(pg, sn) ==
    [pg EXCEPT !.begun = [k \in Kinds |-> @[k] \/ Begins(pg, sn, k)],
               !.sel = [k \in Kinds |-> IF Begins(pg, sn, k)
                                         THEN CHOOSE i \in OfKind(k) : ~ Absent(sn, i)
                                         ELSE @[k]]]

\* The forms of some kinds are seeded again.
Seeds(pg, sn, kinds) ==
    [pg EXCEPT !.draft = [k \in Kinds |-> IF k \in kinds THEN SeededForm(sn, pg.sel[k]) ELSE @[k]],
               !.picks = [k \in Linked |-> IF k \in kinds THEN SkillsOf(sn, pg.sel[k]) ELSE @[k]]]

\* Variant: a form that is not seeded again when the selection changes under it.
SyncedOnce(pg, sn) ==
    LET new == Begun(pg, sn)
    IN  Seeds(new, sn, {k \in Kinds : new.draft[k] = Blank /\ Selected(new, sn, k) # Nobody})

\* The page after a rendering: a form whose row or links are not those it was
\* rendered with before is seeded again, whatever was typed or picked.  A kind
\* that gets its first row was rendered without one in between.
Synced(pg, sn) ==
    LET new == Begun(pg, sn)
    IN  Seeds(new, sn, {k \in Kinds : /\ Shown(new, sn, k) # Shown(page, seen, k) \/ Begins(pg, sn, k)
                                      /\ Selected(new, sn, k) # Nobody})

Saving(k) == \E j \in jobs : j.op \in {"create", "update"} /\ j.kind = k /\ j.at # "links"

\* Agent profile and organisation tree: hire, edit, remove, bind, save, reset.
ProfileOffers(act) ==
    CASE act \in {"save", "reset", "hire"} -> TRUE
      [] act = "delete" -> Selected(page, seen, "agent") # Nobody
      [] act = "bind" -> Selected(page, seen, "agent") # Nobody

\* Teams: the save button needs a name and no save under way.
TeamsOffers(act) ==
    CASE act = "save" -> page.draft["team"].text # "" /\ ~ Saving("team")
      [] act \in {"reset", "hire"} -> TRUE
      [] act = "delete" -> Selected(page, seen, "team") # Nobody

SkillsOffers(act) ==
    act = "delete" => Selected(page, seen, "skill") # Nobody

\* The members panel offers every agent for the selected team and the removal of
\* its members, the organisation tree the removal of any.
MembersOffer(f, op) ==
    /\ Sort[f] = "membership"
    /\ IF op = "unset" THEN f \in seen.facts
       ELSE page.sel["team"] \in About[f] /\ \A i \in About[f] \ Teams : ~ Absent(seen, i)

\* Assignments of the selected team; assigning one again is refused by nothing here.
AssignmentsOffer(f, op) ==
    /\ Sort[f] = "scope" /\ page.sel["team"] \in About[f]
    /\ op = "unset" => f \in seen.facts

\* Routing: a policy can be saved over another, and reset when there is one.
RoutingOffers(f, op) ==
    /\ Sort[f] = "policy"
    /\ op = "unset" => f \in seen.facts

Offers(k, act) ==
    CASE k = "agent" -> ProfileOffers(act)
      [] k = "team"  -> TeamsOffers(act)
      [] k = "skill" -> SkillsOffers(act)

------------------------------------------------------------------------------
(* The person *)

Quiet == jobs = {} /\ due = {}
Acts == (rough \/ Quiet) /\ acts < MaxActs[rough] /\ acts' = acts + 1
Stays == UNCHANGED <<table, seen, due, jobs, picked, rough>>

Choose(k, i) ==
    /\ Acts /\ ~ Absent(seen, i) /\ i # page.sel[k]
    /\ page' = Synced([page EXCEPT !.sel[k] = i], seen)
    /\ Stays

\* selectTeamFromAgentTab leaves the agent's form as it is; selectAgentFromTeam
\* may come with the team of the branch, or with none.
ChooseTeamOfTree(t) ==
    /\ Acts /\ ~ Absent(seen, t)
    /\ page' = Synced([page EXCEPT !.sel["team"] = t, !.sel["agent"] = Nobody], seen)
    /\ Stays

ChooseAgentOfTree(t, a) ==
    /\ Acts /\ ~ Absent(seen, a) /\ (t # Nobody => ~ Absent(seen, t))
    /\ page' = Synced([page EXCEPT !.sel["team"] = t, !.sel["agent"] = a], seen)
    /\ Stays

\* hireAgent, createNewTeam, createNewSkill
StartBlank(k) ==
    /\ Acts /\ Offers(k, "hire")
    /\ page' = Synced([page EXCEPT !.sel[k] = Nobody, !.draft[k] = Blank,
                                   !.picks = [l \in Linked |-> IF l = k THEN {} ELSE @[l]]], seen)
    /\ Stays

\* resetAgentForm, resetTeamForm, resetSkillForm
ResetForm(k) ==
    /\ Acts /\ Offers(k, "reset")
    /\ LET i == Selected(page, seen, k)
       IN  page' = [page EXCEPT
               !.draft[k] = IF i = Nobody THEN Blank ELSE SeededForm(seen, i),
               !.picks = [l \in Linked |-> IF l # k THEN @[l]
                                           ELSE IF i = Nobody THEN {} ELSE SkillsOf(seen, i)]]
    /\ Stays

Type(k, x) ==
    /\ Acts /\ x # page.draft[k].text
    /\ page' = [page EXCEPT !.draft[k].text = x]
    /\ Stays

TogglePick(k, s) ==
    /\ Acts /\ ~ Absent(seen, s)
    /\ page' = [page EXCEPT !.picks[k] = IF s \in @ THEN @ \ {s} ELSE @ \cup {s}]
    /\ Stays

Free == Jobs \ {j.n : j \in jobs}
Job(op, k, i) ==
    [n |-> CHOOSE n \in Free : TRUE, op |-> op, kind |-> k, id |-> i,
     form |-> page.draft[k], picks |-> IF k \in Linked THEN page.picks[k] ELSE {},
     sn |-> seen, todo |-> {}, add |-> {}, at |-> "out", failed |-> FALSE]

Begin(j) == Free # {} /\ jobs' = jobs \cup {j}

\* handleSaveAgent, handleSaveTeam, handleSaveSkill: an update of the selected
\* row, or a creation when there is none.
Save(k) ==
    /\ Acts /\ Offers(k, "save") /\ page.draft[k].text # ""
    /\ LET i == Selected(page, seen, k)
       IN  /\ Begin(Job(IF i = Nobody THEN "create" ELSE "update", k, i))
           /\ picked' = [p \in Agents \cup Teams |-> IF p = i THEN page.picks[k] ELSE picked[p]]
    /\ UNCHANGED <<table, seen, due, page, rough>>

Delete(k) ==
    /\ Acts /\ Offers(k, "delete")
    /\ Begin(Job("delete", k, page.sel[k]))
    /\ UNCHANGED <<table, seen, due, page, picked, rough>>

ChangeFact(f, op) ==
    /\ Acts
    /\ Begin([Job(op, "team", Nobody) EXCEPT !.todo = {f}])
    /\ UNCHANGED <<table, seen, due, page, picked, rough>>

\* handleAddMembership, and the removal of a membership by its id.
ChangeMembership(f, op) == MembersOffer(f, op) /\ ChangeFact(f, op)

\* handleAssignScope, and the removal of an assignment by its id.
ChangeScope(f, op) == AssignmentsOffer(f, op) /\ ChangeFact(f, op)

\* handleSaveRoutingPolicy, and the reset of a stage to the defaults.
ChangePolicy(f, op) == RoutingOffers(f, op) /\ ChangeFact(f, op)

\* handleBindSelectedAgentModel, and the two that bind many agents at once.
Bind(as) ==
    /\ Acts /\ as # {} /\ \A a \in as : ~ Absent(seen, a)
    /\ \A a \in as : as = {a} => a = page.sel["agent"] /\ ProfileOffers("bind")
    /\ Begin([Job("bind", "agent", Nobody) EXCEPT !.todo = as])
    /\ UNCHANGED <<table, seen, due, page, picked, rough>>

------------------------------------------------------------------------------
(* The backend *)

Becomes(j, k) == jobs' = (jobs \ {j}) \cup {k}
Answered(j) == Becomes(j, [j EXCEPT !.at = "refetch"]) /\ due' = Queries

\* create_agent_definition and its like, update_..., and a cascading delete_...
WriteRow(j) ==
    /\ j.at = "out"
    /\ \E i \in OfKind(j.kind) :
          \/ /\ j.op = "create" /\ Absent(table, i) /\ i \notin There
             /\ table' = [table EXCEPT !.rows[i] = j.form.text]
             /\ Becomes(j, [j EXCEPT !.at = "refetch", !.id = i]) /\ due' = Queries
             /\ picked' = [p \in Agents \cup Teams |-> IF p = i THEN j.picks ELSE picked[p]]
             /\ seen' = IF j.kind = "team" THEN [seen EXCEPT !.rows[i] = j.form.text] ELSE seen
             /\ page' = Synced(page, seen')
          \/ /\ j.op = "update" /\ i = j.id /\ ~ Absent(table, i)
             /\ table' = [table EXCEPT !.rows[i] = j.form.text]
             /\ Answered(j)
             /\ UNCHANGED <<picked, seen, page>>
          \/ /\ j.op = "delete" /\ i = j.id
             /\ table' = [rows |-> [table.rows EXCEPT ![i] = ""],
                          links |-> {l \in table.links : i \notin {l[1], l[2]}},
                          facts |-> {f \in table.facts : i \notin About[f]},
                          bound |-> [a \in Agents |-> IF a = i THEN 0 ELSE table.bound[a]]]
             /\ picked' = [p \in Agents \cup Teams |-> IF p = i THEN {} ELSE picked[p] \ {i}]
             /\ Becomes(j, [j EXCEPT !.at = "refetch", !.sn = seen]) /\ due' = Queries
             /\ UNCHANGED <<seen, page>>
    /\ UNCHANGED <<rough, acts>>

\* The row is gone, there is no id left within the bound, or the call fails.
WriteFails(j) ==
    /\ j.at = "out" /\ j.op \in {"create", "update", "delete", "set"}
    /\ \/ rough
       \/ j.op = "update" /\ Absent(table, j.id)
       \/ j.op = "create" /\ \A i \in OfKind(j.kind) : ~ Absent(table, i) \/ i \in There
    /\ jobs' = jobs \ {j}
    /\ UNCHANGED <<table, seen, due, page, picked, rough, acts>>

WriteFact(j) ==
    /\ j.at = "out" /\ j.op \in {"set", "unset"}
    /\ \A f \in j.todo : \A i \in About[f] : j.op = "set" => ~ Absent(table, i)
    /\ table' = [table EXCEPT !.facts = IF j.op = "set" THEN @ \cup j.todo ELSE @ \ j.todo]
    /\ Answered(j)
    /\ UNCHANGED <<seen, page, picked, rough, acts>>

\* set_primary_agent_model_binding: the bindings of the agent are deleted in
\* one statement, the new one is inserted in another.
BindClear(j, a) ==
    /\ j.op = "bind" /\ a \in j.todo
    /\ table' = [table EXCEPT !.bound[a] = 0]
    /\ Becomes(j, [j EXCEPT !.todo = @ \ {a}, !.add = @ \cup {a}])
    /\ UNCHANGED <<seen, due, page, picked, rough, acts>>

BindInsert(j, a) ==
    /\ j.op = "bind" /\ a \in j.add
    /\ table' = IF Absent(table, a) THEN table ELSE [table EXCEPT !.bound[a] = @ + 1]
    /\ LET k == [j EXCEPT !.add = @ \ {a}]
       IN  Becomes(j, IF k.todo = {} /\ k.add = {} THEN [k EXCEPT !.at = "refetch"] ELSE k)
    /\ due' = Queries
    /\ UNCHANGED <<seen, page, picked, rough, acts>>

------------------------------------------------------------------------------
(* Fetching again, and what follows a change *)

Fetch(q) ==
    /\ q \in due /\ due' = due \ {q}
    /\ seen' = CASE q = "rows"  -> [seen EXCEPT !.rows = table.rows]
                 [] q = "links" -> [seen EXCEPT !.links = table.links]
                 [] q = "others" -> [seen EXCEPT !.facts = table.facts, !.bound = table.bound]
    /\ page' = Synced(page, seen')
    /\ UNCHANGED <<table, jobs, picked, rough, acts>>

FetchFails(q) ==
    /\ rough /\ q \in due /\ due' = due \ {q}
    /\ UNCHANGED <<table, seen, page, jobs, picked, rough, acts>>

\* Variant: links to remove and skills to add, from what is picked when the row is saved.
LateLinkChanges(j) ==
    LET old == LinksOf(seen, j.id)
    IN  [drop |-> {l \in old : l[2] \notin page.picks[j.kind]},
         add  |-> page.picks[j.kind] \ SkillsOf(seen, j.id)]

\* syncAgentSkills, syncTeamSkills: links to remove and skills to add, from the
\* links and the picks of the rendering in which Save was pressed.
LinkChanges(j) ==
    LET old == LinksOf(j.sn, j.id)
    IN  [drop |-> {l \in old : l[2] \notin j.picks}, add |-> j.picks \ SkillsOf(j.sn, j.id)]

\* onSuccess after the queries have been fetched again: the saved row is
\* selected and its form seeded, then the links are brought to the picks.
Saved(j) ==
    /\ j.at = "refetch" /\ j.op \in {"create", "update"} /\ due = {}
    /\ page' = Synced([page EXCEPT !.sel[j.kind] = j.id,
                                   !.draft[j.kind] = [of |-> j.id, text |-> j.form.text],
                                   !.picks = [l \in Linked |->
                                       IF j.op = "create" /\ l = "team" /\ l = j.kind THEN {} ELSE @[l]]],
                      seen)
    /\ IF j.kind \in Linked
       THEN Becomes(j, [j EXCEPT !.at = "links", !.todo = LinkChanges(j).drop,
                                    !.add = LinkChanges(j).add])
       ELSE jobs' = jobs \ {j}
    /\ UNCHANGED <<table, seen, due, picked, rough, acts>>

\* Variant: a deletion that goes on with any row that is left.
DeletedAnywhere(j) ==
    /\ j.at = "refetch" /\ j.op = "delete" /\ due = {}
    /\ LET others == {i \in Ids \ {j.id} : ~ Absent(j.sn, i)}
       IN  \E i \in IF others = {} THEN {Nobody} ELSE others :
              page' = Synced([page EXCEPT !.sel[j.kind] = i,
                                  !.draft[j.kind] = IF i = Nobody THEN Blank ELSE SeededForm(j.sn, i),
                                  !.picks = [l \in Linked |-> IF l = j.kind THEN {} ELSE @[l]]],
                             seen)
    /\ jobs' = jobs \ {j}
    /\ UNCHANGED <<table, seen, due, picked, rough, acts>>

\* onSuccess of a deletion: the first other row of the list as it was rendered
\* when the deletion was answered, before the rows were fetched again.
Deleted(j) ==
    /\ j.at = "refetch" /\ j.op = "delete" /\ due = {}
    /\ LET others == {i \in OfKind(j.kind) \ {j.id} : ~ Absent(j.sn, i)}
       IN  \E i \in IF others = {} THEN {Nobody} ELSE others :
              page' = Synced([page EXCEPT !.sel[j.kind] = i,
                                  !.draft[j.kind] = IF i = Nobody THEN Blank ELSE SeededForm(j.sn, i),
                                  !.picks = [l \in Linked |-> IF l = j.kind THEN {} ELSE @[l]]],
                             seen)
    /\ jobs' = jobs \ {j}
    /\ UNCHANGED <<table, seen, due, picked, rough, acts>>

Changed(j) ==
    /\ j.at = "refetch" /\ j.op \in {"set", "unset", "bind"} /\ due = {}
    /\ jobs' = jobs \ {j}
    /\ UNCHANGED <<table, seen, due, page, picked, rough, acts>>

\* Every link of an owner and a skill that somebody still remembers.
Known(i, s) == {l \in table.links \cup seen.links \cup UNION {j.sn.links : j \in jobs} :
                   l[1] = i /\ l[2] = s}
FreshStamps(i, s) == Stamps \ {l[3] : l \in Known(i, s)}

\* One call for each link: a removal by the id of the link's row, an addition
\* that replaces the row there is under a new id.
Unlink(j, l) ==
    /\ j.at = "links" /\ l \in j.todo
    /\ table' = [table EXCEPT !.links = @ \ {l}]
    /\ Becomes(j, [j EXCEPT !.todo = @ \ {l}])
    /\ UNCHANGED <<seen, due, page, picked, rough, acts>>

Link(j, s) ==
    /\ j.at = "links" /\ s \in j.add /\ ~ Absent(table, j.id) /\ ~ Absent(table, s)
    /\ FreshStamps(j.id, s) # {}
    /\ table' = [table EXCEPT !.links = {l \in @ : l[1] # j.id \/ l[2] # s}
                                  \cup {<<j.id, s, CHOOSE n \in FreshStamps(j.id, s) : TRUE>>}]
    /\ Becomes(j, [j EXCEPT !.add = @ \ {s}])
    /\ UNCHANGED <<seen, due, page, picked, rough, acts>>

\* A call that fails ends the save with the feedback that it succeeded; the
\* other calls go on.  From then on the links are not those of the last picks,
\* although the person, who is told nothing, waited.
LinkFails(j) ==
    /\ j.at = "links"
    /\ \/ \E l \in j.todo : rough /\ Becomes(j, [j EXCEPT !.todo = @ \ {l}, !.failed = TRUE])
       \/ \E s \in j.add : /\ rough \/ Absent(table, j.id) \/ Absent(table, s)
                          /\ Becomes(j, [j EXCEPT !.add = @ \ {s}, !.failed = TRUE])
    /\ rough' = TRUE
    /\ UNCHANGED <<table, seen, due, page, picked, acts>>

LinksDone(j) ==
    /\ j.at = "links" /\ j.todo = {} /\ j.add = {}
    /\ jobs' = jobs \ {j}
    /\ IF j.failed THEN UNCHANGED <<page, due>>
       ELSE page' = [page EXCEPT !.picks[j.kind] = j.picks] /\ due' = Queries
    /\ UNCHANGED <<table, seen, picked, rough, acts>>

------------------------------------------------------------------------------
Init ==
    /\ table = [Empty EXCEPT !.rows = [i \in Ids |-> IF i \in There THEN "x" ELSE ""]]
    /\ seen = Empty /\ due = Queries
    /\ page = [sel |-> [k \in Kinds |-> Nobody], begun |-> [k \in Kinds |-> FALSE],
               draft |-> [k \in Kinds |-> Blank],
               picks |-> [k \in Linked |-> {}]]
    /\ jobs = {} /\ picked = [p \in Agents \cup Teams |-> {}]
    /\ rough \in BOOLEAN /\ acts = 0

Act ==
    \/ \E k \in Kinds : \/ StartBlank(k) \/ ResetForm(k) \/ Save(k) \/ Delete(k)
                        \/ \E i \in OfKind(k) : Choose(k, i)
                        \/ \E x \in Texts : Type(k, x)
    \/ \E k \in Linked, s \in Skills : TogglePick(k, s)
    \/ \E t \in Teams : ChooseTeamOfTree(t)
    \/ \E t \in Teams \cup {Nobody}, a \in Agents : ChooseAgentOfTree(t, a)
    \/ \E f \in Facts, op \in {"set", "unset"} : 
          ChangeMembership(f, op) \/ ChangeScope(f, op) \/ ChangePolicy(f, op)
    \/ \E as \in SUBSET Agents : Bind(as)

Serve(j) ==
    \/ WriteRow(j) \/ WriteFails(j) \/ WriteFact(j)
    \/ \E a \in Agents : BindClear(j, a) \/ BindInsert(j, a)
    \/ \E l \in j.todo : Unlink(j, l)
    \/ \E s \in Skills : Link(j, s)
    \/ LinkFails(j)

Follow(j) == Saved(j) \/ Deleted(j) \/ Changed(j) \/ LinksDone(j)

Next ==
    \/ Act
    \/ \E j \in jobs : Serve(j) \/ Follow(j)
    \/ \E q \in Queries : Fetch(q) \/ FetchFails(q)

Spec == Init /\ [][Next]_vars

------------------------------------------------------------------------------
(* Properties *)

TypeOK ==
    /\ \A tb \in {table, seen} :
          /\ tb.rows \in [Ids -> Texts \cup {""}]
          /\ tb.links \subseteq (Agents \cup Teams) \X Skills \X Stamps
          /\ tb.facts \subseteq Facts /\ tb.bound \in [Agents -> Nat]
    /\ \A l, m \in table.links : <<l[1], l[2]>> = <<m[1], m[2]>> => l = m
    /\ due \subseteq Queries
    /\ \A k \in Kinds : page.sel[k] \in OfKind(k) \cup {Nobody}
                      /\ page.draft[k].of \in OfKind(k) \cup {Nobody}
    /\ \A j \in jobs : j.at \in {"out", "refetch", "links"}

\* An update carries the form that was seeded from the row it updates, however
\* the person hurries and whatever is removed meanwhile: no agent, team or
\* skill is overwritten with another's form.
OwnForm == \A j \in jobs : j.op = "update" => j.form.of = j.id

\* For a person who waits, when everything has come to rest an agent and a team
\* have exactly the skills that were picked when they were saved, but for those
\* that were removed since, although the form is seeded again in the middle of
\* the save.
SkillsAsPicked ==
    ~ rough /\ Quiet => \A p \in Agents \cup Teams : SkillsOf(table, p) = picked[p]

\* For the same person an agent has one primary model binding at most, although
\* many agents are bound at once and a binding is two statements.
OnePrimary == ~ rough /\ Quiet => \A a \in Agents : table.bound[a] <= 1
==============================================================================
