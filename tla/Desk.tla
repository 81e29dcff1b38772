--------------------------------- MODULE Desk ---------------------------------
(***************************************************************************)
(* The three pages that keep the tables of the application - the registry  *)
(* of agents, teams and skills, the catalog of products, and the work      *)
(* items - and the tasks that fill them in the background, runs of a tool  *)
(* on a work item or an import.  A behaviour shows one of them; what they  *)
(* hold has the same parts and is kept in the same variables.              *)
(***************************************************************************)
EXTENDS Integers, FiniteSets

CONSTANTS
    Nobody,
    Agents, Teams, Skills, Facts, About, FactSort, There,    \* the registry's
    RowIds, RowSort, StartRows,                              \* the catalog's
    Items, StartItems, PageSize, MaxRuns,                    \* of the work items
    Procs, ToolRuns, Imports, Chunks,                        \* the background's
    RegistryActs, CatalogActs, ItemActs, ToolActs, ImportActs

\* Rows of different tables are told apart by their ids.
ASSUME RegistryIds ==
    /\ Agents \cap Teams = {} /\ Agents \cap Skills = {} /\ Teams \cap Skills = {}
    /\ Nobody \notin Agents \cup Teams \cup Skills
    /\ There \subseteq Agents \cup Teams \cup Skills
    /\ About \in [Facts -> SUBSET (Agents \cup Teams)]

\* Items are numbered from 1, in the order they are created.
ASSUME ItemNumbers == /\ Items \subseteq Nat \ {0} /\ 1 \in Items /\ StartItems \in Nat \ {0}
                      /\ MaxRuns \in Nat

ASSUME BackgroundIds == ToolRuns \cap Imports = {} /\ Chunks \in Nat

VARIABLES table, seen, due, page, jobs, log, rough, acts, procs, shown

vars == <<table, seen, due, page, jobs, log, rough, acts, procs, shown>>

------------------------------------------------------------------------------
Registry == INSTANCE Registry WITH
    Sort <- FactSort, picked <- log, MaxActs <- RegistryActs

Catalog == INSTANCE Catalog WITH
    Ids <- RowIds, Sort <- RowSort, Start <- StartRows, MaxActs <- CatalogActs

\* A catalog at the start is one that the page can be opened on.
ASSUME RowTable ==
    /\ Nobody \notin RowIds /\ Catalog!Top \notin RowIds /\ Nobody # Catalog!Top
    /\ RowSort \in [RowIds -> {"product", "area", "capability", "feature", "story", "task"}]
    /\ Catalog!Shape(StartRows)

WorkItems == INSTANCE WorkItems WITH Start <- StartItems, MaxActs <- ItemActs

Tool == INSTANCE Background WITH
    Runs <- ToolRuns, Imports <- {}, First <- Nobody, MaxActs <- ToolActs

Import == INSTANCE Background WITH Runs <- {}, First <- Nobody, MaxActs <- ImportActs

------------------------------------------------------------------------------
NoPage == seen = {} /\ due = {} /\ page = {}

Init ==
    \/ shown = "registry" /\ Registry!Init /\ procs = {}
    \/ shown = "catalog" /\ Catalog!Init /\ procs = {}
    \/ shown = "work items" /\ WorkItems!Init /\ procs = {}
    \/ shown = "tool" /\ Tool!Init /\ NoPage
    \/ shown = "import" /\ Import!Init /\ NoPage

Next ==
    \/ shown = "registry" /\ Registry!Next /\ UNCHANGED <<shown, procs>>
    \/ shown = "catalog" /\ Catalog!Next /\ UNCHANGED <<shown, procs>>
    \/ shown = "work items" /\ WorkItems!Next /\ UNCHANGED <<shown, procs>>
    \/ shown = "tool" /\ Tool!Next /\ UNCHANGED <<shown, seen, due, page>>
    \/ shown = "import" /\ Import!Next /\ UNCHANGED <<shown, seen, due, page>>

Spec == Init /\ [][Next]_vars

------------------------------------------------------------------------------
(* The properties of the modules *)

\* Every page, and the background, keeps its own types.
TypeOK ==
    CASE shown = "registry" -> Registry!TypeOK
      [] shown = "catalog" -> Catalog!TypeOK
      [] shown = "work items" -> WorkItems!TypeOK
      [] shown = "tool" -> Tool!TypeOK
      [] shown = "import" -> Import!TypeOK

\* An edit is saved with the form of the row it is saved to, on each page.
OwnForm ==
    /\ shown = "registry" => Registry!OwnForm
    /\ shown = "catalog" => Catalog!OwnForm
    /\ shown = "work items" => WorkItems!OwnDraft

\* A new row goes under the one its dialog was opened for.
UnderOpened ==
    /\ shown = "catalog" => Catalog!UnderOpened
    /\ shown = "work items" => WorkItems!UnderOpened

\* The links of agents and teams are those that were picked, and an agent has
\* one primary model binding at most.
LinksAsPicked == shown = "registry" => Registry!SkillsAsPicked /\ Registry!OnePrimary

\* The trees and lists on the screen are those of the database.
FreshTree == shown = "catalog" => Catalog!FreshTree

\* A decision about a workflow goes to a run of the item that is shown.
OwnRun == shown = "work items" => WorkItems!OwnRun

\* The rows of what runs in the background report what it does.
AsReported ==
    /\ shown = "tool" => Tool!AsReported
    /\ shown = "import" => Import!AsReported
=============================================================================
