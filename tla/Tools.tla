-------------------------------- MODULE Tools --------------------------------
(***************************************************************************)
(* What works with a model: the planner, the IDE, the two chats, and the   *)
(* companion application on the phone.  A behaviour shows one of them;     *)
(* what it does not have stays as it was at the start.                     *)
(***************************************************************************)
EXTENDS Integers, FiniteSets

CONSTANTS
    Products, First, Nothing,
    Nodes, Sessions, Preselected,                    \* the planner's
    Picked, There, Own, Files, OnDisk, MaxRows,      \* the IDE's
    Models,                                          \* the phone's
    PlannerActs, IdeActs, ChatActs, PhoneActs

\* Products that may be selected when a page opens are products, or none.
ASSUME ChosenProducts == Preselected \subseteq Products \cup {Nothing}

\* The ids of the planner: no session and no node is taken for none, and a
\* product is no node of a plan.
ASSUME PlannerConstants == Nothing \notin Sessions \cup Nodes /\ Products \cap Nodes = {}

\* The phone shows the first of the products that are listed, and the list of
\* speech models it can load comes with the application: it is not empty.
ASSUME PhoneConstants == /\ First \in Products /\ Nothing \notin Products
                         /\ Models # {} /\ Nothing \notin Models

\* The IDE starts with a folder for the first product, one a person picked.
ASSUME IdeConstants == First \in Products /\ There \in Picked

VARIABLES page, rough, acts, shown,
          opened, staged, asked, catalog, calls, mics,   \* the planner's
          seen, due,                                     \* the IDE's
          table,                                         \* the IDE's and the phone's
          jobs                                           \* of all but the planner

planned == <<opened, staged, asked, catalog, calls, mics>>
stored == <<table, seen, due>>
vars == <<page, rough, acts, shown, planned, stored, jobs>>

------------------------------------------------------------------------------
Planner == INSTANCE Planner WITH First <- Preselected, None <- Nothing, MaxActs <- PlannerActs

Ide == INSTANCE Ide WITH Seeded <- OnDisk, MaxActs <- IdeActs

Chat == INSTANCE Chat WITH MaxActs <- ChatActs

Phone == INSTANCE Phone WITH None <- Nothing, MaxActs <- PhoneActs

------------------------------------------------------------------------------
Unplanned == /\ opened = {} /\ staged = {} /\ asked = {} /\ catalog = {} /\ calls = {} /\ mics = 0
Unqueried == seen = {} /\ due = {}

Init ==
    \/ shown = "planner" /\ Planner!Init /\ Unqueried /\ table = {} /\ jobs = {}
    \/ shown = "ide" /\ Ide!Init /\ Unplanned
    \/ shown = "chat" /\ Chat!Init /\ Unplanned /\ Unqueried /\ table = {}
    \/ shown = "phone" /\ Phone!Init /\ Unplanned /\ Unqueried

Next ==
    \/ shown = "planner" /\ Planner!Next /\ UNCHANGED <<shown, stored, jobs>>
    \/ shown = "ide" /\ Ide!Next /\ UNCHANGED <<shown, planned>>
    \/ shown = "chat" /\ Chat!Next /\ UNCHANGED <<shown, planned, stored>>
    \/ shown = "phone" /\ Phone!Next /\ UNCHANGED <<shown, planned, seen, due>>

\* Each page's own fairness: calls are answered and the answers handled, starts
\* of streams are answered and timers fire.
Answers(i) ==
    \/ /\ shown = "planner"
       /\ \E c \in calls : c.id = i /\ (Planner!Serve(c) \/ Planner!Receive(c))
       /\ UNCHANGED <<shown, stored, jobs>>
    \/ /\ shown = "ide"
       /\ \E j \in jobs : j.n = i /\ (Ide!StreamStarted(j) \/ Ide!Timer(j))
       /\ UNCHANGED <<shown, planned>>
    \/ /\ shown = "chat"
       /\ \E j \in jobs : j.n = i /\ (Chat!Started(j) \/ Chat!Timer(j))
       /\ UNCHANGED <<shown, planned, stored>>

Unfair == Init /\ [][Next]_vars
Spec == Unfair /\ \A i \in 1 .. 4 : WF_vars(Answers(i))

------------------------------------------------------------------------------
(* The properties of the four modules *)

\* Every page keeps its own types.
TypeOK ==
    CASE shown = "planner" -> Planner!TypeOK
      [] shown = "ide" -> Ide!TypeOK
      [] shown = "chat" -> Chat!TypeOK
      [] shown = "phone" -> Phone!TypeOK

\* Two turns of a planner page never work on the same session; the phone has
\* one prompt under way at most.
OneTurn ==
    /\ shown = "planner" => Planner!OneTurn
    /\ shown = "phone" => Phone!OneTurn

\* What a session stages is what the page shows.
NothingHidden == shown = "planner" => Planner!NothingHidden

\* A staged node becomes a row once.
AppliedOnce == shown = "planner" => Planner!AppliedOnce

\* The planner's microphone is held only while the page is listening.
MicReleased == shown = "planner" => Planner!MicReleased

\* A file without the mark of unsaved text is on the disk as it is shown, and a
\* speech model that is listed is on the phone.
FilesAsShown ==
    /\ shown = "ide" => Ide!CleanIsSaved
    /\ shown = "phone" => Phone!ModelsThere

\* A proposal is shown under the product it was asked for.
OwnProposal == shown = "ide" => Ide!OwnProposal

\* The workspace that is shown is the product's, the node a prompt is about is
\* one of the product it names, and the address shown as connected is the one
\* that answered.
OwnContext ==
    /\ shown = "ide" => Ide!OwnWorkspace
    /\ shown = "phone" => Phone!OwnContext /\ Phone!StatusOfAddress

\* For a person who waits the chats have one capture open at most, counting
\* what a page that was left still does, and none while they speak, nor does
\* the phone of a person who waits for its microphone record what it reads
\* out; for any person a visit of the voice page has one capture of its own.
HalfDuplex ==
    /\ shown = "chat" => Chat!HalfDuplex
    /\ shown = "phone" => Phone!HalfDuplex

\* No page stays busy for ever.
Working ==
    CASE shown = "planner" -> Planner!Busy
      [] shown = "ide" -> page.sending
      [] shown = "chat" -> page.kind = "direct" /\ page.sending
      [] OTHER -> FALSE
Settles == Working ~> ~ Working
=============================================================================
