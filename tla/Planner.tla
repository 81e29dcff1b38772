------------------------------- MODULE Planner -------------------------------
(***************************************************************************)
(* The planner: one page of the desktop application, the planner sessions  *)
(* its backend keeps, and the calls between them.                          *)
(*                                                                         *)
(* A session stages a design: the root node of one product and the nodes   *)
(* the conversation adds to it.  Applying the design creates the nodes in  *)
(* the catalog.  The page keeps a copy of what the last answer said of the *)
(* session, and every handler of the page is a function of the page as it  *)
(* was rendered, while answers come whenever they come.                    *)
(*                                                                         *)
(* A call of the page is a record in calls: it is out, then the backend    *)
(* has read the session (a turn works on a clone and writes it back when   *)
(* the model has answered), then it is back with an answer the page has    *)
(* not handled yet.  live is FALSE once the page that sent it has gone, or *)
(* an effect's cleanup has cancelled it.                                   *)
(***************************************************************************)
EXTENDS Integers

CONSTANTS
    Products, Nodes,  \* products of the catalog, nodes a conversation may stage
    Sessions,         \* planner session ids, a bound on how many are opened
    None,
    First,            \* products that may be selected at the start
    MaxActs           \* bound on the calls a person sets off and on the changes
                      \* of page, product, view and node, by rough

VARIABLES
    opened,           \* session ids handed out
    staged,           \* per session: the staged design, {} for none
    asked,            \* per session: a plan waits for a confirmation
    catalog,          \* per node: how often a row was created for it
    page,             \* the state of the planner page
    calls,            \* calls under way
    mics,             \* microphone captures that hold the device
    rough,            \* FALSE: the person waits for answers before going on, and
                      \* neither a commit nor a dismissal fails in the backend
    acts

vars == <<opened, staged, asked, catalog, page, calls, mics, rough, acts>>

Ids == 1 .. 4
Views == {"conversation", "draft", "trace"}
Turns == {"text", "voice", "edit", "repo"}
Kinds == Turns \cup {"open", "confirm", "clear", "mic", "stt"}
NoAnswer == [status |-> "none", tree |-> {}, sel |-> None, plan |-> FALSE]

\* A freshly mounted page that shows product p.
Fresh(p) == [up |-> TRUE, product |-> p, model |-> FALSE, session |-> None,
             tree |-> {}, sel |-> None, plan |-> FALSE, view |-> "conversation",
             trace |-> FALSE, on |-> FALSE, heard |-> FALSE,
             sending |-> FALSE]

------------------------------------------------------------------------------
(* Calls and the busy flag *)

Lowest(S) == {i \in S : \A j \in S : i <= j}
FreeIds == Ids \ {c.id : c \in calls}
Call(i, k, w) == [id |-> i, kind |-> k, say |-> w, s |-> page.session,
                  p |-> page.product, sel |-> page.sel, at |-> "out",
                  snap |-> {}, plan |-> FALSE, live |-> TRUE, ans |-> NoAnswer]

Mine(kinds) == {c \in calls : c.live /\ c.kind \in kinds}

\* Variant: a busy flag that forgets the analysis of a repository.
BusyWithoutRepo == Mine({"text", "edit", "stt"}) # {} \/ page.sending

\* isPlannerBusy: a text turn, an edit, a transcription or an analysis is
\* pending, or a voice turn is being submitted.
Busy == Mine({"text", "edit", "stt", "repo"}) # {} \/ page.sending

\* A person who is not in a hurry acts when nothing is under way.
Calm == rough \/ (calls = {} /\ ~ page.sending)

Dead(cs) == {[c EXCEPT !.live = FALSE] : c \in cs}

\* The effect that opens a session, run again when the page's session or
\* model changed: the creation under way is cancelled, and a page without a
\* session starts another.
Ensured(pg, cs) ==
    LET opens == {c \in cs : c.live /\ c.kind = "open"}
        rest  == (cs \ opens) \cup Dead(opens)
        free  == Ids \ {c.id : c \in rest}
    IN  IF pg.session # None THEN rest
        ELSE rest \cup {[Call(i, "open", "") EXCEPT !.s = None, !.p = None, !.sel = None]
                         : i \in Lowest(free)}

Goes == acts < MaxActs[rough] /\ acts' = acts + 1

Send(k, w) ==
    /\ Goes /\ \E i, j \in FreeIds : i # j
    /\ calls' = calls \cup {Call(i, k, w) : i \in Lowest(FreeIds)}

------------------------------------------------------------------------------
(* What the page offers: the controls its components render and enable *)

\* Composer: the send button, the microphone and clear.  Its apply only fills in
\* the word "confirm", for the send button.
ComposerOffers(act) ==
    /\ page.view # "trace"
    /\ CASE act = "send"    -> page.product # None /\ ~ Busy
         [] act = "mic"     -> page.product # None /\ ~ page.heard /\ ~ page.sending
                               /\ Mine({"stt"}) = {}
         [] act = "dismiss" -> IF page.tree # {} THEN ~ Busy ELSE page.plan

\* Cards of the conversation: the proposal's buttons, clear even while busy.
ProposalOffers(act) ==
    /\ page.view = "conversation" /\ (page.plan \/ page.tree # {})
    /\ act \in {"confirm", "dismiss"} /\ (act = "confirm" => ~ Busy)

VoiceCardOffers == page.view = "conversation" /\ page.heard /\ ~ Busy

\* Side panel and node card of the design review.
DesignOffers(act) ==
    /\ page.view = "draft"
    /\ CASE act = "confirm" -> page.tree # {} /\ ~ Busy
         [] act = "dismiss" -> page.tree # {}
         [] act \in {"rename", "add", "delete"} -> page.sel \in page.tree /\ ~ Busy
         [] act = "back" -> TRUE

HeaderOffers(view) ==
    CASE view = "conversation" -> TRUE
      [] view = "draft" -> page.tree # {}
      [] view = "trace" -> page.trace

RepositoryOffers == page.product # None /\ ~ Busy /\ page.model

------------------------------------------------------------------------------
(* The page's own handlers *)

Stays == UNCHANGED <<opened, staged, asked, catalog, rough>>

\* send: a typed message, which may be a word of confirmation.
SendText(w) ==
    /\ page.up /\ Calm /\ ComposerOffers("send")
    /\ Send("text", w)
    /\ UNCHANGED <<page, mics>> /\ Stays

\* renameSelectedDraftNode, addChildToSelectedDraftNode and
\* deleteSelectedDraftNode.
EditDraft(op) ==
    /\ page.up /\ Calm /\ DesignOffers(op)
    /\ op = "add" => page.sel \in Products
    /\ page.session # None
    /\ Send("edit", op)
    /\ UNCHANGED <<page, mics>> /\ Stays

\* analyzeSelectedRepository
AnalyzeRepository ==
    /\ page.up /\ Calm /\ RepositoryOffers /\ page.session # None
    /\ Send("repo", "other")
    /\ UNCHANGED <<page, mics>> /\ Stays

\* confirmPendingPlan: no flag says that a confirmation is under way.
ConfirmPlan ==
    /\ page.up /\ Calm
    /\ ProposalOffers("confirm") \/ DesignOffers("confirm")
    /\ page.plan \/ page.tree # {}
    /\ ~ Busy /\ page.session # None
    /\ Send("confirm", "confirm")
    /\ UNCHANGED <<page, mics>> /\ Stays

\* Variant: a dismissal that does not tell the backend.
DismissPlanHere ==
    /\ page.up /\ Calm
    /\ ComposerOffers("dismiss") \/ ProposalOffers("dismiss") \/ DesignOffers("dismiss")
    /\ page.plan \/ page.tree # {}
    /\ page' = [page EXCEPT !.plan = FALSE, !.tree = {}, !.sel = None,
                            !.view = "conversation"]
    /\ UNCHANGED <<calls, acts, mics>> /\ Stays

\* dismissPendingPlan: the backend is told, and nobody waits for the answer.
DismissPlan ==
    /\ page.up /\ Calm
    /\ ComposerOffers("dismiss") \/ ProposalOffers("dismiss") \/ DesignOffers("dismiss")
    /\ page.plan \/ page.tree # {}
    /\ IF page.session = None THEN UNCHANGED <<calls, acts>> ELSE Send("clear", "")
    /\ page' = [page EXCEPT !.plan = FALSE, !.tree = {}, !.sel = None,
                            !.view = "conversation"]
    /\ UNCHANGED mics /\ Stays

SelectNode(n) ==
    /\ page.up /\ n \in page.tree /\ n # page.sel /\ page.view # "trace"
    /\ page' = [page EXCEPT !.sel = n]
    /\ Goes
    /\ UNCHANGED <<calls, mics>> /\ Stays

ShowView(view) ==
    /\ page.up /\ view # page.view
    /\ HeaderOffers(view) \/ (view = "conversation" /\ DesignOffers("back"))
    /\ page' = [page EXCEPT !.view = view]
    /\ Goes
    /\ UNCHANGED <<calls, mics>> /\ Stays

------------------------------------------------------------------------------
(* Life of the page *)

\* Providers and models have loaded: the defaults are chosen.
ChooseModel ==
    /\ page.up /\ ~ page.model
    /\ page' = [page EXCEPT !.model = TRUE]
    /\ calls' = Ensured(page', calls)
    /\ UNCHANGED <<mics, acts>> /\ Stays

\* Another product is selected: what the page showed of the session goes, and
\* the session with it, unless there was neither a product nor anything shown.
SwitchProduct(p) ==
    /\ page.up /\ Calm /\ p # page.product /\ Goes
    /\ IF page.product = None /\ page.session = None /\ page.tree = {} /\ ~ page.plan
       THEN /\ page' = [page EXCEPT !.product = p]
            /\ UNCHANGED calls
       ELSE /\ page' = [page EXCEPT !.product = p, !.session = None, !.tree = {},
                                    !.sel = None, !.plan = FALSE, !.trace = FALSE,
                                    !.view = "conversation"]
            /\ calls' = IF page.session = None THEN calls ELSE Ensured(page', calls)
    /\ UNCHANGED mics /\ Stays

\* Variant: leaving releases a capture even when there is none.
LeavePageReleasing ==
    /\ page.up /\ Calm /\ Goes
    /\ page' = [Fresh(page.product) EXCEPT !.up = FALSE]
    /\ mics' = mics - 1
    /\ calls' = Dead(calls)
    /\ Stays

\* Variant: leaving keeps the capture running.
LeavePageListening ==
    /\ page.up /\ Calm /\ Goes
    /\ page' = [Fresh(page.product) EXCEPT !.up = FALSE]
    /\ calls' = Dead(calls)
    /\ UNCHANGED mics /\ Stays

\* The person leaves the page: its state is gone, the capture it knows of is
\* stopped, and the answers of its calls find nobody.
LeavePage ==
    /\ page.up /\ Calm /\ Goes
    /\ page' = [Fresh(page.product) EXCEPT !.up = FALSE]
    /\ mics' = IF page.on THEN mics - 1 ELSE mics
    /\ calls' = Dead(calls)
    /\ Stays

OpenPage ==
    /\ ~ page.up
    /\ page' = Fresh(page.product)
    /\ calls' = Ensured(page', calls)
    /\ UNCHANGED <<mics, acts>> /\ Stays

------------------------------------------------------------------------------
(* Voice *)

\* toggleListening when the page is not listening: the microphone is asked for.
StartListening ==
    /\ page.up /\ Calm /\ ComposerOffers("mic") /\ ~ page.on
    /\ Send("mic", "")
    /\ UNCHANGED <<page, mics>> /\ Stays

\* The microphone is granted, or refused.
MicGranted(c) ==
    /\ c.kind = "mic" /\ mics' = mics + 1
    /\ calls' = calls \ {c}
    /\ page' = IF c.live THEN [page EXCEPT !.on = TRUE, !.heard = FALSE] ELSE page
    /\ UNCHANGED acts /\ Stays

MicRefused(c) ==
    /\ c.kind = "mic"
    /\ calls' = calls \ {c}
    /\ page' = IF c.live THEN [page EXCEPT !.on = FALSE, !.heard = FALSE] ELSE page
    /\ UNCHANGED <<mics, acts>> /\ Stays

\* stopVoiceCapture: the capture is released and what it heard is transcribed.
StopListening ==
    /\ page.up /\ page.on /\ ComposerOffers("mic")
    /\ Send("stt", "")
    /\ mics' = mics - 1
    /\ page' = [page EXCEPT !.on = FALSE]
    /\ Stays

\* Nothing was recognized, or the transcription failed.
NotHeard(c) ==
    /\ c.kind = "stt" /\ calls' = calls \ {c}
    /\ page' = IF c.live THEN [page EXCEPT !.heard = FALSE, !.sending = FALSE] ELSE page
    /\ UNCHANGED <<mics, acts>> /\ Stays

\* The transcript waits for a review.  Without the review it is handed to
\* submitVoiceTranscript at once, which still sees the busy flag of the last
\* rendering, set by the transcription itself: it is dropped.
Heard(c) ==
    /\ c.kind = "stt" /\ calls' = calls \ {c}
    /\ page' \in IF c.live THEN {[page EXCEPT !.heard = TRUE], page} ELSE {page}
    /\ UNCHANGED <<mics, acts>> /\ Stays

\* submitPendingVoiceTranscript: a voice turn, with the flag up until its end.
SubmitVoice(w) ==
    /\ page.up /\ Calm /\ VoiceCardOffers /\ page.product # None
    /\ Send("voice", w)
    /\ page' = [page EXCEPT !.sending = TRUE]
    /\ UNCHANGED mics /\ Stays

\* A transcript that names a view is carried out by the page alone.
SpeakView(view) ==
    /\ page.up /\ VoiceCardOffers
    /\ page' = [page EXCEPT !.heard = FALSE,
                            !.view = IF HeaderOffers(view) THEN view ELSE page.view]
    /\ UNCHANGED <<calls, mics, acts>> /\ Stays

\* clearPendingVoiceReview, and the retry that starts listening again.
CancelVoice ==
    /\ page.up /\ VoiceCardOffers
    /\ page' = [page EXCEPT !.heard = FALSE]
    /\ UNCHANGED <<calls, mics, acts>> /\ Stays

RetryVoice ==
    /\ page.up /\ Calm /\ VoiceCardOffers
    /\ Send("mic", "")
    /\ page' = [page EXCEPT !.heard = FALSE]
    /\ UNCHANGED mics /\ Stays

------------------------------------------------------------------------------
(* The backend *)

\* create_planner_session for the page's effect.
OpenSession(c) ==
    /\ c.kind = "open" /\ c.at = "out"
    /\ \E s \in Lowest(Sessions \ opened) :
          /\ opened' = opened \cup {s}
          /\ calls' = (calls \ {c}) \cup {[c EXCEPT !.at = "back", !.s = s]}
    /\ UNCHANGED <<staged, asked, catalog, page, mics, rough, acts>>

\* A turn sent without a session opens one of its own and gives it to the page.
OpenForTurn(c) ==
    /\ c.kind \in {"text", "voice"} /\ c.at = "out" /\ c.s = None
    /\ \E s \in Lowest(Sessions \ opened) :
          /\ opened' = opened \cup {s}
          /\ page' = IF c.live THEN [page EXCEPT !.session = s] ELSE page
          /\ LET cs == (calls \ {c}) \cup {[c EXCEPT !.s = s]}
             IN  calls' = IF c.live THEN Ensured(page', cs) ELSE cs
    /\ UNCHANGED <<staged, asked, catalog, mics, rough, acts>>

\* get_or_load_session: a turn goes on with a clone of the session.
ReadSession(c) ==
    /\ c.kind \in Turns \cup {"confirm"} /\ c.at \in {"out", "again"} /\ c.s # None
    /\ calls' = (calls \ {c})
                \cup {[c EXCEPT !.at = IF c.kind = "voice" /\ c.at = "out" THEN "heard" ELSE "read",
                                !.snap = staged[c.s], !.plan = asked[c.s]]}
    /\ UNCHANGED <<opened, staged, asked, catalog, page, mics, rough, acts>>

\* seed_draft_with_product: another product's design is replaced.
Seeded(draft, p) == IF p \in draft THEN draft ELSE {p}

Answer(c, st, tree, sel, plan) ==
    calls' = (calls \ {c})
             \cup {[c EXCEPT !.at = "back", !.snap = {}, !.plan = FALSE,
                             !.ans = [status |-> st, tree |-> tree, sel |-> sel, plan |-> plan]]}

Save(c, draft, plan) ==
    /\ staged' = [staged EXCEPT ![c.s] = draft]
    /\ asked' = [asked EXCEPT ![c.s] = plan]

\* submit_planner_voice_turn: a selection the session does not have is saved with
\* the clone.  The clone serves a command; otherwise submit_planner_turn reads the
\* session again.
RouteVoice(c) ==
    /\ c.kind = "voice" /\ c.at = "heard"
    /\ calls' = (calls \ {c})
                \cup {IF c.say \in {"clear", "select"} THEN [c EXCEPT !.at = "read"]
                      ELSE [c EXCEPT !.at = "again", !.snap = {}, !.plan = FALSE]}
    /\ Save(c, c.snap, c.plan) \/ UNCHANGED <<staged, asked>>
    /\ UNCHANGED <<opened, catalog, page, mics, rough, acts>>

Confirms(c) == c.say = "confirm" /\ c.snap # {}
Passed(c) == IF c.kind = "text" THEN c.sel ELSE None    \* confirm_planner_plan passes no node

\* Variant: a commit that leaves the design staged.
CommitKeeping(c) ==
    /\ c.at = "read" /\ c.kind \in {"text", "voice", "confirm"} /\ Confirms(c)
    /\ catalog' = [n \in Nodes |-> IF n \in c.snap THEN catalog[n] + 1 ELSE catalog[n]]
    /\ Answer(c, "execution", {}, None, FALSE)
    /\ UNCHANGED <<opened, staged, asked, page, mics, rough, acts>>

\* commit_confirmed_draft_plan: the rows of the design are created one by one,
\* and the session is cleared at the end.
Commit(c) ==
    /\ c.at = "read" /\ c.kind \in {"text", "voice", "confirm"} /\ Confirms(c)
    /\ catalog' = [n \in Nodes |-> IF n \in c.snap THEN catalog[n] + 1 ELSE catalog[n]]
    /\ Save(c, {}, FALSE)
    /\ Answer(c, "execution", {}, None, FALSE)
    /\ UNCHANGED <<opened, page, mics, rough, acts>>

\* A row could not be created: the rows before it stay, and so does the design.
CommitFailed(c) ==
    /\ rough /\ c.at = "read" /\ c.kind \in {"text", "voice", "confirm"} /\ Confirms(c)
    /\ \E done \in SUBSET (c.snap \cap Nodes) :
          catalog' = [n \in Nodes |-> IF n \in done THEN catalog[n] + 1 ELSE catalog[n]]
    /\ Answer(c, "error", c.snap, Passed(c), c.plan)
    /\ UNCHANGED <<opened, staged, asked, page, mics, rough, acts>>

\* confirm_planner_plan passes no product: without a design the answer asks for one.
NothingToConfirm(c) ==
    /\ c.at = "read" /\ c.snap = {}
    /\ c.kind = "confirm" \/ (c.kind = "voice" /\ c.say = "confirm")
    /\ Answer(c, "clarification", {}, Passed(c), c.plan)
    /\ UNCHANGED <<opened, staged, asked, catalog, page, mics, rough, acts>>

\* A node no conversation has staged yet.
Unused == Lowest({n \in Nodes : catalog[n] = 0 /\ \A s \in Sessions : n \notin staged[s]
                         /\ \A c \in calls : n \notin c.snap \cup c.ans.tree})

Plans(c) == c.at = "read" /\ c.kind \in {"text", "voice"} /\ ~ Confirms(c) /\ c.p # None
            /\ ~ (c.kind = "voice" /\ c.say \in {"confirm", "clear", "select"})
Chosen(c) == IF c.sel = None THEN c.p ELSE c.sel

\* A turn whose plan adds to the design.
PlanDesigns(c) ==
    /\ Plans(c)
    /\ \E n \in Unused : LET draft == Seeded(c.snap, c.p) \cup {n}
                         IN  Save(c, draft, TRUE) /\ Answer(c, "proposal", draft, Chosen(c), TRUE)
    /\ UNCHANGED <<opened, catalog, page, mics, rough, acts>>

\* A turn whose plan needs a confirmation but changes no design, a turn that
\* asks back, and one that is carried out at once.
PlanWaits(c) ==
    /\ Plans(c)
    /\ LET draft == Seeded(c.snap, c.p)
       IN  \/ Save(c, draft, TRUE) /\ Answer(c, "proposal", draft, Chosen(c), TRUE)
           \/ Save(c, draft, c.plan) /\ Answer(c, "clarification", draft, Chosen(c), c.plan)
           \/ Save(c, draft, FALSE) /\ Answer(c, "execution", draft, Chosen(c), FALSE)
    /\ UNCHANGED <<opened, catalog, page, mics, rough, acts>>

\* The model's tool loop failed: the answer shows the seeded design, the
\* session in memory keeps what it had.
PlanFails(c) ==
    /\ Plans(c)
    /\ Answer(c, "error", Seeded(c.snap, c.p), Chosen(c), c.plan)
    /\ UNCHANGED <<opened, staged, asked, catalog, page, mics, rough, acts>>

\* submit_planner_voice_turn: "clear draft" and "select ..." need no model.
VoiceCommand(c) ==
    /\ c.at = "read" /\ c.kind = "voice"
    /\ \/ /\ c.say = "clear"
          /\ Save(c, {}, FALSE) /\ Answer(c, "execution", {}, None, FALSE)
       \/ /\ c.say = "select"
          /\ Save(c, c.snap, c.plan)
          /\ \E n \in c.snap \cup {c.sel} : Answer(c, "session_update", c.snap, n, c.plan)
    /\ UNCHANGED <<opened, catalog, page, mics, rough, acts>>

\* analyze_repository_for_planner: a plan with actions is staged, one without
\* is answered with the seeded design and nothing is saved.
Analyze(c) ==
    /\ c.at = "read" /\ c.kind = "repo"
    /\ LET draft == Seeded(c.snap, c.p)
       IN  \/ \E n \in Unused : /\ Save(c, draft \cup {n}, TRUE)
                                /\ Answer(c, "proposal", draft \cup {n}, Chosen(c), TRUE)
           \/ /\ Answer(c, "clarification", draft, Chosen(c), TRUE)
              /\ UNCHANGED <<staged, asked>>
    /\ UNCHANGED <<opened, catalog, page, mics, rough, acts>>

\* rename, add and delete on the staged design; deleting the root leaves none.
Edit(c) ==
    /\ c.at = "read" /\ c.kind = "edit" /\ c.sel \in c.snap
    /\ \E draft \in SUBSET (c.snap \cup Unused), sel \in c.snap \cup Unused \cup {None} :
          /\ CASE c.say = "rename" -> draft = c.snap /\ sel = c.sel
               [] c.say = "add"    -> sel \in Unused /\ draft = c.snap \cup {sel}
               [] c.say = "delete" /\ c.sel \in Products -> draft = {} /\ sel = None
               [] OTHER -> draft = c.snap \ {c.sel} /\ sel \in c.snap \cap Products
          /\ Save(c, draft, FALSE) /\ Answer(c, "proposal", draft, sel, TRUE)
    /\ UNCHANGED <<opened, catalog, page, mics, rough, acts>>

\* The backend refuses the call, or the invocation fails; an added node is
\* refused when the bound Nodes is used up.
Refuse(c) ==
    /\ c.kind \notin {"mic", "stt"}
    /\ \/ c.at = "out"
       \/ c.at = "read" /\ c.kind = "edit" /\ (c.sel \notin c.snap \/ (c.say = "add" /\ Unused = {}))
    /\ c.kind = "clear" => rough
    /\ Answer(c, "refused", {}, None, FALSE)
    /\ UNCHANGED <<opened, staged, asked, catalog, page, mics, rough, acts>>

\* clear_planner_pending
ClearPending(c) ==
    /\ c.kind = "clear" /\ c.at = "out"
    /\ Save(c, {}, FALSE)
    /\ calls' = calls \ {c}
    /\ UNCHANGED <<opened, catalog, page, mics, rough, acts>>

------------------------------------------------------------------------------
(* Answers handled by the page *)

\* mapPlannerResponseToMutationResult
Mode(ans) ==
    CASE ans.status = "proposal" /\ ans.tree # {} -> "draft_updated"
      [] ans.status = "proposal" /\ ans.tree = {} -> "confirmation_required"
      [] ans.status = "session_update" -> "session_updated"
      [] ans.status = "error" -> "failed"
      [] ans.status = "execution" -> "executed"
      [] OTHER -> "clarification"

\* handlePlannerMutationSuccess: what an answer makes of the page.
Handled(pg, ans) ==
    LET mode == Mode(ans)
        gone == mode = "executed" /\ ans.tree = {}
    IN  [pg EXCEPT
            !.tree = IF ans.tree # {} THEN ans.tree ELSE IF gone THEN {} ELSE pg.tree,
            !.sel = IF gone THEN None ELSE ans.sel,
            !.plan = CASE mode = "confirmation_required" -> TRUE
                       [] mode = "session_updated" -> pg.plan
                       [] OTHER -> FALSE,
            !.view = IF mode = "failed" THEN "trace"
                     ELSE IF ans.tree # {} THEN "draft"
                     ELSE IF gone /\ pg.view = "draft" THEN "conversation" ELSE pg.view,
            !.trace = TRUE, !.heard = FALSE, !.sending = FALSE]

\* The end of a turn, an edit or an analysis.
HandleTurn(c) ==
    /\ c.kind \in Turns /\ c.at = "back" /\ c.ans.status # "refused"
    /\ calls' = calls \ {c}
    /\ page' = IF c.live THEN Handled(page, c.ans) ELSE page
    /\ UNCHANGED <<mics, acts>> /\ Stays

\* Variant: a refused voice turn that does not lower its flag.
HandleRefusedSending(c) ==
    /\ c.kind \in Turns /\ c.at = "back" /\ c.ans.status = "refused"
    /\ calls' = calls \ {c}
    /\ UNCHANGED <<page, mics, acts>> /\ Stays

\* onError of the mutations, and the catch and finally of a voice turn.
HandleRefused(c) ==
    /\ c.kind \in Turns /\ c.at = "back" /\ c.ans.status = "refused"
    /\ calls' = calls \ {c}
    /\ page' = IF c.live /\ c.kind \in {"text", "voice"}
               THEN [page EXCEPT !.heard = FALSE, !.sending = FALSE,
                                 !.trace = @ /\ c.kind = "voice"]
               ELSE page
    /\ UNCHANGED <<mics, acts>> /\ Stays

\* The end of a confirmation: whatever the answer says, unless the call was
\* refused, the page takes the design for applied and clears it.
HandleConfirm(c) ==
    /\ c.kind = "confirm" /\ c.at = "back"
    /\ calls' = calls \ {c}
    /\ page' = IF c.live /\ c.ans.status # "refused"
               THEN [page EXCEPT !.plan = FALSE, !.tree = {}, !.sel = None,
                                 !.view = "conversation", !.trace = TRUE]
               ELSE page
    /\ UNCHANGED <<mics, acts>> /\ Stays

\* The session the effect asked for arrives, unless it was cancelled.
HandleOpen(c) ==
    /\ c.kind = "open" /\ c.at = "back"
    /\ calls' = calls \ {c}
    /\ page' = IF c.live /\ c.ans.status # "refused" THEN [page EXCEPT !.session = c.s] ELSE page
    /\ UNCHANGED <<mics, acts>> /\ Stays

ClearRefused(c) ==
    /\ c.kind = "clear" /\ c.at = "back" /\ calls' = calls \ {c}
    /\ UNCHANGED <<page, mics, acts>> /\ Stays

------------------------------------------------------------------------------
Init ==
    /\ opened = {} /\ staged = [s \in Sessions |-> {}] /\ asked = [s \in Sessions |-> FALSE]
    /\ catalog = [n \in Nodes |-> 0]
    /\ \E p \in First : page = [Fresh(p) EXCEPT !.up = FALSE]
    /\ calls = {} /\ mics = 0 /\ rough \in BOOLEAN /\ acts = 0

\* The handlers the page's controller hands to its components.
Act ==
    \/ \E w \in {"other", "confirm"} : SendText(w)
    \/ \E op \in {"rename", "add", "delete"} : EditDraft(op)
    \/ AnalyzeRepository \/ ConfirmPlan \/ DismissPlan
    \/ \E n \in Products \cup Nodes : SelectNode(n)
    \/ \E view \in Views : ShowView(view)
    \/ StartListening \/ StopListening \/ CancelVoice \/ RetryVoice
    \/ \E w \in {"other", "confirm", "clear", "select"} : SubmitVoice(w)
    \/ \E view \in Views : SpeakView(view)
    \/ \E p \in Products \cup {None} : SwitchProduct(p)
    \/ LeavePage

Serve(c) ==
    \/ OpenSession(c) \/ OpenForTurn(c) \/ ReadSession(c) \/ RouteVoice(c)
    \/ Commit(c) \/ CommitFailed(c) \/ NothingToConfirm(c)
    \/ PlanDesigns(c) \/ PlanWaits(c) \/ PlanFails(c)
    \/ VoiceCommand(c) \/ Analyze(c) \/ Edit(c) \/ ClearPending(c) \/ Refuse(c)

Receive(c) ==
    \/ MicGranted(c) \/ MicRefused(c) \/ NotHeard(c) \/ Heard(c)
    \/ HandleTurn(c) \/ HandleRefused(c) \/ HandleConfirm(c) \/ HandleOpen(c)
    \/ ClearRefused(c)

Answered == \E c \in calls : Serve(c) \/ Receive(c)

Next == Act \/ ChooseModel \/ OpenPage \/ Answered

Unfair == Init /\ [][Next]_vars

\* Calls are answered and answers handled.  Nothing is assumed of the person.
Spec == Unfair /\ \A i \in Ids : WF_vars(\E c \in calls : c.id = i /\ (Serve(c) \/ Receive(c)))

------------------------------------------------------------------------------
(* Properties *)

TypeOK ==
    /\ opened \subseteq Sessions
    /\ staged \in [Sessions -> SUBSET (Products \cup Nodes)]
    /\ asked \in [Sessions -> BOOLEAN]
    /\ catalog \in [Nodes -> Nat]
    /\ page \in [up : BOOLEAN, product : Products \cup {None}, model : BOOLEAN,
                 session : Sessions \cup {None}, tree : SUBSET (Products \cup Nodes),
                 sel : Products \cup Nodes \cup {None}, plan : BOOLEAN, view : Views,
                 trace : BOOLEAN, on : BOOLEAN, heard : BOOLEAN, sending : BOOLEAN]
    /\ \A c \in calls : c.id \in Ids /\ c.kind \in Kinds /\ c.at \in {"out", "heard", "again", "read", "back"}
    /\ \A c, d \in calls : c.id = d.id => c = d
    /\ mics \in Nat

\* The five flags that make isPlannerBusy keep the turns of one page apart:
\* two of them never work on clones of the same session, however the person
\* hurries, so that no turn writes over the design of another.
OneTurn ==
    \A c, d \in calls : c.kind \in Turns /\ d.kind \in Turns /\ c.live /\ d.live => c = d

\* For a person who waits for answers, a design the session holds is the one
\* the page shows: nothing is staged that a later turn would bring back, and
\* nothing is applied that was not seen.
NothingHidden ==
    ~ rough /\ calls = {} /\ page.up /\ page.session # None =>
        staged[page.session] \in {{}, page.tree}

\* For the same person every staged node becomes a row once.
AppliedOnce == ~ rough => \A n \in Nodes : catalog[n] <= 1

\* The same person's microphone is held only while the page is listening.
MicReleased == ~ rough => mics = (IF page.on THEN 1 ELSE 0)

\* The page always comes to rest: the busy flags are lowered again.
Settles == Busy ~> ~ Busy
==============================================================================
