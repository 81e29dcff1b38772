---------------------------- MODULE PlannerProofs ----------------------------
(***************************************************************************)
(* Theorems about the planner page, for any products, nodes and sessions   *)
(* and however the person hurries.                                         *)
(*                                                                         *)
(* TypeInv carries type correctness: a call is a record whose parts are    *)
(* there, no two calls have the same id, and a page that listens holds a   *)
(* microphone.  Apart, on top of it, carries OneTurn: the calls of a page  *)
(* that is gone are dead, a voice turn keeps its flag up, and nothing is   *)
(* transcribed while that flag is up.                                      *)
(*                                                                         *)
(* Held, Shown and Waiting are about a person who waits for answers: the   *)
(* microphone, what the session stages next to what the page shows of it,  *)
(* and what waits in the sessions next to the rows that were created.      *)
(***************************************************************************)
EXTENDS Planner, TLAPS

Named == Products \cup Nodes
Words == {"", "other", "confirm", "clear", "select", "rename", "add", "delete"}

Answers == [status : {"none", "proposal", "session_update", "error", "execution",
                      "clarification", "refused"},
            tree : SUBSET Named, sel : Named \cup {None}, plan : BOOLEAN]

\* An analysis is about a product.
CallRec == {c \in [id : Ids, kind : Kinds, say : Words, s : Sessions \cup {None},
                   p : Products \cup {None}, sel : Named \cup {None},
                   at : {"out", "heard", "again", "read", "back"}, snap : SUBSET Named, plan : BOOLEAN,
                   live : BOOLEAN, ans : Answers] :
               c.kind = "repo" => c.p # None}

PageRec == [up : BOOLEAN, product : Products \cup {None}, model : BOOLEAN,
            session : Sessions \cup {None}, tree : SUBSET Named,
            sel : Named \cup {None}, plan : BOOLEAN, view : Views,
            trace : BOOLEAN, on : BOOLEAN, heard : BOOLEAN, sending : BOOLEAN]

\* Calls of which no two have the same id.
Proper(cs) == cs \subseteq CallRec /\ \A c, d \in cs : c.id = d.id => c = d

TypeInv == TypeOK /\ Proper(calls) /\ (page.on => page.up /\ mics > 0)

-----------------------------------------------------------------------------
(* Sets of calls *)

\* A set of numbers has one lowest member at most.
LEMMA OneLowest ==
    ASSUME NEW S \in SUBSET Int, NEW i \in Lowest(S), NEW j \in Lowest(S)
    PROVE  i = j /\ i \in S
  BY DEF Lowest

\* A call that ends leaves the calls proper.
LEMMA ProperWithout ==
    ASSUME NEW cs, Proper(cs), NEW c
    PROVE  Proper(cs \ {c})
  BY DEF Proper

\* A call that goes on under its id leaves the calls proper.
LEMMA ProperWith ==
    ASSUME NEW cs, Proper(cs), NEW c \in cs, NEW d \in CallRec, d.id = c.id
    PROVE  Proper((cs \ {c}) \cup {d})
  BY DEF Proper

\* Calls that are cancelled stay proper.
LEMMA ProperDead ==
    ASSUME NEW cs, Proper(cs), NEW ds \in SUBSET cs
    PROVE  Proper((cs \ ds) \cup Dead(ds))
<1>1. ASSUME NEW c \in cs
      PROVE  [c EXCEPT !.live = FALSE] \in CallRec /\ [c EXCEPT !.live = FALSE].id = c.id
  BY DEF Proper, CallRec
<1>2. (cs \ ds) \cup Dead(ds) \subseteq CallRec
  BY <1>1 DEF Dead, Proper
<1>3. ASSUME NEW c \in (cs \ ds) \cup Dead(ds), NEW d \in (cs \ ds) \cup Dead(ds), c.id = d.id
      PROVE  c = d
  <2>1. PICK c0 \in cs : /\ c0.id = c.id
                         /\ \/ c = c0 /\ c0 \notin ds
                            \/ c = [c0 EXCEPT !.live = FALSE] /\ c0 \in ds
    BY <1>1 DEF Dead
  <2>2. PICK d0 \in cs : /\ d0.id = d.id
                         /\ \/ d = d0 /\ d0 \notin ds
                            \/ d = [d0 EXCEPT !.live = FALSE] /\ d0 \in ds
    BY <1>1 DEF Dead
  <2>3. c0 = d0
    BY <1>3, <2>1, <2>2 DEF Proper
  <2> QED
    BY <2>1, <2>2, <2>3
<1> QED
  BY <1>2, <1>3 DEF Proper

\* One call more, under an id that is free, leaves the calls proper.
LEMMA ProperMore ==
    ASSUME NEW cs, Proper(cs), NEW ds \in SUBSET CallRec,
           \A c, d \in ds : c = d, \A d \in ds : d.id \in Ids \ {c.id : c \in cs}
    PROVE  Proper(cs \cup ds)
  BY DEF Proper

\* Calls that start on a page of the right type.
LEMMA CallTyped ==
    ASSUME TypeOK, NEW i \in Ids, NEW k \in Kinds, NEW w \in Words,
           k = "repo" => page.product # None
    PROVE  /\ Call(i, k, w) \in CallRec
           /\ Call(i, k, w).id = i /\ Call(i, k, w).kind = k /\ Call(i, k, w).live = TRUE
<1>1. NoAnswer \in Answers
  BY DEF NoAnswer, Answers
<1>2. /\ page.session \in Sessions \cup {None} /\ page.product \in Products \cup {None}
      /\ page.sel \in Named \cup {None}
  BY DEF TypeOK, Named
<1> QED
  BY <1>1, <1>2 DEF Call, CallRec

\* Sending leaves the calls proper, and the new one is of the kind that is sent.
LEMMA SendTyped ==
    ASSUME TypeInv, NEW k \in Kinds, NEW w \in Words, Send(k, w),
           k = "repo" => page.product # None
    PROVE  /\ Proper(calls')
           /\ calls \subseteq calls'
           /\ \A c \in calls' \ calls : c.kind = k /\ c.live = TRUE
           /\ \A c, d \in calls' \ calls : c = d
<1> DEFINE ds == {Call(i, k, w) : i \in Lowest(FreeIds)}
<1>1. FreeIds \in SUBSET Int /\ FreeIds \subseteq Ids
  BY DEF FreeIds, Ids
<1>2. \A i, j \in Lowest(FreeIds) : i = j /\ i \in FreeIds
  BY <1>1, OneLowest
<1>3. /\ ds \in SUBSET CallRec /\ \A c, d \in ds : c = d
      /\ \A d \in ds : d.id \in FreeIds /\ d.kind = k /\ d.live = TRUE
  <2>1. ASSUME NEW d \in ds
        PROVE  d \in CallRec /\ d.id \in FreeIds /\ d.kind = k /\ d.live = TRUE
    <3>1. PICK i \in Lowest(FreeIds) : d = Call(i, k, w)
      OBVIOUS
    <3>2. i \in FreeIds /\ i \in Ids
      BY <1>1, <1>2
    <3> QED
      BY <3>1, <3>2, CallTyped DEF TypeInv
  <2>2. \A c, d \in ds : c = d
    BY <1>2
  <2> QED
    BY <2>1, <2>2
<1>4. calls' = calls \cup ds
  BY DEF Send
<1>5. Proper(calls \cup ds)
  BY <1>3, ProperMore DEF TypeInv, FreeIds
<1> QED
  BY <1>3, <1>4, <1>5

\* The effect leaves the calls proper; what lives afterwards is an opening or
\* a call that lived before.
LEMMA EnsuredTyped ==
    ASSUME TypeOK, NEW cs, Proper(cs), NEW pg
    PROVE  /\ Proper(Ensured(pg, cs))
           /\ \A c \in Ensured(pg, cs) : c.live => c.kind = "open" \/ c \in cs
           /\ \A c \in Ensured(pg, cs) : c.kind # "open" => c \in cs
<1> DEFINE opens == {c \in cs : c.live /\ c.kind = "open"}
           rest == (cs \ opens) \cup Dead(opens)
           free == Ids \ {c.id : c \in rest}
           ds == {[Call(i, "open", "") EXCEPT !.s = None, !.p = None, !.sel = None]
                  : i \in Lowest(free)}
<1>1. /\ Proper(rest) /\ \A c \in rest : c.live => c \in cs
      /\ \A c \in rest : c.kind # "open" => c \in cs
  <2>1. opens \in SUBSET cs
    OBVIOUS
  <2>2. \A c \in opens : c \in CallRec
    BY DEF Proper
  <2>3. \A c \in Dead(opens) : c.live = FALSE /\ c.kind = "open"
    BY <2>2 DEF Dead, CallRec
  <2> HIDE DEF opens
  <2> QED
    BY <2>1, <2>3, ProperDead
<1>2. \A i, j \in Lowest(free) : i = j /\ i \in free
  <2>1. free \in SUBSET Int
    BY DEF Ids
  <2> HIDE DEF free
  <2> QED
    BY <2>1, OneLowest
<1>3. ASSUME NEW i \in Ids
      PROVE  LET d == [Call(i, "open", "") EXCEPT !.s = None, !.p = None, !.sel = None]
             IN  d \in CallRec /\ d.id = i /\ d.kind = "open"
  <2> DEFINE c == Call(i, "open", "")
  <2>1. "open" \in Kinds /\ "" \in Words /\ "open" # "repo"
    BY DEF Kinds, Words
  <2>2. c \in CallRec /\ c.id = i /\ c.kind = "open"
    BY <2>1, CallTyped
  <2> HIDE DEF c
  <2>3. LET d == [c EXCEPT !.s = None, !.p = None, !.sel = None]
        IN  d \in CallRec /\ d.id = i /\ d.kind = "open"
    BY <2>2 DEF CallRec
  <2> QED
    BY <2>3 DEF c
<1>4. ds \in SUBSET CallRec /\ (\A c, d \in ds : c = d) /\ \A d \in ds : d.id \in free /\ d.kind = "open"
  <2>1. ASSUME NEW d \in ds
        PROVE  d \in CallRec /\ d.id \in free /\ d.kind = "open"
    <3>1. PICK i \in Lowest(free) :
             d = [Call(i, "open", "") EXCEPT !.s = None, !.p = None, !.sel = None]
      OBVIOUS
    <3>2. i \in free /\ i \in Ids
      BY <1>2
    <3> HIDE DEF free
    <3> QED
      BY <1>3, <3>1, <3>2
  <2>2. \A c, d \in ds : c = d
    <3> HIDE DEF free
    <3> QED
      BY <1>2
  <2> HIDE DEF ds, free
  <2> QED
    BY <2>1, <2>2
<1>5. Proper(rest \cup ds)
  <2> HIDE DEF rest, ds
  <2> QED
    BY <1>1, <1>4, ProperMore
<1>6. Ensured(pg, cs) = IF pg.session # None THEN rest ELSE rest \cup ds
  BY DEF Ensured
<1> HIDE DEF rest, ds
<1> QED
  BY <1>1, <1>4, <1>5, <1>6

-----------------------------------------------------------------------------
(* What a step does to the calls *)

\* Every call that lives after the step lived before it.
Follows == \A d \in calls' : d.live =>
              \E c \in calls : c.live /\ c.id = d.id /\ c.kind = d.kind

\* The same of turns and transcriptions; other calls may have begun.
TurnsFollow == \A d \in calls' : d.live /\ d.kind \in Turns \cup {"stt"} =>
                  \E c \in calls : c.live /\ c.id = d.id /\ c.kind = d.kind

\* The part of the page that Apart is about.
Apart ==
    /\ OneTurn
    /\ \A c \in calls : c.live => page.up
    /\ \A c \in calls : c.live /\ c.kind = "voice" => page.sending
    /\ \A c \in calls : c.live /\ c.kind = "stt" => ~ page.sending

\* A step that begins no turn keeps Apart, if it leaves the two flags alone.
LEMMA ApartFollows ==
    ASSUME Apart, Proper(calls'), TurnsFollow,
           page'.sending = page.sending, \A d \in calls' : d.live => page'.up
    PROVE  Apart'
<1>1. OneTurn'
  BY DEF Apart, OneTurn, TurnsFollow, Proper
<1>2. \A c \in calls' : c.live /\ c.kind = "voice" => page'.sending
  BY DEF Apart, TurnsFollow, Turns
<1>3. \A c \in calls' : c.live /\ c.kind = "stt" => ~ page'.sending
  BY DEF Apart, TurnsFollow
<1> QED
  BY <1>1, <1>2, <1>3 DEF Apart

\* A step after which the calls are the old ones that live keeps Apart.
LEMMA ApartStays ==
    ASSUME Apart, Proper(calls'), Follows, page'.sending = page.sending, page'.up = page.up
    PROVE  Apart'
<1>1. TurnsFollow
  BY DEF Follows, TurnsFollow
<1>2. \A d \in calls' : d.live => page'.up
  BY DEF Apart, Follows
<1> QED
  BY <1>1, <1>2, ApartFollows

\* A step that lowers the flag after the only turn has ended, or while
\* something is transcribed, keeps Apart.
LEMMA ApartLowers ==
    ASSUME Apart, NEW c \in calls, c.live, c.kind \in Turns \cup {"stt"},
           calls' = calls \ {c}, Proper(calls),
           page'.up = page.up, page'.sending = FALSE
    PROVE  Apart'
<1>1. OneTurn'
  BY DEF Apart, OneTurn
<1>2. \A d \in calls' : d.live => page'.up
  BY DEF Apart
<1>3. ASSUME NEW d \in calls', d.live, d.kind = "voice"
      PROVE  FALSE
  <2>1. CASE c.kind \in Turns
    BY <1>3, <2>1 DEF Apart, OneTurn, Turns
  <2>2. CASE c.kind = "stt"
    BY <1>3, <2>2 DEF Apart
  <2> QED
    BY <2>1, <2>2
<1>4. \A d \in calls' : d.live /\ d.kind = "stt" => ~ page'.sending
  OBVIOUS
<1> QED
  BY <1>1, <1>2, <1>3, <1>4 DEF Apart

\* A call that ends.
LEMMA EndTyped ==
    ASSUME TypeInv, NEW c, calls' = calls \ {c}
    PROVE  Proper(calls') /\ Follows
  BY ProperWithout DEF TypeInv, Follows

\* A call that goes on.
LEMMA OnTyped ==
    ASSUME TypeInv, NEW c \in calls, NEW d \in CallRec,
           d.id = c.id, d.kind = c.kind, d.live = c.live, calls' = (calls \ {c}) \cup {d}
    PROVE  Proper(calls') /\ Follows
  BY ProperWith DEF TypeInv, Follows

\* An answer of the backend.
LEMMA AnswerTyped ==
    ASSUME TypeInv, NEW c \in calls,
           NEW st \in {"none", "proposal", "session_update", "error", "execution",
                       "clarification", "refused"},
           NEW tree \in SUBSET Named, NEW sel \in Named \cup {None}, NEW plan \in BOOLEAN,
           Answer(c, st, tree, sel, plan)
    PROVE  Proper(calls') /\ Follows
<1> DEFINE a == [status |-> st, tree |-> tree, sel |-> sel, plan |-> plan]
           d == [c EXCEPT !.at = "back", !.snap = {}, !.plan = FALSE, !.ans = a]
<1>1. a \in Answers
  BY DEF Answers
<1>2. c \in CallRec
  BY DEF TypeInv, Proper
<1>3. calls' = (calls \ {c}) \cup {d}
  BY DEF Answer
<1> HIDE DEF a
<1>4. d \in CallRec /\ d.id = c.id /\ d.kind = c.kind /\ d.live = c.live
  BY <1>1, <1>2 DEF CallRec
<1> QED
  BY <1>3, <1>4, OnTyped

\* The page stays of its type when nothing of it changes.
LEMMA BackendTyped ==
    ASSUME TypeInv, Proper(calls'), UNCHANGED <<page, mics>>,
           opened' \subseteq Sessions, staged' \in [Sessions -> SUBSET Named],
           asked' \in [Sessions -> BOOLEAN], catalog' \in [Nodes -> Nat]
    PROVE  TypeInv'
<1>1. TypeOK'
  BY DEF TypeInv, TypeOK, Proper, CallRec, Named
<1> QED
  BY <1>1 DEF TypeInv, TypeOK

\* The page and the microphones change, the backend does not.
LEMMA PageTyped ==
    ASSUME TypeInv, Proper(calls'), UNCHANGED <<opened, staged, asked, catalog>>,
           page' \in PageRec, mics' \in Nat, page'.on => page'.up /\ mics' > 0
    PROVE  TypeInv'
<1>1. TypeOK'
  BY DEF TypeInv, TypeOK, Proper, CallRec, Named, PageRec
<1> QED
  BY <1>1 DEF TypeInv, TypeOK

\* The parts of the state, as the proofs use them.
LEMMA Parts ==
    ASSUME TypeInv
    PROVE  /\ opened \subseteq Sessions /\ staged \in [Sessions -> SUBSET Named]
           /\ asked \in [Sessions -> BOOLEAN] /\ catalog \in [Nodes -> Nat]
           /\ page \in PageRec /\ mics \in Nat /\ (page.on => page.up /\ mics > 0)
           /\ Proper(calls) /\ calls \subseteq CallRec
  BY DEF TypeInv, TypeOK, PageRec, Named, Proper

-----------------------------------------------------------------------------
(* What the person does *)

Inv == TypeInv /\ Apart

\* A turn is begun when the page is not busy; a voice turn raises its flag.
LEMMA TurnBegins ==
    ASSUME Inv, NEW k \in Turns, NEW w \in Words, Send(k, w), ~ Busy, page.up, page'.up,
           page'.sending = (k = "voice"), k = "repo" => page.product # None
    PROVE  Apart'
<1>1. \A c \in calls : c.live => c.kind \notin Turns \cup {"stt"}
  BY DEF Busy, Mine, Inv, Apart, Turns
<1>2. /\ Proper(calls') /\ \A c \in calls' \ calls : c.kind = k /\ c.live = TRUE
      /\ \A c, d \in calls' \ calls : c = d
  BY SendTyped DEF Inv, Kinds
<1>3. OneTurn'
  BY <1>1, <1>2 DEF OneTurn
<1>4. k # "stt"
  BY DEF Turns
<1>5. \A c \in calls' : c.live /\ c.kind = "voice" => page'.sending
  BY <1>1, <1>2 DEF Turns
<1>6. \A c \in calls' : c.live => c.kind # "stt"
  BY <1>1, <1>2, <1>4
<1> QED
  BY <1>3, <1>5, <1>6 DEF Apart

\* Any other call is begun on a page that is there.
LEMMA OtherBegins ==
    ASSUME Inv, NEW k \in Kinds \ Turns, NEW w \in Words, Send(k, w), page.up, page'.up,
           page'.sending = page.sending, k = "stt" => ~ page.sending
    PROVE  Apart'
<1>1. /\ Proper(calls') /\ \A c \in calls' \ calls : c.kind = k /\ c.live = TRUE
  BY SendTyped DEF Inv, Turns
<1>2. OneTurn'
  BY <1>1 DEF Inv, Apart, OneTurn
<1>3. \A c \in calls' : c.live /\ c.kind = "voice" => page'.sending
  BY <1>1 DEF Inv, Apart, Turns
<1>4. \A c \in calls' : c.live /\ c.kind = "stt" => ~ page'.sending
  BY <1>1 DEF Inv, Apart
<1> QED
  BY <1>2, <1>3, <1>4 DEF Apart

\* A typed message, an edit of the design and an analysis of the repository.
LEMMA TurnsKeep ==
    ASSUME Inv,
           \/ \E w \in {"other", "confirm"} : SendText(w)
           \/ \E op \in {"rename", "add", "delete"} : EditDraft(op)
           \/ AnalyzeRepository
    PROVE  Inv'
<1>1. PICK k \in {"text", "edit", "repo"}, w \in Words :
         Send(k, w) /\ (k = "repo" => page.product # None)
  BY DEF SendText, EditDraft, AnalyzeRepository, Words, RepositoryOffers
<1>2. /\ ~ Busy /\ page.up /\ UNCHANGED <<page, mics>>
      /\ UNCHANGED <<opened, staged, asked, catalog>>
  BY DEF SendText, EditDraft, AnalyzeRepository, Stays, ComposerOffers, DesignOffers,
         RepositoryOffers
<1>3. k \in Turns /\ k \in Kinds /\ k # "voice"
  BY DEF Turns, Kinds
<1>4. TypeInv'
  BY <1>1, <1>2, <1>3, SendTyped, PageTyped, Parts DEF Inv
<1>5. page'.sending = FALSE
  BY <1>2, Parts DEF Inv, Busy, PageRec
<1>6. Apart'
  BY <1>1, <1>2, <1>3, <1>5, TurnBegins
<1> QED
  BY <1>4, <1>6 DEF Inv

\* A transcript that is submitted.
LEMMA SubmitVoiceKeeps ==
    ASSUME Inv, NEW w \in {"other", "confirm", "clear", "select"}, SubmitVoice(w)
    PROVE  Inv'
<1>1. /\ Send("voice", w) /\ ~ Busy /\ page.up /\ page' = [page EXCEPT !.sending = TRUE]
      /\ UNCHANGED mics /\ UNCHANGED <<opened, staged, asked, catalog>>
  BY DEF SubmitVoice, VoiceCardOffers, Stays
<1>2. "voice" \in Turns /\ "voice" \in Kinds /\ w \in Words
  BY DEF Turns, Kinds, Words
<1>3. /\ page' \in PageRec /\ page'.on = page.on /\ page'.up = page.up
      /\ page'.sending = TRUE
  BY <1>1, Parts DEF Inv, PageRec
<1>4. TypeInv'
  BY <1>1, <1>2, <1>3, SendTyped, PageTyped, Parts DEF Inv
<1>5. Apart'
  BY <1>1, <1>2, <1>3, TurnBegins
<1> QED
  BY <1>4, <1>5 DEF Inv

\* A confirmation, and the microphone when it is asked for.
LEMMA AsksKeep ==
    ASSUME Inv, ConfirmPlan \/ StartListening \/ RetryVoice
    PROVE  Inv'
<1>1. PICK k \in {"confirm", "mic"}, w \in Words : Send(k, w)
  BY DEF ConfirmPlan, StartListening, RetryVoice, Words
<1>2. /\ page.up /\ UNCHANGED mics /\ UNCHANGED <<opened, staged, asked, catalog>>
      /\ page' = page \/ page' = [page EXCEPT !.heard = FALSE]
  BY DEF ConfirmPlan, StartListening, RetryVoice, Stays
<1>3. /\ page' \in PageRec /\ page'.on = page.on /\ page'.up = page.up
      /\ page'.sending = page.sending
  BY <1>2, Parts DEF Inv, PageRec
<1>4. k \in Kinds \ Turns /\ k # "stt" /\ k # "repo"
  BY DEF Turns, Kinds
<1>5. TypeInv'
  BY <1>1, <1>2, <1>3, <1>4, SendTyped, PageTyped, Parts DEF Inv
<1>6. Apart'
  BY <1>1, <1>2, <1>3, <1>4, OtherBegins
<1> QED
  BY <1>5, <1>6 DEF Inv

\* A dismissal of what waits for a confirmation.
LEMMA DismissPlanKeeps ==
    ASSUME Inv, DismissPlan
    PROVE  Inv'
<1>1. /\ page' \in PageRec /\ page'.on = page.on /\ page'.up = page.up
      /\ page'.sending = page.sending
  BY Parts DEF Inv, PageRec, DismissPlan, Views
<1>2. page.up /\ UNCHANGED mics /\ UNCHANGED <<opened, staged, asked, catalog>>
  BY DEF DismissPlan, Stays
<1>3. "clear" \in Kinds \ Turns /\ "" \in Words
  BY DEF Kinds, Turns, Words
<1>4. CASE Send("clear", "")
  BY <1>1, <1>2, <1>3, <1>4, SendTyped, OtherBegins, PageTyped, Parts DEF Inv
<1>5. CASE UNCHANGED calls
  <2>1. Proper(calls') /\ Follows
    BY <1>5, Parts DEF Inv, Follows
  <2> QED
    BY <1>1, <1>2, <2>1, ApartStays, PageTyped, Parts DEF Inv
<1> QED
  BY <1>4, <1>5 DEF DismissPlan

\* What the person does with the page alone.
LEMMA LooksKeep ==
    ASSUME Inv,
           \/ \E n \in Named : SelectNode(n)
           \/ \E view \in Views : ShowView(view) \/ SpeakView(view)
           \/ CancelVoice
    PROVE  Inv'
<1>1. UNCHANGED <<calls, mics>> /\ UNCHANGED <<opened, staged, asked, catalog>>
  BY DEF SelectNode, ShowView, SpeakView, CancelVoice, Stays
<1>2. /\ page' \in PageRec /\ page'.on = page.on /\ page'.up = page.up
      /\ page'.sending = page.sending
  BY Parts DEF Inv, PageRec, SelectNode, ShowView, SpeakView, CancelVoice
<1>3. Proper(calls') /\ Follows
  BY <1>1, Parts DEF Inv, Follows
<1>4. TypeInv'
  BY <1>1, <1>2, <1>3, PageTyped, Parts DEF Inv
<1>5. Apart'
  BY <1>2, <1>3, ApartStays DEF Inv
<1> QED
  BY <1>4, <1>5 DEF Inv

\* The effect that opens a session begins no turn.
LEMMA EnsuredKeeps ==
    ASSUME Inv, calls' = Ensured(page', calls), page'.up, page.up \/ calls = {},
           page'.sending = page.sending
    PROVE  Proper(calls') /\ Apart'
<1>1. Proper(calls') /\ \A c \in calls' : c.live => c.kind = "open" \/ c \in calls
  BY EnsuredTyped, Parts DEF Inv, TypeInv
<1>2. TurnsFollow
  BY <1>1 DEF TurnsFollow, Turns
<1> QED
  BY <1>1, <1>2, ApartFollows DEF Inv

\* A model is chosen, or another product.
LEMMA ChoosesKeep ==
    ASSUME Inv, ChooseModel \/ \E p \in Products \cup {None} : SwitchProduct(p)
    PROVE  Inv'
<1>1. page.up /\ UNCHANGED mics /\ UNCHANGED <<opened, staged, asked, catalog>>
  BY DEF ChooseModel, SwitchProduct, Stays
<1>2. /\ page' \in PageRec /\ page'.on = page.on /\ page'.up = page.up
      /\ page'.sending = page.sending
  <2>1. page \in PageRec /\ "conversation" \in Views
    BY Parts DEF Inv, Views
  <2>2. CASE ChooseModel
    BY <2>1, <2>2 DEF ChooseModel, PageRec
  <2>3. ASSUME NEW p \in Products \cup {None}, SwitchProduct(p)
        PROVE  /\ page' \in PageRec /\ page'.on = page.on /\ page'.up = page.up
               /\ page'.sending = page.sending
    <3>1. \/ page' = [page EXCEPT !.product = p]
          \/ page' = [page EXCEPT !.product = p, !.session = None, !.tree = {},
                                  !.sel = None, !.plan = FALSE, !.trace = FALSE,
                                  !.view = "conversation"]
      BY <2>3 DEF SwitchProduct
    <3> QED
      BY <2>1, <3>1 DEF PageRec
  <2> QED
    BY <2>2, <2>3
<1>3. CASE calls' = Ensured(page', calls)
  BY <1>1, <1>2, <1>3, EnsuredKeeps, PageTyped, Parts DEF Inv
<1>4. CASE UNCHANGED calls
  <2>1. Proper(calls') /\ Follows
    BY <1>4, Parts DEF Inv, Follows
  <2> QED
    BY <1>1, <1>2, <2>1, ApartStays, PageTyped, Parts DEF Inv
<1> QED
  BY <1>3, <1>4 DEF ChooseModel, SwitchProduct

\* Leaving the page kills its calls.
LEMMA LeavePageKeeps ==
    ASSUME Inv, LeavePage
    PROVE  Inv'
<1>1. /\ page' \in PageRec /\ ~ page'.on
  BY Parts DEF Inv, PageRec, LeavePage, Fresh, Views
<1>2. mics' \in Nat
  BY Parts DEF Inv, LeavePage, PageRec
<1>3. UNCHANGED <<opened, staged, asked, catalog>> /\ calls' = (calls \ calls) \cup Dead(calls)
  BY DEF LeavePage, Stays
<1>4. Proper(calls')
  BY <1>3, ProperDead, Parts DEF Inv
<1>5. \A c \in calls' : c.live = FALSE
  BY <1>3, Parts DEF Inv, Dead, CallRec
<1>6. TypeInv'
  BY <1>1, <1>2, <1>3, <1>4, PageTyped DEF Inv
<1>7. Apart'
  BY <1>5 DEF Apart, OneTurn
<1> QED
  BY <1>6, <1>7 DEF Inv

\* The calls of a page that is gone are dead; a new page has its own.
LEMMA OpenPageKeeps ==
    ASSUME Inv, OpenPage
    PROVE  Inv'
<1>1. page' \in PageRec /\ ~ page'.on /\ page'.up
  BY Parts DEF Inv, PageRec, OpenPage, Fresh, Views
<1>2. UNCHANGED mics /\ UNCHANGED <<opened, staged, asked, catalog>>
  BY DEF OpenPage, Stays
<1>3. Proper(calls') /\ \A c \in calls' : c.live => c.kind = "open" \/ c \in calls
  BY EnsuredTyped, Parts DEF Inv, TypeInv, OpenPage
<1>4. \A c \in calls' : c.live => c.kind = "open"
  BY <1>3 DEF Inv, Apart, OpenPage
<1>5. TypeInv'
  BY <1>1, <1>2, <1>3, PageTyped, Parts DEF Inv
<1>6. Apart'
  BY <1>1, <1>4 DEF Apart, OneTurn, Turns
<1> QED
  BY <1>5, <1>6 DEF Inv

-----------------------------------------------------------------------------
(* Voice *)

\* The microphone is granted or refused, also to a page that has gone.
LEMMA MicKeeps ==
    ASSUME Inv, NEW c \in calls, MicGranted(c) \/ MicRefused(c)
    PROVE  Inv'
<1>1. calls' = calls \ {c} /\ UNCHANGED <<opened, staged, asked, catalog>>
  BY DEF MicGranted, MicRefused, Stays
<1>2. /\ page' \in PageRec /\ page'.up = page.up /\ page'.sending = page.sending
      /\ mics' \in Nat /\ (page'.on => page'.up /\ mics' > 0)
  <2>1. /\ page \in PageRec /\ mics \in Nat /\ (page.on => page.up /\ mics > 0)
        /\ c.live => page.up
    BY Parts DEF Inv, Apart
  <2>2. CASE MicGranted(c)
    <3>1. mics' \in Nat /\ mics' > 0
      BY <2>1, <2>2 DEF MicGranted
    <3>2. page' = page \/ (c.live /\ page' = [page EXCEPT !.on = TRUE, !.heard = FALSE])
      BY <2>2 DEF MicGranted
    <3> QED
      BY <2>1, <3>1, <3>2 DEF PageRec
  <2>3. CASE MicRefused(c)
    <3>1. mics' = mics
      BY <2>3 DEF MicRefused
    <3>2. page' = page \/ page' = [page EXCEPT !.on = FALSE, !.heard = FALSE]
      BY <2>3 DEF MicRefused
    <3> QED
      BY <2>1, <3>1, <3>2 DEF PageRec
  <2> QED
    BY <2>2, <2>3
<1>3. Proper(calls') /\ Follows
  BY <1>1, EndTyped DEF Inv
<1> QED
  BY <1>1, <1>2, <1>3, ApartStays, PageTyped DEF Inv

\* Listening stops and a transcription begins, while no voice turn is on.
LEMMA StopListeningKeeps ==
    ASSUME Inv, StopListening
    PROVE  Inv'
<1>1. /\ Send("stt", "") /\ page.up /\ page.on /\ mics' = mics - 1 /\ ~ page.sending
      /\ page' = [page EXCEPT !.on = FALSE] /\ UNCHANGED <<opened, staged, asked, catalog>>
  BY DEF StopListening, ComposerOffers, Stays
<1>2. /\ page' \in PageRec /\ ~ page'.on /\ page'.up = page.up
      /\ page'.sending = page.sending /\ mics' \in Nat
  <2>1. page \in PageRec /\ mics \in Nat /\ mics > 0
    BY <1>1, Parts DEF Inv
  <2>2. mics' = mics - 1
    BY <1>1
  <2>3. mics' \in Nat
    BY <2>1, <2>2
  <2> QED
    BY <1>1, <2>1, <2>3 DEF PageRec
<1>3. "stt" \in Kinds \ Turns /\ "" \in Words
  BY DEF Kinds, Turns, Words
<1>4. TypeInv'
  BY <1>1, <1>2, <1>3, SendTyped, PageTyped DEF Inv
<1>5. Apart'
  BY <1>1, <1>2, <1>3, OtherBegins
<1> QED
  BY <1>4, <1>5 DEF Inv

\* A transcription that heard nothing lowers a flag that no turn has up.
LEMMA NotHeardKeeps ==
    ASSUME Inv, NEW c \in calls, NotHeard(c)
    PROVE  Inv'
<1>1. /\ c.kind = "stt" /\ calls' = calls \ {c} /\ UNCHANGED mics
      /\ UNCHANGED <<opened, staged, asked, catalog>>
  BY DEF NotHeard, Stays
<1>2. /\ page' \in PageRec /\ page'.up = page.up /\ page'.on = page.on
      /\ page'.sending = IF c.live THEN FALSE ELSE page.sending
  BY Parts DEF Inv, PageRec, NotHeard
<1>3. Proper(calls') /\ Follows
  BY <1>1, EndTyped DEF Inv
<1>4. TypeInv'
  BY <1>1, <1>2, <1>3, PageTyped, Parts DEF Inv
<1>5. Apart'
  BY <1>1, <1>2, <1>3, ApartLowers, ApartStays, Parts DEF Inv
<1> QED
  BY <1>4, <1>5 DEF Inv

\* A transcript waits for its review, or is dropped.
LEMMA HeardKeeps ==
    ASSUME Inv, NEW c \in calls, Heard(c)
    PROVE  Inv'
<1>1. /\ calls' = calls \ {c} /\ UNCHANGED mics /\ UNCHANGED <<opened, staged, asked, catalog>>
      /\ page' = page \/ page' = [page EXCEPT !.heard = TRUE]
  BY DEF Heard, Stays
<1>2. /\ page' \in PageRec /\ page'.up = page.up /\ page'.on = page.on
      /\ page'.sending = page.sending
  BY <1>1, Parts DEF Inv, PageRec
<1>3. Proper(calls') /\ Follows
  BY <1>1, EndTyped DEF Inv
<1> QED
  BY <1>1, <1>2, <1>3, ApartStays, PageTyped, Parts DEF Inv

-----------------------------------------------------------------------------
(* The backend *)

\* A step of the backend that leaves the page alone.
LEMMA BackendKeeps ==
    ASSUME Inv, Proper(calls'), Follows, UNCHANGED <<page, mics>>,
           opened' \subseteq Sessions, staged' \in [Sessions -> SUBSET Named],
           asked' \in [Sessions -> BOOLEAN], catalog' \in [Nodes -> Nat]
    PROVE  Inv'
  BY BackendTyped, ApartStays DEF Inv

\* A session is opened for the page's effect.
LEMMA OpenSessionKeeps ==
    ASSUME Inv, NEW c \in calls, OpenSession(c)
    PROVE  Inv'
<1>1. PICK s \in Lowest(Sessions \ opened) :
         /\ opened' = opened \cup {s}
         /\ calls' = (calls \ {c}) \cup {[c EXCEPT !.at = "back", !.s = s]}
  BY DEF OpenSession
<1>2. s \in Sessions /\ c \in CallRec
  BY Parts DEF Inv, Lowest
<1>3. LET d == [c EXCEPT !.at = "back", !.s = s]
      IN  d \in CallRec /\ d.id = c.id /\ d.kind = c.kind /\ d.live = c.live
  BY <1>2 DEF CallRec
<1>4. Proper(calls') /\ Follows
  BY <1>1, <1>3, OnTyped DEF Inv
<1>5. opened' \subseteq Sessions /\ UNCHANGED <<page, mics, staged, asked, catalog>>
  BY <1>1, <1>2, Parts DEF Inv, OpenSession
<1> QED
  BY <1>4, <1>5, BackendKeeps, Parts DEF Inv

\* A turn opens a session of its own and gives it to a page that is there.
LEMMA OpenForTurnKeeps ==
    ASSUME Inv, NEW c \in calls, OpenForTurn(c)
    PROVE  Inv'
<1>1. PICK s \in Lowest(Sessions \ opened) :
         /\ opened' = opened \cup {s}
         /\ page' = IF c.live THEN [page EXCEPT !.session = s] ELSE page
         /\ LET cs == (calls \ {c}) \cup {[c EXCEPT !.s = s]}
            IN  calls' = IF c.live THEN Ensured(page', cs) ELSE cs
  BY DEF OpenForTurn
<1> DEFINE d == [c EXCEPT !.s = s]
           cs == (calls \ {c}) \cup {d}
<1>2. s \in Sessions /\ c \in CallRec
  BY Parts DEF Inv, Lowest
<1>3. d \in CallRec /\ d.id = c.id /\ d.kind = c.kind /\ d.live = c.live
  BY <1>2 DEF CallRec
<1>4. Proper(cs)
  <2> HIDE DEF d
  <2> QED
    BY <1>3, ProperWith, Parts DEF Inv
<1>5. Proper(calls') /\ \A e \in calls' : e.live => e.kind = "open" \/ e \in cs
  <2> HIDE DEF cs
  <2>1. CASE c.live
    BY <1>1, <1>4, <2>1, EnsuredTyped DEF Inv, TypeInv, cs
  <2>2. CASE ~ c.live
    BY <1>1, <1>4, <2>2 DEF cs
  <2> QED
    BY <2>1, <2>2
<1>6. /\ page' \in PageRec /\ page'.on = page.on /\ page'.up = page.up
      /\ page'.sending = page.sending
  BY <1>1, <1>2, Parts DEF Inv, PageRec
<1>7. UNCHANGED <<staged, asked, catalog, mics>> /\ opened' \subseteq Sessions
  BY <1>1, <1>2, Parts DEF Inv, OpenForTurn
<1>8. TypeOK'
  BY <1>5, <1>6, <1>7, Parts DEF Inv, TypeInv, TypeOK, Proper, CallRec, PageRec, Named
<1>9. TypeInv'
  BY <1>5, <1>6, <1>7, <1>8, Parts DEF Inv, TypeInv
<1>10. \A e \in cs : e.live => \E b \in calls : b.live /\ b.id = e.id /\ b.kind = e.kind
  <2> HIDE DEF d
  <2> QED
    BY <1>3
<1>11. TurnsFollow
  <2> HIDE DEF cs
  <2> QED
    BY <1>5, <1>10 DEF TurnsFollow, Turns
<1>12. \A e \in calls' : e.live => page'.up
  <2>1. CASE c.live
    BY <1>6, <2>1 DEF Inv, Apart
  <2>2. CASE ~ c.live
    <3>1. calls' = cs
      BY <1>1, <2>2
    <3> HIDE DEF cs
    <3> QED
      BY <1>6, <1>10, <3>1 DEF Inv, Apart
  <2> QED
    BY <2>1, <2>2
<1>13. Apart'
  BY <1>5, <1>6, <1>11, <1>12, ApartFollows DEF Inv
<1> QED
  BY <1>9, <1>13 DEF Inv

\* A turn goes on with a clone of its session.
LEMMA ReadSessionKeeps ==
    ASSUME Inv, NEW c \in calls, ReadSession(c)
    PROVE  Inv'
<1>0. PICK at \in {"heard", "read"} :
         at = IF c.kind = "voice" /\ c.at = "out" THEN "heard" ELSE "read"
  OBVIOUS
<1> DEFINE d == [c EXCEPT !.at = at, !.snap = staged[c.s], !.plan = asked[c.s]]
<1>1. c \in CallRec /\ c.s \in Sessions
  BY Parts DEF Inv, ReadSession, CallRec
<1>2. staged[c.s] \in SUBSET Named /\ asked[c.s] \in BOOLEAN
  BY <1>1, Parts DEF Inv
<1>3. d \in CallRec /\ d.id = c.id /\ d.kind = c.kind /\ d.live = c.live
  BY <1>1, <1>2 DEF CallRec
<1>4. calls' = (calls \ {c}) \cup {d} /\ UNCHANGED <<opened, staged, asked, catalog, page, mics>>
  BY <1>0 DEF ReadSession
<1>5. Proper(calls') /\ Follows
  <2> HIDE DEF d
  <2> QED
    BY <1>3, <1>4, OnTyped DEF Inv
<1> QED
  BY <1>4, <1>5, BackendKeeps, Parts DEF Inv

\* A voice turn is routed, and may save its clone before.
LEMMA RouteVoiceKeeps ==
    ASSUME Inv, NEW c \in calls, RouteVoice(c)
    PROVE  Inv'
<1>1. c \in CallRec /\ UNCHANGED <<opened, catalog, page, mics>>
  BY Parts DEF Inv, RouteVoice
<1>2. PICK d : /\ \/ d = [c EXCEPT !.at = "read"]
                  \/ d = [c EXCEPT !.at = "again", !.snap = {}, !.plan = FALSE]
               /\ calls' = (calls \ {c}) \cup {d}
  BY DEF RouteVoice
<1>3. d \in CallRec /\ d.id = c.id /\ d.kind = c.kind /\ d.live = c.live
  BY <1>1, <1>2 DEF CallRec
<1>4. Proper(calls') /\ Follows
  BY <1>1, <1>2, <1>3, OnTyped DEF Inv
<1>5. staged' \in [Sessions -> SUBSET Named] /\ asked' \in [Sessions -> BOOLEAN]
  BY <1>1, Parts DEF Inv, RouteVoice, Save, CallRec
<1> QED
  BY <1>1, <1>4, <1>5, BackendKeeps, Parts DEF Inv

\* What an answer may carry.
Statuses == {"none", "proposal", "session_update", "error", "execution", "clarification",
             "refused"}

\* A turn that is answered and saves its clone.
LEMMA AnswerKeeps ==
    ASSUME Inv, NEW c \in calls, NEW st \in Statuses, NEW tree \in SUBSET Named,
           NEW sel \in Named \cup {None}, NEW plan \in BOOLEAN,
           Answer(c, st, tree, sel, plan), UNCHANGED <<opened, page, mics>>,
           \/ UNCHANGED <<staged, asked>>
           \/ \E draft \in SUBSET Named, waits \in BOOLEAN : Save(c, draft, waits),
           catalog' \in [Nodes -> Nat]
    PROVE  Inv'
<1>1. Proper(calls') /\ Follows
  BY AnswerTyped DEF Inv, Statuses
<1>2. staged' \in [Sessions -> SUBSET Named] /\ asked' \in [Sessions -> BOOLEAN]
  BY Parts DEF Inv, Save
<1> QED
  BY <1>1, <1>2, BackendKeeps, Parts DEF Inv

\* The parts of a call, and a node that is not used yet.
LEMMA CallParts ==
    ASSUME Inv, NEW c \in calls
    PROVE  /\ c.snap \in SUBSET Named /\ c.plan \in BOOLEAN
           /\ c.sel \in Named \cup {None} /\ Passed(c) \in Named \cup {None}
           /\ c.p \in Products \cup {None}
           /\ Unused \subseteq Named
  BY Parts DEF Inv, CallRec, Passed, Unused, Lowest, Named

\* A design is applied, in whole or in part.
LEMMA CommitKeeps ==
    ASSUME Inv, NEW c \in calls, Commit(c) \/ CommitFailed(c)
    PROVE  Inv'
<1>1. catalog' \in [Nodes -> Nat]
  <2>1. PICK done \in SUBSET Nodes :
           catalog' = [n \in Nodes |-> IF n \in done THEN catalog[n] + 1 ELSE catalog[n]]
    <3>1. CASE Commit(c)
      <4>1. catalog' = [n \in Nodes |-> IF n \in (c.snap \cap Nodes) THEN catalog[n] + 1
                                                                  ELSE catalog[n]]
        BY <3>1 DEF Commit
      <4> QED
        BY <4>1
    <3>2. CASE CommitFailed(c)
      BY <3>2 DEF CommitFailed
    <3> QED
      BY <3>1, <3>2
  <2> QED
    BY <2>1, Parts DEF Inv
<1>2. CASE Commit(c)
  <2>1. Answer(c, "execution", {}, None, FALSE) /\ Save(c, {}, FALSE)
    BY <1>2 DEF Commit
  <2> QED
    BY <1>1, <1>2, <2>1, AnswerKeeps DEF Commit, Statuses
<1>3. CASE CommitFailed(c)
  <2>1. Answer(c, "error", c.snap, Passed(c), c.plan)
    BY <1>3 DEF CommitFailed
  <2> QED
    BY <1>1, <1>3, <2>1, CallParts, AnswerKeeps DEF CommitFailed, Statuses
<1> QED
  BY <1>2, <1>3

\* A confirmation without a design.
LEMMA NothingToConfirmKeeps ==
    ASSUME Inv, NEW c \in calls, NothingToConfirm(c)
    PROVE  Inv'
<1>1. Answer(c, "clarification", {}, Passed(c), c.plan)
  BY DEF NothingToConfirm
<1> QED
  BY <1>1, CallParts, Parts, AnswerKeeps DEF Inv, NothingToConfirm, Statuses

\* What a turn with a plan starts from.
LEMMA PlanParts ==
    ASSUME Inv, NEW c \in calls, c.p # None
    PROVE  Seeded(c.snap, c.p) \in SUBSET Named /\ Chosen(c) \in Named \cup {None}
<1>1. c.p \in Named
  BY CallParts DEF Named
<1> QED
  BY <1>1, CallParts DEF Seeded, Chosen

\* A turn whose plan adds a node, an analysis that does, and one that does not.
LEMMA StagesKeep ==
    ASSUME Inv, NEW c \in calls, c.p # None, UNCHANGED <<opened, catalog, page, mics>>,
           NEW n \in Unused,
           LET draft == Seeded(c.snap, c.p) \cup {n}
           IN  Save(c, draft, TRUE) /\ Answer(c, "proposal", draft, Chosen(c), TRUE)
    PROVE  Inv'
<1> DEFINE draft == Seeded(c.snap, c.p) \cup {n}
<1>1. draft \in SUBSET Named
  BY PlanParts, CallParts
<1>2. Save(c, draft, TRUE) /\ Answer(c, "proposal", draft, Chosen(c), TRUE)
  OBVIOUS
<1> HIDE DEF draft
<1> QED
  BY <1>1, <1>2, PlanParts, Parts, AnswerKeeps DEF Inv, Statuses

\* A turn with a plan.
LEMMA PlansKeep ==
    ASSUME Inv, NEW c \in calls, PlanDesigns(c) \/ PlanWaits(c) \/ PlanFails(c)
    PROVE  Inv'
<1>1. c.p # None /\ UNCHANGED <<opened, catalog, page, mics>>
  BY DEF PlanDesigns, PlanWaits, PlanFails, Plans
<1>2. CASE PlanDesigns(c)
  BY <1>1, <1>2, StagesKeep DEF PlanDesigns
<1>3. CASE PlanWaits(c)
  <2> DEFINE draft == Seeded(c.snap, c.p)
  <2>1. PICK st \in Statuses, saved \in BOOLEAN, waits \in BOOLEAN :
           Save(c, draft, saved) /\ Answer(c, st, draft, Chosen(c), waits)
    BY <1>3, CallParts DEF PlanWaits, Statuses
  <2>2. draft \in SUBSET Named
    BY <1>1, PlanParts
  <2> HIDE DEF draft
  <2> QED
    BY <1>1, <2>1, <2>2, PlanParts, Parts, AnswerKeeps DEF Inv
<1>4. CASE PlanFails(c)
  <2>1. Answer(c, "error", Seeded(c.snap, c.p), Chosen(c), c.plan) /\ UNCHANGED <<staged, asked>>
    BY <1>4 DEF PlanFails
  <2> QED
    BY <1>1, <2>1, PlanParts, CallParts, Parts, AnswerKeeps DEF Inv, Statuses
<1> QED
  BY <1>2, <1>3, <1>4

\* A spoken command.
LEMMA VoiceCommandKeeps ==
    ASSUME Inv, NEW c \in calls, VoiceCommand(c)
    PROVE  Inv'
<1>1. UNCHANGED <<opened, catalog, page, mics>>
  BY DEF VoiceCommand
<1>2. CASE Save(c, {}, FALSE) /\ Answer(c, "execution", {}, None, FALSE)
  BY <1>1, <1>2, Parts, AnswerKeeps DEF Inv, Statuses
<1>3. ASSUME NEW n \in c.snap \cup {c.sel}, Save(c, c.snap, c.plan),
             Answer(c, "session_update", c.snap, n, c.plan)
      PROVE  Inv'
  <2>1. n \in Named \cup {None}
    BY CallParts
  <2> QED
    BY <1>1, <1>3, <2>1, CallParts, Parts, AnswerKeeps DEF Inv, Statuses
<1> QED
  BY <1>2, <1>3 DEF VoiceCommand

\* An edit of the design.
LEMMA EditKeeps ==
    ASSUME Inv, NEW c \in calls, Edit(c)
    PROVE  Inv'
<1>1. PICK draft \in SUBSET (c.snap \cup Unused), sel \in c.snap \cup Unused \cup {None} :
         Save(c, draft, FALSE) /\ Answer(c, "proposal", draft, sel, TRUE)
  BY DEF Edit
<1>2. draft \in SUBSET Named /\ sel \in Named \cup {None}
  BY CallParts
<1> QED
  BY <1>1, <1>2, Parts, AnswerKeeps DEF Inv, Edit, Statuses

\* A call that is refused.
LEMMA RefuseKeeps ==
    ASSUME Inv, NEW c \in calls, Refuse(c)
    PROVE  Inv'
<1>1. Answer(c, "refused", {}, None, FALSE)
  BY DEF Refuse
<1> QED
  BY <1>1, Parts, AnswerKeeps DEF Inv, Refuse, Statuses

\* The design of a session is given up.
LEMMA ClearPendingKeeps ==
    ASSUME Inv, NEW c \in calls, ClearPending(c)
    PROVE  Inv'
<1>1. calls' = calls \ {c} /\ UNCHANGED <<opened, catalog, page, mics>>
  BY DEF ClearPending
<1>2. staged' \in [Sessions -> SUBSET Named] /\ asked' \in [Sessions -> BOOLEAN]
  BY Parts DEF Inv, ClearPending, Save
<1>3. Proper(calls') /\ Follows
  BY <1>1, EndTyped DEF Inv
<1> QED
  BY <1>1, <1>2, <1>3, BackendKeeps, Parts DEF Inv

-----------------------------------------------------------------------------
(* Answers *)

\* An answer leaves a page.
LEMMA HandledTyped ==
    ASSUME NEW pg \in PageRec, NEW ans \in Answers
    PROVE  /\ Handled(pg, ans) \in PageRec /\ Handled(pg, ans).up = pg.up
           /\ Handled(pg, ans).on = pg.on /\ Handled(pg, ans).sending = FALSE
<1> DEFINE mode == Mode(ans)
           gone == mode = "executed" /\ ans.tree = {}
           tree == IF ans.tree # {} THEN ans.tree ELSE IF gone THEN {} ELSE pg.tree
           sel == IF gone THEN None ELSE ans.sel
           plan == CASE mode = "confirmation_required" -> TRUE
                     [] mode = "session_updated" -> pg.plan
                     [] OTHER -> FALSE
           view == IF mode = "failed" THEN "trace"
                   ELSE IF ans.tree # {} THEN "draft"
                   ELSE IF gone /\ pg.view = "draft" THEN "conversation" ELSE pg.view
<1>1. tree \in SUBSET Named /\ sel \in Named \cup {None}
  BY DEF PageRec, Answers
<1>2. plan \in BOOLEAN
  BY DEF PageRec
<1>3. view \in Views
  BY DEF PageRec, Views
<1>4. Handled(pg, ans) = [pg EXCEPT !.tree = tree, !.sel = sel, !.plan = plan, !.view = view,
                                    !.trace = TRUE, !.heard = FALSE, !.sending = FALSE]
  BY DEF Handled
<1> HIDE DEF tree, sel, plan, view
<1> QED
  BY <1>1, <1>2, <1>3, <1>4 DEF PageRec

\* The end of a turn, with an answer or refused.
LEMMA HandleTurnKeeps ==
    ASSUME Inv, NEW c \in calls, HandleTurn(c) \/ HandleRefused(c)
    PROVE  Inv'
<1>1. /\ c.kind \in Turns /\ calls' = calls \ {c} /\ UNCHANGED mics
      /\ UNCHANGED <<opened, staged, asked, catalog>>
  BY DEF HandleTurn, HandleRefused, Stays
<1>2. c.ans \in Answers /\ c.live \in BOOLEAN
  BY Parts DEF Inv, CallRec
<1>3. /\ page' \in PageRec /\ page'.up = page.up /\ page'.on = page.on
      /\ page'.sending = page.sending \/ (c.live /\ page'.sending = FALSE)
  <2>1. CASE HandleTurn(c)
    BY <1>2, <2>1, HandledTyped, Parts DEF Inv, HandleTurn
  <2>2. CASE HandleRefused(c)
    BY <1>2, <2>2, Parts DEF Inv, HandleRefused, PageRec
  <2> QED
    BY <2>1, <2>2
<1>4. Proper(calls') /\ Follows
  BY <1>1, EndTyped DEF Inv
<1>5. TypeInv'
  BY <1>1, <1>3, <1>4, PageTyped, Parts DEF Inv
<1>6. Apart'
  BY <1>1, <1>3, <1>4, ApartLowers, ApartStays, Parts DEF Inv
<1> QED
  BY <1>5, <1>6 DEF Inv

\* The end of a confirmation, of an opening and of a dismissal.
LEMMA HandleOthersKeep ==
    ASSUME Inv, NEW c \in calls, HandleConfirm(c) \/ HandleOpen(c) \/ ClearRefused(c)
    PROVE  Inv'
<1>1. /\ calls' = calls \ {c} /\ UNCHANGED mics /\ UNCHANGED <<opened, staged, asked, catalog>>
  BY DEF HandleConfirm, HandleOpen, ClearRefused, Stays
<1>2. c.s \in Sessions \cup {None} /\ page \in PageRec
  BY Parts DEF Inv, CallRec
<1>3. /\ page' \in PageRec /\ page'.up = page.up /\ page'.on = page.on
      /\ page'.sending = page.sending
  <2>1. CASE HandleConfirm(c)
    BY <1>2, <2>1 DEF HandleConfirm, PageRec, Views
  <2>2. CASE HandleOpen(c)
    BY <1>2, <2>2 DEF HandleOpen, PageRec
  <2>3. CASE ClearRefused(c)
    BY <1>2, <2>3 DEF ClearRefused
  <2> QED
    BY <2>1, <2>2, <2>3
<1>4. Proper(calls') /\ Follows
  BY <1>1, EndTyped DEF Inv
<1> QED
  BY <1>1, <1>3, <1>4, ApartStays, PageTyped, Parts DEF Inv

-----------------------------------------------------------------------------
(* The theorems *)

\* At the start nothing is under way.
LEMMA InvInit ==
    ASSUME First \subseteq Products \cup {None}, Init
    PROVE  Inv
<1>1. PICK p \in First : page = [Fresh(p) EXCEPT !.up = FALSE]
  BY DEF Init
<1>2. page \in PageRec /\ ~ page.on
  BY <1>1 DEF Fresh, PageRec, Views
<1>3. TypeOK
  BY <1>2 DEF Init, TypeOK, PageRec, Named
<1> QED
  BY <1>2, <1>3 DEF Init, Inv, TypeInv, Proper, Apart, OneTurn

\* Every step keeps Inv.
LEMMA InvNext ==
    ASSUME Inv, [Next]_vars
    PROVE  Inv'
<1>1. CASE UNCHANGED vars
  <2>1. UNCHANGED <<opened, staged, asked, catalog, page, calls, mics>>
    BY <1>1 DEF vars
  <2>2. Proper(calls') /\ Follows
    BY <2>1, Parts DEF Inv, Follows
  <2> QED
    BY <2>1, <2>2, BackendKeeps, Parts DEF Inv
<1>2. CASE Act
  <2>1. \A w \in {"other", "confirm", "clear", "select"} : SubmitVoice(w) => Inv'
    BY SubmitVoiceKeeps
  <2> QED
    BY <1>2, <2>1, TurnsKeep, AsksKeep, DismissPlanKeeps, LooksKeep, StopListeningKeeps,
       ChoosesKeep, LeavePageKeeps DEF Act, Named
<1>3. CASE ChooseModel \/ OpenPage
  BY <1>3, ChoosesKeep, OpenPageKeeps
<1>4. ASSUME NEW c \in calls, Serve(c)
      PROVE  Inv'
  <2>1. CASE Analyze(c)
    <3>2. c.p # None /\ UNCHANGED <<opened, catalog, page, mics>>
      BY <2>1, Parts DEF Analyze, Inv, CallRec
    <3>3. CASE Answer(c, "clarification", Seeded(c.snap, c.p), Chosen(c), TRUE)
               /\ UNCHANGED <<staged, asked>>
      BY <3>2, <3>3, PlanParts, Parts, AnswerKeeps DEF Inv, Statuses
    <3> QED
      BY <3>2, <3>3, <2>1, StagesKeep DEF Analyze
  <2> QED
    BY <1>4, <2>1, OpenSessionKeeps, OpenForTurnKeeps, ReadSessionKeeps, RouteVoiceKeeps,
       CommitKeeps, NothingToConfirmKeeps, PlansKeep, VoiceCommandKeeps, EditKeeps, ClearPendingKeeps,
       RefuseKeeps DEF Serve
<1>5. ASSUME NEW c \in calls, Receive(c)
      PROVE  Inv'
  BY <1>5, MicKeeps, NotHeardKeeps, HeardKeeps, HandleTurnKeeps, HandleOthersKeep DEF Receive
<1> QED
  BY <1>1, <1>2, <1>3, <1>4, <1>5 DEF Next, Answered

\* Whatever the person does and the backend answers, the state of the page, of
\* its calls and of the sessions keeps its type.
THEOREM TypeCorrect ==
    ASSUME First \subseteq Products \cup {None}
    PROVE  Unfair => []TypeOK
<1>1. Init => Inv
  BY InvInit
<1>2. Inv /\ [Next]_vars => Inv'
  BY InvNext
<1>3. Inv => TypeOK
  BY DEF Inv, TypeInv
<1> QED
  BY <1>1, <1>2, <1>3, PTL DEF Unfair

\* However the person hurries, two turns of one page never work on clones of
\* the same session.
THEOREM OneTurnAlways ==
    ASSUME First \subseteq Products \cup {None}
    PROVE  Unfair => []OneTurn
<1>1. Init => Inv
  BY InvInit
<1>2. Inv /\ [Next]_vars => Inv'
  BY InvNext
<1>3. Inv => OneTurn
  BY DEF Inv, Apart
<1> QED
  BY <1>1, <1>2, <1>3, PTL DEF Unfair

-----------------------------------------------------------------------------
(* The microphone of a person who waits *)

VoiceCalls == {c \in calls : c.kind \in {"mic", "stt"}}

\* What such a person's microphone depends on: it is asked for once and while
\* the page does not listen, by a page that stays, and a transcript that waits
\* for its review was heard by a capture that is over.
Held ==
    ~ rough =>
        /\ mics = IF page.on THEN 1 ELSE 0
        /\ \A c \in VoiceCalls : c.live /\ ~ page.on
        /\ \A c, d \in VoiceCalls : c = d
        /\ page.heard => ~ page.on

\* A step that begins nothing with the microphone.
LEMMA HeldStays ==
    ASSUME Held, UNCHANGED <<mics, rough>>, page'.on = page.on,
           page'.heard => page.heard \/ ~ page.on, VoiceCalls' \subseteq VoiceCalls
    PROVE  Held'
  BY DEF Held

\* Any step but those with the microphone.
LEMMA HeldElsewhere ==
    ASSUME Inv, Held, NEW c \in calls,
           \/ OpenSession(c) \/ OpenForTurn(c) \/ ReadSession(c) \/ RouteVoice(c)
           \/ ClearPending(c) \/ HandleTurn(c) \/ HandleRefused(c) \/ HandleConfirm(c)
           \/ HandleOpen(c) \/ ClearRefused(c)
    PROVE  Held'
<1>1. UNCHANGED <<mics, rough>>
  BY DEF OpenSession, OpenForTurn, ReadSession, RouteVoice, ClearPending, HandleTurn,
         HandleRefused, HandleConfirm, HandleOpen, ClearRefused, Stays
<1>2. /\ c \in CallRec /\ page \in PageRec /\ c.ans \in Answers
  BY Parts DEF Inv, CallRec
<1>3. page'.on = page.on /\ (page'.heard => page.heard)
  <2>1. CASE HandleTurn(c)
    <3>1. page' = page \/ page' = Handled(page, c.ans)
      BY <2>1 DEF HandleTurn
    <3>2. Handled(page, c.ans).on = page.on /\ Handled(page, c.ans).heard = FALSE
      BY <1>2 DEF Handled, PageRec
    <3> QED
      BY <3>1, <3>2
  <2>2. CASE HandleRefused(c) \/ HandleConfirm(c) \/ HandleOpen(c)
    BY <1>2, <2>2 DEF HandleRefused, HandleConfirm, HandleOpen, PageRec
  <2>3. CASE OpenForTurn(c)
    BY <1>2, <2>3 DEF OpenForTurn, PageRec
  <2>4. CASE OpenSession(c) \/ ReadSession(c) \/ RouteVoice(c) \/ ClearPending(c)
             \/ ClearRefused(c)
    BY <2>4 DEF OpenSession, ReadSession, RouteVoice, ClearPending, ClearRefused
  <2> QED
    BY <2>1, <2>2, <2>3, <2>4
<1>4. VoiceCalls' \subseteq VoiceCalls
  <2>1. CASE calls' = calls \ {c}
    BY <2>1 DEF VoiceCalls
  <2>2. CASE OpenSession(c)
    <3>1. PICK s : calls' = (calls \ {c}) \cup {[c EXCEPT !.at = "back", !.s = s]}
      BY <2>2 DEF OpenSession
    <3>2. [c EXCEPT !.at = "back", !.s = s].kind = "open"
      BY <1>2, <2>2 DEF OpenSession, CallRec
    <3> QED
      BY <3>1, <3>2 DEF VoiceCalls
  <2>3. CASE ReadSession(c) \/ RouteVoice(c)
    <3>1. PICK d : d.kind = c.kind /\ calls' = (calls \ {c}) \cup {d}
      <4>1. CASE ReadSession(c)
        <5>1. PICK at : calls' = (calls \ {c}) \cup
                 {[c EXCEPT !.at = at, !.snap = staged[c.s], !.plan = asked[c.s]]}
          BY <4>1 DEF ReadSession
        <5>2. [c EXCEPT !.at = at, !.snap = staged[c.s], !.plan = asked[c.s]].kind = c.kind
          BY <1>2 DEF CallRec
        <5> QED
          BY <5>1, <5>2
      <4>2. CASE RouteVoice(c)
        <5>1. PICK d : /\ \/ d = [c EXCEPT !.at = "read"]
                          \/ d = [c EXCEPT !.at = "again", !.snap = {}, !.plan = FALSE]
                       /\ calls' = (calls \ {c}) \cup {d}
          BY <4>2 DEF RouteVoice
        <5>2. d.kind = c.kind
          BY <1>2, <5>1 DEF CallRec
        <5> QED
          BY <5>1, <5>2
      <4> QED
        BY <2>3, <4>1, <4>2
    <3>2. d.kind \notin {"mic", "stt"}
      BY <1>2, <2>3, <3>1 DEF ReadSession, RouteVoice, CallRec, Turns
    <3> QED
      BY <3>1, <3>2 DEF VoiceCalls
  <2>4. CASE OpenForTurn(c)
    <3>1. PICK s \in Lowest(Sessions \ opened) :
             LET cs == (calls \ {c}) \cup {[c EXCEPT !.s = s]}
             IN  calls' = IF c.live THEN Ensured(page', cs) ELSE cs
      BY <2>4 DEF OpenForTurn
    <3> DEFINE d == [c EXCEPT !.s = s]
               cs == (calls \ {c}) \cup {d}
    <3>2. s \in Sessions
      BY Parts DEF Lowest
    <3>3. d \in CallRec /\ d.id = c.id /\ d.kind \notin {"mic", "stt"}
      BY <1>2, <2>4, <3>2 DEF OpenForTurn, CallRec
    <3>4. Proper(cs)
      <4> HIDE DEF d
      <4> QED
        BY <3>3, ProperWith, Parts DEF Inv
    <3>5. \A e \in calls' : e.kind # "open" => e \in cs
      <4> HIDE DEF cs
      <4>1. CASE c.live
        BY <3>1, <3>4, <4>1, EnsuredTyped DEF Inv, TypeInv, cs
      <4>2. CASE ~ c.live
        BY <3>1, <4>2 DEF cs
      <4> QED
        BY <4>1, <4>2
    <3> HIDE DEF d
    <3> QED
      BY <3>3, <3>5 DEF VoiceCalls
  <2> QED
    BY <2>1, <2>2, <2>3, <2>4 DEF ClearPending, HandleTurn, HandleRefused, HandleConfirm,
       HandleOpen, ClearRefused
<1> QED
  BY <1>1, <1>3, <1>4, HeldStays

\* An answer of the backend.
LEMMA HeldAnswers ==
    ASSUME Inv, Held, NEW c \in calls,
           \/ Commit(c) \/ CommitFailed(c) \/ NothingToConfirm(c) \/ PlanDesigns(c)
           \/ PlanWaits(c) \/ PlanFails(c) \/ VoiceCommand(c) \/ Analyze(c) \/ Edit(c)
           \/ Refuse(c)
    PROVE  Held'
<1>1. UNCHANGED <<page, mics, rough>>
  BY DEF Commit, CommitFailed, NothingToConfirm, PlanDesigns, PlanWaits, PlanFails,
         VoiceCommand, Analyze, Edit, Refuse
<1>2. c \in CallRec /\ c.kind \notin {"mic", "stt"}
  BY Parts DEF Inv, Commit, CommitFailed, NothingToConfirm, PlanDesigns, PlanWaits, PlanFails,
         VoiceCommand, Analyze, Edit, Refuse, Plans
<1>3. PICK st, tree, sel, plan : Answer(c, st, tree, sel, plan)
  BY DEF Commit, CommitFailed, NothingToConfirm, PlanDesigns, PlanWaits, PlanFails,
         VoiceCommand, Analyze, Edit, Refuse
<1> DEFINE a == [status |-> st, tree |-> tree, sel |-> sel, plan |-> plan]
           d == [c EXCEPT !.at = "back", !.snap = {}, !.plan = FALSE, !.ans = a]
<1>4. calls' = (calls \ {c}) \cup {d}
  BY <1>3 DEF Answer
<1> HIDE DEF a
<1>5. d.kind = c.kind
  BY <1>2 DEF CallRec
<1>6. VoiceCalls' \subseteq VoiceCalls
  <2> HIDE DEF d
  <2> QED
    BY <1>2, <1>4, <1>5 DEF VoiceCalls
<1> QED
  BY <1>1, <1>6, HeldStays

\* What the microphone and the transcription answer.
LEMMA HeldVoice ==
    ASSUME Inv, Held, NEW c \in calls,
           MicGranted(c) \/ MicRefused(c) \/ NotHeard(c) \/ Heard(c)
    PROVE  Held'
<1>1. /\ c \in VoiceCalls /\ VoiceCalls' = VoiceCalls \ {c} /\ UNCHANGED rough
  BY DEF VoiceCalls, MicGranted, MicRefused, NotHeard, Heard, Stays
<1>2. page \in PageRec
  BY Parts DEF Inv
<1>3. CASE MicGranted(c)
  <2>1. mics' = mics + 1
    BY <1>3 DEF MicGranted
  <2>2. c.live => page'.on /\ ~ page'.heard
    BY <1>2, <1>3 DEF MicGranted, PageRec
  <2>3. ~ rough => mics = 0 /\ VoiceCalls' = {} /\ c.live
    BY <1>1 DEF Held
  <2>4. ~ rough => mics' = 1
    BY <2>1, <2>3
  <2> QED
    BY <1>1, <2>2, <2>3, <2>4 DEF Held
<1>4. CASE MicRefused(c) \/ NotHeard(c) \/ Heard(c)
  <2>1. /\ UNCHANGED mics /\ (c.live => page'.on = page.on \/ ~ page'.on)
        /\ (~ c.live => page' = page)
    BY <1>2, <1>4 DEF MicRefused, NotHeard, Heard, PageRec
  <2>2. ~ rough => c.live /\ ~ page.on /\ VoiceCalls' = {}
    BY <1>1 DEF Held
  <2>3. ~ rough => ~ page'.on
    BY <2>1, <2>2
  <2> QED
    BY <1>1, <2>1, <2>2, <2>3 DEF Held
<1> QED
  BY <1>3, <1>4

\* Calls that have nothing to do with the microphone are sent.
LEMMA HeldSends ==
    ASSUME Inv, Held, NEW k \in Kinds \ {"mic", "stt"}, NEW w \in Words, Send(k, w),
           k = "repo" => page.product # None, UNCHANGED <<mics, rough>>,
           page'.on = page.on, page'.heard = page.heard
    PROVE  Held'
<1>1. \A c \in calls' \ calls : c.kind = k
  BY SendTyped DEF Inv
<1>2. VoiceCalls' \subseteq VoiceCalls
  BY <1>1 DEF VoiceCalls
<1> QED
  BY <1>2, HeldStays

\* What the person does that sends such a call.
LEMMA HeldAsks ==
    ASSUME Inv, Held,
           \/ \E w \in {"other", "confirm"} : SendText(w)
           \/ \E op \in {"rename", "add", "delete"} : EditDraft(op)
           \/ AnalyzeRepository \/ ConfirmPlan
           \/ \E w \in {"other", "confirm", "clear", "select"} : SubmitVoice(w)
    PROVE  Held'
<1>1. PICK k \in Kinds \ {"mic", "stt"}, w \in Words :
         Send(k, w) /\ (k = "repo" => page.product # None)
  <2>1. {"text", "edit", "repo", "confirm", "voice"} \subseteq Kinds \ {"mic", "stt"}
    BY DEF Kinds, Turns
  <2> QED
    BY <2>1 DEF SendText, EditDraft, AnalyzeRepository, ConfirmPlan, SubmitVoice, Words,
       RepositoryOffers
<1>2. /\ UNCHANGED <<mics, rough>>
      /\ page' = page \/ page' = [page EXCEPT !.sending = TRUE]
  BY DEF SendText, EditDraft, AnalyzeRepository, ConfirmPlan, SubmitVoice, Stays
<1>3. page'.on = page.on /\ page'.heard = page.heard
  BY <1>2, Parts DEF Inv, PageRec
<1> QED
  BY <1>1, <1>2, <1>3, HeldSends

\* A dismissal, and what the person does with the page alone.
LEMMA HeldLooks ==
    ASSUME Inv, Held,
           \/ DismissPlan \/ CancelVoice
           \/ \E n \in Named : SelectNode(n)
           \/ \E view \in Views : ShowView(view) \/ SpeakView(view)
    PROVE  Held'
<1>1. UNCHANGED <<mics, rough>>
  BY DEF DismissPlan, CancelVoice, SelectNode, ShowView, SpeakView, Stays
<1>2. page'.on = page.on /\ (page'.heard => page.heard)
  BY Parts DEF Inv, PageRec, DismissPlan, CancelVoice, SelectNode, ShowView, SpeakView
<1>3. UNCHANGED calls \/ Send("clear", "")
  BY DEF DismissPlan, CancelVoice, SelectNode, ShowView, SpeakView
<1>4. VoiceCalls' \subseteq VoiceCalls
  <2>1. "clear" \in Kinds /\ "" \in Words
    BY DEF Kinds, Words
  <2>2. Send("clear", "") => \A c \in calls' \ calls : c.kind = "clear"
    BY <2>1, SendTyped DEF Inv
  <2> QED
    BY <1>3, <2>2 DEF VoiceCalls
<1> QED
  BY <1>1, <1>2, <1>4, HeldStays

\* The life of the page: a capture is stopped by the page that leaves.
LEMMA HeldLives ==
    ASSUME Inv, Held,
           \/ ChooseModel \/ OpenPage \/ LeavePage
           \/ \E p \in Products \cup {None} : SwitchProduct(p)
    PROVE  Held'
<1>1. page \in PageRec /\ mics \in Nat /\ Proper(calls) /\ UNCHANGED rough
  BY Parts DEF Inv, ChooseModel, OpenPage, LeavePage, SwitchProduct, Stays
<1>2. CASE ChooseModel \/ \E p \in Products \cup {None} : SwitchProduct(p)
  <2>1. UNCHANGED mics /\ (UNCHANGED calls \/ calls' = Ensured(page', calls))
    BY <1>2 DEF ChooseModel, SwitchProduct
  <2>2. VoiceCalls' \subseteq VoiceCalls
    <3>1. \A c \in calls' : c.kind # "open" => c \in calls
      BY <1>1, <2>1, EnsuredTyped DEF Inv, TypeInv
    <3> QED
      BY <3>1 DEF VoiceCalls
  <2>3. page'.on = page.on /\ page'.heard = page.heard
    <3>1. CASE ChooseModel
      BY <1>1, <3>1 DEF ChooseModel, PageRec
    <3>2. ASSUME NEW p \in Products \cup {None}, SwitchProduct(p)
          PROVE  page'.on = page.on /\ page'.heard = page.heard
      <4>1. \/ page' = [page EXCEPT !.product = p]
            \/ page' = [page EXCEPT !.product = p, !.session = None, !.tree = {},
                                    !.sel = None, !.plan = FALSE, !.trace = FALSE,
                                    !.view = "conversation"]
        BY <3>2 DEF SwitchProduct
      <4> QED
        BY <1>1, <4>1 DEF PageRec
    <3> QED
      BY <1>2, <3>1, <3>2
  <2> QED
    BY <1>1, <2>1, <2>2, <2>3, HeldStays
<1>3. CASE OpenPage
  <2>1. UNCHANGED mics /\ calls' = Ensured(page', calls) /\ ~ page'.on /\ ~ page'.heard
    BY <1>3 DEF OpenPage, Fresh
  <2>2. \A c \in calls' : c.kind # "open" => c \in calls
    BY <1>1, <2>1, EnsuredTyped DEF Inv, TypeInv
  <2>3. VoiceCalls' \subseteq VoiceCalls
    BY <2>2 DEF VoiceCalls
  <2>4. ~ rough => ~ page.on
    <3>1. ~ page.up
      BY <1>3 DEF OpenPage
    <3> QED
      BY <3>1, Parts DEF Inv
  <2> QED
    BY <1>1, <2>1, <2>3, <2>4 DEF Held
<1>4. CASE LeavePage
  <2>1. mics' = (IF page.on THEN mics - 1 ELSE mics) /\ ~ page'.on /\ ~ page'.heard
        /\ calls' = Dead(calls) /\ (rough \/ calls = {})
    BY <1>4 DEF LeavePage, Fresh, Calm
  <2>2. ~ rough => mics' = 0
    BY <1>1, <2>1 DEF Held
  <2>3. ~ rough => calls' = {}
    BY <2>1 DEF Dead
  <2> QED
    BY <1>1, <2>1, <2>2, <2>3 DEF Held, VoiceCalls
<1> QED
  BY <1>2, <1>3, <1>4

\* The microphone is asked for when nothing is under way.
LEMMA HeldListens ==
    ASSUME Inv, Held, StartListening \/ RetryVoice
    PROVE  Held'
<1>1. /\ Send("mic", "") /\ UNCHANGED <<mics, rough>> /\ (rough \/ calls = {})
      /\ page' = page \/ page' = [page EXCEPT !.heard = FALSE]
      /\ ~ page.on \/ page.heard
  BY DEF StartListening, RetryVoice, Stays, Calm, VoiceCardOffers
<1>2. "mic" \in Kinds /\ "" \in Words /\ "mic" # "repo"
  BY DEF Kinds, Words
<1>3. /\ \A c \in calls' \ calls : c.live = TRUE
      /\ \A c, d \in calls' \ calls : c = d
  BY <1>1, <1>2, SendTyped DEF Inv
<1>4. page'.on = page.on /\ (page'.heard => page.heard)
  BY <1>1, Parts DEF Inv, PageRec
<1>5. ~ rough => VoiceCalls' \subseteq calls' \ calls
  BY <1>1 DEF VoiceCalls
<1> QED
  BY <1>1, <1>3, <1>4, <1>5 DEF Held

\* Listening stops, and the only call of its kind is the transcription.
LEMMA HeldStops ==
    ASSUME Inv, Held, StopListening
    PROVE  Held'
<1>1. /\ Send("stt", "") /\ mics' = mics - 1 /\ UNCHANGED rough /\ page.on
      /\ page' = [page EXCEPT !.on = FALSE]
  BY DEF StopListening, Stays
<1>2. "stt" \in Kinds /\ "" \in Words /\ "stt" # "repo"
  BY DEF Kinds, Words
<1>3. /\ \A c \in calls' \ calls : c.live = TRUE
      /\ \A c, d \in calls' \ calls : c = d
  BY <1>1, <1>2, SendTyped DEF Inv
<1>4. page'.on = FALSE
  BY <1>1, Parts DEF Inv, PageRec
<1>5. mics' = mics - 1 /\ UNCHANGED rough
  BY <1>1
<1>6. ~ rough => mics' = 0
  <2>1. ~ rough => mics = 1
    BY <1>1 DEF Held
  <2> QED
    BY <1>5, <2>1
<1>7. ~ rough => VoiceCalls' \subseteq calls' \ calls
  BY <1>1 DEF VoiceCalls, Held
<1> QED
  BY <1>3, <1>4, <1>5, <1>6, <1>7 DEF Held

\* The microphone of a person who waits for the answers is held exactly while
\* the page listens, whichever way the page is left.
THEOREM MicReleasedAlways ==
    ASSUME First \subseteq Products \cup {None}
    PROVE  Unfair => []MicReleased
<1>1. Init => Inv /\ Held
  <2>1. Init => Held
    BY DEF Init, Held, VoiceCalls, Fresh
  <2> QED
    BY <2>1, InvInit
<1>2. Inv /\ Held /\ [Next]_vars => Inv' /\ Held'
  <2> SUFFICES ASSUME Inv, Held, [Next]_vars
               PROVE  Held'
    BY InvNext
  <2>1. CASE UNCHANGED vars
    BY <2>1 DEF vars, Held, VoiceCalls
  <2>2. CASE Act
    BY <2>2, HeldAsks, HeldLooks, HeldLives, HeldListens, HeldStops DEF Act, Named
  <2>3. CASE ChooseModel \/ OpenPage
    BY <2>3, HeldLives
  <2>4. CASE Answered
    BY <2>4, HeldElsewhere, HeldAnswers, HeldVoice DEF Answered, Serve, Receive
  <2> QED
    BY <2>1, <2>2, <2>3, <2>4 DEF Next
<1>3. Held => MicReleased
  BY DEF Held, MicReleased
<1> QED
  BY <1>1, <1>2, <1>3, PTL DEF Unfair
-----------------------------------------------------------------------------
(* What a session of a person who waits stages *)

\* What the constants are to be told apart by: no session and no node is taken
\* for none, and a product is no node.
Distinct == None \notin Sessions \cup Nodes /\ Products \cap Nodes = {}

\* Calls that read or write a design, and openings the page waits for.
Works == {c \in calls : c.kind \in Turns \cup {"confirm", "clear"}}
Opening == {c \in calls : c.live /\ c.kind = "open"}

\* An answer that is not handled yet, and a dismissal on its way, tell the page
\* something of its session.
Done(c) == c.at = "back" /\ c.ans.status # "refused"
Unseen == {c \in Works : c.s # None /\ (c.kind = "clear" \/ Done(c))}

\* The tree an answer leaves.
Left(tree, ans) == IF ans.tree # {} THEN ans.tree
                   ELSE IF ans.status = "execution" THEN {} ELSE tree

\* How far a call has come: it is about the page's session and product, its
\* clone is what the session stages, and what its answer makes of the page is
\* what the session was left with.
Told(c) ==
    /\ c.live /\ c.p = page.product
    /\ c.s = None => c.kind \in {"text", "voice"} /\ c.at \notin {"heard", "read"} /\ ~ Done(c)
    /\ c.s # None => c.s = page.session
    /\ c.at \in {"heard", "read"} => c.snap = staged[c.s]
    /\ c.kind = "clear" => c.at = "out" /\ page.tree = {}
    /\ c.kind = "edit" => c.say \in {"rename", "add", "delete"}
    /\ Done(c) => \/ staged[c.s] = {}
                  \/ c.kind # "confirm" /\ staged[c.s] = Left(page.tree, c.ans)

OneWork == (\A c, d \in Works : c = d) /\ \A c \in Works : Told(c)

\* The session of a page without one is opened once, and is empty.
OneOpening ==
    /\ \A c, d \in Opening : c = d
    /\ page.session # None => Opening = {}
    /\ \A c \in Opening : Done(c) => c.s \in opened /\ staged[c.s] = {}

\* Sessions are empty until they are opened; a design is about the product.
Staging ==
    /\ page.session \in opened \cup {None}
    /\ \A s \in Sessions \ opened : staged[s] = {}
    /\ page.session # None =>
          staged[page.session] = {} \/ page.product \in staged[page.session]

AsShown == page.session # None /\ Unseen = {} => staged[page.session] \in {{}, page.tree}

Shown == OneWork /\ OneOpening /\ Staging /\ AsShown

\* The tree a page shows once it has handled an answer.
LEMMA HandledTree ==
    ASSUME NEW pg \in PageRec, NEW ans \in Answers
    PROVE  Handled(pg, ans).tree = Left(pg.tree, ans)
<1>1. Mode(ans) = "executed" <=> ans.status = "execution"
  BY DEF Mode
<1>2. Handled(pg, ans).tree = IF ans.tree # {} THEN ans.tree
                              ELSE IF Mode(ans) = "executed" /\ ans.tree = {} THEN {}
                              ELSE pg.tree
  BY DEF Handled, PageRec
<1> QED
  BY <1>1, <1>2 DEF Left

\* A step that neither begins nor ends such a call, nor touches the session or
\* what the page shows of it, and after which the openings are old ones or have
\* no answer.
LEMMA ShownStays ==
    ASSUME Shown, Works' = Works, UNCHANGED <<opened, staged>>,
           page'.session = page.session, page'.tree = page.tree,
           page'.product = page.product,
           \A c, d \in Opening' : c = d, page.session # None => Opening' = {},
           \A c \in Opening' : c \in Opening \/ ~ Done(c)
    PROVE  Shown'
<1>1. OneWork'
  BY DEF Shown, OneWork, Told, Done
<1>2. OneOpening' /\ Staging'
  BY DEF Shown, OneOpening, Staging, Done
<1>3. AsShown'
  BY DEF Shown, AsShown, Unseen, Done
<1> QED
  BY <1>1, <1>2, <1>3 DEF Shown

\* The only call ends, and the page shows what the session stages.
LEMMA ShownEnds ==
    ASSUME Shown, NEW c \in Works, calls' = calls \ {c}, UNCHANGED <<opened, staged>>,
           page'.session = page.session, page'.product = page.product,
           page.session # None => staged[page.session] \in {{}, page'.tree}
    PROVE  Shown'
<1>1. Works' = {}
  BY DEF Shown, OneWork, Works
<1>2. Opening' = Opening
  BY DEF Works, Opening, Turns
<1>3. OneWork'
  BY <1>1 DEF OneWork
<1>4. OneOpening' /\ Staging' /\ AsShown'
  BY <1>2 DEF Shown, OneOpening, Staging, AsShown, Done
<1> QED
  BY <1>3, <1>4 DEF Shown

\* A page without a session, whose calls concern no design.
LEMMA ShownNew ==
    ASSUME Shown, Works' = {}, UNCHANGED <<opened, staged>>, page'.session = None,
           \A c, d \in Opening' : c = d, \A c \in Opening' : c \in Opening \/ ~ Done(c)
    PROVE  Shown'
<1>1. OneWork' /\ AsShown'
  BY DEF OneWork, AsShown
<1>2. OneOpening' /\ Staging'
  BY DEF Shown, OneOpening, Staging, Done
<1> QED
  BY <1>1, <1>2 DEF Shown

\* When nothing is under way, a call that is sent is the only one.
LEMMA SendsOne ==
    ASSUME calls = {}, NEW k, NEW w, Send(k, w)
    PROVE  calls' = {Call(1, k, w)}
<1>1. FreeIds = 1 .. 4
  BY DEF FreeIds, Ids
<1>2. Lowest(1 .. 4) = {1}
  BY DEF Lowest
<1> QED
  BY <1>1, <1>2 DEF Send

\* Calls that concern no design leave alone what the page shows.
LEMMA ShownSends ==
    ASSUME Inv, Shown, NEW k \in {"mic", "stt"}, NEW w \in Words, Send(k, w),
           UNCHANGED <<opened, staged>>, page'.session = page.session,
           page'.tree = page.tree, page'.product = page.product
    PROVE  Shown'
<1>1. /\ calls \subseteq calls' /\ \A c \in calls' \ calls : c.kind = k
  BY SendTyped DEF Inv, Kinds
<1>2. Works' = Works /\ Opening' = Opening
  BY <1>1 DEF Works, Opening, Turns
<1> QED
  BY <1>2, ShownStays DEF Shown, OneOpening

\* A call that concerns the design is sent when nothing else is under way.
LEMMA ShownBegins ==
    ASSUME Inv, Shown, calls = {}, NEW k \in Turns \cup {"confirm", "clear"}, NEW w \in Words,
           Send(k, w), UNCHANGED <<opened, staged>>, page'.session = page.session,
           page'.product = page.product, k = "repo" => page.product # None,
           IF k = "clear" THEN page'.tree = {} ELSE page'.tree = page.tree,
           page.session = None => k \in {"text", "voice"},
           k = "edit" => w \in {"rename", "add", "delete"}
    PROVE  Shown'
<1>0. PICK c : c = Call(1, k, w)
  OBVIOUS
<1>1. calls' = {c}
  BY <1>0, SendsOne
<1>2. /\ c.kind = k /\ c.say = w /\ c.live = TRUE /\ c.s = page.session /\ c.p = page.product
      /\ c.at = "out"
  BY <1>0 DEF Call
<1>3. ~ Done(c) /\ c.at \notin {"heard", "read"}
  BY <1>2 DEF Done
<1>4. Works' = {c} /\ Opening' = {}
  <2>1. k # "open"
    BY DEF Turns
  <2> QED
    BY <1>1, <1>2, <2>1 DEF Works, Opening
<1>5. OneWork'
  <2>1. Told(c)'
    BY <1>2, <1>3 DEF Told, Done
  <2> QED
    BY <1>4, <2>1 DEF OneWork
<1>6. OneOpening' /\ Staging'
  BY <1>4 DEF Shown, OneOpening, Staging
<1>7. AsShown'
  <2>1. Unseen = {}
    BY DEF Unseen, Works
  <2>2. CASE k = "clear"
    <3>1. page'.session # None => c \in Unseen'
      BY <1>2, <1>4, <2>2 DEF Unseen
    <3> QED
      BY <3>1 DEF AsShown
  <2>3. CASE k # "clear"
    BY <2>1, <2>3 DEF Shown, AsShown
  <2> QED
    BY <2>2, <2>3
<1> QED
  BY <1>5, <1>6, <1>7 DEF Shown

\* What the effect makes of the calls: openings alone, of which one lives.
LEMMA EnsuredOpens ==
    ASSUME TypeOK, NEW cs, Proper(cs), NEW pg
    PROVE  /\ \A c : c.kind # "open" => (c \in Ensured(pg, cs) <=> c \in cs)
           /\ \A c \in Ensured(pg, cs) :
                 c.live /\ c.kind = "open" => pg.session = None /\ c.at = "out"
           /\ \A c, d \in Ensured(pg, cs) :
                 c.live /\ d.live /\ c.kind = "open" /\ d.kind = "open" => c = d
<1> DEFINE opens == {c \in cs : c.live /\ c.kind = "open"}
           rest == (cs \ opens) \cup Dead(opens)
           free == Ids \ {c.id : c \in rest}
           ds == {[Call(i, "open", "") EXCEPT !.s = None, !.p = None, !.sel = None]
                  : i \in Lowest(free)}
<1>1. \A c \in opens : c \in CallRec
  BY DEF Proper
<1>2. \A c \in Dead(opens) : c.live = FALSE /\ c.kind = "open"
  BY <1>1 DEF Dead, CallRec
<1>3. /\ \A c \in rest : ~ (c.live /\ c.kind = "open")
      /\ \A c : c.kind # "open" => (c \in rest <=> c \in cs)
  <2>1. \A c : c.kind # "open" => c \notin opens /\ c \notin Dead(opens)
    BY <1>2
  <2>2. \A c \in cs \ opens : ~ (c.live /\ c.kind = "open")
    OBVIOUS
  <2> HIDE DEF opens
  <2> QED
    BY <1>2, <2>1, <2>2
<1>4. \A c, d \in ds : c = d
  <2>1. free \in SUBSET Int
    BY DEF Ids
  <2> HIDE DEF free
  <2> QED
    BY <2>1, OneLowest
<1>5. \A d \in ds : d.kind = "open" /\ d.at = "out"
  <2> HIDE DEF free
  <2>1. ASSUME NEW i
        PROVE  LET d == [Call(i, "open", "") EXCEPT !.s = None, !.p = None, !.sel = None]
               IN  d.kind = "open" /\ d.at = "out"
    BY DEF Call
  <2> QED
    BY <2>1
<1>6. Ensured(pg, cs) = IF pg.session # None THEN rest ELSE rest \cup ds
  BY DEF Ensured
<1> HIDE DEF rest, ds
<1> QED
  BY <1>3, <1>4, <1>5, <1>6

\* What the person does that sends a call about the design.
LEMMA ShownAsks ==
    ASSUME Inv, Shown, ~ rough,
           \/ \E w \in {"other", "confirm"} : SendText(w)
           \/ \E op \in {"rename", "add", "delete"} : EditDraft(op)
           \/ AnalyzeRepository \/ ConfirmPlan
           \/ \E w \in {"other", "confirm", "clear", "select"} : SubmitVoice(w)
    PROVE  Shown'
<1>1. calls = {} /\ UNCHANGED <<opened, staged>>
  BY DEF SendText, EditDraft, AnalyzeRepository, ConfirmPlan, SubmitVoice, Calm, Stays
<1>2. page' = page \/ page' = [page EXCEPT !.sending = TRUE]
  BY DEF SendText, EditDraft, AnalyzeRepository, ConfirmPlan, SubmitVoice
<1>3. page'.session = page.session /\ page'.product = page.product /\ page'.tree = page.tree
  BY <1>2, Parts DEF Inv, PageRec
<1>4. PICK k \in Turns \cup {"confirm"}, w \in Words :
         /\ Send(k, w) /\ (k = "repo" => page.product # None)
         /\ page.session = None => k \in {"text", "voice"}
         /\ k = "edit" => w \in {"rename", "add", "delete"}
  <2>1. {"text", "edit", "repo", "confirm", "voice"} \subseteq Turns \cup {"confirm"}
    BY DEF Turns
  <2> QED
    BY <2>1 DEF SendText, EditDraft, AnalyzeRepository, ConfirmPlan, SubmitVoice, Words,
       RepositoryOffers
<1>5. k # "clear"
  BY DEF Turns
<1> QED
  BY <1>1, <1>3, <1>4, <1>5, ShownBegins

\* A dismissal.
LEMMA ShownDismisses ==
    ASSUME Inv, Shown, ~ rough, DismissPlan
    PROVE  Shown'
<1>1. calls = {} /\ UNCHANGED <<opened, staged>>
  BY DEF DismissPlan, Calm, Stays
<1>2. /\ page'.session = page.session /\ page'.product = page.product /\ page'.tree = {}
  BY Parts DEF Inv, PageRec, DismissPlan
<1>3. CASE page.session # None
  <2>1. Send("clear", "") /\ "" \in Words
    BY <1>3 DEF DismissPlan, Words
  <2> QED
    BY <1>1, <1>2, <1>3, <2>1, ShownBegins
<1>4. CASE page.session = None
  <2>1. calls' = {}
    BY <1>1, <1>4 DEF DismissPlan
  <2>2. Works' = {} /\ Opening' = {}
    BY <2>1 DEF Works, Opening
  <2> QED
    BY <1>1, <1>2, <1>4, <2>2, ShownNew
<1> QED
  BY <1>3, <1>4

\* What the person does with the page alone, and with the microphone.
LEMMA ShownLooks ==
    ASSUME Inv, Shown,
           \/ CancelVoice \/ StartListening \/ RetryVoice \/ StopListening
           \/ \E n \in Named : SelectNode(n)
           \/ \E view \in Views : ShowView(view) \/ SpeakView(view)
    PROVE  Shown'
<1>1. UNCHANGED <<opened, staged>>
  BY DEF CancelVoice, StartListening, RetryVoice, StopListening, SelectNode, ShowView,
         SpeakView, Stays
<1>2. page'.session = page.session /\ page'.tree = page.tree /\ page'.product = page.product
  BY Parts DEF Inv, PageRec, CancelVoice, StartListening, RetryVoice, StopListening,
         SelectNode, ShowView, SpeakView
<1>3. CASE UNCHANGED calls
  <2>1. Works' = Works /\ Opening' = Opening
    BY <1>3 DEF Works, Opening
  <2> QED
    BY <1>1, <1>2, <2>1, ShownStays DEF Shown, OneOpening
<1>4. CASE Send("mic", "") \/ Send("stt", "")
  <2>1. "" \in Words
    BY DEF Words
  <2> QED
    BY <1>1, <1>2, <1>4, <2>1, ShownSends
<1> QED
  BY <1>3, <1>4 DEF CancelVoice, StartListening, RetryVoice, StopListening, SelectNode,
         ShowView, SpeakView

\* The effect that opens a session begins and ends no other call.
LEMMA EnsuredWorks ==
    ASSUME Inv, calls' = Ensured(page', calls)
    PROVE  /\ Works' = Works /\ (page'.session # None => Opening' = {})
           /\ \A c, d \in Opening' : c = d
           /\ \A c \in Opening' : ~ Done(c)
<1>1. /\ \A c : c.kind # "open" => (c \in calls' <=> c \in calls)
      /\ \A c \in calls' : c.live /\ c.kind = "open" => page'.session = None /\ c.at = "out"
      /\ \A c, d \in calls' :
            c.live /\ d.live /\ c.kind = "open" /\ d.kind = "open" => c = d
  BY EnsuredOpens, Parts DEF Inv, TypeInv
<1>2. Works' = Works
  <2>1. "open" \notin Turns \cup {"confirm", "clear"}
    BY DEF Turns
  <2> QED
    BY <1>1, <2>1 DEF Works
<1> QED
  BY <1>1, <1>2 DEF Opening, Done

\* The life of the page.
LEMMA ShownLives ==
    ASSUME Inv, Shown, ~ rough,
           \/ ChooseModel \/ OpenPage \/ LeavePage
           \/ \E p \in Products \cup {None} : SwitchProduct(p)
    PROVE  Shown'
<1>1. page \in PageRec /\ UNCHANGED <<opened, staged>>
  BY Parts DEF Inv, ChooseModel, OpenPage, LeavePage, SwitchProduct, Stays
<1>2. CASE ChooseModel
  <2>1. /\ page'.session = page.session /\ page'.tree = page.tree
        /\ page'.product = page.product /\ calls' = Ensured(page', calls)
    BY <1>1, <1>2 DEF ChooseModel, PageRec
  <2> QED
    BY <1>1, <2>1, EnsuredWorks, ShownStays
<1>3. CASE OpenPage
  <2>1. page'.session = None /\ calls' = Ensured(page', calls)
    BY <1>3 DEF OpenPage, Fresh
  <2>2. Works = {}
    BY <1>3 DEF OpenPage, Shown, OneWork, Told, Works, Inv, Apart
  <2> QED
    BY <1>1, <2>1, <2>2, EnsuredWorks, ShownNew
<1>4. CASE LeavePage
  <2>1. page'.session = None /\ calls' = {}
    BY <1>4 DEF LeavePage, Fresh, Calm, Dead
  <2>2. Works' = {} /\ Opening' = {}
    BY <2>1 DEF Works, Opening
  <2> QED
    BY <1>1, <2>1, <2>2, ShownNew
<1>5. ASSUME NEW p \in Products \cup {None}, SwitchProduct(p)
      PROVE  Shown'
  <2>1. calls = {} /\ Works = {}
    BY <1>5 DEF SwitchProduct, Calm, Works
  <2>2. page'.session = None
    BY <1>1, <1>5 DEF SwitchProduct, PageRec
  <2>3. CASE UNCHANGED calls
    <3>1. Works' = {} /\ Opening' = {}
      BY <2>1, <2>3 DEF Works, Opening
    <3> QED
      BY <1>1, <2>2, <3>1, ShownNew
  <2>4. CASE calls' = Ensured(page', calls)
    BY <1>1, <2>1, <2>2, <2>4, EnsuredWorks, ShownNew
  <2> QED
    BY <1>5, <2>3, <2>4 DEF SwitchProduct
<1> QED
  BY <1>2, <1>3, <1>4, <1>5

\* What the microphone and the transcription answer.
LEMMA ShownHears ==
    ASSUME Inv, Shown, NEW c \in calls,
           MicGranted(c) \/ MicRefused(c) \/ NotHeard(c) \/ Heard(c)
    PROVE  Shown'
<1>1. /\ c.kind \in {"mic", "stt"} /\ calls' = calls \ {c} /\ UNCHANGED <<opened, staged>>
  BY DEF MicGranted, MicRefused, NotHeard, Heard, Stays
<1>2. page'.session = page.session /\ page'.tree = page.tree /\ page'.product = page.product
  BY Parts DEF Inv, PageRec, MicGranted, MicRefused, NotHeard, Heard
<1>3. Works' = Works /\ Opening' = Opening
  BY <1>1 DEF Works, Opening, Turns
<1> QED
  BY <1>1, <1>2, <1>3, ShownStays DEF Shown, OneOpening

\* Answers that the page handles.
LEMMA ShownHandles ==
    ASSUME Inv, Shown, Distinct, NEW c \in calls,
           HandleTurn(c) \/ HandleRefused(c) \/ HandleConfirm(c) \/ HandleOpen(c)
           \/ ClearRefused(c)
    PROVE  Shown'
<1>1. calls' = calls \ {c} /\ UNCHANGED <<opened, staged>>
  BY DEF HandleTurn, HandleRefused, HandleConfirm, HandleOpen, ClearRefused, Stays
<1>2. page \in PageRec /\ c \in CallRec /\ c.ans \in Answers
  BY Parts DEF Inv, CallRec
<1>3. CASE c.kind # "open"
  <2>1. c \in Works /\ Told(c)
    BY <1>3 DEF HandleTurn, HandleRefused, HandleConfirm, HandleOpen, ClearRefused, Works,
            Shown, OneWork
  <2>2. ~ ClearRefused(c)
    BY <2>1 DEF ClearRefused, Told
  <2>3. page'.session = page.session /\ page'.product = page.product
    <3>1. CASE HandleTurn(c)
      <4>1. page' = page \/ page' = Handled(page, c.ans)
        BY <3>1 DEF HandleTurn
      <4>2. Handled(page, c.ans).session = page.session /\ Handled(page, c.ans).product = page.product
        BY <1>2 DEF Handled, PageRec
      <4> QED
        BY <4>1, <4>2
    <3>2. CASE HandleRefused(c) \/ HandleConfirm(c)
      BY <1>2, <3>2 DEF HandleRefused, HandleConfirm, PageRec
    <3> QED
      BY <1>3, <2>2, <3>1, <3>2 DEF HandleOpen
  <2>4. page.session # None => staged[page.session] \in {{}, page'.tree}
    <3>1. CASE Done(c)
      <4>1. c.s = page.session
        BY <2>1, <3>1 DEF Told
      <4>2. CASE c.kind = "confirm"
        BY <2>1, <3>1, <4>1, <4>2 DEF Told
      <4>3. CASE c.kind # "confirm"
        <5>1. HandleTurn(c)
          BY <1>3, <2>2, <3>1, <4>3 DEF HandleRefused, HandleConfirm, HandleOpen, Done
        <5>2. page'.tree = Left(page.tree, c.ans)
          BY <1>2, <2>1, <5>1, HandledTree DEF HandleTurn, Told
        <5> QED
          BY <2>1, <3>1, <4>1, <4>3, <5>2 DEF Told
      <4> QED
        BY <4>2, <4>3
    <3>2. CASE ~ Done(c)
      <4>1. Unseen = {}
        BY <2>1, <2>2, <3>2, <1>3 DEF Unseen, Shown, OneWork, Told, HandleTurn, HandleRefused,
              HandleConfirm, HandleOpen, Turns
      <4>2. page'.tree = page.tree
        BY <1>2, <1>3, <2>2, <3>2 DEF Done, HandleTurn, HandleRefused, HandleConfirm, HandleOpen,
              PageRec
      <4> QED
        BY <4>1, <4>2 DEF Shown, AsShown
    <3> QED
      BY <3>1, <3>2
  <2> QED
    BY <1>1, <2>1, <2>3, <2>4, ShownEnds
<1>4. CASE c.kind = "open"
  <2>1. HandleOpen(c)
    BY <1>4 DEF HandleTurn, HandleRefused, HandleConfirm, ClearRefused, Turns
  <2>2. Works' = Works
    BY <1>1, <1>4 DEF Works, Turns
  <2>3. Opening' = Opening \ {c}
    BY <1>1 DEF Opening
  <2>4. CASE page' = page
    BY <1>1, <2>2, <2>3, <2>4, ShownStays DEF Shown, OneOpening
  <2>5. CASE page' # page
    <3>1. /\ c \in Opening /\ Done(c) /\ page' = [page EXCEPT !.session = c.s]
      BY <1>4, <2>1, <2>5 DEF HandleOpen, Opening, Done
    <3>2. /\ page'.session = c.s /\ page'.tree = page.tree /\ page'.product = page.product
      BY <1>2, <3>1 DEF PageRec
    <3>3. /\ c.s \in opened /\ staged[c.s] = {} /\ page.session = None /\ Opening' = {}
      BY <2>3, <3>1 DEF Shown, OneOpening
    <3>4. OneWork'
      <4>1. ASSUME NEW w \in Works
            PROVE  Told(w)'
        <5>1. Told(w)
          BY DEF Shown, OneWork
        <5>2. w.s = None
          BY <3>3, <5>1 DEF Told
        <5>3. ~ Done(w) /\ w.at \notin {"heard", "read"}
          BY <5>1, <5>2 DEF Told
        <5> QED
          BY <1>1, <3>2, <5>1, <5>2, <5>3 DEF Told, Done
      <4> QED
        BY <2>2, <4>1 DEF Shown, OneWork
    <3>5. OneOpening' /\ Staging' /\ AsShown'
      BY <1>1, <3>2, <3>3 DEF Shown, OneOpening, Staging, AsShown
    <3> QED
      BY <3>4, <3>5 DEF Shown
  <2> QED
    BY <2>4, <2>5
<1> QED
  BY <1>3, <1>4

\* A session is opened, for a page that may have another by now.
LEMMA ShownOpens ==
    ASSUME Inv, Shown, NEW c \in calls, OpenSession(c)
    PROVE  Shown'
<1>1. PICK s \in Sessions \ opened :
         /\ opened' = opened \cup {s}
         /\ calls' = (calls \ {c}) \cup {[c EXCEPT !.at = "back", !.s = s]}
  BY DEF OpenSession, Lowest
<1>2. PICK d : d = [c EXCEPT !.at = "back", !.s = s]
  OBVIOUS
<1>3. c \in CallRec /\ c.kind = "open" /\ c.at = "out"
  BY Parts DEF Inv, OpenSession
<1>4. d.kind = "open" /\ d.live = c.live /\ d.s = s
  BY <1>2, <1>3 DEF CallRec
<1>5. UNCHANGED <<staged, page>> /\ calls' = (calls \ {c}) \cup {d}
  BY <1>1, <1>2 DEF OpenSession
<1>6. Works' = Works
  BY <1>3, <1>4, <1>5 DEF Works, Turns
<1>7. OneWork'
  BY <1>5, <1>6 DEF Shown, OneWork, Told, Done
<1>8. OneOpening'
  <2>1. CASE c.live
    <3>1. c \in Opening
      BY <1>3, <2>1 DEF Opening
    <3>2. Opening' = {d}
      BY <1>4, <1>5, <2>1, <3>1 DEF Opening, Shown, OneOpening
    <3>3. page.session = None
      BY <3>1 DEF Shown, OneOpening
    <3>4. d.s \in opened' /\ staged[d.s] = {}
      BY <1>1, <1>4 DEF Shown, Staging
    <3> QED
      BY <1>5, <3>2, <3>3, <3>4 DEF OneOpening
  <2>2. CASE ~ c.live
    <3>1. Opening' = Opening
      BY <1>4, <1>5, <2>2 DEF Opening
    <3> QED
      BY <1>1, <1>5, <3>1 DEF Shown, OneOpening, Done
  <2> QED
    BY <2>1, <2>2
<1>9. Staging' /\ AsShown'
  BY <1>1, <1>5, <1>6 DEF Shown, Staging, AsShown, Unseen, Done
<1> QED
  BY <1>7, <1>8, <1>9 DEF Shown

\* A turn sent without a session opens one, which the page takes.
LEMMA ShownOpensForTurn ==
    ASSUME Inv, Shown, Distinct, NEW c \in calls, OpenForTurn(c)
    PROVE  Shown'
<1>1. PICK s \in Sessions \ opened :
         /\ opened' = opened \cup {s}
         /\ page' = IF c.live THEN [page EXCEPT !.session = s] ELSE page
         /\ LET cs == (calls \ {c}) \cup {[c EXCEPT !.s = s]}
            IN  calls' = IF c.live THEN Ensured(page', cs) ELSE cs
  BY DEF OpenForTurn, Lowest
<1>2. PICK d : d = [c EXCEPT !.s = s]
  OBVIOUS
<1>3. PICK cs : cs = (calls \ {c}) \cup {d}
  OBVIOUS
<1>4. c \in CallRec /\ c.kind \in {"text", "voice"} /\ c.at = "out" /\ page \in PageRec
  BY Parts DEF Inv, OpenForTurn
<1>5. c \in Works /\ Told(c) /\ c.live
  BY <1>4 DEF Works, Turns, Shown, OneWork, Told
<1>6. /\ d \in CallRec /\ d.id = c.id /\ d.kind = c.kind /\ d.live = c.live /\ d.s = s
      /\ d.at = "out" /\ d.p = c.p
  BY <1>2, <1>4 DEF CallRec
<1>7. /\ page'.session = s /\ page'.tree = page.tree /\ page'.product = page.product
      /\ s # None
  BY <1>1, <1>4, <1>5 DEF PageRec, Distinct
<1>8. calls' = Ensured(page', cs) /\ UNCHANGED staged
  BY <1>1, <1>2, <1>3, <1>5 DEF OpenForTurn
<1>9. Proper(cs)
  BY <1>3, <1>6, ProperWith, Parts DEF Inv
<1>10. /\ \A e : e.kind # "open" => (e \in calls' <=> e \in cs)
       /\ Opening' = {}
  <2>1. /\ \A e : e.kind # "open" => (e \in calls' <=> e \in cs)
        /\ \A e \in calls' : e.live /\ e.kind = "open" => page'.session = None
    BY <1>8, <1>9, EnsuredOpens DEF Inv, TypeInv
  <2> QED
    BY <1>7, <2>1 DEF Opening
<1>11. Works' = {d}
  <2>1. \A e \in Works : e = c
    BY <1>5 DEF Shown, OneWork
  <2>2. "open" \notin Turns \cup {"confirm", "clear"} /\ c.kind \in Turns
    BY <1>4 DEF Turns
  <2> QED
    BY <1>3, <1>6, <1>10, <2>1, <2>2 DEF Works
<1>12. staged[s] = {}
  BY DEF Shown, Staging
<1>13. OneWork'
  <2>1. Told(d)'
    BY <1>4, <1>5, <1>6, <1>7 DEF Told, Done
  <2> QED
    BY <1>11, <2>1 DEF OneWork
<1>14. OneOpening' /\ Staging' /\ AsShown'
  BY <1>1, <1>7, <1>8, <1>10, <1>12 DEF Shown, OneOpening, Staging, AsShown
<1> QED
  BY <1>13, <1>14 DEF Shown

\* A call goes on, and its clone is what the session stages.
LEMMA ShownGoesOn ==
    ASSUME Inv, Shown, NEW c \in Works, c.kind # "clear", c.s # None, ~ Done(c),
           NEW d, d.kind = c.kind, d.live = c.live, d.s = c.s, d.p = c.p, d.say = c.say,
           ~ Done(d), d.at \in {"heard", "read"} => d.snap = staged[c.s],
           UNCHANGED <<opened, staged, page>>, calls' = (calls \ {c}) \cup {d}
    PROVE  Shown'
<1>1. Told(c) /\ \A e \in Works : e = c
  BY DEF Shown, OneWork
<1>2. c.kind # "open"
  BY DEF Works, Turns
<1>3. Works' = {d} /\ Opening' = Opening
  BY <1>1, <1>2 DEF Works, Opening
<1>4. OneWork'
  <2>1. Told(d)'
    BY <1>1 DEF Told, Done
  <2> QED
    BY <1>3, <2>1 DEF OneWork
<1>5. Unseen = {}
  BY <1>1 DEF Unseen
<1>6. OneOpening' /\ Staging' /\ AsShown'
  BY <1>3, <1>5 DEF Shown, OneOpening, Staging, AsShown, Done
<1> QED
  BY <1>4, <1>6 DEF Shown

\* A turn goes on with a clone of its session.
LEMMA ShownReads ==
    ASSUME Inv, Shown, NEW c \in calls, ReadSession(c)
    PROVE  Shown'
<1>1. PICK at \in {"heard", "read"} :
         at = IF c.kind = "voice" /\ c.at = "out" THEN "heard" ELSE "read"
  OBVIOUS
<1>2. PICK d : d = [c EXCEPT !.at = at, !.snap = staged[c.s], !.plan = asked[c.s]]
  OBVIOUS
<1>3. /\ c \in CallRec /\ c \in Works /\ c.s # None /\ c.kind # "clear" /\ ~ Done(c)
  BY Parts DEF Inv, ReadSession, Works, Turns, Done
<1>4. /\ d.kind = c.kind /\ d.live = c.live /\ d.s = c.s /\ d.p = c.p /\ d.say = c.say
      /\ ~ Done(d) /\ d.snap = staged[c.s]
  BY <1>1, <1>2, <1>3 DEF CallRec, Done
<1>5. UNCHANGED <<opened, staged, page>> /\ calls' = (calls \ {c}) \cup {d}
  BY <1>1, <1>2 DEF ReadSession
<1> QED
  BY <1>3, <1>4, <1>5, ShownGoesOn

\* What a voice turn saves before it is routed is what its session stages.
LEMMA RoutedAlike ==
    ASSUME Inv, Shown, NEW c \in calls, RouteVoice(c)
    PROVE  UNCHANGED staged /\ c \in Works /\ c.s # None /\ c.snap = staged[c.s]
<1>1. c \in Works /\ c.at = "heard"
  BY DEF RouteVoice, Works, Turns
<1>2. c.s # None /\ c.snap = staged[c.s]
  BY <1>1 DEF Shown, OneWork, Told
<1>3. staged = [staged EXCEPT ![c.s] = staged[c.s]]
  BY Parts DEF Inv
<1> QED
  BY <1>1, <1>2, <1>3 DEF RouteVoice, Save

\* A voice turn is routed: it goes on with its clone, or without one.
LEMMA ShownRoutes ==
    ASSUME Inv, Shown, NEW c \in calls, RouteVoice(c)
    PROVE  Shown'
<1>1. /\ c \in CallRec /\ c \in Works /\ c.s # None /\ c.snap = staged[c.s]
      /\ UNCHANGED <<opened, staged, page>> /\ c.kind # "clear" /\ ~ Done(c)
  BY RoutedAlike, Parts DEF Inv, RouteVoice, Done
<1>2. PICK d : /\ \/ d = [c EXCEPT !.at = "read"]
                  \/ d = [c EXCEPT !.at = "again", !.snap = {}, !.plan = FALSE]
               /\ calls' = (calls \ {c}) \cup {d}
  BY DEF RouteVoice
<1>3. /\ d.kind = c.kind /\ d.live = c.live /\ d.s = c.s /\ d.p = c.p /\ d.say = c.say
      /\ ~ Done(d) /\ (d.at \in {"heard", "read"} => d.snap = staged[c.s])
  BY <1>1, <1>2 DEF CallRec, Done
<1> QED
  BY <1>1, <1>2, <1>3, ShownGoesOn

\* A call that concerns the design is answered: the session is left empty, or
\* with what the answer shows, which is about the page's product.
LEMMA ShownAnswered ==
    ASSUME Inv, Shown, NEW c \in calls, c \in Works, c.at = "read",
           NEW st, st # "refused", NEW tree, NEW sel, NEW plan,
           Answer(c, st, tree, sel, plan), NEW draft, staged' = [staged EXCEPT ![c.s] = draft], UNCHANGED <<opened, page>>,
           draft = {} \/ (draft = tree /\ c.kind # "confirm" /\ page.product \in draft)
    PROVE  Shown'
<1>1. c \in CallRec /\ Told(c) /\ c.s # None /\ c.s = page.session /\ c.kind # "clear"
  BY Parts DEF Inv, Shown, OneWork, Told
<1>2. PICK d : d = [c EXCEPT !.at = "back", !.snap = {}, !.plan = FALSE,
                             !.ans = [status |-> st, tree |-> tree, sel |-> sel, plan |-> plan]]
  OBVIOUS
<1>3. /\ d.kind = c.kind /\ d.live = c.live /\ d.s = c.s /\ d.p = c.p /\ d.say = c.say
      /\ d.at = "back" /\ d.ans.tree = tree
  BY <1>1, <1>2 DEF CallRec
<1>4. calls' = (calls \ {c}) \cup {d}
  BY <1>2 DEF Answer
<1>5. Works' = {d} /\ Opening' = Opening
  <2>1. \A e \in Works : e = c
    BY DEF Shown, OneWork
  <2>2. c.kind # "open"
    BY DEF Works, Turns
  <2> QED
    BY <1>3, <1>4, <2>1, <2>2 DEF Works, Opening
<1>6. c.s \in opened /\ c.s \in Sessions
  BY <1>1, Parts DEF Inv, Shown, Staging
<1>7. staged'[c.s] = draft /\ \A s \in Sessions : s # c.s => staged'[s] = staged[s]
  BY <1>6, Parts DEF Inv
<1>8. OneWork'
  <2>1. draft # {} => d.kind # "confirm" /\ draft = Left(page'.tree, d.ans)
    BY <1>3 DEF Left
  <2>2. \/ staged'[d.s] = {}
        \/ d.kind # "confirm" /\ staged'[d.s] = Left(page'.tree, d.ans)
    BY <1>3, <1>7, <2>1
  <2>3. d.live /\ d.p = page'.product /\ d.s # None /\ d.s = page'.session
    BY <1>1, <1>3 DEF Told
  <2>4. d.kind # "clear" /\ (d.kind = "edit" => d.say \in {"rename", "add", "delete"})
    BY <1>1, <1>3 DEF Told
  <2>5. Told(d)'
    BY <1>3, <2>2, <2>3, <2>4 DEF Told
  <2> QED
    BY <1>5, <2>5 DEF OneWork
<1>9. Opening = {}
  BY <1>1 DEF Shown, OneOpening
<1>10. OneOpening'
  BY <1>5, <1>9 DEF OneOpening
<1>11. Staging'
  BY <1>1, <1>6, <1>7 DEF Shown, Staging
<1>12. AsShown'
  <2>1. d.s # None /\ Done(d)
    BY <1>1, <1>2, <1>3 DEF Done, CallRec
  <2>2. d \in Unseen'
    BY <1>5, <2>1 DEF Unseen, Done
  <2> QED
    BY <2>2 DEF AsShown
<1> QED
  BY <1>8, <1>10, <1>11, <1>12 DEF Shown

\* What a call that has read its session works on.
LEMMA ReadOf ==
    ASSUME Inv, Shown, NEW c \in calls, c.at = "read", c.kind \in Turns \cup {"confirm"}
    PROVE  /\ c \in Works /\ c.s = page.session /\ c.s \in Sessions /\ c.p = page.product
           /\ c.snap = staged[c.s] /\ staged = [staged EXCEPT ![c.s] = c.snap]
           /\ c.snap = {} \/ page.product \in c.snap
           /\ c.kind = "edit" => c.say \in {"rename", "add", "delete"}
<1>1. c \in Works /\ Told(c) /\ c.s # None /\ c \in CallRec
  BY Parts DEF Inv, Works, Shown, OneWork, Told
<1>2. c.s = page.session /\ c.s \in Sessions /\ c.snap = staged[c.s] /\ c.p = page.product
  BY <1>1 DEF Told, CallRec
<1>3. staged = [staged EXCEPT ![c.s] = staged[c.s]]
  BY Parts DEF Inv
<1>4. c.snap = {} \/ page.product \in c.snap
  BY <1>1, <1>2 DEF Shown, Staging
<1> QED
  BY <1>1, <1>2, <1>3, <1>4 DEF Told

\* A turn with a plan, or an analysis: the design it starts from is the
\* session's, or the product alone when that is empty.
LEMMA SeededOf ==
    ASSUME Inv, Shown, NEW c \in calls, c.at = "read", c.kind \in Turns \cup {"confirm"}
    PROVE  /\ page.product \in Seeded(c.snap, c.p)
           /\ c.snap = {} \/ c.snap = Seeded(c.snap, c.p)
  BY ReadOf DEF Seeded

\* How such a call leaves its session: empty, or with what the answer shows.
Leaves(c) ==
    \E st, tree, sel, plan, draft :
        /\ Answer(c, st, tree, sel, plan) /\ st # "refused"
        /\ staged' = [staged EXCEPT ![c.s] = draft]
        /\ draft = {} \/ (draft = tree /\ c.kind # "confirm" /\ page.product \in draft)

\* A design that is committed, confirmed where there is none, planned, commanded
\* or analysed.
LEMMA ShownPlans ==
    ASSUME Inv, Shown, ~ rough, NEW c \in calls,
           \/ Commit(c) \/ CommitFailed(c) \/ NothingToConfirm(c) \/ PlanDesigns(c)
           \/ PlanWaits(c) \/ PlanFails(c) \/ VoiceCommand(c) \/ Analyze(c)
    PROVE  Shown'
<1>1. c.at = "read" /\ c.kind \in Turns \cup {"confirm"} /\ UNCHANGED <<opened, page>>
  BY DEF Commit, CommitFailed, NothingToConfirm, PlanDesigns, PlanWaits, PlanFails,
         VoiceCommand, Analyze, Plans, Turns
<1>2. /\ c \in Works /\ c.p = page.product
      /\ staged = [staged EXCEPT ![c.s] = c.snap] /\ (c.snap = {} \/ page.product \in c.snap)
  BY <1>1, ReadOf
<1> DEFINE seed == Seeded(c.snap, c.p)
<1>3. page.product \in seed /\ (c.snap = {} \/ c.snap = seed)
  BY <1>1, SeededOf
<1> HIDE DEF seed
<1>4. Leaves(c)
  <2>1. CASE Commit(c)
    <3>1. Answer(c, "execution", {}, None, FALSE) /\ staged' = [staged EXCEPT ![c.s] = {}]
      BY <2>1 DEF Commit, Save
    <3> QED
      BY <3>1 DEF Leaves
  <2>2. CASE NothingToConfirm(c)
    <3>1. /\ Answer(c, "clarification", {}, Passed(c), c.plan) /\ staged' = staged /\ c.snap = {}
      BY <2>2 DEF NothingToConfirm
    <3>2. staged' = [staged EXCEPT ![c.s] = {}]
      BY <1>2, <3>1
    <3> QED
      BY <3>1, <3>2 DEF Leaves
  <2>3. CASE PlanDesigns(c)
    <3>1. PICK n \in Unused : /\ Answer(c, "proposal", seed \cup {n}, Chosen(c), TRUE)
                              /\ staged' = [staged EXCEPT ![c.s] = seed \cup {n}]
      BY <2>3 DEF PlanDesigns, Save, seed
    <3>2. c.kind # "confirm" /\ page.product \in seed \cup {n}
      BY <1>3, <2>3 DEF PlanDesigns, Plans
    <3> QED
      BY <3>1, <3>2 DEF Leaves
  <2>4. CASE PlanWaits(c)
    <3>1. PICK st, plan :
             /\ st # "refused" /\ Answer(c, st, seed, Chosen(c), plan) /\ staged' = [staged EXCEPT ![c.s] = seed]
      BY <2>4 DEF PlanWaits, Save, seed
    <3>2. c.kind # "confirm"
      BY <2>4 DEF PlanWaits, Plans
    <3> QED
      BY <1>3, <3>1, <3>2 DEF Leaves
  <2>5. CASE PlanFails(c)
    <3>1. Answer(c, "error", seed, Chosen(c), c.plan) /\ staged' = staged /\ c.kind # "confirm"
      BY <2>5 DEF PlanFails, Plans, seed
    <3>2. staged' = [staged EXCEPT ![c.s] = c.snap]
      BY <1>2, <3>1
    <3> QED
      BY <1>3, <3>1, <3>2 DEF Leaves
  <2>6. CASE VoiceCommand(c)
    <3>1. \/ /\ Answer(c, "execution", {}, None, FALSE)
             /\ staged' = [staged EXCEPT ![c.s] = {}]
          \/ \E n : /\ Answer(c, "session_update", c.snap, n, c.plan)
                    /\ staged' = [staged EXCEPT ![c.s] = c.snap]
      BY <2>6 DEF VoiceCommand, Save
    <3>2. c.kind # "confirm"
      BY <2>6 DEF VoiceCommand
    <3>3. CASE /\ Answer(c, "execution", {}, None, FALSE)
               /\ staged' = [staged EXCEPT ![c.s] = {}]
      BY <3>3 DEF Leaves
    <3>4. ASSUME NEW n, Answer(c, "session_update", c.snap, n, c.plan),
                 staged' = [staged EXCEPT ![c.s] = c.snap]
          PROVE  Leaves(c)
      BY <1>2, <3>2, <3>4 DEF Leaves
    <3> QED
      BY <3>1, <3>3, <3>4
  <2>7. CASE Analyze(c)
    <3>1. \/ \E n : /\ Answer(c, "proposal", seed \cup {n}, Chosen(c), TRUE)
                    /\ staged' = [staged EXCEPT ![c.s] = seed \cup {n}]
          \/ Answer(c, "clarification", seed, Chosen(c), TRUE) /\ staged' = staged
      BY <2>7 DEF Analyze, Save, seed
    <3>2. c.kind # "confirm"
      BY <2>7 DEF Analyze
    <3>3. ASSUME NEW n, Answer(c, "proposal", seed \cup {n}, Chosen(c), TRUE),
                 staged' = [staged EXCEPT ![c.s] = seed \cup {n}]
          PROVE  Leaves(c)
      <4>1. "proposal" # "refused" /\ page.product \in seed \cup {n}
        BY <1>3
      <4> QED
        BY <3>2, <3>3, <4>1, Zenon DEF Leaves
    <3>4. CASE Answer(c, "clarification", seed, Chosen(c), TRUE) /\ staged' = staged
      BY <1>2, <1>3, <3>2, <3>4 DEF Leaves
    <3> QED
      BY <3>1, <3>3, <3>4
  <2>8. ~ CommitFailed(c)
    BY DEF CommitFailed
  <2> QED
    BY <2>1, <2>2, <2>3, <2>4, <2>5, <2>6, <2>7, <2>8
<1>5. PICK st, tree, sel, plan, draft :
         /\ Answer(c, st, tree, sel, plan) /\ st # "refused"
         /\ staged' = [staged EXCEPT ![c.s] = draft]
         /\ draft = {} \/ (draft = tree /\ c.kind # "confirm" /\ page.product \in draft)
  BY <1>4 DEF Leaves
<1> QED
  BY <1>1, <1>2, <1>5, ShownAnswered

\* An edit of the design keeps the product's node, or leaves nothing.
LEMMA ShownEdits ==
    ASSUME Inv, Shown, Distinct, NEW c \in calls, Edit(c)
    PROVE  Shown'
<1>1. c.at = "read" /\ c.kind = "edit" /\ c.sel \in c.snap /\ UNCHANGED <<opened, page>>
  BY DEF Edit
<1>2. /\ c \in Works /\ page.product \in c.snap /\ c.say \in {"rename", "add", "delete"}
  BY <1>1, ReadOf DEF Turns
<1>3. PICK draft \in SUBSET (c.snap \cup Unused), sel \in c.snap \cup Unused \cup {None} :
         /\ CASE c.say = "rename" -> draft = c.snap /\ sel = c.sel
              [] c.say = "add"    -> sel \in Unused /\ draft = c.snap \cup {sel}
              [] c.say = "delete" /\ c.sel \in Products -> draft = {} /\ sel = None
              [] OTHER -> draft = c.snap \ {c.sel} /\ sel \in c.snap \cap Products
         /\ Save(c, draft, FALSE) /\ Answer(c, "proposal", draft, sel, TRUE)
  BY <1>1 DEF Edit
<1>4. page.product \in Products
  <2>1. c.snap \in SUBSET Named /\ page.product \in Products \cup {None}
    BY CallParts, Parts DEF Inv, PageRec
  <2> QED
    BY <1>2, <2>1 DEF Named, Distinct
<1>5. draft = {} \/ page.product \in draft
  <2>1. CASE c.say = "rename"
    BY <1>2, <1>3, <2>1
  <2>2. CASE c.say = "add"
    BY <1>2, <1>3, <2>2
  <2>3. CASE c.say = "delete" /\ c.sel \in Products
    BY <1>3, <2>3
  <2>4. CASE c.say = "delete" /\ c.sel \notin Products
    <3>1. draft = c.snap \ {c.sel}
      BY <1>3, <2>4
    <3> QED
      BY <1>2, <1>4, <2>4, <3>1
  <2> QED
    BY <1>2, <2>1, <2>2, <2>3, <2>4
<1>6. staged' = [staged EXCEPT ![c.s] = draft] /\ Answer(c, "proposal", draft, sel, TRUE)
  BY <1>3 DEF Save
<1>7. "proposal" # "refused" /\ c.kind # "confirm"
  BY <1>1
<1> QED
  BY <1>1, <1>2, <1>5, <1>6, <1>7, ShownAnswered

\* A call that is refused tells the page nothing of its session.
LEMMA ShownRefuses ==
    ASSUME Inv, Shown, ~ rough, NEW c \in calls, Refuse(c)
    PROVE  Shown'
<1>1. /\ c \in CallRec /\ c.kind \notin {"mic", "stt", "clear"} /\ c.at # "back"
      /\ Answer(c, "refused", {}, None, FALSE) /\ UNCHANGED <<opened, staged, page>>
  BY Parts DEF Inv, Refuse
<1>2. PICK d : d = [c EXCEPT !.at = "back", !.snap = {}, !.plan = FALSE,
                !.ans = [status |-> "refused", tree |-> {}, sel |-> None, plan |-> FALSE]]
  OBVIOUS
<1>3. /\ d.kind = c.kind /\ d.live = c.live /\ d.s = c.s /\ d.p = c.p /\ d.say = c.say
      /\ d.at = "back" /\ d.ans.status = "refused"
  BY <1>1, <1>2 DEF CallRec
<1>4. calls' = (calls \ {c}) \cup {d} /\ ~ Done(d)
  BY <1>1, <1>2, <1>3 DEF Answer, Done
<1>5. CASE c.kind = "open"
  <2>1. Works' = Works
    BY <1>3, <1>4, <1>5 DEF Works, Turns
  <2>2. Opening' \subseteq (Opening \ {c}) \cup {d} /\ (c \notin Opening => Opening' = Opening)
    BY <1>3, <1>4, <1>5 DEF Opening
  <2>3. (\A e, f \in Opening' : e = f) /\ (page.session # None => Opening' = {})
    BY <2>2 DEF Shown, OneOpening
  <2> QED
    BY <1>1, <1>4, <2>1, <2>2, <2>3, ShownStays
<1>6. CASE c.kind # "open"
  <2>1. c \in Works /\ Told(c)
    BY <1>1, <1>6 DEF CallRec, Kinds, Works, Shown, OneWork
  <2>2. \A e \in Works : e = c
    BY <2>1 DEF Shown, OneWork
  <2>3. Works' = {d} /\ Opening' = Opening
    BY <1>3, <1>4, <1>6, <2>1, <2>2 DEF Works, Opening
  <2>4. OneWork'
    <3>1. Told(d)'
      <4>1. ~ Done(d)' /\ d.at \notin {"heard", "read"}
        BY <1>3 DEF Done
      <4>2. d.s = None => d.kind \in {"text", "voice"}
        BY <1>3, <2>1 DEF Told
      <4> QED
        BY <1>1, <1>3, <2>1, <4>1, <4>2 DEF Told
    <3> QED
      BY <2>3, <3>1 DEF OneWork
  <2>5. Unseen = {}
    BY <1>1, <2>2 DEF Unseen, Done
  <2>6. OneOpening' /\ Staging' /\ AsShown'
    BY <1>1, <2>3, <2>5 DEF Shown, OneOpening, Staging, AsShown, Done
  <2> QED
    BY <2>4, <2>6 DEF Shown
<1> QED
  BY <1>5, <1>6

\* A dismissal arrives: the session is empty, as the page is.
LEMMA ShownClears ==
    ASSUME Inv, Shown, NEW c \in calls, ClearPending(c)
    PROVE  Shown'
<1>1. /\ c.kind = "clear" /\ c.at = "out" /\ staged' = [staged EXCEPT ![c.s] = {}]
      /\ calls' = calls \ {c} /\ UNCHANGED <<opened, page>>
  BY DEF ClearPending, Save
<1>2. c \in Works /\ Told(c) /\ c \in CallRec
  BY <1>1, Parts DEF Inv, Works, Shown, OneWork
<1>3. c.s = page.session /\ c.s # None /\ c.s \in Sessions
  BY <1>1, <1>2 DEF Told, CallRec
<1>4. staged'[c.s] = {} /\ \A s \in Sessions : s # c.s => staged'[s] = staged[s]
  BY <1>1, <1>3, Parts DEF Inv
<1>5. Works' = {} /\ Opening' = Opening
  BY <1>1, <1>2 DEF Works, Opening, Shown, OneWork
<1>6. Opening = {}
  BY <1>3 DEF Shown, OneOpening
<1>7. OneWork' /\ OneOpening'
  BY <1>5, <1>6 DEF OneWork, OneOpening
<1>8. Staging' /\ AsShown'
  BY <1>1, <1>3, <1>4, Parts DEF Inv, Shown, Staging, AsShown
<1> QED
  BY <1>7, <1>8 DEF Shown

\* For a person who waits for answers, every step keeps Shown.
LEMMA ShownNext ==
    ASSUME Inv, Distinct, ~ rough, Shown, [Next]_vars
    PROVE  Shown'
<1>1. CASE UNCHANGED vars
  BY <1>1 DEF vars, Shown, OneWork, OneOpening, Staging, AsShown, Works, Opening, Unseen,
              Told, Done
<1>2. CASE Act
  BY <1>2, ShownAsks, ShownDismisses, ShownLooks, ShownLives DEF Act, Named
<1>3. CASE ChooseModel \/ OpenPage
  BY <1>3, ShownLives
<1>4. CASE Answered
  BY <1>4, ShownOpens, ShownOpensForTurn, ShownReads, ShownRoutes, ShownPlans, ShownEdits, ShownRefuses,
     ShownClears, ShownHears, ShownHandles DEF Answered, Serve, Receive
<1> QED
  BY <1>1, <1>2, <1>3, <1>4 DEF Next

\* The person's haste never changes.
LEMMA SamePerson ==
    ASSUME [Next]_vars
    PROVE  UNCHANGED rough
<1>1. Act => UNCHANGED rough
  BY DEF Act, SendText, EditDraft, AnalyzeRepository, ConfirmPlan, DismissPlan, SelectNode,
         ShowView, StartListening, StopListening, CancelVoice, RetryVoice, SubmitVoice,
         SpeakView, SwitchProduct, LeavePage, Stays
<1>2. ASSUME NEW c \in calls, Serve(c)
      PROVE  UNCHANGED rough
  BY <1>2 DEF Serve, OpenSession, OpenForTurn, ReadSession, RouteVoice, Commit, CommitFailed,
         NothingToConfirm, PlanDesigns, PlanWaits, PlanFails, VoiceCommand, Analyze, Edit,
         ClearPending, Refuse
<1>3. ASSUME NEW c \in calls, Receive(c)
      PROVE  UNCHANGED rough
  BY <1>3 DEF Receive, MicGranted, MicRefused, NotHeard, Heard, HandleTurn, HandleRefused,
         HandleConfirm, HandleOpen, ClearRefused, Stays
<1> QED
  BY <1>1, <1>2, <1>3 DEF Next, Answered, ChooseModel, OpenPage, Stays, vars

\* At the start no session is open.
LEMMA ShownInit ==
    ASSUME Init
    PROVE  Shown
<1>1. page.session = None /\ calls = {} /\ opened = {}
  BY DEF Init, Fresh
<1>2. Works = {} /\ Opening = {}
  BY <1>1 DEF Works, Opening
<1>3. \A s \in Sessions : staged[s] = {}
  BY DEF Init
<1> QED
  BY <1>1, <1>2, <1>3 DEF Shown, OneWork, OneOpening, Staging, AsShown

\* For a person who waits for answers, the design the session holds when
\* nothing is under way is the one the page shows, whatever was refused, failed
\* or was dismissed before, and however sessions were opened.
THEOREM NothingHiddenAlways ==
    ASSUME First \subseteq Products \cup {None}, Distinct
    PROVE  Unfair => []NothingHidden
<1> DEFINE Waited == ~ rough => Shown
<1>1. Init => Inv /\ Waited
  BY InvInit, ShownInit
<1>2. Inv /\ Waited /\ [Next]_vars => Inv' /\ Waited'
  BY InvNext, ShownNext, SamePerson
<1>3. Waited => NothingHidden
  <2>1. Shown /\ calls = {} /\ page.session # None => staged[page.session] \in {{}, page.tree}
    BY DEF Shown, AsShown, Unseen, Works
  <2> QED
    BY <2>1 DEF NothingHidden
<1> QED
  BY <1>1, <1>2, <1>3, PTL DEF Unfair

-----------------------------------------------------------------------------
(* What is applied *)

\* What waits in a session has no row yet, and waits in one session.
Waiting ==
    /\ \A s \in Sessions, n \in Nodes : n \in staged[s] => catalog[n] = 0
    /\ \A s, t \in Sessions, n \in Nodes : n \in staged[s] /\ n \in staged[t] => s = t
    /\ \A n \in Nodes : catalog[n] <= 1

\* A step that neither stages nor applies anything.
LEMMA WaitingStays ==
    ASSUME Waiting, UNCHANGED <<staged, catalog>>
    PROVE  Waiting'
  BY DEF Waiting

\* A session is left with nodes it had and nodes that are not used.
LEMMA WaitingSaves ==
    ASSUME Inv, Waiting, NEW c \in calls, c.s \in Sessions, UNCHANGED catalog,
           NEW draft \in SUBSET Named, staged' = [staged EXCEPT ![c.s] = draft],
           \A n \in draft \cap Nodes : n \in staged[c.s] \/ n \in Unused
    PROVE  Waiting'
<1>1. staged'[c.s] = draft /\ \A s \in Sessions : s # c.s => staged'[s] = staged[s]
  BY Parts DEF Inv
<1>2. \A n \in Unused : catalog[n] = 0 /\ \A s \in Sessions : n \notin staged[s]
  BY DEF Unused, Lowest
<1>3. \A s \in Sessions, n \in Nodes : n \in staged'[s] => catalog[n] = 0
  BY <1>1, <1>2 DEF Waiting
<1>4. \A s, t \in Sessions, n \in Nodes : n \in staged'[s] /\ n \in staged'[t] => s = t
  BY <1>1, <1>2 DEF Waiting
<1> QED
  BY <1>3, <1>4 DEF Waiting

\* A design that is applied has no row yet, and waits nowhere afterwards.
LEMMA WaitingCommits ==
    ASSUME Inv, Shown, Waiting, NEW c \in calls, Commit(c)
    PROVE  Waiting'
<1>1. /\ c.at = "read" /\ c.kind \in Turns \cup {"confirm"}
      /\ catalog' = [n \in Nodes |-> IF n \in c.snap THEN catalog[n] + 1 ELSE catalog[n]]
      /\ staged' = [staged EXCEPT ![c.s] = {}]
  BY DEF Commit, Save, Turns
<1>2. c.s \in Sessions /\ c.snap = staged[c.s]
  BY <1>1, ReadOf
<1>3. staged'[c.s] = {} /\ \A s \in Sessions : s # c.s => staged'[s] = staged[s]
  BY <1>1, <1>2, Parts DEF Inv
<1>4. \A n \in Nodes : catalog'[n] = IF n \in staged[c.s] THEN catalog[n] + 1 ELSE catalog[n]
  BY <1>1, <1>2
<1>5. \A n \in Nodes : catalog[n] \in Nat
  BY Parts DEF Inv
<1>6. \A n \in Nodes : catalog'[n] <= 1
  BY <1>2, <1>4, <1>5 DEF Waiting
<1>7. \A s \in Sessions, n \in Nodes : n \in staged'[s] => catalog'[n] = 0
  BY <1>2, <1>3, <1>4 DEF Waiting
<1>8. \A s, t \in Sessions, n \in Nodes : n \in staged'[s] /\ n \in staged'[t] => s = t
  BY <1>3 DEF Waiting
<1> QED
  BY <1>6, <1>7, <1>8 DEF Waiting

\* A step of a call that has read its session and saves its clone.
LEMMA WaitingPlans ==
    ASSUME Inv, Shown, Waiting, Distinct, NEW c \in calls,
           \/ PlanDesigns(c) \/ PlanWaits(c) \/ VoiceCommand(c) \/ Analyze(c) \/ Edit(c)
    PROVE  Waiting'
<1>1. /\ c.at = "read" /\ c.kind \in Turns \cup {"confirm"} /\ UNCHANGED catalog
  BY DEF PlanDesigns, PlanWaits, VoiceCommand, Analyze, Edit, Plans, Turns
<1>2. c.s \in Sessions /\ c.snap = staged[c.s] /\ c.snap \in SUBSET Named /\ Unused \subseteq Named
  BY <1>1, ReadOf, CallParts
<1> DEFINE seed == Seeded(c.snap, c.p)
           Fits(draft) == /\ draft \in SUBSET Named /\ staged' = [staged EXCEPT ![c.s] = draft]
                          /\ \A n \in draft \cap Nodes : n \in staged[c.s] \/ n \in Unused
<1>3. c.p # None => seed \in SUBSET Named /\ \A n \in seed \cap Nodes : n \in staged[c.s]
  <2>1. c.p \in Products \cup {None}
    BY CallParts
  <2> QED
    BY <1>2, <2>1, PlanParts DEF Seeded, Distinct
<1> HIDE DEF seed
<1>4. UNCHANGED staged \/ \E draft : Fits(draft)
  <2>1. CASE PlanDesigns(c)
    <3>1. PICK n \in Unused : staged' = [staged EXCEPT ![c.s] = seed \cup {n}]
      BY <2>1 DEF PlanDesigns, Save, seed
    <3>2. c.p # None
      BY <2>1 DEF PlanDesigns, Plans
    <3>3. Fits(seed \cup {n})
      BY <1>2, <1>3, <3>1, <3>2
    <3> QED
      BY <3>3
  <2>2. CASE PlanWaits(c)
    <3>1. staged' = [staged EXCEPT ![c.s] = seed]
      BY <2>2 DEF PlanWaits, Save, seed
    <3>2. c.p # None
      BY <2>2 DEF PlanWaits, Plans
    <3>3. Fits(seed)
      BY <1>3, <3>1, <3>2
    <3> QED
      BY <3>3
  <2>3. CASE VoiceCommand(c)
    <3>1. staged' = [staged EXCEPT ![c.s] = {}] \/ staged' = [staged EXCEPT ![c.s] = c.snap]
      BY <2>3 DEF VoiceCommand, Save
    <3>2. Fits({}) \/ Fits(c.snap)
      BY <1>2, <3>1
    <3> QED
      BY <3>2
  <2>4. CASE Analyze(c)
    <3>1. c.p # None
      BY <2>4, Parts DEF Inv, CallRec, Analyze
    <3>2. UNCHANGED staged \/ \E n \in Unused : staged' = [staged EXCEPT ![c.s] = seed \cup {n}]
      BY <2>4 DEF Analyze, Save, seed
    <3>3. \A n \in Unused : staged' = [staged EXCEPT ![c.s] = seed \cup {n}] => Fits(seed \cup {n})
      BY <1>2, <1>3, <3>1
    <3> QED
      BY <3>2, <3>3
  <2>5. CASE Edit(c)
    <3>1. PICK draft \in SUBSET (c.snap \cup Unused) : staged' = [staged EXCEPT ![c.s] = draft]
      BY <2>5 DEF Edit, Save
    <3>2. Fits(draft)
      BY <1>2, <3>1
    <3> QED
      BY <3>2
  <2> QED
    BY <2>1, <2>2, <2>3, <2>4, <2>5
<1>5. ASSUME NEW draft, Fits(draft)
      PROVE  Waiting'
  BY <1>1, <1>2, <1>5, WaitingSaves
<1> HIDE DEF Fits
<1> QED
  BY <1>1, <1>4, <1>5, WaitingStays

\* A dismissal leaves a session empty.
LEMMA WaitingClears ==
    ASSUME Inv, Shown, Waiting, NEW c \in calls, ClearPending(c)
    PROVE  Waiting'
<1>1. c \in Works /\ c.kind = "clear" /\ UNCHANGED catalog /\ staged' = [staged EXCEPT ![c.s] = {}]
  BY DEF ClearPending, Works, Save
<1>2. Told(c) /\ c \in CallRec
  BY <1>1, Parts DEF Inv, Shown, OneWork
<1>3. c.s \in Sessions
  BY <1>1, <1>2 DEF Told, CallRec
<1>4. PICK draft \in SUBSET Named : draft = {}
  OBVIOUS
<1>5. \A n \in draft \cap Nodes : n \in staged[c.s] \/ n \in Unused
  BY <1>4
<1>6. staged' = [staged EXCEPT ![c.s] = draft]
  BY <1>1, <1>4
<1> QED
  BY <1>1, <1>3, <1>5, <1>6, WaitingSaves

\* For a person who waits for answers, every step keeps Waiting.
LEMMA WaitingNext ==
    ASSUME Inv, Distinct, ~ rough, Shown, Waiting, [Next]_vars
    PROVE  Waiting'
<1>1. CASE UNCHANGED vars
  BY <1>1, WaitingStays DEF vars
<1>2. CASE Act
  <2>1. UNCHANGED <<staged, catalog>>
    BY <1>2 DEF Act, SendText, EditDraft, AnalyzeRepository, ConfirmPlan, DismissPlan,
           SelectNode, ShowView, StartListening, StopListening, CancelVoice, RetryVoice,
           SubmitVoice, SpeakView, SwitchProduct, LeavePage, Stays
  <2> QED
    BY <2>1, WaitingStays
<1>3. CASE ChooseModel \/ OpenPage
  BY <1>3, WaitingStays DEF ChooseModel, OpenPage, Stays
<1>4. ASSUME NEW c \in calls, Serve(c)
      PROVE  Waiting'
  <2>1. CASE OpenSession(c) \/ OpenForTurn(c) \/ ReadSession(c) \/ NothingToConfirm(c)
             \/ PlanFails(c) \/ Refuse(c)
    BY <2>1, WaitingStays DEF OpenSession, OpenForTurn, ReadSession, NothingToConfirm,
       PlanFails, Refuse
  <2>2. ~ CommitFailed(c)
    BY DEF CommitFailed
  <2>3. CASE RouteVoice(c)
    BY <2>3, RoutedAlike, WaitingStays DEF RouteVoice
  <2> QED
    BY <1>4, <2>1, <2>2, <2>3, WaitingCommits, WaitingPlans, WaitingClears DEF Serve
<1>5. ASSUME NEW c \in calls, Receive(c)
      PROVE  Waiting'
  BY <1>5, WaitingStays DEF Receive, MicGranted, MicRefused, NotHeard, Heard, HandleTurn,
         HandleRefused, HandleConfirm, HandleOpen, ClearRefused, Stays
<1> QED
  BY <1>1, <1>2, <1>3, <1>4, <1>5 DEF Next, Answered

\* For a person who waits for answers, every staged node becomes a row once:
\* no session is applied twice and no node waits in two of them.
THEOREM AppliedOnceAlways ==
    ASSUME First \subseteq Products \cup {None}, Distinct
    PROVE  Unfair => []AppliedOnce
<1> DEFINE Waited == ~ rough => Shown /\ Waiting
<1>1. Init => Inv /\ Waited
  <2>1. Init => Waiting
    BY DEF Init, Waiting
  <2> QED
    BY <2>1, InvInit, ShownInit
<1>2. Inv /\ Waited /\ [Next]_vars => Inv' /\ Waited'
  BY InvNext, ShownNext, WaitingNext, SamePerson
<1>3. Waited => AppliedOnce
  BY DEF Waiting, AppliedOnce
<1> QED
  BY <1>1, <1>2, <1>3, PTL DEF Unfair
=============================================================================
