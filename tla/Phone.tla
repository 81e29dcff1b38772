-------------------------------- MODULE Phone --------------------------------
(***************************************************************************)
(* The companion application on the phone: the voice screen with its       *)
(* recorder and spoken replies, the product explorer with a planner panel  *)
(* under the selected node, the speech models on the device, and the       *)
(* connection to the desktop.                                              *)
(*                                                                         *)
(* Screens, panel and recorder share one busy flag.  A handler keeps the   *)
(* state it was rendered with (was) to its end, however long its calls     *)
(* take.  What is written to the phone's storage is there when it is read  *)
(* next.  A token has been saved.  The screens the phone shows of the      *)
(* desktop's remote page, and the list of model calls, are left out.       *)
(***************************************************************************)
EXTENDS Integers

CONSTANTS
    Products,     \* each has one node, which goes by the product's name
    First,        \* the one listed first
    Models,       \* speech models that can be installed
    None,
    MaxActs       \* bound on what the person does, with rough and without

Tabs == {"planner", "voice", "products", "models"}     \* calls, activity as planner
Views == {"overview", "map"}                  \* work is as overview, search as map
Addresses == {"far", "loop"}                  \* loop is the phone's own
Closure == {"mode", "read", "view", "product", "tree", "node", "session", "address",
            "selected", "installed"}
Slots == 1 .. 2                               \* bound on the handlers under way

VARIABLES
    page,     \* the state of the application
    table,    \* the device and what it has saved, the desktop and its products
    jobs,     \* handlers under way
    rough,    \* what the person did not wait for: "mic", the phone to be idle and
              \* to show whether it records; "products", a load; "address", an
              \* answer from the desktop; "models", an installation or removal
    acts

vars == <<page, table, jobs, rough, acts>>

------------------------------------------------------------------------------
(* What the screens derive and what they offer *)

\* activeLocalWhisperModel
ActiveModel(pg) ==
    IF pg.selected \in pg.installed THEN pg.selected
    ELSE IF pg.installed = {} THEN None ELSE CHOOSE m \in pg.installed : TRUE

\* selectedProductNode: nothing when the tree does not have it.
Node(pg) == IF pg.tree # None /\ pg.node = pg.tree THEN pg.node ELSE None

MicOffered == page.tab = "voice" /\ (page.busy => page.seen)
SendOffered == page.tab = "voice" /\ ~ page.busy /\ ~ page.seen

Taping == page.panel \/ page.seen
Explored == page.tab = "products" /\ (page.failed => page.product # None)
PanelShown == Explored /\ page.view = "map" /\ Node(page) # None
PanelMicOffered == PanelShown /\ (page.busy => Taping)
PanelSendOffered == PanelShown /\ ~ page.busy /\ ~ Taping

\* What a prompt begins with: the voice screen's by its mode, the planner's by
\* whether there is a session.
Plans(pg) == IF pg.session THEN "turn" ELSE "session"
Asks(pg) == IF pg.mode = "assistant" THEN "chat" ELSE Plans(pg)

Acts == acts < MaxActs[rough # {}] /\ acts' = acts + 1

Caught == [f \in Closure |-> page[f]]
Job(op, at) == [n |-> 0, op |-> op, at |-> at, p |-> None, m |-> None, was |-> Caught]
Free == Slots \ {j.n : j \in jobs}
Begin(j) ==
    /\ Free # {}
    /\ jobs' = jobs \cup {[j EXCEPT !.n = CHOOSE n \in Free : \A o \in Free : n <= o]}
Goes(j, at) == jobs' = (jobs \ {j}) \cup {[j EXCEPT !.at = at]}
Gone(j) == jobs' = jobs \ {j}

Hears == table.recorder \/ \E j \in jobs : j.op = "start"

\* What is under way that somebody could have waited for.
Pending ==
    {h \in {"mic", "products", "address", "models"} :
        CASE h = "mic" -> page.busy \/ Hears # page.seen
          [] h = "products" -> \E j \in jobs : j.op \in {"load", "map", "panel"}
          [] h = "address" -> page.checking \/ \E j \in jobs : j.op \in {"voice", "panel"}
          [] h = "models" -> \E j \in jobs : j.op \in {"install", "remove"}}
Hurries(hs) == rough' = rough \cup (hs \cap Pending)

------------------------------------------------------------------------------
(* Preferences *)

\* The effect that reads what was saved is set off by every rendering, for one
\* of the functions it depends on is new each time: it never rests.  The screen
\* and whether replies are read are saved whenever they change and by nothing
\* else, so that reading them back leaves them as they are.
ReadPreferences ==
    /\ page' = [page EXCEPT !.mode = table.saved.mode, !.selected = table.saved.selected]
    /\ UNCHANGED <<table, jobs, rough, acts>>

\* Of the models saved as installed, those whose file is there.
VerifyModels ==
    /\ page' = [page EXCEPT !.installed = table.saved.installed \cap table.files]
    /\ UNCHANGED <<table, jobs, rough, acts>>

SwitchTab(t) ==
    /\ page' = [page EXCEPT !.tab = t]
    /\ UNCHANGED <<table, jobs, rough>>

SwitchVoiceMode(m) ==
    /\ page.tab = "voice"
    /\ page' = [page EXCEPT !.mode = m]
    /\ table' = [table EXCEPT !.saved.mode = m]
    /\ UNCHANGED <<jobs, rough>>

SetReadReplies(b) ==
    /\ page' = [page EXCEPT !.read = b]
    /\ table' = [table EXCEPT !.speaking = @ /\ b]
    /\ UNCHANGED <<jobs, rough>>

------------------------------------------------------------------------------
(* The connection *)

\* Another address, or a refresh, begins a new check and drops the one before.
Checked(pg, a) == [pg EXCEPT !.address = a, !.status = "checking", !.checking = TRUE]

\* Typed, or from the link that opens the application.
ChangeAddress(a) ==
    /\ a # page.address
    /\ page' = Checked(page, a)
    /\ UNCHANGED <<table, jobs>>
    /\ Hurries({"address"})

\* An address that cannot be reached is tried as the phone's own.
FallsBack(a) == a \notin table.net /\ a # "loop" /\ "loop" \in table.net
Reached(a) == a \in table.net \/ FallsBack(a)

\* applyFallbackBaseUrl, or setConnectionStatus: the page after an answer from
\* the address a.  An address that is new is checked.
Connected(pg, a) ==
    IF ~ FallsBack(a) THEN [pg EXCEPT !.status = "connected"]
    ELSE [pg EXCEPT !.address = "loop", !.status = "connected",
                    !.checking = @ \/ pg.address # "loop"]

\* Variant: a check that shows the configured address as connected.
CheckWithoutAddress ==
    /\ page.checking
    /\ page' = [page EXCEPT !.checking = FALSE,
                            !.status = IF Reached(page.address) THEN "connected" ELSE "offline"]
    /\ UNCHANGED <<table, jobs, rough, acts>>

CheckConnection ==
    /\ page.checking
    /\ LET over == [page EXCEPT !.checking = FALSE]
       IN  \/ Reached(page.address) /\ page' = Connected(over, page.address)
           \/ page' = [over EXCEPT !.status = "offline"]
    /\ UNCHANGED <<table, jobs, rough, acts>>

------------------------------------------------------------------------------
(* Products *)

\* loadProducts
Load(p, pg) ==
    /\ Begin([Job("load", "list") EXCEPT !.p = p])
    /\ page' = [pg EXCEPT !.loading = TRUE, !.failed = FALSE]
    /\ UNCHANGED table

\* The explorer without products loads them, again when there are none.
LoadAtFirst ==
    /\ page.tab = "products" /\ page.products = {} /\ ~ page.loading
    /\ Load(page.product, page)
    /\ UNCHANGED <<rough, acts>>

PickProduct(p) ==
    /\ Explored /\ p \in page.products
    /\ Load(p, page)
    /\ Hurries({"products"})

Retry ==
    /\ page.tab = "products" /\ ~ Explored
    /\ Load(page.product, page)
    /\ Hurries({"products"})

\* Refresh: the products on their screen, and the connection.
Refresh ==
    /\ LET pg == Checked(page, page.address)
       IN  IF page.tab = "products" THEN Load(page.product, pg)
                                    ELSE page' = pg /\ UNCHANGED <<table, jobs>>
    /\ Hurries({"products", "address"})

\* ensureProductTree, unless the tree is there.
Ensure(pg) ==
    IF pg.product = None \/ pg.tree = pg.product THEN page' = pg /\ UNCHANGED jobs
    ELSE /\ Begin([Job("map", "tree") EXCEPT !.p = pg.product])
         /\ page' = [pg EXCEPT !.mapping = TRUE, !.failed = FALSE]

SwitchView(v) ==
    /\ Explored
    /\ IF v = "map" THEN Ensure([page EXCEPT !.view = v])
                    ELSE page' = [page EXCEPT !.view = v] /\ UNCHANGED jobs
    /\ UNCHANGED table
    /\ Hurries({"products"})

LoadMap ==
    /\ Explored /\ page.view = "map" /\ page.tree = None /\ page.product # None
    /\ ~ page.mapping
    /\ Ensure(page)
    /\ UNCHANGED table
    /\ Hurries({"products"})

OpenNode ==
    /\ Explored /\ page.view = "map" /\ page.tree # None
    /\ page' = [page EXCEPT !.node = page.tree]
    /\ UNCHANGED <<table, jobs>>
    /\ Hurries({"products"})

Back ==
    /\ PanelShown
    /\ page' = [page EXCEPT !.node = None]
    /\ UNCHANGED <<table, jobs>>
    /\ Hurries({"products"})

\* The end of a load; one that a planner prompt waits for brings back the node
\* it was sent from.
LoadOver(j, pg) ==
    /\ Gone(j)
    /\ page' = CASE j.op = "map" -> pg
                 [] j.op = "load" -> [pg EXCEPT !.loading = FALSE]
                 [] j.op = "panel" -> [pg EXCEPT !.loading = FALSE, !.node = j.was.node, !.busy = FALSE]

\* The product that was asked for, else the selected one, else the first.
Chosen(j) ==
    CASE j.p \in table.there -> j.p
      [] j.p \notin table.there /\ j.was.product \in table.there -> j.was.product
      [] OTHER -> IF First \in table.there THEN First ELSE CHOOSE p \in table.there : TRUE

Listed(j) ==
    /\ j.at = "list" /\ j.was.address \in table.net
    /\ LET pg == [page EXCEPT !.products = table.there]
       IN  IF table.there = {}
           THEN LoadOver(j, [pg EXCEPT !.product = None, !.tree = None, !.node = None])
           ELSE /\ page' = pg
                /\ jobs' = (jobs \ {j}) \cup {[j EXCEPT !.at = "summary", !.p = Chosen(j)]}
    /\ UNCHANGED <<table, rough, acts>>

\* Variant: a summary that keeps the tree of the product before.
SummarizedKeepingTree(j) ==
    /\ j.at = "summary" /\ j.was.address \in table.net
    /\ LET pg == [page EXCEPT !.product = j.p]
       IN  IF j.was.view = "map"
           THEN Goes(j, "tree") /\ page' = [pg EXCEPT !.mapping = TRUE, !.failed = FALSE]
           ELSE LoadOver(j, pg)
    /\ UNCHANGED <<table, rough, acts>>

\* loadProductSummary: the tree stays when it is the product's and on the screen.
Summarized(j) ==
    /\ j.at = "summary" /\ j.was.address \in table.net
    /\ LET pg == IF j.was.tree = j.p /\ j.was.view = "map" THEN [page EXCEPT !.product = j.p]
                 ELSE [page EXCEPT !.product = j.p, !.tree = None, !.node = None]
       IN  IF j.was.view = "map"
           THEN Goes(j, "tree") /\ page' = [pg EXCEPT !.mapping = TRUE, !.failed = FALSE]
           ELSE LoadOver(j, pg)
    /\ UNCHANGED <<table, rough, acts>>

TreeLoaded(j) ==
    /\ j.at = "tree" /\ j.was.address \in table.net
    /\ LoadOver(j, [page EXCEPT !.tree = j.p, !.product = j.p, !.mapping = FALSE,
                                !.node = IF j.was.product = j.p THEN @ ELSE None])
    /\ UNCHANGED <<table, rough, acts>>

LoadFails(j) ==
    /\ j.at \in {"list", "summary", "tree"}
    /\ LoadOver(j, [page EXCEPT !.failed = TRUE, !.mapping = @ /\ j.at # "tree"])
    /\ UNCHANGED <<table, rough, acts>>

------------------------------------------------------------------------------
(* The recorder *)

\* The poll that tells the screens whether the recorder records.
Poll ==
    /\ page.seen # table.recorder
    /\ page' = [page EXCEPT !.seen = table.recorder]
    /\ UNCHANGED <<table, jobs, rough, acts>>

\* Variant: a recording that lets a reply be read on.
StartWhileSpeaking(op) ==
    /\ ActiveModel(page) # None
    /\ Begin([Job("start", "permit") EXCEPT !.p = op])
    /\ page' = [page EXCEPT !.busy = TRUE, !.panel = @ \/ op = "panel"]
    /\ UNCHANGED table

\* Without a speech model on the device the list of models is shown.
StartRecording(op) ==
    IF ActiveModel(page) = None
    THEN page' = [page EXCEPT !.tab = "models"] /\ UNCHANGED <<table, jobs>>
    ELSE /\ Begin([Job("start", "permit") EXCEPT !.p = op])
         /\ page' = [page EXCEPT !.busy = TRUE, !.panel = @ \/ op = "panel"]
         /\ table' = [table EXCEPT !.speaking = FALSE]

\* Variant: a stop that does not raise the busy flag.
StopUnmarked(op) ==
    /\ Begin(Job(op, "stop"))
    /\ UNCHANGED <<page, table>>

StopRecording(op) ==
    /\ Begin(Job(op, "stop"))
    /\ page' = [page EXCEPT !.busy = TRUE]
    /\ UNCHANGED table

\* toggleNativeVoiceRecording, toggleProductPlannerRecording
Mic ==
    /\ MicOffered
    /\ IF page.seen THEN StopRecording("voice") ELSE StartRecording("voice")
    /\ Hurries({"mic"})

PanelMic ==
    /\ PanelMicOffered
    /\ IF Taping THEN StopRecording("draft") ELSE StartRecording("panel")
    /\ Hurries({"mic"})

Recording(j) ==
    /\ j.at = "permit"
    /\ Gone(j)
    /\ page' = [page EXCEPT !.busy = FALSE]
    /\ table' = [table EXCEPT !.recorder = TRUE, !.taped = TRUE]
    /\ UNCHANGED <<rough, acts>>

\* The permission is refused, or the recorder cannot be prepared.
NotRecording(j) ==
    /\ j.at = "permit"
    /\ Gone(j)
    /\ page' = [page EXCEPT !.busy = FALSE, !.panel = @ /\ j.p # "panel"]
    /\ UNCHANGED <<table, rough, acts>>

\* The end of a stop of either screen.
StopOver(j) ==
    /\ Gone(j)
    /\ page' = [page EXCEPT !.busy = FALSE, !.panel = @ /\ j.op # "draft"]

\* The recording is transcribed with the model that was active, if there is one.
Stopped(j) ==
    /\ j.at = "stop"
    /\ table' = [table EXCEPT !.recorder = FALSE]
    /\ IF table.taped /\ ActiveModel(j.was) # None THEN Goes(j, "stt") /\ UNCHANGED page
                                                   ELSE StopOver(j)
    /\ UNCHANGED <<rough, acts>>

\* Nothing was said, or a step of the stop failed.
NothingHeard(j) ==
    /\ j.at \in {"stop", "stt"}
    /\ StopOver(j)
    /\ UNCHANGED <<table, rough, acts>>

\* The panel shows the transcript; the voice screen sends it.
Transcribed(j) ==
    /\ j.at = "stt"
    /\ IF j.op = "draft" THEN StopOver(j)
       ELSE Goes(j, Asks(j.was)) /\ page' = [page EXCEPT !.busy = TRUE]
    /\ UNCHANGED <<table, rough, acts>>

------------------------------------------------------------------------------
(* Prompts and replies *)

\* submitVoicePrompt with what was typed.
Send ==
    /\ SendOffered
    /\ Begin(Job("voice", Asks(page)))
    /\ page' = [page EXCEPT !.busy = TRUE]
    /\ UNCHANGED table
    /\ Hurries({"mic"})

\* submitProductPlannerPrompt: the prompt names the product and the node.
PanelSend ==
    /\ PanelSendOffered
    /\ Begin([Job("panel", Plans(page)) EXCEPT !.p = page.product])
    /\ page' = [page EXCEPT !.busy = TRUE, !.mode = "planner"]
    /\ UNCHANGED table
    /\ Hurries({"mic", "products"})

\* The phone reads a reply out again, unless it was told not to read.
Speak ==
    /\ PanelShown /\ page.reply
    /\ table' = [table EXCEPT !.speaking = @ \/ page.read]
    /\ UNCHANGED <<page, jobs>>
    /\ rough' = IF Hears THEN rough \cup {"mic"} ELSE rough

SpeechOver ==
    /\ table.speaking
    /\ table' = [table EXCEPT !.speaking = FALSE]
    /\ UNCHANGED <<page, jobs, rough, acts>>

SessionMade(j) ==
    /\ j.at = "session" /\ Reached(j.was.address)
    /\ Goes(j, "turn")
    /\ page' = [Connected(page, j.was.address) EXCEPT !.session = TRUE]
    /\ UNCHANGED <<table, rough, acts>>

\* A reply; the planner may have removed a product.  After a prompt of the
\* panel the products are loaded again.
Replied(j) ==
    /\ j.at \in {"chat", "turn"} /\ Reached(j.was.address)
    /\ LET pg == Connected(page, j.was.address)
       IN  IF j.op = "voice" THEN Gone(j) /\ page' = [pg EXCEPT !.busy = FALSE]
           ELSE /\ Goes(j, "list")
                /\ page' = [pg EXCEPT !.reply = TRUE, !.loading = TRUE, !.failed = FALSE]
    /\ \E gone \in {{}} \cup {{p} : p \in IF j.at = "turn" THEN table.there ELSE {}} :
          table' = [table EXCEPT !.there = @ \ gone, !.speaking = @ \/ j.was.read]
    /\ UNCHANGED <<rough, acts>>

NoReply(j) ==
    /\ j.at \in {"session", "chat", "turn"}
    /\ Gone(j)
    /\ page' = [page EXCEPT !.busy = FALSE]
    /\ UNCHANGED <<table, rough, acts>>

------------------------------------------------------------------------------
(* Speech models *)

SelectModel(m) ==
    /\ page.tab = "models"
    /\ page' = [page EXCEPT !.selected = m]
    /\ table' = [table EXCEPT !.saved.selected = m]
    /\ UNCHANGED <<jobs, rough>>

InstallModel(m) ==
    /\ page.tab = "models" /\ m \notin page.installed /\ page.installing = None
    /\ Begin([Job("install", "download") EXCEPT !.m = m])
    /\ page' = [page EXCEPT !.installing = m]
    /\ UNCHANGED table
    /\ Hurries({"models"})

\* The list that is kept is the one the handler began with, and the model.
\* The saving of the list, or of the choice, may fail.
Installed(j) ==
    /\ j.at = "download"
    /\ Gone(j)
    /\ LET list == j.was.installed \cup {j.m}
           got == [table EXCEPT !.files = @ \cup {j.m}]
           kept == [got EXCEPT !.saved.installed = list]
           chosen == [page EXCEPT !.installed = list, !.installing = None, !.selected = j.m]
       IN  \/ page' = chosen /\ table' \in {kept, [kept EXCEPT !.saved.selected = j.m]}
           \/ page' = [chosen EXCEPT !.selected = page.selected] /\ table' = got
    /\ UNCHANGED <<rough, acts>>

\* What the download left behind is taken for the model the next time.
NotInstalled(j) ==
    /\ j.at = "download"
    /\ Gone(j)
    /\ page' = [page EXCEPT !.installing = None]
    /\ \E f \in {{}, {j.m}} : table' = [table EXCEPT !.files = @ \cup f]
    /\ UNCHANGED <<rough, acts>>

RemoveModel(m) ==
    /\ page.tab = "models" /\ m \in page.installed
    /\ Begin([Job("remove", "delete") EXCEPT !.m = m])
    /\ UNCHANGED <<page, table>>
    /\ Hurries({"models"})

FileDeleted(j) ==
    /\ j.at = "delete"
    /\ table' = [table EXCEPT !.files = @ \ {j.m}]
    /\ Goes(j, "unlist")
    /\ UNCHANGED <<page, rough, acts>>

NotDeleted(j) ==
    /\ j.at = "delete"
    /\ Gone(j)
    /\ UNCHANGED <<page, table, rough, acts>>

\* Variant: a removal that keeps the model in the list.
RemovedFileOnly(j) ==
    /\ j.at = "unlist"
    /\ Gone(j)
    /\ UNCHANGED <<page, table, rough, acts>>

Removed(j) ==
    /\ j.at = "unlist"
    /\ Gone(j)
    /\ LET list == j.was.installed \ {j.m}
       IN  /\ page' = [page EXCEPT !.installed = list]
           /\ table' \in {table, [table EXCEPT !.saved.installed = list]}
    /\ UNCHANGED <<rough, acts>>

------------------------------------------------------------------------------
\* The application was opened just now, or has been connected and shows the
\* node of the first product on its map.
Init ==
    /\ \E tab \in Tabs \ {"planner"}, opened \in BOOLEAN,
          files \in {{}} \cup {{m} : m \in Models}, net \in {{a} : a \in Addresses} :
          /\ opened => net = {"far"}
          /\ page = [tab |-> tab, mode |-> "assistant", read |-> TRUE,
                     view |-> IF opened THEN "map" ELSE "overview",
                     products |-> IF opened THEN Products ELSE {},
                     product |-> IF opened THEN First ELSE None,
                     tree |-> IF opened THEN First ELSE None,
                     node |-> IF opened THEN First ELSE None,
                     loading |-> FALSE, mapping |-> FALSE, failed |-> FALSE, busy |-> FALSE,
                     seen |-> FALSE, panel |-> FALSE, reply |-> FALSE, session |-> FALSE,
                     address |-> "far", status |-> IF opened THEN "connected" ELSE "checking",
                     checking |-> ~ opened, installing |-> None,
                     selected |-> CHOOSE m \in Models : files \subseteq {m}, installed |-> files]
          /\ table = [there |-> Products, net |-> net, recorder |-> FALSE, taped |-> FALSE,
                      speaking |-> FALSE, files |-> files,
                      saved |-> [mode |-> "assistant", installed |-> files,
                                 selected |-> CHOOSE m \in Models : files \subseteq {m}]]
    /\ jobs = {} /\ rough = {} /\ acts = 0

Act ==
    \/ \E t \in Tabs : SwitchTab(t)
    \/ \E m \in {"assistant", "planner"} : SwitchVoiceMode(m)
    \/ \E b \in BOOLEAN : SetReadReplies(b)
    \/ \E a \in Addresses : ChangeAddress(a)
    \/ Refresh \/ Retry
    \/ \E p \in Products : PickProduct(p)
    \/ \E v \in Views : SwitchView(v)
    \/ LoadMap \/ OpenNode \/ Back
    \/ Mic \/ PanelMic \/ Send \/ PanelSend \/ Speak
    \/ \E m \in Models : SelectModel(m) \/ InstallModel(m) \/ RemoveModel(m)

Serve(j) ==
    \/ Listed(j) \/ Summarized(j) \/ TreeLoaded(j) \/ LoadFails(j)
    \/ Recording(j) \/ NotRecording(j) \/ Stopped(j) \/ NothingHeard(j) \/ Transcribed(j)
    \/ SessionMade(j) \/ Replied(j) \/ NoReply(j)
    \/ Installed(j) \/ NotInstalled(j) \/ FileDeleted(j) \/ NotDeleted(j) \/ Removed(j)

Next ==
    \/ Acts /\ Act
    \/ ReadPreferences \/ VerifyModels \/ CheckConnection \/ LoadAtFirst \/ Poll \/ SpeechOver
    \/ \E j \in jobs : Serve(j)

Spec == Init /\ [][Next]_vars

------------------------------------------------------------------------------
(* Properties *)

TypeOK ==
    /\ page \in [tab : Tabs, mode : {"assistant", "planner"}, read : BOOLEAN, view : Views,
                 products : SUBSET Products, product : Products \cup {None},
                 tree : Products \cup {None}, node : Products \cup {None},
                 loading : BOOLEAN, mapping : BOOLEAN, failed : BOOLEAN, busy : BOOLEAN,
                 seen : BOOLEAN, panel : BOOLEAN, reply : BOOLEAN, session : BOOLEAN,
                 address : Addresses, status : {"checking", "connected", "offline"},
                 checking : BOOLEAN, installing : Models \cup {None}, selected : Models,
                 installed : SUBSET Models]
    /\ table.there \subseteq Products /\ table.files \subseteq Models
    /\ \A i, j \in jobs : i.n = j.n => i = j

Turns == {j \in jobs : j.at \in {"session", "chat", "turn"}}

\* One busy flag for two screens, raised and lowered by nested handlers, keeps
\* a waiting person's prompts apart, and the recorder off while one is answered.
OneTurn ==
    "mic" \notin rough =>
        /\ \A i, j \in Turns : i = j
        /\ Turns # {} => ~ table.recorder

\* For such a person the phone never records a reply it reads out itself.
HalfDuplex == "mic" \notin rough => ~ (table.recorder /\ table.speaking)

\* However products are picked, removed by the planner and loaded again, the
\* prompt of a person who waits for loads is about a node of the product it is
\* filed under.
OwnContext ==
    "products" \notin rough => \A j \in Turns : j.op = "panel" => Node(j.was) = j.was.product

\* For a person who waits for the desktop's answers, a connection that is shown
\* is one of the address that is shown and used.
StatusOfAddress ==
    "address" \notin rough /\ ~ page.checking /\ jobs = {} =>
        (page.status = "connected" => page.address \in table.net)

\* For a person who waits for installations and removals, a speech model that
\* is listed is on the device.
ModelsThere == "models" \notin rough /\ jobs = {} => page.installed \subseteq table.files
==============================================================================
