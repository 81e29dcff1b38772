------------------------------ MODULE TalkProofs ------------------------------
(***************************************************************************)
(* What the pages that listen and speak keep, for all products and speech  *)
(* models: the two chats and the companion application.  The invariant of  *)
(* the latter has a part for each thing a person may wait for: the         *)
(* microphone, the products, the address, the models.  ToolsProofs takes   *)
(* both to the behaviours of Tools.                                        *)
(***************************************************************************)
EXTENDS Tools, TLAPS

------------------------------------------------------------------------------
(* The chats *)

ChatEarly == {"asked", "mic", "ended", "stt"}
ChatLate == {"start", "stream", "queue", "speak"}
ChatStages(op) == CASE op = "listen" -> ChatEarly \cup ChatLate
                [] op = "dictate" -> ChatEarly
                [] op = "typed" -> ChatLate
                [] op = "send" -> {"start", "stream", "timer"}
ChatJobRec == {j \in [n : Chat!Slots, op : {"listen", "typed", "send", "dictate"},
                  at : ChatEarly \cup ChatLate \cup {"timer"}, live : BOOLEAN, over : BOOLEAN] :
              j.at \in ChatStages(j.op)}
ChatPageRec == [kind : {"direct", "voice"}, chosen : BOOLEAN, speech : BOOLEAN, enabled : BOOLEAN,
            read : BOOLEAN, session : BOOLEAN, listening : BOOLEAN, transcribing : BOOLEAN,
            sending : BOOLEAN, speaking : BOOLEAN, loop : BOOLEAN, held : {Chat!None} \cup Chat!Slots,
            armed : BOOLEAN, talk : BOOLEAN]

\* What is under way on a page is the page's own.
ChatOwn(js, pg) ==
    /\ js \subseteq ChatJobRec
    /\ \A i, j \in js : i.n = j.n => i = j
    /\ \A j \in js : j.live => j.op \in IF pg.kind = "voice" THEN {"listen", "typed"} ELSE {"send", "dictate"}
    /\ \A j \in js : j.op = "send" => j.live

\* A page that holds a capture holds one that is there.
ChatHolds(js, pg) ==
    pg.held # Chat!None => \E j \in js : j.live /\ j.n = pg.held /\ j.at \in {"mic", "ended"}

\* One turn is listened for at a time, and the loop is taken meanwhile.
ChatOneLoop(js, pg) ==
    pg.kind = "voice" =>
        /\ \A i, j \in js : i.live /\ j.live /\ i.op = "listen" /\ j.op = "listen" => i = j
        /\ \A j \in js : j.live /\ j.op = "listen" => pg.loop

\* A page without a session, and without a timer that would listen.
ChatStill(pg) == ~ pg.session /\ ~ pg.armed

\* For a person who waits one turn or dictation is under way, whoever began it
\* and on whichever page; a turn that is sent keeps its page sending, and while
\* the turn of a page that was left goes on no session does.
ChatOneTalk(js, pg) ==
    ~ rough =>
        /\ \A i, j \in js : i.op # "send" /\ j.op # "send" => i = j
        /\ pg.kind = "voice" => \A j \in js : j.live /\ j.at \in ChatLate => pg.sending
        /\ (\E j \in js : ~ j.live) => ChatStill(pg)

\* The timer is set on an idle page; the direct chat has no session and no timer.
ChatArmedIdle(pg) == /\ pg.armed => Chat!Idle(pg)
                     /\ pg.kind = "direct" => ~ pg.session /\ ~ pg.armed

ChatIInv == /\ page \in ChatPageRec /\ rough \in BOOLEAN
            /\ ChatOwn(jobs, page) /\ ChatHolds(jobs, page) /\ ChatOneLoop(jobs, page)
               /\ ChatOneTalk(jobs, page)
            /\ ChatArmedIdle(page)

\* A rendering keeps the types of the page and what is under way on it.
LEMMA ChatRenderedPage ==
    ASSUME NEW pg \in ChatPageRec, page \in ChatPageRec, ChatArmedIdle(page),
           pg.armed = page.armed, pg.kind = page.kind, pg.session = page.session \/ pg.kind = "voice"
    PROVE  /\ Chat!Rendered(pg) \in ChatPageRec /\ ChatArmedIdle(Chat!Rendered(pg))
           /\ Chat!Rendered(pg).kind = pg.kind /\ Chat!Rendered(pg).loop = pg.loop
           /\ Chat!Rendered(pg).held = pg.held /\ Chat!Rendered(pg).sending = pg.sending
           /\ ChatStill(pg) => ChatStill(Chat!Rendered(pg))
<1>1. CASE Chat!Watched(pg) = Chat!Watched(page)
  <2>1. Chat!Rendered(pg) = pg
    BY <1>1 DEF Chat!Rendered
  <2>2. Chat!Idle(pg) = Chat!Idle(page)
    BY <1>1 DEF Chat!Watched, Chat!Idle, ChatPageRec
  <2> QED
    BY <2>1, <2>2 DEF ChatArmedIdle
<1>2. CASE Chat!Watched(pg) # Chat!Watched(page)
  <2>1. Chat!Rendered(pg) = [pg EXCEPT !.armed = pg.session /\ pg.enabled /\ Chat!Idle(pg)]
    BY <1>2 DEF Chat!Rendered
  <2>2. Chat!Rendered(pg) \in ChatPageRec
    BY <2>1 DEF ChatPageRec, Chat!Idle
  <2>3. ChatArmedIdle(Chat!Rendered(pg))
    BY <2>1 DEF ChatArmedIdle, Chat!Idle, ChatPageRec
  <2>4. ChatStill(pg) => ChatStill(Chat!Rendered(pg))
    BY <2>1 DEF ChatStill, ChatPageRec
  <2> QED
    BY <2>1, <2>2, <2>3, <2>4 DEF ChatPageRec
<1> QED
  BY <1>1, <1>2

\* The page as it is opened.
LEMMA ChatInitKeeps == Chat!Init => ChatIInv
  BY DEF Chat!Init, ChatIInv, Chat!Fresh, ChatPageRec, ChatOwn, ChatHolds, ChatOneLoop,
     ChatOneTalk, ChatArmedIdle, Chat!None

\* The state a step leaves.
LEMMA ChatAssembled ==
    ASSUME page' \in ChatPageRec, rough' = rough, rough \in BOOLEAN, ChatOwn(jobs', page'), ChatHolds(jobs', page'),
           ChatOneLoop(jobs', page'), ChatOneTalk(jobs', page'), ChatArmedIdle(page')
    PROVE  ChatIInv'
  BY DEF ChatIInv, ChatOneTalk

\* A job that begins.
LEMMA ChatBegins ==
    ASSUME ChatIInv, NEW op \in {"listen", "typed", "send", "dictate"}, NEW at \in ChatStages(op),
           Chat!Begin(Chat!Job(op, at))
    PROVE  \E k \in ChatJobRec : /\ k.op = op /\ k.at = at /\ k.live
                                 /\ jobs' = jobs \cup {k}
                                 /\ \A j \in jobs : j.n # k.n
<1> DEFINE k == [Chat!Job(op, at) EXCEPT !.n = CHOOSE n \in Chat!Free : \A o \in Chat!Free : n <= o]
<1>1. Chat!Free # {} /\ Chat!Free \subseteq {1, 2}
  BY DEF Chat!Begin, Chat!Free, Chat!Slots
<1>2. \E n \in Chat!Free : \A o \in Chat!Free : n <= o
  <2>1. CASE 1 \in Chat!Free
    BY <1>1, <2>1
  <2>2. CASE 1 \notin Chat!Free
    <3>1. Chat!Free = {2}
      BY <1>1, <2>2
    <3> QED
      BY <3>1
  <2> QED
    BY <2>1, <2>2
<1>3. (CHOOSE n \in Chat!Free : \A o \in Chat!Free : n <= o) \in Chat!Free
  BY <1>2
<1>4. Chat!Free \subseteq Chat!Slots /\ \A j \in jobs : j.n \notin Chat!Free
  BY DEF Chat!Free
<1>5. k \in ChatJobRec /\ k.op = op /\ k.at = at /\ k.live /\ k.n \in Chat!Free
  BY <1>3, <1>4 DEF Chat!Job, ChatJobRec, ChatStages, ChatEarly, ChatLate
<1>6. jobs' = jobs \cup {k}
  BY DEF Chat!Begin
<1> HIDE DEF k
<1> QED
  BY <1>4, <1>5, <1>6

\* A page that changes in what is of no account to its jobs.
LEMMA ChatPageOnly ==
    ASSUME ChatIInv, NEW pg \in ChatPageRec, pg.kind = page.kind, pg.loop = page.loop, pg.sending = page.sending,
           pg.held = page.held, ChatArmedIdle(pg), page' = pg, jobs' = jobs, rough' = rough,
           (ChatStill(page) => ChatStill(pg)) \/ rough \/ \A j \in jobs : j.live
    PROVE  ChatIInv'
  BY ChatAssembled DEF ChatIInv, ChatOwn, ChatHolds, ChatOneLoop, ChatOneTalk

\* What a job shows is rendered while its page is there.
LEMMA ChatShownPage ==
    ASSUME ChatIInv, NEW j \in jobs, NEW pg \in ChatPageRec, pg.armed = page.armed, pg.kind = page.kind,
           pg.session = page.session, Chat!Shows(j, pg)
    PROVE  /\ page' \in ChatPageRec /\ ChatArmedIdle(page') /\ page'.kind = page.kind
           /\ ~ j.live => page' = page
           /\ j.live => page'.loop = pg.loop /\ page'.held = pg.held /\ page'.sending = pg.sending
           /\ (ChatStill(page) => ChatStill(page'))
<1>1. CASE j.live
  BY <1>1, ChatRenderedPage DEF Chat!Shows, ChatIInv, ChatStill
<1>2. CASE ~ j.live
  BY <1>2 DEF Chat!Shows, ChatIInv
<1> QED
  BY <1>1, <1>2

\* A job that goes on to another stage.
LEMMA ChatGoesOn ==
    ASSUME ChatIInv, NEW j \in jobs, NEW at \in ChatStages(j.op), NEW over \in BOOLEAN,
           NEW k, k = [j EXCEPT !.at = at, !.over = over],
           jobs' = (jobs \ {j}) \cup {k}, rough' = rough,
           page' \in ChatPageRec, ChatArmedIdle(page'), ChatStill(page) => ChatStill(page'),
           page'.kind = page.kind, page'.loop = page.loop,
           ~ j.live => page'.held = page.held /\ page'.sending = page.sending,
           \/ page'.held = Chat!None
           \/ page'.held = page.held /\ (j.at \in {"mic", "ended"} => at \in {"mic", "ended"}
              \/ page.held # j.n)
           \/ j.live /\ page'.held = j.n /\ at = "mic",
           j.live /\ at \in ChatLate => page'.sending \/ (page'.sending = page.sending
           /\ j.at \in ChatLate)
    PROVE  ChatIInv'
<1>1. k \in ChatJobRec /\ k.n = j.n /\ k.op = j.op /\ k.at = at /\ k.live = j.live
  <2>1. j \in ChatJobRec
    BY DEF ChatIInv, ChatOwn
  <2> QED
    BY <2>1 DEF ChatJobRec, ChatStages, ChatEarly, ChatLate
<1>2. ChatOwn(jobs', page')
  <2>1. jobs \subseteq ChatJobRec /\ \A o \in jobs : o.n = j.n => o = j
    BY DEF ChatIInv, ChatOwn
  <2>2. jobs' \subseteq ChatJobRec
    BY <1>1, <2>1
  <2>3. \A i, o \in jobs' : i.n = o.n => i = o
    <3> SUFFICES ASSUME NEW i \in jobs', NEW o \in jobs', i.n = o.n
                 PROVE  i = o
      OBVIOUS
    <3>1. i = k \/ (i \in jobs /\ i # j)
      OBVIOUS
    <3>2. o = k \/ (o \in jobs /\ o # j)
      OBVIOUS
    <3>3. CASE i = k
      BY <3>2, <3>3, <2>1, <1>1
    <3>4. CASE o = k
      BY <3>1, <3>4, <2>1, <1>1
    <3>5. CASE i \in jobs /\ o \in jobs
      BY <3>5 DEF ChatIInv, ChatOwn
    <3> QED
      BY <3>1, <3>2, <3>3, <3>4, <3>5
  <2>4. \A o \in jobs' : o.live => o.op \in IF page'.kind = "voice" THEN {"listen", "typed"}
                                         ELSE {"send", "dictate"}
    BY <1>1 DEF ChatIInv, ChatOwn
  <2>5. \A o \in jobs' : o.op = "send" => o.live
    BY <1>1 DEF ChatIInv, ChatOwn
  <2> QED
    BY <2>2, <2>3, <2>4, <2>5 DEF ChatOwn
<1>3. ChatHolds(jobs', page')
  <2>1. CASE page'.held = Chat!None
    BY <2>1 DEF ChatHolds
  <2>2. CASE page'.held # Chat!None /\ page'.held = page.held /\ (j.at \in {"mic", "ended"}
        => at \in {"mic", "ended"} \/ page.held # j.n)
    <3>1. PICK o \in jobs : o.live /\ o.n = page.held /\ o.at \in {"mic", "ended"}
      BY <2>2 DEF ChatIInv, ChatHolds
    <3>2. CASE o = j
      BY <3>1, <3>2, <2>2, <1>1 DEF ChatHolds
    <3>3. CASE o # j
      BY <3>1, <3>3, <2>2 DEF ChatHolds
    <3> QED
      BY <3>2, <3>3
  <2>3. CASE j.live /\ page'.held = j.n /\ at = "mic"
    BY <2>3, <1>1 DEF ChatHolds
  <2> QED
    BY <2>1, <2>2, <2>3
<1>4. ChatOneLoop(jobs', page')
  <2> SUFFICES ASSUME page'.kind = "voice"
               PROVE  /\ \A i, o \in jobs' : i.live /\ o.live /\ i.op = "listen" /\ o.op = "listen"
                           => i = o
                      /\ \A o \in jobs' : o.live /\ o.op = "listen" => page'.loop
    BY DEF ChatOneLoop
  <2>1. /\ \A i, o \in jobs : i.live /\ o.live /\ i.op = "listen" /\ o.op = "listen" => i = o
        /\ \A o \in jobs : o.live /\ o.op = "listen" => page.loop
    BY DEF ChatIInv, ChatOneLoop
  <2>2. \A o \in jobs' : o.live /\ o.op = "listen" => page'.loop
    BY <2>1, <1>1
  <2>3. \A i, o \in jobs' : i.live /\ o.live /\ i.op = "listen" /\ o.op = "listen" => i = o
    <3> SUFFICES ASSUME NEW i \in jobs', NEW o \in jobs',
                        i.live /\ o.live /\ i.op = "listen" /\ o.op = "listen"
                 PROVE  i = o
      OBVIOUS
    <3>1. i = k \/ (i \in jobs /\ i # j)
      OBVIOUS
    <3>2. o = k \/ (o \in jobs /\ o # j)
      OBVIOUS
    <3>3. CASE i = k
      BY <3>2, <3>3, <2>1, <1>1
    <3>4. CASE o = k
      BY <3>1, <3>4, <2>1, <1>1
    <3> QED
      BY <3>1, <3>2, <3>3, <3>4, <2>1
  <2> QED
    BY <2>2, <2>3
<1>5. ChatOneTalk(jobs', page')
  <2> SUFFICES ASSUME ~ rough'
               PROVE  /\ \A i, o \in jobs' : i.op # "send" /\ o.op # "send" => i = o
                      /\ page'.kind = "voice" => \A o \in jobs' : o.live /\ o.at \in ChatLate
                                                               => page'.sending
                      /\ (\E o \in jobs' : ~ o.live) => ChatStill(page')
    BY DEF ChatOneTalk
  <2>1. /\ \A i, o \in jobs : i.op # "send" /\ o.op # "send" => i = o
        /\ page.kind = "voice" => \A o \in jobs : o.live /\ o.at \in ChatLate => page.sending
        /\ (\E o \in jobs : ~ o.live) => ChatStill(page)
    BY DEF ChatIInv, ChatOneTalk
  <2>2. \A o \in jobs' : o = k \/ (o \in jobs /\ o # j)
    OBVIOUS
  <2>3. \A i, o \in jobs' : i.op # "send" /\ o.op # "send" => i = o
    BY <1>1, <2>1, <2>2
  <2>4. ASSUME page'.kind = "voice", NEW o \in jobs', o.live, o.at \in ChatLate
        PROVE  page'.sending
    <3>1. CASE o = k
      BY <1>1, <2>1, <2>4, <3>1
    <3>2. CASE o \in jobs /\ o # j
      <4>1. o.op # "send" /\ j.op # "send"
        BY <2>4, <3>2 DEF ChatIInv, ChatOwn
      <4> QED
        BY <2>1, <3>2, <4>1
    <3> QED
      BY <2>2, <3>1, <3>2
  <2>5. (\E o \in jobs' : ~ o.live) => ChatStill(page')
    BY <1>1, <2>1, <2>2
  <2> QED
    BY <2>3, <2>4, <2>5
<1> QED
  BY <1>2, <1>3, <1>4, <1>5, ChatAssembled DEF ChatIInv

\* A job that is over.
LEMMA ChatIsGone ==
    ASSUME ChatIInv, NEW j \in jobs, jobs' = jobs \ {j}, rough' = rough,
           page' \in ChatPageRec, ChatArmedIdle(page'), ChatStill(page) => ChatStill(page'),
           page'.kind = page.kind,
           page'.loop = page.loop \/ (j.live /\ j.op = "listen"),
           ~ j.live => page'.held = page.held /\ page'.sending = page.sending,
           page'.held = Chat!None \/ (page'.held = page.held /\ j.at \notin {"mic", "ended"})
    PROVE  ChatIInv'
<1>1. ChatOwn(jobs', page')
  BY DEF ChatIInv, ChatOwn
<1>2. ChatHolds(jobs', page')
  BY DEF ChatIInv, ChatHolds
<1>3. ChatOneLoop(jobs', page')
  BY DEF ChatIInv, ChatOneLoop
<1>4. ChatOneTalk(jobs', page')
  <2> SUFFICES ASSUME ~ rough'
               PROVE  /\ \A i, o \in jobs' : i.op # "send" /\ o.op # "send" => i = o
                      /\ page'.kind = "voice" => \A o \in jobs' : o.live /\ o.at \in ChatLate
                                                               => page'.sending
                      /\ (\E o \in jobs' : ~ o.live) => ChatStill(page')
    BY DEF ChatOneTalk
  <2>1. /\ \A i, o \in jobs : i.op # "send" /\ o.op # "send" => i = o
        /\ (\E o \in jobs : ~ o.live) => ChatStill(page)
    BY DEF ChatIInv, ChatOneTalk
  <2>2. ASSUME page'.kind = "voice", NEW o \in jobs', o.live
        PROVE  FALSE
    <3>1. o.op # "send" /\ j.op # "send"
      BY <2>2 DEF ChatIInv, ChatOwn
    <3> QED
      BY <2>1, <3>1
  <2> QED
    BY <2>1, <2>2
<1> QED
  BY <1>1, <1>2, <1>3, <1>4, ChatAssembled DEF ChatIInv

\* The microphone is granted: it is held.
LEMMA ChatMicGrantedKeeps ==
    ASSUME ChatIInv, NEW j \in jobs, Chat!MicGranted(j)
    PROVE  ChatIInv'
<1> DEFINE pg == [page EXCEPT !.listening = TRUE, !.held = j.n]
           k == [j EXCEPT !.at = "mic", !.over = j.over]
<1>1. j \in ChatJobRec /\ j.at = "asked"
  BY DEF ChatIInv, ChatOwn, Chat!MicGranted, ChatJobRec, ChatStages, ChatEarly, ChatLate
<1>2. k = [j EXCEPT !.at = "mic"] /\ "mic" \in ChatStages(j.op) /\ j.over \in BOOLEAN
  BY <1>1 DEF ChatJobRec, ChatStages, ChatEarly, ChatLate
<1>3. pg \in ChatPageRec /\ pg.armed = page.armed /\ pg.kind = page.kind /\ pg.session = page.session
      /\ pg.loop = page.loop
  BY <1>1 DEF ChatIInv, ChatPageRec, ChatJobRec, Chat!Slots, Chat!None
<1>4. jobs' = (jobs \ {j}) \cup {k} /\ rough' = rough /\ Chat!Shows(j, pg)
  BY <1>2 DEF Chat!MicGranted, Chat!Goes
<1>5. pg.held = j.n
  BY <1>1 DEF ChatIInv, ChatPageRec
<1>6. "mic" \notin ChatLate
  BY DEF ChatLate
<1> HIDE DEF pg, k
<1>7. /\ page' \in ChatPageRec /\ ChatArmedIdle(page') /\ page'.kind = page.kind
      /\ ~ j.live => page' = page
      /\ j.live => page'.loop = pg.loop /\ page'.held = pg.held /\ page'.sending = pg.sending
      /\ (ChatStill(page) => ChatStill(page'))
  BY <1>3, <1>4, ChatShownPage
<1>8. j.live \/ page.held # j.n
  BY <1>1 DEF ChatIInv, ChatOwn, ChatHolds, Chat!None, ChatJobRec, Chat!Slots
<1> QED
  BY <1>1, <1>2, <1>3, <1>4, <1>5, <1>6, <1>7, <1>8, ChatGoesOn DEF k

\* A capture comes to its end and is transcribed.
LEMMA ChatEndedKeeps ==
    ASSUME ChatIInv, NEW j \in jobs, Chat!Ended(j)
    PROVE  ChatIInv'
<1> DEFINE pg == [page EXCEPT !.held = IF @ = j.n
    \/ j.op = "dictate" THEN Chat!None ELSE @, !.listening = FALSE,
                                !.transcribing = TRUE]
           k == [j EXCEPT !.at = "stt", !.over = j.over]
<1>1. j \in ChatJobRec /\ j.at = "ended"
  BY DEF ChatIInv, ChatOwn, Chat!Ended, ChatJobRec, ChatStages, ChatEarly, ChatLate
<1>2. k = [j EXCEPT !.at = "stt"] /\ "stt" \in ChatStages(j.op) /\ j.over \in BOOLEAN
  BY <1>1 DEF ChatJobRec, ChatStages, ChatEarly, ChatLate
<1>3. pg \in ChatPageRec /\ pg.armed = page.armed /\ pg.kind = page.kind /\ pg.session = page.session
      /\ pg.loop = page.loop
  BY <1>1 DEF ChatIInv, ChatPageRec, ChatJobRec, Chat!Slots, Chat!None
<1>4. jobs' = (jobs \ {j}) \cup {k} /\ rough' = rough /\ Chat!Shows(j, pg)
  BY <1>2 DEF Chat!Ended, Chat!Goes
<1>5. pg.held = Chat!None \/ (pg.held = page.held /\ page.held # j.n)
  BY <1>1 DEF ChatIInv, ChatPageRec
<1>6. "stt" \notin ChatLate
  BY DEF ChatLate
<1> HIDE DEF pg, k
<1>7. /\ page' \in ChatPageRec /\ ChatArmedIdle(page') /\ page'.kind = page.kind
      /\ ~ j.live => page' = page
      /\ j.live => page'.loop = pg.loop /\ page'.held = pg.held /\ page'.sending = pg.sending
      /\ (ChatStill(page) => ChatStill(page'))
  BY <1>3, <1>4, ChatShownPage
<1>8. j.live \/ page.held # j.n
  BY <1>1 DEF ChatIInv, ChatOwn, ChatHolds, Chat!None, ChatJobRec, Chat!Slots
<1> QED
  BY <1>1, <1>2, <1>3, <1>4, <1>5, <1>6, <1>7, <1>8, ChatGoesOn DEF k

\* The capture of a turn ends.
LEMMA ChatSilenceKeeps ==
    ASSUME ChatIInv, NEW j \in jobs, Chat!Silence(j)
    PROVE  ChatIInv'
<1> DEFINE k == [j EXCEPT !.at = "ended", !.over = j.over]
<1>1. j \in ChatJobRec /\ page \in ChatPageRec /\ ChatArmedIdle(page)
  BY DEF ChatIInv, ChatOwn
<1>2. "ended" \in ChatStages(j.op) /\ j.over \in BOOLEAN /\ (j.at \in {"mic", "ended"}
      => "ended" = "ended")
      /\ ("ended" \in ChatLate => j.at \in ChatLate)
  BY <1>1 DEF Chat!Silence, ChatJobRec, ChatStages, ChatEarly, ChatLate
<1>3. jobs' = (jobs \ {j}) \cup {k} /\ rough' = rough /\ page' = page
  BY <1>1 DEF Chat!Silence, Chat!Goes, ChatJobRec
<1> HIDE DEF k
<1> QED
  BY <1>1, <1>2, <1>3, ChatGoesOn DEF k

\* A stream is over before the page knows it.
LEMMA ChatStreamOverKeeps ==
    ASSUME ChatIInv, NEW j \in jobs, Chat!StreamOver(j)
    PROVE  ChatIInv'
<1> DEFINE k == [j EXCEPT !.at = "start", !.over = TRUE]
<1>1. j \in ChatJobRec /\ page \in ChatPageRec /\ ChatArmedIdle(page)
  BY DEF ChatIInv, ChatOwn
<1>2. "start" \in ChatStages(j.op) /\ TRUE \in BOOLEAN /\ (j.at \in {"mic", "ended"}
      => "start" = "ended")
      /\ ("start" \in ChatLate => j.at \in ChatLate)
  BY <1>1 DEF Chat!StreamOver, ChatJobRec, ChatStages, ChatEarly, ChatLate
<1>3. jobs' = (jobs \ {j}) \cup {k} /\ rough' = rough /\ page' = page
  BY <1>1 DEF Chat!StreamOver, Chat!Goes, ChatJobRec
<1> HIDE DEF k
<1> QED
  BY <1>1, <1>2, <1>3, ChatGoesOn DEF k

\* The start is answered.
LEMMA ChatStartedKeeps ==
    ASSUME ChatIInv, NEW j \in jobs, Chat!Started(j)
    PROVE  ChatIInv'
<1> DEFINE k == [j EXCEPT !.at = "stream", !.over = j.over]
<1>1. j \in ChatJobRec /\ page \in ChatPageRec /\ ChatArmedIdle(page)
  BY DEF ChatIInv, ChatOwn
<1>2. "stream" \in ChatStages(j.op) /\ j.over \in BOOLEAN /\ (j.at \in {"mic", "ended"}
      => "stream" = "ended")
      /\ ("stream" \in ChatLate => j.at \in ChatLate)
  BY <1>1 DEF Chat!Started, ChatJobRec, ChatStages, ChatEarly, ChatLate
<1>3. jobs' = (jobs \ {j}) \cup {k} /\ rough' = rough /\ page' = page
  BY <1>1 DEF Chat!Started, Chat!Goes, ChatJobRec
<1> HIDE DEF k
<1> QED
  BY <1>1, <1>2, <1>3, ChatGoesOn DEF k

\* The microphone is refused: the loop is free.
LEMMA ChatMicRefusedKeeps ==
    ASSUME ChatIInv, NEW j \in jobs, Chat!MicRefused(j)
    PROVE  ChatIInv'
<1> DEFINE pg == IF j.op = "listen" THEN [page EXCEPT !.listening = FALSE, !.transcribing = FALSE,
                                                !.loop = FALSE, !.held = Chat!None] ELSE page
<1>1. j \in ChatJobRec /\ page \in ChatPageRec /\ ChatArmedIdle(page)
  BY DEF ChatIInv, ChatOwn
<1>2. pg \in ChatPageRec /\ pg.armed = page.armed /\ pg.kind = page.kind /\ pg.session = page.session
  <2>1. CASE j.op = "listen"
    BY <1>1, <2>1 DEF ChatPageRec, Chat!None
  <2>2. CASE j.op # "listen"
    BY <1>1, <2>2
  <2> QED
    BY <2>1, <2>2
<1>3. jobs' = jobs \ {j} /\ rough' = rough /\ Chat!Shows(j, pg) /\ j.at \notin {"mic", "ended"}
  BY DEF Chat!MicRefused, Chat!Gone
<1>4. (pg.loop = page.loop \/ j.op = "listen") /\ (pg.held = Chat!None \/ pg.held = page.held)
  BY <1>1 DEF ChatPageRec, Chat!Over
<1> HIDE DEF pg
<1>5. /\ page' \in ChatPageRec /\ ChatArmedIdle(page') /\ page'.kind = page.kind
      /\ ~ j.live => page' = page
      /\ j.live => page'.loop = pg.loop /\ page'.held = pg.held /\ page'.sending = pg.sending
      /\ (ChatStill(page) => ChatStill(page'))
  BY <1>2, <1>3, ChatShownPage
<1> QED
  BY <1>3, <1>4, <1>5, ChatIsGone

\* Nothing is transcribed: the loop is free.
LEMMA ChatNotTranscribedKeeps ==
    ASSUME ChatIInv, NEW j \in jobs, Chat!NotTranscribed(j)
    PROVE  ChatIInv'
<1> DEFINE pg == [page EXCEPT !.listening = FALSE, !.transcribing = FALSE, !.loop = FALSE, !.held = Chat!None]
<1>1. j \in ChatJobRec /\ page \in ChatPageRec /\ ChatArmedIdle(page)
  BY DEF ChatIInv, ChatOwn
<1>2. pg \in ChatPageRec /\ pg.armed = page.armed /\ pg.kind = page.kind /\ pg.session = page.session
  BY <1>1 DEF ChatPageRec, Chat!Over, Chat!None
<1>3. jobs' = jobs \ {j} /\ rough' = rough /\ Chat!Shows(j, pg) /\ j.at \notin {"mic", "ended"}
  BY DEF Chat!NotTranscribed, Chat!Gone
<1>4. (pg.loop = page.loop \/ j.op = "listen") /\ (pg.held = Chat!None \/ pg.held = page.held)
  BY <1>1 DEF ChatPageRec, Chat!Over, Chat!NotTranscribed
<1> HIDE DEF pg
<1>5. /\ page' \in ChatPageRec /\ ChatArmedIdle(page') /\ page'.kind = page.kind
      /\ ~ j.live => page' = page
      /\ j.live => page'.loop = pg.loop /\ page'.held = pg.held /\ page'.sending = pg.sending
      /\ (ChatStill(page) => ChatStill(page'))
  BY <1>2, <1>3, ChatShownPage
<1> QED
  BY <1>3, <1>4, <1>5, ChatIsGone

\* A reply is spoken to its end.
LEMMA ChatSpokenKeeps ==
    ASSUME ChatIInv, NEW j \in jobs, Chat!Spoken(j)
    PROVE  ChatIInv'
<1> DEFINE pg == Chat!Over(j.op, [page EXCEPT !.speaking = FALSE])
<1>1. j \in ChatJobRec /\ page \in ChatPageRec /\ ChatArmedIdle(page)
  BY DEF ChatIInv, ChatOwn
<1>2. pg \in ChatPageRec /\ pg.armed = page.armed /\ pg.kind = page.kind /\ pg.session = page.session
  BY <1>1 DEF ChatPageRec, Chat!Over, Chat!None
<1>3. jobs' = jobs \ {j} /\ rough' = rough /\ Chat!Shows(j, pg) /\ j.at \notin {"mic", "ended"}
  BY DEF Chat!Spoken, Chat!Gone
<1>4. (pg.loop = page.loop \/ j.op = "listen") /\ (pg.held = Chat!None \/ pg.held = page.held)
  BY <1>1 DEF ChatPageRec, Chat!Over
<1> HIDE DEF pg
<1>5. /\ page' \in ChatPageRec /\ ChatArmedIdle(page') /\ page'.kind = page.kind
      /\ ~ j.live => page' = page
      /\ j.live => page'.loop = pg.loop /\ page'.held = pg.held /\ page'.sending = pg.sending
      /\ (ChatStill(page) => ChatStill(page'))
  BY <1>2, <1>3, ChatShownPage
<1> QED
  BY <1>3, <1>4, <1>5, ChatIsGone

\* A start is refused or a stream ends in an error.
LEMMA ChatFailedKeeps ==
    ASSUME ChatIInv, NEW j \in jobs, Chat!Failed(j)
    PROVE  ChatIInv'
<1> DEFINE pg == Chat!Over(j.op, page)
<1>1. j \in ChatJobRec /\ page \in ChatPageRec /\ ChatArmedIdle(page)
  BY DEF ChatIInv, ChatOwn
<1>2. pg \in ChatPageRec /\ pg.armed = page.armed /\ pg.kind = page.kind /\ pg.session = page.session
  BY <1>1 DEF ChatPageRec, Chat!Over, Chat!None
<1>3. jobs' = jobs \ {j} /\ rough' = rough /\ Chat!Shows(j, pg) /\ j.at \notin {"mic", "ended"}
  BY DEF Chat!Failed, Chat!Gone
<1>4. (pg.loop = page.loop \/ j.op = "listen") /\ (pg.held = Chat!None \/ pg.held = page.held)
  BY <1>1 DEF ChatPageRec, Chat!Over
<1> HIDE DEF pg
<1>5. /\ page' \in ChatPageRec /\ ChatArmedIdle(page') /\ page'.kind = page.kind
      /\ ~ j.live => page' = page
      /\ j.live => page'.loop = pg.loop /\ page'.held = pg.held /\ page'.sending = pg.sending
      /\ (ChatStill(page) => ChatStill(page'))
  BY <1>2, <1>3, ChatShownPage
<1> QED
  BY <1>3, <1>4, <1>5, ChatIsGone

\* A turn is transcribed: it is over or is sent.
LEMMA ChatTranscribedKeeps ==
    ASSUME ChatIInv, NEW j \in jobs, Chat!Transcribed(j)
    PROVE  ChatIInv'
<1>1. j \in ChatJobRec /\ page \in ChatPageRec /\ ChatArmedIdle(page)
  BY DEF ChatIInv, ChatOwn
<1>2. ASSUME Chat!Gone(j), Chat!Shows(j, [[page EXCEPT !.transcribing = FALSE] EXCEPT !.loop = FALSE, !.held = Chat!None])
      PROVE  ChatIInv'
  <2> DEFINE pg == [[page EXCEPT !.transcribing = FALSE] EXCEPT !.loop = FALSE, !.held = Chat!None]
  <2>1. pg \in ChatPageRec /\ pg.armed = page.armed /\ pg.kind = page.kind /\ pg.session = page.session
    BY <1>1 DEF ChatPageRec, Chat!Over, Chat!None
  <2>2. jobs' = jobs \ {j} /\ rough' = rough /\ Chat!Shows(j, pg) /\ j.at \notin {"mic", "ended"}
    BY <1>2 DEF Chat!Transcribed, Chat!Gone
  <2>3. (pg.loop = page.loop \/ j.op = "listen") /\ (pg.held = Chat!None \/ pg.held = page.held)
    BY <1>1 DEF ChatPageRec, Chat!Over, Chat!Transcribed
  <2> HIDE DEF pg
  <2>4. /\ page' \in ChatPageRec /\ ChatArmedIdle(page') /\ page'.kind = page.kind
        /\ ~ j.live => page' = page
        /\ j.live => page'.loop = pg.loop /\ page'.held = pg.held /\ page'.sending = pg.sending
        /\ (ChatStill(page) => ChatStill(page'))
    BY <1>1, <2>1, <2>2, ChatShownPage
  <2> QED
    BY <2>2, <2>3, <2>4, ChatIsGone
<1>3. ASSUME Chat!Goes(j, "start"), Chat!Shows(j, [[page EXCEPT !.transcribing = FALSE] EXCEPT !.sending = TRUE, !.talk = TRUE])
      PROVE  ChatIInv'
  <2> DEFINE pg == [[page EXCEPT !.transcribing = FALSE] EXCEPT !.sending = TRUE, !.talk = TRUE]
             k == [j EXCEPT !.at = "start", !.over = j.over]
  <2>1. pg \in ChatPageRec /\ pg.armed = page.armed /\ pg.kind = page.kind /\ pg.session = page.session
    BY <1>1 DEF ChatPageRec
  <2>2. "start" \in ChatStages(j.op) /\ j.over \in BOOLEAN /\ j.at \notin {"mic", "ended"}
    BY <1>1, <1>3 DEF Chat!Transcribed, ChatJobRec, ChatStages, ChatEarly, ChatLate
  <2>3. jobs' = (jobs \ {j}) \cup {k} /\ rough' = rough /\ Chat!Shows(j, pg)
    BY <1>1, <1>3 DEF Chat!Transcribed, Chat!Goes, ChatJobRec
  <2>4. pg.loop = page.loop /\ pg.held = page.held /\ (pg.sending \/ (pg.sending = page.sending
        /\ j.at \in ChatLate))
    BY <1>1, <1>3 DEF ChatPageRec, Chat!Transcribed, ChatLate
  <2> HIDE DEF pg, k
  <2>5. /\ page' \in ChatPageRec /\ ChatArmedIdle(page') /\ page'.kind = page.kind
        /\ ~ j.live => page' = page
        /\ j.live => page'.loop = pg.loop /\ page'.held = pg.held /\ page'.sending = pg.sending
        /\ (ChatStill(page) => ChatStill(page'))
    BY <1>1, <2>1, <2>3, ChatShownPage
  <2>6. page'.loop = page.loop /\ page'.held = page.held
        /\ (page'.sending \/ (page'.sending = page.sending /\ j.at \in ChatLate) \/ ~ j.live)
    BY <2>4, <2>5
  <2> QED
    BY <1>1, <2>2, <2>3, <2>5, <2>6, ChatGoesOn DEF k
<1> QED
  BY <1>2, <1>3 DEF Chat!Transcribed

\* A reply is there.
LEMMA ChatRepliedKeeps ==
    ASSUME ChatIInv, NEW j \in jobs, Chat!Replied(j)
    PROVE  ChatIInv'
<1>1. j \in ChatJobRec /\ page \in ChatPageRec /\ ChatArmedIdle(page)
  BY DEF ChatIInv, ChatOwn
<1>2. ASSUME Chat!Gone(j), Chat!Shows(j, Chat!Over(j.op, page))
      PROVE  ChatIInv'
  <2> DEFINE pg == Chat!Over(j.op, page)
  <2>1. pg \in ChatPageRec /\ pg.armed = page.armed /\ pg.kind = page.kind /\ pg.session = page.session
    BY <1>1 DEF ChatPageRec, Chat!Over, Chat!None
  <2>2. jobs' = jobs \ {j} /\ rough' = rough /\ Chat!Shows(j, pg) /\ j.at \notin {"mic", "ended"}
    BY <1>2 DEF Chat!Replied, Chat!Gone
  <2>3. (pg.loop = page.loop \/ j.op = "listen") /\ (pg.held = Chat!None \/ pg.held = page.held)
    BY <1>1 DEF ChatPageRec, Chat!Over, Chat!Replied
  <2> HIDE DEF pg
  <2>4. /\ page' \in ChatPageRec /\ ChatArmedIdle(page') /\ page'.kind = page.kind
        /\ ~ j.live => page' = page
        /\ j.live => page'.loop = pg.loop /\ page'.held = pg.held /\ page'.sending = pg.sending
        /\ (ChatStill(page) => ChatStill(page'))
    BY <1>1, <2>1, <2>2, ChatShownPage
  <2> QED
    BY <2>2, <2>3, <2>4, ChatIsGone
<1>3. ASSUME Chat!Goes(j, "queue"), page' = page
      PROVE  ChatIInv'
  <2> DEFINE k == [j EXCEPT !.at = "queue", !.over = j.over]
  <2>1. "queue" \in ChatStages(j.op) /\ j.over \in BOOLEAN /\ j.at \notin {"mic", "ended"}
        /\ j.at \in ChatLate
    BY <1>1 DEF Chat!Replied, ChatJobRec, ChatStages, ChatEarly, ChatLate
  <2>2. jobs' = (jobs \ {j}) \cup {k} /\ rough' = rough
    BY <1>1, <1>3 DEF Chat!Replied, Chat!Goes, ChatJobRec
  <2> HIDE DEF k
  <2> QED
    BY <1>1, <1>3, <2>1, <2>2, ChatGoesOn DEF k
<1> QED
  BY <1>2, <1>3 DEF Chat!Replied

\* A reply begins to be spoken.
LEMMA ChatSpeakKeeps ==
    ASSUME ChatIInv, NEW j \in jobs, Chat!Speak(j)
    PROVE  ChatIInv'
<1>1. j \in ChatJobRec /\ page \in ChatPageRec /\ ChatArmedIdle(page)
  BY DEF ChatIInv, ChatOwn
<1>2. ASSUME TRUE
      PROVE  ChatIInv'
  <2> DEFINE pg == [page EXCEPT !.speaking = TRUE]
             k == [j EXCEPT !.at = "speak", !.over = j.over]
  <2>1. pg \in ChatPageRec /\ pg.armed = page.armed /\ pg.kind = page.kind /\ pg.session = page.session
    BY <1>1 DEF ChatPageRec
  <2>2. "speak" \in ChatStages(j.op) /\ j.over \in BOOLEAN /\ j.at \notin {"mic", "ended"}
    BY <1>1, <1>2 DEF Chat!Speak, ChatJobRec, ChatStages, ChatEarly, ChatLate
  <2>3. jobs' = (jobs \ {j}) \cup {k} /\ rough' = rough /\ Chat!Shows(j, pg)
    BY <1>1, <1>2 DEF Chat!Speak, Chat!Goes, ChatJobRec
  <2>4. pg.loop = page.loop /\ pg.held = page.held /\ (pg.sending \/ (pg.sending = page.sending
        /\ j.at \in ChatLate))
    BY <1>1, <1>2 DEF ChatPageRec, Chat!Speak, ChatLate
  <2> HIDE DEF pg, k
  <2>5. /\ page' \in ChatPageRec /\ ChatArmedIdle(page') /\ page'.kind = page.kind
        /\ ~ j.live => page' = page
        /\ j.live => page'.loop = pg.loop /\ page'.held = pg.held /\ page'.sending = pg.sending
        /\ (ChatStill(page) => ChatStill(page'))
    BY <1>1, <2>1, <2>3, ChatShownPage
  <2>6. page'.loop = page.loop /\ page'.held = page.held
        /\ (page'.sending \/ (page'.sending = page.sending /\ j.at \in ChatLate) \/ ~ j.live)
    BY <2>4, <2>5
  <2> QED
    BY <1>1, <2>2, <2>3, <2>5, <2>6, ChatGoesOn DEF k
<1> QED
  BY <1>2

\* A dictation is transcribed.
LEMMA ChatDictatedKeeps ==
    ASSUME ChatIInv, NEW j \in jobs, Chat!Dictated(j)
    PROVE  ChatIInv'
<1>1. j \in ChatJobRec /\ page \in ChatPageRec /\ ChatArmedIdle(page)
  BY DEF ChatIInv, ChatOwn
<1>2. PICK p \in BOOLEAN : Chat!Shows(j, [page EXCEPT !.transcribing = p])
  BY DEF Chat!Dictated
<1>3. ASSUME TRUE
      PROVE  ChatIInv'
  <2> DEFINE pg == [page EXCEPT !.transcribing = p]
  <2>1. pg \in ChatPageRec /\ pg.armed = page.armed /\ pg.kind = page.kind /\ pg.session = page.session
    BY <1>1 DEF ChatPageRec, Chat!Over, Chat!None
  <2>2. jobs' = jobs \ {j} /\ rough' = rough /\ Chat!Shows(j, pg) /\ j.at \notin {"mic", "ended"}
    BY <1>2 DEF Chat!Dictated, Chat!Gone
  <2>3. (pg.loop = page.loop \/ j.op = "listen") /\ (pg.held = Chat!None \/ pg.held = page.held)
    BY <1>1 DEF ChatPageRec, Chat!Over, Chat!Dictated
  <2> HIDE DEF pg
  <2>4. /\ page' \in ChatPageRec /\ ChatArmedIdle(page') /\ page'.kind = page.kind
        /\ ~ j.live => page' = page
        /\ j.live => page'.loop = pg.loop /\ page'.held = pg.held /\ page'.sending = pg.sending
        /\ (ChatStill(page) => ChatStill(page'))
    BY <1>1, <2>1, <2>2, ChatShownPage
  <2> QED
    BY <2>2, <2>3, <2>4, ChatIsGone
<1> QED
  BY <1>3

\* Two minutes after the start.
LEMMA ChatTimerKeeps ==
    ASSUME ChatIInv, NEW j \in jobs, Chat!Timer(j)
    PROVE  ChatIInv'
<1> DEFINE pg == [page EXCEPT !.sending = FALSE]
<1>1. j \in ChatJobRec /\ page \in ChatPageRec /\ ChatArmedIdle(page)
  BY DEF ChatIInv, ChatOwn
<1>2. j.live /\ page.kind = "direct" /\ j.op = "send" /\ j.at \notin {"mic", "ended"}
  BY <1>1 DEF ChatIInv, ChatOwn, Chat!Timer, ChatPageRec, ChatJobRec, ChatStages, ChatEarly,
     ChatLate
<1>3. page' = pg /\ rough' = rough
  BY DEF Chat!Timer
<1>4. pg \in ChatPageRec /\ ChatArmedIdle(pg) /\ pg.kind = page.kind /\ pg.loop = page.loop
      /\ pg.held = page.held /\ (ChatStill(page) => ChatStill(pg))
  BY <1>1, <1>2 DEF ChatPageRec, ChatArmedIdle, ChatStill
<1> HIDE DEF pg
<1>5. jobs' = jobs \ {j}
  BY DEF Chat!Timer, Chat!Gone
<1> QED
  BY <1>2, <1>3, <1>4, <1>5, ChatIsGone

\* The answer is there.
LEMMA ChatAnsweredKeeps ==
    ASSUME ChatIInv, NEW j \in jobs, Chat!Answered(j)
    PROVE  ChatIInv'
<1> DEFINE pg == [page EXCEPT !.sending = FALSE]
           k == [j EXCEPT !.at = "timer", !.over = j.over]
<1>1. j \in ChatJobRec /\ page \in ChatPageRec /\ ChatArmedIdle(page)
  BY DEF ChatIInv, ChatOwn
<1>2. j.live /\ page.kind = "direct" /\ j.op = "send" /\ j.at \notin {"mic", "ended"}
  BY <1>1 DEF ChatIInv, ChatOwn, Chat!Answered, ChatPageRec, ChatJobRec, ChatStages, ChatEarly,
     ChatLate
<1>3. page' = pg /\ rough' = rough
  BY DEF Chat!Answered
<1>4. pg \in ChatPageRec /\ ChatArmedIdle(pg) /\ pg.kind = page.kind /\ pg.loop = page.loop
      /\ pg.held = page.held /\ (ChatStill(page) => ChatStill(pg))
  BY <1>1, <1>2 DEF ChatPageRec, ChatArmedIdle, ChatStill
<1> HIDE DEF pg, k
<1>5. jobs' = (jobs \ {j}) \cup {k}
  BY <1>1 DEF Chat!Answered, Chat!Goes, ChatJobRec, k
<1>6. "timer" \in ChatStages(j.op) /\ j.over \in BOOLEAN /\ "timer" \notin ChatLate
  BY <1>1, <1>2 DEF ChatJobRec, ChatStages, ChatLate
<1> QED
  BY <1>1, <1>2, <1>3, <1>4, <1>5, <1>6, ChatGoesOn DEF k


\* A job that begins on a page that has room for it.
LEMMA ChatBeginKeeps ==
    ASSUME ChatIInv, NEW op \in IF page.kind = "voice" THEN {"listen", "typed"} ELSE {"send", "dictate"},
           NEW at \in ChatStages(op), Chat!Begin(Chat!Job(op, at)), rough' = rough,
           page' \in ChatPageRec, ChatArmedIdle(page'), page'.kind = page.kind, page'.held = page.held,
           ChatStill(page) => ChatStill(page'),
           IF op = "listen" THEN ~ page.loop /\ page'.loop ELSE page'.loop = page.loop,
           ~ rough /\ op # "send" => \A j \in jobs : j.op = "send",
           at \in ChatLate => page'.sending
    PROVE  ChatIInv'
<1>1. PICK k \in ChatJobRec : /\ k.op = op /\ k.at = at /\ k.live
                              /\ jobs' = jobs \cup {k}
                              /\ \A j \in jobs : j.n # k.n
  BY ChatBegins
<1>2. ChatOwn(jobs', page')
  <2>1. jobs' \subseteq ChatJobRec
    BY <1>1 DEF ChatIInv, ChatOwn
  <2>2. \A i, j \in jobs' : i.n = j.n => i = j
    BY <1>1 DEF ChatIInv, ChatOwn
  <2>3. \A j \in jobs' : j.live => j.op \in IF page'.kind = "voice" THEN {"listen", "typed"}
                                         ELSE {"send", "dictate"}
    BY <1>1 DEF ChatIInv, ChatOwn
  <2>4. \A j \in jobs' : j.op = "send" => j.live
    BY <1>1 DEF ChatIInv, ChatOwn
  <2> QED
    BY <2>1, <2>2, <2>3, <2>4 DEF ChatOwn
<1>3. ChatHolds(jobs', page')
  BY <1>1 DEF ChatIInv, ChatHolds
<1>4. ChatOneLoop(jobs', page')
  <2> SUFFICES ASSUME page.kind = "voice"
               PROVE  /\ \A i, j \in jobs' : i.live /\ j.live /\ i.op = "listen" /\ j.op = "listen"
                           => i = j
                      /\ \A j \in jobs' : j.live /\ j.op = "listen" => page'.loop
    BY DEF ChatOneLoop
  <2>1. /\ \A i, j \in jobs : i.live /\ j.live /\ i.op = "listen" /\ j.op = "listen" => i = j
        /\ \A j \in jobs : j.live /\ j.op = "listen" => page.loop
    BY DEF ChatIInv, ChatOneLoop
  <2> QED
    BY <1>1, <2>1
<1>5. ChatOneTalk(jobs', page')
  <2> SUFFICES ASSUME ~ rough'
               PROVE  /\ \A i, o \in jobs' : i.op # "send" /\ o.op # "send" => i = o
                      /\ page'.kind = "voice" => \A o \in jobs' : o.live /\ o.at \in ChatLate
                                                               => page'.sending
                      /\ (\E o \in jobs' : ~ o.live) => ChatStill(page')
    BY DEF ChatOneTalk
  <2>1. /\ \A i, o \in jobs : i.op # "send" /\ o.op # "send" => i = o
        /\ (\E o \in jobs : ~ o.live) => ChatStill(page)
    BY DEF ChatIInv, ChatOneTalk
  <2>2. \A o \in jobs' : o = k \/ o \in jobs
    BY <1>1
  <2>3. \A i, o \in jobs' : i.op # "send" /\ o.op # "send" => i = o
    BY <1>1, <2>1, <2>2
  <2>4. ASSUME page'.kind = "voice", NEW o \in jobs', o.live, o.at \in ChatLate
        PROVE  page'.sending
    <3>1. op # "send"
      BY <2>4
    <3>2. CASE o = k
      BY <1>1, <2>4, <3>2
    <3>3. CASE o \in jobs
      <4>1. o.op # "send"
        BY <2>4, <3>3 DEF ChatIInv, ChatOwn
      <4> QED
        BY <3>1, <3>3, <4>1
    <3> QED
      BY <2>2, <3>2, <3>3
  <2>5. (\E o \in jobs' : ~ o.live) => ChatStill(page')
    BY <1>1, <2>1, <2>2
  <2> QED
    BY <2>3, <2>4, <2>5
<1> QED
  BY <1>2, <1>3, <1>4, <1>5, ChatAssembled DEF ChatIInv

\* For a person who waits nothing listens or speaks on an idle page, while
\* nothing of a page that was left does.
LEMMA ChatQuiet ==
    ASSUME ChatIInv, ~ rough, \A j \in jobs : j.live, ~ page.loop \/ Chat!Heard = {},
           IF page.kind = "voice" THEN ~ page.sending ELSE Chat!Heard = {}
    PROVE  \A j \in jobs : j.op = "send"
<1> SUFFICES ASSUME NEW j \in jobs, j.op # "send"
             PROVE  FALSE
  OBVIOUS
<1>1. j \in ChatJobRec /\ j.live /\ j.op \in IF page.kind = "voice" THEN {"listen", "typed"} ELSE {"dictate"}
  BY DEF ChatIInv, ChatOwn
<1>2. page.kind = "voice" => j.at \notin ChatLate
  BY <1>1 DEF ChatIInv, ChatOneTalk
<1>3. j.op \in {"listen", "dictate"} /\ j.at \in ChatEarly
  BY <1>1, <1>2 DEF ChatJobRec, ChatStages
<1>4. j \in Chat!Heard
  BY <1>1, <1>3 DEF Chat!Heard, ChatEarly
<1>5. page.kind = "voice" => page.loop
  BY <1>1, <1>3 DEF ChatIInv, ChatOneLoop
<1> QED
  BY <1>4, <1>5

\* A page that is rendered and keeps its jobs.
LEMMA ChatRenderKeeps ==
    ASSUME ChatIInv, NEW pg \in ChatPageRec, pg.armed = page.armed, pg.kind = page.kind,
           pg.session = page.session \/ pg.kind = "voice", pg.loop = page.loop, pg.held = page.held,
           pg.sending = page.sending, page' = Chat!Rendered(pg), jobs' = jobs, rough' = rough,
           (ChatStill(page) => ChatStill(pg)) \/ rough \/ \A j \in jobs : j.live
    PROVE  ChatIInv'
  BY ChatRenderedPage, ChatPageOnly DEF ChatIInv

\* A model is chosen.
LEMMA ChatChooseModelKeeps == ChatIInv /\ Chat!ChooseModel => ChatIInv'
<1> SUFFICES ASSUME ChatIInv, Chat!ChooseModel
             PROVE  ChatIInv'
  OBVIOUS
<1> DEFINE pg == [page EXCEPT !.chosen = TRUE]
<1>1. pg \in ChatPageRec /\ pg.armed = page.armed /\ pg.kind = page.kind /\ pg.session = page.session
      /\ pg.loop = page.loop /\ pg.held = page.held /\ pg.sending = page.sending
      /\ (ChatStill(page) => ChatStill(pg))
  BY DEF ChatIInv, ChatPageRec, ChatStill
<1>2. page' = Chat!Rendered(pg) /\ jobs' = jobs /\ rough' = rough
  BY DEF Chat!ChooseModel
<1> HIDE DEF pg
<1> QED
  BY <1>1, <1>2, ChatRenderKeeps

\* Another model is selected: the timer is set again on an idle page only.
LEMMA ChatSelectModelKeeps == ChatIInv /\ Chat!SelectModel => ChatIInv'
<1> SUFFICES ASSUME ChatIInv, Chat!SelectModel
             PROVE  ChatIInv'
  OBVIOUS
<1> DEFINE pg == [page EXCEPT !.armed = page.session /\ page.enabled /\ Chat!Idle(page)]
<1>1. pg \in ChatPageRec /\ pg.kind = page.kind /\ pg.loop = page.loop /\ pg.held = page.held
      /\ pg.sending = page.sending /\ (ChatStill(page) => ChatStill(pg))
  BY DEF ChatIInv, ChatPageRec, Chat!Idle, ChatStill
<1>2. ChatArmedIdle(pg)
  BY DEF ChatIInv, ChatPageRec, Chat!Idle, ChatArmedIdle, Chat!SelectModel
<1>3. page' = pg /\ jobs' = jobs /\ rough' = rough
  BY DEF Chat!SelectModel
<1> HIDE DEF pg
<1> QED
  BY <1>1, <1>2, <1>3, ChatPageOnly

\* The settings are read.
LEMMA ChatSettingsReadKeeps == ChatIInv /\ Chat!SettingsRead => ChatIInv'
<1> SUFFICES ASSUME ChatIInv, Chat!SettingsRead
             PROVE  ChatIInv'
  OBVIOUS
<1>1. PICK s \in BOOLEAN, e \in BOOLEAN :
          page' = Chat!Rendered([page EXCEPT !.read = TRUE, !.speech = s, !.enabled = e])
  BY DEF Chat!SettingsRead
<1> DEFINE pg == [page EXCEPT !.read = TRUE, !.speech = s, !.enabled = e]
<1>2. pg \in ChatPageRec /\ pg.armed = page.armed /\ pg.kind = page.kind /\ pg.session = page.session
      /\ pg.loop = page.loop /\ pg.held = page.held /\ pg.sending = page.sending
      /\ (ChatStill(page) => ChatStill(pg))
  BY DEF ChatIInv, ChatPageRec, ChatStill
<1>3. page' = Chat!Rendered(pg) /\ jobs' = jobs /\ rough' = rough
  BY <1>1 DEF Chat!SettingsRead
<1> HIDE DEF pg
<1> QED
  BY <1>2, <1>3, ChatRenderKeeps

\* Another page is shown: what the old one asked for is no longer its own.
LEMMA ChatShowKeeps ==
    ASSUME ChatIInv, NEW kind \in {"direct", "voice"}, Chat!Show(kind)
    PROVE  ChatIInv'
<1> DEFINE Stays == {k \in jobs : k.op # "send" /\ ~ (k.op = "dictate" /\ k.n = page.held)}
<1>1. page' = Chat!Fresh(kind) /\ rough' = rough /\ jobs' = {Chat!Left(j) : j \in Stays}
  BY DEF Chat!Show
<1>2. page' \in ChatPageRec /\ page'.held = Chat!None /\ ChatArmedIdle(page') /\ page'.kind = kind
  BY <1>1 DEF Chat!Fresh, ChatPageRec, Chat!None, ChatArmedIdle
<1>3. \A j \in Stays : /\ Chat!Left(j) \in ChatJobRec /\ Chat!Left(j).n = j.n /\ Chat!Left(j).op = j.op
                            /\ ~ Chat!Left(j).live
  <2> SUFFICES ASSUME NEW j \in Stays
               PROVE  /\ Chat!Left(j) \in ChatJobRec /\ Chat!Left(j).n = j.n /\ Chat!Left(j).op = j.op
                           /\ ~ Chat!Left(j).live
    OBVIOUS
  <2>1. j \in ChatJobRec /\ j \in jobs /\ (j.n = page.held => j.op # "dictate")
    BY DEF ChatIInv, ChatOwn
  <2>2. j.n = page.held => j.op = "listen"
    <3> SUFFICES ASSUME j.n = page.held
                 PROVE  j.op = "listen"
      OBVIOUS
    <3>1. PICK o \in jobs : o.live /\ o.n = page.held /\ o.at \in {"mic", "ended"}
      BY <2>1 DEF ChatIInv, ChatHolds, ChatJobRec, Chat!Slots, Chat!None
    <3>2. o = j
      BY <3>1, <2>1 DEF ChatIInv, ChatOwn
    <3> QED
      BY <3>1, <3>2, <2>1 DEF ChatJobRec, ChatStages, ChatLate, ChatEarly
  <2>3. CASE j.n = page.held
    BY <2>1, <2>2, <2>3 DEF Chat!Left, ChatJobRec, ChatStages, ChatEarly, ChatLate
  <2>4. CASE j.n # page.held
    BY <2>1, <2>4 DEF Chat!Left, ChatJobRec, ChatStages, ChatEarly, ChatLate
  <2> QED
    BY <2>3, <2>4
<1>4. \A i, j \in Stays : i.n = j.n => i = j
  BY DEF ChatIInv, ChatOwn
<1>5. \A j \in Stays : j.op # "send"
  OBVIOUS
<1> HIDE DEF Stays
<1>6. ChatOwn(jobs', page')
  <2>1. \A i, j \in jobs' : i.n = j.n => i = j
    BY <1>1, <1>3, <1>4
  <2> QED
    BY <1>1, <1>3, <1>5, <2>1 DEF ChatOwn
<1>7. ChatHolds(jobs', page') /\ ChatOneLoop(jobs', page')
  BY <1>1, <1>2, <1>3 DEF ChatHolds, ChatOneLoop
<1>8. ChatOneTalk(jobs', page')
  <2>1. ~ rough => \A i, j \in Stays : i.op # "send" /\ j.op # "send" => i = j
    BY DEF ChatIInv, ChatOneTalk, Stays
  <2>2. \A j \in jobs' : ~ j.live
    BY <1>1, <1>3
  <2>3. ChatStill(page')
    BY <1>1 DEF ChatStill, Chat!Fresh
  <2> QED
    BY <1>1, <1>3, <2>1, <2>2, <2>3 DEF ChatOneTalk
<1> QED
  BY <1>1, <1>2, <1>6, <1>7, <1>8, ChatAssembled DEF ChatIInv

\* A session is started.
LEMMA ChatStartSessionKeeps == ChatIInv /\ Chat!StartSession => ChatIInv'
<1> SUFFICES ASSUME ChatIInv, Chat!StartSession
             PROVE  ChatIInv'
  OBVIOUS
<1> DEFINE pg == [page EXCEPT !.session = TRUE]
<1>1. pg \in ChatPageRec /\ pg.armed = page.armed /\ pg.kind = page.kind /\ pg.kind = "voice"
      /\ pg.loop = page.loop /\ pg.held = page.held /\ pg.sending = page.sending
  BY DEF ChatIInv, ChatPageRec, Chat!StartSession
<1>2. page' = Chat!Rendered(pg) /\ jobs' = jobs /\ rough' = rough
      /\ (rough \/ \A j \in jobs : j.live)
  BY DEF Chat!StartSession, Chat!Settled
<1> HIDE DEF pg
<1> QED
  BY <1>1, <1>2, ChatRenderKeeps

\* The capture that is held is stopped.
LEMMA ChatStopped ==
    ASSUME ChatIInv, page.held # Chat!None,
           jobs' = {IF j.live /\ j.n = page.held THEN [j EXCEPT !.at = "ended"] ELSE j : j \in jobs}
    PROVE  \E j \in jobs : /\ j.live /\ j.n = page.held /\ j.at \in {"mic", "ended"}
                           /\ jobs' = (jobs \ {j}) \cup {[j EXCEPT !.at = "ended", !.over = j.over]}
<1>1. PICK j \in jobs : j.live /\ j.n = page.held /\ j.at \in {"mic", "ended"}
  BY DEF ChatIInv, ChatHolds
<1>2. \A o \in jobs : o.n = page.held => o = j
  BY <1>1 DEF ChatIInv, ChatOwn
<1>3. [j EXCEPT !.at = "ended", !.over = j.over] = [j EXCEPT !.at = "ended"]
  BY <1>1 DEF ChatIInv, ChatOwn, ChatJobRec
<1>4. jobs' = (jobs \ {j}) \cup {[j EXCEPT !.at = "ended"]}
  BY <1>1, <1>2
<1> QED
  BY <1>1, <1>3, <1>4

\* A session is stopped, and its capture with it.
LEMMA ChatStopSessionKeeps == ChatIInv /\ Chat!StopSession => ChatIInv'
<1> SUFFICES ASSUME ChatIInv, Chat!StopSession
             PROVE  ChatIInv'
  OBVIOUS
<1> DEFINE pg == [page EXCEPT !.session = FALSE, !.held = Chat!None,
                              !.listening = IF page.held = Chat!None THEN @ ELSE FALSE]
<1>1. pg \in ChatPageRec /\ pg.armed = page.armed /\ pg.kind = page.kind /\ pg.kind = "voice"
      /\ pg.loop = page.loop /\ pg.held = Chat!None /\ pg.sending = page.sending
      /\ (ChatStill(page) => ChatStill(pg))
  BY DEF ChatIInv, ChatPageRec, Chat!StopSession, Chat!None, ChatStill
<1>2. page' = Chat!Rendered(pg) /\ rough' = rough
      /\ jobs' = {IF j.live /\ j.n = page.held THEN [j EXCEPT !.at = "ended"] ELSE j : j \in jobs}
  BY DEF Chat!StopSession
<1> HIDE DEF pg
<1>3. /\ page' \in ChatPageRec /\ ChatArmedIdle(page') /\ page'.kind = page.kind
         /\ page'.loop = page.loop
      /\ page'.held = Chat!None /\ page'.sending = page.sending
      /\ (ChatStill(page) => ChatStill(page'))
  BY <1>1, <1>2, ChatRenderedPage DEF ChatIInv
<1>4. CASE page.held = Chat!None
  <2>1. \A j \in jobs : j.n # Chat!None
    BY DEF ChatIInv, ChatOwn, ChatJobRec, Chat!Slots, Chat!None
  <2>2. jobs' = jobs
    BY <1>2, <1>4, <2>1
  <2> QED
    BY <1>2, <1>3, <1>4, <2>2, ChatPageOnly
<1>5. CASE page.held # Chat!None
  <2>1. PICK j \in jobs : /\ j.live /\ j.n = page.held /\ j.at \in {"mic", "ended"}
                          /\ jobs' = (jobs \ {j}) \cup {[j EXCEPT !.at = "ended", !.over = j.over]}
    BY <1>2, <1>5, ChatStopped
  <2>2. "ended" \in ChatStages(j.op) /\ j.over \in BOOLEAN /\ "ended" \notin ChatLate
    BY <2>1 DEF ChatIInv, ChatOwn, ChatJobRec, ChatStages, ChatEarly, ChatLate
  <2> QED
    BY <1>2, <1>3, <2>1, <2>2, ChatGoesOn
<1> QED
  BY <1>4, <1>5

\* The timer fires: nothing, or one turn is listened for.
LEMMA ChatListenKeeps == ChatIInv /\ Chat!Listen => ChatIInv'
<1> SUFFICES ASSUME ChatIInv, Chat!Listen
             PROVE  ChatIInv'
  OBVIOUS
<1>1. page \in ChatPageRec /\ ChatArmedIdle(page) /\ page.armed /\ rough' = rough
  BY DEF ChatIInv, Chat!Listen
<1>2. page.kind = "voice" /\ ~ page.sending
  BY <1>1 DEF ChatArmedIdle, ChatPageRec, Chat!Idle
<1> DEFINE pg == [page EXCEPT !.armed = FALSE]
<1>3. CASE page' = pg /\ jobs' = jobs
  <2>1. pg \in ChatPageRec /\ pg.kind = page.kind /\ pg.loop = page.loop /\ pg.held = page.held
        /\ pg.sending = page.sending /\ ChatArmedIdle(pg) /\ (ChatStill(page) => ChatStill(pg))
    BY <1>1, <1>2 DEF ChatPageRec, ChatArmedIdle, ChatStill
  <2> HIDE DEF pg
  <2> QED
    BY <1>1, <1>3, <2>1, ChatPageOnly
<1>4. CASE page' = [pg EXCEPT !.session = FALSE] /\ jobs' = jobs
  <2> DEFINE ps == [pg EXCEPT !.session = FALSE]
  <2>1. ps \in ChatPageRec /\ ps.kind = page.kind /\ ps.loop = page.loop /\ ps.held = page.held
        /\ ps.sending = page.sending /\ ChatArmedIdle(ps) /\ (ChatStill(page) => ChatStill(ps))
    BY <1>1, <1>2 DEF ChatPageRec, ChatArmedIdle, ChatStill
  <2> HIDE DEF ps
  <2> QED
    BY <1>1, <1>4, <2>1, ChatPageOnly DEF ps
<1>5. CASE ~ page.loop /\ page' = [pg EXCEPT !.loop = TRUE] /\ Chat!Begin(Chat!Job("listen", "asked"))
  <2>1. page' \in ChatPageRec /\ page'.kind = page.kind /\ page'.loop /\ page'.held = page.held
        /\ ChatArmedIdle(page') /\ ~ ChatStill(page)
    BY <1>1, <1>2, <1>5 DEF ChatPageRec, ChatArmedIdle, ChatStill
  <2>2. ~ rough => \A j \in jobs : j.live
    BY <2>1 DEF ChatIInv, ChatOneTalk
  <2>4. ~ rough => \A j \in jobs : j.op = "send"
    BY <1>2, <1>5, <2>2, ChatQuiet
  <2>3. "asked" \in ChatStages("listen") /\ "asked" \notin ChatLate
    BY DEF ChatStages, ChatEarly, ChatLate
  <2> QED
    BY <1>1, <1>2, <1>5, <2>1, <2>4, <2>3, ChatBeginKeeps
<1>6. \/ page' = pg /\ jobs' = jobs
      \/ page' = [pg EXCEPT !.session = FALSE] /\ jobs' = jobs
      \/ ~ page.loop /\ page' = [pg EXCEPT !.loop = TRUE] /\ Chat!Begin(Chat!Job("listen", "asked"))
  BY DEF Chat!Listen
<1> QED
  BY <1>3, <1>4, <1>5, <1>6

\* A typed message is sent.
LEMMA ChatSendTypedKeeps == ChatIInv /\ Chat!SendTyped => ChatIInv'
<1> SUFFICES ASSUME ChatIInv, Chat!SendTyped
             PROVE  ChatIInv'
  OBVIOUS
<1> DEFINE pg == [page EXCEPT !.sending = TRUE, !.talk = TRUE]
<1>1. pg \in ChatPageRec /\ pg.armed = page.armed /\ pg.kind = page.kind /\ pg.session = page.session
      /\ pg.loop = page.loop /\ pg.held = page.held /\ pg.sending
      /\ (ChatStill(page) => ChatStill(pg))
  BY DEF ChatIInv, ChatPageRec, ChatStill
<1>2. page' = Chat!Rendered(pg) /\ rough' = rough /\ page.kind = "voice"
      /\ Chat!Begin(Chat!Job("typed", "start"))
      /\ ~ page.sending /\ (rough \/ Chat!Heard = {}) /\ (rough \/ \A j \in jobs : j.live)
  BY DEF Chat!SendTyped, Chat!ComposerOffers, Chat!Unheard, Chat!Settled
<1> HIDE DEF pg
<1>3. /\ page' \in ChatPageRec /\ ChatArmedIdle(page') /\ page'.kind = page.kind
         /\ page'.loop = page.loop
      /\ page'.held = page.held /\ page'.sending /\ (ChatStill(page) => ChatStill(page'))
  BY <1>1, <1>2, ChatRenderedPage DEF ChatIInv
<1>4. ~ rough => \A j \in jobs : j.op = "send"
  BY <1>2, ChatQuiet
<1>5. "start" \in ChatStages("typed")
  BY DEF ChatStages, ChatLate
<1> QED
  BY <1>2, <1>3, <1>4, <1>5, ChatBeginKeeps

\* The talk is cleared.
LEMMA ChatClearTranscriptKeeps == ChatIInv /\ Chat!ClearTranscript => ChatIInv'
<1> SUFFICES ASSUME ChatIInv, Chat!ClearTranscript
             PROVE  ChatIInv'
  OBVIOUS
<1> DEFINE pg == [page EXCEPT !.talk = FALSE]
<1>1. pg \in ChatPageRec /\ pg.kind = page.kind /\ pg.loop = page.loop /\ pg.held = page.held
      /\ pg.sending = page.sending /\ ChatArmedIdle(pg) /\ (ChatStill(page) => ChatStill(pg))
  BY DEF ChatIInv, ChatPageRec, ChatArmedIdle, Chat!Idle, ChatStill
<1>2. page' = pg /\ jobs' = jobs /\ rough' = rough
  BY DEF Chat!ClearTranscript
<1> HIDE DEF pg
<1> QED
  BY <1>1, <1>2, ChatPageOnly

\* A message of the direct chat is sent.
LEMMA ChatSendKeeps == ChatIInv /\ Chat!Send => ChatIInv'
<1> SUFFICES ASSUME ChatIInv, Chat!Send
             PROVE  ChatIInv'
  OBVIOUS
<1>1. page' \in ChatPageRec /\ page'.kind = page.kind /\ page'.loop = page.loop
      /\ page'.held = page.held
      /\ page'.sending /\ ChatArmedIdle(page') /\ page.kind = "direct"
      /\ (ChatStill(page) => ChatStill(page'))
  BY DEF ChatIInv, ChatPageRec, ChatArmedIdle, Chat!Send, ChatStill
<1>2. Chat!Begin(Chat!Job("send", "start")) /\ rough' = rough /\ "start" \in ChatStages("send")
  BY DEF Chat!Send, ChatStages
<1> QED
  BY <1>1, <1>2, ChatBeginKeeps

\* A dictation begins.
LEMMA ChatStartDictatingKeeps == ChatIInv /\ Chat!StartDictating => ChatIInv'
<1> SUFFICES ASSUME ChatIInv, Chat!StartDictating
             PROVE  ChatIInv'
  OBVIOUS
<1>1. page' = page /\ page \in ChatPageRec /\ ChatArmedIdle(page) /\ page.kind = "direct"
      /\ rough' = rough
  BY DEF ChatIInv, Chat!StartDictating
<1>2. Chat!Begin(Chat!Job("dictate", "asked")) /\ "asked" \in ChatStages("dictate")
      /\ "asked" \notin ChatLate
  BY DEF Chat!StartDictating, ChatStages, ChatEarly, ChatLate
<1>3. ~ rough => \A j \in jobs : j.op = "send"
  BY <1>1, ChatQuiet DEF Chat!StartDictating, Chat!Unheard, Chat!Settled
<1> QED
  BY <1>1, <1>2, <1>3, ChatBeginKeeps

\* A dictation is stopped, or transcribed once more.
LEMMA ChatStopDictatingKeeps == ChatIInv /\ Chat!StopDictating => ChatIInv'
<1> SUFFICES ASSUME ChatIInv, Chat!StopDictating
             PROVE  ChatIInv'
  OBVIOUS
<1>1. page' = page /\ page \in ChatPageRec /\ ChatArmedIdle(page) /\ page.kind = "direct"
      /\ rough' = rough
      /\ page.held # Chat!None
  BY DEF ChatIInv, Chat!StopDictating
<1>2. CASE rough /\ Chat!Begin(Chat!Job("dictate", "ended"))
  <2>1. "ended" \in ChatStages("dictate") /\ "ended" \notin ChatLate
    BY DEF ChatStages, ChatEarly, ChatLate
  <2> QED
    BY <1>1, <1>2, <2>1, ChatBeginKeeps
<1>3. CASE jobs' = {IF j.live /\ j.n = page.held THEN [j EXCEPT !.at = "ended"] ELSE j : j \in jobs}
  <2>1. PICK j \in jobs : /\ j.live /\ j.n = page.held /\ j.at \in {"mic", "ended"}
                          /\ jobs' = (jobs \ {j}) \cup {[j EXCEPT !.at = "ended", !.over = j.over]}
    BY <1>1, <1>3, ChatStopped
  <2>2. "ended" \in ChatStages(j.op) /\ j.over \in BOOLEAN /\ "ended" \notin ChatLate
    BY <2>1 DEF ChatIInv, ChatOwn, ChatJobRec, ChatStages, ChatEarly, ChatLate
  <2> QED
    BY <1>1, <2>1, <2>2, ChatGoesOn
<1> QED
  BY <1>2, <1>3 DEF Chat!StopDictating

\* Every step keeps the invariant.
LEMMA ChatStepKeeps == ChatIInv /\ [Chat!Next]_Chat!vars => ChatIInv'
<1> SUFFICES ASSUME ChatIInv, [Chat!Next]_Chat!vars
             PROVE  ChatIInv'
  OBVIOUS
<1>1. ASSUME UNCHANGED Chat!vars
      PROVE  ChatIInv'
  BY <1>1 DEF Chat!vars, ChatIInv, ChatOneTalk
<1>2. ASSUME Chat!Act
      PROVE  ChatIInv'
  BY <1>2, ChatSelectModelKeeps, ChatStartSessionKeeps, ChatStopSessionKeeps,
     ChatSendTypedKeeps, ChatClearTranscriptKeeps,
     ChatSendKeeps, ChatStartDictatingKeeps, ChatStopDictatingKeeps, ChatShowKeeps DEF Chat!Act
<1>3. ASSUME NEW j \in jobs, Chat!Serve(j)
      PROVE  ChatIInv'
  BY <1>3, ChatMicGrantedKeeps, ChatMicRefusedKeeps, ChatSilenceKeeps, ChatEndedKeeps,
     ChatTranscribedKeeps,
     ChatNotTranscribedKeeps, ChatRepliedKeeps, ChatSpeakKeeps, ChatSpokenKeeps, ChatDictatedKeeps, ChatTimerKeeps, ChatAnsweredKeeps,
     ChatStreamOverKeeps, ChatStartedKeeps, ChatFailedKeeps DEF Chat!Serve
<1> QED
  BY <1>1, <1>2, <1>3, ChatChooseModelKeeps, ChatSettingsReadKeeps, ChatListenKeeps
     DEF Chat!Next

\* What the invariant says of the runs' properties.
LEMMA ChatTypeOKHolds == ChatIInv => Chat!TypeOK
  BY DEF ChatIInv, Chat!TypeOK, ChatPageRec, ChatOwn, ChatJobRec

\* The invariant says that the application does not listen while it speaks.
LEMMA ChatHalfDuplexHolds == ChatIInv => Chat!HalfDuplex
<1> SUFFICES ASSUME ChatIInv
             PROVE  Chat!HalfDuplex
  OBVIOUS
<1>1. \A j \in jobs : /\ j \in ChatJobRec
                      /\ j.live => j.op \in IF page.kind = "voice" THEN {"listen", "typed"} ELSE {"send", "dictate"}
  BY DEF ChatIInv, ChatOwn
<1>2. ASSUME page.kind = "voice"
      PROVE  \A i, j \in Chat!Mics : i.live /\ j.live => i = j
  <2>1. \A j \in Chat!Mics : j.live => j \in jobs /\ j.op = "listen"
    BY <1>1, <1>2 DEF Chat!Mics, ChatJobRec, ChatStages, ChatLate
  <2> QED
    BY <1>2, <2>1 DEF ChatIInv, ChatOneLoop, Chat!Mics
<1>3. \A j \in jobs : j.at \in {"mic", "speak"} => j.op # "send"
  BY <1>1 DEF ChatJobRec, ChatStages
<1>4. ASSUME ~ rough
      PROVE  (\A i, j \in Chat!Mics : i = j) /\ ~ \E j \in Chat!Mics, o \in jobs : o.at = "speak"
  <2>1. \A i, j \in jobs : i.op # "send" /\ j.op # "send" => i = j
    BY <1>4 DEF ChatIInv, ChatOneTalk
  <2> QED
    BY <1>3, <2>1 DEF Chat!Mics
<1> QED
  BY <1>2, <1>4 DEF Chat!HalfDuplex

------------------------------------------------------------------------------
(* The companion application *)

\* What the page and the phone may hold, and what a handler keeps.
PhPageRec == [tab : Phone!Tabs, mode : {"assistant", "planner"}, read : BOOLEAN, view : Phone!Views,
            products : SUBSET Products, product : Products \cup {Nothing},
            tree : Products \cup {Nothing}, node : Products \cup {Nothing},
            loading : BOOLEAN, mapping : BOOLEAN, failed : BOOLEAN, busy : BOOLEAN,
            seen : BOOLEAN, panel : BOOLEAN, reply : BOOLEAN, session : BOOLEAN,
            address : Phone!Addresses, status : {"checking", "connected", "offline"},
            checking : BOOLEAN, installing : Models \cup {Nothing}, selected : Models,
            installed : SUBSET Models]
PhTableRec == [there : SUBSET Products, net : SUBSET Phone!Addresses, recorder : BOOLEAN,
             taped : BOOLEAN, speaking : BOOLEAN, files : SUBSET Models,
             saved : [mode : {"assistant", "planner"}, installed : SUBSET Models, selected : Models]]
PhKeptRec == [mode : {"assistant", "planner"}, read : BOOLEAN, view : Phone!Views,
            product : Products \cup {Nothing}, tree : Products \cup {Nothing},
            node : Products \cup {Nothing}, session : BOOLEAN, address : Phone!Addresses,
            selected : Models, installed : SUBSET Models]

\* The steps of each handler.
PhPrompts == {"session", "chat", "turn"}
PhFetches == {"list", "summary", "tree"}
PhSteps(op) == CASE op = "start" -> {"permit"}
               [] op = "voice" -> {"stop", "stt"} \cup PhPrompts
               [] op = "draft" -> {"stop", "stt"}
               [] op = "panel" -> {"session", "turn"} \cup PhFetches
               [] op = "load" -> PhFetches
               [] op = "map" -> {"tree"}
               [] op = "install" -> {"download"}
               [] op = "remove" -> {"delete", "unlist"}
PhHandlers == {"start", "voice", "draft", "panel", "load", "map", "install", "remove"}
PhJobRec == {j \in [n : {0} \cup Phone!Slots, op : PhHandlers,
                    at : UNION {PhSteps(op) : op \in PhHandlers},
                  p : Products \cup {Nothing, "voice", "panel"}, m : Models \cup {Nothing},
                  was : PhKeptRec] :
           /\ j.at \in PhSteps(j.op)
           /\ j.at \in {"summary", "tree"} => j.p \in Products
           /\ j.op \in {"install", "remove"} => j.m \in Models}

PhTyped ==
    /\ page \in PhPageRec /\ table \in PhTableRec /\ jobs \subseteq PhJobRec
    /\ \A i, j \in jobs : i.n = j.n => i = j

\* One handler at most holds the busy flag, and while it has what it recorded
\* the recorder is off.
PhHolds(j) == j.op \in {"start", "voice", "draft", "panel"}
PhMicWaited ==
    "mic" \notin rough =>
        /\ \A i, j \in jobs : PhHolds(i) /\ PhHolds(j) => i = j
        /\ page.busy <=> \E j \in jobs : PhHolds(j)
        /\ \A j \in jobs : PhHolds(j) /\ j.at \notin {"permit", "stop"} => ~ table.recorder
        /\ ~ (Phone!Hears /\ table.speaking)

\* One load at most, and the tree is the product's or not there; until the
\* summary it is the one the handler began with.
PhLoading(j) == j.op \in {"load", "map", "panel"}
PhProductsWaited ==
    "products" \notin rough =>
        /\ \A i, j \in jobs : PhLoading(i) /\ PhLoading(j) => i = j
        /\ page.tree \in {Nothing, page.product}
        /\ page.products = {} => page.product = Nothing
        /\ \A j \in jobs : PhLoading(j) =>
              /\ j.op = "load" => page.loading
              /\ j.op # "load" \/ j.at \in {"summary", "tree"} => page.products # {}
              /\ j.at # "tree" => page.tree = j.was.tree
              /\ j.at = "tree" => page.product = j.p
              /\ j.op = "panel" => Phone!Node(j.was) = j.was.product

\* The address of a prompt is the one on the page, unless the phone's own has
\* taken its place.
PhAddressWaited ==
    "address" \notin rough =>
        /\ page.status = "connected" => page.address \in table.net
        /\ \A j \in jobs : j.op \in {"voice", "panel"} =>
              j.was.address = page.address \/ (page.address = "loop" /\ "loop" \in table.net)

\* One installation or removal at most; but for the model that is being removed
\* what is listed is on the device.
PhFitted(j) == j.op \in {"install", "remove"}
PhModelsWaited ==
    "models" \notin rough =>
        /\ \A i, j \in jobs : PhFitted(i) /\ PhFitted(j) => i = j
        /\ (\A j \in jobs : j.at # "unlist") => page.installed \subseteq table.files
        /\ \A j \in jobs : PhFitted(j) =>
              IF j.at = "unlist" THEN (j.was.installed \cup page.installed) \ {j.m}
                                         \subseteq table.files
              ELSE j.was.installed \subseteq table.files

PhIInv == PhTyped /\ PhMicWaited /\ PhProductsWaited /\ PhAddressWaited /\ PhModelsWaited

------------------------------------------------------------------------------
(* What begins, goes on and ends *)

\* What a handler remembers is a part of the page.
LEMMA PhClosureTyped ==
    ASSUME page \in PhPageRec
    PROVE  /\ Phone!Caught \in PhKeptRec
           /\ Phone!Caught.mode = page.mode /\ Phone!Caught.tree = page.tree
           /\ Phone!Caught.node = page.node
           /\ Phone!Caught.product = page.product /\ Phone!Caught.address = page.address
           /\ Phone!Caught.installed = page.installed
<1>1. /\ Phone!Caught = [f \in Phone!Closure |-> Phone!Caught[f]] /\ Phone!Caught.mode = page.mode
      /\ Phone!Caught.tree = page.tree
      /\ Phone!Caught.node = page.node /\ Phone!Caught.product = page.product
      /\ Phone!Caught.address = page.address
      /\ Phone!Caught.installed = page.installed /\ Phone!Caught.read = page.read
      /\ Phone!Caught.view = page.view
      /\ Phone!Caught.session = page.session /\ Phone!Caught.selected = page.selected
  BY DEF Phone!Caught, Phone!Closure
<1>2. Phone!Caught = [mode |-> page.mode, read |-> page.read, view |-> page.view,
                product |-> page.product,
                tree |-> page.tree, node |-> page.node, session |-> page.session,
                address |-> page.address, selected |-> page.selected, installed |-> page.installed]
  BY <1>1 DEF Phone!Closure
<1> QED
  BY <1>1, <1>2 DEF PhPageRec, PhKeptRec

\* The steps of the handlers, spelled out.
LEMMA PhStepsKnown ==
    /\ \A op \in PhHandlers : PhSteps(op) \subseteq UNION {PhSteps(o) : o \in PhHandlers}
    /\ PhSteps("start") = {"permit"} /\ PhSteps("voice") = {"stop", "stt", "session", "chat", "turn"}
    /\ PhSteps("draft") = {"stop", "stt"}
    /\ PhSteps("panel") = {"session", "turn", "list", "summary", "tree"}
    /\ PhSteps("load") = {"list", "summary", "tree"} /\ PhSteps("map") = {"tree"}
    /\ PhSteps("install") = {"download"} /\ PhSteps("remove") = {"delete", "unlist"}
  BY DEF PhSteps, PhPrompts, PhFetches

\* A handler as it starts.
LEMMA PhJobTyped ==
    ASSUME page \in PhPageRec, NEW op \in PhHandlers, NEW at \in PhSteps(op)
    PROVE  LET j == Phone!Job(op, at)
           IN  /\ j.n = 0 /\ j.op = op /\ j.at = at /\ j.p = Nothing
               /\ j.m = Nothing /\ j.was = Phone!Caught
               /\ \A p \in Products \cup {Nothing, "voice", "panel"}, m \in Models \cup {Nothing} :
                     /\ at \in {"summary", "tree"} => p \in Products
                     /\ op \in {"install", "remove"} => m \in Models
                     => [n |-> 0, op |-> op, at |-> at, p |-> p, m |-> m, was |-> Phone!Caught]
                           \in PhJobRec
<1>1. Phone!Caught \in PhKeptRec /\ at \in UNION {PhSteps(o) : o \in PhHandlers}
  BY PhClosureTyped
<1> QED
  BY <1>1 DEF Phone!Job, PhJobRec

\* A new job: one of the free numbers, the rest as it is given.
LEMMA PhBeginFacts ==
    ASSUME PhTyped, NEW j \in PhJobRec, Phone!Begin(j)
    PROVE  \E k \in PhJobRec :
              /\ k.op = j.op /\ k.at = j.at /\ k.p = j.p /\ k.m = j.m /\ k.was = j.was
              /\ jobs' = jobs \cup {k} /\ \A i \in jobs : i.n # k.n
<1> DEFINE n == CHOOSE n \in Phone!Free : \A o \in Phone!Free : n <= o
           k == [j EXCEPT !.n = n]
<1>1. Phone!Free # {} /\ jobs' = jobs \cup {k}
  BY DEF Phone!Begin
<1>2. \E m \in Phone!Free : \A o \in Phone!Free : m <= o
  BY <1>1 DEF Phone!Free, Phone!Slots
<1>3. n \in Phone!Free
  BY <1>2
<1>4. n \in Phone!Slots /\ \A i \in jobs : i.n # n
  BY <1>3 DEF Phone!Free
<1> HIDE DEF n
<1>5. /\ k \in PhJobRec /\ k.op = j.op /\ k.at = j.at /\ k.p = j.p /\ k.m = j.m /\ k.was = j.was
      /\ k.n = n
  BY <1>4 DEF PhJobRec
<1> QED
  BY <1>1, <1>4, <1>5

\* A handler at its next step is the same one.
LEMMA PhGoesFacts ==
    ASSUME PhTyped, NEW j \in jobs, NEW at \in PhSteps(j.op), Phone!Goes(j, at),
           at \in {"summary", "tree"} => j.p \in Products
    PROVE  \E k \in PhJobRec :
              /\ k.n = j.n /\ k.op = j.op /\ k.at = at /\ k.p = j.p /\ k.m = j.m /\ k.was = j.was
              /\ jobs' = (jobs \ {j}) \cup {k}
<1>1. j \in PhJobRec /\ at \in UNION {PhSteps(op) : op \in PhHandlers}
  BY DEF PhTyped, PhJobRec
<1>2. [j EXCEPT !.at = at] \in PhJobRec
  BY <1>1 DEF PhJobRec
<1> QED
  BY <1>1, <1>2 DEF Phone!Goes, PhJobRec

\* The handlers under way after a step, and which of them are kept apart.
LEMMA PhJobsTyped ==
    ASSUME jobs \subseteq PhJobRec, \A i, j \in jobs : i.n = j.n => i = j
    PROVE  /\ \A k \in PhJobRec : (\A i \in jobs : i.n # k.n) /\ jobs' = jobs \cup {k} =>
                 jobs' \subseteq PhJobRec /\ \A i, j \in jobs' : i.n = j.n => i = j
           /\ \A k \in PhJobRec, j \in jobs : j.n = k.n /\ jobs' = (jobs \ {j}) \cup {k} =>
                 jobs' \subseteq PhJobRec /\ \A i, l \in jobs' : i.n = l.n => i = l
           /\ \A j \in jobs : jobs' = jobs \ {j} =>
                 jobs' \subseteq PhJobRec /\ \A i, l \in jobs' : i.n = l.n => i = l
  OBVIOUS

------------------------------------------------------------------------------
(* What leaves a part of the invariant alone *)

\* The recorder and the handlers that hold the busy flag stay.
LEMMA PhMicFrame ==
    ASSUME PhMicWaited, rough \subseteq rough', page'.busy = page.busy,
           table'.recorder = table.recorder, table'.speaking => table.speaking,
           \A j : j \in jobs' /\ PhHolds(j) <=> j \in jobs /\ PhHolds(j)
    PROVE  PhMicWaited'
  BY DEF PhMicWaited, Phone!Hears, PhHolds

\* The product, its tree and the loads stay.
LEMMA PhProductsFrame ==
    ASSUME PhProductsWaited, rough \subseteq rough', page'.tree = page.tree,
           page'.product = page.product, page'.products = page.products,
           page.loading => page'.loading,
           \A j : j \in jobs' /\ PhLoading(j) <=> j \in jobs /\ PhLoading(j)
    PROVE  PhProductsWaited'
  BY DEF PhProductsWaited, PhLoading, Phone!Node

\* The address stays, and every prompt keeps its own.
LEMMA PhAddressFrame ==
    ASSUME PhAddressWaited, rough \subseteq rough', page'.address = page.address,
           page'.status = "connected" => page.status = "connected", table'.net = table.net,
           \A j \in jobs' : j.op \in {"voice", "panel"} =>
               j.was.address = page.address \/ \E i \in jobs : i.op \in {"voice", "panel"}
               /\ i.was = j.was
    PROVE  PhAddressWaited'
  BY DEF PhAddressWaited

\* The list, the files and the installations stay.
LEMMA PhModelsFrame ==
    ASSUME PhModelsWaited, rough \subseteq rough', page'.installed = page.installed,
           table'.files = table.files,
           \A j : j \in jobs' /\ PhFitted(j) <=> j \in jobs /\ PhFitted(j),
           jobs' \subseteq PhJobRec, jobs \subseteq PhJobRec
    PROVE  PhModelsWaited'
<1>1. \A j \in PhJobRec : j.at = "unlist" => PhFitted(j)
  BY PhStepsKnown DEF PhJobRec, PhHandlers, PhFitted
<1> QED
  BY <1>1 DEF PhModelsWaited

\* The page after an answer from an address.
LEMMA PhConnectedFacts ==
    ASSUME NEW pg \in PhPageRec, NEW a \in Phone!Addresses
    PROVE  LET X == Phone!Connected(pg, a)
           IN  /\ X \in PhPageRec /\ X.status = "connected"
               /\ X.address = IF Phone!FallsBack(a) THEN "loop" ELSE pg.address
               /\ X.tree = pg.tree /\ X.product = pg.product /\ X.products = pg.products
               /\ X.loading = pg.loading /\ X.busy = pg.busy /\ X.installed = pg.installed
<1>1. CASE Phone!FallsBack(a)
  <2> DEFINE c == pg.checking \/ pg.address # "loop"
  <2>1. c \in BOOLEAN /\ Phone!Connected(pg, a) =
         [pg EXCEPT !.address = "loop", !.status = "connected", !.checking = c]
    BY <1>1 DEF Phone!Connected, PhPageRec
  <2> HIDE DEF c
  <2> QED
    BY <1>1, <2>1 DEF PhPageRec, Phone!Addresses
<1>2. CASE ~ Phone!FallsBack(a)
  BY <1>2 DEF Phone!Connected, PhPageRec
<1> QED
  BY <1>1, <1>2

------------------------------------------------------------------------------
(* Steps that leave the handlers alone *)

\* The preferences that were saved are read.
LEMMA PhReadPreferencesKeeps == ASSUME PhIInv, Phone!ReadPreferences PROVE PhIInv'
<1>1. /\ page' \in PhPageRec /\ table' \in PhTableRec /\ jobs' = jobs /\ rough \subseteq rough'
      /\ page'.tree = page.tree /\ page'.product = page.product /\ page'.products = page.products
      /\ page'.loading = page.loading /\ page'.busy = page.busy /\ page'.address = page.address
      /\ page'.status = page.status /\ page'.installed = page.installed
      /\ table'.recorder = table.recorder /\ table'.net = table.net /\ table'.files = table.files
      /\ table'.speaking = table.speaking
  <2>1. page' \in PhPageRec
    BY DEF PhIInv, PhTyped, Phone!ReadPreferences, PhPageRec, PhTableRec
  <2>2. table' \in PhTableRec
    BY DEF PhIInv, PhTyped, Phone!ReadPreferences, PhTableRec
  <2>3. /\ page'.tree = page.tree /\ page'.product = page.product /\ page'.products = page.products
        /\ page'.loading = page.loading /\ page'.busy = page.busy /\ page'.address = page.address
        /\ page'.status = page.status /\ page'.installed = page.installed
    BY DEF PhIInv, PhTyped, Phone!ReadPreferences, PhPageRec
  <2>4. /\ table'.recorder = table.recorder /\ table'.net = table.net /\ table'.files = table.files
        /\ table'.speaking = table.speaking
    BY DEF PhIInv, PhTyped, Phone!ReadPreferences, PhTableRec
  <2>5. /\ jobs' = jobs /\ rough \subseteq rough'
    BY DEF Phone!ReadPreferences
  <2> QED
    BY <2>1, <2>2, <2>3, <2>4, <2>5
<1>2. PhTyped'
  BY <1>1 DEF PhIInv, PhTyped
<1>3. PhMicWaited'
  BY <1>1, PhMicFrame DEF PhIInv, PhTyped
<1>4. PhProductsWaited'
  BY <1>1, PhProductsFrame DEF PhIInv, PhTyped
<1>5. PhAddressWaited'
  BY <1>1, PhAddressFrame DEF PhIInv, PhTyped
<1>6. PhModelsWaited'
  BY <1>1, PhModelsFrame DEF PhIInv, PhTyped
<1> QED
  BY <1>2, <1>3, <1>4, <1>5, <1>6 DEF PhIInv

\* The models that are listed are looked for on the device.
LEMMA PhVerifyModelsKeeps == ASSUME PhIInv, Phone!VerifyModels PROVE PhIInv'
<1>1. /\ page' \in PhPageRec /\ table' \in PhTableRec /\ jobs' = jobs /\ rough \subseteq rough'
      /\ page'.tree = page.tree /\ page'.product = page.product /\ page'.products = page.products
      /\ page'.loading = page.loading /\ page'.busy = page.busy /\ page'.address = page.address
      /\ page'.status = page.status /\ table'.recorder = table.recorder /\ table'.net = table.net
      /\ table'.files = table.files /\ table'.speaking = table.speaking
      /\ page'.installed \subseteq table.files
  <2>1. page' \in PhPageRec
    BY DEF PhIInv, PhTyped, Phone!VerifyModels, PhPageRec, PhTableRec
  <2>2. table' \in PhTableRec
    BY DEF PhIInv, PhTyped, Phone!VerifyModels, PhTableRec
  <2>3. /\ page'.tree = page.tree /\ page'.product = page.product /\ page'.products = page.products
        /\ page'.loading = page.loading /\ page'.busy = page.busy /\ page'.address = page.address
        /\ page'.status = page.status /\ page'.installed \subseteq table.files
    BY DEF PhIInv, PhTyped, Phone!VerifyModels, PhPageRec
  <2>4. /\ table'.recorder = table.recorder /\ table'.net = table.net /\ table'.files = table.files
        /\ table'.speaking = table.speaking
    BY DEF PhIInv, PhTyped, Phone!VerifyModels, PhTableRec
  <2>5. /\ jobs' = jobs /\ rough \subseteq rough'
    BY DEF Phone!VerifyModels
  <2> QED
    BY <2>1, <2>2, <2>3, <2>4, <2>5
<1>2. PhTyped'
  BY <1>1 DEF PhIInv, PhTyped
<1>3. PhMicWaited'
  BY <1>1, PhMicFrame DEF PhIInv, PhTyped
<1>4. PhProductsWaited'
  BY <1>1, PhProductsFrame DEF PhIInv, PhTyped
<1>5. PhAddressWaited'
  BY <1>1, PhAddressFrame DEF PhIInv, PhTyped
<1>6. PhModelsWaited'
  BY <1>1 DEF PhIInv, PhModelsWaited
<1> QED
  BY <1>2, <1>3, <1>4, <1>5, <1>6 DEF PhIInv

\* Another tab.
LEMMA PhSwitchTabKeeps == ASSUME PhIInv, NEW t \in Phone!Tabs, Phone!SwitchTab(t) PROVE PhIInv'
<1>1. /\ page' \in PhPageRec /\ table' \in PhTableRec /\ jobs' = jobs /\ rough \subseteq rough'
      /\ page'.tree = page.tree /\ page'.product = page.product /\ page'.products = page.products
      /\ page'.loading = page.loading /\ page'.busy = page.busy /\ page'.address = page.address
      /\ page'.status = page.status /\ page'.installed = page.installed
      /\ table'.recorder = table.recorder /\ table'.net = table.net /\ table'.files = table.files
      /\ table'.speaking = table.speaking
  <2>1. page' \in PhPageRec
    BY DEF PhIInv, PhTyped, Phone!SwitchTab, PhPageRec, PhTableRec
  <2>2. table' \in PhTableRec
    BY DEF PhIInv, PhTyped, Phone!SwitchTab, PhTableRec
  <2>3. /\ page'.tree = page.tree /\ page'.product = page.product /\ page'.products = page.products
        /\ page'.loading = page.loading /\ page'.busy = page.busy /\ page'.address = page.address
        /\ page'.status = page.status /\ page'.installed = page.installed
    BY DEF PhIInv, PhTyped, Phone!SwitchTab, PhPageRec
  <2>4. /\ table'.recorder = table.recorder /\ table'.net = table.net /\ table'.files = table.files
        /\ table'.speaking = table.speaking
    BY DEF PhIInv, PhTyped, Phone!SwitchTab, PhTableRec
  <2>5. /\ jobs' = jobs /\ rough \subseteq rough'
    BY DEF Phone!SwitchTab
  <2> QED
    BY <2>1, <2>2, <2>3, <2>4, <2>5
<1>2. PhTyped'
  BY <1>1 DEF PhIInv, PhTyped
<1>3. PhMicWaited'
  BY <1>1, PhMicFrame DEF PhIInv, PhTyped
<1>4. PhProductsWaited'
  BY <1>1, PhProductsFrame DEF PhIInv, PhTyped
<1>5. PhAddressWaited'
  BY <1>1, PhAddressFrame DEF PhIInv, PhTyped
<1>6. PhModelsWaited'
  BY <1>1, PhModelsFrame DEF PhIInv, PhTyped
<1> QED
  BY <1>2, <1>3, <1>4, <1>5, <1>6 DEF PhIInv

\* The assistant or the planner.
LEMMA PhSwitchVoiceModeKeeps == ASSUME PhIInv,
NEW m \in {"assistant", "planner"}, Phone!SwitchVoiceMode(m) PROVE PhIInv'
<1>1. /\ page' \in PhPageRec /\ table' \in PhTableRec /\ jobs' = jobs /\ rough \subseteq rough'
      /\ page'.tree = page.tree /\ page'.product = page.product /\ page'.products = page.products
      /\ page'.loading = page.loading /\ page'.busy = page.busy /\ page'.address = page.address
      /\ page'.status = page.status /\ page'.installed = page.installed
      /\ table'.recorder = table.recorder /\ table'.net = table.net /\ table'.files = table.files
      /\ table'.speaking = table.speaking
  <2>1. page' \in PhPageRec
    BY DEF PhIInv, PhTyped, Phone!SwitchVoiceMode, PhPageRec, PhTableRec
  <2>2. table' \in PhTableRec
    BY DEF PhIInv, PhTyped, Phone!SwitchVoiceMode, PhTableRec
  <2>3. /\ page'.tree = page.tree /\ page'.product = page.product /\ page'.products = page.products
        /\ page'.loading = page.loading /\ page'.busy = page.busy /\ page'.address = page.address
        /\ page'.status = page.status /\ page'.installed = page.installed
    BY DEF PhIInv, PhTyped, Phone!SwitchVoiceMode, PhPageRec
  <2>4. /\ table'.recorder = table.recorder /\ table'.net = table.net /\ table'.files = table.files
        /\ table'.speaking = table.speaking
    BY DEF PhIInv, PhTyped, Phone!SwitchVoiceMode, PhTableRec
  <2>5. /\ jobs' = jobs /\ rough \subseteq rough'
    BY DEF Phone!SwitchVoiceMode
  <2> QED
    BY <2>1, <2>2, <2>3, <2>4, <2>5
<1>2. PhTyped'
  BY <1>1 DEF PhIInv, PhTyped
<1>3. PhMicWaited'
  BY <1>1, PhMicFrame DEF PhIInv, PhTyped
<1>4. PhProductsWaited'
  BY <1>1, PhProductsFrame DEF PhIInv, PhTyped
<1>5. PhAddressWaited'
  BY <1>1, PhAddressFrame DEF PhIInv, PhTyped
<1>6. PhModelsWaited'
  BY <1>1, PhModelsFrame DEF PhIInv, PhTyped
<1> QED
  BY <1>2, <1>3, <1>4, <1>5, <1>6 DEF PhIInv

\* Replies are read out, or not.
LEMMA PhSetReadRepliesKeeps == ASSUME PhIInv, NEW b \in BOOLEAN, Phone!SetReadReplies(b) PROVE PhIInv'
<1>1. /\ page' \in PhPageRec /\ table' \in PhTableRec /\ jobs' = jobs /\ rough \subseteq rough'
      /\ page'.tree = page.tree /\ page'.product = page.product /\ page'.products = page.products
      /\ page'.loading = page.loading /\ page'.busy = page.busy /\ page'.address = page.address
      /\ page'.status = page.status /\ page'.installed = page.installed
      /\ table'.recorder = table.recorder /\ table'.net = table.net /\ table'.files = table.files
      /\ (table'.speaking => table.speaking)
  <2>1. page' \in PhPageRec
    BY DEF PhIInv, PhTyped, Phone!SetReadReplies, PhPageRec, PhTableRec
  <2>2. table' \in PhTableRec
    BY DEF PhIInv, PhTyped, Phone!SetReadReplies, PhTableRec
  <2>3. /\ page'.tree = page.tree /\ page'.product = page.product /\ page'.products = page.products
        /\ page'.loading = page.loading /\ page'.busy = page.busy /\ page'.address = page.address
        /\ page'.status = page.status /\ page'.installed = page.installed
    BY DEF PhIInv, PhTyped, Phone!SetReadReplies, PhPageRec
  <2>4. /\ table'.recorder = table.recorder /\ table'.net = table.net /\ table'.files = table.files
        /\ (table'.speaking => table.speaking)
    BY DEF PhIInv, PhTyped, Phone!SetReadReplies, PhTableRec
  <2>5. /\ jobs' = jobs /\ rough \subseteq rough'
    BY DEF Phone!SetReadReplies
  <2> QED
    BY <2>1, <2>2, <2>3, <2>4, <2>5
<1>2. PhTyped'
  BY <1>1 DEF PhIInv, PhTyped
<1>3. PhMicWaited'
  BY <1>1, PhMicFrame DEF PhIInv, PhTyped
<1>4. PhProductsWaited'
  BY <1>1, PhProductsFrame DEF PhIInv, PhTyped
<1>5. PhAddressWaited'
  BY <1>1, PhAddressFrame DEF PhIInv, PhTyped
<1>6. PhModelsWaited'
  BY <1>1, PhModelsFrame DEF PhIInv, PhTyped
<1> QED
  BY <1>2, <1>3, <1>4, <1>5, <1>6 DEF PhIInv

\* The poll tells the screens whether the recorder records.
LEMMA PhPollKeeps == ASSUME PhIInv, Phone!Poll PROVE PhIInv'
<1>1. /\ page' \in PhPageRec /\ table' \in PhTableRec /\ jobs' = jobs /\ rough \subseteq rough'
      /\ page'.tree = page.tree /\ page'.product = page.product /\ page'.products = page.products
      /\ page'.loading = page.loading /\ page'.busy = page.busy /\ page'.address = page.address
      /\ page'.status = page.status /\ page'.installed = page.installed
      /\ table'.recorder = table.recorder /\ table'.net = table.net /\ table'.files = table.files
      /\ table'.speaking = table.speaking
  <2>1. page' \in PhPageRec
    BY DEF PhIInv, PhTyped, Phone!Poll, PhPageRec, PhTableRec
  <2>2. table' \in PhTableRec
    BY DEF PhIInv, PhTyped, Phone!Poll, PhTableRec
  <2>3. /\ page'.tree = page.tree /\ page'.product = page.product /\ page'.products = page.products
        /\ page'.loading = page.loading /\ page'.busy = page.busy /\ page'.address = page.address
        /\ page'.status = page.status /\ page'.installed = page.installed
    BY DEF PhIInv, PhTyped, Phone!Poll, PhPageRec
  <2>4. /\ table'.recorder = table.recorder /\ table'.net = table.net /\ table'.files = table.files
        /\ table'.speaking = table.speaking
    BY DEF PhIInv, PhTyped, Phone!Poll, PhTableRec
  <2>5. /\ jobs' = jobs /\ rough \subseteq rough'
    BY DEF Phone!Poll
  <2> QED
    BY <2>1, <2>2, <2>3, <2>4, <2>5
<1>2. PhTyped'
  BY <1>1 DEF PhIInv, PhTyped
<1>3. PhMicWaited'
  BY <1>1, PhMicFrame DEF PhIInv, PhTyped
<1>4. PhProductsWaited'
  BY <1>1, PhProductsFrame DEF PhIInv, PhTyped
<1>5. PhAddressWaited'
  BY <1>1, PhAddressFrame DEF PhIInv, PhTyped
<1>6. PhModelsWaited'
  BY <1>1, PhModelsFrame DEF PhIInv, PhTyped
<1> QED
  BY <1>2, <1>3, <1>4, <1>5, <1>6 DEF PhIInv

\* A reply has been read out.
LEMMA PhSpeechOverKeeps == ASSUME PhIInv, Phone!SpeechOver PROVE PhIInv'
<1>1. /\ page' \in PhPageRec /\ table' \in PhTableRec /\ jobs' = jobs /\ rough \subseteq rough'
      /\ page'.tree = page.tree /\ page'.product = page.product /\ page'.products = page.products
      /\ page'.loading = page.loading /\ page'.busy = page.busy /\ page'.address = page.address
      /\ page'.status = page.status /\ page'.installed = page.installed
      /\ table'.recorder = table.recorder /\ table'.net = table.net /\ table'.files = table.files
      /\ table'.speaking = FALSE
  <2>1. page' \in PhPageRec
    BY DEF PhIInv, PhTyped, Phone!SpeechOver, PhPageRec, PhTableRec
  <2>2. table' \in PhTableRec
    BY DEF PhIInv, PhTyped, Phone!SpeechOver, PhTableRec
  <2>3. /\ page'.tree = page.tree /\ page'.product = page.product /\ page'.products = page.products
        /\ page'.loading = page.loading /\ page'.busy = page.busy /\ page'.address = page.address
        /\ page'.status = page.status /\ page'.installed = page.installed
    BY DEF PhIInv, PhTyped, Phone!SpeechOver, PhPageRec
  <2>4. /\ table'.recorder = table.recorder /\ table'.net = table.net /\ table'.files = table.files
        /\ table'.speaking = FALSE
    BY DEF PhIInv, PhTyped, Phone!SpeechOver, PhTableRec
  <2>5. /\ jobs' = jobs /\ rough \subseteq rough'
    BY DEF Phone!SpeechOver
  <2> QED
    BY <2>1, <2>2, <2>3, <2>4, <2>5
<1>2. PhTyped'
  BY <1>1 DEF PhIInv, PhTyped
<1>3. PhMicWaited'
  BY <1>1, PhMicFrame DEF PhIInv, PhTyped
<1>4. PhProductsWaited'
  BY <1>1, PhProductsFrame DEF PhIInv, PhTyped
<1>5. PhAddressWaited'
  BY <1>1, PhAddressFrame DEF PhIInv, PhTyped
<1>6. PhModelsWaited'
  BY <1>1, PhModelsFrame DEF PhIInv, PhTyped
<1> QED
  BY <1>2, <1>3, <1>4, <1>5, <1>6 DEF PhIInv

\* Another of the listed models.
LEMMA PhSelectModelKeeps == ASSUME PhIInv, NEW m \in Models, Phone!SelectModel(m) PROVE PhIInv'
<1>1. /\ page' \in PhPageRec /\ table' \in PhTableRec /\ jobs' = jobs /\ rough \subseteq rough'
      /\ page'.tree = page.tree /\ page'.product = page.product /\ page'.products = page.products
      /\ page'.loading = page.loading /\ page'.busy = page.busy /\ page'.address = page.address
      /\ page'.status = page.status /\ page'.installed = page.installed
      /\ table'.recorder = table.recorder /\ table'.net = table.net /\ table'.files = table.files
      /\ table'.speaking = table.speaking
  <2>1. page' \in PhPageRec
    BY DEF PhIInv, PhTyped, Phone!SelectModel, PhPageRec, PhTableRec
  <2>2. table' \in PhTableRec
    BY DEF PhIInv, PhTyped, Phone!SelectModel, PhTableRec
  <2>3. /\ page'.tree = page.tree /\ page'.product = page.product /\ page'.products = page.products
        /\ page'.loading = page.loading /\ page'.busy = page.busy /\ page'.address = page.address
        /\ page'.status = page.status /\ page'.installed = page.installed
    BY DEF PhIInv, PhTyped, Phone!SelectModel, PhPageRec
  <2>4. /\ table'.recorder = table.recorder /\ table'.net = table.net /\ table'.files = table.files
        /\ table'.speaking = table.speaking
    BY DEF PhIInv, PhTyped, Phone!SelectModel, PhTableRec
  <2>5. /\ jobs' = jobs /\ rough \subseteq rough'
    BY DEF Phone!SelectModel
  <2> QED
    BY <2>1, <2>2, <2>3, <2>4, <2>5
<1>2. PhTyped'
  BY <1>1 DEF PhIInv, PhTyped
<1>3. PhMicWaited'
  BY <1>1, PhMicFrame DEF PhIInv, PhTyped
<1>4. PhProductsWaited'
  BY <1>1, PhProductsFrame DEF PhIInv, PhTyped
<1>5. PhAddressWaited'
  BY <1>1, PhAddressFrame DEF PhIInv, PhTyped
<1>6. PhModelsWaited'
  BY <1>1, PhModelsFrame DEF PhIInv, PhTyped
<1> QED
  BY <1>2, <1>3, <1>4, <1>5, <1>6 DEF PhIInv

\* A node of the tree is opened.
LEMMA PhOpenNodeKeeps == ASSUME PhIInv, Phone!OpenNode PROVE PhIInv'
<1>1. /\ page' \in PhPageRec /\ table' \in PhTableRec /\ jobs' = jobs /\ rough \subseteq rough'
      /\ page'.tree = page.tree /\ page'.product = page.product /\ page'.products = page.products
      /\ page'.loading = page.loading /\ page'.busy = page.busy /\ page'.address = page.address
      /\ page'.status = page.status /\ page'.installed = page.installed
      /\ table'.recorder = table.recorder /\ table'.net = table.net /\ table'.files = table.files
      /\ table'.speaking = table.speaking
  <2>1. page' \in PhPageRec
    BY DEF PhIInv, PhTyped, Phone!OpenNode, Phone!Hurries, PhPageRec, PhTableRec
  <2>2. table' \in PhTableRec
    BY DEF PhIInv, PhTyped, Phone!OpenNode, Phone!Hurries, PhTableRec
  <2>3. /\ page'.tree = page.tree /\ page'.product = page.product /\ page'.products = page.products
        /\ page'.loading = page.loading /\ page'.busy = page.busy /\ page'.address = page.address
        /\ page'.status = page.status /\ page'.installed = page.installed
    BY DEF PhIInv, PhTyped, Phone!OpenNode, Phone!Hurries, PhPageRec
  <2>4. /\ table'.recorder = table.recorder /\ table'.net = table.net /\ table'.files = table.files
        /\ table'.speaking = table.speaking
    BY DEF PhIInv, PhTyped, Phone!OpenNode, Phone!Hurries, PhTableRec
  <2>5. /\ jobs' = jobs /\ rough \subseteq rough'
    BY DEF Phone!OpenNode, Phone!Hurries
  <2> QED
    BY <2>1, <2>2, <2>3, <2>4, <2>5
<1>2. PhTyped'
  BY <1>1 DEF PhIInv, PhTyped
<1>3. PhMicWaited'
  BY <1>1, PhMicFrame DEF PhIInv, PhTyped
<1>4. PhProductsWaited'
  BY <1>1, PhProductsFrame DEF PhIInv, PhTyped
<1>5. PhAddressWaited'
  BY <1>1, PhAddressFrame DEF PhIInv, PhTyped
<1>6. PhModelsWaited'
  BY <1>1, PhModelsFrame DEF PhIInv, PhTyped
<1> QED
  BY <1>2, <1>3, <1>4, <1>5, <1>6 DEF PhIInv

\* The panel goes back from its node to the product.
LEMMA PhBackKeeps == ASSUME PhIInv, Phone!Back PROVE PhIInv'
<1>1. /\ page' \in PhPageRec /\ table' \in PhTableRec /\ jobs' = jobs /\ rough \subseteq rough'
      /\ page'.tree = page.tree /\ page'.product = page.product /\ page'.products = page.products
      /\ page'.loading = page.loading /\ page'.busy = page.busy /\ page'.address = page.address
      /\ page'.status = page.status /\ page'.installed = page.installed
      /\ table'.recorder = table.recorder /\ table'.net = table.net /\ table'.files = table.files
      /\ table'.speaking = table.speaking
  <2>1. page' \in PhPageRec
    BY DEF PhIInv, PhTyped, Phone!Back, Phone!Hurries, PhPageRec, PhTableRec
  <2>2. table' \in PhTableRec
    BY DEF PhIInv, PhTyped, Phone!Back, Phone!Hurries, PhTableRec
  <2>3. /\ page'.tree = page.tree /\ page'.product = page.product /\ page'.products = page.products
        /\ page'.loading = page.loading /\ page'.busy = page.busy /\ page'.address = page.address
        /\ page'.status = page.status /\ page'.installed = page.installed
    BY DEF PhIInv, PhTyped, Phone!Back, Phone!Hurries, PhPageRec
  <2>4. /\ table'.recorder = table.recorder /\ table'.net = table.net /\ table'.files = table.files
        /\ table'.speaking = table.speaking
    BY DEF PhIInv, PhTyped, Phone!Back, Phone!Hurries, PhTableRec
  <2>5. /\ jobs' = jobs /\ rough \subseteq rough'
    BY DEF Phone!Back, Phone!Hurries
  <2> QED
    BY <2>1, <2>2, <2>3, <2>4, <2>5
<1>2. PhTyped'
  BY <1>1 DEF PhIInv, PhTyped
<1>3. PhMicWaited'
  BY <1>1, PhMicFrame DEF PhIInv, PhTyped
<1>4. PhProductsWaited'
  BY <1>1, PhProductsFrame DEF PhIInv, PhTyped
<1>5. PhAddressWaited'
  BY <1>1, PhAddressFrame DEF PhIInv, PhTyped
<1>6. PhModelsWaited'
  BY <1>1, PhModelsFrame DEF PhIInv, PhTyped
<1> QED
  BY <1>2, <1>3, <1>4, <1>5, <1>6 DEF PhIInv

\* A reply is read out again, unless the phone was told not to read.
LEMMA PhSpeakKeeps == ASSUME PhIInv, Phone!Speak PROVE PhIInv'
<1>1. /\ page' \in PhPageRec /\ table' \in PhTableRec /\ jobs' = jobs /\ rough \subseteq rough'
      /\ page'.tree = page.tree /\ page'.product = page.product /\ page'.products = page.products
      /\ page'.loading = page.loading /\ page'.busy = page.busy /\ page'.address = page.address
      /\ page'.status = page.status /\ page'.installed = page.installed
      /\ table'.recorder = table.recorder /\ table'.net = table.net /\ table'.files = table.files
      /\ (Phone!Hears => "mic" \in rough') /\ page' = page
  <2>1. page' \in PhPageRec
    BY DEF PhIInv, PhTyped, Phone!Speak, PhPageRec, PhTableRec
  <2>2. table' \in PhTableRec
    BY DEF PhIInv, PhTyped, Phone!Speak, PhTableRec
  <2>3. /\ page'.tree = page.tree /\ page'.product = page.product /\ page'.products = page.products
        /\ page'.loading = page.loading /\ page'.busy = page.busy /\ page'.address = page.address
        /\ page'.status = page.status /\ page'.installed = page.installed /\ page' = page
    BY DEF PhIInv, PhTyped, Phone!Speak, PhPageRec
  <2>4. /\ table'.recorder = table.recorder /\ table'.net = table.net /\ table'.files = table.files
    BY DEF PhIInv, PhTyped, Phone!Speak, PhTableRec
  <2>5. /\ jobs' = jobs /\ rough \subseteq rough' /\ (Phone!Hears => "mic" \in rough')
    BY DEF Phone!Speak
  <2> QED
    BY <2>1, <2>2, <2>3, <2>4, <2>5
<1>2. PhTyped'
  BY <1>1 DEF PhIInv, PhTyped
<1>3. PhMicWaited'
  BY <1>1 DEF PhIInv, PhMicWaited, Phone!Hears
<1>4. PhProductsWaited'
  BY <1>1, PhProductsFrame DEF PhIInv, PhTyped
<1>5. PhAddressWaited'
  BY <1>1, PhAddressFrame DEF PhIInv, PhTyped
<1>6. PhModelsWaited'
  BY <1>1, PhModelsFrame DEF PhIInv, PhTyped
<1> QED
  BY <1>2, <1>3, <1>4, <1>5, <1>6 DEF PhIInv

\* Another address is typed.
LEMMA PhChangeAddressKeeps == ASSUME PhIInv,
NEW a \in Phone!Addresses, Phone!ChangeAddress(a) PROVE PhIInv'
<1>1. /\ page' \in PhPageRec /\ table' \in PhTableRec /\ jobs' = jobs /\ rough \subseteq rough'
      /\ page'.tree = page.tree /\ page'.product = page.product /\ page'.products = page.products
      /\ page'.loading = page.loading /\ page'.busy = page.busy /\ page'.installed = page.installed
      /\ table'.recorder = table.recorder /\ table'.net = table.net /\ table'.files = table.files
      /\ table'.speaking = table.speaking /\ page'.status = "checking"
  <2>1. page' \in PhPageRec
    BY DEF PhIInv, PhTyped, Phone!ChangeAddress, Phone!Checked, Phone!Hurries, PhPageRec,
       PhTableRec
  <2>2. table' \in PhTableRec
    BY DEF PhIInv, PhTyped, Phone!ChangeAddress, Phone!Checked, Phone!Hurries, PhTableRec
  <2>3. /\ page'.tree = page.tree /\ page'.product = page.product /\ page'.products = page.products
        /\ page'.loading = page.loading /\ page'.busy = page.busy
        /\ page'.installed = page.installed /\ page'.status = "checking"
    BY DEF PhIInv, PhTyped, Phone!ChangeAddress, Phone!Checked, Phone!Hurries, PhPageRec
  <2>4. /\ table'.recorder = table.recorder /\ table'.net = table.net /\ table'.files = table.files
        /\ table'.speaking = table.speaking
    BY DEF PhIInv, PhTyped, Phone!ChangeAddress, Phone!Checked, Phone!Hurries, PhTableRec
  <2>5. /\ jobs' = jobs /\ rough \subseteq rough'
    BY DEF Phone!ChangeAddress, Phone!Checked, Phone!Hurries
  <2> QED
    BY <2>1, <2>2, <2>3, <2>4, <2>5
<1>2. PhTyped'
  BY <1>1 DEF PhIInv, PhTyped
<1>3. PhMicWaited'
  BY <1>1, PhMicFrame DEF PhIInv, PhTyped
<1>4. PhProductsWaited'
  BY <1>1, PhProductsFrame DEF PhIInv, PhTyped
<1>5. PhAddressWaited'
  <2>1. "address" \notin rough' => \A j \in jobs : j.op \notin {"voice", "panel"}
    BY DEF Phone!Pending, Phone!ChangeAddress, Phone!Hurries
  <2> QED
    BY <1>1, <2>1 DEF PhAddressWaited
<1>6. PhModelsWaited'
  BY <1>1, PhModelsFrame DEF PhIInv, PhTyped
<1> QED
  BY <1>2, <1>3, <1>4, <1>5, <1>6 DEF PhIInv

\* The desktop answers at an address, or nobody does.
LEMMA PhCheckConnectionKeeps == ASSUME PhIInv, Phone!CheckConnection PROVE PhIInv'
<1> DEFINE over == [page EXCEPT !.checking = FALSE]
<1>a. /\ over \in PhPageRec /\ over.tree = page.tree /\ over.product = page.product
      /\ over.products = page.products /\ over.loading = page.loading /\ over.busy = page.busy
      /\ over.installed = page.installed /\ over.address = page.address
      /\ page.address \in Phone!Addresses
  BY DEF PhIInv, PhTyped, PhPageRec
<1>b. /\ \/ Phone!Reached(page.address) /\ page' = Phone!Connected(over, page.address)
         \/ page' = [over EXCEPT !.status = "offline"]
      /\ UNCHANGED <<table, jobs, rough>>
  BY DEF Phone!CheckConnection
<1> HIDE DEF over
<1>0. /\ page' \in PhPageRec /\ page'.tree = page.tree /\ page'.product = page.product
      /\ page'.products = page.products /\ page'.loading = page.loading /\ page'.busy = page.busy
      /\ page'.installed = page.installed
      /\ \/ page'.status = "connected" /\ Phone!Reached(page.address) /\ ~ Phone!FallsBack(page.address)
              /\ page'.address = page.address
         \/ page'.status = "connected" /\ Phone!FallsBack(page.address) /\ page'.address = "loop"
         \/ page'.status = "offline" /\ page'.address = page.address
  <2>1. CASE Phone!Reached(page.address) /\ page' = Phone!Connected(over, page.address)
    BY <1>a, <2>1, PhConnectedFacts
  <2>2. CASE page' = [over EXCEPT !.status = "offline"]
    BY <1>a, <2>2 DEF PhPageRec
  <2> QED
    BY <1>b, <2>1, <2>2
<1>1. /\ page' \in PhPageRec /\ table' \in PhTableRec /\ jobs' = jobs /\ rough \subseteq rough'
      /\ page'.tree = page.tree /\ page'.product = page.product /\ page'.products = page.products
      /\ page'.loading = page.loading /\ page'.busy = page.busy /\ page'.installed = page.installed
      /\ table'.recorder = table.recorder /\ table'.net = table.net /\ table'.files = table.files
      /\ table'.speaking = table.speaking
  BY <1>b, <1>0 DEF PhIInv, PhTyped
<1>2. PhTyped'
  BY <1>1 DEF PhIInv, PhTyped
<1>3. PhMicWaited'
  BY <1>1, PhMicFrame DEF PhIInv, PhTyped
<1>4. PhProductsWaited'
  BY <1>1, PhProductsFrame DEF PhIInv, PhTyped
<1>5. PhAddressWaited'
  <2>1. \/ page'.status = "connected" /\ Phone!Reached(page.address) /\ ~ Phone!FallsBack(page.address)
           /\ page'.address = page.address
        \/ page'.status = "connected" /\ Phone!FallsBack(page.address) /\ page'.address = "loop"
        \/ page'.status = "offline" /\ page'.address = page.address
    BY <1>0
  <2> QED
    BY <1>1, <2>1 DEF PhIInv, PhAddressWaited, Phone!Reached, Phone!FallsBack
<1>6. PhModelsWaited'
  BY <1>1, PhModelsFrame DEF PhIInv, PhTyped
<1> QED
  BY <1>2, <1>3, <1>4, <1>5, <1>6 DEF PhIInv

------------------------------------------------------------------------------
(* Handlers that begin *)

\* The jobs of the model: those with what they are about.
LEMMA PhJobWithProduct ==
    ASSUME page \in PhPageRec, NEW op \in PhHandlers \ {"install", "remove"}, NEW at \in PhSteps(op),
           NEW p \in Products \cup {Nothing, "voice", "panel"}, at \in {"summary", "tree"}
           => p \in Products
    PROVE  LET k == [Phone!Job(op, at) EXCEPT !.p = p]
           IN  k \in PhJobRec /\ k.op = op /\ k.at = at /\ k.p = p /\ k.was = Phone!Caught
<1>1. [Phone!Job(op, at) EXCEPT !.p = p] = [n |-> 0, op |-> op, at |-> at, p |-> p, m |-> Nothing,
      was |-> Phone!Caught]
  BY DEF Phone!Job
<1> QED
  BY <1>1, PhJobTyped

\* A handler about a model.
LEMMA PhJobWithModel ==
    ASSUME page \in PhPageRec, NEW op \in {"install", "remove"}, NEW at \in PhSteps(op),
           NEW m \in Models
    PROVE  LET k == [Phone!Job(op, at) EXCEPT !.m = m]
           IN  k \in PhJobRec /\ k.op = op /\ k.at = at /\ k.m = m /\ k.was = Phone!Caught
<1>1. [Phone!Job(op, at) EXCEPT !.m = m] = [n |-> 0, op |-> op, at |-> at, p |-> Nothing, m |-> m,
      was |-> Phone!Caught]
  BY DEF Phone!Job
<1>2. op \in PhHandlers /\ at \notin {"summary", "tree"}
  BY PhStepsKnown DEF PhHandlers
<1> QED
  BY <1>1, <1>2, PhJobTyped

\* A handler about nothing in particular.
LEMMA PhJobPlain ==
    ASSUME page \in PhPageRec, NEW op \in {"start", "voice", "draft"}, NEW at \in PhSteps(op)
    PROVE  /\ Phone!Job(op, at) \in PhJobRec /\ Phone!Job(op, at).op = op /\ Phone!Job(op, at).at = at
           /\ Phone!Job(op, at).was = Phone!Caught
<1>1. op \in PhHandlers /\ at \notin {"summary", "tree"}
  BY PhStepsKnown DEF PhHandlers
<1>2. Phone!Job(op, at) = [n |-> 0, op |-> op, at |-> at, p |-> Nothing, m |-> Nothing,
      was |-> Phone!Caught]
  BY DEF Phone!Job
<1> QED
  BY <1>1, <1>2, PhJobTyped

\* What the person would have to wait for and does not.
LEMMA PhHurriesFacts ==
    ASSUME NEW hs, Phone!Hurries(hs)
    PROVE  /\ rough \subseteq rough'
           /\ "mic" \in hs /\ "mic" \notin rough' => ~ page.busy /\ Phone!Hears = page.seen
           /\ "products" \in hs /\ "products" \notin rough' => \A j \in jobs : ~ PhLoading(j)
           /\ "models" \in hs /\ "models" \notin rough' => \A j \in jobs : ~ PhFitted(j)
  BY DEF Phone!Hurries, Phone!Pending, PhLoading, PhFitted

\* A handler begins: it holds the busy flag alone, or leaves it.
LEMMA PhMicBegun ==
    ASSUME PhMicWaited, NEW k, jobs' = jobs \cup {k}, rough \subseteq rough',
           table'.recorder = table.recorder, table'.speaking => table.speaking,
           IF PhHolds(k) THEN /\ page'.busy = TRUE
                              /\ "mic" \notin rough' =>
                                    /\ ~ page.busy
                                    /\ k.at \in {"permit", "stop"} \/ ~ table.recorder
                                    /\ k.op = "start" => ~ table'.speaking
                       ELSE page'.busy = page.busy
    PROVE  PhMicWaited'
<1> SUFFICES ASSUME "mic" \notin rough' PROVE PhMicWaited'
  BY DEF PhMicWaited
<1>1. /\ \A i, j \in jobs : PhHolds(i) /\ PhHolds(j) => i = j
      /\ page.busy <=> \E j \in jobs : PhHolds(j)
      /\ \A j \in jobs : PhHolds(j) /\ j.at \notin {"permit", "stop"} => ~ table.recorder
      /\ ~ (Phone!Hears /\ table.speaking)
  BY DEF PhMicWaited
<1>2. CASE PhHolds(k)
  BY <1>1, <1>2 DEF PhMicWaited, Phone!Hears
<1>3. CASE ~ PhHolds(k)
  BY <1>1, <1>3 DEF PhMicWaited, Phone!Hears, PhHolds
<1> QED
  BY <1>2, <1>3

\* A handler begins: its load is the only one, or it loads nothing.
LEMMA PhProductsBegun ==
    ASSUME PhProductsWaited, NEW k, jobs' = jobs \cup {k}, rough \subseteq rough',
           page'.tree = page.tree, page'.product = page.product, page'.products = page.products,
           page.loading => page'.loading,
           PhLoading(k) /\ "products" \notin rough' =>
               /\ \A j \in jobs : ~ PhLoading(j)
               /\ k.op = "load" => page'.loading
               /\ k.op # "load" \/ k.at \in {"summary", "tree"} => page.products # {}
               /\ k.at # "tree" => page.tree = k.was.tree
               /\ k.at = "tree" => page.product = k.p
               /\ k.op = "panel" => Phone!Node(k.was) = k.was.product
    PROVE  PhProductsWaited'
<1> SUFFICES ASSUME "products" \notin rough' PROVE PhProductsWaited'
  BY DEF PhProductsWaited
<1>1. CASE PhLoading(k)
  BY <1>1 DEF PhProductsWaited, Phone!Node
<1>2. CASE ~ PhLoading(k)
  BY <1>2 DEF PhProductsWaited, Phone!Node, PhLoading
<1> QED
  BY <1>1, <1>2

\* A handler begins with the address of the page.
LEMMA PhAddressBegun ==
    ASSUME PhAddressWaited, NEW k, jobs' = jobs \cup {k}, rough \subseteq rough',
           page'.address = page.address,
           page'.status = "connected" => page.status = "connected", table'.net = table.net,
           k.was.address = page.address
    PROVE  PhAddressWaited'
  BY PhAddressFrame

\* A handler begins: it is the only one at the models, or none.
LEMMA PhModelsBegun ==
    ASSUME PhModelsWaited, NEW k, jobs' = jobs \cup {k}, rough \subseteq rough',
           page'.installed = page.installed, table'.files = table.files, k.at # "unlist",
           PhFitted(k) /\ "models" \notin rough' =>
               k.was.installed = page.installed /\ \A j \in jobs : ~ PhFitted(j),
           \A j \in jobs : j.at = "unlist" => PhFitted(j)
    PROVE  PhModelsWaited'
<1> SUFFICES ASSUME "models" \notin rough' PROVE PhModelsWaited'
  BY DEF PhModelsWaited
<1>1. CASE PhFitted(k)
  BY <1>1 DEF PhModelsWaited
<1>2. CASE ~ PhFitted(k)
  BY <1>2 DEF PhModelsWaited
<1> QED
  BY <1>1, <1>2

\* Only a removal takes a model from the list.
LEMMA PhUnlistFitted == ASSUME jobs \subseteq PhJobRec PROVE \A j \in jobs : j.at = "unlist"
=> PhFitted(j)
<1>1. \A j \in PhJobRec : j.at = "unlist" => PhFitted(j)
  BY PhStepsKnown DEF PhJobRec, PhHandlers, PhFitted
<1> QED
  BY <1>1

\* A handler begins: the parts of the invariant that are its own are given.
LEMMA PhBegun ==
    ASSUME PhIInv, NEW j \in PhJobRec, Phone!Begin(j), j.was = Phone!Caught, rough \subseteq rough',
           page' \in PhPageRec, table' \in PhTableRec,
           page'.tree = page.tree, page'.product = page.product, page'.products = page.products,
           page.loading => page'.loading, page'.address = page.address,
           page'.status = "connected" => page.status = "connected", page'.installed = page.installed,
           table'.recorder = table.recorder, table'.speaking => table.speaking,
           table'.files = table.files, table'.net = table.net, j.at # "unlist",
           IF PhHolds(j) THEN /\ page'.busy = TRUE
                              /\ "mic" \notin rough' =>
                                    /\ ~ page.busy
                                    /\ j.at \in {"permit", "stop"} \/ ~ table.recorder
                                    /\ j.op = "start" => ~ table'.speaking
                       ELSE page'.busy = page.busy,
           PhLoading(j) /\ "products" \notin rough' =>
               /\ \A i \in jobs : ~ PhLoading(i)
               /\ j.op = "load" => page'.loading
               /\ j.op # "load" \/ j.at \in {"summary", "tree"} => page.products # {}
               /\ j.at = "tree" => page.product = j.p
               /\ j.op = "panel" => Phone!Node(page) = page.product,
           PhFitted(j) /\ "models" \notin rough' => \A i \in jobs : ~ PhFitted(i)
    PROVE  PhIInv'
<1>1. PICK k \in PhJobRec :
         /\ k.op = j.op /\ k.at = j.at /\ k.p = j.p /\ k.m = j.m /\ k.was = Phone!Caught
         /\ jobs' = jobs \cup {k} /\ \A i \in jobs : i.n # k.n
  BY PhBeginFacts DEF PhIInv
<1>2. /\ k.was.tree = page.tree /\ k.was.product = page.product /\ k.was.address = page.address
      /\ k.was.installed = page.installed /\ k.was.node = page.node
  BY <1>1, PhClosureTyped DEF PhIInv, PhTyped
<1>3. PhTyped'
  BY <1>1, PhJobsTyped DEF PhIInv, PhTyped
<1>4. PhMicWaited'
  BY <1>1, PhMicBegun DEF PhIInv, PhHolds
<1>5. Phone!Node(k.was) = Phone!Node(page)
  BY <1>2 DEF Phone!Node
<1>6. PhProductsWaited'
  BY <1>1, <1>2, <1>5, PhProductsBegun DEF PhIInv, PhLoading
<1>7. PhAddressWaited'
  BY <1>1, <1>2, PhAddressBegun DEF PhIInv
<1>8. PhModelsWaited'
  BY <1>1, <1>2, PhModelsBegun, PhUnlistFitted DEF PhIInv, PhTyped, PhFitted
<1> QED
  BY <1>3, <1>4, <1>6, <1>7, <1>8 DEF PhIInv

\* A load begins.
LEMMA PhLoadBegun ==
    ASSUME PhIInv, NEW p \in Products \cup {Nothing},
           NEW pg \in PhPageRec, Phone!Load(p, pg), rough \subseteq rough',
           pg.tree = page.tree, pg.product = page.product, pg.products = page.products,
           pg.busy = page.busy, pg.address = page.address, pg.installed = page.installed,
           pg.status = "connected" => page.status = "connected",
           "products" \notin rough' => \A j \in jobs : ~ PhLoading(j)
    PROVE  PhIInv'
<1> DEFINE j == [Phone!Job("load", "list") EXCEPT !.p = p]
<1>1. j \in PhJobRec /\ j.op = "load" /\ j.at = "list" /\ j.p = p /\ j.was = Phone!Caught
  BY PhJobWithProduct, PhStepsKnown DEF PhIInv, PhTyped, PhHandlers
<1>2. /\ Phone!Begin(j) /\ table' = table /\ page' = [pg EXCEPT !.loading = TRUE, !.failed = FALSE]
  BY DEF Phone!Load
<1> HIDE DEF j
<1>3. /\ page' \in PhPageRec /\ page'.tree = page.tree /\ page'.product = page.product
      /\ page'.products = page.products /\ page'.loading = TRUE /\ page'.busy = page.busy
      /\ page'.address = page.address /\ page'.installed = page.installed
      /\ page'.status = pg.status
  BY <1>2 DEF PhPageRec
<1>4. table \in PhTableRec
  BY DEF PhIInv, PhTyped
<1> QED
  BY <1>1, <1>2, <1>3, <1>4, PhBegun DEF PhHolds, PhFitted

\* The first load of the page.
LEMMA PhLoadAtFirstKeeps == ASSUME PhIInv, Phone!LoadAtFirst PROVE PhIInv'
<1>1. page \in PhPageRec /\ page.product \in Products \cup {Nothing}
  BY DEF PhIInv, PhTyped, PhPageRec
<1>2. page.products = {} /\ ~ page.loading /\ Phone!Load(page.product, page) /\ rough' = rough
  BY DEF Phone!LoadAtFirst
<1>3. "products" \notin rough' => \A j \in jobs : ~ PhLoading(j)
  BY <1>2 DEF PhIInv, PhProductsWaited
<1> QED
  BY <1>1, <1>2, <1>3, PhLoadBegun

\* Another product is picked: it is loaded.
LEMMA PhPickProductKeeps == ASSUME PhIInv, NEW p \in Products, Phone!PickProduct(p) PROVE PhIInv'
<1>1. page \in PhPageRec /\ Phone!Load(p, page) /\ Phone!Hurries({"products"})
  BY DEF PhIInv, PhTyped, Phone!PickProduct
<1> QED
  BY <1>1, PhHurriesFacts, PhLoadBegun

\* A load is tried again.
LEMMA PhRetryKeeps == ASSUME PhIInv, Phone!Retry PROVE PhIInv'
<1>1. /\ page \in PhPageRec /\ page.product \in Products \cup {Nothing}
      /\ Phone!Load(page.product, page)
      /\ Phone!Hurries({"products"})
  BY DEF PhIInv, PhTyped, Phone!Retry, PhPageRec
<1> QED
  BY <1>1, PhHurriesFacts, PhLoadBegun

\* The products are loaded again.
LEMMA PhRefreshKeeps == ASSUME PhIInv, Phone!Refresh PROVE PhIInv'
<1> DEFINE pg == Phone!Checked(page, page.address)
<1>1. /\ pg \in PhPageRec /\ pg.tree = page.tree /\ pg.product = page.product
      /\ pg.products = page.products /\ pg.loading = page.loading /\ pg.busy = page.busy
      /\ pg.address = page.address /\ pg.installed = page.installed /\ pg.status = "checking"
      /\ page.product \in Products \cup {Nothing} /\ table \in PhTableRec
  BY DEF PhIInv, PhTyped, Phone!Checked, PhPageRec
<1>2. /\ IF page.tab = "products" THEN Phone!Load(page.product, pg) ELSE page' = pg
         /\ UNCHANGED <<table, jobs>>
      /\ Phone!Hurries({"products", "address"})
  BY DEF Phone!Refresh
<1> HIDE DEF pg
<1>3. CASE page.tab = "products"
  BY <1>1, <1>2, <1>3, PhHurriesFacts, PhLoadBegun
<1>4. CASE page.tab # "products"
  <2>1. page' = pg /\ table' = table /\ jobs' = jobs /\ rough \subseteq rough'
    BY <1>2, <1>4, PhHurriesFacts
  <2>2. PhTyped'
    BY <1>1, <2>1 DEF PhIInv, PhTyped
  <2> QED
    BY <1>1, <2>1, <2>2, PhMicFrame, PhProductsFrame, PhAddressFrame, PhModelsFrame DEF PhIInv,
       PhTyped
<1> QED
  BY <1>3, <1>4

\* The tree is loaded where it is missing.
LEMMA PhEnsureKeeps ==
    ASSUME PhIInv, NEW pg \in PhPageRec, Phone!Ensure(pg), table' = table, Phone!Hurries({"products"}),
           pg.tree = page.tree, pg.product = page.product, pg.products = page.products,
           pg.loading = page.loading, pg.busy = page.busy, pg.address = page.address,
           pg.installed = page.installed, pg.status = page.status
    PROVE  PhIInv'
<1>0. table \in PhTableRec /\ page \in PhPageRec /\ rough \subseteq rough'
  BY PhHurriesFacts DEF PhIInv, PhTyped
<1>1. CASE pg.product = Nothing \/ pg.tree = pg.product
  <2>1. page' = pg /\ jobs' = jobs
    BY <1>1 DEF Phone!Ensure
  <2>2. PhTyped'
    BY <1>0, <2>1 DEF PhIInv, PhTyped
  <2> QED
    BY <1>0, <2>1, <2>2, PhMicFrame, PhProductsFrame, PhAddressFrame, PhModelsFrame DEF PhIInv,
       PhTyped
<1>2. CASE ~ (pg.product = Nothing \/ pg.tree = pg.product)
  <2> DEFINE j == [Phone!Job("map", "tree") EXCEPT !.p = pg.product]
  <2>1. Phone!Begin(j) /\ page' = [pg EXCEPT !.mapping = TRUE, !.failed = FALSE]
    BY <1>2 DEF Phone!Ensure
  <2>2. pg.product \in Products
    BY <1>2 DEF PhPageRec
  <2>3. j \in PhJobRec /\ j.op = "map" /\ j.at = "tree" /\ j.p = pg.product /\ j.was = Phone!Caught
    BY <1>0, <2>2, PhJobWithProduct, PhStepsKnown DEF PhHandlers
  <2> HIDE DEF j
  <2>4. /\ page' \in PhPageRec /\ page'.tree = page.tree /\ page'.product = page.product
        /\ page'.products = page.products /\ page'.loading = page.loading /\ page'.busy = page.busy
        /\ page'.address = page.address /\ page'.installed = page.installed
        /\ page'.status = page.status
    BY <2>1 DEF PhPageRec
  <2>5. "products" \notin rough' => (\A i \in jobs : ~ PhLoading(i)) /\ page.products # {}
    BY <1>0, <1>2, PhHurriesFacts DEF PhIInv, PhProductsWaited
  <2> QED
    BY <1>0, <2>1, <2>3, <2>4, <2>5, PhBegun DEF PhHolds, PhFitted
<1> QED
  BY <1>1, <1>2

\* Another view of the product.
LEMMA PhSwitchViewKeeps == ASSUME PhIInv, NEW v \in Phone!Views, Phone!SwitchView(v) PROVE PhIInv'
<1> DEFINE pg == [page EXCEPT !.view = v]
<1>1. /\ pg \in PhPageRec /\ pg.tree = page.tree /\ pg.product = page.product
      /\ pg.products = page.products /\ pg.loading = page.loading /\ pg.busy = page.busy
      /\ pg.address = page.address /\ pg.installed = page.installed /\ pg.status = page.status
      /\ table \in PhTableRec
  BY DEF PhIInv, PhTyped, PhPageRec
<1>2. /\ IF v = "map" THEN Phone!Ensure(pg) ELSE page' = pg /\ UNCHANGED jobs
      /\ table' = table /\ Phone!Hurries({"products"})
  BY DEF Phone!SwitchView
<1> HIDE DEF pg
<1>3. CASE v = "map"
  BY <1>1, <1>2, <1>3, PhEnsureKeeps
<1>4. CASE v # "map"
  <2>1. page' = pg /\ table' = table /\ jobs' = jobs /\ rough \subseteq rough'
    BY <1>2, <1>4, PhHurriesFacts
  <2>2. PhTyped'
    BY <1>1, <2>1 DEF PhIInv, PhTyped
  <2> QED
    BY <1>1, <2>1, <2>2, PhMicFrame, PhProductsFrame, PhAddressFrame, PhModelsFrame DEF PhIInv,
       PhTyped
<1> QED
  BY <1>3, <1>4

\* The tree is asked for.
LEMMA PhLoadMapKeeps == ASSUME PhIInv, Phone!LoadMap PROVE PhIInv'
  BY PhEnsureKeeps DEF Phone!LoadMap, PhIInv, PhTyped

\* The recorder is asked for; a reply that is read out is stopped.
LEMMA PhStartRecordingKeeps ==
    ASSUME PhIInv, NEW op \in {"voice", "panel"}, Phone!StartRecording(op), Phone!Hurries({"mic"})
    PROVE  PhIInv'
<1>a. rough \subseteq rough' /\ table \in PhTableRec /\ page \in PhPageRec /\ ("mic" \notin rough'
      => ~ page.busy)
  BY PhHurriesFacts DEF PhIInv, PhTyped
<1>1. CASE Phone!ActiveModel(page) = Nothing
  <2>1. /\ page' \in PhPageRec /\ page'.tree = page.tree /\ page'.product = page.product
        /\ page'.products = page.products /\ page'.loading = page.loading /\ page'.busy = page.busy
        /\ page'.address = page.address /\ page'.installed = page.installed
        /\ page'.status = page.status /\ table' = table /\ jobs' = jobs
    BY <1>1, <1>a DEF Phone!StartRecording, PhPageRec, Phone!Tabs
  <2>2. PhTyped'
    BY <1>a, <2>1 DEF PhIInv, PhTyped
  <2> QED
    BY <1>a, <2>1, <2>2, PhMicFrame, PhProductsFrame, PhAddressFrame, PhModelsFrame DEF PhIInv,
       PhTyped
<1>2. CASE Phone!ActiveModel(page) # Nothing
  <2> DEFINE j == [Phone!Job("start", "permit") EXCEPT !.p = op]
             b == page.panel \/ op = "panel"
  <2>1. /\ Phone!Begin(j) /\ page' = [page EXCEPT !.busy = TRUE, !.panel = b]
        /\ table' = [table EXCEPT !.speaking = FALSE]
    BY <1>2, <1>a DEF Phone!StartRecording, PhPageRec
  <2>2. j \in PhJobRec /\ j.op = "start" /\ j.at = "permit" /\ j.was = Phone!Caught
    BY <1>a, PhJobWithProduct, PhStepsKnown DEF PhHandlers
  <2>3. b \in BOOLEAN
    BY <1>a DEF PhPageRec
  <2> HIDE DEF j, b
  <2>4. /\ page' \in PhPageRec /\ page'.tree = page.tree /\ page'.product = page.product
        /\ page'.products = page.products /\ page'.loading = page.loading /\ page'.busy = TRUE
        /\ page'.address = page.address /\ page'.installed = page.installed
        /\ page'.status = page.status
    BY <1>a, <2>1, <2>3 DEF PhPageRec
  <2>5. /\ table' \in PhTableRec /\ table'.recorder = table.recorder /\ table'.speaking = FALSE
        /\ table'.files = table.files /\ table'.net = table.net
    BY <1>a, <2>1 DEF PhTableRec
  <2> QED
    BY <1>a, <2>1, <2>2, <2>4, <2>5, PhBegun DEF PhHolds, PhLoading, PhFitted
<1> QED
  BY <1>1, <1>2

\* A stop of either screen begins.
LEMMA PhStopRecordingKeeps ==
    ASSUME PhIInv, NEW op \in {"voice", "draft"}, Phone!StopRecording(op), Phone!Hurries({"mic"})
    PROVE  PhIInv'
<1>1. rough \subseteq rough' /\ table \in PhTableRec /\ page \in PhPageRec /\ ("mic" \notin rough'
      => ~ page.busy)
  BY PhHurriesFacts DEF PhIInv, PhTyped
<1>2. Phone!Begin(Phone!Job(op, "stop")) /\ table' = table /\ page' = [page EXCEPT !.busy = TRUE]
  BY DEF Phone!StopRecording
<1>3. "stop" \in PhSteps(op)
  BY PhStepsKnown
<1>4. /\ Phone!Job(op, "stop") \in PhJobRec /\ Phone!Job(op, "stop").op = op
      /\ Phone!Job(op, "stop").at = "stop"
      /\ Phone!Job(op, "stop").was = Phone!Caught
  BY <1>1, <1>3, PhJobPlain
<1>5. /\ page' \in PhPageRec /\ page'.tree = page.tree /\ page'.product = page.product
      /\ page'.products = page.products /\ page'.loading = page.loading /\ page'.busy = TRUE
      /\ page'.address = page.address /\ page'.installed = page.installed
      /\ page'.status = page.status
  BY <1>1, <1>2 DEF PhPageRec
<1> QED
  BY <1>1, <1>2, <1>4, <1>5, PhBegun DEF PhHolds, PhLoading, PhFitted

\* The voice page's microphone is pressed.
LEMMA PhMicKeeps == ASSUME PhIInv, Phone!Mic PROVE PhIInv'
  BY PhStartRecordingKeeps, PhStopRecordingKeeps DEF Phone!Mic

\* The planner panel's microphone is pressed.
LEMMA PhPanelMicKeeps == ASSUME PhIInv, Phone!PanelMic PROVE PhIInv'
  BY PhStartRecordingKeeps, PhStopRecordingKeeps DEF Phone!PanelMic

\* A prompt is sent from the voice page.
LEMMA PhSendKeeps == ASSUME PhIInv, Phone!Send PROVE PhIInv'
<1>1. /\ rough \subseteq rough' /\ table \in PhTableRec /\ page \in PhPageRec /\ ~ page.seen
      /\ "mic" \notin rough' => ~ page.busy /\ Phone!Hears = page.seen
  BY PhHurriesFacts DEF PhIInv, PhTyped, Phone!Send, Phone!SendOffered
<1>2. Phone!Begin(Phone!Job("voice", Phone!Asks(page))) /\ table' = table
      /\ page' = [page EXCEPT !.busy = TRUE]
  BY DEF Phone!Send
<1>3. Phone!Asks(page) \in {"session", "chat", "turn"} /\ Phone!Asks(page) \in PhSteps("voice")
  BY PhStepsKnown DEF Phone!Asks, Phone!Plans
<1> DEFINE j == Phone!Job("voice", Phone!Asks(page))
<1>4. j \in PhJobRec /\ j.op = "voice" /\ j.at = Phone!Asks(page) /\ j.was = Phone!Caught
  BY <1>1, <1>3, PhJobPlain
<1>5. /\ page' \in PhPageRec /\ page'.tree = page.tree /\ page'.product = page.product
      /\ page'.products = page.products /\ page'.loading = page.loading /\ page'.busy = TRUE
      /\ page'.address = page.address /\ page'.installed = page.installed
      /\ page'.status = page.status
  BY <1>1, <1>2 DEF PhPageRec
<1>6. "mic" \notin rough' => ~ page.busy /\ ~ table.recorder
  <2>1. page.seen = FALSE
    BY <1>1 DEF PhPageRec
  <2> QED
    BY <1>1, <2>1 DEF Phone!Hears
<1> HIDE DEF j
<1>7. Phone!Begin(j)
  BY <1>2 DEF j
<1> QED
  BY <1>1, <1>2, <1>3, <1>4, <1>5, <1>6, <1>7, PhBegun DEF PhHolds, PhLoading, PhFitted

\* A prompt is sent from the planner panel.
LEMMA PhPanelSendKeeps == ASSUME PhIInv, Phone!PanelSend PROVE PhIInv'
<1>1. /\ rough \subseteq rough' /\ table \in PhTableRec /\ page \in PhPageRec /\ ~ page.seen
      /\ "mic" \notin rough' => ~ page.busy /\ Phone!Hears = page.seen
      /\ "products" \notin rough' => \A j \in jobs : ~ PhLoading(j)
      /\ Phone!Node(page) # Nothing
  BY PhHurriesFacts DEF PhIInv, PhTyped, Phone!PanelSend, Phone!PanelSendOffered, Phone!Taping,
     Phone!PanelShown
<1> DEFINE j == [Phone!Job("panel", Phone!Plans(page)) EXCEPT !.p = page.product]
<1>2. Phone!Begin(j) /\ table' = table /\ page' = [page EXCEPT !.busy = TRUE, !.mode = "planner"]
  BY DEF Phone!PanelSend
<1>3. Phone!Plans(page) \in {"session", "turn"} /\ Phone!Plans(page) \in PhSteps("panel")
  BY PhStepsKnown DEF Phone!Plans
<1>4. j \in PhJobRec /\ j.op = "panel" /\ j.at = Phone!Plans(page) /\ j.was = Phone!Caught
  <2>1. page.product \in Products \cup {Nothing}
    BY <1>1 DEF PhPageRec
  <2> QED
    BY <1>1, <1>3, <2>1, PhJobWithProduct DEF PhHandlers
<1> HIDE DEF j
<1>5. /\ page' \in PhPageRec /\ page'.tree = page.tree /\ page'.product = page.product
      /\ page'.products = page.products /\ page'.loading = page.loading /\ page'.busy = TRUE
      /\ page'.address = page.address /\ page'.installed = page.installed
      /\ page'.status = page.status
  BY <1>1, <1>2 DEF PhPageRec
<1>6. "mic" \notin rough' => ~ page.busy /\ ~ table.recorder
  <2>1. page.seen = FALSE
    BY <1>1 DEF PhPageRec
  <2> QED
    BY <1>1, <2>1 DEF Phone!Hears
<1>7. "products" \notin rough' => page.products # {} /\ Phone!Node(page) = page.product
  BY <1>1 DEF PhIInv, PhProductsWaited, Phone!Node
<1> QED
  BY <1>1, <1>2, <1>3, <1>4, <1>5, <1>6, <1>7, PhBegun DEF PhHolds, PhLoading, PhFitted

\* A model is downloaded.
LEMMA PhInstallModelKeeps == ASSUME PhIInv, NEW m \in Models, Phone!InstallModel(m) PROVE PhIInv'
<1>1. /\ rough \subseteq rough' /\ table \in PhTableRec /\ page \in PhPageRec
      /\ "models" \notin rough' => \A j \in jobs : ~ PhFitted(j)
  BY PhHurriesFacts DEF PhIInv, PhTyped, Phone!InstallModel
<1> DEFINE j == [Phone!Job("install", "download") EXCEPT !.m = m]
<1>2. Phone!Begin(j) /\ table' = table /\ page' = [page EXCEPT !.installing = m]
  BY DEF Phone!InstallModel
<1>3. j \in PhJobRec /\ j.op = "install" /\ j.at = "download" /\ j.was = Phone!Caught
  BY <1>1, PhJobWithModel, PhStepsKnown
<1> HIDE DEF j
<1>4. /\ page' \in PhPageRec /\ page'.tree = page.tree /\ page'.product = page.product
      /\ page'.products = page.products /\ page'.loading = page.loading /\ page'.busy = page.busy
      /\ page'.address = page.address /\ page'.installed = page.installed
      /\ page'.status = page.status
  BY <1>1, <1>2 DEF PhPageRec
<1> QED
  BY <1>1, <1>2, <1>3, <1>4, PhBegun DEF PhHolds, PhLoading

\* A model is removed.
LEMMA PhRemoveModelKeeps == ASSUME PhIInv, NEW m \in Models, Phone!RemoveModel(m) PROVE PhIInv'
<1>1. /\ rough \subseteq rough' /\ table \in PhTableRec /\ page \in PhPageRec
      /\ "models" \notin rough' => \A j \in jobs : ~ PhFitted(j)
  BY PhHurriesFacts DEF PhIInv, PhTyped, Phone!RemoveModel
<1> DEFINE j == [Phone!Job("remove", "delete") EXCEPT !.m = m]
<1>2. Phone!Begin(j) /\ table' = table /\ page' = page
  BY DEF Phone!RemoveModel
<1>3. j \in PhJobRec /\ j.op = "remove" /\ j.at = "delete" /\ j.was = Phone!Caught
  BY <1>1, PhJobWithModel, PhStepsKnown
<1> HIDE DEF j
<1> QED
  BY <1>1, <1>2, <1>3, PhBegun DEF PhHolds, PhLoading

------------------------------------------------------------------------------
(* Handlers that end or go on *)

\* What a handler may be that is at a step.
LEMMA PhOpOf ==
    ASSUME NEW j \in PhJobRec
    PROVE  /\ j.op \in PhHandlers /\ j.at \in PhSteps(j.op)
           /\ j.at = "permit" => j.op = "start"
           /\ j.at \in {"stop", "stt"} => j.op \in {"voice", "draft"}
           /\ j.at \in {"session", "turn"} => j.op \in {"voice", "panel"}
           /\ j.at = "chat" => j.op = "voice"
           /\ j.at \in {"list", "summary"} => j.op \in {"load", "panel"}
           /\ j.at = "tree" => j.op \in {"load", "map", "panel"}
           /\ j.at = "download" => j.op = "install"
           /\ j.at \in {"delete", "unlist"} => j.op = "remove"
  BY PhStepsKnown DEF PhJobRec, PhHandlers

\* The handler that holds the busy flag ends.
LEMMA PhMicEnded ==
    ASSUME PhMicWaited, NEW j \in jobs,
           PhHolds(j), jobs' = jobs \ {j}, rough' = rough, page'.busy = FALSE,
           "mic" \notin rough => ~ (table'.recorder /\ table'.speaking)
    PROVE  PhMicWaited'
<1> SUFFICES ASSUME "mic" \notin rough' PROVE PhMicWaited'
  BY DEF PhMicWaited
<1>1. \A i \in jobs : PhHolds(i) => i = j
  BY DEF PhMicWaited
<1>2. \A i \in jobs' : ~ PhHolds(i)
  BY <1>1
<1> QED
  BY <1>2 DEF PhMicWaited, Phone!Hears, PhHolds

\* The handler that holds the busy flag goes on.
LEMMA PhMicWent ==
    ASSUME PhMicWaited, NEW j \in jobs, PhHolds(j), NEW k, k.op = j.op, k.op # "start",
           jobs' = (jobs \ {j}) \cup {k}, rough' = rough,
           "mic" \notin rough =>
               /\ page'.busy = TRUE
               /\ k.at \in {"permit", "stop"} \/ ~ table'.recorder
               /\ ~ (table'.recorder /\ table'.speaking)
    PROVE  PhMicWaited'
<1> SUFFICES ASSUME "mic" \notin rough' PROVE PhMicWaited'
  BY DEF PhMicWaited
<1>1. \A i \in jobs : PhHolds(i) => i = j
  BY DEF PhMicWaited
<1>2. PhHolds(k) /\ \A i \in jobs' : PhHolds(i) => i = k
  BY <1>1 DEF PhHolds
<1> QED
  BY <1>2 DEF PhMicWaited, Phone!Hears, PhHolds

\* The load ends.
LEMMA PhProductsEnded ==
    ASSUME PhProductsWaited, NEW j \in jobs, PhLoading(j), jobs' = jobs \ {j}, rough' = rough,
           "products" \notin rough =>
               /\ page'.tree \in {Nothing, page'.product}
               /\ page'.products = {} => page'.product = Nothing
    PROVE  PhProductsWaited'
<1> SUFFICES ASSUME "products" \notin rough' PROVE PhProductsWaited'
  BY DEF PhProductsWaited
<1>1. \A i \in jobs : PhLoading(i) => i = j
  BY DEF PhProductsWaited
<1>2. \A i \in jobs' : ~ PhLoading(i)
  BY <1>1
<1> QED
  BY <1>2 DEF PhProductsWaited

\* The load goes on.
LEMMA PhProductsWent ==
    ASSUME PhProductsWaited, NEW j \in jobs, PhLoading(j), NEW k, k.op = j.op, k.was = j.was,
           jobs' = (jobs \ {j}) \cup {k}, rough' = rough,
           "products" \notin rough =>
               /\ page'.tree \in {Nothing, page'.product}
               /\ page'.products = {} => page'.product = Nothing
               /\ k.op = "load" => page'.loading
               /\ k.op # "load" \/ k.at \in {"summary", "tree"} => page'.products # {}
               /\ k.at # "tree" => page'.tree = k.was.tree
               /\ k.at = "tree" => page'.product = k.p
    PROVE  PhProductsWaited'
<1> SUFFICES ASSUME "products" \notin rough' PROVE PhProductsWaited'
  BY DEF PhProductsWaited
<1>1. \A i \in jobs : PhLoading(i) => i = j
  BY DEF PhProductsWaited
<1>2. \A i \in jobs' : PhLoading(i) => i = k
  BY <1>1
<1>3. k.op = "panel" => Phone!Node(k.was) = k.was.product
  BY DEF PhProductsWaited
<1>4. Phone!Node(k.was)' = Phone!Node(k.was)
  BY DEF Phone!Node
<1> QED
  BY <1>2, <1>3, <1>4 DEF PhProductsWaited

\* An answer comes from the address of a prompt.
LEMMA PhAddressConnected ==
    ASSUME PhAddressWaited, NEW j \in jobs, j.op \in {"voice", "panel"}, Phone!Reached(j.was.address),
           rough' = rough,
           page'.address = IF Phone!FallsBack(j.was.address) THEN "loop" ELSE page.address,
           table'.net = table.net,
           \A k \in jobs' : k.op \in {"voice", "panel"} =>
               \E i \in jobs : i.op \in {"voice", "panel"} /\ i.was = k.was
    PROVE  PhAddressWaited'
<1> SUFFICES ASSUME "address" \notin rough' PROVE PhAddressWaited'
  BY DEF PhAddressWaited
<1>1. CASE Phone!FallsBack(j.was.address)
  BY <1>1 DEF PhAddressWaited, Phone!FallsBack
<1>2. CASE ~ Phone!FallsBack(j.was.address)
  <2>1. j.was.address \in table.net /\ page'.address = page.address
    BY <1>2 DEF Phone!Reached
  <2>2. page.address \in table.net
    BY <2>1 DEF PhAddressWaited
  <2> QED
    BY <2>1, <2>2 DEF PhAddressWaited
<1> QED
  BY <1>1, <1>2

\* The installation or removal ends.
LEMMA PhModelsEnded ==
    ASSUME PhModelsWaited, NEW j \in jobs, PhFitted(j), jobs' = jobs \ {j}, rough' = rough,
           \A i \in jobs : i.at = "unlist" => PhFitted(i),
           "models" \notin rough => page'.installed \subseteq table'.files
    PROVE  PhModelsWaited'
<1> SUFFICES ASSUME "models" \notin rough' PROVE PhModelsWaited'
  BY DEF PhModelsWaited
<1>1. \A i \in jobs : PhFitted(i) => i = j
  BY DEF PhModelsWaited
<1>2. \A i \in jobs' : ~ PhFitted(i)
  BY <1>1
<1> QED
  BY <1>2 DEF PhModelsWaited

\* A handler that ends, the types of what is left.
LEMMA PhEnded ==
    ASSUME PhTyped, NEW j \in jobs, Phone!Gone(j), page' \in PhPageRec, table' \in PhTableRec
    PROVE  jobs' = jobs \ {j} /\ PhTyped'
  BY PhJobsTyped DEF Phone!Gone, PhTyped

\* A handler goes on; the types stay.
LEMMA PhWent ==
    ASSUME PhTyped, NEW j \in jobs,
           NEW at \in PhSteps(j.op), Phone!Goes(j, at), page' \in PhPageRec, table' \in PhTableRec,
           at \in {"summary", "tree"} => j.p \in Products
    PROVE  /\ PhTyped'
           /\ \E k \in PhJobRec :
                 /\ k.op = j.op /\ k.at = at /\ k.p = j.p /\ k.m = j.m /\ k.was = j.was
                 /\ jobs' = (jobs \ {j}) \cup {k}
<1>1. PICK k \in PhJobRec :
         /\ k.n = j.n /\ k.op = j.op /\ k.at = at /\ k.p = j.p /\ k.m = j.m /\ k.was = j.was
         /\ jobs' = (jobs \ {j}) \cup {k}
  BY PhGoesFacts
<1>2. PhTyped'
  BY <1>1, PhJobsTyped DEF PhTyped
<1> QED
  BY <1>1, <1>2

------------------------------------------------------------------------------
(* Loads *)

\* A handler's load is over, and with it the handler.
LEMMA PhLoadOverKeeps ==
    ASSUME PhIInv, NEW j \in jobs, PhLoading(j), j.at \notin {"permit", "stop"}, NEW pg \in PhPageRec,
           Phone!LoadOver(j, pg), table' = table, rough' = rough,
           pg.busy = page.busy, pg.address = page.address, pg.installed = page.installed,
           pg.status = page.status,
           "products" \notin rough =>
               /\ pg.tree \in {Nothing, pg.product}
               /\ pg.products = {} => pg.product = Nothing
    PROVE  PhIInv'
<1>1. /\ PhTyped /\ j \in PhJobRec /\ j.was.node \in Products \cup {Nothing} /\ table \in PhTableRec
      /\ j.op \in {"load", "map", "panel"} /\ jobs \subseteq PhJobRec
  BY DEF PhIInv, PhTyped, PhJobRec, PhKeptRec, PhLoading
<1>2. /\ page' \in PhPageRec /\ page'.tree = pg.tree /\ page'.product = pg.product
      /\ page'.products = pg.products /\ page'.address = page.address
      /\ page'.installed = page.installed /\ page'.status = page.status
      /\ page'.busy = IF j.op = "panel" THEN FALSE ELSE page.busy
  <2>1. CASE j.op = "map"
    BY <2>1 DEF Phone!LoadOver
  <2>2. CASE j.op = "load"
    <3>1. page' = [pg EXCEPT !.loading = FALSE]
      BY <2>2 DEF Phone!LoadOver
    <3> QED
      BY <2>2, <3>1 DEF PhPageRec
  <2>3. CASE j.op = "panel"
    <3>1. page' = [pg EXCEPT !.loading = FALSE, !.node = j.was.node, !.busy = FALSE]
      BY <2>3 DEF Phone!LoadOver
    <3> QED
      BY <1>1, <2>3, <3>1 DEF PhPageRec
  <2> QED
    BY <1>1, <2>1, <2>2, <2>3
<1>3. jobs' = jobs \ {j} /\ PhTyped'
  BY <1>1, <1>2, PhEnded DEF Phone!LoadOver
<1>4. PhMicWaited'
  <2>1. CASE j.op = "panel"
    <3>1. PhHolds(j) /\ ("mic" \notin rough => ~ table.recorder)
      BY <2>1 DEF PhIInv, PhMicWaited, PhHolds
    <3> QED
      BY <1>2, <1>3, <2>1, <3>1, PhMicEnded DEF PhIInv
  <2>2. CASE j.op # "panel"
    BY <1>1, <1>2, <1>3, <2>2, PhMicFrame DEF PhIInv, PhHolds
  <2> QED
    BY <2>1, <2>2
<1>5. PhProductsWaited'
  BY <1>2, <1>3, PhProductsEnded DEF PhIInv
<1>6. PhAddressWaited'
  BY <1>2, <1>3, PhAddressFrame DEF PhIInv
<1>7. PhModelsWaited'
  BY <1>1, <1>2, <1>3, PhModelsFrame DEF PhIInv, PhFitted
<1> QED
  BY <1>3, <1>4, <1>5, <1>6, <1>7 DEF PhIInv

\* The products are listed: the picked one is still there, or the first is.
LEMMA PhListedKeeps == ASSUME PhIInv, NEW j \in jobs, Phone!Listed(j) PROVE PhIInv'
<1>1. /\ PhTyped /\ j \in PhJobRec /\ page \in PhPageRec /\ table \in PhTableRec /\ j.at = "list"
      /\ j.op \in {"load", "panel"} /\ jobs \subseteq PhJobRec /\ table' = table /\ rough' = rough
  BY PhOpOf DEF PhIInv, PhTyped, Phone!Listed
<1>2. table.there \subseteq Products /\ j.was.product \in Products \cup {Nothing}
  BY <1>1 DEF PhTableRec, PhJobRec, PhKeptRec
<1>3. PhLoading(j) /\ j.at \notin {"permit", "stop"}
  BY <1>1 DEF PhLoading
<1> DEFINE pg == [page EXCEPT !.products = table.there]
<1>4. /\ pg \in PhPageRec /\ pg.products = table.there /\ pg.tree = page.tree
      /\ pg.product = page.product
      /\ pg.busy = page.busy /\ pg.address = page.address /\ pg.installed = page.installed
      /\ pg.status = page.status /\ pg.loading = page.loading
  BY <1>1, <1>2 DEF PhPageRec
<1>5. CASE table.there = {}
  <2> DEFINE e == [pg EXCEPT !.product = Nothing, !.tree = Nothing, !.node = Nothing]
  <2>1. Phone!LoadOver(j, e)
    BY <1>5 DEF Phone!Listed
  <2> HIDE DEF pg
  <2>2. /\ e \in PhPageRec /\ e.tree = Nothing /\ e.product = Nothing /\ e.busy = page.busy
        /\ e.address = page.address /\ e.installed = page.installed /\ e.status = page.status
    BY <1>4 DEF PhPageRec
  <2> HIDE DEF e
  <2> QED
    BY <1>1, <1>3, <2>1, <2>2, PhLoadOverKeeps
<1>6. CASE table.there # {}
  <2> DEFINE k == [j EXCEPT !.at = "summary", !.p = Phone!Chosen(j)]
  <2>1. page' = pg /\ jobs' = (jobs \ {j}) \cup {k}
    BY <1>6 DEF Phone!Listed
  <2>2. Phone!Chosen(j) \in Products
    <3>1. First \in table.there \/ (CHOOSE p \in table.there : TRUE) \in table.there
      BY <1>6
    <3> QED
      BY <1>2, <3>1 DEF Phone!Chosen
  <2>3. "summary" \in PhSteps(j.op) /\ "summary" \in UNION {PhSteps(op) : op \in PhHandlers}
    BY <1>1, PhOpOf, PhStepsKnown DEF PhHandlers
  <2>4. /\ k \in PhJobRec /\ k.n = j.n /\ k.op = j.op /\ k.at = "summary" /\ k.was = j.was
    BY <1>1, <2>2, <2>3 DEF PhJobRec
  <2> HIDE DEF k, pg
  <2>5. PhTyped'
    BY <1>1, <1>4, <2>1, <2>4, PhJobsTyped DEF PhTyped
  <2>6. PhMicWaited'
    <3>1. CASE j.op = "panel"
      <4>1. PhHolds(j) /\ ("mic" \notin rough => page.busy /\ ~ table.recorder)
        BY <1>1, <3>1 DEF PhIInv, PhMicWaited, PhHolds
      <4>2. "mic" \notin rough => page'.busy = TRUE
        BY <1>1, <1>4, <2>1, <4>1 DEF PhPageRec
      <4> QED
        BY <1>1, <2>1, <2>4, <3>1, <4>1, <4>2, PhMicWent DEF PhIInv
    <3>2. CASE j.op # "panel"
      BY <1>1, <1>4, <2>1, <2>4, <3>2, PhMicFrame DEF PhIInv, PhHolds
    <3> QED
      BY <3>1, <3>2
  <2>7. PhProductsWaited'
    BY <1>1, <1>3, <1>4, <1>6, <2>1, <2>4, PhProductsWent DEF PhIInv, PhProductsWaited
  <2>8. PhAddressWaited'
    BY <1>1, <1>4, <2>1, <2>4, PhAddressFrame DEF PhIInv
  <2>9. PhModelsWaited'
    BY <1>1, <1>4, <2>1, <2>4, <2>5, PhModelsFrame DEF PhIInv, PhFitted, PhTyped
  <2> QED
    BY <2>5, <2>6, <2>7, <2>8, <2>9 DEF PhIInv
<1> QED
  BY <1>5, <1>6

\* A load that goes on: to its tree, from a page that is given.
LEMMA PhMapKeeps ==
    ASSUME PhIInv, NEW j \in jobs, j.at = "summary", NEW pg \in PhPageRec, Phone!Goes(j, "tree"),
           page' = [pg EXCEPT !.mapping = TRUE, !.failed = FALSE], table' = table, rough' = rough,
           pg.busy = page.busy, pg.address = page.address, pg.installed = page.installed,
           pg.status = page.status, pg.products = page.products, pg.loading = page.loading,
           pg.product = j.p,
           "products" \notin rough => pg.tree \in {Nothing, j.p}
    PROVE  PhIInv'
<1>1. /\ PhTyped /\ j \in PhJobRec /\ page \in PhPageRec /\ table \in PhTableRec
      /\ j.op \in {"load", "panel"}
      /\ jobs \subseteq PhJobRec /\ j.p \in Products /\ "tree" \in PhSteps(j.op)
  <2>1. j \in PhJobRec
    BY DEF PhIInv, PhTyped
  <2> QED
    BY <2>1, PhOpOf, PhStepsKnown DEF PhIInv, PhTyped, PhJobRec
<1>2. /\ page' \in PhPageRec /\ page'.tree = pg.tree /\ page'.product = j.p
      /\ page'.products = page.products /\ page'.loading = page.loading /\ page'.busy = page.busy
      /\ page'.address = page.address /\ page'.installed = page.installed
      /\ page'.status = page.status
  BY DEF PhPageRec
<1>3. PhTyped' /\ \E k \in PhJobRec :
         /\ k.op = j.op /\ k.at = "tree" /\ k.p = j.p /\ k.m = j.m /\ k.was = j.was
         /\ jobs' = (jobs \ {j}) \cup {k}
  BY <1>1, <1>2, PhWent
<1>4. PICK k \in PhJobRec :
         /\ k.op = j.op /\ k.at = "tree" /\ k.p = j.p /\ k.m = j.m /\ k.was = j.was
         /\ jobs' = (jobs \ {j}) \cup {k}
  BY <1>3
<1>5. PhMicWaited'
  <2>1. CASE j.op = "panel"
    <3>1. PhHolds(j) /\ ("mic" \notin rough => page.busy /\ ~ table.recorder)
      BY <2>1 DEF PhIInv, PhMicWaited, PhHolds
    <3>2. "mic" \notin rough => page'.busy = TRUE
      BY <1>1, <1>2, <3>1 DEF PhPageRec
    <3> QED
      BY <1>4, <2>1, <3>1, <3>2, PhMicWent DEF PhIInv
  <2>2. CASE j.op # "panel"
    BY <1>1, <1>2, <1>4, <2>2, PhMicFrame DEF PhIInv, PhHolds
  <2> QED
    BY <2>1, <2>2
<1>6. PhProductsWaited'
  <2>1. PhLoading(j)
    BY <1>1 DEF PhLoading
  <2> QED
    BY <1>2, <1>4, <2>1, PhProductsWent DEF PhIInv, PhProductsWaited
<1>7. PhAddressWaited'
  BY <1>1, <1>2, <1>4, PhAddressFrame DEF PhIInv
<1>8. PhModelsWaited'
  BY <1>1, <1>2, <1>3, <1>4, PhModelsFrame DEF PhIInv, PhFitted, PhTyped
<1> QED
  BY <1>3, <1>5, <1>6, <1>7, <1>8 DEF PhIInv

\* The summary of a product: its tree is next.
LEMMA PhSummarizedKeeps == ASSUME PhIInv, NEW j \in jobs, Phone!Summarized(j) PROVE PhIInv'
<1>1. /\ j \in PhJobRec /\ page \in PhPageRec /\ j.at = "summary" /\ j.op \in {"load", "panel"}
      /\ j.p \in Products /\ table' = table /\ rough' = rough
  BY PhOpOf DEF PhIInv, PhTyped, Phone!Summarized, PhJobRec
<1> DEFINE kept == j.was.tree = j.p /\ j.was.view = "map"
           pg == IF kept THEN [page EXCEPT !.product = j.p]
                 ELSE [page EXCEPT !.product = j.p, !.tree = Nothing, !.node = Nothing]
<1>2. IF j.was.view = "map"
      THEN Phone!Goes(j, "tree") /\ page' = [pg EXCEPT !.mapping = TRUE, !.failed = FALSE]
      ELSE Phone!LoadOver(j, pg)
  BY DEF Phone!Summarized
<1>3. /\ pg \in PhPageRec /\ pg.product = j.p /\ pg.tree = IF kept THEN page.tree ELSE Nothing
      /\ pg.busy = page.busy /\ pg.address = page.address /\ pg.installed = page.installed
      /\ pg.status = page.status /\ pg.products = page.products /\ pg.loading = page.loading
  <2>1. CASE kept
    BY <1>1, <2>1 DEF PhPageRec
  <2>2. CASE ~ kept
    BY <1>1, <2>2 DEF PhPageRec
  <2> QED
    BY <2>1, <2>2
<1>4. PhLoading(j)
  BY <1>1 DEF PhLoading
<1>5. "products" \notin rough => pg.tree \in {Nothing, j.p} /\ page.products # {}
  BY <1>1, <1>3, <1>4 DEF PhIInv, PhProductsWaited
<1> HIDE DEF pg
<1>6. CASE j.was.view = "map"
  BY <1>1, <1>2, <1>3, <1>5, <1>6, PhMapKeeps
<1>7. CASE j.was.view # "map"
  BY <1>1, <1>2, <1>3, <1>4, <1>5, <1>7, PhLoadOverKeeps
<1> QED
  BY <1>6, <1>7

\* The tree of a product.
LEMMA PhTreeLoadedKeeps == ASSUME PhIInv, NEW j \in jobs, Phone!TreeLoaded(j) PROVE PhIInv'
<1>1. /\ j \in PhJobRec /\ page \in PhPageRec /\ j.at = "tree" /\ j.op \in {"load", "map", "panel"}
      /\ j.p \in Products /\ table' = table /\ rough' = rough
  BY PhOpOf DEF PhIInv, PhTyped, Phone!TreeLoaded, PhJobRec
<1> DEFINE d == IF j.was.product = j.p THEN page.node ELSE Nothing
           pg == [page EXCEPT !.tree = j.p, !.product = j.p, !.mapping = FALSE, !.node = d]
<1>2. Phone!LoadOver(j, pg)
  BY <1>1 DEF Phone!TreeLoaded, PhPageRec
<1>3. d \in Products \cup {Nothing}
  BY <1>1 DEF PhPageRec
<1> HIDE DEF d
<1>4. /\ pg \in PhPageRec /\ pg.product = j.p /\ pg.tree = j.p
      /\ pg.busy = page.busy /\ pg.address = page.address /\ pg.installed = page.installed
      /\ pg.status = page.status /\ pg.products = page.products
  BY <1>1, <1>3 DEF PhPageRec
<1>5. PhLoading(j) /\ ("products" \notin rough => page.products # {})
  BY <1>1 DEF PhLoading, PhIInv, PhProductsWaited
<1> HIDE DEF pg
<1> QED
  BY <1>1, <1>2, <1>4, <1>5, PhLoadOverKeeps

\* The desktop does not answer a load.
LEMMA PhLoadFailsKeeps == ASSUME PhIInv, NEW j \in jobs, Phone!LoadFails(j) PROVE PhIInv'
<1>1. /\ j \in PhJobRec /\ page \in PhPageRec /\ j.at \in {"list", "summary", "tree"}
      /\ j.op \in {"load", "map", "panel"} /\ table' = table /\ rough' = rough
  BY PhOpOf DEF PhIInv, PhTyped, Phone!LoadFails
<1> DEFINE b == page.mapping /\ j.at # "tree"
           pg == [page EXCEPT !.failed = TRUE, !.mapping = b]
<1>2. Phone!LoadOver(j, pg) /\ b \in BOOLEAN
  BY <1>1 DEF Phone!LoadFails, PhPageRec
<1> HIDE DEF b
<1>3. /\ pg \in PhPageRec /\ pg.product = page.product /\ pg.tree = page.tree
      /\ pg.busy = page.busy /\ pg.address = page.address /\ pg.installed = page.installed
      /\ pg.status = page.status /\ pg.products = page.products
  BY <1>1, <1>2 DEF PhPageRec
<1>4. PhLoading(j) /\ j.at \notin {"permit", "stop"}
  BY <1>1 DEF PhLoading
<1> HIDE DEF pg
<1> QED
  BY <1>1, <1>2, <1>3, <1>4, PhLoadOverKeeps DEF PhIInv, PhProductsWaited

------------------------------------------------------------------------------
(* The recorder, prompts and replies *)

\* A handler that holds the busy flag ends, and no load with it.
LEMMA PhHolderEnds ==
    ASSUME PhIInv, NEW j \in jobs, j.op \in {"start", "voice", "draft"}, Phone!Gone(j), rough' = rough,
           page' \in PhPageRec, table' \in PhTableRec, page'.busy = FALSE,
           page'.tree = page.tree, page'.product = page.product, page'.products = page.products,
           page'.loading = page.loading, page'.installed = page.installed, table'.files = table.files,
           PhAddressWaited',
           "mic" \notin rough => ~ (table'.recorder /\ table'.speaking)
    PROVE  PhIInv'
<1>1. jobs' = jobs \ {j} /\ PhTyped' /\ jobs \subseteq PhJobRec
  BY PhEnded DEF PhIInv, PhTyped
<1>2. PhHolds(j) /\ ~ PhLoading(j) /\ ~ PhFitted(j)
  BY DEF PhHolds, PhLoading, PhFitted
<1>3. PhMicWaited'
  BY <1>1, <1>2, PhMicEnded DEF PhIInv
<1>4. PhProductsWaited'
  BY <1>1, <1>2, PhProductsFrame DEF PhIInv
<1>5. PhModelsWaited'
  BY <1>1, <1>2, PhModelsFrame DEF PhIInv, PhTyped
<1> QED
  BY <1>1, <1>3, <1>4, <1>5 DEF PhIInv

\* The recorder runs.
LEMMA PhRecordingKeeps == ASSUME PhIInv, NEW j \in jobs, Phone!Recording(j) PROVE PhIInv'
<1>1. /\ page \in PhPageRec /\ table \in PhTableRec /\ j.op = "start" /\ Phone!Gone(j) /\ rough' = rough
      /\ jobs' \subseteq jobs
  BY PhOpOf DEF PhIInv, PhTyped, Phone!Recording, Phone!Gone
<1>2. /\ page' \in PhPageRec /\ page'.busy = FALSE /\ page'.tree = page.tree
      /\ page'.product = page.product /\ page'.products = page.products
      /\ page'.loading = page.loading /\ page'.installed = page.installed
      /\ page'.address = page.address /\ page'.status = page.status
  BY <1>1 DEF Phone!Recording, PhPageRec
<1>3. /\ table' \in PhTableRec /\ table'.files = table.files /\ table'.net = table.net
      /\ table'.speaking = table.speaking
  BY <1>1 DEF Phone!Recording, PhTableRec
<1>4. "mic" \notin rough => ~ table.speaking
  BY <1>1 DEF PhIInv, PhMicWaited, Phone!Hears
<1>5. PhAddressWaited'
  BY <1>1, <1>2, <1>3, PhAddressFrame DEF PhIInv
<1> QED
  BY <1>1, <1>2, <1>3, <1>4, <1>5, PhHolderEnds

\* The recorder was refused.
LEMMA PhNotRecordingKeeps == ASSUME PhIInv, NEW j \in jobs, Phone!NotRecording(j) PROVE PhIInv'
<1>1. /\ page \in PhPageRec /\ table \in PhTableRec /\ j.op = "start" /\ Phone!Gone(j) /\ rough' = rough
      /\ jobs' \subseteq jobs /\ table' = table
  BY PhOpOf DEF PhIInv, PhTyped, Phone!NotRecording, Phone!Gone
<1> DEFINE b == page.panel /\ j.p # "panel"
<1>2. b \in BOOLEAN /\ page' = [page EXCEPT !.busy = FALSE, !.panel = b]
  BY <1>1 DEF Phone!NotRecording, PhPageRec
<1> HIDE DEF b
<1>3. /\ page' \in PhPageRec /\ page'.busy = FALSE /\ page'.tree = page.tree
      /\ page'.product = page.product /\ page'.products = page.products
      /\ page'.loading = page.loading /\ page'.installed = page.installed
      /\ page'.address = page.address /\ page'.status = page.status
  BY <1>1, <1>2 DEF PhPageRec
<1>4. "mic" \notin rough => ~ (table.recorder /\ table.speaking)
  BY DEF PhIInv, PhMicWaited, Phone!Hears
<1>5. PhAddressWaited'
  BY <1>1, <1>3, PhAddressFrame DEF PhIInv
<1> QED
  BY <1>1, <1>3, <1>4, <1>5, PhHolderEnds

\* A stop of either screen is over, with nothing to send.
LEMMA PhStopOverKeeps ==
    ASSUME PhIInv, NEW j \in jobs, j.op \in {"voice", "draft"}, Phone!StopOver(j), rough' = rough,
           table' \in PhTableRec, table'.net = table.net, table'.files = table.files,
           table'.speaking = table.speaking, table'.recorder \in {table.recorder, FALSE}
    PROVE  PhIInv'
<1> DEFINE b == page.panel /\ j.op # "draft"
<1>1. /\ page \in PhPageRec /\ Phone!Gone(j) /\ jobs' \subseteq jobs
      /\ b \in BOOLEAN /\ page' = [page EXCEPT !.busy = FALSE, !.panel = b]
  BY DEF PhIInv, PhTyped, Phone!StopOver, Phone!Gone, PhPageRec
<1> HIDE DEF b
<1>2. /\ page' \in PhPageRec /\ page'.busy = FALSE /\ page'.tree = page.tree
      /\ page'.product = page.product /\ page'.products = page.products
      /\ page'.loading = page.loading /\ page'.installed = page.installed
      /\ page'.address = page.address /\ page'.status = page.status
  BY <1>1 DEF PhPageRec
<1>3. "mic" \notin rough => ~ (table'.recorder /\ table'.speaking)
  BY DEF PhIInv, PhMicWaited, Phone!Hears
<1>4. PhAddressWaited'
  BY <1>1, <1>2, PhAddressFrame DEF PhIInv
<1> QED
  BY <1>1, <1>2, <1>3, <1>4, PhHolderEnds

\* A prompt's handler goes on: what it is about stays, and the flag is up.
LEMMA PhHolderGoes ==
    ASSUME PhIInv, NEW j \in jobs, j.op \in {"voice", "draft"},
           NEW at \in PhSteps(j.op), Phone!Goes(j, at),
           rough' = rough, page' \in PhPageRec, table' \in PhTableRec,
           page'.tree = page.tree, page'.product = page.product, page'.products = page.products,
           page'.loading = page.loading, page'.installed = page.installed, table'.files = table.files,
           \/ page'.address = page.address /\ page'.status = page.status
           \/ /\ j.op = "voice" /\ Phone!Reached(j.was.address)
              /\ page'.address = IF Phone!FallsBack(j.was.address) THEN "loop" ELSE page.address,
           table'.net = table.net, "mic" \notin rough => page'.busy = TRUE /\ ~ table'.recorder
    PROVE  PhIInv'
<1>1. at \notin {"summary", "tree", "unlist"}
  BY PhStepsKnown
<1>2. PhTyped' /\ \E k \in PhJobRec :
         /\ k.op = j.op /\ k.at = at /\ k.p = j.p /\ k.m = j.m /\ k.was = j.was
         /\ jobs' = (jobs \ {j}) \cup {k}
  BY <1>1, PhWent DEF PhIInv
<1>3. PICK k \in PhJobRec :
         /\ k.op = j.op /\ k.at = at /\ k.p = j.p /\ k.m = j.m /\ k.was = j.was
         /\ jobs' = (jobs \ {j}) \cup {k}
  BY <1>2
<1>4. PhHolds(j) /\ ~ PhLoading(j) /\ ~ PhFitted(j) /\ ~ PhLoading(k) /\ ~ PhFitted(k)
  BY <1>3 DEF PhHolds, PhLoading, PhFitted
<1>5. PhMicWaited'
  BY <1>3, <1>4, PhMicWent DEF PhIInv
<1>6. PhProductsWaited'
  BY <1>3, <1>4, PhProductsFrame DEF PhIInv
<1>7. PhModelsWaited'
  BY <1>2, <1>3, <1>4, PhModelsFrame DEF PhIInv, PhTyped
<1>8. \A l \in jobs' : l.op \in {"voice", "panel"} => \E i \in jobs : i.op \in {"voice", "panel"}
      /\ i.was = l.was
  BY <1>3
<1>9. PhAddressWaited'
  <2>1. CASE page'.address = page.address /\ page'.status = page.status
    BY <1>8, <2>1, PhAddressFrame DEF PhIInv
  <2>2. CASE /\ j.op = "voice" /\ Phone!Reached(j.was.address)
             /\ page'.address = IF Phone!FallsBack(j.was.address) THEN "loop" ELSE page.address
    BY <1>8, <2>2, PhAddressConnected DEF PhIInv
  <2> QED
    BY <2>1, <2>2
<1> QED
  BY <1>2, <1>5, <1>6, <1>7, <1>9 DEF PhIInv

\* The panel's prompt goes on.
LEMMA PhPanelGoes ==
    ASSUME PhIInv, NEW j \in jobs, j.op = "panel", j.at # "tree",
           NEW at \in {"turn", "list"}, Phone!Goes(j, at),
           rough' = rough, page' \in PhPageRec, table' \in PhTableRec, page'.busy = page.busy,
           page'.tree = page.tree, page'.product = page.product, page'.products = page.products,
           page'.installed = page.installed, table'.files = table.files, Phone!Reached(j.was.address),
           page'.address = IF Phone!FallsBack(j.was.address) THEN "loop" ELSE page.address,
           table'.net = table.net, table'.recorder = table.recorder
    PROVE  PhIInv'
<1>1. j \in PhJobRec /\ at \in PhSteps(j.op) /\ page \in PhPageRec
  BY PhStepsKnown DEF PhIInv, PhTyped
<1>2. PhTyped' /\ \E k \in PhJobRec :
         /\ k.op = j.op /\ k.at = at /\ k.p = j.p /\ k.m = j.m /\ k.was = j.was
         /\ jobs' = (jobs \ {j}) \cup {k}
  BY <1>1, PhWent DEF PhIInv
<1>3. PICK k \in PhJobRec :
         /\ k.op = j.op /\ k.at = at /\ k.p = j.p /\ k.m = j.m /\ k.was = j.was
         /\ jobs' = (jobs \ {j}) \cup {k}
  BY <1>2
<1>4. PhHolds(j) /\ PhLoading(j) /\ ~ PhFitted(j) /\ ~ PhFitted(k)
  BY <1>3 DEF PhHolds, PhLoading, PhFitted
<1>5. j.at \notin {"permit", "stop"}
  BY <1>1, PhOpOf
<1>6. PhMicWaited'
  <2>1. "mic" \notin rough => page.busy /\ ~ table.recorder
    BY <1>4, <1>5 DEF PhIInv, PhMicWaited
  <2>2. "mic" \notin rough => page'.busy = TRUE
    BY <1>1, <2>1 DEF PhPageRec
  <2> QED
    BY <1>3, <1>4, <2>1, <2>2, PhMicWent DEF PhIInv
<1>7. PhProductsWaited'
  BY <1>3, <1>4, PhProductsWent DEF PhIInv, PhProductsWaited
<1>8. \A l \in jobs' : l.op \in {"voice", "panel"} => \E i \in jobs : i.op \in {"voice", "panel"}
      /\ i.was = l.was
  BY <1>3
<1>9. PhAddressWaited'
  BY <1>8, PhAddressConnected DEF PhIInv
<1>10. PhModelsWaited'
  BY <1>2, <1>3, <1>4, PhModelsFrame DEF PhIInv, PhTyped
<1> QED
  BY <1>2, <1>6, <1>7, <1>9, <1>10 DEF PhIInv

\* The recording is there, or is not.
LEMMA PhStoppedKeeps == ASSUME PhIInv, NEW j \in jobs, Phone!Stopped(j) PROVE PhIInv'
<1>1. /\ j \in PhJobRec /\ page \in PhPageRec /\ table \in PhTableRec /\ j.op \in {"voice", "draft"}
      /\ rough' = rough /\ j.at = "stop" /\ table' = [table EXCEPT !.recorder = FALSE]
  BY PhOpOf DEF PhIInv, PhTyped, Phone!Stopped
<1>2. /\ table' \in PhTableRec /\ table'.recorder = FALSE /\ table'.files = table.files
      /\ table'.net = table.net /\ table'.speaking = table.speaking
  BY <1>1 DEF PhTableRec
<1>3. CASE Phone!StopOver(j)
  BY <1>1, <1>2, <1>3, PhStopOverKeeps
<1>4. CASE Phone!Goes(j, "stt") /\ page' = page
  <2>1. "stt" \in PhSteps(j.op) /\ PhHolds(j)
    BY <1>1, PhStepsKnown DEF PhHolds
  <2>2. "mic" \notin rough => page.busy = TRUE
    BY <1>1, <2>1 DEF PhIInv, PhMicWaited, PhPageRec
  <2> QED
    BY <1>1, <1>2, <1>4, <2>1, <2>2, PhHolderGoes
<1> QED
  BY <1>3, <1>4 DEF Phone!Stopped

\* Nothing was transcribed.
LEMMA PhNothingHeardKeeps == ASSUME PhIInv, NEW j \in jobs, Phone!NothingHeard(j) PROVE PhIInv'
<1>1. j.op \in {"voice", "draft"} /\ Phone!StopOver(j) /\ rough' = rough /\ table' = table
      /\ table \in PhTableRec
  BY PhOpOf DEF PhIInv, PhTyped, Phone!NothingHeard
<1> QED
  BY <1>1, PhStopOverKeeps

\* The prompt is transcribed: it is put into the field, or sent.
LEMMA PhTranscribedKeeps == ASSUME PhIInv, NEW j \in jobs, Phone!Transcribed(j) PROVE PhIInv'
<1>1. /\ j \in PhJobRec /\ page \in PhPageRec /\ table \in PhTableRec /\ j.op \in {"voice", "draft"}
      /\ rough' = rough /\ j.at = "stt" /\ table' = table
  BY PhOpOf DEF PhIInv, PhTyped, Phone!Transcribed
<1>2. CASE j.op = "draft"
  <2>1. Phone!StopOver(j)
    BY <1>2 DEF Phone!Transcribed
  <2> QED
    BY <1>1, <2>1, PhStopOverKeeps
<1>3. CASE j.op = "voice"
  <2>1. Phone!Goes(j, Phone!Asks(j.was)) /\ page' = [page EXCEPT !.busy = TRUE]
    BY <1>3 DEF Phone!Transcribed
  <2>2. Phone!Asks(j.was) \in PhSteps(j.op)
    BY <1>3, PhStepsKnown DEF Phone!Asks, Phone!Plans
  <2>3. /\ page' \in PhPageRec /\ page'.busy = TRUE /\ page'.tree = page.tree
        /\ page'.product = page.product /\ page'.products = page.products
        /\ page'.loading = page.loading /\ page'.installed = page.installed
        /\ page'.address = page.address /\ page'.status = page.status
    BY <1>1, <2>1 DEF PhPageRec
  <2>4. "mic" \notin rough => ~ table.recorder
    BY <1>1, <1>3 DEF PhIInv, PhMicWaited, PhHolds
  <2> QED
    BY <1>1, <2>1, <2>2, <2>3, <2>4, PhHolderGoes
<1> QED
  BY <1>1, <1>2, <1>3

\* A session is made for the prompt.
LEMMA PhSessionMadeKeeps == ASSUME PhIInv, NEW j \in jobs, Phone!SessionMade(j) PROVE PhIInv'
<1>1. /\ j \in PhJobRec /\ page \in PhPageRec /\ table \in PhTableRec /\ j.op \in {"voice", "panel"}
      /\ rough' = rough /\ j.at = "session" /\ table' = table /\ Phone!Goes(j, "turn")
      /\ Phone!Reached(j.was.address) /\ j.was.address \in Phone!Addresses
      /\ page' = [Phone!Connected(page, j.was.address) EXCEPT !.session = TRUE]
  BY PhOpOf DEF PhIInv, PhTyped, Phone!SessionMade, PhJobRec, PhKeptRec
<1> DEFINE X == Phone!Connected(page, j.was.address)
<1>2. /\ X \in PhPageRec /\ X.address = IF Phone!FallsBack(j.was.address) THEN "loop" ELSE page.address
      /\ X.tree = page.tree /\ X.product = page.product /\ X.products = page.products
      /\ X.loading = page.loading /\ X.busy = page.busy /\ X.installed = page.installed
  BY <1>1, PhConnectedFacts
<1> HIDE DEF X
<1>3. page' = [X EXCEPT !.session = TRUE]
  BY <1>1 DEF X
<1>4. /\ page' \in PhPageRec /\ page'.busy = page.busy /\ page'.tree = page.tree
      /\ page'.product = page.product /\ page'.products = page.products
      /\ page'.loading = page.loading /\ page'.installed = page.installed
      /\ page'.address = IF Phone!FallsBack(j.was.address) THEN "loop" ELSE page.address
  BY <1>2, <1>3 DEF PhPageRec
<1>5. CASE j.op = "panel"
  BY <1>1, <1>4, <1>5, PhPanelGoes
<1>6. CASE j.op = "voice"
  <2>1. "turn" \in PhSteps(j.op) /\ PhHolds(j)
    BY <1>6, PhStepsKnown DEF PhHolds
  <2>2. "mic" \notin rough => page'.busy = TRUE /\ ~ table.recorder
    BY <1>1, <1>4, <2>1 DEF PhIInv, PhMicWaited, PhPageRec
  <2> QED
    BY <1>1, <1>4, <1>6, <2>1, <2>2, PhHolderGoes
<1> QED
  BY <1>1, <1>5, <1>6

\* The reply: it is shown, or the panel loads what it changed.
LEMMA PhRepliedKeeps == ASSUME PhIInv, NEW j \in jobs, Phone!Replied(j) PROVE PhIInv'
<1>1. /\ j \in PhJobRec /\ page \in PhPageRec /\ table \in PhTableRec /\ j.op \in {"voice", "panel"}
      /\ rough' = rough /\ j.at \in {"chat", "turn"} /\ (j.op = "panel" => j.at = "turn")
      /\ Phone!Reached(j.was.address) /\ j.was.address \in Phone!Addresses /\ j.was.read \in BOOLEAN
  BY PhOpOf DEF PhIInv, PhTyped, Phone!Replied, PhJobRec, PhKeptRec
<1> DEFINE X == Phone!Connected(page, j.was.address)
<1>2. /\ X \in PhPageRec /\ X.address = IF Phone!FallsBack(j.was.address) THEN "loop" ELSE page.address
      /\ X.tree = page.tree /\ X.product = page.product /\ X.products = page.products
      /\ X.loading = page.loading /\ X.busy = page.busy /\ X.installed = page.installed
  BY <1>1, PhConnectedFacts
<1>3. /\ j.op = "voice" => Phone!Gone(j) /\ page' = [X EXCEPT !.busy = FALSE]
      /\ j.op # "voice" => Phone!Goes(j, "list")
         /\ page' = [X EXCEPT !.reply = TRUE, !.loading = TRUE, !.failed = FALSE]
  BY DEF Phone!Replied
<1>s. \E gone \in SUBSET Products :
         table' = [table EXCEPT !.there = table.there \ gone, !.speaking = table.speaking \/ j.was.read]
  <2>1. PICK gone \in {{}} \cup {{p} : p \in IF j.at = "turn" THEN table.there ELSE {}} :
          table' = [table EXCEPT !.there = @ \ gone, !.speaking = @ \/ j.was.read]
    BY DEF Phone!Replied
  <2>2. gone \in SUBSET Products
    BY <1>1 DEF PhTableRec
  <2> QED
    BY <1>1, <2>1, <2>2 DEF PhTableRec
<1> HIDE DEF X
<1>4. /\ table' \in PhTableRec /\ table'.files = table.files /\ table'.net = table.net
      /\ table'.recorder = table.recorder
  <2>1. PICK gone \in SUBSET Products :
          table' = [table EXCEPT !.there = table.there \ gone, !.speaking = table.speaking
          \/ j.was.read]
    BY <1>s
  <2> DEFINE b == table.speaking \/ j.was.read
             t == table.there \ gone
  <2>2. /\ b \in BOOLEAN /\ t \in SUBSET Products
        /\ table' = [table EXCEPT !.there = t, !.speaking = b]
    BY <1>1, <2>1 DEF PhTableRec
  <2> HIDE DEF b, t
  <2> QED
    BY <1>1, <2>2 DEF PhTableRec
<1>5. "mic" \notin rough => ~ table.recorder /\ page.busy
  BY <1>1 DEF PhIInv, PhMicWaited, PhHolds
<1>6. CASE j.op = "voice"
  <2>0. Phone!Gone(j) /\ page' = [X EXCEPT !.busy = FALSE] /\ jobs' \subseteq jobs
    BY <1>3, <1>6 DEF Phone!Gone
  <2>1. /\ page' \in PhPageRec /\ page'.busy = FALSE /\ page'.tree = page.tree
        /\ page'.product = page.product /\ page'.products = page.products
        /\ page'.loading = page.loading /\ page'.installed = page.installed
        /\ page'.address = X.address
    BY <1>2, <2>0 DEF PhPageRec
  <2>2. PhAddressWaited'
    BY <1>1, <1>2, <1>4, <1>6, <2>0, <2>1, PhAddressConnected DEF PhIInv
  <2> QED
    BY <1>1, <1>4, <1>5, <1>6, <2>0, <2>1, <2>2, PhHolderEnds
<1>7. CASE j.op = "panel"
  <2>0. Phone!Goes(j, "list") /\ page' = [X EXCEPT !.reply = TRUE, !.loading = TRUE, !.failed = FALSE]
    BY <1>3, <1>7
  <2>1. /\ page' \in PhPageRec /\ page'.busy = page.busy /\ page'.tree = page.tree
        /\ page'.product = page.product /\ page'.products = page.products
        /\ page'.installed = page.installed /\ page'.address = X.address
    BY <1>2, <2>0 DEF PhPageRec
  <2> QED
    BY <1>1, <1>2, <1>4, <1>7, <2>0, <2>1, PhPanelGoes
<1> QED
  BY <1>1, <1>6, <1>7

\* The desktop does not answer a prompt.
LEMMA PhNoReplyKeeps == ASSUME PhIInv, NEW j \in jobs, Phone!NoReply(j) PROVE PhIInv'
<1>1. /\ j \in PhJobRec /\ page \in PhPageRec /\ table \in PhTableRec /\ j.op \in {"voice", "panel"}
      /\ rough' = rough /\ j.at \in {"session", "chat", "turn"} /\ Phone!Gone(j) /\ table' = table
      /\ page' = [page EXCEPT !.busy = FALSE] /\ jobs \subseteq PhJobRec
  BY PhOpOf DEF PhIInv, PhTyped, Phone!NoReply
<1>2. /\ page' \in PhPageRec /\ page'.busy = FALSE /\ page'.tree = page.tree
      /\ page'.product = page.product /\ page'.products = page.products
      /\ page'.loading = page.loading /\ page'.installed = page.installed
      /\ page'.address = page.address /\ page'.status = page.status
  BY <1>1 DEF PhPageRec
<1>3. jobs' = jobs \ {j} /\ PhTyped'
  BY <1>1, <1>2, PhEnded DEF PhIInv
<1>4. "mic" \notin rough => ~ table.recorder
  BY <1>1 DEF PhIInv, PhMicWaited, PhHolds
<1>5. PhAddressWaited'
  BY <1>1, <1>2, <1>3, PhAddressFrame DEF PhIInv
<1>6. CASE j.op = "voice"
  BY <1>1, <1>2, <1>4, <1>5, <1>6, PhHolderEnds
<1>7. CASE j.op = "panel"
  <2>1. PhHolds(j) /\ PhLoading(j) /\ ~ PhFitted(j)
    BY <1>7 DEF PhHolds, PhLoading, PhFitted
  <2>2. PhMicWaited'
    BY <1>1, <1>2, <1>3, <1>4, <2>1, PhMicEnded DEF PhIInv
  <2>3. PhProductsWaited'
    BY <1>1, <1>2, <1>3, <2>1, PhProductsEnded DEF PhIInv, PhProductsWaited
  <2>4. PhModelsWaited'
    BY <1>1, <1>2, <1>3, <2>1, PhModelsFrame DEF PhIInv, PhTyped
  <2> QED
    BY <1>3, <1>5, <2>2, <2>3, <2>4 DEF PhIInv
<1> QED
  BY <1>1, <1>6, <1>7

------------------------------------------------------------------------------
(* Speech models *)

\* The handler of an installation or a removal ends.
LEMMA PhFitterEnds ==
    ASSUME PhIInv, NEW j \in jobs, PhFitted(j), Phone!Gone(j), rough' = rough,
           page' \in PhPageRec, table' \in PhTableRec, page'.busy = page.busy,
           page'.tree = page.tree, page'.product = page.product, page'.products = page.products,
           page'.loading = page.loading, page'.address = page.address, page'.status = page.status,
           table'.recorder = table.recorder, table'.speaking = table.speaking, table'.net = table.net,
           "models" \notin rough => page'.installed \subseteq table'.files
    PROVE  PhIInv'
<1>1. jobs' = jobs \ {j} /\ PhTyped' /\ jobs \subseteq PhJobRec
  BY PhEnded DEF PhIInv, PhTyped
<1>2. ~ PhHolds(j) /\ ~ PhLoading(j)
  BY DEF PhHolds, PhLoading, PhFitted
<1>3. PhMicWaited' /\ PhProductsWaited' /\ PhAddressWaited'
  BY <1>1, <1>2, PhMicFrame, PhProductsFrame, PhAddressFrame DEF PhIInv
<1>4. PhModelsWaited'
  BY <1>1, PhModelsEnded, PhUnlistFitted DEF PhIInv
<1> QED
  BY <1>1, <1>3, <1>4 DEF PhIInv

\* A model is on the device, and listed.
LEMMA PhInstalledKeeps == ASSUME PhIInv, NEW j \in jobs, Phone!Installed(j) PROVE PhIInv'
<1>1. /\ j \in PhJobRec /\ page \in PhPageRec /\ table \in PhTableRec /\ j.op = "install"
      /\ rough' = rough /\ j.at = "download" /\ Phone!Gone(j) /\ j.m \in Models
      /\ j.was.installed \subseteq Models
  BY PhOpOf DEF PhIInv, PhTyped, Phone!Installed, PhJobRec, PhKeptRec
<1> DEFINE list == j.was.installed \cup {j.m}
           files == table.files \cup {j.m}
           saved == [table.saved EXCEPT !.installed = list]
           got == [table EXCEPT !.files = files]
           kept == [got EXCEPT !.saved = saved]
           both == [got EXCEPT !.saved = [saved EXCEPT !.selected = j.m]]
           chosen == [page EXCEPT !.installed = list, !.installing = Nothing, !.selected = j.m]
           old == [chosen EXCEPT !.selected = page.selected]
<1>2. list \in SUBSET Models /\ files \in SUBSET Models /\ files = table.files \cup {j.m}
  BY <1>1 DEF PhTableRec
<1>3. page' \in {chosen, old} /\ table' \in {got, kept, both}
  BY <1>1 DEF Phone!Installed, PhTableRec
<1>4. saved \in [mode : {"assistant", "planner"}, installed : SUBSET Models, selected : Models]
      /\ [saved EXCEPT !.selected = j.m] \in [mode : {"assistant", "planner"},
          installed : SUBSET Models, selected : Models]
  BY <1>1, <1>2 DEF PhTableRec
<1>5. page' \in PhPageRec /\ page'.installed = list /\ page'.busy = page.busy
      /\ page'.tree = page.tree /\ page'.product = page.product /\ page'.products = page.products
      /\ page'.loading = page.loading /\ page'.address = page.address /\ page'.status = page.status
  <2> HIDE DEF list
  <2>1. CASE page' = chosen
    BY <1>1, <1>2, <2>1 DEF PhPageRec
  <2>2. CASE page' = old
    BY <1>1, <1>2, <2>2 DEF PhPageRec
  <2> QED
    BY <1>3, <2>1, <2>2
<1>6. table' \in PhTableRec /\ table'.files = files
      /\ table'.recorder = table.recorder /\ table'.speaking = table.speaking /\ table'.net = table.net
  <2> HIDE DEF files, saved
  <2>1. got \in PhTableRec /\ got.files = files
        /\ got.recorder = table.recorder /\ got.speaking = table.speaking /\ got.net = table.net
    BY <1>1, <1>2 DEF PhTableRec
  <2> HIDE DEF got
  <2>2. CASE table' = got
    BY <2>1, <2>2
  <2>3. CASE table' = kept
    BY <1>4, <2>1, <2>3 DEF PhTableRec
  <2>4. CASE table' = both
    BY <1>4, <2>1, <2>4 DEF PhTableRec
  <2> QED
    BY <1>3, <2>2, <2>3, <2>4
<1>7. PhFitted(j) /\ ("models" \notin rough => j.was.installed \subseteq table.files)
  BY <1>1 DEF PhFitted, PhIInv, PhModelsWaited
<1> QED
  BY <1>1, <1>2, <1>5, <1>6, <1>7, PhFitterEnds

\* A download fails.
LEMMA PhNotInstalledKeeps == ASSUME PhIInv, NEW j \in jobs, Phone!NotInstalled(j) PROVE PhIInv'
<1>1. /\ j \in PhJobRec /\ page \in PhPageRec /\ table \in PhTableRec /\ j.op = "install"
      /\ rough' = rough /\ j.at = "download" /\ Phone!Gone(j) /\ j.m \in Models
      /\ page' = [page EXCEPT !.installing = Nothing] /\ jobs \subseteq PhJobRec
  BY PhOpOf DEF PhIInv, PhTyped, Phone!NotInstalled, PhJobRec
<1>2. PICK f \in {{}, {j.m}} : table' = [table EXCEPT !.files = @ \cup f]
  BY DEF Phone!NotInstalled
<1>3. table' \in PhTableRec /\ table'.files = table.files \cup f
      /\ table'.recorder = table.recorder /\ table'.speaking = table.speaking /\ table'.net = table.net
  BY <1>1, <1>2 DEF PhTableRec
<1>4. page' \in PhPageRec /\ page'.installed = page.installed /\ page'.busy = page.busy
      /\ page'.tree = page.tree /\ page'.product = page.product /\ page'.products = page.products
      /\ page'.loading = page.loading /\ page'.address = page.address /\ page'.status = page.status
  BY <1>1 DEF PhPageRec
<1>5. PhFitted(j) /\ ("models" \notin rough => page.installed \subseteq table.files)
  <2>1. PhFitted(j)
    BY <1>1 DEF PhFitted
  <2>2. "models" \notin rough => \A i \in jobs : i.at # "unlist"
    BY <1>1, <2>1, PhUnlistFitted DEF PhIInv, PhModelsWaited
  <2> QED
    BY <2>1, <2>2 DEF PhIInv, PhModelsWaited
<1> QED
  BY <1>1, <1>3, <1>4, <1>5, PhFitterEnds

\* The file of a model is deleted.
LEMMA PhFileDeletedKeeps == ASSUME PhIInv, NEW j \in jobs, Phone!FileDeleted(j) PROVE PhIInv'
<1>1. /\ j \in PhJobRec /\ page \in PhPageRec /\ table \in PhTableRec /\ j.op = "remove"
      /\ rough' = rough /\ j.at = "delete" /\ Phone!Goes(j, "unlist") /\ page' = page
      /\ table' = [table EXCEPT !.files = @ \ {j.m}] /\ jobs \subseteq PhJobRec
  BY PhOpOf DEF PhIInv, PhTyped, Phone!FileDeleted
<1>2. table' \in PhTableRec /\ table'.files = table.files \ {j.m}
      /\ table'.recorder = table.recorder /\ table'.speaking = table.speaking /\ table'.net = table.net
  BY <1>1 DEF PhTableRec
<1>3. "unlist" \in PhSteps(j.op)
  BY <1>1, PhStepsKnown
<1>4. PICK k \in PhJobRec :
         /\ k.op = j.op /\ k.at = "unlist" /\ k.p = j.p /\ k.m = j.m /\ k.was = j.was
         /\ jobs' = (jobs \ {j}) \cup {k} /\ PhTyped'
  BY <1>1, <1>2, <1>3, PhWent DEF PhIInv
<1>5. ~ PhHolds(j) /\ ~ PhLoading(j) /\ ~ PhHolds(k) /\ ~ PhLoading(k) /\ PhFitted(j) /\ PhFitted(k)
  BY <1>1, <1>4 DEF PhHolds, PhLoading, PhFitted
<1>6. PhMicWaited' /\ PhProductsWaited' /\ PhAddressWaited'
  BY <1>1, <1>2, <1>4, <1>5, PhMicFrame, PhProductsFrame, PhAddressFrame DEF PhIInv
<1>7. PhModelsWaited'
  <2> SUFFICES ASSUME "models" \notin rough PROVE PhModelsWaited'
    BY <1>1 DEF PhModelsWaited
  <2>1. \A i \in jobs : PhFitted(i) => i = j
    BY <1>5 DEF PhIInv, PhModelsWaited
  <2>2. \A i \in jobs' : PhFitted(i) => i = k
    BY <1>4, <2>1
  <2>3. \A i \in jobs : i.at # "unlist"
    BY <1>1, <2>1, PhUnlistFitted
  <2>4. page.installed \subseteq table.files /\ j.was.installed \subseteq table.files
    BY <1>1, <1>5, <2>3 DEF PhIInv, PhModelsWaited
  <2> QED
    BY <1>1, <1>2, <1>4, <2>2, <2>4 DEF PhModelsWaited
<1> QED
  BY <1>4, <1>6, <1>7 DEF PhIInv

\* The file of a model cannot be deleted.
LEMMA PhNotDeletedKeeps == ASSUME PhIInv, NEW j \in jobs, Phone!NotDeleted(j) PROVE PhIInv'
<1>1. /\ j \in PhJobRec /\ page \in PhPageRec /\ table \in PhTableRec /\ j.op = "remove"
      /\ jobs \subseteq PhJobRec
      /\ rough' = rough /\ j.at = "delete" /\ Phone!Gone(j) /\ page' = page /\ table' = table
  BY PhOpOf DEF PhIInv, PhTyped, Phone!NotDeleted
<1>2. PhFitted(j)
  BY <1>1 DEF PhFitted
<1>3. "models" \notin rough => \A i \in jobs : i.at # "unlist"
  BY <1>1, <1>2, PhUnlistFitted DEF PhIInv, PhModelsWaited
<1>4. "models" \notin rough => page.installed \subseteq table.files
  BY <1>3 DEF PhIInv, PhModelsWaited
<1> QED
  BY <1>1, <1>2, <1>4, PhFitterEnds

\* A model is taken from the list.
LEMMA PhRemovedKeeps == ASSUME PhIInv, NEW j \in jobs, Phone!Removed(j) PROVE PhIInv'
<1>1. /\ j \in PhJobRec /\ page \in PhPageRec /\ table \in PhTableRec /\ j.op = "remove"
      /\ rough' = rough /\ j.at = "unlist" /\ Phone!Gone(j) /\ j.was.installed \subseteq Models
  BY PhOpOf DEF PhIInv, PhTyped, Phone!Removed, PhJobRec, PhKeptRec
<1> DEFINE list == j.was.installed \ {j.m}
           saved == [table.saved EXCEPT !.installed = list]
<1>2. page' = [page EXCEPT !.installed = list] /\ table' \in {table, [table EXCEPT !.saved = saved]}
  BY <1>1 DEF Phone!Removed, PhTableRec
<1>3. list \in SUBSET Models
      /\ saved \in [mode : {"assistant", "planner"}, installed : SUBSET Models, selected : Models]
  BY <1>1 DEF PhTableRec
<1>4. PhFitted(j) /\ ("models" \notin rough => list \subseteq table.files)
  BY <1>1 DEF PhFitted, PhIInv, PhModelsWaited
<1> HIDE DEF list, saved
<1>5. page' \in PhPageRec /\ page'.installed = list /\ page'.busy = page.busy
      /\ page'.tree = page.tree /\ page'.product = page.product /\ page'.products = page.products
      /\ page'.loading = page.loading /\ page'.address = page.address /\ page'.status = page.status
  BY <1>1, <1>2, <1>3 DEF PhPageRec
<1>6. table' \in PhTableRec /\ table'.files = table.files
      /\ table'.recorder = table.recorder /\ table'.speaking = table.speaking /\ table'.net = table.net
  BY <1>1, <1>2, <1>3 DEF PhTableRec
<1> QED
  BY <1>1, <1>4, <1>5, <1>6, PhFitterEnds

------------------------------------------------------------------------------
(* The invariant *)

\* The application as it is started, on a phone that is connected or not.
LEMMA PhInitKeeps == Phone!Init => PhIInv
<1> SUFFICES ASSUME Phone!Init PROVE PhIInv
  OBVIOUS
<1>1. PICK tab \in Phone!Tabs \ {"planner"}, full \in BOOLEAN,
           files \in {{}} \cup {{m} : m \in Models}, net \in {{a} : a \in Phone!Addresses} :
         /\ full => net = {"far"}
         /\ page = [tab |-> tab, mode |-> "assistant", read |-> TRUE,
                    view |-> IF full THEN "map" ELSE "overview",
                    products |-> IF full THEN Products ELSE {},
                    product |-> IF full THEN First ELSE Nothing,
                    tree |-> IF full THEN First ELSE Nothing,
                    node |-> IF full THEN First ELSE Nothing,
                    loading |-> FALSE, mapping |-> FALSE, failed |-> FALSE, busy |-> FALSE,
                    seen |-> FALSE, panel |-> FALSE, reply |-> FALSE, session |-> FALSE,
                    address |-> "far", status |-> IF full THEN "connected" ELSE "checking",
                    checking |-> ~ full, installing |-> Nothing,
                    selected |-> CHOOSE m \in Models : files \subseteq {m}, installed |-> files]
         /\ table = [there |-> Products, net |-> net, recorder |-> FALSE, taped |-> FALSE,
                     speaking |-> FALSE, files |-> files,
                     saved |-> [mode |-> "assistant", installed |-> files,
                                selected |-> CHOOSE m \in Models : files \subseteq {m}]]
  BY DEF Phone!Init
<1>2. PICK s : s = CHOOSE m \in Models : files \subseteq {m}
  OBVIOUS
<1>3. s \in Models /\ files \subseteq Models
  <2>1. \E m \in Models : files \subseteq {m}
    BY PhoneConstants
  <2> QED
    BY <1>2, <2>1
<1>4. table \in PhTableRec /\ table.net = net /\ table.files = files /\ ~ table.recorder
      /\ ~ table.speaking
  BY <1>1, <1>2, <1>3 DEF PhTableRec
<1>5. /\ page.busy = FALSE /\ page.tree = page.product
      /\ page.products = {} => page.product = Nothing
      /\ page.status = "connected" => full
      /\ page.address = "far" /\ page.installed = files /\ page.status \in {"checking", "connected"}
  BY <1>1, PhoneConstants
<1>6. page \in PhPageRec
  <2>1. /\ tab \in Phone!Tabs /\ First \in Products /\ "far" \in Phone!Addresses
        /\ {"map", "overview"} \subseteq Phone!Views
        /\ (IF full THEN "connected" ELSE "checking") \in {"checking", "connected", "offline"}
    BY PhoneConstants DEF Phone!Views, Phone!Addresses
  <2>2. CASE full
    BY <1>1, <1>2, <1>3, <2>1, <2>2 DEF PhPageRec
  <2>3. CASE ~ full
    BY <1>1, <1>2, <1>3, <2>1, <2>3 DEF PhPageRec
  <2> QED
    BY <2>2, <2>3
<1>7. jobs = {}
  BY DEF Phone!Init
<1>8. PhMicWaited
  BY <1>4, <1>5, <1>7 DEF PhMicWaited, Phone!Hears
<1>9. PhProductsWaited
  BY <1>5, <1>7 DEF PhProductsWaited
<1>10. PhAddressWaited
  BY <1>1, <1>4, <1>5, <1>7 DEF PhAddressWaited
<1>11. PhModelsWaited
  BY <1>4, <1>5, <1>7 DEF PhModelsWaited
<1> QED
  BY <1>4, <1>6, <1>7, <1>8, <1>9, <1>10, <1>11 DEF PhIInv, PhTyped

\* Nothing happens.
LEMMA PhStutterKeeps == ASSUME PhIInv, UNCHANGED Phone!vars PROVE PhIInv'
<1>1. page' = page /\ table' = table /\ jobs' = jobs /\ rough' = rough
  BY DEF Phone!vars
<1> QED
  BY <1>1, PhMicFrame, PhProductsFrame, PhAddressFrame, PhModelsFrame DEF PhIInv, PhTyped

\* What the person does keeps the invariant.
LEMMA PhActKeeps == ASSUME PhIInv, Phone!Act PROVE PhIInv'
<1>1. CASE (\E t \in Phone!Tabs : Phone!SwitchTab(t))
      \/ (\E m \in {"assistant", "planner"} : Phone!SwitchVoiceMode(m))
           \/ (\E b \in BOOLEAN : Phone!SetReadReplies(b))
              \/ (\E a \in Phone!Addresses : Phone!ChangeAddress(a))
  BY <1>1, PhSwitchTabKeeps, PhSwitchVoiceModeKeeps, PhSetReadRepliesKeeps, PhChangeAddressKeeps
<1>2. CASE \/ Phone!Refresh \/ Phone!Retry \/ \E p \in Products : Phone!PickProduct(p)
           \/ \E v \in Phone!Views : Phone!SwitchView(v)
  BY <1>2, PhRefreshKeeps, PhRetryKeeps, PhPickProductKeeps, PhSwitchViewKeeps
<1>3. CASE Phone!LoadMap \/ Phone!OpenNode \/ Phone!Back \/ Phone!Mic \/ Phone!PanelMic \/ Phone!Send
      \/ Phone!PanelSend \/ Phone!Speak
  BY <1>3, PhLoadMapKeeps, PhOpenNodeKeeps, PhBackKeeps, PhMicKeeps, PhPanelMicKeeps,
     PhSendKeeps,
     PhPanelSendKeeps, PhSpeakKeeps
<1>4. CASE \E m \in Models : Phone!SelectModel(m) \/ Phone!InstallModel(m) \/ Phone!RemoveModel(m)
  BY <1>4, PhSelectModelKeeps, PhInstallModelKeeps, PhRemoveModelKeeps
<1> QED
  BY <1>1, <1>2, <1>3, <1>4 DEF Phone!Act

\* Every answer keeps the invariant.
LEMMA PhServeKeeps == ASSUME PhIInv, NEW j \in jobs, Phone!Serve(j) PROVE PhIInv'
<1>1. CASE Phone!Listed(j) \/ Phone!Summarized(j) \/ Phone!TreeLoaded(j) \/ Phone!LoadFails(j)
  BY <1>1, PhListedKeeps, PhSummarizedKeeps, PhTreeLoadedKeeps, PhLoadFailsKeeps
<1>2. CASE Phone!Recording(j) \/ Phone!NotRecording(j) \/ Phone!Stopped(j) \/ Phone!NothingHeard(j)
      \/ Phone!Transcribed(j)
  BY <1>2, PhRecordingKeeps, PhNotRecordingKeeps, PhStoppedKeeps, PhNothingHeardKeeps,
     PhTranscribedKeeps
<1>3. CASE Phone!SessionMade(j) \/ Phone!Replied(j) \/ Phone!NoReply(j)
  BY <1>3, PhSessionMadeKeeps, PhRepliedKeeps, PhNoReplyKeeps
<1>4. CASE Phone!Installed(j) \/ Phone!NotInstalled(j) \/ Phone!FileDeleted(j) \/ Phone!NotDeleted(j)
      \/ Phone!Removed(j)
  BY <1>4, PhInstalledKeeps, PhNotInstalledKeeps, PhFileDeletedKeeps, PhNotDeletedKeeps,
     PhRemovedKeeps
<1> QED
  BY <1>1, <1>2, <1>3, <1>4 DEF Phone!Serve

\* Every step keeps the invariant.
LEMMA PhStepKeeps == PhIInv /\ [Phone!Next]_Phone!vars => PhIInv'
<1> SUFFICES ASSUME PhIInv, [Phone!Next]_Phone!vars PROVE PhIInv'
  OBVIOUS
<1>1. CASE UNCHANGED Phone!vars
  BY <1>1, PhStutterKeeps
<1>2. CASE Phone!Acts /\ Phone!Act
  BY <1>2, PhActKeeps
<1>3. CASE Phone!ReadPreferences \/ Phone!VerifyModels \/ Phone!CheckConnection \/ Phone!LoadAtFirst
      \/ Phone!Poll \/ Phone!SpeechOver
  BY <1>3, PhReadPreferencesKeeps, PhVerifyModelsKeeps, PhCheckConnectionKeeps,
     PhLoadAtFirstKeeps,
     PhPollKeeps, PhSpeechOverKeeps
<1>4. CASE \E j \in jobs : Phone!Serve(j)
  BY <1>4, PhServeKeeps
<1> QED
  BY <1>1, <1>2, <1>3, <1>4 DEF Phone!Next

------------------------------------------------------------------------------
(* What it says *)

\* The invariant says what the types are.
LEMMA PhTypeOKHolds == PhIInv => Phone!TypeOK
  BY DEF PhIInv, PhTyped, Phone!TypeOK, PhPageRec, PhTableRec

\* A prompt that is answered holds the busy flag.
LEMMA PhTurnsHold == ASSUME PhTyped PROVE \A j \in Phone!Turns : j \in jobs /\ PhHolds(j)
/\ j.at \notin {"permit", "stop"}
<1>1. \A j \in PhJobRec : j.at \in {"session", "chat", "turn"} => j.op \in {"voice", "panel"}
  BY PhOpOf
<1> QED
  BY <1>1 DEF PhTyped, Phone!Turns, PhHolds

\* The invariant says that one prompt at most is answered.
LEMMA PhOneTurnHolds == PhIInv => Phone!OneTurn
<1> SUFFICES ASSUME PhIInv, "mic" \notin rough PROVE (\A i, j \in Phone!Turns : i = j)
                    /\ (Phone!Turns # {} => ~ table.recorder)
  BY DEF Phone!OneTurn
<1>1. \A j \in Phone!Turns : j \in jobs /\ PhHolds(j) /\ j.at \notin {"permit", "stop"}
  BY PhTurnsHold DEF PhIInv
<1> QED
  BY <1>1 DEF PhIInv, PhMicWaited

\* The invariant says that the phone does not hear itself.
LEMMA PhHalfDuplexHolds == PhIInv => Phone!HalfDuplex
  BY DEF PhIInv, PhMicWaited, Phone!HalfDuplex, Phone!Hears

\* The invariant says that a prompt is about a node of its product.
LEMMA PhOwnContextHolds == PhIInv => Phone!OwnContext
  BY DEF PhIInv, PhProductsWaited, Phone!OwnContext, Phone!Turns, PhLoading

\* The invariant says that the address shown as connected answered.
LEMMA PhStatusOfAddressHolds == PhIInv => Phone!StatusOfAddress
  BY DEF PhIInv, PhAddressWaited, Phone!StatusOfAddress

\* The invariant says that the models listed are on the device.
LEMMA PhModelsThereHolds == PhIInv => Phone!ModelsThere
  BY DEF PhIInv, PhModelsWaited, Phone!ModelsThere

==============================================================================
