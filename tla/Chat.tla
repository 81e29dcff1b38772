-------------------------------- MODULE Chat --------------------------------
(***************************************************************************)
(* The two pages that talk to a model outside of any product: the direct   *)
(* chat, with a timeout on its answers and a microphone for dictating, and *)
(* the voice chat, which listens, sends what it heard, speaks the reply    *)
(* and listens again.                                                      *)
(*                                                                         *)
(* What a page does is spread over calls that outlive it: a request for    *)
(* the microphone, a capture, a transcription, a stream of the model, the  *)
(* reply being spoken.  Each of them is a record in jobs.  The flags of    *)
(* the page are what it was rendered with, loop and held are its refs.     *)
(* The words that are said are left out.                                   *)
(***************************************************************************)
EXTENDS Integers

CONSTANT MaxActs      \* bound on what a person does, by rough

None == 0
Slots == 1 .. 2       \* bound on the calls under way

VARIABLES
    page,     \* the page that is shown
    jobs,     \* calls under way, captures, speech and timers
    rough,    \* FALSE: the person types, dictates and starts a session only when
              \* the page hears nothing and nothing of a page left is under way
    acts

vars == <<page, jobs, rough, acts>>

Fresh(kind) ==
    [kind |-> kind, chosen |-> FALSE, speech |-> FALSE, enabled |-> TRUE, read |-> FALSE,
     session |-> FALSE, listening |-> FALSE, transcribing |-> FALSE, sending |-> FALSE,
     speaking |-> FALSE, loop |-> FALSE, held |-> None, armed |-> FALSE, talk |-> FALSE]

------------------------------------------------------------------------------
(* The effect that listens for the next turn *)

\* Variant: a check that forgets that a reply is on its way or spoken.
IdleUntilAnswered(pg) == ~ pg.listening /\ ~ pg.transcribing
Idle(pg) == ~ pg.listening /\ ~ pg.transcribing /\ ~ pg.sending /\ ~ pg.speaking

Watched(pg) == <<pg.session, pg.enabled, pg.listening, pg.transcribing, pg.sending, pg.speaking,
                 pg.chosen, pg.speech>>

\* The timer is set again, or not, when something the effect watches changed.
Rendered(pg) ==
    IF Watched(pg) = Watched(page) THEN pg
    ELSE [pg EXCEPT !.armed = pg.session /\ pg.enabled /\ Idle(pg)]

Shows(j, pg) == page' = IF j.live THEN Rendered(pg) ELSE page

\* The end of a turn; a turn that was listened for gives the loop free.
Over(op, pg) ==
    [pg EXCEPT !.sending = FALSE, !.loop = IF op = "listen" THEN FALSE ELSE @,
               !.held = IF op = "listen" THEN None ELSE @]

------------------------------------------------------------------------------
(* What the pages offer *)

HeaderOffers(act) == IF act = "start" THEN ~ page.session /\ page.enabled ELSE page.session

ComposerOffers(act) == IF act = "send" THEN ~ page.sending ELSE Idle(page)

\* The open captures, those of pages that were left among them.
Mics == {j \in jobs : j.at = "mic"}
Heard == {j \in jobs : j.live /\ j.at \in {"asked", "mic", "ended", "stt"}}

\* Nothing of a page that was left listens, waits for an answer or speaks.
Settled == rough \/ \A j \in jobs : j.live

\* Nothing the page listened to is still to be understood.
Unheard == Settled /\ (rough \/ Heard = {})

Acts == acts < MaxActs[rough] /\ acts' = acts + 1

Job(op, at) == [n |-> None, op |-> op, at |-> at, live |-> TRUE, over |-> FALSE]
Free == Slots \ {j.n : j \in jobs}
Begin(j) ==
    /\ Free # {}
    /\ jobs' = jobs \cup {[j EXCEPT !.n = CHOOSE n \in Free : \A o \in Free : n <= o]}
Gone(j) == jobs' = jobs \ {j}
Goes(j, at) == jobs' = (jobs \ {j}) \cup {[j EXCEPT !.at = at]}

------------------------------------------------------------------------------
(* Both pages *)

\* Providers and models are there: the first enabled one is chosen.
ChooseModel ==
    /\ ~ page.chosen
    /\ page' = Rendered([page EXCEPT !.chosen = TRUE])
    /\ UNCHANGED <<jobs, rough, acts>>

\* Another model is chosen, by the person or, after "Select model", by the
\* effect: in the voice chat the timer is set again.
SelectModel ==
    /\ page.chosen /\ page.kind = "voice"
    /\ page' = [page EXCEPT !.armed = page.session /\ page.enabled /\ Idle(page)]
    /\ UNCHANGED <<jobs, rough>>

\* The speech settings, read once when the voice page is mounted.
SettingsRead ==
    /\ page.kind = "voice" /\ ~ page.read
    /\ \E s, e \in BOOLEAN :
          page' = Rendered([page EXCEPT !.read = TRUE, !.speech = s, !.enabled = e])
    /\ UNCHANGED <<jobs, rough, acts>>

\* Another page is shown.  The capture the page knows of is stopped; what it
\* asked for goes on, and a voice turn to its end.
Left(j) == [j EXCEPT !.live = FALSE, !.at = IF j.n = page.held THEN "ended" ELSE @]

Show(kind) ==
    /\ jobs' = {Left(j) : j \in {k \in jobs : k.op # "send" /\ ~ (k.op = "dictate" /\ k.n = page.held)}}
    /\ page' = Fresh(kind)
    /\ UNCHANGED rough

------------------------------------------------------------------------------
(* The microphone *)

\* createPcmCapture: it is granted whether or not the page still wants it.
MicGranted(j) ==
    /\ j.at = "asked"
    /\ Goes(j, "mic")
    /\ Shows(j, [page EXCEPT !.listening = TRUE, !.held = j.n])
    /\ UNCHANGED <<rough, acts>>

\* A turn that cannot listen changes nothing the effect watches: the session
\* stays on and nothing listens any more.
MicRefused(j) ==
    /\ j.at = "asked"
    /\ Gone(j)
    /\ Shows(j, IF j.op = "listen" THEN [page EXCEPT !.listening = FALSE, !.transcribing = FALSE,
                                                   !.loop = FALSE, !.held = None] ELSE page)
    /\ UNCHANGED <<rough, acts>>

\* The voice page's capture ends with a silence or after its longest time.
Silence(j) ==
    /\ j.at = "mic" /\ j.op = "listen"
    /\ Goes(j, "ended")
    /\ UNCHANGED <<page, rough, acts>>

\* The recording is encoded and sent to be transcribed.
Ended(j) ==
    /\ j.at = "ended"
    /\ Goes(j, "stt")
    /\ Shows(j, [page EXCEPT !.held = IF @ = j.n \/ j.op = "dictate" THEN None ELSE @, !.listening = FALSE,
                             !.transcribing = TRUE])
    /\ UNCHANGED <<rough, acts>>

------------------------------------------------------------------------------
(* The voice chat *)

StartSession ==
    /\ page.kind = "voice" /\ HeaderOffers("start") /\ Settled
    /\ page' = Rendered([page EXCEPT !.session = TRUE])
    /\ UNCHANGED <<jobs, rough>>

\* The capture is stopped; the turn goes on with what it heard.
StopSession ==
    /\ page.kind = "voice" /\ HeaderOffers("stop")
    /\ page' = Rendered([page EXCEPT !.session = FALSE, !.held = None,
                                     !.listening = IF page.held = None THEN @ ELSE FALSE])
    /\ jobs' = {IF j.live /\ j.n = page.held THEN [j EXCEPT !.at = "ended"] ELSE j : j \in jobs}
    /\ UNCHANGED rough

\* The timer fires and listenForTurn asks for the microphone, unless a turn it
\* listened for is not over.
Listen ==
    /\ page.armed
    /\ LET pg == [page EXCEPT !.armed = FALSE]
       IN  CASE page.loop -> page' = pg /\ UNCHANGED jobs
             [] ~ page.loop /\ ~ (page.speech /\ page.chosen) ->
                    page' = [pg EXCEPT !.session = FALSE] /\ UNCHANGED jobs
             [] OTHER -> page' = [pg EXCEPT !.loop = TRUE] /\ Begin(Job("listen", "asked"))
    /\ UNCHANGED <<rough, acts>>

\* handleTranscript: without words the turn is over.
Transcribed(j) ==
    /\ j.at = "stt" /\ j.op = "listen"
    /\ LET pg == [page EXCEPT !.transcribing = FALSE]
       IN  \/ Gone(j) /\ Shows(j, [pg EXCEPT !.loop = FALSE, !.held = None])
           \/ Goes(j, "start") /\ Shows(j, [pg EXCEPT !.sending = TRUE, !.talk = TRUE])
    /\ UNCHANGED <<rough, acts>>

NotTranscribed(j) ==
    /\ j.at = "stt" /\ j.op = "listen"
    /\ Gone(j)
    /\ Shows(j, [page EXCEPT !.listening = FALSE, !.transcribing = FALSE, !.loop = FALSE, !.held = None])
    /\ UNCHANGED <<rough, acts>>

\* sendTypedMessage
SendTyped ==
    /\ page.kind = "voice" /\ ComposerOffers("send") /\ Unheard
    /\ Begin(Job("typed", "start"))
    /\ page' = Rendered([page EXCEPT !.sending = TRUE, !.talk = TRUE])
    /\ UNCHANGED rough

\* Clear, offered by both pages.
ClearTranscript ==
    /\ page.talk /\ IF page.kind = "voice" THEN ComposerOffers("clear") ELSE ~ page.sending
    /\ page' = [page EXCEPT !.talk = FALSE]
    /\ UNCHANGED <<jobs, rough>>

\* The reply is there; without a text nothing is spoken.
Replied(j) ==
    /\ j.at = "stream" /\ ~ j.over /\ j.op # "send"
    /\ \/ Gone(j) /\ Shows(j, Over(j.op, page))
       \/ Goes(j, "queue") /\ UNCHANGED page
    /\ UNCHANGED <<rough, acts>>

\* speakReply: the replies of one page are spoken one after the other.
Speak(j) ==
    /\ j.at = "queue" /\ (j.live => \A o \in jobs : ~ (o.live /\ o.at = "speak"))
    /\ Goes(j, "speak")
    /\ Shows(j, [page EXCEPT !.speaking = TRUE])
    /\ UNCHANGED <<rough, acts>>

Spoken(j) ==
    /\ j.at = "speak"
    /\ Gone(j)
    /\ Shows(j, Over(j.op, [page EXCEPT !.speaking = FALSE]))
    /\ UNCHANGED <<rough, acts>>

------------------------------------------------------------------------------
(* The direct chat *)

Send ==
    /\ page.kind = "direct" /\ ~ page.sending /\ page.chosen
    /\ Begin(Job("send", "start"))
    /\ page' = [page EXCEPT !.sending = TRUE, !.talk = TRUE]
    /\ UNCHANGED rough

\* toggleListening
StartDictating ==
    /\ page.kind = "direct" /\ ~ page.listening /\ ~ page.transcribing /\ Unheard
    /\ Begin(Job("dictate", "asked"))
    /\ UNCHANGED <<page, rough>>

\* Until the capture has come to its end it can be stopped a second time, and
\* is then transcribed twice.
StopDictating ==
    /\ page.kind = "direct" /\ page.listening /\ page.held # None /\ ~ page.transcribing
    /\ IF \E j \in Mics : j.live /\ j.n = page.held
       THEN jobs' = {IF j.live /\ j.n = page.held THEN [j EXCEPT !.at = "ended"] ELSE j : j \in jobs}
       ELSE rough /\ Begin(Job("dictate", "ended"))
    /\ UNCHANGED <<page, rough>>

\* The transcript is added to the draft, or there is none.  The page waits for
\* the transcription that was asked for last only.
Dictated(j) ==
    /\ j.at = "stt" /\ j.op = "dictate"
    /\ Gone(j)
    /\ \E p \in {FALSE, \E o \in Heard \ {j} : o.at = "stt"} : Shows(j, [page EXCEPT !.transcribing = p])
    /\ UNCHANGED <<rough, acts>>

\* Two minutes after the start; the flag goes down whoever raised it.
Timer(j) ==
    /\ j.op = "send" /\ j.at \in {"stream", "timer"}
    /\ Gone(j)
    /\ page' = [page EXCEPT !.sending = FALSE]
    /\ UNCHANGED <<rough, acts>>

\* chat_stream_done and chat_stream_error
Answered(j) ==
    /\ j.at = "stream" /\ ~ j.over /\ j.op = "send"
    /\ Goes(j, "timer")
    /\ page' = [page EXCEPT !.sending = FALSE]
    /\ UNCHANGED <<rough, acts>>

------------------------------------------------------------------------------
(* The streams of both *)

\* Until the call has answered the page does not know its stream: an end that
\* comes before is dropped.
StreamOver(j) ==
    /\ j.at = "start" /\ ~ j.over
    /\ jobs' = (jobs \ {j}) \cup {[j EXCEPT !.over = TRUE]}
    /\ UNCHANGED <<page, rough, acts>>

Started(j) ==
    /\ j.at = "start"
    /\ Goes(j, "stream")
    /\ UNCHANGED <<page, rough, acts>>

\* The start is refused, or a stream of the voice page ends in an error.
Failed(j) ==
    /\ j.at = "start" \/ (j.at = "stream" /\ ~ j.over /\ j.op # "send")
    /\ Gone(j)
    /\ Shows(j, Over(j.op, page))
    /\ UNCHANGED <<rough, acts>>

------------------------------------------------------------------------------
Init ==
    /\ \E kind \in {"direct", "voice"} : page = [Fresh(kind) EXCEPT !.chosen = TRUE]
    /\ jobs = {} /\ rough \in BOOLEAN /\ acts = 0

Act ==
    \/ SelectModel \/ StartSession \/ StopSession \/ SendTyped \/ ClearTranscript
    \/ Send \/ StartDictating \/ StopDictating
    \/ \E kind \in {"direct", "voice"} : Show(kind)

Serve(j) ==
    \/ MicGranted(j) \/ MicRefused(j) \/ Silence(j) \/ Ended(j)
    \/ Transcribed(j) \/ NotTranscribed(j) \/ Replied(j) \/ Speak(j) \/ Spoken(j)
    \/ Dictated(j) \/ Timer(j) \/ Answered(j) \/ StreamOver(j) \/ Started(j) \/ Failed(j)

Next == (Acts /\ Act) \/ ChooseModel \/ SettingsRead \/ Listen \/ (\E j \in jobs : Serve(j))

\* The start of a stream is answered and its timer fires.  That the stream
\* ends is not assumed, nor that its end is heard.
Spec == Init /\ [][Next]_vars
             /\ \A n \in Slots : WF_vars(\E j \in jobs : j.n = n /\ (Started(j) \/ Timer(j)))

------------------------------------------------------------------------------
(* Properties *)

TypeOK ==
    /\ page \in [kind : {"direct", "voice"}, chosen : BOOLEAN, speech : BOOLEAN, enabled : BOOLEAN,
                 read : BOOLEAN, session : BOOLEAN, listening : BOOLEAN, transcribing : BOOLEAN,
                 sending : BOOLEAN, speaking : BOOLEAN, loop : BOOLEAN, held : {None} \cup Slots,
                 armed : BOOLEAN, talk : BOOLEAN]
    /\ \A j \in jobs : j.n \in Slots /\ j.op \in {"listen", "typed", "send", "dictate"}
    /\ \A i, j \in jobs : i.n = j.n => i = j

\* For a person who waits, however pages are left and whatever a page that was
\* left still does: one capture is open in the application at most, and none
\* while a reply is spoken, so it does not answer itself.  For any other person
\* this holds of a visit of the voice page alone, and of its captures only: it
\* has one of its own, while the turn of an earlier visit may record and speak
\* beside it.
HalfDuplex ==
    /\ ~ rough => /\ \A i, j \in Mics : i = j
                  /\ ~ \E j \in Mics, o \in jobs : o.at = "speak"
    /\ page.kind = "voice" => \A i, j \in Mics : i.live /\ j.live => i = j

\* The direct chat never stays busy, although the end of a stream can be missed.
Settles == (page.kind = "direct" /\ page.sending) ~> ~ (page.kind = "direct" /\ page.sending)
==============================================================================
