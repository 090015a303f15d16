---------------------------- MODULE SpeakingClient ----------------------------
(***************************************************************************)
(* The browser's side of a speaking session: the hook                      *)
(* useSpeakingRealtimeSession behind the chat of the practice centre.      *)
(*                                                                         *)
(* One mount of the hook fetches a ticket, opens one WebSocket, and from   *)
(* then on is a set of callbacks that share a handful of refs: the         *)
(* socket's events, the user's clicks, the microphone (getUserMedia, the   *)
(* recorder's stop event, the reader of the blob) and the speech engine    *)
(* with its fallback timers.  One action here is one callback, run to its  *)
(* next await.  React's state updates are applied when the callback ends.  *)
(*                                                                         *)
(* A turn is the number of the user message that asked for it; an entry of *)
(* the transcript counts its content in words.                             *)
(***************************************************************************)
EXTENDS Integers, Sequences, FiniteSetsExt

CONSTANTS
    MaxTurns,  \* bound: turns the user takes
    Words,     \* words of every reply of the tutor
    MaxMics,   \* bound: calls of getUserMedia
    MaxFaults  \* bound: lost connections, refused calls and failed requests

ASSUME SpeakingClientAssumption ==
    /\ {MaxTurns, MaxMics, MaxFaults} \subseteq Nat
    /\ Words \in Nat \ {0}

VARIABLES
    mounted,     \* the component is on the page
    status,      \* SpeakingRealtimeStatus
    fetching,    \* the request for a ticket: "asked", "answered", "failed", "done"
    ticket,      \* speaking-ticket:{ticket} in Redis
    socket,      \* the WebSocket's own state
    socketRef,   \* socketRef.current is that socket
    startedRef,  \* startedRef.current
    closeRef,    \* closeRequestedRef.current
    pending,     \* pendingTurnMessageIdRef.current, 0 when null
    messages,    \* the transcript
    taken,       \* turns taken so far
    mic,         \* mic[k]: the k-th call of getUserMedia and its recorder
    live,        \* streams whose tracks are running
    recorderRef, \* mediaRecorderRef.current, 0 when null
    streamRef,   \* mediaStreamRef.current, 0 when null
    chunks,      \* audioChunksRef.current is not empty
    cancelRef,   \* cancelRecordingRef.current
    speech,      \* activeSpeechRef.current
    up,          \* frames on their way to AGT-03
    down,        \* frames on their way to the browser
    server,      \* handle_session, at the other end
    endAsked,    \* the user asked for the end (history)
    late,        \* streams granted when no recording was wanted any more (history)
    refused,     \* an error frame arrived (history)
    faults       \* failures so far

micVars == <<mic, live, recorderRef, streamRef, chunks, cancelRef>>
netVars == <<ticket, up, down, server>>
refVars == <<socketRef, startedRef, closeRef>>
history == <<endAsked, late, refused>>
vars == <<mounted, status, fetching, socket, refVars, pending, messages, taken,
          micVars, speech, netVars, history, faults>>

Turns == 1 .. MaxTurns
Mics == 1 .. MaxMics

Statuses == {"idle", "ready", "recording", "sending", "receiving", "ending", "ended", "error"}

\* "failing": an error event and then a close event are due; "closing": a
\* close event is due.
Sockets == {"none", "connecting", "open", "failing", "closing", "closed"}

\* A request for the microphone: asked, recording, stopped with its stop event
\* due, its blob being read, done.
MicStates == {"unused", "asked", "rec", "stopping", "reading", "done"}

\* An entry of the transcript: transcribed and coached are for the user's,
\* shown (words revealed) and speaking for the tutor's.
Entries == [speaker : {"ai", "user"}, turn : 0 .. MaxTurns, transcribed : BOOLEAN,
            coached : BOOLEAN, shown : 0 .. Words, speaking : BOOLEAN]

Frames == [type : {"start", "end", "session_started", "session_ended", "error"}, turn : {0}]
          \cup [type : {"turn", "turn_result", "turn_feedback"}, turn : Turns]
Frame(type, turn) == [type |-> type, turn |-> turn]

\* ActiveAssistantSpeech: the entry spoken, the two fallback timers, the index
\* of the next word to reveal, and whether the engine reports word boundaries.
NoSpeech == [entry |-> 0, startTimer |-> FALSE, interval |-> FALSE, word |-> 0, heard |-> FALSE]
Speeches == [entry : 0 .. 2 * MaxTurns + 1, startTimer : BOOLEAN, interval : BOOLEAN,
             word : 0 .. Words + 1, heard : BOOLEAN]

\* handle_session: waiting for a frame, about to answer a turn or to give its
\* feedback.
Server == [at : {"none", "receive", "reply", "feedback", "closed"},
           started : BOOLEAN, turn : 0 .. MaxTurns]
NoServer == [at |-> "none", started |-> FALSE, turn |-> 0]

TypeOK ==
    /\ {mounted, socketRef, startedRef, closeRef, chunks, cancelRef, endAsked, refused} \subseteq BOOLEAN
    /\ status \in Statuses
    /\ fetching \in {"asked", "answered", "failed", "done"}
    /\ ticket \in {"none", "issued", "gone"}
    /\ socket \in Sockets
    /\ pending \in 0 .. MaxTurns /\ taken \in 0 .. MaxTurns
    /\ messages \in Seq(Entries)
    /\ mic \in [Mics -> MicStates] /\ live \subseteq Mics /\ late \subseteq Mics
    /\ recorderRef \in 0 .. MaxMics /\ streamRef \in 0 .. MaxMics
    /\ speech \in Speeches /\ speech.entry <= Len(messages)
    /\ up \in Seq(Frames) /\ down \in Seq(Frames)
    /\ server \in Server
    /\ faults \in 0 .. MaxFaults

\* The effect of the first render has called connect().
Init ==
    /\ mounted = TRUE /\ status = "idle"
    /\ fetching = "asked" /\ ticket = "none" /\ socket = "none"
    /\ socketRef = FALSE /\ startedRef = FALSE /\ closeRef = FALSE
    /\ pending = 0 /\ messages = <<>> /\ taken = 0
    /\ mic = [k \in Mics |-> "unused"] /\ live = {}
    /\ recorderRef = 0 /\ streamRef = 0 /\ chunks = FALSE /\ cancelRef = FALSE
    /\ speech = NoSpeech
    /\ up = <<>> /\ down = <<>> /\ server = NoServer
    /\ endAsked = FALSE /\ late = {} /\ refused = FALSE
    /\ faults = 0

Fault == /\ faults < MaxFaults
         /\ faults' = faults + 1

-----------------------------------------------------------------------------
(* What the chat lets the user do.                                          *)

EffectiveStatus == IF status = "idle" THEN "connecting" ELSE status
CanSendTurn == EffectiveStatus = "ready" /\ pending = 0
IsBusy == EffectiveStatus \in {"connecting", "sending", "receiving", "ending"}
IsSessionClosed == EffectiveStatus \in {"ended", "error"}
CanUseMic == status = "recording" \/ (~IsBusy /\ ~IsSessionClosed /\ CanSendTurn)

\* A WebSocket only takes a frame while it is open.
Connected == socketRef /\ socket = "open"

\* What stands on the screen of an entry: displayContent while it is spoken.
Displayed(entry) == IF entry.speaking THEN entry.shown ELSE Words

-----------------------------------------------------------------------------
(* The voice of the tutor and the reveal of its words.                      *)

\* (mutant) The words of the last report, be they fewer.
RevealLast(log, entry, words) == [log EXCEPT ![entry].shown = words, ![entry].speaking = TRUE]
Reveal(log, entry, words) ==
    [log EXCEPT ![entry].shown = IF words > @ THEN words ELSE @, ![entry].speaking = TRUE]
FinishReveal(log, entry) == [log EXCEPT ![entry].shown = Words, ![entry].speaking = FALSE]

\* What stopActiveSpeech leaves of a transcript.
SpeechStopped(log) == IF speech.entry = 0 THEN log ELSE FinishReveal(log, speech.entry)

\* speakAssistantReply for the entry at this place: the fallback waits for the
\* engine; without one, or if speak() throws, there is nothing to wait for.
SpeechOf(entry, spoken) ==
    IF spoken THEN [NoSpeech EXCEPT !.entry = entry, !.startTimer = TRUE] ELSE NoSpeech

Reply(turn, spoken) ==
    [speaker |-> "ai", turn |-> turn, transcribed |-> TRUE, coached |-> FALSE,
     shown |-> IF spoken THEN 0 ELSE Words, speaking |-> spoken]

\* The message before the new one is shown in full.
AppendAssistantMessage(log, turn, spoken) ==
    /\ messages' = Append(SpeechStopped(log), Reply(turn, spoken))
    /\ speech' = SpeechOf(Len(log) + 1, spoken)

voiceFrame == <<mounted, status, fetching, socket, refVars, pending, taken, micVars, netVars, history, faults>>

OnUtteranceStart ==
    /\ speech.entry # 0
    /\ messages' = Reveal(messages, speech.entry, 1)
    /\ UNCHANGED <<voiceFrame, speech>>

\* A boundary at a later word than the first shows that the engine reports
\* them: the fallback is called off.
OnBoundary(word) ==
    /\ speech.entry # 0
    /\ messages' = Reveal(messages, speech.entry, word)
    /\ speech' = IF word = 1 THEN speech
                 ELSE [speech EXCEPT !.startTimer = FALSE, !.interval = FALSE, !.heard = TRUE]
    /\ UNCHANGED voiceFrame

\* onend and onerror
FinishActiveSpeech ==
    /\ speech.entry # 0
    /\ messages' = FinishReveal(messages, speech.entry)
    /\ speech' = NoSpeech
    /\ UNCHANGED voiceFrame

\* The timer of FALLBACK_REVEAL_START_DELAY_MS: the first word not shown yet
\* is revealed and the interval set up for the others.
StartFallbackReveal ==
    /\ speech.startTimer
    /\ LET next == messages[speech.entry].shown + 1
       IN IF next > Words
          THEN /\ speech' = [speech EXCEPT !.startTimer = FALSE]
               /\ UNCHANGED messages
          ELSE /\ speech' = [speech EXCEPT !.startTimer = FALSE, !.interval = TRUE, !.word = next + 1]
               /\ messages' = Reveal(messages, speech.entry, next)
    /\ UNCHANGED voiceFrame

\* (mutant) The interval never finds the end of the words.
RevealNextUnbounded ==
    /\ speech.interval
    /\ speech' = [speech EXCEPT !.word = @ + 1]
    /\ messages' = Reveal(messages, speech.entry, speech.word)
    /\ UNCHANGED voiceFrame

RevealNextFallbackWord ==
    /\ speech.interval
    /\ IF speech.word > Words
       THEN /\ speech' = [speech EXCEPT !.interval = FALSE]
            /\ UNCHANGED messages
       ELSE /\ speech' = [speech EXCEPT !.word = @ + 1]
            /\ messages' = Reveal(messages, speech.entry, speech.word)
    /\ UNCHANGED voiceFrame

-----------------------------------------------------------------------------
(* Turns.                                                                   *)

\* The user's entry of the next turn, and the frame that carries it.  A frame
\* that cannot be sent leaves the entry, an error and no pending turn.
TakeTurn(log, transcribed) ==
    LET turn == taken + 1
        entry == [speaker |-> "user", turn |-> turn, transcribed |-> transcribed,
                  coached |-> FALSE, shown |-> Words, speaking |-> FALSE]
    IN /\ taken < MaxTurns
       /\ taken' = turn
       /\ messages' = Append(log, entry)
       /\ IF Connected
          THEN /\ up' = Append(up, Frame("turn", turn))
               /\ pending' = turn
               /\ status' = "receiving"
          ELSE /\ UNCHANGED <<up, pending>>
               /\ status' = "error"

\* sendText, from the form of the chat
SendText ==
    /\ mounted /\ CanSendTurn
    /\ TakeTurn(messages, TRUE)
    /\ UNCHANGED <<mounted, fetching, socket, refVars, micVars, speech, ticket, down, server, history, faults>>

-----------------------------------------------------------------------------
(* The microphone.                                                          *)

\* stopMediaTracks: a recorder whose tracks are all stopped stops by itself.
\* m: the states of the recorders.
TracksStopped(m) == IF streamRef # 0 /\ m[streamRef] = "rec" THEN [m EXCEPT ![streamRef] = "stopping"] ELSE m
StopMediaTracks == live' = live \ {streamRef} /\ streamRef' = 0

micFrame == <<mounted, fetching, socket, refVars, speech, ticket, down, server, endAsked, refused>>

\* startRecording, to its await.  Nothing shows that it is waiting.
StartRecording(k) ==
    /\ mounted /\ CanUseMic /\ status # "recording"
    /\ mic[k] = "unused" /\ \A j \in Mics : j < k => mic[j] # "unused"
    /\ mic' = [mic EXCEPT ![k] = "asked"]
    /\ UNCHANGED <<micFrame, status, pending, messages, taken, live, recorderRef, streamRef, chunks, cancelRef, up, late, faults>>

\* getUserMedia is granted: whatever has happened meanwhile, a recorder starts.
MicGranted(k) ==
    /\ mic[k] = "asked"
    /\ mic' = [mic EXCEPT ![k] = "rec"]
    /\ live' = live \cup {k}
    /\ recorderRef' = k /\ streamRef' = k
    /\ chunks' = FALSE /\ cancelRef' = FALSE
    /\ status' = "recording"
    /\ late' = IF mounted /\ status = "ready" /\ ~\E j \in Mics : mic[j] = "rec" THEN late ELSE late \cup Mics
    /\ UNCHANGED <<micFrame, pending, messages, taken, up, faults>>

\* ... or refused.
MicDenied(k) ==
    /\ mic[k] = "asked" /\ Fault
    /\ mic' = [TracksStopped(mic) EXCEPT ![k] = "done"]
    /\ StopMediaTracks
    /\ status' = "error"
    /\ UNCHANGED <<micFrame, pending, messages, taken, recorderRef, chunks, cancelRef, up, late>>

StopRecording ==
    /\ mounted /\ status = "recording"
    /\ recorderRef # 0 /\ mic[recorderRef] = "rec"
    /\ mic' = [mic EXCEPT ![recorderRef] = "stopping"]
    /\ status' = "sending"
    /\ UNCHANGED <<micFrame, pending, messages, taken, live, recorderRef, streamRef, chunks, cancelRef, up, late, faults>>

\* The last dataavailable, which may be empty, and the stop event:
\* handleRecordingStop, to its await.
HandleRecordingStop(k, sound) ==
    /\ mic[k] = "stopping"
    /\ cancelRef' = FALSE /\ recorderRef' = 0
    /\ StopMediaTracks
    /\ chunks' = FALSE
    /\ LET m == TracksStopped(mic)
       IN CASE cancelRef -> mic' = [m EXCEPT ![k] = "done"] /\ UNCHANGED status
            [] ~cancelRef /\ ~chunks /\ ~sound -> mic' = [m EXCEPT ![k] = "done"] /\ status' = "ready"
            [] OTHER -> mic' = [m EXCEPT ![k] = "reading"] /\ UNCHANGED status
    /\ UNCHANGED <<micFrame, pending, messages, taken, up, late, faults>>

\* (mutant) The turn is sent though another one is pending.
SendAudioAlways(k) ==
    /\ mic[k] = "reading"
    /\ mic' = [mic EXCEPT ![k] = "done"]
    /\ TakeTurn(messages, FALSE)
    /\ UNCHANGED <<micFrame, live, recorderRef, streamRef, chunks, cancelRef, late, faults>>

\* blobToBase64 is done: sendAudioTurn, which drops the recording if a turn is
\* pending.
SendAudioTurn(k) ==
    /\ mic[k] = "reading"
    /\ mic' = [mic EXCEPT ![k] = "done"]
    /\ IF pending # 0 THEN UNCHANGED <<status, pending, messages, taken, up>>
       ELSE TakeTurn(messages, FALSE)
    /\ UNCHANGED <<micFrame, live, recorderRef, streamRef, chunks, cancelRef, late, faults>>

BlobFails(k) ==
    /\ mic[k] = "reading" /\ Fault
    /\ mic' = [mic EXCEPT ![k] = "done"]
    /\ status' = "error"
    /\ UNCHANGED <<micFrame, pending, messages, taken, live, recorderRef, streamRef, chunks, cancelRef, up, late>>

\* (mutant) Only the flag is set.
AbortByFlag ==
    /\ cancelRef' = TRUE /\ chunks' = FALSE
    /\ UNCHANGED <<mic, live, recorderRef, streamRef>>

AbortRecording ==
    /\ cancelRef' = TRUE /\ chunks' = FALSE
    /\ IF recorderRef # 0 /\ mic[recorderRef] = "rec"
       THEN /\ mic' = [mic EXCEPT ![recorderRef] = "stopping"]
            /\ UNCHANGED <<live, recorderRef, streamRef>>
       ELSE /\ mic' = TracksStopped(mic)
            /\ StopMediaTracks
            /\ recorderRef' = 0

-----------------------------------------------------------------------------
(* The connection, as the browser sees it.                                  *)

\* A CONNECTING socket that is closed fails; an open one closes.
Closed(s) == CASE s = "connecting" -> "failing" [] s = "open" -> "closing" [] OTHER -> s

connFrame == <<pending, messages, taken, speech, micVars, history, faults>>

\* The ticket has arrived: unless the component is gone, the socket is made.
Connect ==
    /\ fetching = "answered"
    /\ fetching' = "done"
    /\ IF mounted THEN socket' = "connecting" /\ socketRef' = TRUE
       ELSE UNCHANGED <<socket, socketRef>>
    /\ UNCHANGED <<connFrame, mounted, status, startedRef, closeRef, netVars>>

ConnectFails ==
    /\ fetching = "failed"
    /\ fetching' = "done"
    /\ status' = IF mounted THEN "error" ELSE status
    /\ UNCHANGED <<connFrame, mounted, socket, refVars, netVars>>

\* The open event, after AGT-03 has accepted: start is sent.
OnOpen ==
    /\ socket = "connecting" /\ server.at = "receive"
    /\ socket' = "open"
    /\ up' = IF socketRef THEN Append(up, Frame("start", 0)) ELSE up
    /\ UNCHANGED <<connFrame, mounted, status, fetching, refVars, ticket, down, server>>

OnErrorEvent ==
    /\ socket = "failing"
    /\ socket' = "closing"
    /\ status' = IF socketRef THEN "error" ELSE status
    /\ UNCHANGED <<connFrame, mounted, fetching, refVars, netVars>>

OnClose ==
    /\ socket = "closing" \/ (socket = "open" /\ server.at = "closed" /\ down = <<>>)
    /\ socket' = "closed"
    /\ socketRef' = FALSE
    /\ IF ~socketRef THEN UNCHANGED <<mic, live, streamRef, startedRef, status>>
       ELSE /\ mic' = TracksStopped(mic)
            /\ StopMediaTracks
            /\ startedRef' = IF closeRef THEN FALSE ELSE startedRef
            /\ status' = IF closeRef THEN "ended" ELSE "error"
    /\ UNCHANGED <<mounted, fetching, closeRef, pending, messages, taken, speech, recorderRef, chunks, cancelRef, netVars, history, faults>>

-----------------------------------------------------------------------------
(* The frames of AGT-03.                                                    *)

\* (mutant) The answer is put to whichever turn is pending.
AnsweredPending(turn) ==
    [i \in DOMAIN messages |->
        IF messages[i].speaker = "user" /\ messages[i].turn = pending
        THEN [messages[i] EXCEPT !.transcribed = TRUE] ELSE messages[i]]

\* updatePendingUserTurn and applyTurnFeedback find the entry by its turn.
Answered(turn) ==
    [i \in DOMAIN messages |->
        IF messages[i].speaker = "user" /\ messages[i].turn = turn
        THEN [messages[i] EXCEPT !.transcribed = TRUE] ELSE messages[i]]
Coached(turn) ==
    [i \in DOMAIN messages |->
        IF messages[i].turn = turn THEN [messages[i] EXCEPT !.coached = TRUE] ELSE messages[i]]

\* Frames reach the handler while the socket is open and still the hook's.
Receive(type) ==
    /\ socket = "open" /\ socketRef /\ down # <<>> /\ Head(down).type = type
    /\ down' = Tail(down)
    /\ UNCHANGED <<mounted, fetching, socket, socketRef, taken, micVars, ticket, up, server, endAsked, late, faults>>

OnSessionStarted ==
    /\ Receive("session_started")
    /\ startedRef' = TRUE
    /\ \E spoken \in BOOLEAN : AppendAssistantMessage(messages, 0, spoken)
    /\ status' = "ready"
    /\ UNCHANGED <<closeRef, pending, refused>>

OnTurnResult ==
    /\ Receive("turn_result")
    /\ LET turn == Head(down).turn
       IN /\ pending' = IF pending = turn THEN 0 ELSE pending
          /\ \E spoken \in BOOLEAN : AppendAssistantMessage(Answered(turn), turn, spoken)
    /\ status' = IF closeRef THEN status ELSE "ready"
    /\ UNCHANGED <<startedRef, closeRef, refused>>

OnTurnFeedback ==
    /\ Receive("turn_feedback")
    /\ messages' = Coached(Head(down).turn)
    /\ UNCHANGED <<status, startedRef, closeRef, pending, speech, refused>>

OnSessionEnded ==
    /\ Receive("session_ended")
    /\ startedRef' = FALSE /\ closeRef' = TRUE
    /\ status' = "ended"
    /\ UNCHANGED <<pending, messages, speech, refused>>

\* (mutant) The error is noted, the status kept.
OnErrorFrameNoted ==
    /\ Receive("error")
    /\ pending' = 0
    /\ refused' = TRUE
    /\ UNCHANGED <<status, startedRef, closeRef, messages, speech>>

OnErrorFrame ==
    /\ Receive("error")
    /\ pending' = 0
    /\ status' = "error"
    /\ refused' = TRUE
    /\ UNCHANGED <<startedRef, closeRef, messages, speech>>

-----------------------------------------------------------------------------
(* The end.                                                                 *)

endFrame == <<mounted, fetching, pending, taken, ticket, down, server, late, refused, faults>>

\* endSession: the socket may not be there yet, may be on its way, or may hold
\* a session.
EndSession ==
    /\ mounted /\ EffectiveStatus \notin {"ending", "ended"}
    /\ endAsked' = TRUE
    /\ closeRef' = TRUE
    /\ AbortRecording
    /\ messages' = SpeechStopped(messages) /\ speech' = NoSpeech
    /\ IF ~socketRef
       THEN startedRef' = FALSE /\ status' = "ended" /\ UNCHANGED <<socket, up>>
       ELSE IF socket = "open" /\ startedRef
            THEN up' = Append(up, Frame("end", 0)) /\ status' = "ending" /\ UNCHANGED <<socket, startedRef>>
            ELSE socket' = Closed(socket) /\ status' = "ending" /\ UNCHANGED <<up, startedRef>>
    /\ UNCHANGED <<endFrame, socketRef>>

\* The cleanup of the effect.
Unmount ==
    /\ mounted
    /\ mounted' = FALSE
    /\ AbortRecording
    /\ speech' = NoSpeech
    /\ IF socketRef
       THEN /\ closeRef' = TRUE /\ socketRef' = FALSE /\ socket' = Closed(socket)
            /\ up' = IF socket = "open" /\ startedRef THEN Append(up, Frame("end", 0)) ELSE up
       ELSE UNCHANGED <<closeRef, socketRef, socket, up>>
    /\ UNCHANGED <<status, fetching, pending, taken, ticket, down, server, late, refused, faults,
                   startedRef, endAsked, messages>>

-----------------------------------------------------------------------------
(* The other end: the ticket route and AGT-03's handler, in outline.        *)

hookVars == <<mounted, status, refVars, pending, messages, taken, micVars, speech, history>>

\* POST /api/speaking/session-ticket is answered with a fresh ticket.
IssueTicket ==
    /\ fetching = "asked"
    /\ fetching' = "answered" /\ ticket' = "issued"
    /\ UNCHANGED <<hookVars, socket, up, down, server, faults>>

TicketRefused ==
    /\ fetching = "asked" /\ Fault
    /\ fetching' = "failed"
    /\ UNCHANGED <<hookVars, socket, netVars>>

TicketExpires ==
    /\ ticket = "issued" /\ Fault
    /\ ticket' = "gone"
    /\ UNCHANGED <<hookVars, fetching, socket, up, down, server>>

\* consume_ticket at the handshake: the socket is accepted or refused.
Admit ==
    /\ socket = "connecting" /\ server.at = "none"
    /\ ticket' = "gone"
    /\ IF ticket = "issued" THEN server' = [server EXCEPT !.at = "receive"] /\ UNCHANGED socket
       ELSE server' = [server EXCEPT !.at = "closed"] /\ socket' = "failing"
    /\ UNCHANGED <<hookVars, fetching, up, down, faults>>

Serve(type) ==
    /\ server.at = "receive" /\ up # <<>> /\ Head(up).type = type
    /\ up' = Tail(up)
    /\ UNCHANGED <<hookVars, fetching, ticket, socket>>

ServeStart ==
    /\ Serve("start")
    /\ \/ down' = Append(down, Frame("session_started", 0)) /\ server' = [server EXCEPT !.started = TRUE] /\ UNCHANGED faults
       \/ down' = Append(down, Frame("error", 0)) /\ Fault /\ UNCHANGED server

ServeTurn ==
    /\ Serve("turn")
    /\ server' = [server EXCEPT !.at = "reply", !.turn = Head(up).turn]
    /\ UNCHANGED <<down, faults>>

ServeEnd ==
    /\ Serve("end")
    /\ \/ /\ down' = Append(down, Frame("session_ended", 0))
          /\ server' = [NoServer EXCEPT !.at = "closed"] /\ UNCHANGED faults
       \/ down' = Append(down, Frame("error", 0)) /\ Fault /\ UNCHANGED server

Answer ==
    /\ server.at \in {"reply", "feedback"}
    /\ \/ /\ down' = Append(down, Frame(IF server.at = "reply" THEN "turn_result" ELSE "turn_feedback", server.turn))
          /\ server' = IF server.at = "reply" THEN [server EXCEPT !.at = "feedback"]
                       ELSE [server EXCEPT !.at = "receive", !.turn = 0]
          /\ UNCHANGED faults
       \/ /\ down' = Append(down, Frame("error", 0)) /\ Fault
          /\ server' = [server EXCEPT !.at = "receive", !.turn = 0]
    /\ UNCHANGED <<hookVars, fetching, ticket, socket, up>>

\* WebSocketDisconnect: the finally block ends a started session.
ServerSeesClose ==
    /\ server.at = "receive" /\ up = <<>> /\ socket \in {"failing", "closing", "closed"}
    /\ server' = [NoServer EXCEPT !.at = "closed"]
    /\ UNCHANGED <<hookVars, fetching, ticket, socket, up, down, faults>>

\* The network drops the connection, and what was on its way.
ConnectionLost ==
    /\ socket \in {"connecting", "open"} /\ Fault
    /\ socket' = "failing"
    /\ up' = <<>> /\ down' = <<>>
    /\ UNCHANGED <<hookVars, fetching, ticket, server>>

-----------------------------------------------------------------------------
User == SendText \/ EndSession \/ Unmount \/ StopRecording \/ \E k \in Mics : StartRecording(k)
Recorder ==
    \E k \in Mics : SendAudioTurn(k) \/ \E sound \in BOOLEAN : HandleRecordingStop(k, sound)
Permission == \E k \in Mics : MicGranted(k) \/ MicDenied(k) \/ BlobFails(k)
Fallback == StartFallbackReveal \/ RevealNextFallbackWord
Engine == OnUtteranceStart \/ FinishActiveSpeech \/ \E word \in 1 .. Words : OnBoundary(word)
Browser ==
    \/ Connect \/ ConnectFails \/ OnOpen \/ OnErrorEvent \/ OnClose
    \/ OnSessionStarted \/ OnTurnResult \/ OnTurnFeedback \/ OnSessionEnded \/ OnErrorFrame
Backend == IssueTicket \/ Admit \/ ServeStart \/ ServeTurn \/ ServeEnd \/ Answer \/ ServerSeesClose
Network == TicketRefused \/ TicketExpires \/ ConnectionLost

Next == User \/ Recorder \/ Permission \/ Fallback \/ Engine \/ Browser \/ Backend \/ Network

Spec == Init /\ [][Next]_vars

\* Events that have happened are delivered, timers expire, the handler answers;
\* the user and the permission prompt owe nothing, nor does a speech engine
\* that has not shown that it runs.
Fairness ==
    /\ WF_vars(Browser) /\ WF_vars(Backend) /\ WF_vars(Recorder) /\ WF_vars(Fallback)
    /\ WF_vars(speech.heard /\ FinishActiveSpeech)
FairSpec == Spec /\ Fairness

-----------------------------------------------------------------------------
(* Properties.                                                              *)

Unanswered == {t \in 1 .. taken : ~\E i \in DOMAIN messages : messages[i].speaker = "ai" /\ messages[i].turn = t}
OnTheWay == Unanswered \cap ({up[i].turn : i \in DOMAIN up} \cup {down[i].turn : i \in DOMAIN down} \cup {server.turn})

\* AGT-03 is sent one turn at a time: text and audio share the pending turn, so
\* a second one leaves the browser before the first is answered only after an
\* error frame has cleared it.
OneTurnUnlessRefused == Cardinality(OnTheWay) > 1 => refused

\* The transcript is a conversation: a reply stands behind the turn it answers,
\* each turn has at most one, and an audio turn keeps its "processing" text
\* until its own answer has come.
AnswersFollowTurns ==
    /\ \A i, j \in DOMAIN messages :
          messages[i].speaker = "ai" /\ messages[j].speaker = "user" /\ messages[i].turn = messages[j].turn => j < i
    /\ \A i, j \in DOMAIN messages :
          messages[i].speaker = messages[j].speaker /\ messages[i].turn = messages[j].turn => i = j
    /\ \A i \in DOMAIN messages :
          messages[i].speaker = "ai" /\ messages[i].turn # 0 =>
             \A j \in DOMAIN messages : messages[j].turn = messages[i].turn => messages[j].transcribed

\* The microphone is off once the page is left and the recorders have stopped,
\* except for one that was granted after the recording had lost its place
\* (the session ended, the page left, another recorder running).
MicOffUnlessLate ==
    ~mounted /\ (\A k \in Mics : mic[k] \notin {"asked", "stopping"}) => live \subseteq late

\* The chat does not wait for ever: the user who asked for the end is told so, or told of an
\* error; a turn that was sent is followed by an answer or an error, unless the end was asked for;
\* and every word is shown in the end, with an engine that reports its words and with a mute one.
ChatSettles ==
    /\ status = "ending" ~> status \in {"ended", "error"} \/ ~mounted
    /\ status = "receiving" /\ ~closeRef ~> status # "receiving" \/ closeRef \/ ~mounted
    /\ \A i \in 1 .. 2 * MaxTurns + 1 :
          i \in DOMAIN messages /\ mounted ~> ~mounted \/ (i \in DOMAIN messages /\ Displayed(messages[i]) = Words)

\* The engine's boundaries, the fallback's interval and the final reveal run in any order over one
\* entry: a word of the tutor, once on the screen, stays there (revealAssistantMessage takes the
\* maximum), and entries are never removed; and only the entry that is being spoken is shown in part.
WordsShown ==
    /\ [][ /\ Len(messages') >= Len(messages)
           /\ \A i \in DOMAIN messages : Displayed(messages'[i]) >= Displayed(messages[i]) ]_messages
    /\ [](mounted => \A i \in DOMAIN messages :
                        i # speech.entry => messages[i].shown = Words /\ ~messages[i].speaking)

\* docs/speaking-fe-be-integrate.md: "On explicit end, send { type: 'end' }".
\* A session the user has ended is not offered for another turn.
EndedStaysEnded == endAsked => status # "ready"
=============================================================================
