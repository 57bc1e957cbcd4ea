------------------------------- MODULE Streams -------------------------------
(***************************************************************************)
(* What becomes of a stream that dispatchChat opened: the wait for its     *)
(* first content and the watchdog (StreamWatch), the relay that reads the  *)
(* lines StreamWatch hands on, of the endpoint the client asked (ChatRelay,*)
(* AnthropicRelay, ResponsesRelay), and the request log (RequestLog).      *)
(*                                                                         *)
(* They meet in the lines, which the relays get in order and ended by the  *)
(* end of the file or an error (Replayed), and in the entry a finished     *)
(* call makes.  They share no other state, so each is a part on its own,   *)
(* chosen at the beginning, while the others rest.                         *)
(***************************************************************************)
EXTENDS StreamWatch, ChatRelay, AnthropicRelay, ResponsesRelay, RequestLog

VARIABLE part

relays      == <<answerVars, messagesVars, responsesVars>>
streamsVars == <<part, watchVars, relayVars, relays, logVars>>

StreamsInit ==
    /\ part \in {"watch", "chat", "answer", "log"}
    /\ WatchInit /\ RelayInit /\ AnswerInit /\ MessagesInit /\ ResponsesInit /\ LogInit

On(p, A) == part = p /\ A /\ UNCHANGED part

OnWatch(A)  == On("watch", A) /\ UNCHANGED <<relayVars, relays, logVars>>
OnChat(A)   == On("chat", A) /\ UNCHANGED <<watchVars, relays, logVars>>
OnAnswer(A) == On("answer", A) /\ UNCHANGED <<watchVars, relayVars, logVars>>
OnLog(A)    == On("log", A) /\ UNCHANGED <<watchVars, relayVars, relays>>

\* One relay reads an answer.
Messages  == AskMessages \/ TranslateMessage \/ CloseMessage
Responses ==
    AskResponse \/ TranslateResponse \/ CloseResponse \/ CompleteItem \/ EndResponse

AnswerNext ==
    \/ Messages /\ UNCHANGED responsesVars
    \/ Responses /\ UNCHANGED messagesVars
    \/ (Remember \/ GiveUp) /\ UNCHANGED <<messagesVars, responsesVars>>

StreamsNext ==
    OnWatch(WatchNext) \/ OnChat(RelayNext) \/ OnAnswer(AnswerNext) \/ OnLog(LogNext)

\* The goroutines of a stream go on, and time does while they wait; nothing is
\* assumed of the service and of the client.
StreamsSpec ==
    /\ StreamsInit /\ [][StreamsNext]_streamsVars
    /\ WF_watchVars(OnWatch(Work)) /\ WF_watchVars(OnWatch(Tick))

-----------------------------------------------------------------------------
\* Types, and the client's picture of an answer is the relay's.
StreamsTypeOK ==
    WatchTypeOK /\ RelayTypeOK /\ AnswerTypeOK /\ MessagesTypeOK /\ ResponsesTypeOK /\ LogTypeOK
=============================================================================
