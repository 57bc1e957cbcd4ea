----------------------------- MODULE AnswerRelay -----------------------------
(***************************************************************************)
(* A streamed answer of a service on its way through anthropic.go's        *)
(* anthropicRelay or responses.go's responsesRelay: what the two have in   *)
(* common, and what a client makes of the events they emit.                *)
(*                                                                         *)
(* The service, which is external, sends pieces of reasoning, text and     *)
(* tool calls (those of one line one after the other), a finish reason,    *)
(* [DONE], and the end of the file or an error.  A tool call comes in      *)
(* fragments, of which any may have its id and any may have arguments.     *)
(***************************************************************************)
EXTENDS SequencesExt, Integers

CONSTANTS
    Tool,       \* indexes of tool calls
    OwnForm,    \* do the service's lines have a form of their own?
    MaxPieces,  \* pieces of one answer (bound)
    NoTool

ASSUME AnswerConstants ==
    /\ MaxPieces \in Nat /\ OwnForm \in BOOLEAN /\ NoTool \notin Tool
    /\ {"thinking", "text"} \cap Tool = {}

VARIABLES
    endpoint,    \* "none", or what the client asked for: "messages", "responses",
                 \* or "response", which is not streamed
    pieces,      \* sent so far
    said,        \* of them, those that say something (observed)
    finish,      \* "none", "known" (stop, tool_calls, length, content_filter), "other"
    done,        \* has [DONE] been sent?
    failed,      \* has the service reported an error in the stream?
    end,         \* "none", or how the stream ended: "eof", "error"
    dead, over,  \* of the relay: has a write failed, has it returned?
    view         \* what the client has seen

service    == <<pieces, said, finish, done, failed, end>>
answerVars == <<endpoint, service, dead, over, view>>

Endpoints == {"messages", "responses", "response"}
Plain     == [kind: {"thinking", "text"}, tool: {NoTool}, has: {{"args"}}]
Fragment  == [kind: {"tool"}, tool: Tool, has: SUBSET {"id", "args"}]
Piece     == Plain \cup Fragment

\* A call is an item of its own, all reasoning one, all text another.
ItemOf(p) == IF p.kind = "tool" THEN p.tool ELSE p.kind
Item      == {"thinking", "text"} \cup Tool

-----------------------------------------------------------------------------
\* The service.  Nothing follows [DONE] but the end.
Sends == end = "none" /\ ~done

SendPiece(p) ==
    /\ Sends /\ finish = "none" /\ ~failed /\ Len(pieces) < MaxPieces
    /\ pieces' = Append(pieces, p)
    /\ said' = IF "args" \in p.has THEN Append(said, p) ELSE said
    /\ UNCHANGED <<finish, done, failed, end>>

SendFinish ==
    /\ Sends /\ finish = "none" /\ ~failed /\ finish' \in {"known", "other"}
    /\ UNCHANGED <<pieces, said, done, failed, end>>

SendError ==
    /\ Sends /\ finish = "none" /\ ~failed /\ failed' = TRUE
    /\ UNCHANGED <<pieces, said, finish, done, end>>

SendDone == Sends /\ done' = TRUE /\ UNCHANGED <<pieces, said, finish, failed, end>>

SendEnd ==
    /\ end = "none" /\ end' \in {"eof", "error"}
    /\ UNCHANGED <<pieces, said, finish, done, failed>>

-----------------------------------------------------------------------------
\* The client: the place in the protocol, the block that is open (messages),
\* the items announced and their ids, the ids of those completed, the pieces
\* got (NoTool for one it was not sent for), the end it was told, and the events
\* that came out of order.
NoBlock == [kind |-> "none", idx |-> -1, tool |-> NoTool]
Nothing == [place |-> "before", open |-> NoBlock, items |-> <<>>, ids |-> <<>>,
            dones |-> <<>>, got |-> <<>>, told |-> "none", wrong |-> {}]

Unless(b, event) == IF b THEN {} ELSE {event}

AnswerInit ==
    /\ endpoint = "none" /\ pieces = <<>> /\ said = <<>> /\ finish = "none" /\ done = FALSE
    /\ failed = FALSE /\ end = "none" /\ dead = FALSE /\ over = FALSE /\ view = Nothing

\* emit, of several events, by what the client has seen before each and after
\* all: at any of them it may have gone.
Emit(views) ==
    \/ view' = views[Len(views)] /\ dead' = FALSE
    \/ \E n \in 1 .. Len(views) - 1 :
          views[n] # views[n + 1] /\ view' = views[n] /\ dead' = TRUE

\* The relay of endpoint e goes on reading.
Reads(e) == endpoint \in e /\ ~dead /\ ~over

\* A finish reason and [DONE] are remembered; an error in the stream is skipped,
\* and so are lines of another form.
Remember ==
    /\ Reads(Endpoints)
    /\ SendFinish \/ SendError \/ (~OwnForm /\ SendDone)
    /\ UNCHANGED <<endpoint, dead, over, view>>

\* The client has gone: the relay returns.
GiveUp ==
    /\ dead /\ ~over /\ over' = TRUE
    /\ UNCHANGED <<endpoint, service, dead, view>>

-----------------------------------------------------------------------------
Told     == over /\ ~dead
Streamed == endpoint \in {"messages", "responses"}

\* Did the stream come to an end of its own?
Whole == done \/ (end = "eof" /\ finish # "none")

FragmentsOf(t) == {i \in DOMAIN pieces : pieces[i].tool = t}
HasId(t)       == \E i \in FragmentsOf(t) : "id" \in pieces[i].has
IdFirst(t)     ==
    \A i \in FragmentsOf(t) :
        (\A j \in FragmentsOf(t) : i <= j) => "id" \in pieces[i].has

\* The events are in the order of the protocol, with blocks or items numbered
\* one by one and each completed, wherever the client goes away.
InOrder ==
    /\ view.wrong = {}
    /\ Told => view.place = "after" /\ (Streamed => Len(view.dones) = Len(view.items))

\* Every piece arrives, in order, where it belongs, however calls, text and
\* reasoning are mixed.
PiecesArrive ==
    ~OwnForm => /\ Streamed => IsPrefix(view.got, said) /\ (Told => view.got = said)
                /\ Told /\ view.told = "completed" =>
                      ToSet(view.items) = {ItemOf(pieces[i]) : i \in DOMAIN pieces}

\* anthropic.go:523, responses.go:523: a stream cut off is told from one that
\* ended; but messages takes a finish reason of another name for none.
CutIsTold ==
    Told /\ ~OwnForm => /\ ~Whole => view.told = "failed"
                        /\ view.told = "failed" =>
                              ~Whole \/ (endpoint = "messages" /\ finish = "other")

\* anthropic.go:485: a call whose first fragment has its id has it whenever it
\* is announced or completed; responses completes every call that has one under
\* its own.
OneId ==
    \A i \in DOMAIN view.items :
        LET t == view.items[i]
            completed == i \in DOMAIN view.dones
        IN  t \in Tool =>
            /\ IdFirst(t) => view.ids[i] = "own" /\ (completed => view.dones[i] = "own")
            /\ completed /\ endpoint # "messages" => (view.dones[i] = "own" <=> HasId(t))

\* The answer arrives: in order, whole, with its end, each call under one id.
AnswersArrive == InOrder /\ PiecesArrive /\ CutIsTold /\ OneId

AnswerTypeOK ==
    /\ endpoint \in {"none"} \cup Endpoints /\ pieces \in Seq(Piece) /\ Len(pieces) <= MaxPieces
    /\ said \in Seq(Piece)
    /\ finish \in {"none", "known", "other"} /\ done \in BOOLEAN
    /\ failed \in BOOLEAN /\ end \in {"none", "eof", "error"}
    /\ dead \in BOOLEAN /\ over \in BOOLEAN
    /\ view.place \in {"before", "in", "ending", "after"} /\ view.items \in Seq(Item)
    /\ view.ids \in Seq({"none", "made", "own"}) /\ view.dones \in Seq({"none", "made", "own"})
    /\ view.got \in Seq(Piece \cup {NoTool}) /\ view.told \in {"none", "failed", "completed"}

-----------------------------------------------------------------------------
\* Refuted statements.
\* anthropic.go:524: an answer that the service broke off with an error is
\* never presented as a complete one.
FailureIsTold == Told /\ failed => view.told = "failed"

\* README.md:17: an answer that came whole is relayed, on every channel (refuted
\* for those whose lines have a form of their own).
WholeIsRelayed ==
    Told /\ ~failed /\ end = "eof" /\ finish = "known" => view.told = "completed"
=============================================================================
