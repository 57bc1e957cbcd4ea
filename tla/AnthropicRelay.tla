--------------------------- MODULE AnthropicRelay ---------------------------
(***************************************************************************)
(* anthropic.go's anthropicRelay: a streamed answer becomes the events of  *)
(* the Messages protocol, blocks of thinking, text and tool use one after  *)
(* the other, each opened when it is needed and closed when another is.    *)
(* The client may go away at any event.                                    *)
(***************************************************************************)
EXTENDS AnswerRelay

VARIABLES
    started,   \* has message_start been sent?
    nextIdx,
    cur,       \* the open block: curKind, curIdx, curToolIdx
    metas      \* toolMeta: the calls whose id is known

messagesVars == <<started, nextIdx, cur, metas>>

MessagesInit == started = FALSE /\ nextIdx = 0 /\ cur = NoBlock /\ metas = {}

\* What a client makes of each event.
SeesStart(v) ==
    [v EXCEPT !.place = "in", !.wrong = @ \cup Unless(v.place = "before", "message_start")]

SeesBlock(v, b, id) ==
    [v EXCEPT !.open = b, !.items = Append(@, ItemOf(b)), !.ids = Append(@, id),
              !.wrong = @ \cup Unless(/\ v.place = "in" /\ v.open = NoBlock
                                     /\ b.idx = Len(v.items), "block_start")]

SeesDelta(v, i, p) ==
    LET fits == v.open.idx = i /\ v.open.kind = p.kind /\ v.open.tool = p.tool
    IN  [v EXCEPT !.got = Append(@, IF fits THEN p ELSE NoTool)]

SeesStop(v, i) ==
    [v EXCEPT !.open = NoBlock, !.dones = Append(@, v.ids[Len(v.ids)]),
              !.wrong = @ \cup Unless(v.open.idx = i, "block_stop")]

SeesError(v) ==
    [v EXCEPT !.told = "failed", !.wrong = @ \cup Unless(v.place = "in", "error")]

SeesEnding(v) ==
    [v EXCEPT !.place = "ending",
              !.wrong = @ \cup Unless(v.place = "in" /\ v.open = NoBlock, "message_delta")]

SeesOver(v) ==
    [v EXCEPT !.place = "after", !.told = IF @ = "failed" THEN @ ELSE "completed",
              !.wrong = @ \cup Unless(v.place = "ending", "message_stop")]

-----------------------------------------------------------------------------
\* After message_start, if it has not been sent, and the end of the open block.
Start(v) == IF started THEN v ELSE SeesStart(v)
Stop(v)  == IF cur = NoBlock THEN v ELSE SeesStop(v, cur.idx)

\* Mutant: a block of tool use takes the fragments of every call.
OtherKind(p) == cur.kind # p.kind

Other(p) == cur.kind # p.kind \/ cur.tool # p.tool

KnownIds(p) == metas \cup (IF "id" \in p.has THEN {p.tool} ELSE {})

\* A piece opens a block if it is not of the one that is open.
TakeMessage(p) ==
    LET block   == IF Other(p) THEN [kind |-> p.kind, idx |-> nextIdx, tool |-> p.tool]
                   ELSE cur
        id      == IF p.tool \in KnownIds(p) THEN "own" ELSE "made"
        begun   == IF Other(p) THEN Start(view) ELSE view
        stopped == IF Other(p) THEN Stop(begun) ELSE view
        opened  == IF Other(p) THEN SeesBlock(stopped, block, id) ELSE view
        all     == IF "args" \in p.has THEN SeesDelta(opened, block.idx, p) ELSE opened
    IN  /\ Emit(<<view, begun, stopped, opened, all>>)
        /\ metas' = KnownIds(p) /\ cur' = block
        /\ IF Other(p) THEN started' = TRUE /\ nextIdx' = nextIdx + 1
           ELSE UNCHANGED <<started, nextIdx>>

\* The request is dispatched; the relay reads.
AskMessages ==
    /\ endpoint = "none" /\ endpoint' = "messages"
    /\ UNCHANGED <<service, dead, over, view, messagesVars>>

TranslateMessage ==
    /\ Reads({"messages"})
    /\ \E p \in Piece :
          /\ SendPiece(p)
          /\ IF OwnForm THEN UNCHANGED <<messagesVars, dead, view>> ELSE TakeMessage(p)
    /\ UNCHANGED <<endpoint, over>>

TruncatedMessage == ~done /\ (end' = "error" \/ finish # "known" \/ OwnForm)

CloseMessage ==
    /\ Reads({"messages"}) /\ SendEnd /\ over' = TRUE
    /\ LET begun   == Start(view)
           stopped == Stop(begun)
           told    == IF TruncatedMessage THEN SeesError(stopped) ELSE stopped
           last    == SeesEnding(told)
       IN  Emit(<<view, begun, stopped, told, last, SeesOver(last)>>)
    /\ started' = TRUE /\ cur' = NoBlock /\ UNCHANGED <<endpoint, nextIdx, metas>>

\* The client's picture of the blocks is the relay's.
MessagesTypeOK ==
    /\ started \in BOOLEAN /\ nextIdx \in 0 .. MaxPieces /\ metas \subseteq Tool
    /\ endpoint = "messages" /\ ~dead =>
          view.open = cur /\ Len(view.items) = nextIdx /\ (started <=> view.place # "before")
=============================================================================
