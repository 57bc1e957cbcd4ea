--------------------------- MODULE ResponsesRelay ---------------------------
(***************************************************************************)
(* responses.go's responsesRelay: a streamed answer becomes the events of  *)
(* the Responses protocol, or one response.  Its items, the reasoning, the *)
(* message and each tool call, are announced when they first occur, take   *)
(* what comes for them in any order, and are completed at the end in the   *)
(* order of their announcements.  The client may go away at any event.     *)
(***************************************************************************)
EXTENDS AnswerRelay

VARIABLES
    order,     \* the items in the order announced; nextIdx is its length
    idxOf,     \* reasoningIdx, msgIdx and the Idx of the calls
    callId,    \* of the calls: "none", "made", "own"
    itemsDone  \* of order, completed at the end

responsesVars == <<order, idxOf, callId, itemsDone>>

ResponsesInit ==
    /\ order = <<>> /\ idxOf = [x \in Item |-> -1]
    /\ callId = [t \in Tool |-> "none"] /\ itemsDone = 0

\* What a client makes of each event.
SeesCreated(v) ==
    [v EXCEPT !.place = "in", !.wrong = @ \cup Unless(v.place = "before", "created")]

SeesAdded(v, i, x, id) ==
    [v EXCEPT !.items = Append(@, x), !.ids = Append(@, id),
              !.wrong = @ \cup Unless(v.place = "in" /\ i = Len(v.items), "added")]

SeesItemDelta(v, i, p) ==
    LET announced == i \in 0 .. Len(v.items) - 1 /\ v.items[i + 1] = ItemOf(p)
    IN  [v EXCEPT !.got = Append(@, IF announced THEN p ELSE NoTool)]

SeesItemDone(v, i, x, id) ==
    [v EXCEPT !.dones = Append(@, id),
              !.wrong = @ \cup Unless(/\ v.place = "in" /\ i = Len(v.dones)
                                     /\ i < Len(v.items) /\ v.items[i + 1] = x, "done")]

SeesResponse(v, told) ==
    [v EXCEPT !.place = "after", !.told = told, !.wrong = @ \cup Unless(v.place = "in", told)]

-----------------------------------------------------------------------------
\* The id of a call: its own once that is known; a streamed one needs an id
\* when it is announced.
Unnamed(t) == Streamed /\ idxOf[t] < 0 /\ callId[t] = "none"

NewId(p) ==
    [t \in Tool |-> IF t # p.tool THEN callId[t]
                   ELSE IF "id" \in p.has THEN "own"
                   ELSE IF Unnamed(t) THEN "made" ELSE callId[t]]

\* Mutant: the index of an item is that of the latest.
LatestIdx(x) == Len(order) - (IF idxOf[x] < 0 THEN 0 ELSE 1)

IdxFor(x) == IF idxOf[x] < 0 THEN Len(order) ELSE idxOf[x]

\* A piece is announced if it is the first of its item; the deltas name the item.
TakeResponse(p) ==
    LET x     == ItemOf(p)
        new   == idxOf[x] < 0
        id    == IF x \in Tool THEN NewId(p)[x] ELSE "none"
        added == IF new THEN SeesAdded(view, IdxFor(x), x, id) ELSE view
        all   == IF "args" \in p.has THEN SeesItemDelta(added, IdxFor(x), p) ELSE added
    IN  /\ callId' = NewId(p)
        /\ order' = IF new THEN Append(order, x) ELSE order
        /\ idxOf' = [idxOf EXCEPT ![x] = IdxFor(x)]
        /\ IF Streamed THEN Emit(<<view, added, all>>) ELSE UNCHANGED <<dead, view>>
        /\ UNCHANGED itemsDone

\* The request is dispatched; the response is announced.
AskResponse ==
    /\ endpoint = "none" /\ endpoint' \in {"responses", "response"}
    /\ IF endpoint' = "responses" THEN Emit(<<view, SeesCreated(view)>>)
       ELSE UNCHANGED <<dead, view>>
    /\ UNCHANGED <<service, over, responsesVars>>

TranslateResponse ==
    /\ Reads({"responses", "response"})
    /\ \E p \in Piece :
          /\ SendPiece(p)
          /\ IF OwnForm THEN UNCHANGED <<responsesVars, dead, view>> ELSE TakeResponse(p)
    /\ UNCHANGED <<endpoint, over>>

TruncatedResponse(e) == ~done /\ (e = "error" \/ finish = "none" \/ OwnForm)

FinalId(x) == CASE x \notin Tool -> "none" [] callId[x] = "none" -> "made" [] OTHER -> callId[x]

\* The end of the reading: one response, or an HTTP error.
CloseResponse ==
    /\ Reads({"responses", "response"}) /\ SendEnd
    /\ LET items == IF TruncatedResponse(end') THEN <<>> ELSE order
           ids   == [i \in DOMAIN items |-> FinalId(items[i])]
       IN  IF Streamed THEN UNCHANGED <<over, view>>
           ELSE /\ over' = TRUE
                /\ view' = [Nothing EXCEPT !.place = "after", !.items = items, !.ids = ids,
                               !.dones = ids,
                               !.told = IF TruncatedResponse(end') THEN "failed" ELSE "completed"]
    /\ UNCHANGED <<endpoint, dead, responsesVars>>

\* A stream completes its items one by one, and ends.
CompleteItem ==
    /\ Reads({"responses"}) /\ end # "none" /\ itemsDone < Len(order)
    /\ LET x == order[itemsDone + 1]
       IN  Emit(<<view, SeesItemDone(view, itemsDone, x, FinalId(x))>>)
    /\ itemsDone' = itemsDone + 1
    /\ UNCHANGED <<endpoint, service, over, order, idxOf, callId>>

EndResponse ==
    /\ Reads({"responses"}) /\ end # "none" /\ itemsDone = Len(order) /\ over' = TRUE
    /\ Emit(<<view, SeesResponse(view, IF TruncatedResponse(end) THEN "failed" ELSE "completed")>>)
    /\ UNCHANGED <<endpoint, service, responsesVars>>

\* An item has its index from its place in the order, and a streaming client
\* knows the same items.
ResponsesTypeOK ==
    /\ order \in Seq(Item) /\ idxOf \in [Item -> Int] /\ itemsDone \in 0 .. Len(order)
    /\ callId \in [Tool -> {"none", "made", "own"}]
    /\ \A x \in Item :
          IF idxOf[x] < 0 THEN x \notin ToSet(order)
          ELSE idxOf[x] < Len(order) /\ order[idxOf[x] + 1] = x
    /\ endpoint = "responses" /\ ~dead => view.items = order
=============================================================================
