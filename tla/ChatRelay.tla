------------------------------ MODULE ChatRelay ------------------------------
(***************************************************************************)
(* A streamed chat completion: the lines of the service, in order and      *)
(* ended by EOF or an error (StreamWatch's Replayed), become elements of   *)
(* the client's stream by the channel's Stream (upstream/sse.go, traework/ *)
(* solosse.go, qoder/sse.go).  With a model named ...@think they pass      *)
(* through thinktag.go, which puts reasoning into the text between tags.   *)
(*                                                                         *)
(* A line is known by what it has: reasoning, content, tool calls, a       *)
(* finish reason; choices other than the first are left out.  The client   *)
(* is external: seen is what it has seen.                                  *)
(***************************************************************************)
EXTENDS Naturals

CONSTANTS
    Channel,   \* "workbuddy", "traework", "qoder"
    MaxChunks   \* lines of one stream (bound)

ASSUME RelayConstants ==
    Channel \subseteq {"workbuddy", "traework", "qoder"} /\ MaxChunks \in Nat

VARIABLES
    chan, think,            \* of this request
    lines,                  \* lines read
    sawDone, sawFinish,     \* of Stream
    inThink, closedThink,   \* of thinkTagWriter
    ending,                    \* "none", or how it ended: "eof", "error", "gone" (the client)
    phase,                  \* how far the answer is (observed): "none", "thinking",
                            \* "answered", or "mixed": reasoning out of its turn
    after,                  \* has the service gone on after an end? (observed)
    seen

request == <<chan, think>>
tags    == <<inThink, closedThink>>
relayVars    == <<request, lines, sawDone, sawFinish, tags, ending, phase, after, seen>>

Line == SUBSET {"reason", "content", "tools", "finish"}

\* An element of the client's stream: a chunk with at most four pieces of text,
\* tool calls and a finish reason, or something else, or nothing.
Blank == <<"none", "none", "none", "none">>
Chunk(text, l) == [is |-> "chunk", text |-> text, has |-> l \cap {"tools", "finish"}]
Closing  == Chunk(<<"close", "none", "none", "none">>, {})
Done     == [is |-> "done",    text |-> Blank, has |-> {}]
Error    == [is |-> "error",   text |-> Blank, has |-> {}]
NoChunk  == [is |-> "nothing", text |-> Blank, has |-> {}]

-----------------------------------------------------------------------------
\* The client: where its text is with respect to the tags, what it was told (a
\* finish, an error, more after [DONE]), and what it saw out of place.
NothingSeen == [place |-> "before", told |-> {}, dones |-> 0, wrong |-> {}]
If(b, w) == IF b THEN {w} ELSE {}

\* What follows a finish or [DONE] comes late.
Late(v) == "finish" \in v.told \/ v.dones > 0

OutOfPlace(v, p) ==
    \/ p = "open" /\ v.place # "before"
    \/ p \in {"close", "reason"} /\ v.place # "in"
    \/ p = "text" /\ v.place = "in"

SeesPiece(v, p) ==
    [place |-> CASE p = "open" -> "in" [] p = "close" -> "after" [] OTHER -> v.place,
     told |-> v.told, dones |-> v.dones,
     wrong |-> v.wrong \cup If(OutOfPlace(v, p), p)
                       \cup If(p = "close" /\ Late(v), "late")]

SeesText(v, text) ==
    SeesPiece(SeesPiece(SeesPiece(SeesPiece(v, text[1]), text[2]), text[3]), text[4])

Sees(v, x) ==
    LET w == SeesText(v, x.text) IN
    IF x.is = "nothing" THEN v
    ELSE [place |-> w.place,
          told  |-> v.told \cup (x.has \cap {"finish"}) \cup If(x.is = "error", "error")
                      \cup If(v.dones > 0 /\ x # Closing, "more"),
          dones |-> IF x.is = "done" THEN v.dones + 1 ELSE v.dones,
          wrong |-> w.wrong \cup If(w.place = "in" /\ "tools" \in x.has, "tools")]

Shown(x, y, z) == seen' = Sees(Sees(Sees(seen, x), y), z)

-----------------------------------------------------------------------------
\* thinkTagWriter.writeLine: reasoning is put between tags; the closing tag
\* comes before content of the same line, or in a chunk of its own before the
\* next line that has anything.
Unclosed == inThink /\ ~closedThink
Text(l)  == IF "content" \in l THEN "text" ELSE "none"

\* What closes the tag, if it is open and b.
Closer(b) == IF b /\ Unclosed THEN Closing ELSE NoChunk

\* Mutant: content that comes with reasoning is put between the tags, too.
TaggedInside(l) ==
    <<IF inThink THEN "none" ELSE "open", "reason", Text(l),
      IF "content" \in l THEN "close" ELSE "none">>

Tagged(l) ==
    <<IF inThink THEN "none" ELSE "open", "reason",
      IF "content" \in l THEN "close" ELSE "none", Text(l)>>

\* A line, and what Stream writes after it.
Write(l, rest) ==
    IF think /\ "reason" \in l
    THEN /\ Shown(Chunk(Tagged(l), l), rest, NoChunk)
         /\ inThink' = TRUE /\ closedThink' = (closedThink \/ "content" \in l)
    ELSE /\ Shown(Closer(l # {}), Chunk(<<"none", "none", "none", Text(l)>>, l), rest)
         /\ closedThink' = (closedThink \/ (l # {} /\ inThink)) /\ UNCHANGED inThink

RelayInit ==
    /\ chan = "none" /\ think = FALSE /\ lines = 0
    /\ sawDone = FALSE /\ sawFinish = FALSE /\ inThink = FALSE
    /\ closedThink = FALSE /\ ending = "none" /\ phase = "none" /\ after = FALSE
    /\ seen = NothingSeen

\* The request's channel and model are known.
Begin ==
    /\ chan = "none" /\ chan' \in Channel /\ think' \in BOOLEAN
    /\ UNCHANGED <<lines, sawDone, sawFinish, tags, ending, phase, after, seen>>

Relaying == chan # "none" /\ ending = "none"

\* A line is read, be it after an end of the stream: both loops go on to the EOF.
Reading ==
    /\ Relaying /\ lines < MaxChunks /\ lines' = lines + 1
    /\ after' = (after \/ sawDone)

\* Reasoning is in its turn before anything that follows it, the finish, and the
\* end; what follows it, before the end.
Turn(l) ==
    phase' = IF phase = "mixed" \/ l = {} THEN phase
             ELSE IF "reason" \in l
             THEN IF \/ phase = "answered" \/ sawFinish \/ sawDone
                     \/ "content" \notin l /\ l # {"reason"} THEN "mixed"
                  ELSE IF "content" \in l THEN "answered" ELSE "thinking"
             ELSE IF phase # "thinking" THEN phase
                  ELSE IF sawDone THEN "mixed" ELSE "answered"

\* A line without anything in it is dropped.  Qoder sends no reasoning
\* (DEVELOPMENT.md:280), and TraeWork no finish before its end.
Forward ==
    /\ Reading
    /\ \E l \in Line :
          /\ "reason" \in l => chan # "qoder"
          /\ "finish" \in l => chan # "traework"
          /\ IF l = {} THEN UNCHANGED <<seen, tags>> ELSE Write(l, NoChunk)
          /\ sawFinish' = (sawFinish \/ "finish" \in l)
          /\ Turn(l)
    /\ UNCHANGED <<request, sawDone, ending>>

\* TraeWork's events done (its reason may be missing) and error (which becomes
\* text): a chunk and [DONE].
EndsWith(l) == Write(l, Done) /\ Turn(l) /\ sawDone' = TRUE

\* An error in the stream is passed on, or ends TraeWork's.
ErrorLine ==
    /\ Reading
    /\ IF chan = "traework" THEN EndsWith({"content", "finish"})
       ELSE Shown(Error, NoChunk, NoChunk) /\ UNCHANGED <<tags, sawDone, phase>>
    /\ UNCHANGED <<request, sawFinish, ending>>

\* thinkTagWriter.Finish, after all that Stream has written.
Finish(x, y, e) ==
    /\ ending' = e /\ Shown(x, y, Closer(TRUE))
    /\ closedThink' = inThink
    /\ UNCHANGED <<request, inThink, sawFinish, phase>>

\* [DONE], or TraeWork's event done; to Qoder's parser alone it is the end.
DoneLine ==
    /\ Reading
    /\ \/ chan = "workbuddy" /\ sawDone' = TRUE /\ Shown(Done, NoChunk, NoChunk)
          /\ UNCHANGED <<request, tags, sawFinish, ending, phase>>
       \/ /\ chan = "traework" /\ \E l \in SUBSET {"finish"} : EndsWith(l)
          /\ UNCHANGED <<request, sawFinish, ending>>
       \/ chan = "qoder" /\ Finish(Done, NoChunk, "eof") /\ sawDone' = TRUE

\* WorkBuddy's relay tells the client of an end before [DONE].
Tells == chan = "workbuddy" /\ ~sawDone

\* The end of the file: a [DONE] that is missing is added, and before it an
\* error if WorkBuddy's answer had not finished.
Eof ==
    /\ Relaying
    /\ Finish(IF Tells /\ ~sawFinish THEN Error ELSE NoChunk,
              IF sawDone THEN NoChunk ELSE Done, "eof")
    /\ UNCHANGED <<lines, sawDone, after>>

\* Mutant: a broken stream is ended like a finished one.
BreakSilently ==
    /\ Relaying
    /\ Finish(NoChunk, IF Tells THEN Done ELSE NoChunk, "error")
    /\ UNCHANGED <<lines, sawDone, after>>

\* The stream breaks.
Break ==
    /\ Relaying
    /\ Finish(IF Tells THEN Error ELSE NoChunk, IF Tells THEN Done ELSE NoChunk, "error")
    /\ UNCHANGED <<lines, sawDone, after>>

\* The client has gone: the relay returns.
Gone ==
    /\ Relaying /\ ending' = "gone"
    /\ UNCHANGED <<request, lines, sawDone, sawFinish, tags, phase, after, seen>>

RelayNext == Begin \/ Forward \/ ErrorLine \/ DoneLine \/ Eof \/ Break \/ Gone

-----------------------------------------------------------------------------
\* Types; only a request for @think sees tags.
RelayTypeOK ==
    /\ chan \in {"none"} \cup Channel /\ think \in BOOLEAN /\ lines \in 0 .. MaxChunks
    /\ sawDone \in BOOLEAN /\ sawFinish \in BOOLEAN
    /\ inThink \in BOOLEAN /\ closedThink \in BOOLEAN
    /\ ending \in {"none", "eof", "error", "gone"}
    /\ phase \in {"none", "thinking", "answered", "mixed"} /\ after \in BOOLEAN
    /\ seen \in [place: {"before", "in", "after"}, told: SUBSET {"finish", "error", "more"},
                 dones: Nat, wrong: SUBSET {"open", "reason", "close", "text", "tools",
                                            "late"}]
    /\ seen.place # "before" => think

\* sse.go:396, 425-440: a stream that ended by itself has a [DONE], and one more,
\* or anything after it but a closing tag, only if the service itself went on after
\* its end; WorkBuddy's clients know whether the answer is whole, the other
\* channels' do not when the stream breaks.
EndIsTold ==
    /\ seen.dones > 1 \/ "more" \in seen.told => after
    /\ ending \in {"eof", "error"} =>
        /\ chan = "workbuddy" \/ ending = "eof" \/ sawDone => seen.dones >= 1
        /\ chan = "workbuddy" => sawDone \/ seen.told \cap {"finish", "error"} # {}

\* thinktag.go:2: reasoning is between the tags and all else outside of them,
\* each tag once, as long as reasoning comes first; one that nothing follows is
\* closed when it is too late.
TagsNest ==
    phase # "mixed" => seen.wrong \subseteq If(phase = "thinking", "late")

-----------------------------------------------------------------------------
\* Refuted statements.
\* sse.go:396: there is exactly one [DONE].
ExactlyOneDone == ending = "eof" => seen.dones = 1

\* stall.go:104: a stream closed by the watchdog ends with an error.
BreakIsTold == ending = "error" => "error" \in seen.told \/ sawDone

\* thinktag.go:115: the closing tag comes before the end, which a client may
\* take for the end of the answer.
ClosedInTime == "late" \notin seen.wrong

\* thinktag.go:2: reasoning is wrapped in tags.
ReasoningTagged == "reason" \notin seen.wrong
=============================================================================
