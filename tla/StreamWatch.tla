----------------------------- MODULE StreamWatch -----------------------------
(***************************************************************************)
(* One stream of an upstream sending, from the moment it is opened (end of *)
(* handler.go's dispatchChat, stall.go).  A goroutine, the probe, reads it *)
(* until a line has content; the handler waits for the probe or a timeout, *)
(* and then rotates, or replays what the probe took and relays the rest.   *)
(* A watchdog closes a body that nobody has read anything from for Idle.   *)
(*                                                                         *)
(* The service and the client are external.  A line is known by its        *)
(* number; the buffers between the body and the relay are one.  The code   *)
(* takes no time against timeouts of seconds and minutes: the clock moves  *)
(* only while everybody waits.                                             *)
(***************************************************************************)
EXTENDS Naturals, Sequences

CONSTANTS
    FirstContent,  \* firstContentTimeout
    Idle,          \* streamIdleTimeout
    SinkCap,       \* lines the probe's buffer takes
    SlowClient,    \* may a write to the client block?
    MaxLines,      \* lines the service sends (bound)
    MaxTime,       \* when it sends no more (bound)
    NoTime

ASSUME StreamConstants ==
    /\ FirstContent \in Nat \ {0} /\ Idle \in Nat \ {0} /\ SinkCap \in Nat \ {0}
    /\ MaxLines \in Nat /\ MaxTime \in Nat /\ NoTime \notin Nat
    /\ SlowClient \in BOOLEAN

VARIABLES
    sent,      \* the lines the service has sent: of which kind and when
    ended,     \* "none", or how the service ended the stream: "eof", "error"
    body,      \* "none", "open", "closed"
    got,       \* lines read off the body
    lastRead,  \* when something was last read off it
    timer,     \* deadline of the watchdog, or NoTime
    fresh,     \* has Read returned without having reset the timer yet?
    probe,     \* "reading", "found" (content, [DONE] or EOF), "failed"
    probed,    \* lines the probe has taken
    used,      \* lines taken out of the buffer
    handler,   \* "idle", "select", "rotated", "relay", "done"
    replay,    \* the next line to be replayed
    out,       \* the lines relayed
    client,    \* "ready", "blocked"
    held,      \* when a write to it blocked last (observed)
    now

sending   == <<sent, ended>>
watch     == <<body, got, lastRead, timer, fresh>>
readers   == <<probe, probed, used>>
relaying  == <<handler, replay, out, client, held>>
watchVars == <<sending, watch, readers, relaying, now>>

WatchInit ==
    /\ sent = <<>> /\ ended = "none"
    /\ body = "none" /\ got = 0 /\ lastRead = 0 /\ timer = NoTime /\ fresh = FALSE
    /\ probe = "none" /\ probed = 0 /\ used = 0
    /\ handler = "idle" /\ replay = 1 /\ out = <<>> /\ client = "ready"
    /\ held = NoTime /\ now = 0

\* The stream is open: the watchdog and the probe are started.
Open ==
    /\ handler = "idle" /\ handler' = "select"
    /\ body' = "open" /\ timer' = now + Idle /\ probe' = "reading"
    /\ UNCHANGED <<sending, got, lastRead, fresh, probed, used, replay, out, client, held, now>>

\* A line is without content, or has content in the form contentChunk knows or in
\* another (TraeWork's events, Qoder's nested bodies, `reasoning`), or is [DONE].
LineKind == {"noise", "content", "other", "done"}

\* Lines the probe knows for content or for the end.
Known(kind) == kind \in {"content", "done"}
InSink      == IF probed < SinkCap THEN probed ELSE SinkCap
Replaying   == replay <= InSink

\* Somebody wants a line and there is none in the buffer.
Wanted ==
    /\ used = got /\ ~fresh
    /\ \/ probe = "reading"
       \/ handler = "relay" /\ ~Replaying /\ client = "ready"
AtEnd == body = "closed" \/ (got = Len(sent) /\ ended # "none")

-----------------------------------------------------------------------------
\* idleWatchdog.Read: what there is; the timer is reset after it.
Read ==
    /\ Wanted /\ body = "open" /\ got < Len(sent)
    /\ \E n \in got + 1 .. Len(sent) : got' = n
    /\ fresh' = TRUE /\ lastRead' = now
    /\ UNCHANGED <<sending, body, timer, readers, relaying, now>>

\* Mutant: reading does not renew the deadline.
NoRenewal ==
    /\ fresh /\ fresh' = FALSE
    /\ UNCHANGED <<sending, body, got, lastRead, timer, readers, relaying, now>>

Renew ==
    /\ fresh /\ fresh' = FALSE /\ timer' = now + Idle
    /\ UNCHANGED <<sending, body, got, lastRead, readers, relaying, now>>

\* The timer's callback.
Fire ==
    /\ timer # NoTime /\ now >= timer
    /\ timer' = NoTime /\ body' = "closed"
    /\ UNCHANGED <<sending, got, lastRead, fresh, readers, relaying, now>>

-----------------------------------------------------------------------------
\* waitFirstContent: the next line goes into the sink, as long as that is not
\* full, and ends the wait if it has content.
ProbeLine ==
    /\ probe = "reading" /\ ~fresh /\ used < got
    /\ used' = used + 1 /\ probed' = probed + 1
    /\ probe' = IF Known(sent[used + 1].kind) THEN "found" ELSE "reading"
    /\ UNCHANGED <<sending, watch, relaying, now>>

\* Mutant: closing the body does not wake the probe.
ProbeSleeps ==
    /\ probe = "reading" /\ Wanted /\ AtEnd /\ body = "open"
    /\ probe' = IF ended = "eof" THEN "found" ELSE "failed"
    /\ UNCHANGED <<sending, watch, probed, used, relaying, now>>

\* An end of file is for the relay to deal with.
ProbeEnd ==
    /\ probe = "reading" /\ Wanted /\ AtEnd
    /\ probe' = IF body = "open" /\ ended = "eof" THEN "found" ELSE "failed"
    /\ UNCHANGED <<sending, watch, probed, used, relaying, now>>

\* idleWatchdog.Close.
CloseBody == body' = "closed" /\ timer' = NoTime /\ UNCHANGED <<got, lastRead, fresh>>

\* Mutant: what the probe took is not replayed.
HandOnRest ==
    /\ handler = "select" /\ probe = "found" /\ handler' = "relay"
    /\ replay' = InSink + 1
    /\ UNCHANGED <<sending, watch, readers, out, client, held, now>>

HandOn ==
    /\ handler = "select" /\ probe = "found" /\ handler' = "relay"
    /\ UNCHANGED <<sending, watch, readers, replay, out, client, held, now>>

\* The probe failed, or took too long: another account.  When both of select's
\* channels are ready it takes either.
Rotate ==
    /\ handler = "select" /\ (probe = "failed" \/ now >= FirstContent)
    /\ handler' = "rotated" /\ CloseBody
    /\ UNCHANGED <<sending, readers, replay, out, client, held, now>>

\* The relay writes the next line, first of those replayed; the write may block.
Relay ==
    /\ handler = "relay" /\ client = "ready" /\ ~fresh
    /\ IF Replaying
       THEN out' = Append(out, replay) /\ replay' = replay + 1 /\ UNCHANGED used
       ELSE used < got /\ out' = Append(out, used + 1) /\ used' = used + 1
            /\ UNCHANGED replay
    /\ client' \in {"ready"} \cup (IF SlowClient THEN {"blocked"} ELSE {})
    /\ UNCHANGED <<sending, watch, probe, probed, handler, held, now>>

RelayEnd ==
    /\ handler = "relay" /\ Wanted /\ AtEnd
    /\ handler' = "done" /\ CloseBody
    /\ UNCHANGED <<sending, readers, replay, out, client, held, now>>

-----------------------------------------------------------------------------
\* The client reads on, or goes away, which a write notices.
ClientReady ==
    /\ client = "blocked" /\ client' = "ready" /\ held' = now
    /\ UNCHANGED <<sending, watch, readers, handler, replay, out, now>>

ClientGone ==
    /\ handler = "relay" /\ (Replaying \/ used < got \/ client = "blocked") /\ ~fresh
    /\ handler' = "done" /\ CloseBody
    /\ UNCHANGED <<sending, readers, replay, out, client, held, now>>

\* The service sends a line.
Send ==
    /\ ended = "none" /\ Len(sent) < MaxLines /\ now <= MaxTime
    /\ \E k \in LineKind : sent' = Append(sent, [kind |-> k, at |-> now])
    /\ UNCHANGED <<ended, watch, readers, relaying, now>>

End ==
    /\ ended = "none" /\ ended' \in {"eof", "error"}
    /\ UNCHANGED <<sent, watch, readers, relaying, now>>

\* Is there anything for the goroutines of the stream to do: the timer's, the
\* handler's, or that of the one that wants a line?
LineOrEnd == used < got \/ got < Len(sent) \/ ended # "none" \/ body = "closed"
AtWork ==
    \/ fresh \/ (timer # NoTime /\ now >= timer)
    \/ handler = "select" /\ (probe # "reading" \/ now >= FirstContent)
    \/ probe = "reading" /\ LineOrEnd
    \/ handler = "relay" /\ client = "ready" /\ (Replaying \/ LineOrEnd)

Work == \/ Read \/ Renew \/ Fire \/ ProbeLine \/ ProbeEnd \/ HandOn \/ Rotate
        \/ Relay \/ RelayEnd

Tick ==
    /\ timer # NoTime /\ ~AtWork /\ now' = now + 1
    /\ UNCHANGED <<sending, watch, readers, relaying>>

WatchNext == Open \/ Work \/ ClientReady \/ ClientGone \/ Send \/ End \/ Tick

-----------------------------------------------------------------------------
\* Types; the client gets no more than was taken off the body for it.
WatchTypeOK ==
    /\ sent \in Seq([kind: LineKind, at: 0 .. MaxTime]) /\ Len(sent) <= MaxLines
    /\ ended \in {"none", "eof", "error"} /\ body \in {"none", "open", "closed"}
    /\ got \in 0 .. Len(sent) /\ lastRead \in 0 .. now /\ fresh \in BOOLEAN
    /\ probe \in {"none", "reading", "found", "failed"} /\ probed <= used /\ used <= got
    /\ handler \in {"idle", "select", "rotated", "relay", "done"}
    /\ out \in Seq(Nat) /\ Len(out) <= used /\ replay \in Nat \ {0} /\ probed \in Nat
    /\ used \in Nat /\ client \in {"ready", "blocked"}
    /\ timer \in Nat \cup {NoTime} /\ held \in Nat \cup {NoTime} /\ now \in Nat

\* What the client gets is what the service sent, in order and without a gap,
\* although two readers took it (stall.go:66-80), unless the probe's buffer
\* overflowed.
Replayed == probed <= SinkCap => \A i \in 1 .. Len(out) : out[i] = i

\* The lines not read yet have come this very moment.
NothingWaits == \A i \in got + 1 .. Len(sent) : sent[i].at = now

SilentStall ==
    handler = "select" /\ handler' = "rotated" /\ probe # "failed" =>
        ~ \E i \in DOMAIN sent : sent[i].kind = "content" /\ sent[i].at < FirstContent
DeadCut ==
    Fire /\ body = "open" => /\ now - lastRead >= Idle \/ lastRead = now
                             /\ NothingWaits \/ client = "blocked" \/ held = now

\* handler.go:576: an account is given up for a stall only if nothing that
\* contentChunk knows for content came in time.  stall.go:106: the watchdog closes a body only if nothing was read
\* for all of Idle, or at the very moment something is, and only if nothing was
\* there to be read, unless the client did not take what it got.
CutsDeadOnly == [][SilentStall /\ DeadCut]_watchVars

\* The probe ends, and so does a stream handed to a client that does not block
\* for ever, whatever the service does (stall.go:104-106).
StreamEnds ==
    /\ probe = "reading" ~> probe # "reading"
    /\ (handler = "select" ~> handler \in {"rotated", "done"}) \/ <>[](client = "blocked")

-----------------------------------------------------------------------------
\* Refuted statements.
\* handler.go:576: an account is given up for a stall only if no content came in
\* time, of whatever form.
StallIsSilence ==
    [][handler = "select" /\ handler' = "rotated" /\ probe # "failed" =>
         ~ \E i \in DOMAIN sent :
              sent[i].kind \in {"content", "other"} /\ sent[i].at < FirstContent]_watchVars

\* stall.go:32: all that the probe takes is there to be replayed.
AllReplayed == \A i \in 1 .. Len(out) : out[i] = i
=============================================================================
