---------------------------- MODULE StreamsProofs ----------------------------
(***************************************************************************)
(* Theorems about the streams, for any timeouts, any size of the probe's   *)
(* buffer and any lines: each is proved of the part whose property it is,  *)
(* whose variables the other parts leave alone.                            *)
(***************************************************************************)
EXTENDS Streams, SequenceTheorems, FiniteSetTheorems, TLAPS

\* A step of the streams is a step of each part or leaves it alone.
LEMMA StreamsSteps ==
  ASSUME [StreamsNext]_streamsVars
  PROVE  /\ [WatchNext]_watchVars
         /\ [RelayNext]_relayVars
         /\ [AnswerNext]_relays
         /\ [LogNext]_logVars
<1>1. CASE UNCHANGED streamsVars
  BY <1>1 DEF streamsVars
<1>2. CASE OnWatch(WatchNext)
  BY <1>2 DEF OnWatch, On
<1>3. CASE OnChat(RelayNext)
  BY <1>3 DEF OnChat, On
<1>4. CASE OnAnswer(AnswerNext)
  BY <1>4 DEF OnAnswer, On
<1>5. CASE OnLog(LogNext)
  BY <1>5 DEF OnLog, On
<1>. QED BY <1>1, <1>2, <1>3, <1>4, <1>5 DEF StreamsNext

-----------------------------------------------------------------------------
\* Of one stream (StreamWatch).

\* Types the clock's comparisons need, and what the places of the probe and the
\* handler say of each other.
Places ==
  /\ handler = "idle" => probe = "none" /\ body = "none" /\ timer = NoTime /\ now = 0 /\ ~fresh
                       /\ used = 0
  /\ handler = "select" => probe # "none"
  /\ handler \in {"idle", "select", "rotated"} => replay = 1 /\ out = <<>> /\ used = probed
  /\ handler = "relay" => probe = "found"
  /\ probe = "reading" => handler \in {"select", "rotated"}
  /\ body = "open" => handler \in {"select", "relay"}

\* Everything taken is relayed, but for what is still to be replayed or what the
\* probe's buffer did not take.
InTurn ==
  /\ replay <= InSink + 1
  /\ Len(out) + probed = (replay - 1) + used
  /\ probed <= SinkCap /\ Replaying => used = probed

WatchShape == WatchTypeOK /\ Places /\ InTurn

LEMMA WatchStart == ASSUME WatchInit PROVE WatchShape /\ Replayed
<1>. USE DEF WatchInit
<1>1. sent \in Seq([kind: LineKind, at: 0 .. MaxTime]) /\ out \in Seq(Nat)
  OBVIOUS
<1>2. Len(sent) = 0 /\ Len(out) = 0 /\ 0 <= MaxLines
  BY StreamConstants
<1>5. fresh \in BOOLEAN
  BY Zenon
<1>4. WatchTypeOK
  BY <1>1, <1>2, <1>5, StreamConstants DEF WatchTypeOK
<1>3. Places /\ InTurn /\ Replayed
  BY StreamConstants DEF Places, InTurn, Replayed, InSink, Replaying
<1>. QED BY <1>3, <1>4 DEF WatchShape

LEMMA SendShape == ASSUME WatchShape, Send PROVE WatchShape'
<1>. USE DEF WatchShape, Send, readers, relaying, watch
<1>1. PICK k \in LineKind : sent' = Append(sent, [kind |-> k, at |-> now])
  OBVIOUS
<1>2. sent' \in Seq([kind: LineKind, at: 0 .. MaxTime]) /\ Len(sent') = Len(sent) + 1
  BY <1>1, StreamConstants DEF WatchTypeOK
<1>3. WatchTypeOK'
  BY <1>2, StreamConstants DEF WatchTypeOK
<1>. QED BY <1>3 DEF Places, InTurn, InSink, Replaying

\* A line relayed is the next of those to be replayed, or comes off the body.
LEMMA RelayTakes ==
  ASSUME WatchShape, Relay
  PROVE  /\ \/ /\ Replaying /\ out' = Append(out, replay)
               /\ replay' = replay + 1 /\ used' = used
            \/ /\ ~Replaying /\ out' = Append(out, used + 1)
               /\ used' = used + 1 /\ used < got /\ replay' = replay
         /\ out' \in Seq(Nat) /\ Len(out') = Len(out) + 1
         /\ client' \in {"ready", "blocked"}
<1>1. out \in Seq(Nat) /\ replay \in Nat /\ used \in Nat
  BY DEF WatchShape, WatchTypeOK
<1>2. \A n \in Nat : Append(out, n) \in Seq(Nat) /\ Len(Append(out, n)) = Len(out) + 1
  BY <1>1
<1>3. client' \in {"ready", "blocked"}
  BY DEF Relay
<1>4. CASE Replaying
  BY <1>1, <1>2, <1>3, <1>4 DEF Relay
<1>5. CASE ~Replaying
  BY <1>1, <1>2, <1>3, <1>5 DEF Relay
<1>. QED BY <1>4, <1>5

LEMMA RelayShape == ASSUME WatchShape, Relay PROVE WatchShape'
<1>1. UNCHANGED <<sent, ended, body, got, lastRead, timer, fresh, probe, probed, handler, held, now>>
      /\ handler = "relay"
  BY DEF Relay, sending, watch
<1>0. /\ \/ Replaying /\ replay' = replay + 1 /\ used' = used
         \/ ~Replaying /\ used' = used + 1 /\ used < got /\ replay' = replay
      /\ out' \in Seq(Nat) /\ Len(out') = Len(out) + 1
      /\ client' \in {"ready", "blocked"}
  BY RelayTakes
<1>6. /\ replay \in Nat \ {0} /\ used \in Nat /\ probed \in Nat /\ got \in Nat /\ Len(out) \in Nat
      /\ probed <= used /\ used <= got
  BY DEF WatchShape, WatchTypeOK
<1>7. InTurn
  BY DEF WatchShape
<1>2. InTurn'
  BY <1>0, <1>1, <1>6, <1>7, StreamConstants DEF InTurn, InSink, Replaying
<1>8. used' \in Nat /\ replay' \in Nat \ {0} /\ used' <= got /\ probed' <= used'
  BY <1>0, <1>1, <1>6
<1>9. InSink \in Nat /\ InSink <= probed
  BY <1>6, StreamConstants DEF InSink
<1>3. Len(out') <= used'
  BY <1>0, <1>1, <1>6, <1>7, <1>9 DEF InTurn, Replaying
<1>4. WatchTypeOK'
  BY <1>0, <1>1, <1>3, <1>8 DEF WatchShape, WatchTypeOK
<1>5. Places'
  BY <1>1 DEF WatchShape, Places
<1>. QED BY <1>2, <1>4, <1>5 DEF WatchShape

LEMMA WatchStep == ASSUME WatchShape, [WatchNext]_watchVars PROVE WatchShape'
<1>. USE StreamConstants
         DEF WatchShape, WatchTypeOK, Places, InTurn, InSink, Replaying, sending, watch,
             readers, relaying
<1>1. CASE Open BY <1>1 DEF Open
<1>2. CASE Read BY <1>2 DEF Read, Wanted
<1>3. CASE Renew
  <2>1. fresh' \in BOOLEAN
    BY <1>3, Zenon DEF Renew
  <2>2. timer' = now + Idle
        /\ UNCHANGED <<sent, ended, body, got, lastRead, probe, probed, used, handler, replay,
                      out, client, held, now>>
    BY <1>3 DEF Renew
  <2>3. handler # "idle"
    BY <1>3, Zenon DEF Renew
  <2>. QED BY <2>1, <2>2, <2>3
<1>4. CASE Fire BY <1>4 DEF Fire
<1>5. CASE ProbeLine BY <1>5 DEF ProbeLine
<1>6. CASE ProbeEnd BY <1>6 DEF ProbeEnd
<1>7. CASE HandOn BY <1>7 DEF HandOn
<1>8. CASE Rotate BY <1>8 DEF Rotate, CloseBody
<1>9. CASE Relay BY <1>9, RelayShape
<1>10. CASE RelayEnd BY <1>10 DEF RelayEnd, CloseBody
<1>11. CASE ClientReady BY <1>11 DEF ClientReady
<1>12. CASE ClientGone BY <1>12 DEF ClientGone, CloseBody
<1>13. CASE Send BY <1>13, SendShape
<1>14. CASE End BY <1>14 DEF End
<1>15. CASE Tick BY <1>15 DEF Tick
<1>16. CASE UNCHANGED watchVars BY <1>16 DEF watchVars
<1>. QED
  BY <1>1, <1>2, <1>3, <1>4, <1>5, <1>6, <1>7, <1>8, <1>9, <1>10, <1>11, <1>12, <1>13,
     <1>14, <1>15, <1>16 DEF WatchNext, Work

LEMMA ReplayedStep ==
  ASSUME WatchShape, Replayed, [WatchNext]_watchVars
  PROVE  Replayed'
<1>1. CASE Relay
  <2>1. /\ \/ Replaying /\ out' = Append(out, replay)
           \/ ~Replaying /\ out' = Append(out, used + 1)
        /\ out \in Seq(Nat) /\ Len(out') = Len(out) + 1 /\ probed' = probed
    BY <1>1, RelayTakes DEF WatchShape, WatchTypeOK, Relay
  <2>2. SUFFICES ASSUME probed <= SinkCap, NEW i \in 1 .. Len(out') PROVE out'[i] = i
    BY <2>1 DEF Replayed
  <2>3. /\ replay \in Nat \ {0} /\ used \in Nat /\ probed \in Nat
        /\ replay <= InSink + 1 /\ Len(out) + probed = (replay - 1) + used
        /\ Replaying => used = probed
    BY <2>2 DEF WatchShape, WatchTypeOK, InTurn
  <2>4. InSink = probed
    BY <2>2, <2>3, StreamConstants DEF InSink
  <2>5. Replaying => replay = Len(out) + 1
    BY <2>1, <2>3, <2>4
  <2>6. ~Replaying => used = Len(out)
    BY <2>1, <2>3, <2>4 DEF Replaying
  <2>7. out' = Append(out, Len(out) + 1)
    BY <2>1, <2>5, <2>6
  <2>8. CASE i = Len(out) + 1
    BY <2>1, <2>7, <2>8
  <2>9. CASE i # Len(out) + 1
    BY <2>1, <2>2, <2>7, <2>9 DEF Replayed
  <2>. QED BY <2>8, <2>9
<1>2. CASE ProbeLine
  BY <1>2 DEF WatchShape, Places, Replayed, ProbeLine, relaying
<1>3. CASE ~Relay /\ ~ProbeLine
  <2>1. UNCHANGED <<out, probed>>
    BY <1>3 DEF WatchNext, Work, Open, Read, Renew, Fire, ProbeEnd, HandOn, Rotate, RelayEnd,
                ClientReady, ClientGone, Send, End, Tick, watchVars, sending, watch, readers,
                relaying, CloseBody
  <2>. QED BY <2>1 DEF Replayed
<1>. QED BY <1>1, <1>2, <1>3

\* stall.go:66-80: for any size of the probe's buffer and any interleaving of the
\* two readers, the client gets what the service sent, in order, without a gap.
THEOREM InOrderWithoutGap == StreamsSpec => []Replayed
<1>1. StreamsInit => WatchShape /\ Replayed
  BY WatchStart DEF StreamsInit
<1>2. WatchShape /\ Replayed /\ [StreamsNext]_streamsVars => (WatchShape /\ Replayed)'
  BY WatchStep, ReplayedStep, StreamsSteps
<1>. QED BY <1>1, <1>2, PTL DEF StreamsSpec

\* The deadline is Idle after the last read, unless one just returned; what has
\* not been read has come this moment, unless the client did not take what it
\* got; and what came before this moment, while the handler waits, has no
\* content, since the clock waits for the probe.
CutInv ==
  /\ \A i \in DOMAIN sent : sent[i].at <= now
  /\ fresh => lastRead = now
  /\ timer # NoTime /\ body = "open" /\ ~fresh => timer = lastRead + Idle
  /\ body = "open" => NothingWaits \/ client = "blocked" \/ held = now
  /\ handler = "select" => \A i \in DOMAIN sent : sent[i].at < now => ~Known(sent[i].kind)
  /\ probe = "reading" => \A i \in 1 .. used : ~Known(sent[i].kind)

LEMMA CutStart == ASSUME WatchInit PROVE CutInv
BY StreamConstants DEF WatchInit, CutInv, NothingWaits

LEMMA LinesType ==
  ASSUME WatchShape
  PROVE  /\ DOMAIN sent = 1 .. Len(sent) /\ Len(sent) \in Nat
         /\ \A i \in DOMAIN sent : sent[i].at \in Nat
         /\ got \in 0 .. Len(sent) /\ used \in Nat /\ used <= got /\ now \in Nat
<1>1. sent \in Seq([kind: LineKind, at: 0 .. MaxTime])
  BY DEF WatchShape, WatchTypeOK
<1>2. \A i \in 1 .. Len(sent) : sent[i] \in [kind: LineKind, at: 0 .. MaxTime]
  BY <1>1, ElementOfSeq
<1>3. \A i \in DOMAIN sent : sent[i].at \in Nat
  BY <1>1, <1>2, StreamConstants
<1>. QED BY <1>1, <1>3 DEF WatchShape, WatchTypeOK

\* Time passes only when the probe has seen everything, or the client is slow.
LEMMA CutTick == ASSUME WatchShape, CutInv, Tick PROVE CutInv'
<1>1. /\ now' = now + 1 /\ ~AtWork /\ ~fresh
      /\ UNCHANGED <<sent, ended, body, got, lastRead, timer, fresh, probe, probed, used,
                     handler, replay, out, client, held>>
  BY DEF Tick, AtWork, sending, watch, readers, relaying
<1>2. /\ sent \in Seq([kind: LineKind, at: 0 .. MaxTime]) /\ got \in 0 .. Len(sent)
      /\ used \in Nat /\ used <= got /\ client \in {"ready", "blocked"}
      /\ probe \in {"none", "reading", "found", "failed"}
  BY DEF WatchShape, WatchTypeOK
<1>3. Places
  BY DEF WatchShape
<1>4. handler = "select" => probe = "reading" /\ used = Len(sent)
  BY <1>1, <1>2, <1>3 DEF AtWork, LineOrEnd, Places
<1>5. handler = "relay" /\ client = "ready" => got = Len(sent)
  BY <1>1, <1>2, <1>3 DEF AtWork, LineOrEnd, Places
<1>6. got = Len(sent) => NothingWaits'
  BY <1>1, <1>2 DEF NothingWaits
<1>7. body = "open" => NothingWaits' \/ client = "blocked"
  BY <1>2, <1>3, <1>4, <1>5, <1>6 DEF Places
<1>8. handler = "select" => \A i \in DOMAIN sent : ~Known(sent[i].kind)
  BY <1>2, <1>4 DEF CutInv
<1>9. \A i \in DOMAIN sent : sent[i].at <= now'
  BY <1>1, LinesType DEF CutInv
<1>. QED BY <1>1, <1>7, <1>8, <1>9 DEF CutInv, Known

\* A line that comes is of this moment.
LEMMA CutSend == ASSUME WatchShape, CutInv, Send PROVE CutInv'
<1>1. PICK k \in LineKind : sent' = Append(sent, [kind |-> k, at |-> now])
  BY DEF Send
<1>2. UNCHANGED <<body, got, lastRead, timer, fresh, probe, used, handler, client, held, now>>
  BY DEF Send, watch, readers, relaying
<1>3. /\ sent \in Seq([kind: LineKind, at: 0 .. MaxTime]) /\ got \in 0 .. Len(sent)
      /\ used \in Nat /\ used <= got /\ now \in Nat
  BY DEF WatchShape, WatchTypeOK
<1>4. /\ Len(sent') = Len(sent) + 1 /\ DOMAIN sent' = 1 .. Len(sent) + 1
      /\ \A i \in 1 .. Len(sent) : sent'[i] = sent[i]
      /\ sent'[Len(sent) + 1].at = now
  BY <1>1, <1>3
<1>5. NothingWaits => NothingWaits'
  <2>1. SUFFICES ASSUME NothingWaits, NEW i \in got + 1 .. Len(sent) + 1
                 PROVE  sent'[i].at = now
    BY <1>2, <1>4 DEF NothingWaits
  <2>2. CASE i = Len(sent) + 1 BY <1>4, <2>2
  <2>3. CASE i # Len(sent) + 1
    <3>1. i \in got + 1 .. Len(sent) /\ i \in 1 .. Len(sent) BY <1>3, <2>3
    <3>. QED BY <1>4, <2>1, <3>1 DEF NothingWaits
  <2>. QED BY <2>2, <2>3
<1>8. \A i \in DOMAIN sent' : sent'[i].at <= now
  BY <1>3, <1>4 DEF CutInv
<1>6. (\A i \in DOMAIN sent : sent[i].at < now => ~Known(sent[i].kind))
      => \A i \in DOMAIN sent' : sent'[i].at < now => ~Known(sent'[i].kind)
  BY <1>3, <1>4
<1>7. \A i \in 1 .. used : sent'[i] = sent[i]
  <2>1. \A i \in 1 .. used : i \in 1 .. Len(sent)
    BY <1>3
  <2>. QED BY <1>4, <2>1
<1>9. (\A i \in 1 .. used : ~Known(sent[i].kind)) => \A i \in 1 .. used : ~Known(sent'[i].kind)
  BY <1>7
<1>. QED BY <1>2, <1>5, <1>6, <1>8, <1>9 DEF CutInv, Known

LEMMA LaterPart ==
  ASSUME NEW a \in Nat, NEW b \in Nat, a <= b, NEW n \in Nat, NEW i \in b + 1 .. n
  PROVE  i \in a + 1 .. n
OBVIOUS

LEMMA CutRead == ASSUME WatchShape, CutInv, Read PROVE CutInv'
<1>1. /\ fresh' = TRUE /\ lastRead' = now /\ got' \in got + 1 .. Len(sent)
      /\ UNCHANGED <<sent, body, timer, probe, used, handler, client, held, now>>
  BY DEF Read, sending, readers, relaying
<1>2. got' \in Nat /\ got \in Nat /\ got <= got' /\ Len(sent) \in Nat
  BY <1>1, LinesType
<1>3. NothingWaits => NothingWaits'
  <2>1. ASSUME NothingWaits, NEW i \in got' + 1 .. Len(sent) PROVE sent[i].at = now
    <3>1. i \in got + 1 .. Len(sent)
      BY <1>2, LaterPart
    <3>. QED BY <2>1, <3>1 DEF NothingWaits
  <2>. QED BY <1>1, <2>1 DEF NothingWaits
<1>. QED BY <1>1, <1>3 DEF CutInv, Known

LEMMA CutRenew == ASSUME WatchShape, CutInv, Renew PROVE CutInv'
<1>1. /\ ~fresh' /\ lastRead = now /\ timer' = now + Idle
  BY Zenon DEF Renew, CutInv
<1>2. UNCHANGED <<sent, body, got, lastRead, probe, used, handler, client, held, now>>
  BY DEF Renew, sending, readers, relaying
<1>. QED BY <1>1, <1>2 DEF CutInv, Known, NothingWaits

LEMMA CutStep == ASSUME WatchShape, CutInv, [WatchNext]_watchVars PROVE CutInv'
<1>. USE DEF sending, watch, readers, relaying
<1>1. CASE Open
  <2>1. now = 0 /\ got' = got /\ lastRead' = lastRead /\ ~fresh
    BY <1>1 DEF Open, WatchShape, Places
  <2>2. lastRead = 0 /\ used = 0 /\ used' = used
    BY <1>1, <2>1, StreamConstants DEF Open, WatchShape, WatchTypeOK, Places
  <2>3. \A i \in DOMAIN sent : sent[i].at = 0
    BY <2>1, LinesType DEF CutInv
  <2>4. \A i \in got + 1 .. Len(sent) : sent[i].at = 0
    BY <2>3, LinesType
  <2>. QED BY <1>1, <2>1, <2>2, <2>3, <2>4 DEF Open, CutInv, NothingWaits, Known
<1>2. CASE Read BY <1>2, CutRead
<1>3. CASE Renew BY <1>3, CutRenew
<1>4. CASE Fire BY <1>4 DEF Fire, CutInv, Known
<1>5. CASE ProbeLine
  BY <1>5 DEF ProbeLine, CutInv, NothingWaits, Known, WatchShape, WatchTypeOK
<1>6. CASE ProbeEnd BY <1>6 DEF ProbeEnd, CutInv, NothingWaits, Known
<1>7. CASE HandOn BY <1>7 DEF HandOn, CutInv, NothingWaits, Known
<1>8. CASE Rotate BY <1>8 DEF Rotate, CloseBody, CutInv, Known
<1>9. CASE Relay BY <1>9 DEF Relay, CutInv, NothingWaits, Known, WatchShape, Places, WatchTypeOK
<1>10. CASE RelayEnd BY <1>10 DEF RelayEnd, CloseBody, CutInv, Known
<1>11. CASE ClientReady BY <1>11 DEF ClientReady, CutInv, NothingWaits, Known
<1>12. CASE ClientGone BY <1>12 DEF ClientGone, CloseBody, CutInv, Known
<1>13. CASE Send BY <1>13, CutSend
<1>14. CASE End BY <1>14 DEF End, CutInv, NothingWaits, Known
<1>15. CASE Tick BY <1>15, CutTick
<1>16. CASE UNCHANGED watchVars BY <1>16 DEF watchVars, CutInv, NothingWaits, Known
<1>. QED
  BY <1>1, <1>2, <1>3, <1>4, <1>5, <1>6, <1>7, <1>8, <1>9, <1>10, <1>11, <1>12, <1>13,
     <1>14, <1>15, <1>16 DEF WatchNext, Work

\* Only Rotate gives an account up, and only Fire closes a body by the clock.
LEMMA CutsStep ==
  ASSUME WatchShape, CutInv, [WatchNext]_watchVars
  PROVE  SilentStall /\ DeadCut
<1>1. SilentStall
  <2>1. SUFFICES ASSUME handler = "select", handler' = "rotated", probe # "failed",
                        NEW i \in DOMAIN sent, sent[i].kind = "content",
                        sent[i].at < FirstContent
                 PROVE  FALSE
    BY DEF SilentStall
  <2>2. Rotate
    BY <2>1 DEF WatchNext, Work, Open, Read, Renew, Fire, ProbeLine, ProbeEnd, HandOn, Relay,
                RelayEnd, ClientReady, ClientGone, Send, End, Tick, watchVars, sending, watch,
                readers, relaying, CloseBody
  <2>3. now >= FirstContent
    BY <2>1, <2>2 DEF Rotate
  <2>4. now \in Nat /\ sent[i].at \in Nat
    BY LinesType
  <2>5. sent[i].at < now
    BY <2>1, <2>3, <2>4, StreamConstants
  <2>6. ~Known(sent[i].kind)
    BY <2>1, <2>5 DEF CutInv
  <2>. QED BY <2>1, <2>6 DEF Known
<1>2. DeadCut
  <2>1. SUFFICES ASSUME Fire, body = "open"
                 PROVE  /\ now - lastRead >= Idle \/ lastRead = now
                        /\ NothingWaits \/ client = "blocked" \/ held = now
    BY DEF DeadCut
  <2>2. now >= timer /\ timer # NoTime
    BY <2>1 DEF Fire
  <2>3. now \in Nat /\ lastRead \in Nat /\ fresh \in BOOLEAN
    BY DEF WatchShape, WatchTypeOK
  <2>4. fresh => lastRead = now
    BY Zenon DEF CutInv
  <2>5. ~fresh => timer = lastRead + Idle
    BY <2>1, <2>2 DEF CutInv
  <2>6. ~fresh => now - lastRead >= Idle
    BY <2>2, <2>3, <2>5, StreamConstants
  <2>7. NothingWaits \/ client = "blocked" \/ held = now
    BY <2>1 DEF CutInv
  <2>. QED BY <2>3, <2>4, <2>6, <2>7, Zenon
<1>. QED BY <1>1, <1>2

\* handler.go:576, stall.go:106: for any timeouts and any lines of the service, an
\* account is given up, or a body closed, only for silence; to the probe all lines
\* are silence that contentChunk does not know.
THEOREM OnlySilenceCuts == StreamsSpec => CutsDeadOnly
<1>1. StreamsInit => WatchShape /\ CutInv
  BY WatchStart, CutStart DEF StreamsInit
<1>2. WatchShape /\ CutInv /\ [StreamsNext]_streamsVars => (WatchShape /\ CutInv)'
  BY WatchStep, CutStep, StreamsSteps
<1>3. WatchShape /\ CutInv /\ [StreamsNext]_streamsVars => [SilentStall /\ DeadCut]_watchVars
  BY CutsStep, StreamsSteps
<1>. QED BY <1>1, <1>2, <1>3, PTL DEF StreamsSpec, CutsDeadOnly

-----------------------------------------------------------------------------
\* Of the request log (RequestLog), whatever falls short and however often it
\* starts.

\* The latest records of a sequence.
LEMMA LatestOf ==
  ASSUME NEW S, NEW s \in Seq(S)
  PROVE  /\ Latest(s) \in Seq(S)
         /\ Len(Latest(s)) = IF Len(s) > Cap THEN Cap ELSE Len(s)
         /\ \A i \in 1 .. Len(Latest(s)) : Latest(s)[i] = s[i + (Len(s) - Len(Latest(s)))]
<1>. DEFINE m == 1 + (IF Len(s) > Cap THEN Len(s) - Cap ELSE 0)
<1>1. m \in 1 .. Len(s) + 1 /\ Len(s) \in Nat
  BY LogConstants
<1>2. Latest(s) = SubSeq(s, m, Len(s))
  BY DEF Latest
<1>3. /\ Latest(s) \in Seq(S)
      /\ Len(Latest(s)) = IF m <= Len(s) THEN Len(s) - m + 1 ELSE 0
      /\ \A i \in 1 .. Len(s) - m + 1 : Latest(s)[i] = s[m + i - 1]
  BY <1>1, <1>2, SubSeqProperties
<1>4. Len(Latest(s)) = IF Len(s) > Cap THEN Cap ELSE Len(s)
  BY <1>1, <1>3, LogConstants
<1>5. Len(Latest(s)) = Len(s) - m + 1 /\ Len(s) - Len(Latest(s)) = m - 1
  BY <1>1, <1>4, LogConstants
<1>6. ASSUME NEW i \in 1 .. Len(Latest(s))
      PROVE  Latest(s)[i] = s[i + (Len(s) - Len(Latest(s)))]
  <2>1. i \in 1 .. Len(s) - m + 1
    BY <1>5
  <2>2. m + i - 1 = i + (Len(s) - Len(Latest(s)))
    BY <1>1, <1>5
  <2>. QED BY <1>3, <2>1, <2>2
<1>. QED BY <1>3, <1>4, <1>6

LEMMA LatestAll ==
  ASSUME NEW S, NEW s \in Seq(S), Len(s) <= Cap
  PROVE  Latest(s) = s
<1>1. Latest(s) \in Seq(S) /\ Len(Latest(s)) = Len(s) /\ \A i \in 1 .. Len(s) : Latest(s)[i] = s[i]
  BY LatestOf, LogConstants
<1>. QED BY <1>1, SeqEqual

LEMMA Lengths ==
  ASSUME NEW n \in Nat, NEW w, NEW la, NEW lb, w = IF n > Cap THEN Cap ELSE n,
         la = (IF w + 1 > Cap THEN Cap ELSE w + 1), lb = (IF n + 1 > Cap THEN Cap ELSE n + 1)
  PROVE  la = lb /\ w + 1 - la \in Nat /\ la \in Nat /\ w \in Nat /\ n - w \in Nat
         /\ (n + 1) - lb = (w + 1 - la) + (n - w)
BY LogConstants

LEMMA Shifted ==
  ASSUME NEW i \in Nat, NEW p \in Int, NEW q \in Int, NEW r \in Int, p = q + r
  PROVE  i + p = (i + q) + r
OBVIOUS

LEMMA Within ==
  ASSUME NEW n \in Nat, NEW m \in Nat, NEW k \in Nat, k = n + 1, k - m \in Nat, NEW i \in 1 .. m
  PROVE  i + (k - m) \in 1 .. n + 1
OBVIOUS

LEMMA AndBack ==
  ASSUME NEW n \in Nat, NEW m \in Nat, NEW j, j = n + 1
  PROVE  j + (m - n) = m + 1
OBVIOUS

\* What is left of the window with one more record is what is left of all.
LEMMA LatestAppend ==
  ASSUME NEW S, NEW s \in Seq(S), NEW x \in S
  PROVE  Latest(Append(Latest(s), x)) = Latest(Append(s, x))
<1>. DEFINE a == Append(Latest(s), x)
            b == Append(s, x)
<1>1. Latest(s) \in Seq(S) /\ Len(Latest(s)) = (IF Len(s) > Cap THEN Cap ELSE Len(s)) /\ Len(s) \in Nat
  BY LatestOf
<1>2. a \in Seq(S) /\ b \in Seq(S) /\ Len(a) = Len(Latest(s)) + 1 /\ Len(b) = Len(s) + 1
  BY <1>1
<1>3. /\ \A i \in 1 .. Len(Latest(s)) : a[i] = Latest(s)[i]
      /\ a[Len(Latest(s)) + 1] = x
      /\ \A i \in 1 .. Len(s) : b[i] = s[i]
      /\ b[Len(s) + 1] = x
  BY <1>1
<1>. HIDE DEF a, b
<1>4. /\ Latest(a) \in Seq(S) /\ Latest(b) \in Seq(S)
      /\ Len(Latest(a)) = Len(Latest(b))
      /\ Len(a) - Len(Latest(a)) \in Nat
      /\ Len(b) - Len(Latest(b)) = (Len(a) - Len(Latest(a))) + (Len(s) - Len(Latest(s)))
  <2>1. /\ Latest(a) \in Seq(S) /\ Latest(b) \in Seq(S)
        /\ Len(Latest(a)) = (IF Len(a) > Cap THEN Cap ELSE Len(a))
        /\ Len(Latest(b)) = (IF Len(b) > Cap THEN Cap ELSE Len(b))
    BY <1>2, LatestOf
  <2>. QED BY <1>1, <1>2, <2>1, Lengths
<1>5. ASSUME NEW i \in 1 .. Len(Latest(a))
      PROVE  Latest(a)[i] = Latest(b)[i]
  <2>. DEFINE j == i + (Len(a) - Len(Latest(a)))
  <2>1. Latest(a)[i] = a[j]
    BY <1>2, LatestOf
  <2>2. Latest(b)[i] = b[j + (Len(s) - Len(Latest(s)))]
    <3>1. i \in 1 .. Len(Latest(b))
      BY <1>4
    <3>2. Latest(b)[i] = b[i + (Len(b) - Len(Latest(b)))]
      BY <1>2, <3>1, LatestOf
    <3>3. Len(Latest(a)) \in Nat /\ Len(a) \in Nat /\ Len(Latest(s)) \in Nat
      BY <1>1, <1>2, <1>4
    <3>4. i + (Len(b) - Len(Latest(b))) = j + (Len(s) - Len(Latest(s)))
      <4>1. /\ i \in Nat /\ Len(b) - Len(Latest(b)) \in Int /\ Len(a) - Len(Latest(a)) \in Int
            /\ Len(s) - Len(Latest(s)) \in Int
        BY <1>1, <1>4, <3>3
      <4>. QED BY <1>4, <4>1, Shifted
    <3>. QED BY <3>2, <3>4
  <2>3. j \in 1 .. Len(Latest(s)) + 1 /\ Len(Latest(s)) \in Nat /\ Len(a) \in Nat
        /\ Len(s) - Len(Latest(s)) \in Nat
    <3>1. Len(Latest(s)) \in Nat /\ Len(Latest(a)) \in Nat
      BY <1>1, <1>4
    <3>2. j \in 1 .. Len(Latest(s)) + 1
      BY <1>2, <1>4, <3>1, Within
    <3>3. Len(a) \in Nat
      BY <1>2, <3>1
    <3>4. Len(s) - Len(Latest(s)) \in Nat
      BY <1>1, LogConstants
    <3>. QED BY <3>1, <3>2, <3>3, <3>4
  <2>4. CASE j = Len(Latest(s)) + 1
    <3>1. j + (Len(s) - Len(Latest(s))) = Len(s) + 1
      BY <1>1, <2>3, <2>4, AndBack
    <3>2. Latest(a)[i] = x
      BY <1>3, <2>1, <2>4
    <3>3. Latest(b)[i] = x
      BY <1>3, <2>2, <3>1
    <3>. QED BY <3>2, <3>3
  <2>5. CASE j \in 1 .. Len(Latest(s))
    <3>1. Latest(s)[j] = s[j + (Len(s) - Len(Latest(s)))]
      BY <2>5, LatestOf
    <3>2. j + (Len(s) - Len(Latest(s))) \in 1 .. Len(s)
      BY <1>1, <2>3, <2>5
    <3>. QED BY <1>3, <2>1, <2>2, <2>5, <3>1, <3>2
  <2>. QED BY <2>3, <2>4, <2>5
<1>6. Latest(a) = Latest(b)
  BY <1>4, <1>5, SeqEqual
<1>. QED BY <1>6 DEF a, b

LEMMA AppendOf ==
  ASSUME NEW s \in Seq(Record), NEW x \in Record, Increasing(s), \A y \in ToSet(s) : y < x
  PROVE  /\ Append(s, x) \in Seq(Record) /\ Increasing(Append(s, x))
         /\ ToSet(Append(s, x)) = ToSet(s) \cup {x}
         /\ Last(Append(s, x)) = x
<1>. DEFINE a == Append(s, x)
<1>1. /\ a \in Seq(Record) /\ Len(a) = Len(s) + 1 /\ Len(s) \in Nat
      /\ DOMAIN a = 1 .. Len(s) + 1 /\ DOMAIN s = 1 .. Len(s)
      /\ \A i \in 1 .. Len(s) : a[i] = s[i]
      /\ a[Len(s) + 1] = x
  OBVIOUS
<1>. HIDE DEF a
<1>2. \A i \in 1 .. Len(s) : s[i] < x
  BY <1>1 DEF ToSet
<1>3. Increasing(a)
  <2>1. ASSUME NEW i \in 1 .. Len(s) + 1, NEW j \in 1 .. Len(s) + 1, i < j PROVE a[i] < a[j]
    <3>1. CASE j = Len(s) + 1
      <4>1. i \in 1 .. Len(s) BY <1>1, <2>1, <3>1
      <4>. QED BY <1>1, <1>2, <3>1, <4>1
    <3>2. CASE j # Len(s) + 1
      <4>1. i \in 1 .. Len(s) /\ j \in 1 .. Len(s) BY <1>1, <2>1, <3>2
      <4>. QED BY <1>1, <2>1, <4>1 DEF Increasing
    <3>. QED BY <3>1, <3>2
  <2>. QED BY <1>1, <2>1 DEF Increasing
<1>4. ToSet(a) = ToSet(s) \cup {x}
  <2>1. ToSet(a) \subseteq ToSet(s) \cup {x}
    <3>1. ASSUME NEW i \in 1 .. Len(s) + 1 PROVE a[i] \in ToSet(s) \cup {x}
      <4>1. CASE i = Len(s) + 1 BY <1>1, <4>1
      <4>2. CASE i # Len(s) + 1
        <5>1. i \in 1 .. Len(s) BY <1>1, <4>2
        <5>. QED BY <1>1, <5>1 DEF ToSet
      <4>. QED BY <4>1, <4>2
    <3>. QED BY <1>1, <3>1 DEF ToSet
  <2>2. \A i \in 1 .. Len(s) : s[i] \in ToSet(a)
    <3>1. ASSUME NEW i \in 1 .. Len(s) PROVE a[i] \in ToSet(a)
      <4>1. i \in DOMAIN a BY <1>1
      <4>. QED BY <4>1 DEF ToSet
    <3>. QED BY <1>1, <3>1
  <2>3. x \in ToSet(a)
    <3>1. Len(s) + 1 \in DOMAIN a BY <1>1
    <3>. QED BY <1>1, <3>1 DEF ToSet
  <2>. QED BY <1>1, <2>1, <2>2, <2>3 DEF ToSet
<1>. QED BY <1>1, <1>3, <1>4 DEF a, Last

LEMMA FrontOf ==
  ASSUME NEW s \in Seq(Record), s # <<>>, Increasing(s)
  PROVE  /\ Front(s) \in Seq(Record) /\ Increasing(Front(s))
         /\ ToSet(Front(s)) \subseteq ToSet(s)
         /\ ToSet(s) \subseteq ToSet(Front(s)) \cup {Last(s)}
<1>. DEFINE f == Front(s)
<1>1. PICK n \in Nat : Len(s) = n + 1
  <2>1. Len(s) \in Nat \ {0}
    BY EmptySeq
  <2>. QED BY <2>1
<1>2. DOMAIN s = 1 .. n + 1
  BY <1>1
<1>3. /\ f \in Seq(Record) /\ Len(f) = n /\ DOMAIN f = 1 .. n
      /\ \A i \in 1 .. n : f[i] = s[i]
  <2>1. f = SubSeq(s, 1, n)
    BY <1>1 DEF Front
  <2>2. \A i \in 1 .. n : s[i] \in Record
    BY <1>1, <1>2, ElementOfSeq
  <2>3. /\ f \in Seq(Record) /\ Len(f) = (IF 1 <= n THEN n - 1 + 1 ELSE 0)
        /\ \A i \in 1 .. n - 1 + 1 : f[i] = s[1 + i - 1]
    BY <2>1, <2>2, SubSeqProperties
  <2>. QED BY <2>3
<1>. HIDE DEF f
<1>4. Increasing(f)
  BY <1>2, <1>3 DEF Increasing
<1>5. ToSet(f) \subseteq ToSet(s)
  BY <1>2, <1>3 DEF ToSet
<1>6. ASSUME NEW i \in 1 .. n + 1 PROVE s[i] \in ToSet(f) \cup {Last(s)}
  <2>1. CASE i = n + 1 BY <1>1, <2>1 DEF Last
  <2>2. CASE i # n + 1
    <3>1. i \in 1 .. n BY <2>2
    <3>. QED BY <1>3, <3>1 DEF ToSet
  <2>. QED BY <2>1, <2>2
<1>7. ToSet(s) \subseteq ToSet(f) \cup {Last(s)}
  BY <1>2, <1>6 DEF ToSet
<1>. QED BY <1>3, <1>4, <1>5, <1>7 DEF f

LEMMA LatestIncreasing ==
  ASSUME NEW s \in Seq(Record), Increasing(s)
  PROVE  Increasing(Latest(s)) /\ ToSet(Latest(s)) \subseteq ToSet(s)
<1>. DEFINE l == Latest(s)
            d == Len(s) - Len(Latest(s))
<1>1. /\ Len(s) \in Nat /\ Len(l) \in Nat /\ d \in Nat /\ Len(s) = Len(l) + d
      /\ DOMAIN l = 1 .. Len(l) /\ DOMAIN s = 1 .. Len(s)
      /\ \A i \in 1 .. Len(l) : l[i] = s[i + d]
  BY LatestOf, LogConstants
<1>. HIDE DEF l, d
<1>2. \A i \in 1 .. Len(l) : i + d \in 1 .. Len(s)
  BY <1>1
<1>3. \A i, j \in 1 .. Len(l) : i < j => i + d < j + d
  BY <1>1
<1>4. Increasing(l)
  BY <1>1, <1>2, <1>3 DEF Increasing
<1>5. ToSet(l) \subseteq ToSet(s)
  BY <1>1, <1>2 DEF ToSet
<1>. QED BY <1>4, <1>5 DEF l

\* Of a journal f and the records w whose write was whole: an unfinished line
\* is not one of these, and if it cannot be read it has not cost one of them.
JournalType == [recs: Seq(Record), bad: Nat, tail: {"end", "whole", "part"}]
Missing(f, w) == Cardinality(w \ ToSet(f.recs))
JournalOK(f, w) ==
  /\ f \in JournalType /\ w \subseteq Record
  /\ Increasing(f.recs)
  /\ f.tail = "whole" => f.recs # <<>> /\ Last(f.recs) \notin w
  /\ Missing(f, w) + (IF f.tail = "part" THEN 1 ELSE 0) <= f.bad

LEMMA RecordsFinite ==
  ASSUME NEW w \in SUBSET Record
  PROVE  IsFiniteSet(w) /\ \A r : IsFiniteSet(w \ ToSet(r)) /\ Cardinality(w \ ToSet(r)) \in Nat
<1>1. IsFiniteSet(Record)
  BY FS_Interval, LogConstants DEF Record
<1>2. IsFiniteSet(w)
  BY <1>1, FS_Subset
<1>. QED BY <1>2, FS_Difference, FS_CardinalityType

\* A new record, later than all there are.
LEMMA WroteLineOK ==
  ASSUME NEW f, NEW w, JournalOK(f, w), NEW id \in Record, NEW how \in How \ {"none"},
         \A y \in w \cup ToSet(f.recs) : y < id, f.tail = "end"
  PROVE  LET g == WroteLine(f, id, how)
             v == IF how = "all" THEN w \cup {id} ELSE w
         IN  JournalOK(g, v) /\ ToSet(g.recs) \subseteq ToSet(f.recs) \cup {id}
<1>. DEFINE g == WroteLine(f, id, how)
            v == IF how = "all" THEN w \cup {id} ELSE w
<1>1. /\ f.recs \in Seq(Record) /\ f.bad \in Nat /\ f.tail \in {"end", "whole", "part"}
      /\ w \subseteq Record /\ Increasing(f.recs) /\ Missing(f, w) <= f.bad
      /\ Missing(f, w) \in Nat /\ f \in JournalType
  <2>1. Missing(f, w) \in Nat
    BY RecordsFinite DEF JournalOK, Missing
  <2>2. f \in JournalType /\ w \subseteq Record /\ Increasing(f.recs) /\ Missing(f, w) + 0 <= f.bad
    BY DEF JournalOK
  <2>. QED BY <2>1, <2>2 DEF JournalType
<1>2. id \notin w
  <2>1. \A y \in Record : ~(y < y)
    BY LogConstants DEF Record
  <2>. QED BY <2>1
<1>3. CASE how = "part"
  <2>1. /\ g.recs = f.recs /\ g.bad = f.bad + 1 /\ g.tail = "part" /\ v = w
        /\ g = [recs |-> g.recs, bad |-> g.bad, tail |-> g.tail]
    BY <1>3 DEF WroteLine
  <2>2. g \in JournalType
    BY <1>1, <2>1 DEF JournalType
  <2>3. Missing(g, v) = Missing(f, w)
    BY <2>1 DEF Missing
  <2>. QED BY <1>1, <2>1, <2>2, <2>3 DEF JournalOK
<1>4. CASE how # "part"
  <2>1. /\ g.recs = Append(f.recs, id) /\ g.bad = f.bad
        /\ g.tail = IF how = "all" THEN "end" ELSE "whole"
        /\ g = [recs |-> g.recs, bad |-> g.bad, tail |-> g.tail]
    BY <1>4 DEF WroteLine, How
  <2>2. /\ g.recs \in Seq(Record) /\ Increasing(g.recs) /\ ToSet(g.recs) = ToSet(f.recs) \cup {id}
        /\ Last(g.recs) = id /\ g.recs # <<>>
    BY <1>1, <2>1, AppendOf, AppendProperties
  <2>3. g \in JournalType
    BY <1>1, <2>1, <2>2 DEF JournalType
  <2>4. v \ ToSet(g.recs) \in SUBSET (w \ ToSet(f.recs))
    BY <2>2
  <2>5. IsFiniteSet(w \ ToSet(f.recs))
    BY <1>1, RecordsFinite
  <2>6. Missing(g, v) <= Missing(f, w)
    BY <2>4, <2>5, FS_Subset DEF Missing
  <2>7. v \subseteq Record
    BY <1>1
  <2>8. Missing(g, v) \in Nat
    BY <2>7, RecordsFinite DEF Missing
  <2>9. g.tail = "whole" => Last(g.recs) \notin v
    BY <1>2, <2>1, <2>2
  <2>10. Missing(g, v) + (IF g.tail = "part" THEN 1 ELSE 0) <= g.bad
    BY <1>1, <2>1, <2>6, <2>8
  <2>. QED BY <2>2, <2>3, <2>7, <2>9, <2>10 DEF JournalOK
<1>. QED BY <1>3, <1>4

LEMMA JoinedOK ==
  ASSUME NEW f, NEW w, JournalOK(f, w), NEW id \in Record, NEW how \in How \ {"none"},
         f.tail # "end"
  PROVE  LET g == Joined(f, how)
             v == IF how = "all" THEN w \cup {id} ELSE w
         IN  JournalOK(g, v) /\ ToSet(g.recs) \subseteq ToSet(f.recs) \cup {id}
<1>. DEFINE g == Joined(f, how)
            v == IF how = "all" THEN w \cup {id} ELSE w
            more == IF how = "all" THEN 1 ELSE 0
<1>1. /\ f.recs \in Seq(Record) /\ f.bad \in Nat /\ f.tail \in {"whole", "part"}
      /\ w \subseteq Record /\ Increasing(f.recs)
      /\ Missing(f, w) + (IF f.tail = "part" THEN 1 ELSE 0) <= f.bad
      /\ Missing(f, w) \in Nat /\ f \in JournalType
  BY RecordsFinite DEF JournalOK, JournalType, Missing
<1>2. /\ g.recs = (IF f.tail = "whole" THEN Front(f.recs) ELSE f.recs)
      /\ g.bad = (IF f.tail = "whole" THEN f.bad + 1 ELSE f.bad)
      /\ g.tail = (IF how = "all" THEN "end" ELSE "part")
      /\ g = [recs |-> g.recs, bad |-> g.bad, tail |-> g.tail]
  BY DEF Joined
<1>3. /\ g.recs \in Seq(Record) /\ Increasing(g.recs) /\ ToSet(g.recs) \subseteq ToSet(f.recs)
      /\ w \ ToSet(g.recs) \subseteq w \ ToSet(f.recs)
  <2>1. CASE f.tail = "whole"
    <3>1. f.recs # <<>> /\ Last(f.recs) \notin w
      BY <2>1 DEF JournalOK
    <3>. QED BY <1>1, <1>2, <2>1, <3>1, FrontOf
  <2>2. CASE f.tail # "whole"
    BY <1>1, <1>2, <2>2
  <2>. QED BY <2>1, <2>2
<1>4. g.bad \in Nat /\ g.tail \in {"end", "part"} /\ g \in JournalType
  BY <1>1, <1>2, <1>3 DEF JournalType
<1>5. v \subseteq Record
  BY <1>1
<1>6. Missing(g, v) \in Nat /\ Missing(g, v) <= Missing(f, w) + more
  <2>1. IsFiniteSet(w \ ToSet(f.recs)) /\ Cardinality(w \ ToSet(f.recs)) \in Nat
    BY <1>1, RecordsFinite
  <2>2. Missing(g, v) \in Nat
    BY <1>5, RecordsFinite DEF Missing
  <2>3. CASE how = "all"
    <3>1. /\ IsFiniteSet((w \ ToSet(f.recs)) \cup {id})
          /\ Cardinality((w \ ToSet(f.recs)) \cup {id}) <= Cardinality(w \ ToSet(f.recs)) + 1
      BY <2>1, FS_AddElement
    <3>2. v \ ToSet(g.recs) \in SUBSET ((w \ ToSet(f.recs)) \cup {id})
      BY <1>3, <2>3
    <3>3. Cardinality(v \ ToSet(g.recs)) <= Cardinality((w \ ToSet(f.recs)) \cup {id})
      BY <3>1, <3>2, FS_Subset
    <3>4. Cardinality((w \ ToSet(f.recs)) \cup {id}) \in Nat
      BY <3>1, FS_CardinalityType
    <3>. QED BY <2>1, <2>2, <2>3, <3>1, <3>3, <3>4 DEF Missing
  <2>4. CASE how # "all"
    <3>1. v \ ToSet(g.recs) \in SUBSET (w \ ToSet(f.recs))
      BY <1>3, <2>4
    <3>2. Missing(g, v) <= Missing(f, w)
      BY <2>1, <3>1, FS_Subset DEF Missing
    <3>. QED BY <1>1, <2>2, <2>4, <3>2
  <2>. QED BY <2>3, <2>4
<1>7. Missing(g, v) + (IF g.tail = "part" THEN 1 ELSE 0) <= g.bad
  BY <1>1, <1>2, <1>6
<1>. QED BY <1>2, <1>3, <1>4, <1>5, <1>7 DEF JournalOK

Later(id, f, w) == \A y \in w \cup ToSet(f.recs) : y < id

LEMMA WroteOK ==
  ASSUME NEW f, NEW w, JournalOK(f, w), NEW id \in Record, NEW how \in How, Later(id, f, w)
  PROVE  LET g == Wrote(f, id, how)
             v == IF how = "all" THEN w \cup {id} ELSE w
         IN  JournalOK(g, v) /\ ToSet(g.recs) \subseteq ToSet(f.recs) \cup {id}
<1>1. CASE how = "none"
  BY <1>1 DEF Wrote
<1>2. CASE how # "none" /\ f.tail = "end"
  <2>1. Wrote(f, id, how) = WroteLine(f, id, how)
    BY <1>2 DEF Wrote
  <2>. QED BY <1>2, <2>1, WroteLineOK DEF Later
<1>3. CASE how # "none" /\ f.tail # "end"
  <2>1. Wrote(f, id, how) = Joined(f, how)
    BY <1>3 DEF Wrote
  <2>. QED BY <1>3, <2>1, JoinedOK
<1>. QED BY <1>1, <1>2, <1>3

\* Of the whole: what has been given a number; how far an import has come; and
\* that the window is in the journal unless something fell short.
Numbered == \A y \in ToSet(logs) \cup ToSet(file.recs) \cup written : y <= Old + Len(calls)

Importing ==
  process = "importing" =>
    /\ journal
    /\ \A y \in ToSet(file.recs) \cup written : y < logs[copied + 1]
    /\ ~spoilt => /\ file.tail = "end" /\ Len(file.recs) = copied
                  /\ \A i \in 1 .. copied : file.recs[i] = logs[i]

InJournal ==
  process = "up" /\ ~spoilt => Loaded = logs /\ (journal => file.recs # <<>> \/ Old = 0)

LogInv == /\ LogTypeOK /\ JournalOK(file, written) /\ Increasing(logs)
          /\ Numbered /\ Importing /\ InJournal

LEMMA LegacyOf ==
  /\ Legacy \in Seq(Record) /\ Increasing(Legacy) /\ \A y \in ToSet(Legacy) : y <= Old
  /\ Legacy = <<>> => Old = 0
  /\ Old = 0 => Legacy = <<>>
<1>1. Old \in Nat /\ MaxCalls \in Nat /\ \A i \in 1 .. Old : i \in Record
  BY LogConstants DEF Record
<1>2. /\ Legacy \in Seq(Record) /\ DOMAIN Legacy = 1 .. Old /\ Len(Legacy) = Old
      /\ \A i \in 1 .. Old : Legacy[i] = i
  BY <1>1 DEF Legacy
<1>. QED BY <1>1, <1>2, EmptySeq DEF Increasing, ToSet

\* What load finds is in order.
LEMMA LoadedOf ==
  ASSUME LogTypeOK, Increasing(file.recs), Numbered
  PROVE  /\ Loaded \in Seq(Record) /\ Len(Loaded) <= Cap /\ Increasing(Loaded)
         /\ \A y \in ToSet(Loaded) : y <= Old + Len(calls)
<1>. DEFINE f == IF file.recs = <<>> THEN Legacy ELSE file.recs
<1>1. /\ file.recs \in Seq(Record) /\ Len(calls) \in Nat /\ Old \in Nat
      /\ \A y \in ToSet(file.recs) : y <= Old + Len(calls)
  BY LogConstants DEF LogTypeOK, Numbered
<1>2. \A y \in ToSet(Legacy) : y <= Old + Len(calls)
  <2>1. ASSUME NEW y \in ToSet(Legacy) PROVE y <= Old + Len(calls)
    <3>1. y \in Nat /\ y <= Old
      BY LegacyOf, LogConstants DEF ToSet, Record
    <3>. QED BY <1>1, <3>1
  <2>. QED BY <2>1
<1>3. f \in Seq(Record) /\ Increasing(f) /\ \A y \in ToSet(f) : y <= Old + Len(calls)
  BY <1>1, <1>2, LegacyOf
<1>. HIDE DEF f
<1>4. Latest(f) \in Seq(Record) /\ Len(Latest(f)) <= Cap
  <2>1. Latest(f) \in Seq(Record) /\ Len(Latest(f)) = (IF Len(f) > Cap THEN Cap ELSE Len(f))
        /\ Len(f) \in Nat
    BY <1>3, LatestOf
  <2>. QED BY <2>1, LogConstants
<1>5. Increasing(Latest(f)) /\ ToSet(Latest(f)) \subseteq ToSet(f)
  BY <1>3, LatestIncreasing
<1>6. Loaded = Latest(f)
  BY DEF Loaded, f
<1>. QED BY <1>3, <1>4, <1>5, <1>6

LEMMA LogStart == LogInit => LogInv
<1>. SUFFICES ASSUME LogInit PROVE LogInv
  OBVIOUS
<1>1. /\ logs = <<>> /\ file = NoLines /\ journal = FALSE /\ process = "down"
      /\ copied = 0 /\ starts = 0 /\ calls = <<>> /\ written = {} /\ spoilt = FALSE
  BY Zenon DEF LogInit
<1>2. file.recs = <<>> /\ file.bad = 0 /\ file.tail = "end" /\ file \in JournalType
  BY <1>1 DEF NoLines, JournalType
<1>3. Increasing(<<>>) /\ ToSet(<<>>) = {}
  BY DEF Increasing, ToSet
<1>4. LogTypeOK
  <2>1. logs \in Seq(Record) /\ Len(logs) <= Cap
    BY <1>1, LogConstants
  <2>2. journal \in BOOLEAN /\ process \in {"down", "importing", "up"}
    BY <1>1
  <2>3. journal => process # "down"
    BY <1>1, Zenon
  <2>4. copied \in Nat /\ (process = "importing" => copied < Len(logs))
    BY <1>1
  <2>5. starts \in 0 .. MaxStarts /\ calls \in Seq(Ends) /\ Len(calls) <= MaxCalls
    BY <1>1, LogConstants
  <2>6. written \subseteq Record /\ spoilt \in BOOLEAN
    BY <1>1
  <2>. QED BY <1>2, <2>1, <2>2, <2>3, <2>4, <2>5, <2>6 DEF LogTypeOK, JournalType
<1>5. JournalOK(file, written)
  <2>1. Missing(file, written) = 0
    BY <1>1, FS_EmptySet DEF Missing
  <2>. QED BY <1>1, <1>2, <1>3, <2>1 DEF JournalOK
<1>. QED BY <1>1, <1>2, <1>3, <1>4, <1>5 DEF LogInv, Numbered, Importing, InJournal

\* A journal of nothing has lost nothing.
LEMMA NothingWritten ==
  ASSUME JournalOK(file, written), file = NoLines
  PROVE  written = {} /\ file.recs = <<>> /\ file.tail = "end"
<1>1. file.recs = <<>> /\ file.bad = 0 /\ file.tail = "end"
  BY DEF NoLines
<1>2. ToSet(file.recs) = {}
  BY <1>1 DEF ToSet
<1>3. Missing(file, written) <= 0 /\ Missing(file, written) \in Nat /\ written \subseteq Record
  <2>1. written \in SUBSET Record
    BY DEF JournalOK
  <2>2. Missing(file, written) \in Nat
    BY <2>1, RecordsFinite DEF Missing
  <2>3. Missing(file, written) + 0 <= 0
    BY <1>1 DEF JournalOK
  <2>. QED BY <2>1, <2>2, <2>3
<1>4. Cardinality(written) = 0
  BY <1>2, <1>3 DEF Missing
<1>. QED BY <1>1, <1>3, <1>4, RecordsFinite, FS_EmptySet

LEMMA LogLoad == ASSUME LogInv, Load PROVE LogInv'
<1>1. /\ process = "down" /\ starts < MaxStarts /\ starts' = starts + 1 /\ logs' = Loaded
      /\ journal' \in BOOLEAN /\ copied' = 0
      /\ process' = (IF journal' /\ ImportNeeded THEN "importing" ELSE "up")
      /\ UNCHANGED <<file, calls, written>>
  BY DEF Load
<1>2. spoilt' = (journal' /\ Loaded # <<>> /\ file.recs = <<>> /\ file # NoLines)
  BY Zenon DEF Load
<1>3. /\ Loaded \in Seq(Record) /\ Len(Loaded) <= Cap /\ Increasing(Loaded)
      /\ \A y \in ToSet(Loaded) : y <= Old + Len(calls)
  BY LoadedOf DEF LogInv, JournalOK
<1>4. LogTypeOK'
  <2>1. starts' \in 0 .. MaxStarts
    BY <1>1, LogConstants DEF LogInv, LogTypeOK
  <2>2. process' = "importing" => Len(Loaded) > 0
    BY <1>1, <1>3, EmptySeq DEF ImportNeeded
  <2>3. spoilt' \in BOOLEAN
    BY <1>2
  <2>. QED BY <1>1, <1>3, <2>1, <2>2, <2>3 DEF LogInv, LogTypeOK
<1>5. JournalOK(file, written)' /\ Increasing(logs)' /\ Numbered'
  BY <1>1, <1>3 DEF LogInv, Numbered
<1>6. Importing'
  <2>1. SUFFICES ASSUME process' = "importing" PROVE Importing'
    BY DEF Importing
  <2>2. journal' /\ file = NoLines
    BY <1>1, <2>1 DEF ImportNeeded
  <2>3. written = {} /\ file.recs = <<>> /\ file.tail = "end"
    BY <2>2, NothingWritten DEF LogInv
  <2>4. ToSet(file.recs) = {} /\ Len(file.recs) = 0
    BY <2>3 DEF ToSet
  <2>. QED BY <1>1, <2>2, <2>3, <2>4 DEF Importing
<1>7. InJournal'
  <2>1. SUFFICES ASSUME process' = "up", ~spoilt'
                 PROVE  Loaded' = logs' /\ (journal' => file'.recs # <<>> \/ Old = 0)
    BY DEF InJournal
  <2>2. Loaded' = logs'
    BY <1>1 DEF Loaded
  <2>3. ASSUME journal', file.recs = <<>> PROVE Old = 0
    <3>1. Loaded = <<>>
      BY <1>1, <1>2, <2>1, <2>3 DEF ImportNeeded
    <3>2. Latest(Legacy) = <<>>
      BY <2>3, <3>1 DEF Loaded
    <3>3. Len(Latest(Legacy)) = (IF Len(Legacy) > Cap THEN Cap ELSE Len(Legacy)) /\ Len(Legacy) \in Nat
      BY LegacyOf, LatestOf
    <3>4. Len(Legacy) = 0
      BY <3>2, <3>3, LogConstants
    <3>. QED BY <3>4, LegacyOf, EmptySeq
  <2>. QED BY <1>1, <2>2, <2>3
<1>. QED BY <1>4, <1>5, <1>6, <1>7 DEF LogInv

LEMMA LogCrash == ASSUME LogInv, Crash PROVE LogInv'
<1>1. /\ process' = "down" /\ journal' = FALSE /\ logs' = <<>>
      /\ UNCHANGED <<file, copied, starts, calls, written, spoilt>>
  BY DEF Crash
<1>2. LogTypeOK'
  <2>1. LogTypeOK
    BY DEF LogInv
  <2>2. Len(logs') <= Cap /\ logs' \in Seq(Record) /\ ~(process' = "importing")
    BY <1>1, LogConstants
  <2>3. journal' \in BOOLEAN /\ (journal' => process' # "down")
    BY <1>1, Zenon
  <2>. QED BY <1>1, <2>1, <2>2, <2>3 DEF LogTypeOK
<1>3. Increasing(<<>>) /\ ToSet(<<>>) = {}
  BY DEF Increasing, ToSet
<1>. QED BY <1>1, <1>2, <1>3 DEF LogInv, Numbered, Importing, InJournal

\* A record later than all there are, written to the journal.
LEMMA LogWrite ==
  ASSUME LogInv, NEW id \in Record, NEW how \in How, WriteRecord(id, how),
         \A y \in written \cup ToSet(file.recs) : y < id
  PROVE  /\ JournalOK(file, written)' /\ file' \in JournalType /\ written' \subseteq Record
         /\ written' \subseteq written \cup {id}
         /\ ToSet(file'.recs) \subseteq ToSet(file.recs) \cup {id}
         /\ spoilt' \in BOOLEAN
         /\ ~spoilt' => /\ ~spoilt /\ how = "all" /\ file.tail = "end"
                        /\ file'.recs = Append(file.recs, id) /\ file'.tail = "end"
<1>1. /\ file' = Wrote(file, id, how)
      /\ written' = (IF how = "all" THEN written \cup {id} ELSE written)
  BY DEF WriteRecord
<1>2. spoilt' = (spoilt \/ how # "all" \/ file.tail # "end")
  BY Zenon DEF WriteRecord
<1>3. JournalOK(file', written') /\ ToSet(file'.recs) \subseteq ToSet(file.recs) \cup {id}
  <2>1. JournalOK(file, written)
    BY DEF LogInv
  <2>2. Later(id, file, written)
    BY DEF Later
  <2>. QED BY <1>1, <2>1, <2>2, WroteOK
<1>4. file' \in JournalType /\ written' \subseteq Record
  BY <1>3 DEF JournalOK
<1>5. how = "all" /\ file.tail = "end" =>
        file'.recs = Append(file.recs, id) /\ file'.tail = "end"
  BY <1>1 DEF Wrote, WroteLine
<1>. QED BY <1>1, <1>2, <1>3, <1>4, <1>5

LEMMA WindowOf ==
  ASSUME LogInv
  PROVE  /\ logs \in Seq(Record) /\ DOMAIN logs = 1 .. Len(logs) /\ Len(logs) \in Nat
         /\ \A i \in 1 .. Len(logs) : logs[i] \in Record /\ logs[i] \in ToSet(logs)
         /\ file.recs \in Seq(Record) /\ copied \in Nat
<1>1. logs \in Seq(Record) /\ file.recs \in Seq(Record) /\ copied \in Nat
  BY DEF LogInv, LogTypeOK
<1>. QED BY <1>1, ElementOfSeq DEF ToSet

LEMMA LogImport == ASSUME LogInv, Import PROVE LogInv'
<1>. DEFINE id == logs[copied + 1]
<1>1. PICK how \in How : WriteRecord(id, how)
  BY DEF Import
<1>2. /\ process = "importing" /\ copied' = copied + 1
      /\ process' = (IF copied + 1 < Len(logs) THEN "importing" ELSE "up")
      /\ UNCHANGED <<logs, journal, starts, calls>>
  BY DEF Import
<1>3. /\ journal /\ \A y \in ToSet(file.recs) \cup written : y < id
      /\ ~spoilt => /\ file.tail = "end" /\ Len(file.recs) = copied
                    /\ \A i \in 1 .. copied : file.recs[i] = logs[i]
  BY <1>2, Zenon DEF LogInv, Importing
<1>4. copied < Len(logs) /\ Len(logs) <= Cap
  BY <1>2 DEF LogInv, LogTypeOK
<1>5. id \in Record /\ copied + 1 \in 1 .. Len(logs) /\ id \in ToSet(logs)
  BY <1>4, WindowOf
<1>. HIDE DEF id
<1>6. /\ JournalOK(file, written)' /\ file' \in JournalType /\ written' \subseteq Record
      /\ written' \subseteq written \cup {id}
      /\ ToSet(file'.recs) \subseteq ToSet(file.recs) \cup {id}
      /\ spoilt' \in BOOLEAN
      /\ ~spoilt' => /\ ~spoilt /\ file'.recs = Append(file.recs, id) /\ file'.tail = "end"
  BY <1>1, <1>3, <1>5, LogWrite
<1>7. LogTypeOK'
  <2>1. LogTypeOK
    BY DEF LogInv
  <2>2. copied' \in Nat /\ (process' = "importing" => copied' < Len(logs'))
    BY <1>2, WindowOf
  <2>3. process' \in {"importing", "up"}
    BY <1>2
  <2>. QED BY <1>2, <1>6, <2>1, <2>2, <2>3 DEF LogTypeOK, JournalType
<1>8. Numbered'
  <2>1. \A y \in ToSet(logs) \cup ToSet(file.recs) \cup written : y <= Old + Len(calls)
    BY DEF LogInv, Numbered
  <2>. QED BY <1>2, <1>5, <1>6, <2>1 DEF Numbered
<1>9. ~spoilt' => /\ Len(file'.recs) = copied + 1
                  /\ \A i \in 1 .. copied + 1 : file'.recs[i] = logs[i]
  <2>1. SUFFICES ASSUME ~spoilt'
                 PROVE  /\ Len(file'.recs) = copied + 1
                        /\ \A i \in 1 .. copied + 1 : file'.recs[i] = logs[i]
    OBVIOUS
  <2>2. ~spoilt /\ file'.recs = Append(file.recs, id) /\ file.recs \in Seq(Record) /\ copied \in Nat
    BY <1>6, <2>1, WindowOf
  <2>3. Len(file.recs) = copied /\ \A i \in 1 .. copied : file.recs[i] = logs[i]
    BY <1>3, <2>2
  <2>4. /\ Len(file'.recs) = copied + 1 /\ file'.recs[copied + 1] = id
        /\ \A i \in 1 .. copied : file'.recs[i] = file.recs[i]
    BY <1>5, <2>2, <2>3, AppendProperties
  <2>5. id = logs[copied + 1]
    BY DEF id
  <2>6. \A i \in 1 .. copied + 1 : i = copied + 1 \/ i \in 1 .. copied
    BY <2>2
  <2>. QED BY <2>3, <2>4, <2>5, <2>6
<1>10. Importing'
  <2>1. SUFFICES ASSUME process' = "importing" PROVE Importing'
    BY DEF Importing
  <2>2. copied + 1 < Len(logs)
    BY <1>2, <2>1
  <2>3. /\ copied + 1 \in DOMAIN logs /\ copied + 2 \in DOMAIN logs /\ copied + 1 < copied + 2
        /\ copied + 1 + 1 = copied + 2 /\ logs[copied + 2] \in Record /\ id = logs[copied + 1]
    BY <2>2, WindowOf DEF id
  <2>4. id < logs[copied + 2]
    BY <2>3 DEF LogInv, Increasing
  <2>5. \A y \in ToSet(file'.recs) \cup written' : y < logs[copied + 2]
    <3>1. ASSUME NEW y \in ToSet(file.recs) \cup written PROVE y < logs[copied + 2]
      <4>1. y \in Record
        BY WindowOf, ElementOfSeq DEF ToSet, LogInv, LogTypeOK
      <4>2. y < id
        BY <1>3
      <4>. QED BY <1>5, <2>3, <2>4, <4>1, <4>2, LogConstants DEF Record
    <3>. QED BY <1>6, <2>4, <3>1
  <2>. QED BY <1>2, <1>3, <1>6, <1>9, <2>3, <2>5 DEF Importing
<1>11. InJournal'
  <2>1. SUFFICES ASSUME process' = "up", ~spoilt'
                 PROVE  Loaded' = logs' /\ (journal' => file'.recs # <<>> \/ Old = 0)
    BY DEF InJournal
  <2>2. Len(logs) = copied + 1
    BY <1>2, <1>4, <2>1, WindowOf
  <2>3. file'.recs \in Seq(Record)
    BY <1>6 DEF JournalType
  <2>4. file'.recs = logs
    BY <1>9, <2>1, <2>2, <2>3, WindowOf, SeqEqual
  <2>5. logs # <<>>
    BY <1>4, WindowOf
  <2>6. Latest(logs) = logs
    BY <1>4, WindowOf, LatestAll
  <2>. QED BY <1>2, <2>4, <2>5, <2>6 DEF Loaded
<1>. QED BY <1>2, <1>6, <1>7, <1>8, <1>10, <1>11 DEF LogInv

LEMMA LogCall == ASSUME LogInv, Call PROVE LogInv'
<1>1. PICK e \in Ends :
        /\ calls' = Append(calls, e)
        /\ IF e.logged = NoRecord THEN UNCHANGED <<logs, file, written, spoilt>>
           ELSE Add(Old + Len(calls) + 1)
  BY DEF Call
<1>2. /\ process = "up" /\ Len(calls) < MaxCalls
      /\ UNCHANGED <<journal, process, copied, starts>>
  BY DEF Call
<1>3. LogTypeOK /\ calls \in Seq(Ends) /\ Len(calls) \in Nat
  BY DEF LogInv, LogTypeOK
<1>4. calls' \in Seq(Ends) /\ Len(calls') = Len(calls) + 1 /\ Len(calls') <= MaxCalls
  BY <1>1, <1>2, <1>3, AppendProperties, LogConstants
<1>5. ASSUME NEW y \in ToSet(logs) \cup ToSet(file.recs) \cup written
      PROVE  y \in Record /\ y < Old + Len(calls) + 1 /\ y <= Old + Len(calls')
  <2>1. y \in Record
    BY WindowOf, ElementOfSeq DEF ToSet, LogInv, LogTypeOK
  <2>2. y <= Old + Len(calls)
    BY DEF LogInv, Numbered
  <2>. QED BY <1>3, <1>4, <2>1, <2>2, LogConstants DEF Record
<1>6. CASE e.logged = NoRecord
  <2>1. UNCHANGED <<logs, file, written, spoilt, journal, process, copied, starts>>
    BY <1>1, <1>2, <1>6
  <2>2. LogTypeOK'
    BY <1>3, <1>4, <2>1 DEF LogTypeOK
  <2>3. Numbered'
    BY <1>5, <2>1 DEF Numbered
  <2>4. JournalOK(file, written)' /\ Increasing(logs)'
    BY <2>1 DEF LogInv
  <2>5. Importing' /\ InJournal'
    BY <2>1 DEF LogInv, Importing, InJournal, Loaded
  <2>. QED BY <2>2, <2>3, <2>4, <2>5 DEF LogInv
<1>7. CASE e.logged # NoRecord
  <2>. DEFINE id == Old + Len(calls) + 1
  <2>1. Add(id)
    BY <1>1, <1>7
  <2>2. id \in Record /\ id = Old + Len(calls')
    BY <1>2, <1>3, <1>4, LogConstants DEF Record
  <2>. HIDE DEF id
  <2>3. \A y \in ToSet(logs) \cup ToSet(file.recs) \cup written : y < id
    BY <1>5 DEF id
  <2>4. logs' = Latest(Append(logs, id))
    BY <2>1 DEF Add
  <2>5. /\ Append(logs, id) \in Seq(Record) /\ Increasing(Append(logs, id))
        /\ ToSet(Append(logs, id)) = ToSet(logs) \cup {id}
    BY <2>2, <2>3, WindowOf, AppendOf DEF LogInv
  <2>6. logs' \in Seq(Record) /\ Len(logs') <= Cap
    <3>1. Len(Append(logs, id)) \in Nat
      BY <2>5
    <3>2. /\ Latest(Append(logs, id)) \in Seq(Record)
          /\ Len(logs') = (IF Len(Append(logs, id)) > Cap THEN Cap ELSE Len(Append(logs, id)))
      BY <2>4, <2>5, LatestOf
    <3>. QED BY <2>4, <3>1, <3>2, LogConstants
  <2>7. Increasing(logs') /\ ToSet(logs') \subseteq ToSet(logs) \cup {id}
    BY <2>4, <2>5, LatestIncreasing
  <2>8. /\ JournalOK(file, written)' /\ file' \in JournalType /\ written' \subseteq Record
        /\ written' \subseteq written \cup {id}
        /\ ToSet(file'.recs) \subseteq ToSet(file.recs) \cup {id}
        /\ spoilt' \in BOOLEAN
        /\ ~spoilt' => ~spoilt /\ journal /\ file'.recs = Append(file.recs, id)
    <3>1. CASE journal
      <4>1. PICK how \in How : WriteRecord(id, how)
        BY <2>1, <3>1, Zenon DEF Add
      <4>. QED BY <2>2, <2>3, <3>1, <4>1, LogWrite
    <3>2. CASE ~journal
      <4>1. spoilt' = TRUE
        BY <2>1, <3>2, Zenon DEF Add
      <4>2. UNCHANGED <<file, written>>
        BY <2>1, <3>2, Zenon DEF Add
      <4>3. file \in JournalType /\ written \subseteq Record /\ JournalOK(file, written)
        BY DEF LogInv, JournalOK
      <4>. QED BY <4>1, <4>2, <4>3
    <3>. QED BY <3>1, <3>2
  <2>9. LogTypeOK'
    BY <1>2, <1>3, <1>4, <2>6, <2>8 DEF LogTypeOK, JournalType
  <2>10. Numbered'
    <3>1. id <= Old + Len(calls')
      BY <2>2, <1>4, LogConstants
    <3>. QED BY <1>5, <2>7, <2>8, <3>1 DEF Numbered
  <2>11. Importing'
    BY <1>2 DEF Importing
  <2>12. InJournal'
    <3>1. SUFFICES ASSUME ~spoilt'
                   PROVE  Loaded' = logs' /\ file'.recs # <<>>
      BY DEF InJournal
    <3>2. ~spoilt /\ journal /\ file'.recs = Append(file.recs, id)
      BY <2>8, <3>1
    <3>3. Loaded = logs /\ (file.recs # <<>> \/ Old = 0)
      BY <1>2, <3>2, Zenon DEF LogInv, InJournal
    <3>4. Latest(file.recs) = logs /\ file.recs \in Seq(Record)
      BY <3>3, LegacyOf, WindowOf DEF Loaded
    <3>5. file'.recs # <<>>
      BY <2>2, <3>2, <3>4, AppendProperties
    <3>6. Latest(Append(logs, id)) = Latest(Append(file.recs, id))
      BY <2>2, <3>4, LatestAppend
    <3>. QED BY <2>4, <3>2, <3>5, <3>6 DEF Loaded
  <2>. QED BY <2>7, <2>8, <2>9, <2>10, <2>11, <2>12 DEF LogInv
<1>. QED BY <1>6, <1>7

LEMMA LogStep == ASSUME LogInv, [LogNext]_logVars PROVE LogInv'
<1>1. CASE UNCHANGED logVars
  BY <1>1 DEF logVars, LogInv, LogTypeOK, Numbered, Importing, InJournal, Loaded
<1>. QED BY <1>1, LogCall, LogCrash, LogLoad, LogImport DEF LogNext

\* reqlog.go:43, 61: whatever is cut short, however often the process dies and
\* whatever the size of the window, the log is in order, comes back at a restart
\* unless a write fell short, and loses at most a record for a line spoilt.
THEOREM LogIsKept == StreamsSpec => []LogKept
<1>1. LogInv => LogKept
  <2>1. SUFFICES ASSUME LogInv PROVE LogKept
    OBVIOUS
  <2>2. OnceInOrder
    BY <2>1 DEF LogInv, JournalOK, OnceInOrder
  <2>3. SurvivesRestart
    BY <2>1 DEF LogInv, InJournal, SurvivesRestart
  <2>4. LossBounded
    <3>1. written \in SUBSET Record /\ file.bad \in Nat
      BY <2>1 DEF LogInv, JournalOK, JournalType
    <3>2. Missing(file, written) \in Nat
      BY <3>1, RecordsFinite DEF Missing
    <3>3. Missing(file, written) + (IF file.tail = "part" THEN 1 ELSE 0) <= file.bad
      BY <2>1 DEF LogInv, JournalOK
    <3>4. Missing(file, written) <= file.bad
      BY <3>1, <3>2, <3>3
    <3>. QED BY <3>4 DEF Missing, LossBounded, Lost
  <2>. QED BY <2>2, <2>3, <2>4 DEF LogKept
<1>2. StreamsInit => LogInv
  BY LogStart DEF StreamsInit
<1>3. LogInv /\ [StreamsNext]_streamsVars => LogInv'
  BY LogStep, StreamsSteps
<1>. QED BY <1>1, <1>2, <1>3, PTL DEF StreamsSpec

-----------------------------------------------------------------------------
\* Of a streamed chat completion (ChatRelay).

\* Where the text is, by the flags of thinkTagWriter.
PlaceNow == IF ~inThink THEN "before" ELSE IF closedThink THEN "after" ELSE "in"

View == [place: {"before", "in", "after"}, told: SUBSET {"finish", "error", "more"},
         dones: Nat, wrong: SUBSET {"open", "reason", "close", "text", "tools", "late"}]

RelayTypes ==
  /\ chan \in {"none"} \cup Channel /\ think \in BOOLEAN /\ lines \in 0 .. MaxChunks
  /\ sawDone \in BOOLEAN /\ sawFinish \in BOOLEAN
  /\ inThink \in BOOLEAN /\ closedThink \in BOOLEAN
  /\ ending \in {"none", "eof", "error", "gone"}
  /\ phase \in {"none", "thinking", "answered", "mixed"} /\ after \in BOOLEAN
  /\ seen \in View

TagFlags ==
  /\ closedThink => inThink
  /\ inThink => think
  /\ chan = "none" => ~inThink /\ phase = "none" /\ ending = "none"
  /\ seen.place = PlaceNow

\* What has been told of the end so far.
TellsEnd ==
  /\ ending = "none" => (sawDone <=> seen.dones > 0)
  /\ sawFinish => "finish" \in seen.told
  /\ ending = "none" /\ ~sawDone /\ "finish" \in seen.told => sawFinish

\* As long as reasoning comes in its turn, the tags are where the phase says.
InPhase ==
  phase # "mixed" =>
    /\ ending = "none" => seen.wrong = {}
    /\ think => /\ phase = "none" => ~inThink
                /\ phase = "thinking" => inThink
                /\ phase = "answered" => inThink /\ closedThink
    /\ ending = "none" /\ phase = "thinking" => ~closedThink /\ ~sawFinish

RelayInv == RelayTypes /\ TagFlags /\ TellsEnd /\ EndIsTold /\ InPhase /\ TagsNest

\* What the client makes of each element.
LEMMA TextOf ==
  ASSUME NEW v, NEW a, NEW b, NEW c, NEW d
  PROVE  SeesText(v, <<a, b, c, d>>) = SeesPiece(SeesPiece(SeesPiece(SeesPiece(v, a), b), c), d)
BY DEF SeesText

LEMMA NoPiece ==
  ASSUME NEW v \in View
  PROVE  SeesPiece(v, "none") = v
BY DEF SeesPiece, OutOfPlace, If, View

LEMMA SeesBlank ==
  ASSUME NEW v \in View
  PROVE  SeesText(v, Blank) = v
BY TextOf, NoPiece DEF Blank

LEMMA SeesNothing == ASSUME NEW v PROVE Sees(v, NoChunk) = v
BY DEF Sees, NoChunk

\* What comes after [DONE] is more.
More(v) == If(v.dones > 0, "more")

LEMMA MoreOf ==
  ASSUME NEW v \in View
  PROVE  /\ More(v) \subseteq {"more"}
         /\ \A w \in View : w.dones = v.dones => More(w) = More(v)
         /\ "more" \in More(v) => v.dones > 0
BY DEF More, If

LEMMA SeesDone ==
  ASSUME NEW v \in View
  PROVE  Sees(v, Done) = [place |-> v.place, told |-> v.told \cup More(v), dones |-> v.dones + 1,
                          wrong |-> v.wrong]
<1>1. Done.text = Blank /\ Done.is = "done" /\ Done.has = {} /\ Closing.is = "chunk"
  BY DEF Done, Closing, Chunk
<1>2. Done # Closing
  BY <1>1
<1>. QED BY <1>1, <1>2, SeesBlank DEF Sees, If, View, More

LEMMA SeesErrorLine ==
  ASSUME NEW v \in View
  PROVE  Sees(v, Error) = [place |-> v.place, told |-> v.told \cup {"error"} \cup More(v),
                           dones |-> v.dones, wrong |-> v.wrong]
<1>1. Error.text = Blank /\ Error.is = "error" /\ Error.has = {} /\ Closing.is = "chunk"
  BY DEF Error, Closing, Chunk
<1>2. Error # Closing
  BY <1>1
<1>. QED BY <1>1, <1>2, SeesBlank DEF Sees, If, View, More

LEMMA SeesClosing ==
  ASSUME NEW v \in View, v.place = "in"
  PROVE  Sees(v, Closing) = [place |-> "after", told |-> v.told, dones |-> v.dones,
                             wrong |-> v.wrong \cup If(Late(v), "late")]
<1>1. /\ Closing.text = <<"close", "none", "none", "none">>
      /\ Closing.is = "chunk" /\ Closing.has = {}
  BY DEF Closing, Chunk
<1>. DEFINE w == SeesPiece(v, "close")
<1>2. w = [place |-> "after", told |-> v.told, dones |-> v.dones,
           wrong |-> v.wrong \cup If(Late(v), "late")]
  BY DEF SeesPiece, OutOfPlace, If
<1>3. w \in View
  BY <1>2 DEF View, If
<1>. HIDE DEF w
<1>4. SeesText(v, Closing.text) = w
  BY <1>1, <1>3, TextOf, NoPiece DEF w
<1>. QED BY <1>1, <1>2, <1>4 DEF Sees, If, View

\* A chunk without tags.
PlainText(l) == <<"none", "none", "none", Text(l)>>

LEMMA SeesPlain ==
  ASSUME NEW v \in View, NEW l \in Line, v.place # "in" \/ l = {}
  PROVE  Sees(v, Chunk(PlainText(l), l)) =
           [place |-> v.place, told |-> v.told \cup (l \cap {"finish"}) \cup More(v),
            dones |-> v.dones, wrong |-> v.wrong]
<1>. DEFINE x == Chunk(PlainText(l), l)
<1>1. x.text = PlainText(l) /\ x.is = "chunk" /\ x.has = l \cap {"tools", "finish"}
  BY DEF Chunk
<1>2. SeesPiece(v, Text(l)) = v
  BY DEF SeesPiece, OutOfPlace, If, View, Text
<1>3. SeesText(v, x.text) = v
  BY <1>1, <1>2, TextOf, NoPiece DEF PlainText
<1>4. (l \cap {"tools", "finish"}) \cap {"finish"} = l \cap {"finish"}
  OBVIOUS
<1>5. x # Closing
  <2>1. x.text[1] = "none" /\ Closing.text[1] = "close"
    BY <1>1 DEF PlainText, Closing, Chunk
  <2>. QED BY <2>1
<1>6. ~(v.place = "in" /\ "tools" \in x.has)
  BY <1>1
<1>. HIDE DEF x
<1>7. Sees(v, x) = [place |-> v.place,
                    told |-> v.told \cup (x.has \cap {"finish"}) \cup {} \cup More(v),
                    dones |-> v.dones, wrong |-> v.wrong \cup {}]
  BY <1>1, <1>3, <1>5, <1>6 DEF Sees, If, More
<1>8. v.told \cup (x.has \cap {"finish"}) \cup {} \cup More(v)
        = v.told \cup (l \cap {"finish"}) \cup More(v)
  BY <1>1, <1>4
<1>. QED BY <1>7, <1>8 DEF x

\* Reasoning between tags, with what follows it.
LEMMA SeesTagged ==
  ASSUME NEW v \in View, v.place = PlaceNow, NEW l \in Line, closedThink => inThink,
         inThink \in BOOLEAN, closedThink \in BOOLEAN
  PROVE  LET g == Sees(v, Chunk(Tagged(l), l)) IN
         /\ g \in View /\ g.dones = v.dones
         /\ g.told = v.told \cup (l \cap {"finish"}) \cup More(v)
         /\ g.place = IF closedThink \/ "content" \in l THEN "after" ELSE "in"
         /\ ~closedThink =>
              g.wrong = v.wrong \cup If("content" \in l /\ Late(v), "late")
                          \cup If("content" \notin l /\ "tools" \in l, "tools")
<1>. DEFINE x == Chunk(Tagged(l), l)
            a == IF inThink THEN v ELSE SeesPiece(v, "open")
            b == SeesPiece(a, "reason")
            c == IF "content" \in l THEN SeesPiece(b, "close") ELSE b
            d == IF "content" \in l THEN SeesPiece(c, "text") ELSE c
<1>1. /\ x.is = "chunk" /\ x.has = l \cap {"tools", "finish"}
      /\ x.text = <<IF inThink THEN "none" ELSE "open", "reason",
                    IF "content" \in l THEN "close" ELSE "none", Text(l)>>
  BY DEF Chunk, Tagged
<1>2. /\ a \in View /\ a.place = (IF closedThink THEN "after" ELSE "in")
      /\ a.told = v.told /\ a.dones = v.dones /\ a.wrong = v.wrong
  <2>1. CASE inThink
    BY <2>1 DEF PlaceNow
  <2>2. CASE ~inThink
    <3>1. a = [place |-> "in", told |-> v.told, dones |-> v.dones, wrong |-> v.wrong] /\ ~closedThink
      BY <2>2 DEF SeesPiece, OutOfPlace, If, View, PlaceNow
    <3>. QED BY <3>1 DEF View
  <2>. QED BY <2>1, <2>2
<1>. HIDE DEF a
<1>3. /\ b \in View /\ b.place = a.place /\ b.told = v.told /\ b.dones = v.dones
      /\ ~closedThink => b.wrong = v.wrong
  <2>1. b = [place |-> a.place, told |-> a.told, dones |-> a.dones,
             wrong |-> a.wrong \cup If(a.place # "in", "reason")]
    BY DEF SeesPiece, OutOfPlace, If
  <2>. QED BY <1>2, <2>1 DEF View, If
<1>. HIDE DEF b
<1>4. /\ c \in View /\ c.told = v.told /\ c.dones = v.dones
      /\ c.place = IF closedThink \/ "content" \in l THEN "after" ELSE "in"
      /\ ~closedThink => c.wrong = v.wrong \cup If("content" \in l /\ Late(v), "late")
  <2>1. CASE "content" \in l
    <3>1. c = [place |-> "after", told |-> b.told, dones |-> b.dones,
               wrong |-> b.wrong \cup If(b.place # "in", "close") \cup If(Late(b), "late")]
      BY <2>1 DEF SeesPiece, OutOfPlace, If
    <3>2. Late(b) <=> Late(v)
      BY <1>3 DEF Late
    <3>. QED BY <1>2, <1>3, <2>1, <3>1, <3>2 DEF View, If
  <2>2. CASE "content" \notin l
    BY <1>2, <1>3, <2>2 DEF If
  <2>. QED BY <2>1, <2>2
<1>. HIDE DEF c
<1>5. d = c
  BY <1>4 DEF SeesPiece, OutOfPlace, If, View
<1>6. SeesText(v, x.text) = d
  <2>1. SeesText(v, x.text) =
          SeesPiece(SeesPiece(SeesPiece(SeesPiece(v, IF inThink THEN "none" ELSE "open"), "reason"),
                              IF "content" \in l THEN "close" ELSE "none"), Text(l))
    BY <1>1, TextOf
  <2>2. SeesPiece(v, IF inThink THEN "none" ELSE "open") = a
    BY NoPiece DEF a
  <2>3. SeesPiece(b, IF "content" \in l THEN "close" ELSE "none") = c
    BY <1>3, NoPiece DEF c
  <2>4. SeesPiece(c, Text(l)) = d
    BY <1>4, NoPiece DEF Text
  <2>. QED BY <2>1, <2>2, <2>3, <2>4 DEF b
<1>. HIDE DEF d
<1>10. x # Closing
  <2>1. x.text[2] = "reason" /\ Closing.text[2] = "none"
    BY <1>1 DEF Closing, Chunk
  <2>. QED BY <2>1
<1>7. Sees(v, x) = [place |-> c.place, told |-> v.told \cup (l \cap {"finish"}) \cup More(v),
                    dones |-> v.dones,
                    wrong |-> c.wrong \cup If(c.place = "in" /\ "tools" \in l, "tools")]
  <2>1. x.has \cap {"finish"} = l \cap {"finish"} /\ ("tools" \in x.has <=> "tools" \in l)
    BY <1>1
  <2>2. Sees(v, x) = [place |-> c.place,
                      told |-> v.told \cup (x.has \cap {"finish"}) \cup {} \cup More(v),
                      dones |-> c.dones,
                      wrong |-> c.wrong \cup If(c.place = "in" /\ "tools" \in x.has, "tools")]
    BY <1>1, <1>4, <1>5, <1>6, <1>10 DEF Sees, If, More
  <2>. QED BY <1>4, <2>1, <2>2 DEF If
<1>8. Sees(v, x) \in View
  BY <1>4, <1>7, MoreOf DEF View, If
<1>. HIDE DEF x
<1>9. ~closedThink => (c.place = "in" <=> "content" \notin l)
  BY <1>4
<1>. QED BY <1>4, <1>7, <1>8, <1>9 DEF x, If

\* The flags and the phase of a line that is written, and what the client has
\* seen of it.
LEMMA WriteOf ==
  ASSUME RelayInv, NEW l \in Line, NEW rest \in {Done, NoChunk}, Write(l, rest)
  PROVE  /\ inThink' \in BOOLEAN /\ closedThink' \in BOOLEAN
         /\ (closedThink' => inThink') /\ (inThink' => think)
         /\ inThink' <=> inThink \/ (think /\ "reason" \in l)
         /\ closedThink' <=> IF think /\ "reason" \in l THEN closedThink \/ "content" \in l
                                                        ELSE closedThink \/ (l # {} /\ inThink)
         /\ seen' \in View /\ seen'.place = PlaceNow'
         /\ seen'.told = seen.told \cup (l \cap {"finish"}) \cup More(seen)
         /\ seen'.dones = IF rest = Done THEN seen.dones + 1 ELSE seen.dones
         /\ think /\ "reason" \in l /\ ~closedThink =>
              seen'.wrong = seen.wrong \cup If("content" \in l /\ Late(seen), "late")
                              \cup If("content" \notin l /\ "tools" \in l, "tools")
         /\ ~(think /\ "reason" \in l) =>
              seen'.wrong = seen.wrong \cup If(l # {} /\ inThink /\ ~closedThink /\ Late(seen), "late")
<1>1. /\ inThink \in BOOLEAN /\ closedThink \in BOOLEAN /\ (closedThink => inThink)
      /\ inThink => think
      /\ seen \in View /\ seen.place = PlaceNow
  BY Zenon DEF RelayInv, RelayTypes, TagFlags, TellsEnd
<1>2. ASSUME NEW w \in View, w.dones = seen.dones
      PROVE  /\ Sees(w, rest) \in View /\ Sees(w, rest).place = w.place
             /\ Sees(w, rest).wrong = w.wrong
             /\ More(seen) \subseteq w.told => Sees(w, rest).told = w.told
             /\ Sees(w, rest).dones = IF rest = Done THEN seen.dones + 1 ELSE seen.dones
  <2>1. CASE rest = Done
    <3>1. Sees(w, rest) = [place |-> w.place, told |-> w.told \cup More(w),
                           dones |-> w.dones + 1, wrong |-> w.wrong]
      BY <2>1, SeesDone
    <3>2. More(w) = More(seen) /\ More(w) \subseteq {"more"}
      BY <1>1, <1>2, MoreOf
    <3>. QED BY <1>2, <2>1, <3>1, <3>2 DEF View
  <2>2. CASE rest # Done
    BY <1>2, <2>2, SeesNothing
  <2>. QED BY <2>1, <2>2
<1>3. CASE think /\ "reason" \in l
  <2>. DEFINE g == Sees(seen, Chunk(Tagged(l), l))
  <2>1. /\ inThink' = TRUE /\ closedThink' = (closedThink \/ "content" \in l)
        /\ seen' = Sees(Sees(g, rest), NoChunk)
    BY <1>3, Zenon DEF Write, Shown
  <2>2. inThink' /\ (closedThink' <=> closedThink \/ "content" \in l) /\ inThink' \in BOOLEAN
        /\ closedThink' \in BOOLEAN
    BY <2>1, Zenon
  <2>3. /\ g \in View /\ g.dones = seen.dones
        /\ g.told = seen.told \cup (l \cap {"finish"}) \cup More(seen)
        /\ g.place = (IF closedThink \/ "content" \in l THEN "after" ELSE "in")
        /\ ~closedThink =>
             g.wrong = seen.wrong \cup If("content" \in l /\ Late(seen), "late")
                         \cup If("content" \notin l /\ "tools" \in l, "tools")
    BY <1>1, SeesTagged
  <2>. HIDE DEF g
  <2>4. /\ seen' \in View /\ seen'.place = g.place /\ seen'.told = g.told
        /\ seen'.wrong = g.wrong
        /\ seen'.dones = IF rest = Done THEN seen.dones + 1 ELSE seen.dones
    BY <1>2, <2>1, <2>3, SeesNothing
  <2>5. seen'.place = PlaceNow'
    BY <2>2, <2>3, <2>4 DEF PlaceNow
  <2>. QED BY <1>1, <1>3, <2>2, <2>3, <2>4, <2>5
<1>4. CASE ~(think /\ "reason" \in l)
  <2>. DEFINE v == Sees(seen, Closer(l # {}))
              x == Chunk(PlainText(l), l)
              g == Sees(v, x)
  <2>1. closedThink' = (closedThink \/ (l # {} /\ inThink)) /\ inThink' = inThink
    BY <1>4, Zenon DEF Write
  <2>2. seen' = Sees(g, rest)
    BY <1>4, Zenon DEF Write, Shown, PlainText
  <2>3. /\ v \in View /\ v.dones = seen.dones /\ v.told = seen.told
        /\ v.place = (IF ~inThink THEN "before" ELSE IF closedThink \/ l # {} THEN "after" ELSE "in")
        /\ v.wrong = seen.wrong \cup If(l # {} /\ inThink /\ ~closedThink /\ Late(seen), "late")
    <3>1. CASE l # {} /\ inThink /\ ~closedThink
      <4>1. Closer(l # {}) = Closing /\ seen.place = "in"
        BY <1>1, <3>1 DEF Closer, Unclosed, PlaceNow
      <4>2. v = [place |-> "after", told |-> seen.told, dones |-> seen.dones,
                 wrong |-> seen.wrong \cup If(Late(seen), "late")]
        BY <1>1, <4>1, SeesClosing
      <4>3. If(Late(seen), "late") = If(l # {} /\ inThink /\ ~closedThink /\ Late(seen), "late")
        BY <3>1 DEF If
      <4>4. If(Late(seen), "late") \subseteq {"late"}
        BY DEF If
      <4>. QED BY <1>1, <3>1, <4>2, <4>3, <4>4 DEF View
    <3>2. CASE ~(l # {} /\ inThink /\ ~closedThink)
      <4>1. v = seen
        BY <3>2, SeesNothing DEF Closer, Unclosed
      <4>2. seen.place =
              (IF ~inThink THEN "before" ELSE IF closedThink \/ l # {} THEN "after" ELSE "in")
        BY <1>1, <3>2 DEF PlaceNow
      <4>. QED BY <1>1, <3>2, <4>1, <4>2 DEF If
    <3>. QED BY <3>1, <3>2
  <2>. HIDE DEF v
  <2>4. v.place # "in" \/ l = {}
    BY <2>3
  <2>5. g = [place |-> v.place, told |-> v.told \cup (l \cap {"finish"}) \cup More(v),
             dones |-> v.dones, wrong |-> v.wrong]
    BY <2>3, <2>4, SeesPlain
  <2>10. More(v) = More(seen) /\ More(seen) \subseteq {"more"}
    BY <1>1, <2>3, MoreOf
  <2>6. g \in View /\ g.dones = seen.dones /\ g.place = v.place /\ g.wrong = v.wrong
        /\ g.told = v.told \cup (l \cap {"finish"}) \cup More(seen)
    BY <2>3, <2>5, <2>10 DEF View
  <2>. HIDE DEF g
  <2>7. /\ seen' \in View /\ seen'.place = g.place /\ seen'.told = g.told
        /\ seen'.wrong = g.wrong
        /\ seen'.dones = IF rest = Done THEN seen.dones + 1 ELSE seen.dones
    BY <1>2, <2>2, <2>6
  <2>8. (closedThink' <=> closedThink \/ (l # {} /\ inThink)) /\ (inThink' <=> inThink) /\ inThink' \in BOOLEAN
        /\ closedThink' \in BOOLEAN
    BY <1>1, <2>1, Zenon
  <2>9. seen'.place = PlaceNow'
    BY <2>3, <2>6, <2>7, <2>8 DEF PlaceNow
  <2>. QED BY <1>1, <1>4, <2>3, <2>6, <2>7, <2>8, <2>9
<1>. QED BY <1>3, <1>4

\* The turn of what is read.
LEMMA TurnOf ==
  ASSUME RelayTypes, NEW l \in Line, l # {}, Turn(l)
  PROVE  /\ phase' \in {"none", "thinking", "answered", "mixed"}
         /\ phase' # "mixed" =>
              /\ phase # "mixed"
              /\ "reason" \in l =>
                   /\ phase \in {"none", "thinking"} /\ ~sawFinish /\ ~sawDone
                   /\ "content" \in l => phase' = "answered"
                   /\ "content" \notin l => phase' = "thinking" /\ l = {"reason"}
              /\ "reason" \notin l =>
                   /\ phase = "thinking" => ~sawDone
                   /\ phase' = IF phase = "thinking" THEN "answered" ELSE phase
BY DEF Turn, RelayTypes

\* A line that is written moves the tags with the phase.
LEMMA WriteInPhase ==
  ASSUME RelayInv, ending = "none", NEW l \in Line, NEW rest \in {Done, NoChunk},
         Write(l, rest), Turn(l), ending' = ending, think' = think,
         sawFinish' => sawFinish \/ "finish" \in l
  PROVE  InPhase' /\ TagsNest'
<1>1. SUFFICES ASSUME phase' # "mixed"
               PROVE  /\ seen'.wrong = {}
                      /\ think => /\ phase' = "none" => ~inThink'
                                  /\ phase' = "thinking" => inThink'
                                  /\ phase' = "answered" => inThink' /\ closedThink'
                      /\ phase' = "thinking" => ~closedThink' /\ ~sawFinish'
  BY DEF InPhase, TagsNest
<1>2. /\ phase # "mixed"
      /\ l = {} => phase' = phase
      /\ "reason" \in l =>
           /\ phase \in {"none", "thinking"} /\ ~sawFinish /\ ~sawDone
           /\ "content" \in l => phase' = "answered"
           /\ "content" \notin l => phase' = "thinking" /\ l = {"reason"}
      /\ "reason" \notin l /\ l # {} =>
           /\ phase = "thinking" => ~sawDone
           /\ phase' = IF phase = "thinking" THEN "answered" ELSE phase
  <2>1. CASE l = {}
    BY <1>1, <2>1 DEF Turn
  <2>2. CASE l # {}
    BY <1>1, <2>2, TurnOf DEF RelayInv
  <2>. QED BY <2>1, <2>2
<1>3. /\ seen.wrong = {}
      /\ think => /\ phase = "none" => ~inThink
                  /\ phase = "thinking" => inThink
                  /\ phase = "answered" => inThink /\ closedThink
      /\ phase = "thinking" => ~closedThink /\ ~sawFinish
      /\ closedThink => inThink
      /\ inThink => think
      /\ phase \in {"none", "thinking", "answered", "mixed"}
  BY <1>2 DEF RelayInv, RelayTypes, TagFlags, InPhase
<1>4. ~sawFinish /\ ~sawDone => ~Late(seen)
  <2>1. ~sawDone => ~(seen.dones > 0) /\ ("finish" \in seen.told => sawFinish)
    BY DEF RelayInv, TellsEnd
  <2>. QED BY <2>1 DEF Late
<1>5. /\ inThink' <=> inThink \/ (think /\ "reason" \in l)
      /\ closedThink' <=> IF think /\ "reason" \in l THEN closedThink \/ "content" \in l
                                                     ELSE closedThink \/ (l # {} /\ inThink)
      /\ think /\ "reason" \in l /\ ~closedThink =>
           seen'.wrong = seen.wrong \cup If("content" \in l /\ Late(seen), "late")
                           \cup If("content" \notin l /\ "tools" \in l, "tools")
      /\ ~(think /\ "reason" \in l) =>
           seen'.wrong = seen.wrong \cup If(l # {} /\ inThink /\ ~closedThink /\ Late(seen), "late")
  BY WriteOf
<1>6. CASE "reason" \in l
  <2>1. ~closedThink /\ ~Late(seen)
    BY <1>2, <1>3, <1>4, <1>6
  <2>2. ~("content" \notin l /\ "tools" \in l)
    BY <1>2, <1>6
  <2>3. seen'.wrong = {}
    BY <1>3, <1>5, <2>1, <2>2 DEF If
  <2>4. phase' = "thinking" => ~sawFinish'
    BY <1>2, <1>6
  <2>. QED BY <1>2, <1>3, <1>5, <1>6, <2>1, <2>3, <2>4
<1>7. CASE "reason" \notin l
  <2>1. ~(l # {} /\ inThink /\ ~closedThink /\ Late(seen))
    BY <1>2, <1>3, <1>4, <1>7
  <2>2. seen'.wrong = {}
    BY <1>3, <1>5, <1>7, <2>1 DEF If
  <2>3. l = {} => ("finish" \notin l)
    OBVIOUS
  <2>. QED BY <1>2, <1>3, <1>5, <1>7, <2>2, <2>3
<1>. QED BY <1>6, <1>7

\* A line that is read, and written as a chunk with a [DONE] after it or without.
LEMMA WriteKeeps ==
  ASSUME RelayInv, Reading, NEW l \in Line, NEW rest \in {Done, NoChunk},
         Write(l, rest), Turn(l), UNCHANGED <<request, ending>>,
         sawFinish' \in BOOLEAN, sawDone' \in BOOLEAN,
         sawFinish' <=> sawFinish \/ (rest = NoChunk /\ "finish" \in l),
         sawDone' <=> sawDone \/ rest = Done
  PROVE  RelayInv'
<1>1. /\ UNCHANGED <<chan, think, ending>> /\ chan # "none" /\ ending = "none"
      /\ lines' \in 0 .. MaxChunks
  BY RelayConstants DEF Reading, Relaying, request, RelayInv, RelayTypes
<1>2. after' \in BOOLEAN /\ (after' <=> after \/ sawDone)
  <2>1. after' = (after \/ sawDone)
    BY Zenon DEF Reading
  <2>. QED BY <2>1, Zenon
<1>3. /\ inThink' \in BOOLEAN /\ closedThink' \in BOOLEAN
      /\ (closedThink' => inThink') /\ (inThink' => think)
      /\ seen' \in View /\ seen'.place = PlaceNow'
      /\ seen'.told = seen.told \cup (l \cap {"finish"}) \cup More(seen)
      /\ seen'.dones = IF rest = Done THEN seen.dones + 1 ELSE seen.dones
  BY WriteOf
<1>4. InPhase' /\ TagsNest'
  BY <1>1, WriteInPhase
<1>5. phase' \in {"none", "thinking", "answered", "mixed"}
  BY TurnOf DEF Turn, RelayInv, RelayTypes
<1>6. closedThink' => inThink'
  BY <1>3
<1>7. RelayTypes'
  BY <1>1, <1>2, <1>3, <1>5 DEF RelayInv, RelayTypes
<1>8. TagFlags'
  BY <1>1, <1>3, <1>6 DEF TagFlags
<1>9. /\ seen \in View /\ seen.dones \in Nat
      /\ sawDone <=> seen.dones > 0
      /\ seen.dones > 1 \/ "more" \in seen.told => after
      /\ sawFinish => "finish" \in seen.told
      /\ ~sawDone /\ "finish" \in seen.told => sawFinish
  BY <1>1 DEF RelayInv, RelayTypes, TellsEnd, EndIsTold, View
<1>10. More(seen) \subseteq {"more"} /\ ("more" \in More(seen) => sawDone)
  BY <1>9, MoreOf
<1>11. Done # NoChunk
  <2>1. Done.is = "done" /\ NoChunk.is = "nothing"
    BY DEF Done, NoChunk
  <2>. QED BY <2>1
<1>12. TellsEnd'
  <2>1. sawDone' <=> seen'.dones > 0
    BY <1>3, <1>9
  <2>2. sawFinish' => "finish" \in seen'.told
    BY <1>3, <1>9
  <2>3. ~sawDone' /\ "finish" \in seen'.told => sawFinish'
    BY <1>3, <1>9, <1>10, <1>11
  <2>. QED BY <2>1, <2>2, <2>3 DEF TellsEnd
<1>13. EndIsTold'
  <2>1. seen'.dones > 1 => after'
    BY <1>2, <1>3, <1>9
  <2>2. "more" \in seen'.told => after'
    BY <1>2, <1>3, <1>9, <1>10
  <2>. QED BY <1>1, <2>1, <2>2 DEF EndIsTold
<1>. QED BY <1>4, <1>7, <1>8, <1>12, <1>13 DEF RelayInv

\* What leaves the tags and the client's text as they are.
LEMMA QuietKeeps ==
  ASSUME RelayInv, Reading, UNCHANGED <<chan, think, inThink, closedThink, sawFinish, ending, phase>>,
         sawDone' \in BOOLEAN, seen' \in View,
         seen'.place = seen.place, seen'.wrong = seen.wrong,
         seen.told \subseteq seen'.told, seen'.told \subseteq seen.told \cup {"error"} \cup More(seen),
         seen'.dones \in {seen.dones, seen.dones + 1},
         sawDone' <=> sawDone \/ seen'.dones = seen.dones + 1
  PROVE  RelayInv'
<1>1. /\ chan # "none" /\ ending = "none" /\ lines' \in 0 .. MaxChunks
  BY RelayConstants DEF Reading, Relaying, RelayInv, RelayTypes
<1>2. after' \in BOOLEAN /\ (after' <=> after \/ sawDone)
  <2>1. after' = (after \/ sawDone)
    BY Zenon DEF Reading
  <2>. QED BY <2>1, Zenon
<1>3. /\ seen \in View /\ seen.dones \in Nat
      /\ sawDone <=> seen.dones > 0
      /\ seen.dones > 1 \/ "more" \in seen.told => after
      /\ sawFinish => "finish" \in seen.told
      /\ ~sawDone /\ "finish" \in seen.told => sawFinish
  BY <1>1 DEF RelayInv, RelayTypes, TellsEnd, EndIsTold, View
<1>4. More(seen) \subseteq {"more"} /\ ("more" \in More(seen) => sawDone)
  BY <1>3, MoreOf
<1>5. RelayTypes'
  BY <1>1, <1>2 DEF RelayInv, RelayTypes
<1>6. TagFlags'
  BY DEF RelayInv, TagFlags, PlaceNow
<1>7. InPhase' /\ TagsNest'
  BY DEF RelayInv, InPhase, TagsNest
<1>8. TellsEnd'
  <2>1. sawDone' <=> seen'.dones > 0
    BY <1>3
  <2>2. ~sawDone' /\ "finish" \in seen'.told => sawFinish
    BY <1>3, <1>4
  <2>. QED BY <1>3, <2>1, <2>2 DEF TellsEnd
<1>9. EndIsTold'
  <2>1. seen'.dones > 1 => after'
    BY <1>2, <1>3
  <2>2. "more" \in seen'.told => after'
    BY <1>2, <1>3, <1>4
  <2>. QED BY <1>1, <2>1, <2>2 DEF EndIsTold
<1>. QED BY <1>5, <1>6, <1>7, <1>8, <1>9 DEF RelayInv

LEMMA RelayForward == ASSUME RelayInv, Forward PROVE RelayInv'
<1>1. PICK l \in Line :
        /\ IF l = {} THEN UNCHANGED <<seen, tags>> ELSE Write(l, NoChunk)
        /\ sawFinish' = (sawFinish \/ "finish" \in l)
        /\ Turn(l)
  BY DEF Forward
<1>2. Reading /\ UNCHANGED <<request, sawDone, ending>>
  BY DEF Forward
<1>3. /\ sawFinish' <=> sawFinish \/ "finish" \in l
      /\ sawFinish' \in BOOLEAN
  BY <1>1, Zenon
<1>4. seen \in View /\ sawDone \in BOOLEAN /\ sawFinish \in BOOLEAN
  BY Zenon DEF RelayInv, RelayTypes
<1>5. CASE l = {}
  <2>1. UNCHANGED <<seen, inThink, closedThink>> /\ phase' = phase
    BY <1>1, <1>5 DEF tags, Turn
  <2>2. UNCHANGED <<chan, think, ending>> /\ seen.dones \in Nat
    BY <1>2, <1>4 DEF request, View
  <2>3. sawFinish' = sawFinish /\ sawDone' = sawDone /\ sawDone' \in BOOLEAN
    BY <1>2, <1>3, <1>4, <1>5
  <2>. QED BY <1>2, <1>4, <2>1, <2>2, <2>3, QuietKeeps
<1>6. CASE l # {}
  <2>1. Write(l, NoChunk)
    BY <1>1, <1>6
  <2>2. NoChunk # Done
    <3>1. Done.is = "done" /\ NoChunk.is = "nothing"
      BY DEF Done, NoChunk
    <3>. QED BY <3>1
  <2>3. sawDone' \in BOOLEAN /\ (sawDone' <=> sawDone)
    BY <1>2, <1>4
  <2>. QED BY <1>1, <1>2, <1>3, <2>1, <2>2, <2>3, WriteKeeps
<1>. QED BY <1>5, <1>6

\* TraeWork's done and error.
LEMMA EndsKeeps ==
  ASSUME RelayInv, Reading, NEW l \in Line, EndsWith(l), UNCHANGED <<request, sawFinish, ending>>
  PROVE  RelayInv'
<1>1. Write(l, Done) /\ Turn(l)
  BY DEF EndsWith
<1>2. sawDone' /\ sawDone' \in BOOLEAN
  <2>1. sawDone' = TRUE
    BY Zenon DEF EndsWith
  <2>. QED BY <2>1, Zenon
<1>3. sawFinish' \in BOOLEAN /\ (sawFinish' <=> sawFinish)
  BY DEF RelayInv, RelayTypes
<1>4. Done # NoChunk
  <2>1. Done.is = "done" /\ NoChunk.is = "nothing"
    BY DEF Done, NoChunk
  <2>. QED BY <2>1
<1>. QED BY <1>1, <1>2, <1>3, <1>4, WriteKeeps

LEMMA RelayError == ASSUME RelayInv, ErrorLine PROVE RelayInv'
<1>1. Reading /\ UNCHANGED <<request, sawFinish, ending>>
  BY DEF ErrorLine
<1>2. CASE chan = "traework"
  <2>1. EndsWith({"content", "finish"}) /\ {"content", "finish"} \in Line
    BY <1>2 DEF ErrorLine, Line
  <2>. QED BY <1>1, <2>1, EndsKeeps
<1>3. CASE chan # "traework"
  <2>1. /\ UNCHANGED <<inThink, closedThink, sawDone, phase>>
        /\ seen' = Sees(Sees(Sees(seen, Error), NoChunk), NoChunk)
    BY <1>3 DEF ErrorLine, Shown, tags
  <2>2. seen \in View /\ seen.dones \in Nat /\ sawDone \in BOOLEAN
    BY DEF RelayInv, RelayTypes, View
  <2>3. seen' = [place |-> seen.place, told |-> seen.told \cup {"error"} \cup More(seen),
                 dones |-> seen.dones, wrong |-> seen.wrong]
    BY <2>1, <2>2, SeesErrorLine, SeesNothing
  <2>4. More(seen) \subseteq {"more"}
    BY <2>2, MoreOf
  <2>5. /\ seen' \in View /\ seen'.place = seen.place /\ seen'.wrong = seen.wrong
        /\ seen'.told = seen.told \cup {"error"} \cup More(seen) /\ seen'.dones = seen.dones
    BY <2>2, <2>3, <2>4 DEF View
  <2>6. UNCHANGED <<chan, think>>
    BY <1>1 DEF request
  <2>. QED BY <1>1, <2>1, <2>2, <2>5, <2>6, QuietKeeps
<1>. QED BY <1>2, <1>3

\* At the end what is open is closed.
LEMMA FinishOf ==
  ASSUME RelayInv, ending = "none", chan # "none", NEW x, NEW y, NEW e \in {"eof", "error"},
         Finish(x, y, e),
         NEW w \in View, w = Sees(Sees(seen, x), y), w.place = seen.place, w.wrong = seen.wrong,
         w.dones > 1 \/ "more" \in w.told => after',
         e = "eof" \/ chan = "workbuddy" \/ sawDone' => w.dones >= 1,
         chan = "workbuddy" => sawDone' \/ w.told \cap {"finish", "error"} # {},
         seen.told \subseteq w.told,
         lines' \in 0 .. MaxChunks, sawDone' \in BOOLEAN, after' \in BOOLEAN
  PROVE  RelayInv'
<1>1. /\ UNCHANGED <<chan, think, inThink, sawFinish, phase>> /\ ending' = e
      /\ seen' = Sees(w, Closer(TRUE))
  BY DEF Finish, Shown, request
<1>2. closedThink' = inThink
  BY Zenon DEF Finish
<1>3. /\ inThink \in BOOLEAN /\ closedThink \in BOOLEAN /\ (closedThink => inThink)
      /\ seen.place = PlaceNow
  BY Zenon DEF RelayInv, RelayTypes, TagFlags
<1>4. (closedThink' <=> inThink) /\ closedThink' \in BOOLEAN
  BY <1>2, <1>3, Zenon
<1>5. /\ seen' \in View /\ seen'.told = w.told /\ seen'.dones = w.dones
      /\ seen'.place = (IF inThink THEN "after" ELSE "before")
      /\ seen'.wrong \subseteq seen.wrong \cup If(inThink /\ ~closedThink, "late")
  <2>1. CASE inThink /\ ~closedThink
    <3>1. Closer(TRUE) = Closing /\ w.place = "in"
      BY <1>3, <2>1 DEF Closer, Unclosed, PlaceNow
    <3>2. seen' = [place |-> "after", told |-> w.told, dones |-> w.dones,
                   wrong |-> w.wrong \cup If(Late(w), "late")]
      BY <1>1, <3>1, SeesClosing
    <3>3. If(Late(w), "late") \subseteq {"late"} /\ If(inThink /\ ~closedThink, "late") = {"late"}
      BY <2>1 DEF If
    <3>. QED BY <2>1, <3>2, <3>3 DEF View
  <2>2. CASE ~(inThink /\ ~closedThink)
    <3>1. seen' = w
      BY <1>1, <2>2, SeesNothing DEF Closer, Unclosed
    <3>2. seen.place = (IF inThink THEN "after" ELSE "before")
      BY <1>3, <2>2 DEF PlaceNow
    <3>. QED BY <3>1, <3>2
  <2>. QED BY <2>1, <2>2
<1>6. RelayTypes'
  BY <1>1, <1>4, <1>5 DEF RelayInv, RelayTypes
<1>7. TagFlags'
  BY <1>1, <1>3, <1>4, <1>5 DEF RelayInv, TagFlags, PlaceNow
<1>8. TellsEnd'
  <2>1. sawFinish => "finish" \in seen.told
    BY DEF RelayInv, TellsEnd
  <2>. QED BY <1>1, <1>5, <2>1 DEF TellsEnd
<1>9. EndIsTold'
  BY <1>1, <1>5 DEF EndIsTold
<1>10. InPhase' /\ TagsNest'
  <2>1. SUFFICES ASSUME phase # "mixed"
                 PROVE  /\ think => /\ phase = "none" => ~inThink
                                    /\ phase = "thinking" => inThink
                                    /\ phase = "answered" => inThink /\ closedThink'
                        /\ seen'.wrong \subseteq If(phase = "thinking", "late")
    BY <1>1 DEF InPhase, TagsNest
  <2>2. /\ seen.wrong = {}
        /\ think => /\ phase = "none" => ~inThink
                    /\ phase = "thinking" => inThink
                    /\ phase = "answered" => inThink /\ closedThink
        /\ inThink => think
        /\ phase \in {"none", "thinking", "answered", "mixed"}
    BY <2>1 DEF RelayInv, RelayTypes, TagFlags, InPhase
  <2>3. inThink /\ ~closedThink => phase = "thinking"
    BY <2>1, <2>2
  <2>4. If(inThink /\ ~closedThink, "late") \subseteq If(phase = "thinking", "late")
    BY <2>3 DEF If
  <2>. QED BY <1>4, <1>5, <2>2, <2>4
<1>. QED BY <1>6, <1>7, <1>8, <1>9, <1>10 DEF RelayInv

\* [DONE] of WorkBuddy goes on, that of Qoder is the end.
LEMMA RelayDone == ASSUME RelayInv, DoneLine PROVE RelayInv'
<1>1. /\ Reading /\ ending = "none" /\ chan # "none"
      /\ lines' \in 0 .. MaxChunks
  BY RelayConstants DEF DoneLine, Reading, Relaying, RelayInv, RelayTypes
<1>2. after' \in BOOLEAN /\ (after' <=> after \/ sawDone)
  <2>1. after' = (after \/ sawDone)
    BY Zenon DEF DoneLine, Reading
  <2>. QED BY <2>1, Zenon
<1>3. /\ seen \in View /\ seen.dones \in Nat
      /\ sawDone <=> seen.dones > 0
      /\ seen.dones > 1 \/ "more" \in seen.told => after
  BY <1>1 DEF RelayInv, RelayTypes, TellsEnd, EndIsTold, View
<1>4. More(seen) \subseteq {"more"} /\ ("more" \in More(seen) => sawDone)
  BY <1>3, MoreOf
<1>. DEFINE w == [place |-> seen.place, told |-> seen.told \cup More(seen),
                  dones |-> seen.dones + 1, wrong |-> seen.wrong]
<1>5. Sees(Sees(seen, Done), NoChunk) = w
  BY <1>3, SeesDone, SeesNothing
<1>6. /\ w \in View /\ w.place = seen.place /\ w.told = seen.told \cup More(seen)
      /\ w.dones = seen.dones + 1 /\ w.wrong = seen.wrong
  BY <1>3, <1>4 DEF View
<1>. HIDE DEF w
<1>7. CASE chan = "workbuddy"
  <2>1. /\ UNCHANGED <<chan, think, inThink, closedThink, sawFinish, ending, phase>>
        /\ seen' = Sees(Sees(Sees(seen, Done), NoChunk), NoChunk)
    BY <1>7 DEF DoneLine, Shown, request, tags
  <2>2. seen' = w
    BY <1>5, <2>1, SeesNothing
  <2>3. sawDone' /\ sawDone' \in BOOLEAN
    <3>1. sawDone' = TRUE
      BY <1>7, Zenon DEF DoneLine
    <3>. QED BY <3>1, Zenon
  <2>. QED BY <1>1, <1>3, <1>4, <1>6, <2>1, <2>2, <2>3, QuietKeeps
<1>8. CASE chan = "traework"
  <2>1. PICK l \in SUBSET {"finish"} : EndsWith(l)
    BY <1>8 DEF DoneLine
  <2>2. l \in Line /\ UNCHANGED <<request, sawFinish, ending>>
    BY <1>8 DEF DoneLine, Line
  <2>. QED BY <1>1, <2>1, <2>2, EndsKeeps
<1>9. CASE chan = "qoder"
  <2>1. Finish(Done, NoChunk, "eof")
    BY <1>9 DEF DoneLine
  <2>2. sawDone' \in BOOLEAN
    <3>1. sawDone' = TRUE
      BY <1>9, Zenon DEF DoneLine
    <3>. QED BY <3>1, Zenon
  <2>3. w.dones > 1 \/ "more" \in w.told => after'
    BY <1>2, <1>3, <1>4, <1>6
  <2>4. w.dones >= 1
    BY <1>3, <1>6
  <2>. QED BY <1>1, <1>2, <1>5, <1>6, <1>9, <2>1, <2>2, <2>3, <2>4, FinishOf
<1>. QED BY <1>7, <1>8, <1>9 DEF DoneLine

\* An error or none, and a [DONE] or none.
LEMMA SeesEnd ==
  ASSUME NEW v \in View, NEW x \in {Error, NoChunk}, NEW y \in {Done, NoChunk},
         v.dones = 0 \/ (x = NoChunk /\ y = NoChunk)
  PROVE  LET w == Sees(Sees(v, x), y) IN
         /\ w \in View /\ w.place = v.place /\ w.wrong = v.wrong
         /\ w.told = IF x = Error THEN v.told \cup {"error"} ELSE v.told
         /\ w.dones = IF y = Done THEN 1 ELSE v.dones
<1>. DEFINE u == Sees(v, x)
            w == Sees(u, y)
<1>1. Error # NoChunk /\ Done # NoChunk
  <2>1. Error.is = "error" /\ Done.is = "done" /\ NoChunk.is = "nothing"
    BY DEF Error, Done, NoChunk
  <2>. QED BY <2>1
<1>2. /\ u \in View /\ u.place = v.place /\ u.wrong = v.wrong /\ u.dones = v.dones
      /\ u.told = IF x = Error THEN v.told \cup {"error"} ELSE v.told
  <2>1. CASE x = Error
    <3>1. v.dones = 0
      BY <1>1, <2>1
    <3>2. u = [place |-> v.place, told |-> v.told \cup {"error"} \cup More(v), dones |-> v.dones,
               wrong |-> v.wrong]
      BY <2>1, SeesErrorLine
    <3>3. More(v) = {}
      BY <3>1 DEF More, If
    <3>. QED BY <2>1, <3>1, <3>2, <3>3 DEF View
  <2>2. CASE x = NoChunk
    BY <1>1, <2>2, SeesNothing
  <2>. QED BY <2>1, <2>2
<1>. HIDE DEF u
<1>3. /\ w \in View /\ w.place = u.place /\ w.wrong = u.wrong /\ w.told = u.told
      /\ w.dones = IF y = Done THEN 1 ELSE u.dones
  <2>1. CASE y = Done
    <3>1. u.dones = 0
      BY <1>1, <1>2, <2>1
    <3>2. w = [place |-> u.place, told |-> u.told \cup More(u), dones |-> u.dones + 1,
               wrong |-> u.wrong]
      BY <1>2, <2>1, SeesDone
    <3>3. More(u) = {}
      BY <3>1 DEF More, If
    <3>. QED BY <1>2, <2>1, <3>1, <3>2, <3>3 DEF View
  <2>2. CASE y = NoChunk
    BY <1>1, <1>2, <2>2, SeesNothing
  <2>. QED BY <2>1, <2>2
<1>. QED BY <1>2, <1>3 DEF u

LEMMA RelayEof == ASSUME RelayInv, Eof PROVE RelayInv'
<1>. DEFINE x == IF Tells /\ ~sawFinish THEN Error ELSE NoChunk
            y == IF sawDone THEN NoChunk ELSE Done
            w == Sees(Sees(seen, x), y)
<1>1. /\ chan # "none" /\ ending = "none" /\ Finish(x, y, "eof")
      /\ UNCHANGED <<lines, sawDone, after>>
  BY DEF Eof, Relaying
<1>2. /\ seen \in View /\ seen.dones \in Nat /\ (sawDone <=> seen.dones > 0)
      /\ lines \in 0 .. MaxChunks /\ sawDone \in BOOLEAN /\ after \in BOOLEAN
      /\ seen.dones > 1 \/ "more" \in seen.told => after
      /\ sawFinish => "finish" \in seen.told
  BY <1>1 DEF RelayInv, RelayTypes, TellsEnd, EndIsTold, View
<1>3. /\ x \in {Error, NoChunk} /\ y \in {Done, NoChunk}
      /\ seen.dones = 0 \/ (x = NoChunk /\ y = NoChunk)
      /\ x = Error <=> Tells /\ ~sawFinish
      /\ y = Done <=> ~sawDone
  <2>1. Error.is = "error" /\ Done.is = "done" /\ NoChunk.is = "nothing"
    BY DEF Error, Done, NoChunk
  <2>2. Error # NoChunk /\ Done # NoChunk
    BY <2>1
  <2>. QED BY <1>2, <2>2 DEF Tells
<1>. HIDE DEF x, y
<1>4. /\ w \in View /\ w.place = seen.place /\ w.wrong = seen.wrong
      /\ w.told = (IF x = Error THEN seen.told \cup {"error"} ELSE seen.told)
      /\ w.dones = (IF y = Done THEN 1 ELSE seen.dones)
  BY <1>2, <1>3, SeesEnd
<1>5. w.dones >= 1 /\ (w.dones > 1 \/ "more" \in w.told => after) /\ seen.told \subseteq w.told
  BY <1>2, <1>3, <1>4
<1>6. chan = "workbuddy" => sawDone \/ w.told \cap {"finish", "error"} # {}
  BY <1>2, <1>3, <1>4 DEF Tells
<1>. HIDE DEF w
<1>7. w = Sees(Sees(seen, x), y)
  BY DEF w
<1>8. /\ lines' \in 0 .. MaxChunks /\ sawDone' \in BOOLEAN /\ (sawDone' <=> sawDone)
      /\ after' \in BOOLEAN /\ (after' <=> after)
  BY <1>1, <1>2
<1>. QED BY <1>1, <1>4, <1>5, <1>6, <1>7, <1>8, FinishOf

LEMMA RelayBreak == ASSUME RelayInv, Break PROVE RelayInv'
<1>. DEFINE x == IF Tells THEN Error ELSE NoChunk
            y == IF Tells THEN Done ELSE NoChunk
            w == Sees(Sees(seen, x), y)
<1>1. /\ chan # "none" /\ ending = "none" /\ Finish(x, y, "error")
      /\ UNCHANGED <<lines, sawDone, after>>
  BY DEF Break, Relaying
<1>2. /\ seen \in View /\ seen.dones \in Nat /\ (sawDone <=> seen.dones > 0)
      /\ lines \in 0 .. MaxChunks /\ sawDone \in BOOLEAN /\ after \in BOOLEAN
      /\ seen.dones > 1 \/ "more" \in seen.told => after
  BY <1>1 DEF RelayInv, RelayTypes, TellsEnd, EndIsTold, View
<1>3. /\ x \in {Error, NoChunk} /\ y \in {Done, NoChunk}
      /\ seen.dones = 0 \/ (x = NoChunk /\ y = NoChunk)
      /\ x = Error <=> Tells
      /\ y = Done <=> Tells
  <2>1. Error.is = "error" /\ Done.is = "done" /\ NoChunk.is = "nothing"
    BY DEF Error, Done, NoChunk
  <2>2. Error # NoChunk /\ Done # NoChunk
    BY <2>1
  <2>. QED BY <1>2, <2>2 DEF Tells
<1>. HIDE DEF x, y
<1>4. /\ w \in View /\ w.place = seen.place /\ w.wrong = seen.wrong
      /\ w.told = (IF x = Error THEN seen.told \cup {"error"} ELSE seen.told)
      /\ w.dones = (IF y = Done THEN 1 ELSE seen.dones)
  BY <1>2, <1>3, SeesEnd
<1>5. /\ w.dones > 1 \/ "more" \in w.told => after
      /\ seen.told \subseteq w.told
      /\ chan = "workbuddy" \/ sawDone => w.dones >= 1
      /\ chan = "workbuddy" => sawDone \/ w.told \cap {"finish", "error"} # {}
  BY <1>2, <1>3, <1>4 DEF Tells
<1>. HIDE DEF w
<1>6. w = Sees(Sees(seen, x), y)
  BY DEF w
<1>7. /\ lines' \in 0 .. MaxChunks /\ sawDone' \in BOOLEAN /\ (sawDone' <=> sawDone)
      /\ after' \in BOOLEAN /\ (after' <=> after)
  BY <1>1, <1>2
<1>. QED BY <1>1, <1>4, <1>5, <1>6, <1>7, FinishOf

LEMMA RelayStart == RelayInit => RelayInv
<1>. SUFFICES ASSUME RelayInit PROVE RelayInv
  OBVIOUS
<1>1. /\ chan = "none" /\ lines = 0 /\ ending = "none" /\ phase = "none" /\ seen = NothingSeen
      /\ ~think /\ ~sawDone /\ ~sawFinish /\ ~inThink /\ ~closedThink
      /\ think \in BOOLEAN /\ sawDone \in BOOLEAN /\ sawFinish \in BOOLEAN
      /\ inThink \in BOOLEAN /\ closedThink \in BOOLEAN /\ ~after /\ after \in BOOLEAN
  BY Zenon DEF RelayInit
<1>2. /\ seen \in View /\ seen.place = "before" /\ seen.told = {} /\ seen.dones = 0
      /\ seen.wrong = {}
  BY <1>1 DEF NothingSeen, View
<1>3. lines \in 0 .. MaxChunks
  BY <1>1, RelayConstants
<1>. QED BY <1>1, <1>2, <1>3
     DEF RelayInv, RelayTypes, TagFlags, PlaceNow, TellsEnd, EndIsTold, InPhase, TagsNest

LEMMA RelayStep == ASSUME RelayInv, [RelayNext]_relayVars PROVE RelayInv'
<1>1. CASE Begin
  <2>1. /\ chan = "none" /\ chan' \in Channel /\ think' \in BOOLEAN
        /\ UNCHANGED <<lines, sawDone, sawFinish, inThink, closedThink, ending, phase, after,
                       seen>>
    BY <1>1 DEF Begin, tags
  <2>2. RelayTypes'
    BY <2>1 DEF RelayInv, RelayTypes
  <2>3. TagFlags'
    BY <2>1, RelayConstants DEF RelayInv, TagFlags, PlaceNow
  <2>4. TellsEnd' /\ EndIsTold' /\ InPhase' /\ TagsNest'
    BY <2>1 DEF RelayInv, TagFlags, TellsEnd, EndIsTold, InPhase, TagsNest
  <2>. QED BY <2>2, <2>3, <2>4 DEF RelayInv
<1>2. CASE Gone
  <2>1. /\ ending' = "gone" /\ chan # "none" /\ ending = "none"
        /\ UNCHANGED <<chan, think, lines, sawDone, sawFinish, inThink, closedThink, phase,
                       after, seen>>
    BY <1>2 DEF Gone, Relaying, request, tags
  <2>. QED BY <2>1
       DEF RelayInv, RelayTypes, TagFlags, PlaceNow, TellsEnd, EndIsTold, InPhase, TagsNest
<1>3. CASE UNCHANGED relayVars
  <2>1. UNCHANGED <<chan, think, lines, sawDone, sawFinish, inThink, closedThink, ending, phase,
                    after, seen>>
    BY <1>3 DEF relayVars, request, tags
  <2>. QED BY <2>1
       DEF RelayInv, RelayTypes, TagFlags, PlaceNow, TellsEnd, EndIsTold, InPhase, TagsNest
<1>. QED BY <1>1, <1>2, <1>3, RelayForward, RelayError, RelayDone, RelayEof, RelayBreak DEF RelayNext

\* sse.go:396, 425-440: whatever lines come, after [DONE] and after errors, too, and
\* however the stream ends, the relay adds no [DONE] to one of the service, none is
\* missing when the stream ended by itself, and WorkBuddy's client knows whether
\* the answer is whole.
THEOREM EndAlwaysTold == StreamsSpec => []EndIsTold
<1>1. StreamsInit => RelayInv
  BY RelayStart DEF StreamsInit
<1>2. RelayInv /\ [StreamsNext]_streamsVars => RelayInv'
  BY RelayStep, StreamsSteps
<1>3. RelayInv => EndIsTold
  BY DEF RelayInv
<1>. QED BY <1>1, <1>2, <1>3, PTL DEF StreamsSpec

\* thinktag.go:2: reasoning that comes first is between one pair of tags and all
\* else outside of them, whatever a line has besides.
THEOREM TagsAlwaysNest == StreamsSpec => []TagsNest
<1>1. StreamsInit => RelayInv
  BY RelayStart DEF StreamsInit
<1>2. RelayInv /\ [StreamsNext]_streamsVars => RelayInv'
  BY RelayStep, StreamsSteps
<1>3. RelayInv => TagsNest
  BY DEF RelayInv
<1>. QED BY <1>1, <1>2, <1>3, PTL DEF StreamsSpec

-----------------------------------------------------------------------------
\* Of an answer in the Messages or the Responses protocol (AnswerRelay,
\* AnthropicRelay, ResponsesRelay).

IdOf  == {"none", "made", "own"}
Block == [kind: {"none", "thinking", "text", "tool"}, idx: Int, tool: Tool \cup {NoTool}]

AnswerView ==
  [place: {"before", "in", "ending", "after"}, open: Block, items: Seq(Item), ids: Seq(IdOf),
   dones: Seq(IdOf), got: Seq(Piece \cup {NoTool}), told: {"none", "failed", "completed"},
   wrong: SUBSET {"message_start", "block_start", "block_stop", "error", "message_delta",
                  "message_stop", "created", "added", "done", "failed", "completed"}]

\* FragmentsOf, HasId and IdFirst of any pieces ps, and the items of ps.
Frags(ps, t)   == {i \in DOMAIN ps : ps[i].tool = t}
Named(ps, t)   == \E i \in Frags(ps, t) : "id" \in ps[i].has
NamedFirst(ps, t) ==
  \A i \in Frags(ps, t) : (\A j \in Frags(ps, t) : i <= j) => "id" \in ps[i].has
ItemsOf(ps)    == {ItemOf(ps[i]) : i \in DOMAIN ps}

\* A call whose first fragment has its id has it from then on.
FirstNames(ps) == \A t \in Tool : NamedFirst(ps, t) /\ Frags(ps, t) # {} => Named(ps, t)

\* What is right of a client's view v after pieces ps, of which sd say something,
\* wherever the client has gone.
Right(v, ps, sd) ==
  /\ v \in AnswerView /\ v.wrong = {}
  /\ Len(v.ids) = Len(v.items) /\ Len(v.dones) <= Len(v.items)
  /\ \A i \in DOMAIN v.items :
        v.items[i] \in Tool => /\ Frags(ps, v.items[i]) # {}
                               /\ NamedFirst(ps, v.items[i]) => v.ids[i] = "own"
  /\ ~OwnForm => Len(v.got) <= Len(sd) /\ \A i \in 1 .. Len(v.got) : v.got[i] = sd[i]

\* A block is completed under the id it was opened with; an item of a response
\* under its own if that is known at the end.
SameIds(v)     == \A i \in DOMAIN v.dones : v.dones[i] = v.ids[i]
OwnIds(v, ps) ==
  \A i \in DOMAIN v.dones : v.items[i] \in Tool => (v.dones[i] = "own" <=> Named(ps, v.items[i]))

AnswerTypes ==
  /\ endpoint \in {"none"} \cup Endpoints /\ pieces \in Seq(Piece) /\ Len(pieces) <= MaxPieces
  /\ said \in Seq(Piece)
  /\ finish \in {"none", "known", "other"} /\ done \in BOOLEAN
  /\ failed \in BOOLEAN /\ end \in {"none", "eof", "error"}
  /\ dead \in BOOLEAN /\ over \in BOOLEAN /\ view \in AnswerView
  /\ FirstNames(pieces)
  /\ started \in BOOLEAN /\ nextIdx \in 0 .. Len(pieces) /\ cur \in Block /\ metas \subseteq Tool
  /\ ResponsesTypeOK

\* Nothing has happened to what the request does not ask for.
Untouched ==
  /\ endpoint = "none" =>
       /\ view = Nothing /\ pieces = <<>> /\ said = <<>> /\ end = "none" /\ ~dead /\ ~over
  /\ endpoint # "messages" => ~started /\ nextIdx = 0 /\ cur = NoBlock /\ metas = {}
  /\ endpoint \in {"none", "messages"} \/ OwnForm =>
       order = <<>> /\ itemsDone = 0 /\ callId = [t \in Tool |-> "none"]

\* What the end tells, where a finish reason of the names known counts.
EndTold(known) ==
  view.told = IF ~done /\ (end = "error" \/ finish \notin known \/ OwnForm)
              THEN "failed" ELSE "completed"

\* A client of messages that is still there has the relay's picture.
MessagesNow ==
  /\ view.open = cur /\ Len(view.items) = nextIdx
  /\ Len(view.dones) = IF cur = NoBlock THEN nextIdx ELSE nextIdx - 1
  /\ cur # NoBlock => started /\ nextIdx > 0 /\ view.items[nextIdx] = ItemOf(cur)
                      /\ cur.kind # "none"
  /\ ~OwnForm => view.got = said /\ metas = {t \in Tool : Named(pieces, t)}
                 /\ ToSet(view.items) = ItemsOf(pieces)
  /\ ~over => view.told = "none" /\ end = "none"
              /\ view.place = IF started THEN "in" ELSE "before"
  /\ over => cur = NoBlock /\ view.place = "after" /\ end # "none" /\ started
             /\ EndTold({"known"})

MessagesInv ==
  endpoint = "messages" =>
    Right(view, pieces, said) /\ SameIds(view) /\ (~dead => MessagesNow)

\* A client of a streamed response has the announcements, and then the ends.
ResponsesNow ==
  /\ view.items = order /\ Len(view.dones) = itemsDone
  /\ ~OwnForm => view.got = said
  /\ ~over => view.told = "none" /\ view.place = "in"
  /\ over => view.place = "after" /\ itemsDone = Len(order) /\ end # "none"
             /\ EndTold({"known", "other"})

\* One that asked for a single response has nothing until it has all.
ResponseNow ==
  /\ ~dead
  /\ ~over => view = Nothing /\ end = "none"
  /\ over => view.wrong = {} /\ view.place = "after" /\ end # "none"
             /\ EndTold({"known", "other"})
             /\ Len(view.ids) = Len(view.items) /\ view.dones = view.ids
             /\ view.items = (IF view.told = "failed" THEN <<>> ELSE order)
             /\ OwnIds(view, pieces)

ResponsesInv ==
  endpoint \in {"responses", "response"} =>
    /\ ~OwnForm => /\ \A t \in Tool : callId[t] = "own" <=> Named(pieces, t)
                   /\ ToSet(order) = ItemsOf(pieces)
    /\ endpoint = "responses" =>
         /\ Right(view, pieces, said) /\ OwnIds(view, pieces)
         /\ end = "none" => itemsDone = 0 /\ view.dones = <<>> /\ (over => dead)
         /\ ~dead => ResponsesNow
    /\ endpoint = "response" => ResponseNow

AnswerInv == AnswerTypes /\ Untouched /\ MessagesInv /\ ResponsesInv

\* A piece of a call names it, and no other piece does.
LEMMA PieceHas ==
  ASSUME NEW p \in Piece
  PROVE  /\ p.kind \in {"thinking", "text", "tool"} /\ p.tool \in Tool \cup {NoTool}
         /\ ItemOf(p) \in Item /\ (ItemOf(p) \in Tool <=> p.kind = "tool")
         /\ p.tool \in Tool => ItemOf(p) = p.tool
         /\ ItemOf(p) \in Tool => p.tool = ItemOf(p)
         /\ "id" \in p.has => p.tool \in Tool
<1>1. CASE p \in Plain
  BY <1>1, AnswerConstants DEF Plain, ItemOf, Item
<1>2. CASE p \in Fragment
  BY <1>2, AnswerConstants DEF Fragment, ItemOf, Item
<1>. QED BY <1>1, <1>2 DEF Piece

LEMMA OneMore ==
  ASSUME NEW S, NEW s \in Seq(S), NEW x \in S
  PROVE  /\ Append(s, x) \in Seq(S) /\ Len(Append(s, x)) = Len(s) + 1 /\ Len(s) \in Nat
         /\ DOMAIN Append(s, x) = 1 .. Len(s) + 1 /\ DOMAIN s = 1 .. Len(s)
         /\ \A i \in 1 .. Len(s) : Append(s, x)[i] = s[i]
         /\ Append(s, x)[Len(s) + 1] = x
OBVIOUS

\* What a piece more does to the fragments of a call.
LEMMA FragsOfMore ==
  ASSUME NEW ps \in Seq(Piece), NEW p \in Piece, NEW t
  PROVE  Frags(Append(ps, p), t) = Frags(ps, t) \cup (IF p.tool = t THEN {Len(ps) + 1} ELSE {})
<1>. DEFINE qs == Append(ps, p)
<1>1. /\ DOMAIN qs = 1 .. Len(ps) + 1 /\ DOMAIN ps = 1 .. Len(ps) /\ Len(ps) \in Nat
      /\ \A i \in 1 .. Len(ps) : qs[i] = ps[i]
      /\ qs[Len(ps) + 1] = p
  BY OneMore
<1>. HIDE DEF qs
<1>2. \A i \in 1 .. Len(ps) + 1 : i \in 1 .. Len(ps) \/ i = Len(ps) + 1
  BY <1>1
<1>3. \A i \in 1 .. Len(ps) : i \in 1 .. Len(ps) + 1
  BY <1>1
<1>4. Len(ps) + 1 \in 1 .. Len(ps) + 1
  BY <1>1
<1>5. Frags(qs, t) = Frags(ps, t) \cup (IF p.tool = t THEN {Len(ps) + 1} ELSE {})
  BY <1>1, <1>2, <1>3, <1>4 DEF Frags
<1>. QED BY <1>5 DEF qs

\* Whether a call, and its first fragment, has an id after a piece more.
LEMMA NamedOfMore ==
  ASSUME NEW ps \in Seq(Piece), NEW p \in Piece, NEW t
  PROVE  /\ Named(Append(ps, p), t) <=> Named(ps, t) \/ (p.tool = t /\ "id" \in p.has)
         /\ Frags(ps, t) # {} => (NamedFirst(Append(ps, p), t) <=> NamedFirst(ps, t))
         /\ p.tool # t => (NamedFirst(Append(ps, p), t) <=> NamedFirst(ps, t))
         /\ Frags(ps, t) = {} /\ p.tool = t =>
               (NamedFirst(Append(ps, p), t) <=> "id" \in p.has)
<1>. DEFINE qs == Append(ps, p)
            n  == Len(ps) + 1
<1>1. /\ n \in Nat /\ \A i \in 1 .. Len(ps) : qs[i] = ps[i]
      /\ qs[n] = p
  BY OneMore
<1>2. Frags(qs, t) = Frags(ps, t) \cup (IF p.tool = t THEN {n} ELSE {})
  BY FragsOfMore
<1>3. Frags(ps, t) \subseteq 1 .. Len(ps) /\ n \notin Frags(ps, t)
  BY DEF Frags
<1>. HIDE DEF qs
<1>4. \A i \in Frags(ps, t) : qs[i] = ps[i] /\ i <= n /\ ~ n <= i
  BY <1>1, <1>3
<1>5. n <= n
  BY <1>1
<1>. HIDE DEF n
<1>6. Named(qs, t) <=> Named(ps, t) \/ (p.tool = t /\ "id" \in p.has)
  BY <1>1, <1>2, <1>4 DEF Named
<1>7. Frags(ps, t) # {} => (NamedFirst(qs, t) <=> NamedFirst(ps, t))
  BY <1>1, <1>2, <1>4 DEF NamedFirst
<1>8. p.tool # t => (NamedFirst(qs, t) <=> NamedFirst(ps, t))
  BY <1>2, <1>4 DEF NamedFirst
<1>9. Frags(ps, t) = {} /\ p.tool = t => (NamedFirst(qs, t) <=> "id" \in p.has)
  BY <1>1, <1>2, <1>5 DEF NamedFirst
<1>. QED BY <1>6, <1>7, <1>8, <1>9 DEF qs

LEMMA ItemsOfMore ==
  ASSUME NEW S, NEW s \in Seq(S), NEW x \in S
  PROVE  ToSet(Append(s, x)) = ToSet(s) \cup {x}
<1>1. /\ DOMAIN Append(s, x) = 1 .. Len(s) + 1 /\ DOMAIN s = 1 .. Len(s)
      /\ \A i \in 1 .. Len(s) : Append(s, x)[i] = s[i]
      /\ Append(s, x)[Len(s) + 1] = x /\ Len(s) \in Nat
  BY OneMore
<1>2. /\ \A i \in 1 .. Len(s) + 1 : i \in 1 .. Len(s) \/ i = Len(s) + 1
      /\ \A i \in 1 .. Len(s) : i \in 1 .. Len(s) + 1
      /\ Len(s) + 1 \in 1 .. Len(s) + 1
  BY <1>1
<1>. QED BY <1>1, <1>2 DEF ToSet

LEMMA PiecesOfMore ==
  ASSUME NEW ps \in Seq(Piece), NEW p \in Piece
  PROVE  ItemsOf(Append(ps, p)) = ItemsOf(ps) \cup {ItemOf(p)}
<1>1. /\ DOMAIN Append(ps, p) = 1 .. Len(ps) + 1 /\ DOMAIN ps = 1 .. Len(ps)
      /\ \A i \in 1 .. Len(ps) : Append(ps, p)[i] = ps[i]
      /\ Append(ps, p)[Len(ps) + 1] = p /\ Len(ps) \in Nat
  BY OneMore
<1>2. /\ \A i \in 1 .. Len(ps) + 1 : i \in 1 .. Len(ps) \/ i = Len(ps) + 1
      /\ \A i \in 1 .. Len(ps) : i \in 1 .. Len(ps) + 1
      /\ Len(ps) + 1 \in 1 .. Len(ps) + 1
  BY <1>1
<1>. QED BY <1>1, <1>2 DEF ItemsOf

LEMMA FirstNamesMore ==
  ASSUME NEW ps \in Seq(Piece), NEW p \in Piece, FirstNames(ps)
  PROVE  FirstNames(Append(ps, p))
<1>. SUFFICES ASSUME NEW t \in Tool, NamedFirst(Append(ps, p), t), Frags(Append(ps, p), t) # {}
              PROVE  Named(Append(ps, p), t)
  BY DEF FirstNames
<1>1. Frags(ps, t) # {} => Named(ps, t)
  BY NamedOfMore DEF FirstNames
<1>2. Frags(ps, t) = {} => p.tool = t
  BY FragsOfMore
<1>. QED BY <1>1, <1>2, NamedOfMore

\* What was right of a view is right after a piece more.
LEMMA RightOfMore ==
  ASSUME NEW ps \in Seq(Piece), NEW sd \in Seq(Piece), NEW p \in Piece,
         NEW sn \in {sd, Append(sd, p)}, NEW v, Right(v, ps, sd)
  PROVE  Right(v, Append(ps, p), sn)
<1>1. ASSUME NEW t, Frags(ps, t) # {}
      PROVE  /\ Frags(Append(ps, p), t) # {}
             /\ NamedFirst(Append(ps, p), t) => NamedFirst(ps, t)
  BY <1>1, FragsOfMore, NamedOfMore
<1>2. ~OwnForm => Len(v.got) <= Len(sn) /\ \A i \in 1 .. Len(v.got) : v.got[i] = sn[i]
  <2>1. /\ Len(sn) >= Len(sd) /\ \A i \in 1 .. Len(sd) : sn[i] = sd[i]
        /\ Len(sd) \in Nat /\ Len(sn) \in Nat
    BY OneMore
  <2>2. v.got \in Seq(Piece \cup {NoTool})
    BY DEF Right, AnswerView
  <2>3. Len(v.got) \in Nat
    BY <2>2
  <2>. QED BY <2>1, <2>3 DEF Right
<1>. QED BY <1>1, <1>2 DEF Right

\* Of one to five events a client has got all, or it has gone before one of them.
LEMMA EmitOne ==
  ASSUME NEW a, NEW b, Emit(<<a, b>>)
  PROVE  (view' = b /\ dead' = FALSE) \/ (view' = a /\ dead' = TRUE)
BY DEF Emit

LEMMA EmitTwo ==
  ASSUME NEW a, NEW b, NEW c, Emit(<<a, b, c>>)
  PROVE  (view' = c /\ dead' = FALSE) \/ (view' \in {a, b} /\ dead' = TRUE)
BY DEF Emit

LEMMA EmitFour ==
  ASSUME NEW a, NEW b, NEW c, NEW d, NEW e, Emit(<<a, b, c, d, e>>)
  PROVE  (view' = e /\ dead' = FALSE) \/ (view' \in {a, b, c, d} /\ dead' = TRUE)
BY DEF Emit

LEMMA EmitFive ==
  ASSUME NEW a, NEW b, NEW c, NEW d, NEW e, NEW f, Emit(<<a, b, c, d, e, f>>)
  PROVE  (view' = f /\ dead' = FALSE) \/ (view' \in {a, b, c, d, e} /\ dead' = TRUE)
BY DEF Emit

\* Each event in its place leaves what the client has right.
LEMMA SeesStartOf ==
  ASSUME NEW ps, NEW sd, NEW v, Right(v, ps, sd), v.place = "before"
  PROVE  /\ Right(SeesStart(v), ps, sd)
         /\ SeesStart(v).place = "in" /\ SeesStart(v).open = v.open
         /\ SeesStart(v).items = v.items /\ SeesStart(v).ids = v.ids
         /\ SeesStart(v).dones = v.dones /\ SeesStart(v).got = v.got
         /\ SeesStart(v).told = v.told
<1>1. v \in AnswerView /\ v.wrong = {}
  BY DEF Right
<1>2. SeesStart(v) = [v EXCEPT !.place = "in", !.wrong = {}]
  BY <1>1 DEF SeesStart, Unless, AnswerView
<1>. DEFINE w == [v EXCEPT !.place = "in", !.wrong = {}]
<1>3. /\ w \in AnswerView /\ w.place = "in" /\ w.open = v.open /\ w.items = v.items
      /\ w.ids = v.ids /\ w.dones = v.dones /\ w.got = v.got /\ w.told = v.told /\ w.wrong = {}
  BY <1>1 DEF AnswerView
<1>. HIDE DEF w
<1>4. Right(w, ps, sd)
  BY <1>3 DEF Right
<1>. QED BY <1>2, <1>3, <1>4 DEF w

LEMMA SeesBlockOf ==
  ASSUME NEW ps, NEW sd, NEW v, Right(v, ps, sd), v.place = "in", v.open = NoBlock,
         NEW b \in Block, b.idx = Len(v.items), NEW id \in IdOf, ItemOf(b) \in Item,
         ItemOf(b) \in Tool =>
            Frags(ps, ItemOf(b)) # {} /\ (NamedFirst(ps, ItemOf(b)) => id = "own")
  PROVE  LET w == SeesBlock(v, b, id) IN
         /\ Right(w, ps, sd)
         /\ w.place = "in" /\ w.open = b /\ w.items = Append(v.items, ItemOf(b))
         /\ w.ids = Append(v.ids, id)
         /\ w.dones = v.dones /\ w.got = v.got /\ w.told = v.told
<1>1. v \in AnswerView /\ v.wrong = {} /\ Len(v.ids) = Len(v.items)
      /\ Len(v.dones) <= Len(v.items)
  BY DEF Right
<1>0. v.items \in Seq(Item) /\ v.ids \in Seq(IdOf) /\ v.dones \in Seq(IdOf)
  BY <1>1 DEF AnswerView
<1>. DEFINE xs == Append(v.items, ItemOf(b))
            js == Append(v.ids, id)
            w  == [v EXCEPT !.open = b, !.items = xs, !.ids = js, !.wrong = {}]
<1>2. SeesBlock(v, b, id) = w
  BY <1>1 DEF SeesBlock, Unless, AnswerView
<1>3. /\ xs \in Seq(Item) /\ js \in Seq(IdOf) /\ Len(xs) = Len(v.items) + 1
      /\ Len(js) = Len(xs) /\ Len(v.items) \in Nat /\ Len(v.dones) \in Nat
      /\ DOMAIN xs = 1 .. Len(v.items) + 1 /\ DOMAIN v.items = 1 .. Len(v.items)
      /\ \A i \in DOMAIN v.items : xs[i] = v.items[i] /\ js[i] = v.ids[i]
      /\ xs[Len(v.items) + 1] = ItemOf(b) /\ js[Len(v.items) + 1] = id
  BY <1>0, <1>1
<1>. HIDE DEF xs, js
<1>4. /\ w \in AnswerView /\ w.place = "in" /\ w.open = b /\ w.items = xs
      /\ w.ids = js /\ w.dones = v.dones /\ w.got = v.got /\ w.told = v.told /\ w.wrong = {}
  BY <1>1, <1>3 DEF AnswerView
<1>. HIDE DEF w
<1>5. \A i \in DOMAIN xs :
        xs[i] \in Tool => /\ Frags(ps, xs[i]) # {}
                          /\ NamedFirst(ps, xs[i]) => js[i] = "own"
  <2>1. SUFFICES ASSUME NEW i \in DOMAIN xs, xs[i] \in Tool
                 PROVE  Frags(ps, xs[i]) # {} /\ (NamedFirst(ps, xs[i]) => js[i] = "own")
    OBVIOUS
  <2>2. i \in DOMAIN v.items \/ i = Len(v.items) + 1
    BY <1>3
  <2>. QED BY <1>3, <2>1, <2>2 DEF Right
<1>6. Len(w.dones) <= Len(w.items)
  BY <1>1, <1>3, <1>4
<1>7. Right(w, ps, sd)
  BY <1>3, <1>4, <1>5, <1>6 DEF Right
<1>. QED BY <1>2, <1>4, <1>7 DEF xs, js

\* A piece got where it belongs is the one that is due.
Gets(v, w, p) ==
  /\ w \in AnswerView /\ w.place = v.place /\ w.open = v.open /\ w.items = v.items
  /\ w.ids = v.ids /\ w.dones = v.dones /\ w.told = v.told /\ w.wrong = v.wrong
  /\ w.got = Append(v.got, p)

LEMMA GotOf ==
  ASSUME NEW v, NEW w, NEW p \in Piece, NEW ps, NEW sd \in Seq(Piece),
         Right(v, ps, Append(sd, p)), v.got = sd, Gets(v, w, p)
  PROVE  Right(w, ps, Append(sd, p))
<1>1. Append(sd, p) \in Seq(Piece) /\ Len(Append(sd, p)) \in Nat
  OBVIOUS
<1>. QED BY <1>1 DEF Right, Gets

LEMMA SeesStopOf ==
  ASSUME NEW ps, NEW sd, NEW v, Right(v, ps, sd), SameIds(v), NEW i, v.open.idx = i,
         Len(v.items) = Len(v.dones) + 1
  PROVE  LET w == SeesStop(v, i) IN
         /\ Right(w, ps, sd) /\ SameIds(w)
         /\ w.place = v.place /\ w.open = NoBlock /\ w.items = v.items /\ w.ids = v.ids
         /\ Len(w.dones) = Len(v.items) /\ w.got = v.got /\ w.told = v.told
<1>1. v \in AnswerView /\ v.wrong = {} /\ Len(v.ids) = Len(v.items)
  BY DEF Right
<1>0. v.items \in Seq(Item) /\ v.ids \in Seq(IdOf) /\ v.dones \in Seq(IdOf)
  BY <1>1 DEF AnswerView
<1>. DEFINE n  == Len(v.dones)
            ds == Append(v.dones, v.ids[n + 1])
            w  == [v EXCEPT !.open = NoBlock, !.dones = ds, !.wrong = {}]
<1>2. SeesStop(v, i) = w
  BY <1>1 DEF SeesStop, Unless, AnswerView
<1>3. n \in Nat /\ v.ids[n + 1] \in IdOf
  BY <1>0, <1>1
<1>4. /\ ds \in Seq(IdOf) /\ Len(ds) = n + 1 /\ DOMAIN ds = 1 .. n + 1 /\ DOMAIN v.dones = 1 .. n
      /\ \A j \in 1 .. n : ds[j] = v.dones[j]
      /\ ds[n + 1] = v.ids[n + 1]
  BY <1>0, <1>3
<1>5. NoBlock \in Block
  BY DEF NoBlock, Block
<1>. HIDE DEF ds, n
<1>6. /\ w \in AnswerView /\ w.place = v.place /\ w.open = NoBlock /\ w.items = v.items
      /\ w.ids = v.ids /\ w.dones = ds /\ w.got = v.got /\ w.told = v.told /\ w.wrong = {}
  BY <1>1, <1>4, <1>5 DEF AnswerView
<1>. HIDE DEF w
<1>7. SameIds(w)
  <2>1. \A j \in 1 .. n + 1 : j \in 1 .. n \/ j = n + 1
    BY <1>3
  <2>. QED BY <1>4, <1>6, <2>1 DEF SameIds
<1>8. Len(w.items) = n + 1
  BY <1>6 DEF n
<1>9. Right(w, ps, sd)
  BY <1>3, <1>4, <1>6, <1>8 DEF Right
<1>. QED BY <1>2, <1>4, <1>6, <1>7, <1>8, <1>9

LEMMA SeesErrorOf ==
  ASSUME NEW ps, NEW sd, NEW v, Right(v, ps, sd), v.place = "in"
  PROVE  LET w == SeesError(v) IN
         /\ Right(w, ps, sd)
         /\ w.place = v.place /\ w.open = v.open /\ w.items = v.items /\ w.ids = v.ids
         /\ w.dones = v.dones /\ w.got = v.got /\ w.told = "failed"
<1>1. v \in AnswerView /\ v.wrong = {}
  BY DEF Right
<1>. DEFINE w == [v EXCEPT !.told = "failed", !.wrong = {}]
<1>2. SeesError(v) = w
  BY <1>1 DEF SeesError, Unless, AnswerView
<1>3. /\ w \in AnswerView /\ w.place = v.place /\ w.open = v.open /\ w.items = v.items
      /\ w.ids = v.ids /\ w.dones = v.dones /\ w.got = v.got /\ w.told = "failed" /\ w.wrong = {}
  BY <1>1 DEF AnswerView
<1>. HIDE DEF w
<1>4. Right(w, ps, sd)
  BY <1>3 DEF Right
<1>. QED BY <1>2, <1>3, <1>4

LEMMA SeesEndingOf ==
  ASSUME NEW ps, NEW sd, NEW v, Right(v, ps, sd), v.place = "in", v.open = NoBlock
  PROVE  LET w == SeesEnding(v) IN
         /\ Right(w, ps, sd)
         /\ w.place = "ending" /\ w.open = v.open /\ w.items = v.items /\ w.ids = v.ids
         /\ w.dones = v.dones /\ w.got = v.got /\ w.told = v.told
<1>1. v \in AnswerView /\ v.wrong = {}
  BY DEF Right
<1>. DEFINE w == [v EXCEPT !.place = "ending", !.wrong = {}]
<1>2. SeesEnding(v) = w
  BY <1>1 DEF SeesEnding, Unless, AnswerView
<1>3. /\ w \in AnswerView /\ w.place = "ending" /\ w.open = v.open /\ w.items = v.items
      /\ w.ids = v.ids /\ w.dones = v.dones /\ w.got = v.got /\ w.told = v.told /\ w.wrong = {}
  BY <1>1 DEF AnswerView
<1>. HIDE DEF w
<1>4. Right(w, ps, sd)
  BY <1>3 DEF Right
<1>. QED BY <1>2, <1>3, <1>4

LEMMA SeesOverOf ==
  ASSUME NEW ps, NEW sd, NEW v, Right(v, ps, sd), v.place = "ending"
  PROVE  LET w == SeesOver(v) IN
         /\ Right(w, ps, sd)
         /\ w.place = "after" /\ w.open = v.open /\ w.items = v.items /\ w.ids = v.ids
         /\ w.dones = v.dones /\ w.got = v.got
         /\ w.told = IF v.told = "failed" THEN "failed" ELSE "completed"
<1>1. v \in AnswerView /\ v.wrong = {}
  BY DEF Right
<1>. DEFINE to == IF v.told = "failed" THEN "failed" ELSE "completed"
            w  == [v EXCEPT !.place = "after", !.told = to, !.wrong = {}]
<1>2. SeesOver(v) = w
  BY <1>1 DEF SeesOver, Unless, AnswerView
<1>3. /\ w \in AnswerView /\ w.place = "after" /\ w.open = v.open /\ w.items = v.items
      /\ w.ids = v.ids /\ w.dones = v.dones /\ w.got = v.got /\ w.told = to /\ w.wrong = {}
  BY <1>1 DEF AnswerView
<1>. HIDE DEF w
<1>4. Right(w, ps, sd)
  BY <1>3 DEF Right
<1>. QED BY <1>2, <1>3, <1>4

\* The service's piece p, of what the relay knows.
LEMMA PieceSent ==
  ASSUME AnswerTypes, NEW p \in Piece, SendPiece(p)
  PROVE  /\ pieces' = Append(pieces, p) /\ pieces' \in Seq(Piece) /\ Len(pieces') <= MaxPieces
         /\ said' \in {said, Append(said, p)} /\ said' \in Seq(Piece)
         /\ "args" \in p.has => said' = Append(said, p)
         /\ "args" \notin p.has => said' = said
         /\ Len(pieces') = Len(pieces) + 1 /\ FirstNames(pieces')
         /\ UNCHANGED <<finish, done, failed, end>> /\ end = "none"
<1>1. /\ pieces' = Append(pieces, p) /\ said' = IF "args" \in p.has THEN Append(said, p) ELSE said
      /\ UNCHANGED <<finish, done, failed, end>> /\ end = "none" /\ Len(pieces) < MaxPieces
  BY DEF SendPiece, Sends
<1>2. pieces \in Seq(Piece) /\ said \in Seq(Piece) /\ FirstNames(pieces)
  BY DEF AnswerTypes
<1>3. FirstNames(Append(pieces, p))
  BY <1>2, FirstNamesMore
<1>4. /\ Append(pieces, p) \in Seq(Piece) /\ Len(Append(pieces, p)) = Len(pieces) + 1
      /\ Append(said, p) \in Seq(Piece) /\ Len(pieces) \in Nat
  BY <1>2
<1>5. Len(pieces) + 1 <= MaxPieces
  BY <1>1, <1>4, AnswerConstants
<1>. QED BY <1>1, <1>2, <1>3, <1>4, <1>5

\* The block that piece p is put into.
BlockFor(p) == IF Other(p) THEN [kind |-> p.kind, idx |-> nextIdx, tool |-> p.tool] ELSE cur

\* A piece opens a block if it must, whose id it has if it is known, and arrives.
LEMMA MessageTaken ==
  ASSUME AnswerTypes, MessagesInv, Reads({"messages"}), NEW p \in Piece, SendPiece(p), ~OwnForm,
         TakeMessage(p), UNCHANGED <<endpoint, over>>
  PROVE  /\ MessagesInv' /\ metas' \subseteq Tool /\ cur' \in Block
         /\ started' \in BOOLEAN /\ nextIdx' \in 0 .. Len(pieces')
<1>1. /\ endpoint = "messages" /\ ~dead /\ ~over
      /\ pieces \in Seq(Piece) /\ said \in Seq(Piece) /\ nextIdx \in Nat /\ cur \in Block
      /\ nextIdx <= Len(pieces) /\ Len(pieces) \in Nat
  BY DEF Reads, AnswerTypes
<1>2. Right(view, pieces, said) /\ SameIds(view) /\ MessagesNow
  BY <1>1 DEF MessagesInv
<1>3. /\ pieces' = Append(pieces, p) /\ pieces' \in Seq(Piece) /\ Len(pieces') = Len(pieces) + 1
      /\ said' \in {said, Append(said, p)} /\ said' \in Seq(Piece)
      /\ "args" \in p.has => said' = Append(said, p)
      /\ "args" \notin p.has => said' = said
      /\ UNCHANGED <<finish, done, failed, end>> /\ end = "none"
  BY PieceSent
<1>4. Right(view, pieces', said')
  BY <1>1, <1>2, <1>3, RightOfMore
<1>. DEFINE block   == BlockFor(p)
            id      == IF p.tool \in KnownIds(p) THEN "own" ELSE "made"
            begun   == IF Other(p) THEN Start(view) ELSE view
            stopped == IF Other(p) THEN Stop(begun) ELSE view
            opened  == IF Other(p) THEN SeesBlock(stopped, block, id) ELSE view
            all     == IF "args" \in p.has THEN SeesDelta(opened, block.idx, p) ELSE opened
<1>5. /\ Emit(<<view, begun, stopped, opened, all>>)
      /\ metas' = KnownIds(p) /\ cur' = block
      /\ Other(p) => started' = TRUE /\ nextIdx' = nextIdx + 1
      /\ ~Other(p) => UNCHANGED <<started, nextIdx>>
  BY DEF TakeMessage, BlockFor
<1>6. (view' = all /\ dead' = FALSE) \/ (view' \in {view, begun, stopped, opened} /\ dead' = TRUE)
  <2>. HIDE DEF block, id, begun, stopped, opened, all
  <2>. QED BY <1>5, EmitFour
<1>7. /\ p.kind \in {"thinking", "text", "tool"} /\ p.tool \in Tool \cup {NoTool}
      /\ ItemOf(p) \in Item /\ (ItemOf(p) \in Tool <=> p.kind = "tool")
      /\ p.tool \in Tool => ItemOf(p) = p.tool
      /\ ItemOf(p) \in Tool => p.tool = ItemOf(p)
      /\ "id" \in p.has => p.tool \in Tool
  BY PieceHas
<1>8. /\ metas \subseteq Tool /\ metas = {t \in Tool : Named(pieces, t)}
      /\ view.open = cur /\ Len(view.items) = nextIdx /\ view.got = said
      /\ Len(view.dones) = IF cur = NoBlock THEN nextIdx ELSE nextIdx - 1
      /\ cur # NoBlock => started /\ nextIdx > 0 /\ view.items[nextIdx] = ItemOf(cur)
                          /\ cur.kind # "none"
      /\ ToSet(view.items) = ItemsOf(pieces)
      /\ view.told = "none" /\ end = "none"
      /\ view.place = IF started THEN "in" ELSE "before"
  BY <1>1, <1>2 DEF MessagesNow, AnswerTypes
<1>9. metas' = {t \in Tool : Named(pieces', t)} /\ metas' \subseteq Tool
  <2>1. \A t : Named(pieces', t) <=> Named(pieces, t) \/ (p.tool = t /\ "id" \in p.has)
    BY <1>1, <1>3, NamedOfMore
  <2>2. metas' = metas \cup (IF "id" \in p.has THEN {p.tool} ELSE {})
    BY <1>5 DEF KnownIds
  <2>. QED BY <1>7, <1>8, <2>1, <2>2
<1>10. /\ block \in Block /\ block.kind = p.kind /\ block.tool = p.tool /\ block # NoBlock
       /\ block.kind # "none" /\ ItemOf(block) = ItemOf(p)
       /\ Other(p) => block.idx = nextIdx
       /\ ~Other(p) => block = cur
  BY <1>1, <1>7 DEF BlockFor, Block, NoBlock, ItemOf, Other
<1>11. begun.place = "in" \/ ~Other(p)
  BY <1>4, <1>8, SeesStartOf DEF Start
<1>12. /\ Right(begun, pieces', said') /\ SameIds(begun)
       /\ begun.open = cur /\ begun.items = view.items /\ begun.dones = view.dones
       /\ begun.got = said /\ begun.told = "none"
  BY <1>2, <1>4, <1>8, SeesStartOf DEF Start, SameIds
<1>13. /\ Right(stopped, pieces', said') /\ SameIds(stopped)
       /\ stopped.items = view.items /\ stopped.got = said /\ stopped.told = "none"
       /\ Other(p) => /\ stopped.place = "in" /\ stopped.open = NoBlock
                      /\ Len(stopped.dones) = nextIdx
  <2>1. CASE ~Other(p)
    BY <1>2, <1>4, <1>8, <2>1
  <2>2. CASE Other(p) /\ cur = NoBlock
    BY <1>8, <1>11, <1>12, <2>2 DEF Stop
  <2>3. CASE Other(p) /\ cur # NoBlock
    <3>1. Len(begun.items) = Len(begun.dones) + 1
      BY <1>1, <1>8, <1>12, <2>3
    <3>2. stopped = SeesStop(begun, cur.idx)
      BY <2>3 DEF Stop
    <3>. QED BY <1>8, <1>11, <1>12, <2>3, <3>1, <3>2, SeesStopOf
  <2>. QED BY <2>1, <2>2, <2>3
<1>. HIDE DEF block, id, begun, stopped
<1>14. /\ Right(opened, pieces', said') /\ SameIds(opened) /\ opened.place = "in"
       /\ opened.open = block /\ opened.got = said /\ opened.told = "none"
       /\ Len(opened.items) = nextIdx' /\ Len(opened.dones) = nextIdx' - 1
       /\ nextIdx' \in 1 .. Len(pieces') /\ started'
       /\ opened.items[nextIdx'] = ItemOf(block)
       /\ ToSet(opened.items) = ItemsOf(pieces')
  <2>0. ItemsOf(pieces') = ItemsOf(pieces) \cup {ItemOf(p)}
    BY <1>1, <1>3, PiecesOfMore
  <2>1. CASE ~Other(p)
    <3>1. block = cur /\ cur # NoBlock /\ opened = view /\ nextIdx' = nextIdx /\ started' = started
      BY <1>5, <1>10, <2>1
    <3>2. nextIdx \in DOMAIN view.items
      <4>1. view.items \in Seq(Item)
        BY <1>4 DEF Right, AnswerView
      <4>. QED BY <1>1, <1>8, <3>1, <4>1
    <3>3. ItemOf(p) \in ToSet(view.items)
      BY <1>8, <1>10, <3>1, <3>2 DEF ToSet
    <3>. QED BY <1>1, <1>2, <1>3, <1>4, <1>8, <2>0, <3>1, <3>3
  <2>2. CASE Other(p)
    <3>1. opened = SeesBlock(stopped, block, id)
      BY <2>2
    <3>2. id \in IdOf
      BY DEF id, IdOf
    <3>3. ItemOf(p) \in Tool =>
            Frags(pieces', ItemOf(p)) # {} /\ (NamedFirst(pieces', ItemOf(p)) => id = "own")
      <4>1. SUFFICES ASSUME ItemOf(p) \in Tool
                     PROVE  Frags(pieces', ItemOf(p)) # {}
                            /\ (NamedFirst(pieces', ItemOf(p)) => id = "own")
        OBVIOUS
      <4>2. Frags(pieces', ItemOf(p)) # {}
        BY <1>1, <1>3, <1>7, <4>1, FragsOfMore
      <4>3. NamedFirst(pieces', ItemOf(p)) => Named(pieces', ItemOf(p))
        BY <4>1, <4>2, PieceSent DEF FirstNames
      <4>4. Named(pieces', ItemOf(p)) => id = "own"
        BY <1>5, <1>7, <1>9, <4>1 DEF id
      <4>. QED BY <4>2, <4>3, <4>4
    <3>4. /\ Right(opened, pieces', said') /\ opened.place = "in" /\ opened.open = block
          /\ opened.items = Append(view.items, ItemOf(p)) /\ opened.got = said
          /\ opened.told = "none" /\ opened.dones = stopped.dones
          /\ opened.ids = Append(stopped.ids, id)
      BY <1>7, <1>8, <1>10, <1>13, <2>2, <3>1, <3>2, <3>3, SeesBlockOf
    <3>5. SameIds(opened)
      <4>1. stopped.ids \in Seq(IdOf) /\ Len(stopped.ids) = nextIdx /\ stopped.dones \in Seq(IdOf)
        BY <1>8, <1>13 DEF Right, AnswerView
      <4>2. \A i \in DOMAIN stopped.dones : i \in 1 .. Len(stopped.ids)
        BY <1>13, <2>2, <4>1
      <4>3. \A i \in 1 .. Len(stopped.ids) : opened.ids[i] = stopped.ids[i]
        BY <3>2, <3>4, <4>1
      <4>. QED BY <1>13, <3>4, <4>2, <4>3 DEF SameIds
    <3>6. view.items \in Seq(Item)
      BY <1>4 DEF Right, AnswerView
    <3>. HIDE DEF opened
    <3>7. /\ Len(opened.items) = nextIdx + 1 /\ opened.items[nextIdx + 1] = ItemOf(p)
          /\ ToSet(opened.items) = ToSet(view.items) \cup {ItemOf(p)}
      BY <1>7, <1>8, <3>4, <3>6, OneMore, ItemsOfMore
    <3>8. nextIdx' = nextIdx + 1 /\ started' /\ nextIdx' \in 1 .. Len(pieces')
      BY <1>1, <1>3, <1>5, <2>2
    <3>. QED BY <1>1, <1>8, <1>10, <1>13, <2>0, <2>2, <3>4, <3>5, <3>7, <3>8
  <2>. QED BY <2>1, <2>2
<1>. HIDE DEF opened
<1>15. /\ Right(all, pieces', said') /\ SameIds(all) /\ all.place = "in"
       /\ all.open = block /\ all.got = said' /\ all.told = "none"
       /\ all.items = opened.items /\ all.dones = opened.dones
  <2>1. CASE "args" \notin p.has
    BY <1>3, <1>14, <2>1
  <2>2. CASE "args" \in p.has
    <3>1. opened \in AnswerView
      BY <1>14 DEF Right
    <3>2. Gets(opened, all, p)
      <4>1. all = [opened EXCEPT !.got = Append(@, p)]
        BY <1>10, <1>14, <2>2, <3>1 DEF SeesDelta, AnswerView
      <4>2. Append(opened.got, p) \in Seq(Piece \cup {NoTool})
        BY <3>1 DEF AnswerView
      <4>. QED BY <3>1, <4>1, <4>2 DEF Gets, AnswerView
    <3>. HIDE DEF all
    <3>3. Right(all, pieces', Append(said, p))
      BY <1>1, <1>3, <1>14, <2>2, <3>2, GotOf
    <3>. QED BY <1>3, <1>14, <2>2, <3>2, <3>3 DEF Gets, SameIds
  <2>. QED BY <2>1, <2>2
<1>. HIDE DEF all
<1>16. Right(view', pieces', said') /\ SameIds(view')
  BY <1>2, <1>4, <1>6, <1>12, <1>13, <1>14, <1>15
<1>17. ~dead' => MessagesNow'
  <2>1. SUFFICES ASSUME ~dead' PROVE MessagesNow'
    OBVIOUS
  <2>2. view' = all
    BY <1>6, <2>1
  <2>3. cur' = block /\ ~over' /\ end' = "none"
    BY <1>1, <1>3, <1>5
  <2>. QED BY <1>1, <1>9, <1>10, <1>14, <1>15, <2>2, <2>3 DEF MessagesNow
<1>18. MessagesInv'
  BY <1>16, <1>17 DEF MessagesInv
<1>. QED BY <1>5, <1>9, <1>10, <1>14, <1>18

\* At the end the block is closed, and the end is told as it is.
LEMMA MessageClosed ==
  ASSUME AnswerTypes, MessagesInv, CloseMessage
  PROVE  MessagesInv'
<1>1. /\ endpoint = "messages" /\ ~dead /\ ~over /\ endpoint' = endpoint
      /\ started' = TRUE /\ cur' = NoBlock /\ over' = TRUE
      /\ end' \in {"eof", "error"}
      /\ UNCHANGED <<nextIdx, metas, pieces, said, finish, done>>
  BY DEF CloseMessage, Reads, SendEnd
<1>2. Right(view, pieces, said) /\ SameIds(view) /\ MessagesNow /\ nextIdx \in Nat
  BY <1>1 DEF MessagesInv, AnswerTypes
<1>3. /\ view.open = cur /\ Len(view.items) = nextIdx
      /\ Len(view.dones) = IF cur = NoBlock THEN nextIdx ELSE nextIdx - 1
      /\ cur # NoBlock => started /\ nextIdx > 0
      /\ view.told = "none" /\ view.place = IF started THEN "in" ELSE "before"
  BY <1>1, <1>2 DEF MessagesNow
<1>. DEFINE begun   == Start(view)
            stopped == Stop(begun)
            told    == IF TruncatedMessage THEN SeesError(stopped) ELSE stopped
            last    == SeesEnding(told)
            all     == SeesOver(last)
<1>4. Emit(<<view, begun, stopped, told, last, all>>)
  BY DEF CloseMessage
<1>5. \/ view' = all /\ dead' = FALSE
      \/ view' \in {view, begun, stopped, told, last} /\ dead' = TRUE
  <2>. HIDE DEF begun, stopped, told, last, all
  <2>. QED BY <1>4, EmitFive
<1>6. /\ Right(begun, pieces, said) /\ SameIds(begun) /\ begun.place = "in"
      /\ begun.open = cur /\ begun.items = view.items /\ begun.dones = view.dones
      /\ begun.got = view.got /\ begun.told = "none"
  BY <1>2, <1>3, SeesStartOf DEF Start, SameIds
<1>7. /\ Right(stopped, pieces, said) /\ SameIds(stopped) /\ stopped.place = "in"
      /\ stopped.open = NoBlock /\ stopped.items = view.items /\ Len(stopped.dones) = nextIdx
      /\ stopped.got = view.got /\ stopped.told = "none"
  <2>1. CASE cur = NoBlock
    BY <1>3, <1>6, <2>1 DEF Stop
  <2>2. CASE cur # NoBlock
    <3>1. Len(begun.items) = Len(begun.dones) + 1
      BY <1>2, <1>3, <1>6, <2>2
    <3>2. stopped = SeesStop(begun, cur.idx)
      BY <2>2 DEF Stop
    <3>. QED BY <1>3, <1>6, <3>1, <3>2, SeesStopOf
  <2>. QED BY <2>1, <2>2
<1>. HIDE DEF begun, stopped
<1>8. /\ Right(told, pieces, said) /\ SameIds(told) /\ told.place = "in" /\ told.open = NoBlock
      /\ told.items = view.items /\ Len(told.dones) = nextIdx /\ told.got = view.got
      /\ told.told = IF TruncatedMessage THEN "failed" ELSE "none"
  BY <1>7, SeesErrorOf DEF SameIds
<1>. HIDE DEF told
<1>9. /\ Right(last, pieces, said) /\ SameIds(last) /\ last.place = "ending"
      /\ last.open = NoBlock
      /\ last.items = view.items /\ Len(last.dones) = nextIdx /\ last.got = view.got
      /\ last.told = told.told
  BY <1>8, SeesEndingOf DEF SameIds
<1>. HIDE DEF last
<1>10. /\ Right(all, pieces, said) /\ SameIds(all) /\ all.place = "after" /\ all.open = NoBlock
       /\ all.items = view.items /\ Len(all.dones) = nextIdx /\ all.got = view.got
       /\ all.told = IF TruncatedMessage THEN "failed" ELSE "completed"
  BY <1>8, <1>9, SeesOverOf DEF SameIds
<1>. HIDE DEF all
<1>11. Right(view', pieces, said) /\ SameIds(view')
  BY <1>2, <1>5, <1>6, <1>7, <1>8, <1>9, <1>10
<1>12. ~dead' => MessagesNow'
  <2>1. SUFFICES ASSUME ~dead' PROVE MessagesNow'
    OBVIOUS
  <2>2. view' = all
    BY <1>5, <2>1
  <2>3. EndTold({"known"})'
    BY <1>1, <1>10, <2>2 DEF EndTold, TruncatedMessage
  <2>4. ~OwnForm => view'.got = said' /\ metas' = {t \in Tool : Named(pieces', t)}
                    /\ ToSet(view'.items) = ItemsOf(pieces')
    BY <1>1, <1>2, <1>10, <2>2 DEF MessagesNow
  <2>. QED BY <1>1, <1>3, <1>10, <2>2, <2>3, <2>4 DEF MessagesNow
<1>. QED BY <1>1, <1>11, <1>12 DEF MessagesInv

\* A request for messages, or for a response, touches nothing of the other's.
LEMMA MessagesStep == ASSUME AnswerInv, Messages, UNCHANGED responsesVars PROVE AnswerInv'
<1>0. AnswerTypes /\ Untouched /\ MessagesInv
  BY DEF AnswerInv
<1>1. UNCHANGED <<order, idxOf, callId, itemsDone>> /\ endpoint' = "messages"
      /\ (endpoint = "none" \/ endpoint = "messages")
  BY DEF responsesVars, Messages, AskMessages, TranslateMessage, CloseMessage, Reads
<1>2. ResponsesTypeOK'
  BY <1>0, <1>1 DEF AnswerTypes, ResponsesTypeOK
<1>3. Untouched' /\ ResponsesInv'
  BY <1>0, <1>1 DEF Untouched, ResponsesInv
<1>4. CASE AskMessages
  <2>1. UNCHANGED <<pieces, said, finish, done, failed, end, dead, over, view, started, nextIdx,
                    cur, metas>> /\ endpoint = "none"
    BY <1>4 DEF AskMessages, service, messagesVars
  <2>2. AnswerTypes'
    BY <1>0, <1>1, <1>2, <2>1 DEF AnswerTypes, Endpoints
  <2>3. /\ view = Nothing /\ pieces = <<>> /\ said = <<>> /\ end = "none" /\ ~dead /\ ~over
        /\ ~started /\ nextIdx = 0 /\ cur = NoBlock /\ metas = {}
    BY <1>0, <2>1 DEF Untouched
  <2>4. /\ view.open = cur /\ view.items = <<>> /\ view.ids = <<>> /\ view.dones = <<>>
        /\ view.got = <<>> /\ view.told = "none" /\ view.place = "before" /\ view.wrong = {}
    BY <2>3 DEF Nothing
  <2>5. view \in AnswerView
    BY <1>0 DEF AnswerTypes
  <2>6. Right(view, pieces, said) /\ SameIds(view)
    BY <2>3, <2>4, <2>5 DEF Right, SameIds
  <2>7. \A t : ~Named(pieces, t) /\ ItemsOf(pieces) = {} /\ ToSet(view.items) = {}
    BY <2>3, <2>4 DEF Named, Frags, ItemsOf, ToSet
  <2>8. MessagesNow
    BY <2>3, <2>4, <2>7 DEF MessagesNow
  <2>9. MessagesNow'
    BY <2>1, <2>8 DEF MessagesNow, EndTold
  <2>10. MessagesInv'
    BY <2>1, <2>6, <2>9 DEF MessagesInv
  <2>. QED BY <1>3, <2>2, <2>10 DEF AnswerInv
<1>5. CASE TranslateMessage
  <2>1. PICK p \in Piece :
           /\ SendPiece(p)
           /\ IF OwnForm THEN UNCHANGED <<messagesVars, dead, view>> ELSE TakeMessage(p)
    BY <1>5 DEF TranslateMessage
  <2>2. Reads({"messages"}) /\ UNCHANGED <<endpoint, over>> /\ endpoint = "messages"
        /\ ~dead /\ ~over
    BY <1>5 DEF TranslateMessage, Reads
  <2>3. /\ pieces' = Append(pieces, p) /\ pieces' \in Seq(Piece) /\ Len(pieces') <= MaxPieces
        /\ said' \in {said, Append(said, p)} /\ said' \in Seq(Piece)
        /\ Len(pieces') = Len(pieces) + 1 /\ FirstNames(pieces')
        /\ UNCHANGED <<finish, done, failed, end>> /\ end = "none"
    BY <1>0, <2>1, PieceSent
  <2>4. /\ MessagesInv' /\ metas' \subseteq Tool /\ cur' \in Block
        /\ started' \in BOOLEAN /\ nextIdx' \in 0 .. Len(pieces')
        /\ dead' \in BOOLEAN
    <3>1. CASE ~OwnForm
      <4>1. TakeMessage(p)
        BY <2>1, <3>1
      <4>2. dead' \in BOOLEAN
        BY <4>1 DEF TakeMessage, Emit
      <4>. QED BY <1>0, <2>1, <2>2, <3>1, <4>1, <4>2, MessageTaken
    <3>2. CASE OwnForm
      <4>1. UNCHANGED <<started, nextIdx, cur, metas, dead, view>>
        BY <2>1, <3>2 DEF messagesVars
      <4>2. Right(view, pieces', said') /\ SameIds(view) /\ MessagesNow
        <5>1. Right(view, pieces, said) /\ SameIds(view) /\ MessagesNow
          BY <1>0, <2>2 DEF MessagesInv
        <5>2. pieces \in Seq(Piece) /\ said \in Seq(Piece)
          BY <1>0 DEF AnswerTypes
        <5>. QED BY <2>3, <5>1, <5>2, RightOfMore
      <4>3. MessagesNow'
        BY <2>2, <2>3, <3>2, <4>1, <4>2 DEF MessagesNow
      <4>4. MessagesInv'
        BY <4>1, <4>2, <4>3 DEF MessagesInv
      <4>5. Len(pieces) \in Nat /\ nextIdx \in 0 .. Len(pieces)
        BY <1>0 DEF AnswerTypes
      <4>6. nextIdx' \in 0 .. Len(pieces')
        BY <2>3, <4>1, <4>5
      <4>. QED BY <1>0, <4>1, <4>4, <4>6 DEF AnswerTypes
    <3>. QED BY <3>1, <3>2
  <2>5. view' \in AnswerView
    BY <1>1, <2>4 DEF MessagesInv, Right
  <2>6. AnswerTypes'
    BY <1>0, <1>1, <1>2, <2>2, <2>3, <2>4, <2>5 DEF AnswerTypes, Endpoints
  <2>. QED BY <1>3, <2>4, <2>6 DEF AnswerInv
<1>6. CASE CloseMessage
  <2>1. MessagesInv'
    BY <1>0, <1>6, MessageClosed
  <2>2. /\ UNCHANGED <<nextIdx, metas, pieces, said, finish, done, failed>>
        /\ started' = TRUE /\ cur' = NoBlock /\ over' = TRUE /\ end' \in {"eof", "error"}
    BY <1>6 DEF CloseMessage, SendEnd
  <2>3. dead' \in BOOLEAN
    BY <1>6 DEF CloseMessage, Emit
  <2>4. view' \in AnswerView /\ NoBlock \in Block
    BY <1>1, <2>1 DEF MessagesInv, Right, NoBlock, Block
  <2>5. AnswerTypes'
    BY <1>0, <1>1, <1>2, <2>2, <2>3, <2>4 DEF AnswerTypes, Endpoints
  <2>. QED BY <1>3, <2>1, <2>5 DEF AnswerInv
<1>. QED BY <1>4, <1>5, <1>6 DEF Messages

LEMMA SeesCreatedOf ==
  ASSUME NEW ps, NEW sd, NEW v, Right(v, ps, sd), v.place = "before"
  PROVE  LET w == SeesCreated(v) IN
         /\ Right(w, ps, sd) /\ w.place = "in" /\ w.items = v.items /\ w.ids = v.ids
         /\ w.dones = v.dones /\ w.got = v.got /\ w.told = v.told
<1>1. v \in AnswerView /\ v.wrong = {}
  BY DEF Right
<1>. DEFINE w == [v EXCEPT !.place = "in", !.wrong = {}]
<1>2. SeesCreated(v) = w
  BY <1>1 DEF SeesCreated, Unless, AnswerView
<1>3. /\ w \in AnswerView /\ w.place = "in" /\ w.items = v.items
      /\ w.ids = v.ids /\ w.dones = v.dones /\ w.got = v.got /\ w.told = v.told /\ w.wrong = {}
  BY <1>1 DEF AnswerView
<1>. HIDE DEF w
<1>4. Right(w, ps, sd)
  BY <1>3 DEF Right
<1>. QED BY <1>2, <1>3, <1>4

LEMMA SeesAddedOf ==
  ASSUME NEW ps, NEW sd, NEW v, Right(v, ps, sd), v.place = "in",
         NEW x \in Item, NEW id \in IdOf,
         x \in Tool => Frags(ps, x) # {} /\ (NamedFirst(ps, x) => id = "own")
  PROVE  LET w == SeesAdded(v, Len(v.items), x, id) IN
         /\ Right(w, ps, sd)
         /\ w.place = "in" /\ w.items = Append(v.items, x)
         /\ w.dones = v.dones /\ w.got = v.got /\ w.told = v.told
<1>1. v \in AnswerView /\ v.wrong = {} /\ Len(v.ids) = Len(v.items)
      /\ Len(v.dones) <= Len(v.items)
  BY DEF Right
<1>0. v.items \in Seq(Item) /\ v.ids \in Seq(IdOf) /\ v.dones \in Seq(IdOf)
  BY <1>1 DEF AnswerView
<1>. DEFINE xs == Append(v.items, x)
            js == Append(v.ids, id)
            w  == [v EXCEPT !.items = xs, !.ids = js, !.wrong = {}]
<1>2. SeesAdded(v, Len(v.items), x, id) = w
  BY <1>1 DEF SeesAdded, Unless, AnswerView
<1>3. /\ xs \in Seq(Item) /\ js \in Seq(IdOf) /\ Len(xs) = Len(v.items) + 1
      /\ Len(js) = Len(xs) /\ Len(v.items) \in Nat /\ Len(v.dones) \in Nat
      /\ DOMAIN xs = 1 .. Len(v.items) + 1 /\ DOMAIN v.items = 1 .. Len(v.items)
      /\ \A i \in DOMAIN v.items : xs[i] = v.items[i] /\ js[i] = v.ids[i]
      /\ xs[Len(v.items) + 1] = x /\ js[Len(v.items) + 1] = id
  BY <1>0, <1>1
<1>. HIDE DEF xs, js
<1>4. /\ w \in AnswerView /\ w.place = "in" /\ w.items = xs
      /\ w.ids = js /\ w.dones = v.dones /\ w.got = v.got /\ w.told = v.told /\ w.wrong = {}
  BY <1>1, <1>3 DEF AnswerView
<1>. HIDE DEF w
<1>5. \A i \in DOMAIN xs :
        xs[i] \in Tool => /\ Frags(ps, xs[i]) # {}
                          /\ NamedFirst(ps, xs[i]) => js[i] = "own"
  <2>1. SUFFICES ASSUME NEW i \in DOMAIN xs, xs[i] \in Tool
                 PROVE  Frags(ps, xs[i]) # {} /\ (NamedFirst(ps, xs[i]) => js[i] = "own")
    OBVIOUS
  <2>2. i \in DOMAIN v.items \/ i = Len(v.items) + 1
    BY <1>3
  <2>. QED BY <1>3, <2>1, <2>2 DEF Right
<1>6. Len(w.dones) <= Len(w.items)
  BY <1>1, <1>3, <1>4
<1>7. Right(w, ps, sd)
  BY <1>3, <1>4, <1>5, <1>6 DEF Right
<1>. QED BY <1>2, <1>4, <1>7 DEF xs

LEMMA SeesItemDoneOf ==
  ASSUME NEW ps, NEW sd, NEW v, Right(v, ps, sd), OwnIds(v, ps), v.place = "in",
         Len(v.dones) < Len(v.items), NEW id \in IdOf, NEW x, x = v.items[Len(v.dones) + 1],
         x \in Tool => (id = "own" <=> Named(ps, x))
  PROVE  LET w == SeesItemDone(v, Len(v.dones), x, id) IN
         /\ Right(w, ps, sd) /\ OwnIds(w, ps)
         /\ w.place = "in" /\ w.items = v.items /\ w.ids = v.ids
         /\ Len(w.dones) = Len(v.dones) + 1 /\ w.got = v.got /\ w.told = v.told
<1>1. v \in AnswerView /\ v.wrong = {}
  BY DEF Right
<1>0. v.items \in Seq(Item) /\ v.dones \in Seq(IdOf)
  BY <1>1 DEF AnswerView
<1>. DEFINE n  == Len(v.dones)
            ds == Append(v.dones, id)
            w  == [v EXCEPT !.dones = ds, !.wrong = {}]
<1>2. SeesItemDone(v, n, x, id) = w
  BY <1>1 DEF SeesItemDone, Unless, AnswerView
<1>4. /\ ds \in Seq(IdOf) /\ Len(ds) = n + 1 /\ DOMAIN ds = 1 .. n + 1 /\ DOMAIN v.dones = 1 .. n
      /\ \A j \in 1 .. n : ds[j] = v.dones[j]
      /\ ds[n + 1] = id /\ n \in Nat /\ Len(v.items) \in Nat /\ n < Len(v.items)
  BY <1>0
<1>. HIDE DEF ds
<1>6. /\ w \in AnswerView /\ w.place = "in" /\ w.items = v.items
      /\ w.ids = v.ids /\ w.dones = ds /\ w.got = v.got /\ w.told = v.told /\ w.wrong = {}
  BY <1>1, <1>4 DEF AnswerView
<1>. HIDE DEF w
<1>7. OwnIds(w, ps)
  <2>1. \A j \in 1 .. n + 1 : j \in 1 .. n \/ j = n + 1
    BY <1>4
  <2>. QED BY <1>4, <1>6, <2>1 DEF OwnIds
<1>8. n + 1 <= Len(v.items)
  BY <1>4
<1>9. Right(w, ps, sd)
  BY <1>4, <1>6, <1>8 DEF Right
<1>. QED BY <1>2, <1>4, <1>6, <1>7, <1>9

LEMMA SeesResponseOf ==
  ASSUME NEW ps, NEW sd, NEW v, Right(v, ps, sd), v.place = "in",
         NEW to \in {"failed", "completed"}
  PROVE  LET w == SeesResponse(v, to) IN
         /\ Right(w, ps, sd) /\ w.place = "after" /\ w.items = v.items /\ w.ids = v.ids
         /\ w.dones = v.dones /\ w.got = v.got /\ w.told = to
<1>1. v \in AnswerView /\ v.wrong = {}
  BY DEF Right
<1>. DEFINE w == [v EXCEPT !.place = "after", !.told = to, !.wrong = {}]
<1>2. SeesResponse(v, to) = w
  BY <1>1 DEF SeesResponse, Unless, AnswerView
<1>3. /\ w \in AnswerView /\ w.place = "after" /\ w.items = v.items
      /\ w.ids = v.ids /\ w.dones = v.dones /\ w.got = v.got /\ w.told = to /\ w.wrong = {}
  BY <1>1 DEF AnswerView
<1>. HIDE DEF w
<1>4. Right(w, ps, sd)
  BY <1>3 DEF Right
<1>. QED BY <1>2, <1>3, <1>4

-----------------------------------------------------------------------------

\* What is known of the items of a response.
ItemsKnown ==
  ~OwnForm => /\ \A t \in Tool : callId[t] = "own" <=> Named(pieces, t)
              /\ ToSet(order) = ItemsOf(pieces)

\* A piece more, of an item that is new or not.
LEMMA ResponseTaken ==
  ASSUME AnswerTypes, ItemsKnown, Reads({"responses", "response"}), NEW p \in Piece,
         SendPiece(p), ~OwnForm, TakeResponse(p)
  PROVE  /\ ItemsKnown' /\ UNCHANGED itemsDone
         /\ order' \in Seq(Item) /\ idxOf' \in [Item -> Int] /\ callId' \in [Tool -> IdOf]
         /\ Len(order) <= Len(order')
         /\ \A x \in Item :
               IF idxOf'[x] < 0 THEN x \notin ToSet(order')
               ELSE idxOf'[x] < Len(order') /\ order'[idxOf'[x] + 1] = x
<1>1. /\ pieces \in Seq(Piece) /\ pieces' = Append(pieces, p) /\ order \in Seq(Item)
      /\ idxOf \in [Item -> Int] /\ callId \in [Tool -> IdOf]
      /\ \A x \in Item :
            IF idxOf[x] < 0 THEN x \notin ToSet(order)
            ELSE idxOf[x] < Len(order) /\ order[idxOf[x] + 1] = x
  BY PieceSent DEF AnswerTypes, ResponsesTypeOK, IdOf
<1>2. /\ p.tool \in Tool => ItemOf(p) = p.tool
      /\ ItemOf(p) \in Tool => p.tool = ItemOf(p)
      /\ "id" \in p.has => p.tool \in Tool
      /\ ItemOf(p) \in Item
  BY PieceHas
<1>. DEFINE x == ItemOf(p)
<1>3. /\ callId' = NewId(p) /\ order' = IF idxOf[x] < 0 THEN Append(order, x) ELSE order
      /\ idxOf' = [idxOf EXCEPT ![x] = IdxFor(x)] /\ UNCHANGED itemsDone
  BY DEF TakeResponse
<1>4. callId' \in [Tool -> IdOf] /\ \A t \in Tool : callId'[t] = "own" <=> Named(pieces', t)
  <2>1. \A t \in Tool : /\ t # p.tool => callId'[t] = callId[t]
                        /\ t = p.tool /\ "id" \in p.has => callId'[t] = "own"
                        /\ t = p.tool /\ "id" \notin p.has => callId'[t] \in {"made", callId[t]}
                        /\ callId[t] = "own" => callId'[t] = "own"
    BY <1>3 DEF NewId, Unnamed
  <2>2. callId' \in [Tool -> IdOf]
    BY <1>1, <1>3 DEF NewId, IdOf
  <2>3. \A t : Named(pieces', t) <=> Named(pieces, t) \/ (p.tool = t /\ "id" \in p.has)
    BY <1>1, NamedOfMore
  <2>4. \A t \in Tool : callId[t] = "own" <=> Named(pieces, t)
    BY DEF ItemsKnown
  <2>5. ASSUME NEW t \in Tool PROVE callId'[t] = "own" <=> Named(pieces', t)
    <3>1. CASE t # p.tool
      BY <2>1, <2>3, <2>4, <3>1
    <3>2. CASE t = p.tool /\ "id" \in p.has
      BY <2>1, <2>3, <3>2
    <3>3. CASE t = p.tool /\ "id" \notin p.has
      BY <2>1, <2>3, <2>4, <3>3
    <3>. QED BY <3>1, <3>2, <3>3
  <2>. QED BY <2>2, <2>5
<1>5. ItemsOf(pieces') = ItemsOf(pieces) \cup {x} /\ ToSet(order) = ItemsOf(pieces)
  BY <1>1, PiecesOfMore DEF ItemsKnown
<1>6. CASE idxOf[x] < 0
  <2>1. order' = Append(order, x) /\ ToSet(order') = ToSet(order) \cup {x}
        /\ order' \in Seq(Item) /\ Len(order') = Len(order) + 1
        /\ \A i \in 1 .. Len(order) : order'[i] = order[i]
        /\ order'[Len(order) + 1] = x /\ Len(order) \in Nat
    BY <1>1, <1>2, <1>3, <1>6, ItemsOfMore, OneMore
  <2>2. ToSet(order') = ItemsOf(pieces')
    BY <1>5, <2>1
  <2>3. idxOf' = [idxOf EXCEPT ![x] = Len(order)] /\ idxOf' \in [Item -> Int]
    BY <1>1, <1>2, <1>3, <1>6, <2>1 DEF IdxFor
  <2>4. ASSUME NEW y \in Item
        PROVE IF idxOf'[y] < 0 THEN y \notin ToSet(order')
              ELSE idxOf'[y] < Len(order') /\ order'[idxOf'[y] + 1] = y
    <3>1. CASE y = x
      BY <1>2, <1>1, <2>1, <2>3, <3>1
    <3>2. CASE y # x
      <4>1. idxOf'[y] = idxOf[y] /\ idxOf[y] \in Int
        BY <1>1, <2>3, <3>2
      <4>2. CASE idxOf[y] < 0
        BY <1>1, <2>1, <3>2, <4>1, <4>2
      <4>3. CASE ~(idxOf[y] < 0)
        BY <1>1, <2>1, <4>1, <4>3
      <4>. QED BY <4>2, <4>3
    <3>. QED BY <3>1, <3>2
  <2>5. Len(order) <= Len(order')
    BY <2>1
  <2>. QED BY <1>3, <1>4, <2>1, <2>2, <2>3, <2>4, <2>5 DEF ItemsKnown
<1>7. CASE ~(idxOf[x] < 0)
  <2>1. order' = order /\ idxOf' = idxOf /\ Len(order) \in Nat
    BY <1>1, <1>2, <1>3, <1>7 DEF IdxFor
  <2>2. x \in ToSet(order)
    <3>1. idxOf[x] + 1 \in DOMAIN order /\ order[idxOf[x] + 1] = x
      BY <1>1, <1>2, <1>7
    <3>. QED BY <3>1 DEF ToSet
  <2>3. ToSet(order') = ItemsOf(pieces')
    BY <1>5, <2>1, <2>2
  <2>4. ItemsKnown'
    BY <1>4, <2>3 DEF ItemsKnown
  <2>5. \A y \in Item :
          IF idxOf'[y] < 0 THEN y \notin ToSet(order')
          ELSE idxOf'[y] < Len(order') /\ order'[idxOf'[y] + 1] = y
    BY <1>1, <2>1
  <2>6. order' \in Seq(Item) /\ idxOf' \in [Item -> Int] /\ Len(order) <= Len(order')
    BY <1>1, <2>1
  <2>. QED BY <1>3, <1>4, <2>4, <2>5, <2>6
<1>. QED BY <1>6, <1>7

\* What a streaming client gets of piece p.
LEMMA ResponseShown ==
  ASSUME AnswerTypes, ItemsKnown, endpoint = "responses", ~dead, ~over, ResponsesNow,
         Right(view, pieces, said), view.dones = <<>>, itemsDone = 0,
         NEW p \in Piece, SendPiece(p), ~OwnForm, TakeResponse(p), UNCHANGED over
  PROVE  /\ Right(view', pieces', said') /\ view'.dones = <<>> /\ dead' \in BOOLEAN
         /\ ~dead' => ResponsesNow'
<1>0. Reads({"responses", "response"})
  BY DEF Reads
<1>1. /\ pieces \in Seq(Piece) /\ said \in Seq(Piece) /\ order \in Seq(Item)
      /\ idxOf \in [Item -> Int] /\ Len(order) \in Nat
      /\ \A x \in Item :
            IF idxOf[x] < 0 THEN x \notin ToSet(order)
            ELSE idxOf[x] < Len(order) /\ order[idxOf[x] + 1] = x
  BY DEF AnswerTypes, ResponsesTypeOK
<1>2. /\ pieces' = Append(pieces, p) /\ pieces' \in Seq(Piece)
      /\ said' \in {said, Append(said, p)} /\ said' \in Seq(Piece)
      /\ "args" \in p.has => said' = Append(said, p)
      /\ "args" \notin p.has => said' = said
      /\ FirstNames(pieces')
  BY PieceSent
<1>3. /\ p.tool \in Tool => ItemOf(p) = p.tool
      /\ ItemOf(p) \in Tool => p.tool = ItemOf(p)
      /\ ItemOf(p) \in Item
  BY PieceHas
<1>4. /\ ItemsKnown' /\ UNCHANGED itemsDone
      /\ order' \in Seq(Item) /\ callId' \in [Tool -> IdOf]
      /\ \A x \in Item :
               IF idxOf'[x] < 0 THEN x \notin ToSet(order')
               ELSE idxOf'[x] < Len(order') /\ order'[idxOf'[x] + 1] = x
  BY <1>0, ResponseTaken
<1>5. /\ view.items = order /\ view.got = said /\ view.told = "none" /\ view.place = "in"
  BY DEF ResponsesNow
<1>6. Right(view, pieces', said')
  BY <1>1, <1>2, RightOfMore
<1>. DEFINE x     == ItemOf(p)
            id    == IF x \in Tool THEN NewId(p)[x] ELSE "none"
            added == IF idxOf[x] < 0 THEN SeesAdded(view, IdxFor(x), x, id) ELSE view
            all   == IF "args" \in p.has THEN SeesItemDelta(added, IdxFor(x), p) ELSE added
<1>7. /\ callId' = NewId(p) /\ order' = IF idxOf[x] < 0 THEN Append(order, x) ELSE order
      /\ idxOf' = [idxOf EXCEPT ![x] = IdxFor(x)]
      /\ Emit(<<view, added, all>>)
  BY DEF TakeResponse, Streamed
<1>8. (view' = all /\ dead' = FALSE) \/ (view' \in {view, added} /\ dead' = TRUE)
  <2>. HIDE DEF added, all
  <2>. QED BY <1>7, EmitTwo
<1>9. idxOf'[x] = IdxFor(x) /\ IdxFor(x) \in Nat
      /\ IdxFor(x) < Len(order') /\ order'[IdxFor(x) + 1] = x
  <2>1. idxOf'[x] = IdxFor(x) /\ IdxFor(x) \in Nat
    BY <1>1, <1>3, <1>7 DEF IdxFor
  <2>. QED BY <1>3, <1>4, <2>1
<1>10. /\ Right(added, pieces', said') /\ added.items = order' /\ added.dones = <<>>
       /\ added.place = "in" /\ added.told = "none" /\ added.got = said
  <2>1. CASE ~(idxOf[x] < 0)
    BY <1>5, <1>6, <1>7, <2>1
  <2>2. CASE idxOf[x] < 0
    <3>1. id \in IdOf
      BY <1>4, <1>7 DEF IdOf
    <3>2. x \in Tool => Frags(pieces', x) # {} /\ (NamedFirst(pieces', x) => id = "own")
      <4>1. SUFFICES ASSUME x \in Tool
                     PROVE  Frags(pieces', x) # {} /\ (NamedFirst(pieces', x) => id = "own")
        OBVIOUS
      <4>2. Frags(pieces', x) # {}
        <5>1. p.tool = x
          BY <1>3, <4>1
        <5>2. Frags(Append(pieces, p), x) = Frags(pieces, x) \cup {Len(pieces) + 1}
          BY <1>1, <5>1, FragsOfMore
        <5>. QED BY <1>2, <5>2
      <4>3. NamedFirst(pieces', x) => Named(pieces', x)
        BY <1>2, <4>1, <4>2 DEF FirstNames
      <4>4. Named(pieces', x) => callId'[x] = "own"
        BY <1>4, <4>1 DEF ItemsKnown
      <4>. QED BY <1>7, <4>1, <4>2, <4>3, <4>4
    <3>3. added = SeesAdded(view, Len(view.items), x, id)
      BY <1>5, <2>2 DEF IdxFor
    <3>. HIDE DEF id, added
    <3>4. /\ Right(added, pieces', said')
          /\ added.place = "in" /\ added.items = Append(view.items, x)
          /\ added.dones = view.dones /\ added.got = view.got /\ added.told = view.told
      BY <1>3, <1>5, <1>6, <3>1, <3>2, <3>3, SeesAddedOf
    <3>. QED BY <1>5, <1>7, <2>2, <3>4
  <2>. QED BY <2>1, <2>2
<1>. HIDE DEF added
<1>11. /\ Right(all, pieces', said') /\ all.items = order' /\ all.dones = <<>>
       /\ all.place = "in" /\ all.told = "none" /\ all.got = said'
  <2>1. CASE "args" \notin p.has
    BY <1>2, <1>10, <2>1
  <2>2. CASE "args" \in p.has
    <3>1. added \in AnswerView
      BY <1>10 DEF Right
    <3>2. Gets(added, all, p)
      <4>0. Len(added.items) \in Nat /\ IdxFor(x) \in 0 .. Len(added.items) - 1
            /\ added.items[IdxFor(x) + 1] = x
        BY <1>4, <1>9, <1>10
      <4>1. all = [added EXCEPT !.got = Append(@, p)]
        BY <2>2, <3>1, <4>0 DEF SeesItemDelta, AnswerView
      <4>2. Append(added.got, p) \in Seq(Piece \cup {NoTool})
        BY <3>1 DEF AnswerView
      <4>. QED BY <3>1, <4>1, <4>2 DEF Gets, AnswerView
    <3>. HIDE DEF all
    <3>3. Right(all, pieces', Append(said, p))
      BY <1>1, <1>2, <1>10, <2>2, <3>2, GotOf
    <3>. QED BY <1>2, <1>10, <2>2, <3>2, <3>3 DEF Gets
  <2>. QED BY <2>1, <2>2
<1>. HIDE DEF all
<1>12. ~dead' => ResponsesNow'
  <2>1. SUFFICES ASSUME ~dead' PROVE ResponsesNow'
    OBVIOUS
  <2>2. view' = all /\ ~over' /\ itemsDone' = 0
    BY <1>4, <1>8, <2>1
  <2>. QED BY <1>11, <2>2 DEF ResponsesNow
<1>. QED BY <1>6, <1>8, <1>10, <1>11, <1>12

\* What stays as it is when the request is for a response.
LEMMA ResponsesFrame ==
  ASSUME AnswerTypes, Untouched, endpoint' \in {"responses", "response"},
         endpoint = "none" \/ endpoint = endpoint',
         UNCHANGED messagesVars, Len(pieces) <= Len(pieces'), pieces' \in Seq(Piece)
  PROVE  /\ UNCHANGED <<started, nextIdx, cur, metas>>
         /\ ~started /\ nextIdx = 0 /\ cur = NoBlock /\ metas = {}
         /\ started' \in BOOLEAN /\ nextIdx' \in 0 .. Len(pieces') /\ cur' \in Block
         /\ metas' \subseteq Tool /\ MessagesInv'
<1>1. /\ UNCHANGED <<started, nextIdx, cur, metas>>
      /\ ~started /\ nextIdx = 0 /\ cur = NoBlock /\ metas = {}
  BY DEF messagesVars, Untouched
<1>2. Len(pieces') \in Nat
  OBVIOUS
<1>. QED BY <1>1, <1>2 DEF AnswerTypes, MessagesInv

LEMMA ResponseTranslated ==
  ASSUME AnswerInv, TranslateResponse, UNCHANGED messagesVars
  PROVE  AnswerInv'
<1>0. AnswerTypes /\ Untouched /\ ResponsesInv
  BY DEF AnswerInv
<1>1. PICK p \in Piece :
         /\ SendPiece(p)
         /\ IF OwnForm THEN UNCHANGED <<responsesVars, dead, view>> ELSE TakeResponse(p)
  BY DEF TranslateResponse
<1>2. /\ endpoint \in {"responses", "response"} /\ ~dead /\ ~over /\ UNCHANGED <<endpoint, over>>
      /\ Reads({"responses", "response"})
  BY DEF TranslateResponse, Reads
<1>3. /\ pieces' = Append(pieces, p) /\ pieces' \in Seq(Piece) /\ Len(pieces') <= MaxPieces
      /\ said' \in {said, Append(said, p)} /\ said' \in Seq(Piece)
      /\ Len(pieces') = Len(pieces) + 1 /\ FirstNames(pieces')
      /\ UNCHANGED <<finish, done, failed, end>> /\ end = "none"
  BY <1>0, <1>1, PieceSent
<1>4. pieces \in Seq(Piece) /\ said \in Seq(Piece) /\ Len(pieces) <= Len(pieces')
  BY <1>0, <1>3 DEF AnswerTypes
<1>5. /\ UNCHANGED <<started, nextIdx, cur, metas>>
      /\ ~started /\ nextIdx = 0 /\ cur = NoBlock /\ metas = {}
      /\ started' \in BOOLEAN /\ nextIdx' \in 0 .. Len(pieces') /\ cur' \in Block
      /\ metas' \subseteq Tool /\ MessagesInv'
  BY <1>0, <1>2, <1>3, <1>4, ResponsesFrame
<1>6. /\ ItemsKnown
      /\ endpoint = "responses" =>
           /\ Right(view, pieces, said) /\ ResponsesNow /\ view.dones = <<>> /\ itemsDone = 0
      /\ endpoint = "response" => view = Nothing /\ ResponseNow
  BY <1>0, <1>2, <1>3 DEF ResponsesInv, ItemsKnown, ResponseNow
<1>7. CASE OwnForm
  <2>1. UNCHANGED <<order, idxOf, callId, itemsDone, dead, view>>
    BY <1>1, <1>7 DEF responsesVars
  <2>2. ResponsesTypeOK'
    BY <1>0, <1>2, <2>1 DEF AnswerTypes, ResponsesTypeOK
  <2>3. AnswerTypes'
    BY <1>0, <1>2, <1>3, <1>5, <2>1, <2>2 DEF AnswerTypes
  <2>4. Untouched'
    BY <1>0, <1>2, <1>5, <2>1 DEF Untouched
  <2>5. endpoint = "responses" => Right(view, pieces', said')
    BY <1>3, <1>4, <1>6, RightOfMore
  <2>6. endpoint = "responses" => ResponsesNow'
    BY <1>2, <1>3, <1>6, <1>7, <2>1 DEF ResponsesNow
  <2>7. endpoint = "response" => ResponseNow'
    BY <1>2, <1>3, <1>6, <1>7, <2>1 DEF ResponseNow
  <2>8. ResponsesInv'
    BY <1>2, <1>3, <1>6, <1>7, <2>1, <2>5, <2>6, <2>7 DEF ResponsesInv, OwnIds
  <2>. QED BY <1>5, <2>3, <2>4, <2>8 DEF AnswerInv
<1>8. CASE ~OwnForm
  <2>1. TakeResponse(p)
    BY <1>1, <1>8
  <2>2. /\ ItemsKnown' /\ UNCHANGED itemsDone
        /\ order' \in Seq(Item) /\ idxOf' \in [Item -> Int] /\ callId' \in [Tool -> IdOf]
        /\ Len(order) <= Len(order')
        /\ \A x \in Item :
               IF idxOf'[x] < 0 THEN x \notin ToSet(order')
               ELSE idxOf'[x] < Len(order') /\ order'[idxOf'[x] + 1] = x
    BY <1>0, <1>1, <1>2, <1>6, <1>8, <2>1, ResponseTaken
  <2>3. itemsDone' \in 0 .. Len(order')
    <3>1. itemsDone \in 0 .. Len(order) /\ Len(order) \in Nat
      BY <1>0 DEF AnswerTypes, ResponsesTypeOK
    <3>2. Len(order') \in Nat
      BY <2>2
    <3>. QED BY <2>2, <3>1, <3>2
  <2>4. Untouched'
    BY <1>2, <1>5, <1>8 DEF Untouched
  <2>5. CASE endpoint = "responses"
    <3>1. /\ Right(view', pieces', said') /\ view'.dones = <<>> /\ dead' \in BOOLEAN
          /\ ~dead' => ResponsesNow'
      BY <1>0, <1>1, <1>2, <1>6, <1>8, <2>1, <2>5, ResponseShown
    <3>2. ResponsesTypeOK'
      BY <1>2, <2>2, <2>3, <3>1 DEF ResponsesTypeOK, ResponsesNow, IdOf
    <3>3. view' \in AnswerView
      BY <3>1 DEF Right
    <3>4. AnswerTypes'
      BY <1>0, <1>2, <1>3, <1>5, <3>1, <3>2, <3>3 DEF AnswerTypes
    <3>5. OwnIds(view, pieces)'
      BY <3>1 DEF OwnIds
    <3>6. itemsDone' = 0
      BY <1>6, <2>2, <2>5
    <3>7. ResponsesInv'
      BY <1>2, <2>2, <2>5, <3>1, <3>5, <3>6 DEF ResponsesInv, ItemsKnown
    <3>. QED BY <1>5, <2>4, <3>4, <3>7 DEF AnswerInv
  <2>6. CASE endpoint = "response"
    <3>1. UNCHANGED <<dead, view>>
      BY <2>1, <2>6 DEF TakeResponse, Streamed
    <3>2. ResponsesTypeOK'
      BY <1>2, <2>2, <2>3, <2>6 DEF ResponsesTypeOK, IdOf
    <3>3. AnswerTypes'
      BY <1>0, <1>2, <1>3, <1>5, <3>1, <3>2 DEF AnswerTypes
    <3>4. ResponseNow'
      BY <1>2, <1>3, <1>6, <2>6, <3>1 DEF ResponseNow
    <3>5. ResponsesInv'
      BY <1>2, <2>2, <2>6, <3>4 DEF ResponsesInv, ItemsKnown
    <3>. QED BY <1>5, <2>4, <3>3, <3>5 DEF AnswerInv
  <2>. QED BY <1>2, <2>5, <2>6
<1>. QED BY <1>7, <1>8

\* The id an item is completed under.
LEMMA FinalIdOf ==
  ASSUME AnswerTypes, Untouched, ItemsKnown, NEW x \in ToSet(order)
  PROVE  FinalId(x) \in IdOf /\ (x \in Tool => (FinalId(x) = "own" <=> Named(pieces, x)))
<1>1. callId \in [Tool -> IdOf]
  BY DEF AnswerTypes, ResponsesTypeOK, IdOf
<1>2. ~OwnForm
  BY DEF Untouched, ToSet
<1>3. x \in Tool => (callId[x] = "own" <=> Named(pieces, x))
  BY <1>2 DEF ItemsKnown
<1>4. CASE x \notin Tool
  BY <1>4 DEF FinalId, IdOf
<1>5. CASE x \in Tool /\ callId[x] = "none"
  BY <1>3, <1>5 DEF FinalId, IdOf
<1>6. CASE x \in Tool /\ callId[x] # "none"
  BY <1>1, <1>3, <1>6 DEF FinalId
<1>. QED BY <1>4, <1>5, <1>6

LEMMA ResponseAsked ==
  ASSUME AnswerInv, AskResponse, UNCHANGED messagesVars
  PROVE  AnswerInv'
<1>0. AnswerTypes /\ Untouched
  BY DEF AnswerInv
<1>1. /\ endpoint = "none" /\ endpoint' \in {"responses", "response"}
      /\ UNCHANGED <<pieces, said, finish, done, failed, end, over, order, idxOf, callId,
                     itemsDone>>
  BY DEF AskResponse, service, responsesVars
<1>2. /\ view = Nothing /\ pieces = <<>> /\ said = <<>> /\ end = "none" /\ ~dead /\ ~over
      /\ order = <<>> /\ itemsDone = 0 /\ callId = [t \in Tool |-> "none"]
  BY <1>0, <1>1 DEF Untouched
<1>3. pieces' \in Seq(Piece) /\ Len(pieces) <= Len(pieces')
  BY <1>0, <1>1 DEF AnswerTypes
<1>4. /\ UNCHANGED <<started, nextIdx, cur, metas>>
      /\ ~started /\ nextIdx = 0 /\ cur = NoBlock /\ metas = {}
      /\ started' \in BOOLEAN /\ nextIdx' \in 0 .. Len(pieces') /\ cur' \in Block
      /\ metas' \subseteq Tool /\ MessagesInv'
  BY <1>0, <1>1, <1>3, ResponsesFrame
<1>5. ItemsKnown'
  <2>1. \A t : ~Named(pieces', t) /\ ItemsOf(pieces') = {} /\ ToSet(order') = {}
    BY <1>1, <1>2 DEF Named, Frags, ItemsOf, ToSet
  <2>2. \A t \in Tool : callId'[t] # "own"
    BY <1>1, <1>2
  <2>. QED BY <2>1, <2>2 DEF ItemsKnown
<1>6. Untouched'
  BY <1>1, <1>2, <1>4 DEF Untouched
<1>7. /\ view.items = <<>> /\ view.ids = <<>> /\ view.dones = <<>>
      /\ view.got = <<>> /\ view.told = "none" /\ view.place = "before" /\ view.wrong = {}
  BY <1>2 DEF Nothing
<1>8. view \in AnswerView
  BY <1>0 DEF AnswerTypes
<1>9. Right(view, pieces, said)
  BY <1>2, <1>7, <1>8 DEF Right
<1>10. CASE endpoint' = "response"
  <2>1. UNCHANGED <<dead, view>>
    BY <1>10 DEF AskResponse
  <2>2. ResponsesTypeOK'
    BY <1>0, <1>1, <1>10 DEF AnswerTypes, ResponsesTypeOK
  <2>3. AnswerTypes'
    BY <1>0, <1>1, <1>4, <2>1, <2>2 DEF AnswerTypes, Endpoints
  <2>4. ResponseNow'
    BY <1>1, <1>2, <2>1 DEF ResponseNow
  <2>5. ResponsesInv'
    BY <1>5, <1>10, <2>4 DEF ResponsesInv, ItemsKnown
  <2>. QED BY <1>4, <1>6, <2>3, <2>5 DEF AnswerInv
<1>11. CASE endpoint' = "responses"
  <2>. DEFINE made == SeesCreated(view)
  <2>1. Emit(<<view, made>>)
    BY <1>11 DEF AskResponse
  <2>2. /\ Right(made, pieces, said) /\ made.place = "in" /\ made.items = <<>>
        /\ made.dones = <<>> /\ made.got = <<>> /\ made.told = "none"
    BY <1>7, <1>9, SeesCreatedOf
  <2>. HIDE DEF made
  <2>3. (view' = made /\ dead' = FALSE) \/ (view' = view /\ dead' = TRUE)
    BY <2>1, EmitOne
  <2>4. /\ Right(view', pieces', said') /\ view'.items = <<>> /\ view'.dones = <<>>
        /\ dead' \in BOOLEAN
    BY <1>1, <1>7, <1>9, <2>2, <2>3
  <2>5. ~dead' => ResponsesNow'
    BY <1>1, <1>2, <2>2, <2>3 DEF ResponsesNow
  <2>6. ResponsesTypeOK'
    BY <1>0, <1>1, <1>2, <2>4 DEF AnswerTypes, ResponsesTypeOK
  <2>7. view' \in AnswerView
    BY <2>4 DEF Right
  <2>8. AnswerTypes'
    BY <1>0, <1>1, <1>4, <2>4, <2>6, <2>7 DEF AnswerTypes, Endpoints
  <2>9. OwnIds(view, pieces)'
    BY <2>4 DEF OwnIds
  <2>10. ResponsesInv'
    BY <1>1, <1>2, <1>5, <1>11, <2>4, <2>5, <2>9 DEF ResponsesInv, ItemsKnown
  <2>. QED BY <1>4, <1>6, <2>8, <2>10 DEF AnswerInv
<1>. QED BY <1>1, <1>10, <1>11

\* The reading ends: one response, or the completion of the items begins.
LEMMA ResponseClosed ==
  ASSUME AnswerInv, CloseResponse, UNCHANGED messagesVars
  PROVE  AnswerInv'
<1>0. AnswerTypes /\ Untouched /\ ResponsesInv
  BY DEF AnswerInv
<1>1. /\ endpoint \in {"responses", "response"} /\ ~dead /\ ~over /\ end = "none"
      /\ end' \in {"eof", "error"}
      /\ UNCHANGED <<endpoint, pieces, said, finish, done, failed, dead, order, idxOf, callId,
                     itemsDone>>
  BY DEF CloseResponse, Reads, SendEnd, responsesVars
<1>2. pieces' \in Seq(Piece) /\ Len(pieces) <= Len(pieces')
  BY <1>0, <1>1 DEF AnswerTypes
<1>3. /\ UNCHANGED <<started, nextIdx, cur, metas>>
      /\ ~started /\ nextIdx = 0 /\ cur = NoBlock /\ metas = {}
      /\ started' \in BOOLEAN /\ nextIdx' \in 0 .. Len(pieces') /\ cur' \in Block
      /\ metas' \subseteq Tool /\ MessagesInv'
  BY <1>0, <1>1, <1>2, ResponsesFrame
<1>4. Untouched'
  BY <1>0, <1>1, <1>3 DEF Untouched
<1>5. ItemsKnown /\ ItemsKnown'
  BY <1>0, <1>1 DEF ResponsesInv, ItemsKnown
<1>6. CASE endpoint = "responses"
  <2>1. UNCHANGED <<over, view>>
    BY <1>6 DEF CloseResponse, Streamed
  <2>2. ResponsesTypeOK'
    BY <1>0, <1>1, <2>1 DEF AnswerTypes, ResponsesTypeOK
  <2>3. AnswerTypes'
    BY <1>0, <1>1, <1>3, <2>1, <2>2 DEF AnswerTypes
  <2>4. /\ Right(view, pieces, said) /\ OwnIds(view, pieces) /\ ResponsesNow
    BY <1>0, <1>1, <1>6 DEF ResponsesInv
  <2>5. ResponsesNow'
    BY <1>1, <2>1, <2>4 DEF ResponsesNow
  <2>6. ResponsesInv'
    BY <1>1, <1>5, <1>6, <2>1, <2>4, <2>5 DEF ResponsesInv, ItemsKnown, OwnIds
  <2>. QED BY <1>3, <1>4, <2>3, <2>6 DEF AnswerInv
<1>7. CASE endpoint = "response"
  <2>. DEFINE cut   == TruncatedResponse(end')
              items == IF cut THEN <<>> ELSE order
              ids   == [i \in DOMAIN items |-> FinalId(items[i])]
              told  == IF cut THEN "failed" ELSE "completed"
  <2>1. over' = TRUE /\ view' = [Nothing EXCEPT !.place = "after", !.items = items, !.ids = ids,
                                  !.dones = ids, !.told = told]
    BY <1>7 DEF CloseResponse, Streamed
  <2>2. order \in Seq(Item) /\ items \in Seq(Item)
    BY <1>0 DEF AnswerTypes, ResponsesTypeOK
  <2>3. \A i \in DOMAIN items : items[i] \in ToSet(order)
    BY DEF ToSet
  <2>4. \A i \in DOMAIN items : /\ FinalId(items[i]) \in IdOf
                                /\ items[i] \in Tool =>
                                      (FinalId(items[i]) = "own" <=> Named(pieces, items[i]))
    BY <1>0, <1>5, <2>3, FinalIdOf
  <2>. HIDE DEF items
  <2>5. ids \in Seq(IdOf) /\ Len(ids) = Len(items) /\ DOMAIN ids = DOMAIN items
        /\ \A i \in DOMAIN ids : ids[i] = FinalId(items[i])
    <3>1. DOMAIN items = 1 .. Len(items) /\ Len(items) \in Nat
      BY <2>2
    <3>2. ids \in [1 .. Len(items) -> IdOf]
      BY <2>4, <3>1
    <3>. QED BY <3>1, <3>2, SeqDef, LenProperties
  <2>. HIDE DEF ids
  <2>6. /\ view'.place = "after" /\ view'.items = items /\ view'.ids = ids /\ view'.dones = ids
        /\ view'.told = told /\ view'.wrong = {}
    BY <2>1 DEF Nothing
  <2>7. view' \in AnswerView
    <3>1. NoBlock \in Block /\ <<>> \in Seq(Piece \cup {NoTool}) /\ told \in {"failed", "completed"}
      BY DEF NoBlock, Block
    <3>. HIDE DEF told
    <3>. QED BY <2>1, <2>2, <2>5, <3>1 DEF AnswerView, Nothing
  <2>8. ResponsesTypeOK'
    BY <1>0, <1>1, <1>7 DEF AnswerTypes, ResponsesTypeOK
  <2>9. AnswerTypes'
    BY <1>0, <1>1, <1>3, <2>1, <2>7, <2>8 DEF AnswerTypes
  <2>10. OwnIds(view, pieces)'
    BY <1>1, <2>4, <2>5, <2>6 DEF OwnIds
  <2>11. EndTold({"known", "other"})'
    <3>1. finish \in {"none", "known", "other"}
      BY <1>0 DEF AnswerTypes
    <3>. QED BY <1>1, <2>6, <3>1 DEF EndTold, TruncatedResponse
  <2>12. view'.items = IF view'.told = "failed" THEN <<>> ELSE order'
    BY <1>1, <2>6 DEF items
  <2>13. ResponseNow'
    BY <1>1, <2>1, <2>5, <2>6, <2>10, <2>11, <2>12 DEF ResponseNow
  <2>14. ResponsesInv'
    BY <1>1, <1>5, <1>7, <2>13 DEF ResponsesInv, ItemsKnown
  <2>. QED BY <1>3, <1>4, <2>9, <2>14 DEF AnswerInv
<1>. QED BY <1>1, <1>6, <1>7

\* An item more is completed, or the end is told.
LEMMA ResponseEnds ==
  ASSUME AnswerInv, CompleteItem \/ EndResponse, UNCHANGED messagesVars
  PROVE  AnswerInv'
<1>0. AnswerTypes /\ Untouched /\ ResponsesInv
  BY DEF AnswerInv
<1>1. /\ endpoint = "responses" /\ ~dead /\ ~over /\ end # "none"
      /\ UNCHANGED <<endpoint, pieces, said, finish, done, failed, end, order, idxOf, callId>>
  BY DEF CompleteItem, EndResponse, Reads, service, responsesVars
<1>2. pieces' \in Seq(Piece) /\ Len(pieces) <= Len(pieces')
  BY <1>0, <1>1 DEF AnswerTypes
<1>3. /\ UNCHANGED <<started, nextIdx, cur, metas>>
      /\ ~started /\ nextIdx = 0 /\ cur = NoBlock /\ metas = {}
      /\ started' \in BOOLEAN /\ nextIdx' \in 0 .. Len(pieces') /\ cur' \in Block
      /\ metas' \subseteq Tool /\ MessagesInv'
  BY <1>0, <1>1, <1>2, ResponsesFrame
<1>4. ItemsKnown /\ ItemsKnown'
  BY <1>0, <1>1 DEF ResponsesInv, ItemsKnown
<1>5. /\ Right(view, pieces, said) /\ OwnIds(view, pieces)
      /\ view.items = order /\ Len(view.dones) = itemsDone /\ (~OwnForm => view.got = said)
      /\ view.told = "none" /\ view.place = "in"
      /\ order \in Seq(Item) /\ itemsDone \in 0 .. Len(order) /\ Len(order) \in Nat
  BY <1>0, <1>1 DEF ResponsesInv, ResponsesNow, AnswerTypes, ResponsesTypeOK
<1>6. CASE CompleteItem
  <2>. DEFINE x == order[itemsDone + 1]
              w == SeesItemDone(view, itemsDone, x, FinalId(x))
  <2>1. Emit(<<view, w>>) /\ itemsDone' = itemsDone + 1 /\ itemsDone < Len(order) /\ UNCHANGED over
    BY <1>6 DEF CompleteItem
  <2>2. x \in ToSet(order)
    <3>1. itemsDone + 1 \in DOMAIN order
      BY <1>5, <2>1
    <3>. QED BY <3>1 DEF ToSet
  <2>3. FinalId(x) \in IdOf /\ (x \in Tool => (FinalId(x) = "own" <=> Named(pieces, x)))
    BY <1>0, <1>4, <2>2, FinalIdOf
  <2>4. Len(view.dones) < Len(view.items) /\ x = view.items[Len(view.dones) + 1]
    BY <1>5, <2>1
  <2>. HIDE DEF x
  <2>5. w = SeesItemDone(view, Len(view.dones), x, FinalId(x))
    BY <1>5
  <2>6. /\ Right(w, pieces, said) /\ OwnIds(w, pieces)
        /\ w.place = "in" /\ w.items = order /\ Len(w.dones) = itemsDone + 1
        /\ w.got = view.got /\ w.told = "none"
    BY <1>5, <2>3, <2>4, <2>5, SeesItemDoneOf
  <2>. HIDE DEF w
  <2>7. (view' = w /\ dead' = FALSE) \/ (view' = view /\ dead' = TRUE)
    BY <2>1, EmitOne
  <2>8. itemsDone' \in 0 .. Len(order)
    BY <1>5, <2>1
  <2>9. ResponsesTypeOK'
    BY <1>0, <1>1, <2>6, <2>7, <2>8 DEF AnswerTypes, ResponsesTypeOK
  <2>10. Right(view', pieces, said) /\ OwnIds(view', pieces) /\ dead' \in BOOLEAN
    BY <1>5, <2>6, <2>7
  <2>11. view' \in AnswerView
    BY <2>10 DEF Right
  <2>12. AnswerTypes'
    BY <1>0, <1>1, <1>3, <2>1, <2>9, <2>10, <2>11 DEF AnswerTypes
  <2>13. ~dead' => ResponsesNow'
    BY <1>1, <1>5, <2>1, <2>6, <2>7 DEF ResponsesNow
  <2>14. ResponsesInv'
    BY <1>1, <1>4, <2>10, <2>13 DEF ResponsesInv, ItemsKnown, OwnIds
  <2>15. ~OwnForm
    BY <1>0, <1>5, <2>1 DEF Untouched
  <2>16. Untouched'
    BY <1>1, <1>3, <2>15 DEF Untouched
  <2>. QED BY <1>3, <2>12, <2>14, <2>16 DEF AnswerInv
<1>7. CASE EndResponse
  <2>. DEFINE to == IF TruncatedResponse(end) THEN "failed" ELSE "completed"
              w  == SeesResponse(view, to)
  <2>1. Emit(<<view, w>>) /\ itemsDone = Len(order) /\ over' = TRUE /\ UNCHANGED itemsDone
    BY <1>7 DEF EndResponse, responsesVars
  <2>2. /\ Right(w, pieces, said) /\ w.place = "after" /\ w.items = order
        /\ w.dones = view.dones /\ w.got = view.got /\ w.told = to
    BY <1>5, SeesResponseOf
  <2>3. OwnIds(w, pieces)
    BY <1>5, <2>2 DEF OwnIds
  <2>. HIDE DEF w
  <2>7. (view' = w /\ dead' = FALSE) \/ (view' = view /\ dead' = TRUE)
    BY <2>1, EmitOne
  <2>9. ResponsesTypeOK'
    BY <1>0, <1>1, <2>1, <2>2, <2>7 DEF AnswerTypes, ResponsesTypeOK
  <2>10. Right(view', pieces, said) /\ OwnIds(view', pieces) /\ dead' \in BOOLEAN
    BY <1>5, <2>2, <2>3, <2>7
  <2>11. view' \in AnswerView
    BY <2>10 DEF Right
  <2>12. AnswerTypes'
    BY <1>0, <1>1, <1>3, <2>1, <2>9, <2>10, <2>11 DEF AnswerTypes
  <2>13. ~dead' => ResponsesNow'
    <3>1. SUFFICES ASSUME ~dead' PROVE ResponsesNow'
      OBVIOUS
    <3>2. view' = w
      BY <2>7, <3>1
    <3>3. finish \in {"none", "known", "other"}
      BY <1>0 DEF AnswerTypes
    <3>4. EndTold({"known", "other"})'
      BY <1>1, <2>2, <3>2, <3>3 DEF EndTold, TruncatedResponse
    <3>. QED BY <1>1, <1>5, <2>1, <2>2, <3>2, <3>4 DEF ResponsesNow
  <2>14. ResponsesInv'
    BY <1>1, <1>4, <2>1, <2>10, <2>13 DEF ResponsesInv, ItemsKnown, OwnIds
  <2>16. Untouched'
    BY <1>0, <1>1, <1>3, <2>1 DEF Untouched
  <2>. QED BY <1>3, <2>12, <2>14, <2>16 DEF AnswerInv
<1>. QED BY <1>6, <1>7

\* What the service remembers and a relay that gives up do to nothing else.
LEMMA AnswerRests ==
  ASSUME AnswerInv, UNCHANGED <<endpoint, pieces, said, end, view, order, idxOf, callId,
                                itemsDone, messagesVars>>,
         \/ Remember
         \/ GiveUp
         \/ UNCHANGED <<finish, done, failed, dead, over>>
  PROVE  AnswerInv'
<1>0. AnswerTypes /\ Untouched /\ MessagesInv /\ ResponsesInv
  BY DEF AnswerInv
<1>1. UNCHANGED <<endpoint, pieces, said, end, view, order, idxOf, callId, itemsDone, started,
                  nextIdx, cur, metas>>
  BY DEF messagesVars
<1>2. CASE UNCHANGED <<finish, done, failed, dead, over>>
  <2>1. AnswerTypes' /\ Untouched'
    BY <1>0, <1>1, <1>2 DEF AnswerTypes, ResponsesTypeOK, Untouched
  <2>2. MessagesInv'
    BY <1>0, <1>1, <1>2 DEF MessagesInv, MessagesNow, EndTold
  <2>3. ResponsesInv'
    BY <1>0, <1>1, <1>2 DEF ResponsesInv, ResponsesNow, ResponseNow, EndTold, OwnIds
  <2>. QED BY <2>1, <2>2, <2>3 DEF AnswerInv
<1>3. CASE Remember
  <2>1. /\ endpoint \in Endpoints /\ ~dead /\ ~over /\ UNCHANGED <<dead, over>>
        /\ finish' \in {"none", "known", "other"} /\ done' \in BOOLEAN /\ failed' \in BOOLEAN
    BY <1>0, <1>3 DEF Remember, Reads, SendFinish, SendError, SendDone, AnswerTypes
  <2>2. AnswerTypes' /\ Untouched'
    BY <1>0, <1>1, <2>1 DEF AnswerTypes, ResponsesTypeOK, Untouched
  <2>3. MessagesInv'
    BY <1>0, <1>1, <2>1 DEF MessagesInv, MessagesNow
  <2>4. ResponsesInv'
    BY <1>0, <1>1, <2>1 DEF ResponsesInv, ResponsesNow, ResponseNow, OwnIds
  <2>. QED BY <2>2, <2>3, <2>4 DEF AnswerInv
<1>4. CASE GiveUp
  <2>1. dead /\ over' = TRUE /\ UNCHANGED <<dead, finish, done, failed>>
    BY <1>4 DEF GiveUp, service
  <2>2. AnswerTypes' /\ Untouched'
    BY <1>0, <1>1, <2>1 DEF AnswerTypes, ResponsesTypeOK, Untouched
  <2>3. MessagesInv'
    BY <1>0, <1>1, <2>1 DEF MessagesInv
  <2>4. ResponsesInv'
    BY <1>0, <1>1, <2>1 DEF ResponsesInv, ResponseNow, OwnIds
  <2>. QED BY <2>2, <2>3, <2>4 DEF AnswerInv
<1>. QED BY <1>2, <1>3, <1>4

LEMMA AnswerStep ==
  ASSUME AnswerInv, [AnswerNext]_relays
  PROVE  AnswerInv'
<1>1. CASE Messages /\ UNCHANGED responsesVars
  BY <1>1, MessagesStep
<1>2. CASE Responses /\ UNCHANGED messagesVars
  BY <1>2, ResponseAsked, ResponseTranslated, ResponseClosed, ResponseEnds DEF Responses
<1>3. CASE (Remember \/ GiveUp) /\ UNCHANGED <<messagesVars, responsesVars>>
  <2>1. UNCHANGED <<endpoint, pieces, said, end, view, order, idxOf, callId, itemsDone,
                    messagesVars>>
    BY <1>3 DEF Remember, GiveUp, SendFinish, SendError, SendDone, service, responsesVars
  <2>. QED BY <1>3, <2>1, AnswerRests
<1>4. CASE UNCHANGED relays
  <2>1. UNCHANGED <<endpoint, pieces, said, end, view, order, idxOf, callId, itemsDone,
                    messagesVars, finish, done, failed, dead, over>>
    BY <1>4 DEF relays, answerVars, service, responsesVars
  <2>. QED BY <2>1, AnswerRests
<1>. QED BY <1>1, <1>2, <1>3, <1>4 DEF AnswerNext

LEMMA AnswerStart == AnswerInit /\ MessagesInit /\ ResponsesInit => AnswerInv
<1>. SUFFICES ASSUME AnswerInit, MessagesInit, ResponsesInit PROVE AnswerInv
  OBVIOUS
<1>1. /\ endpoint = "none" /\ pieces = <<>> /\ said = <<>> /\ finish = "none" /\ end = "none"
      /\ view = Nothing /\ nextIdx = 0 /\ cur = NoBlock /\ metas = {} /\ order = <<>>
      /\ itemsDone = 0 /\ idxOf = [x \in Item |-> -1] /\ callId = [t \in Tool |-> "none"]
  BY DEF AnswerInit, MessagesInit, ResponsesInit
<1>2. /\ ~done /\ ~failed /\ ~dead /\ ~over /\ ~started
      /\ done \in BOOLEAN /\ failed \in BOOLEAN /\ dead \in BOOLEAN /\ over \in BOOLEAN
      /\ started \in BOOLEAN
  BY Zenon DEF AnswerInit, MessagesInit
<1>3. NoBlock \in Block /\ Nothing \in AnswerView
  BY DEF NoBlock, Block, Nothing, AnswerView
<1>4. pieces \in Seq(Piece) /\ said \in Seq(Piece) /\ Len(pieces) = 0 /\ 0 <= MaxPieces
  BY <1>1, AnswerConstants
<1>5. FirstNames(pieces)
  BY <1>1 DEF FirstNames, Frags
<1>6. ResponsesTypeOK
  <2>1. order \in Seq(Item) /\ Len(order) = 0 /\ ToSet(order) = {}
    BY <1>1 DEF ToSet
  <2>2. idxOf \in [Item -> Int] /\ \A x \in Item : idxOf[x] < 0
    BY <1>1
  <2>3. callId \in [Tool -> {"none", "made", "own"}]
    BY <1>1
  <2>. QED BY <1>1, <2>1, <2>2, <2>3 DEF ResponsesTypeOK
<1>7. AnswerTypes
  BY <1>1, <1>2, <1>3, <1>4, <1>5, <1>6 DEF AnswerTypes
<1>8. Untouched /\ MessagesInv /\ ResponsesInv
  BY <1>1, <1>2 DEF Untouched, MessagesInv, ResponsesInv
<1>. QED BY <1>7, <1>8 DEF AnswerInv

\* What AnswersArrive says is what is right of the view now.
LEMMA AnswersRight == AnswerInv => AnswersArrive
<1>. SUFFICES ASSUME AnswerInv PROVE AnswersArrive
  OBVIOUS
<1>0. AnswerTypes /\ Untouched /\ MessagesInv /\ ResponsesInv
  BY DEF AnswerInv
<1>1. /\ endpoint \in {"none", "messages", "responses", "response"}
      /\ finish \in {"none", "known", "other"} /\ end \in {"none", "eof", "error"}
      /\ view \in AnswerView /\ said \in Seq(Piece)
  BY <1>0 DEF AnswerTypes, Endpoints
<1>2. CASE endpoint = "none"
  <2>1. view = Nothing /\ pieces = <<>> /\ ~over /\ ~Streamed
    BY <1>0, <1>2 DEF Untouched, Streamed
  <2>2. view.wrong = {} /\ view.items = <<>>
    BY <2>1 DEF Nothing
  <2>. QED BY <2>1, <2>2 DEF AnswersArrive, InOrder, PiecesArrive, CutIsTold, OneId, Told
<1>3. CASE endpoint = "messages"
  <2>1. Right(view, pieces, said) /\ SameIds(view) /\ (Told => MessagesNow)
    BY <1>0, <1>3 DEF MessagesInv, Told
  <2>2. InOrder
    BY <2>1 DEF InOrder, Told, Right, MessagesNow
  <2>3. PiecesArrive
    <3>1. ~OwnForm => IsPrefix(view.got, said)
      <4>1. view.got \in Seq(Piece \cup {NoTool})
        BY <1>1 DEF AnswerView
      <4>. QED BY <1>1, <2>1, <4>1 DEF IsPrefix, Right
    <3>. QED BY <2>1, <3>1 DEF PiecesArrive, Told, MessagesNow, ItemsOf
  <2>4. CutIsTold
    BY <1>1, <1>3, <2>1 DEF CutIsTold, Whole, Told, MessagesNow, EndTold
  <2>5. OneId
    <3>1. SUFFICES ASSUME NEW i \in DOMAIN view.items, view.items[i] \in Tool,
                          IdFirst(view.items[i])
                   PROVE  /\ view.ids[i] = "own"
                          /\ i \in DOMAIN view.dones => view.dones[i] = "own"
      BY <1>3 DEF OneId
    <3>2. NamedFirst(pieces, view.items[i])
      BY <3>1 DEF IdFirst, FragmentsOf, NamedFirst, Frags
    <3>. QED BY <2>1, <3>1, <3>2 DEF Right, SameIds
  <2>. QED BY <2>2, <2>3, <2>4, <2>5 DEF AnswersArrive
<1>4. CASE endpoint = "responses"
  <2>1. /\ Right(view, pieces, said) /\ OwnIds(view, pieces) /\ (Told => ResponsesNow)
        /\ ItemsKnown
    BY <1>0, <1>4 DEF ResponsesInv, Told, ItemsKnown
  <2>2. InOrder
    BY <2>1 DEF InOrder, Told, Right, ResponsesNow
  <2>3. PiecesArrive
    <3>1. ~OwnForm => IsPrefix(view.got, said)
      <4>1. view.got \in Seq(Piece \cup {NoTool})
        BY <1>1 DEF AnswerView
      <4>. QED BY <1>1, <2>1, <4>1 DEF IsPrefix, Right
    <3>. QED BY <2>1, <3>1 DEF PiecesArrive, Told, ResponsesNow, ItemsOf, ItemsKnown
  <2>4. CutIsTold
    BY <1>1, <1>4, <2>1 DEF CutIsTold, Whole, Told, ResponsesNow, EndTold
  <2>5. OneId
    <3>1. SUFFICES ASSUME NEW i \in DOMAIN view.items, view.items[i] \in Tool
                   PROVE  /\ IdFirst(view.items[i]) =>
                               view.ids[i] = "own"
                               /\ (i \in DOMAIN view.dones => view.dones[i] = "own")
                          /\ i \in DOMAIN view.dones =>
                               (view.dones[i] = "own" <=> HasId(view.items[i]))
      BY DEF OneId
    <3>2. /\ IdFirst(view.items[i]) <=> NamedFirst(pieces, view.items[i])
          /\ HasId(view.items[i]) <=> Named(pieces, view.items[i])
      BY DEF IdFirst, HasId, FragmentsOf, NamedFirst, Named, Frags
    <3>3. NamedFirst(pieces, view.items[i]) => Named(pieces, view.items[i]) /\ view.ids[i] = "own"
      BY <1>0, <2>1, <3>1 DEF AnswerTypes, FirstNames, Right
    <3>. QED BY <2>1, <3>1, <3>2, <3>3 DEF OwnIds
  <2>. QED BY <2>2, <2>3, <2>4, <2>5 DEF AnswersArrive
<1>5. CASE endpoint = "response"
  <2>1. ResponseNow /\ ItemsKnown /\ ~Streamed
    BY <1>0, <1>5 DEF ResponsesInv, ItemsKnown, Streamed
  <2>2. InOrder
    BY <2>1 DEF InOrder, Told, ResponseNow, Nothing
  <2>3. PiecesArrive
    BY <2>1 DEF PiecesArrive, Told, ResponseNow, ItemsOf, ItemsKnown
  <2>4. CutIsTold
    BY <1>1, <1>5, <2>1 DEF CutIsTold, Whole, Told, ResponseNow, EndTold
  <2>5. OneId
    <3>1. CASE ~over
      BY <2>1, <3>1 DEF ResponseNow, Nothing, OneId
    <3>2. CASE over
      <4>1. SUFFICES ASSUME NEW i \in DOMAIN view.items, view.items[i] \in Tool
                     PROVE  /\ IdFirst(view.items[i]) =>
                                 view.ids[i] = "own" /\ view.dones[i] = "own"
                            /\ view.dones[i] = "own" <=> HasId(view.items[i])
        BY DEF OneId
      <4>2. /\ IdFirst(view.items[i]) <=> NamedFirst(pieces, view.items[i])
            /\ HasId(view.items[i]) <=> Named(pieces, view.items[i])
        BY DEF IdFirst, HasId, FragmentsOf, NamedFirst, Named, Frags
      <4>3. /\ view.dones = view.ids /\ OwnIds(view, pieces) /\ Len(view.ids) = Len(view.items)
            /\ view.items \in {<<>>, order}
        BY <2>1, <3>2 DEF ResponseNow
      <4>4. i \in DOMAIN view.dones
        <5>1. view.items \in Seq(Item) /\ view.dones \in Seq(IdOf)
          BY <1>1 DEF AnswerView
        <5>. QED BY <4>3, <5>1
      <4>5. ~OwnForm /\ view.items[i] \in ToSet(order)
        <5>1. view.items = order
          BY <4>3
        <5>. QED BY <1>0, <5>1 DEF Untouched, ToSet
      <4>6. PICK j \in DOMAIN pieces : view.items[i] = ItemOf(pieces[j])
        BY <2>1, <4>5 DEF ItemsKnown, ItemsOf
      <4>7. pieces[j].tool = view.items[i]
        <5>1. pieces[j] \in Piece
          BY <1>0 DEF AnswerTypes
        <5>. QED BY <4>1, <4>6, <5>1, PieceHas
      <4>8. Frags(pieces, view.items[i]) # {}
        BY <4>7 DEF Frags
      <4>9. NamedFirst(pieces, view.items[i]) => Named(pieces, view.items[i])
        BY <1>0, <4>1, <4>8 DEF AnswerTypes, FirstNames
      <4>. QED BY <4>1, <4>2, <4>3, <4>4, <4>9 DEF OwnIds
    <3>. QED BY <3>1, <3>2
  <2>. QED BY <2>2, <2>3, <2>4, <2>5 DEF AnswersArrive
<1>. QED BY <1>1, <1>2, <1>3, <1>4, <1>5

\* anthropic.go:409-547, responses.go:325-591: whatever pieces come, however they
\* are mixed and whenever the client goes, the events are in the order of the
\* protocol, every piece arrives where it belongs, and the end told is the true one.
THEOREM AnswersAlwaysArrive == StreamsSpec => []AnswersArrive
<1>1. StreamsInit => AnswerInv
  BY AnswerStart DEF StreamsInit
<1>2. AnswerInv /\ [StreamsNext]_streamsVars => AnswerInv'
  BY AnswerStep, StreamsSteps
<1>3. AnswerInv => AnswersArrive
  BY AnswersRight
<1>. QED BY <1>1, <1>2, <1>3, PTL DEF StreamsSpec

\* The types of all parts; and the blocks and items that a relay counts
\* (anthropic.go:358, responses.go:275) are those its client has been told of.
THEOREM StreamsTypeCorrect == StreamsSpec => []StreamsTypeOK
<1>. DEFINE Inv == WatchShape /\ RelayInv /\ AnswerInv /\ LogInv
<1>1. StreamsInit => Inv
  BY WatchStart, RelayStart, AnswerStart, LogStart DEF StreamsInit
<1>2. Inv /\ [StreamsNext]_streamsVars => Inv'
  BY WatchStep, RelayStep, AnswerStep, LogStep, StreamsSteps
<1>3. Inv => StreamsTypeOK
  <2>1. SUFFICES ASSUME Inv PROVE StreamsTypeOK
    OBVIOUS
  <2>2. WatchTypeOK /\ LogTypeOK
    BY <2>1 DEF WatchShape, LogInv
  <2>3. RelayTypeOK
    BY <2>1 DEF RelayInv, RelayTypes, TagFlags, PlaceNow, View, RelayTypeOK
  <2>4. AnswerTypes /\ MessagesInv
    BY <2>1 DEF AnswerInv
  <2>5. AnswerTypeOK /\ ResponsesTypeOK
    BY <2>4 DEF AnswerTypes, AnswerTypeOK, AnswerView, IdOf
  <2>6. MessagesTypeOK
    <3>1. nextIdx \in 0 .. MaxPieces
      <4>1. nextIdx \in 0 .. Len(pieces) /\ Len(pieces) \in Nat /\ Len(pieces) <= MaxPieces
        BY <2>4 DEF AnswerTypes
      <4>. QED BY <4>1, AnswerConstants
    <3>2. endpoint = "messages" /\ ~dead => MessagesNow
      BY <2>4 DEF MessagesInv
    <3>. QED BY <2>4, <3>1, <3>2 DEF AnswerTypes, MessagesNow, MessagesTypeOK
  <2>. QED BY <2>2, <2>3, <2>5, <2>6 DEF StreamsTypeOK
<1>. HIDE DEF Inv
<1>4. StreamsSpec => []Inv
  BY <1>1, <1>2, PTL DEF StreamsSpec
<1>. QED BY <1>3, <1>4, PTL
=============================================================================
