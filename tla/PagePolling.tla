---------------------------- MODULE PagePolling ----------------------------
(***************************************************************************)
(* The hook every page of the web panel reads the server through           *)
(* (webui/src/hooks/use-polling.ts).  The server's value is a version      *)
(* number; a request takes the version of the moment it is served, and     *)
(* its answer is applied whenever it comes back.  A request is applied and *)
(* those that wait for it resume in one step: the continuations of one     *)
(* promise run together, before any event or timer.                        *)
(***************************************************************************)
EXTENDS Naturals, FiniteSetsExt

CONSTANTS Requests,      \* slots for requests under way, positive numbers
          MaxGen,        \* bound: generations counted
          MaxChained,    \* bound: refreshes of one generation chained to a request
          MaxVersion,    \* bound: changes of the server's value
          MaxFaults      \* bound: requests that fail

ASSUME PollAssumption == /\ Requests \subseteq Nat \ {0}
                         /\ IsFiniteSet(Requests) /\ 1 \in Requests
                         /\ MaxGen \in Nat \ {0}
                         /\ MaxChained \in Nat
                         /\ MaxVersion \in Nat
                         /\ MaxFaults \in Nat

NoReq == 0
Gens == 1..MaxGen
FreeSlot == [at |-> "free", gen |-> NoReq, val |-> 0]

VARIABLES
  source,      \* the server's value
  enabled,     \* whether the page wants polling
  generation,  \* generationRef
  inFlight,    \* inFlightRef: a request, or NoReq
  reqs,        \* requests: where they are, whose generation, what they bring
  loops,       \* per generation its poll loop: what it waits for
  chained,     \* per request and generation, the manual refreshes chained to it
  shown,       \* what the page renders: data, loading, error
  faults,      \* failed requests so far
  doubled      \* observation: one answer has started more than one request

pollVars == <<source, enabled, generation, inFlight, reqs, loops, chained,
              shown, faults, doubled>>

NoChain == [g \in Gens |-> 0]
NoLoop == [at |-> "none", on |-> NoReq, cancelled |-> FALSE]
Unstarted == {r \in Requests : reqs[r].at = "free"}

PollInit ==
  /\ source = 1
  /\ enabled = TRUE
  /\ generation = 1
  /\ inFlight = 1
  /\ reqs = [r \in Requests |->
               IF r = 1 THEN [at |-> "sent", gen |-> 1, val |-> 0] ELSE FreeSlot]
  /\ loops = [g \in Gens |->
                IF g = 1 THEN [at |-> "request", on |-> 1, cancelled |-> FALSE]
                         ELSE NoLoop]
  /\ chained = [r \in Requests |-> NoChain]
  /\ shown = [data |-> 0, loading |-> TRUE, error |-> FALSE]
  /\ faults = 0
  /\ doubled = FALSE

\* runRefresh by the poll loop of the latest generation g.  The request it
\* starts, joins or waits for is what the loop goes on after.
PollNow(g) ==
  /\ \/ /\ inFlight = NoReq
        /\ \E r \in Unstarted :
             /\ r = Min(Unstarted)
             /\ reqs' = [reqs EXCEPT ![r] = [at |-> "sent", gen |-> g, val |-> 0]]
             /\ inFlight' = r
             /\ loops' = [loops EXCEPT ![g] = [@ EXCEPT !.at = "request", !.on = r]]
        /\ shown' = [shown EXCEPT !.error = FALSE]
     \/ /\ inFlight # NoReq
        /\ loops' = [loops EXCEPT ![g] = [@ EXCEPT
             !.at = IF reqs[inFlight].gen = g THEN "request" ELSE "chained",
             !.on = inFlight]]
        /\ UNCHANGED <<reqs, inFlight, shown>>
  /\ UNCHANGED <<source, chained, faults, doubled>>

\* The timer of a poll loop fires.
Fire(g) ==
  /\ loops[g].at = "timer"
  /\ PollNow(g)
  /\ UNCHANGED <<enabled, generation>>

\* Mutant: a refresh does not look for a request under way.
RefreshAnyway ==
  /\ \E r \in Unstarted :
       /\ r = Min(Unstarted)
       /\ reqs' = [reqs EXCEPT ![r] = [at |-> "sent", gen |-> generation, val |-> 0]]
       /\ inFlight' = r
  /\ shown' = [shown EXCEPT !.error = FALSE]
  /\ UNCHANGED <<source, enabled, generation, loops, chained, faults, doubled>>

\* refresh(): the button of a page, or a dialog that has saved something.  Each
\* one that meets a request of an older generation waits for it by itself.
Refresh ==
  /\ \/ /\ inFlight = NoReq
        /\ \E r \in Unstarted :
             /\ r = Min(Unstarted)
             /\ reqs' = [reqs EXCEPT ![r] =
                           [at |-> "sent", gen |-> generation, val |-> 0]]
             /\ inFlight' = r
        /\ shown' = [shown EXCEPT !.error = FALSE]
        /\ UNCHANGED chained
     \/ /\ inFlight # NoReq
        /\ reqs[inFlight].gen = generation
        /\ UNCHANGED <<reqs, inFlight, shown, chained>>
     \/ /\ inFlight # NoReq
        /\ reqs[inFlight].gen # generation
        /\ chained[inFlight][generation] < MaxChained
        /\ chained' = [chained EXCEPT ![inFlight][generation] = @ + 1]
        /\ UNCHANGED <<reqs, inFlight, shown>>
  /\ UNCHANGED <<source, enabled, generation, loops, faults, doubled>>

\* The page turns polling on: the effect runs, with a generation of its own.
Enable ==
  /\ ~enabled /\ generation < MaxGen
  /\ enabled' = TRUE
  /\ generation' = generation + 1
  /\ PollNow(generation + 1)

\* Mutant: the loop is not told that it is over.
DisableUncancelled ==
  /\ enabled /\ generation < MaxGen
  /\ enabled' = FALSE
  /\ generation' = generation + 1
  /\ loops' = [loops EXCEPT ![generation].at = IF @ = "timer" THEN "over" ELSE @]
  /\ UNCHANGED <<source, inFlight, reqs, chained, shown, faults, doubled>>

\* The page turns polling off: the effect's cleanup.
Disable ==
  /\ enabled /\ generation < MaxGen
  /\ enabled' = FALSE
  /\ generation' = generation + 1
  /\ loops' = [loops EXCEPT ![generation] =
       [@ EXCEPT !.cancelled = TRUE,
                 !.at = IF loops[generation].at = "timer" THEN "over" ELSE loops[generation].at]]
  /\ UNCHANGED <<source, inFlight, reqs, chained, shown, faults, doubled>>

\* The server handles a request.
Serve(r) ==
  /\ reqs[r].at = "sent"
  /\ reqs' = [reqs EXCEPT ![r].at = "answered", ![r].val = source]
  /\ UNCHANGED <<source, enabled, generation, inFlight, loops, chained, shown,
                 faults, doubled>>

\* A request or its answer is lost, or the server answers with an error.
Fail(r) ==
  /\ reqs[r].at \in {"sent", "answered"} /\ faults < MaxFaults
  /\ reqs' = [reqs EXCEPT ![r].at = "failed", ![r].val = 0]
  /\ faults' = faults + 1
  /\ UNCHANGED <<source, enabled, generation, inFlight, loops, chained, shown,
                 doubled>>

\* Mutant: only the first answer is taken.
AppliedFirst(r) ==
  IF reqs[r].gen # generation THEN shown
  ELSE [data    |-> IF reqs[r].at = "answered" /\ shown.loading THEN reqs[r].val ELSE shown.data,
        error   |-> shown.error \/ reqs[r].at = "failed",
        loading |-> FALSE]

\* What the page shows once the answer to r is in: only an answer to a request
\* of the latest generation counts.
Applied(r) ==
  IF reqs[r].gen # generation THEN shown
  ELSE [data    |-> IF reqs[r].at = "answered" THEN reqs[r].val ELSE shown.data,
        error   |-> shown.error \/ reqs[r].at = "failed",
        loading |-> FALSE]

\* The continuations of a request: its own, that of inFlightRef, then those of
\* the loops and refreshes that wait for it, in the order they came.  A loop of
\* the latest generation, chained to a request of an older one, comes first and
\* starts one (mine); each refresh starts another, the last of which is shared.
SettleWith(r, started, mine, last) ==
  LET waiting == {g \in Gens : loops[g].on = r /\ loops[g].at \in {"request", "chained"}}
      again   == generation \in waiting /\ loops[generation].at = "chained"
      asked   == chained[r][generation]
  IN /\ Cardinality(started) = IF again THEN asked + 1 ELSE asked
     /\ reqs' = [q \in Requests |->
                   IF q \in started THEN [at |-> "sent", gen |-> generation, val |-> 0]
                   ELSE IF q = r THEN FreeSlot ELSE reqs[q]]
     /\ inFlight' = IF started # {} THEN last
                    ELSE IF inFlight = r THEN NoReq ELSE inFlight
     /\ loops' = [g \in Gens |->
          IF g \notin waiting THEN loops[g]
          ELSE IF again /\ g = generation
               THEN [loops[g] EXCEPT !.at = "request", !.on = mine]
          ELSE [loops[g] EXCEPT !.on = NoReq,
                  !.at = IF loops[g].cancelled THEN "over" ELSE "timer"]]
     /\ chained' = [chained EXCEPT ![r] = NoChain]
     /\ shown' = [Applied(r) EXCEPT !.error = @ /\ started = {}]
     /\ doubled' = (doubled \/ Cardinality(started) > 1)
     /\ UNCHANGED <<source, enabled, generation, faults>>

\* What is started takes the free slots, the smallest first.
Settle(r) ==
  /\ reqs[r].at \in {"answered", "failed"}
  /\ \E started \in SUBSET (Unstarted \cup {r}) :
       /\ \A q \in started, p \in (Unstarted \cup {r}) \ started : q < p
       /\ \/ started = {} /\ SettleWith(r, {}, NoReq, NoReq)
          \/ \E mine, last \in started :
               /\ mine = Min(started) /\ last = Max(started)
               /\ SettleWith(r, started, mine, last)

\* The server's value changes, by whatever else uses the server.
Change ==
  /\ source < MaxVersion
  /\ source' = source + 1
  /\ UNCHANGED <<enabled, generation, inFlight, reqs, loops, chained, shown,
                 faults, doubled>>

PollStep == \/ \E r \in Requests : Serve(r) \/ Fail(r) \/ Settle(r)
            \/ \E g \in Gens : Fire(g)

PollNext == PollStep \/ Refresh \/ Enable \/ Disable \/ Change

---------------------------------------------------------------------------

PollTypeOK ==
  /\ source \in Nat \ {0}
  /\ enabled \in BOOLEAN
  /\ generation \in Gens
  /\ inFlight \in Requests \cup {NoReq}
  /\ reqs \in [Requests -> [at: {"free", "sent", "answered", "failed"},
                            gen: Gens \cup {NoReq}, val: Nat]]
  /\ loops \in [Gens -> [at: {"none", "request", "chained", "timer", "over"},
                         on: Requests \cup {NoReq}, cancelled: BOOLEAN]]
  /\ chained \in [Requests -> [Gens -> 0 .. MaxChained]]
  /\ shown \in [data: Nat, loading: BOOLEAN, error: BOOLEAN]
  /\ faults \in Nat
  /\ doubled \in BOOLEAN

\* What a page renders: a skeleton while it loads, then the data.
Rendered == IF shown.loading THEN 0 ELSE shown.data

(* While a page polls, exactly its latest loop goes on: it has a timer, or
   waits for a request that is under way; however often polling is turned on
   and off while requests are out, no loop is left behind with a timer.      *)
PollingAlive ==
  /\ enabled =>
       /\ ~loops[generation].cancelled
       /\ \/ loops[generation].at = "timer"
          \/ /\ loops[generation].at \in {"request", "chained"}
             /\ reqs[loops[generation].on].at # "free"
  /\ \A g \in Gens : loops[g].at = "timer" => enabled /\ g = generation

(* What a page shows never goes back to an older answer, although requests
   overtake one another, unless manual refreshes, or one and the loop, have each
   started a request after waiting for the same one of an older generation.  *)
NeverBack == [][~doubled' => shown'.data >= shown.data]_pollVars

(* A page that goes on polling stops loading, and once the server's value no
   longer changes it shows that value and keeps showing it.                  *)
CatchesUp == <>[]enabled => <>[](Rendered = source)
============================================================================
