----------------------------- MODULE CatsPanel -----------------------------
(***************************************************************************)
(* The cats page (webui/src/pages/CatsPage.tsx) and the status it shows    *)
(* (TravelStatus of app.go).  The page loads the status every minute and   *)
(* when its list of task events has a completed run more than before; the  *)
(* server keeps the status for a minute, and makes one fetch at a time.    *)
(* The status of all cats is a version, which the runs of tasks increase.  *)
(***************************************************************************)
EXTENDS Naturals

CONSTANTS StatusSlots,  \* loads of the status under way
          FeedSlots,    \* polls of the task events under way
          MaxRuns,      \* bound: runs of tasks
          MaxDrops      \* bound: requests that fail

ASSUME CatsAssumption == MaxRuns \in Nat /\ MaxDrops \in Nat

NoFetch == 0

VARIABLES
  cats,       \* the upstream's status of the cats
  cache,      \* travelCache: a version, and its age: "new" for a second,
              \* "fresh" for a minute, then "old"
  fetching,   \* travelFetching, by the load that fetches
  running,    \* the runs the server counts as under way
  active,     \* the runs that are
  ended,      \* the completed runs among the task events the server keeps
  statuses,   \* the loads of the page
  feeds,      \* the polls of the page; one of an earlier effect is stopped
  cat,        \* what the page shows: status, running, completed runs seen
  begunRuns, drops

catsServer == <<cats, cache, fetching, running, active, ended, begunRuns>>
catsVars == <<catsServer, statuses, feeds, cat, drops>>

NoStatus == [at |-> "none", force |-> FALSE, ver |-> 0]
NoFeed == [at |-> "none", stopped |-> FALSE, ended |-> 0, running |-> FALSE]
FirstOf(S) == CHOOSE x \in S : \A y \in S : x <= y

\* The page may be opened after a run of before.
CatsInit ==
  /\ cats = 1 /\ begunRuns = 0
  /\ cache = [ver |-> 0, age |-> "old"] /\ fetching = NoFetch
  /\ active = 0 /\ running = active /\ ended = 1
  /\ statuses = [r \in StatusSlots |->
       IF r = FirstOf(StatusSlots) THEN [NoStatus EXCEPT !.at = "sent", !.force = TRUE]
       ELSE NoStatus]
  /\ feeds = [q \in FeedSlots |->
       IF q = FirstOf(FeedSlots) THEN [NoFeed EXCEPT !.at = "sent"] ELSE NoFeed]
  /\ cat = [ver |-> 0, running |-> FALSE, seen |-> 0]
  /\ drops = 0

---------------------------------------------------------------------------
\* Runs of tasks begin, by themselves or by a button, and end; each event is
\* counted when it is told (NotifyTaskEvent), and the end of one run resets the
\* count of all.
RunBegins ==
  /\ begunRuns < MaxRuns /\ begunRuns' = begunRuns + 1
  /\ active' = active + 1 /\ running' = running + 1
  /\ UNCHANGED <<cats, cache, fetching, ended, statuses, feeds, cat, drops>>

RunEnds ==
  /\ active > 0 /\ active' = active - 1
  /\ running' = 0 /\ ended' = ended + 1
  /\ cats' = cats + 1
  /\ UNCHANGED <<cache, fetching, begunRuns, statuses, feeds, cat, drops>>

\* The events told by a run push the oldest out of the list.
EventsDrop ==
  /\ active > 0 /\ ended > 0 /\ ended' = ended - 1
  /\ UNCHANGED <<cats, cache, fetching, running, active, begunRuns, statuses,
                 feeds, cat, drops>>

\* Time passes.
CacheAges ==
  /\ cache.age # "old"
  /\ cache' = [cache EXCEPT !.age = IF @ = "new" THEN "fresh" ELSE "old"]
  /\ UNCHANGED <<cats, fetching, running, active, ended, begunRuns, statuses,
                 feeds, cat, drops>>

---------------------------------------------------------------------------
Sends(r, force) ==
  /\ statuses[r].at = "none"
  /\ statuses' = [statuses EXCEPT ![r] = [NoStatus EXCEPT !.at = "sent", !.force = force]]

\* A load when the slots are taken is left out.
SendsAny == \/ \E r \in StatusSlots : Sends(r, TRUE)
            \/ (\A r \in StatusSlots : statuses[r].at # "none") /\ UNCHANGED statuses

\* load: by the interval of a minute or, forced, by the button and by the timer
\* that runAction sets for some time after a run it began.
LoadStatus(r, force) ==
  /\ Sends(r, force)
  /\ UNCHANGED <<catsServer, feeds, cat, drops>>

Cached(r) == [statuses EXCEPT ![r] = [NoStatus EXCEPT !.at = "answered", !.ver = cache.ver]]
Moves(r, to) == [statuses EXCEPT ![r] = [@ EXCEPT !.at = to, !.force = FALSE]]

\* TravelStatus takes what is in the cache, unless forced or too old; waits for
\* the fetch of another load; or fetches.
AskStatus(r) ==
  /\ statuses[r].at = "sent"
  /\ \/ /\ ~statuses[r].force /\ cache.age # "old"
        /\ statuses' = Cached(r) /\ UNCHANGED fetching
     \/ /\ statuses[r].force \/ cache.age = "old"
        /\ IF fetching = NoFetch THEN statuses' = Moves(r, "fetch") /\ fetching' = r
           ELSE statuses' = Moves(r, "wait") /\ UNCHANGED fetching
  /\ UNCHANGED <<cats, cache, running, active, ended, begunRuns, feeds, cat, drops>>

\* A load that waits looks again, every tenth of a second: at a cache of the
\* last second, or else whether it can fetch.
LookAgain(r) ==
  /\ statuses[r].at = "wait"
  /\ \/ cache.age = "new" /\ statuses' = Cached(r) /\ UNCHANGED fetching
     \/ /\ cache.age # "new" /\ fetching = NoFetch
        /\ statuses' = Moves(r, "fetch") /\ fetching' = r
  /\ UNCHANGED <<cats, cache, running, active, ended, begunRuns, feeds, cat, drops>>

\* The fetch reads the status upstream ...
ReadUpstream(r) ==
  /\ statuses[r].at = "fetch"
  /\ statuses' = [statuses EXCEPT ![r].at = "read", ![r].ver = cats]
  /\ UNCHANGED <<catsServer, feeds, cat, drops>>

\* Mutant: the fetch is not marked as over.
PublishMarked(r) ==
  /\ statuses[r].at = "read"
  /\ cache' = [ver |-> statuses[r].ver, age |-> "new"]
  /\ statuses' = Moves(r, "answered")
  /\ UNCHANGED <<cats, fetching, running, active, ended, begunRuns, feeds, cat, drops>>

\* ... and puts it into the cache.
Publish(r) ==
  /\ statuses[r].at = "read"
  /\ cache' = [ver |-> statuses[r].ver, age |-> "new"]
  /\ fetching' = NoFetch
  /\ statuses' = Moves(r, "answered")
  /\ UNCHANGED <<cats, running, active, ended, begunRuns, feeds, cat, drops>>

\* The page shows the answer, whatever it showed before; one that is lost
\* changes nothing.
StatusShown(r) ==
  /\ statuses[r].at = "answered"
  /\ \/ cat' = [cat EXCEPT !.ver = statuses[r].ver] /\ UNCHANGED drops
     \/ drops < MaxDrops /\ drops' = drops + 1 /\ UNCHANGED cat
  /\ statuses' = [statuses EXCEPT ![r] = NoStatus]
  /\ UNCHANGED <<catsServer, feeds>>

---------------------------------------------------------------------------
\* The interval of the polls.
PollFeed(q) ==
  /\ feeds[q].at = "none"
  /\ feeds' = [feeds EXCEPT ![q].at = "sent"]
  /\ UNCHANGED <<catsServer, statuses, cat, drops>>

AnswerFeed(q) ==
  /\ feeds[q].at = "sent"
  /\ feeds' = [feeds EXCEPT ![q] = [@ EXCEPT !.at = "answered", !.ended = ended,
                                            !.running = (running > 0)]]
  /\ UNCHANGED <<catsServer, statuses, cat, drops>>

\* The effect is run again when the answer starts or stops the running banner:
\* what the old one has asked is passed over, and it polls at once.
PolledAgain(q) ==
  [p \in FeedSlots |->
     IF p = q THEN [NoFeed EXCEPT !.at = "sent"]
     ELSE [feeds[p] EXCEPT !.stopped = (feeds[p].at # "none")]]

\* A poll is answered.  A completed run more than were seen, if any was, loads
\* the status.
FeedShown(q) ==
  /\ feeds[q].at = "answered"
  /\ IF feeds[q].stopped
       THEN UNCHANGED <<cat, statuses>> /\ feeds' = [feeds EXCEPT ![q] = NoFeed]
       ELSE /\ cat' = [cat EXCEPT !.running = feeds[q].running, !.seen = feeds[q].ended]
            /\ feeds' = IF cat.running # feeds[q].running THEN PolledAgain(q)
                        ELSE [feeds EXCEPT ![q] = NoFeed]
            /\ IF feeds[q].ended > cat.seen /\ cat.seen > 0
                 THEN SendsAny
                 ELSE UNCHANGED statuses
  /\ UNCHANGED <<catsServer, drops>>

LoseFeed(q) ==
  /\ feeds[q].at \in {"sent", "answered"} /\ drops < MaxDrops
  /\ feeds' = [feeds EXCEPT ![q] = NoFeed] /\ drops' = drops + 1
  /\ UNCHANGED <<catsServer, statuses, cat>>

CatsTime == RunEnds \/ CacheAges
StatusStep(r) == \/ AskStatus(r) \/ LookAgain(r) \/ ReadUpstream(r) \/ Publish(r)
                 \/ StatusShown(r)
FeedStep(q) == AnswerFeed(q) \/ FeedShown(q)

CatsNext ==
  \/ CatsTime \/ EventsDrop
  \/ RunBegins
  \/ \E r \in StatusSlots : \/ StatusStep(r)
                            \/ \E force \in BOOLEAN : LoadStatus(r, force)
  \/ \E q \in FeedSlots : PollFeed(q) \/ FeedStep(q) \/ LoseFeed(q)

---------------------------------------------------------------------------

\* What is rendered: the banner while something runs, and the figures and cards
\* of the status.
CatsView == [ver |-> cat.ver, banner |-> cat.running]

(* When no run changes the cats any more, the page comes to show their last
   status and that nothing is running, and goes on showing it, whatever answers
   of before are still under way, and whichever load waited for another's
   fetch and took its result.                                                *)
CatsCatchUp == <>[](CatsView = [ver |-> cats, banner |-> FALSE])
============================================================================
