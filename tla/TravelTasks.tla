----------------------------- MODULE TravelTasks -----------------------------
(***************************************************************************)
(* The WorkBuddy extras (internal/scheduler/travel.go): the travel run,    *)
(* which makes at most one move per account (adopt, claim, depart), and    *)
(* the activity run, which reports conversations and then adopts.  Both    *)
(* are started by the daily loop and by the panel, on goroutines of their  *)
(* own; a mutex per kind lets the second of two runs of a kind skip.       *)
(* Both count their moves in one shared counter, from whose growth each    *)
(* deduces what it did for an account.  Beside them run the refresh of all *)
(* balances (app.RefreshAll), of which one goes on at a time, too, and     *)
(* that of one account (app.RefreshCredits), of which any number may.      *)
(*                                                                         *)
(* The service is external: cats, trips and balances, as its answers show  *)
(* them to this code.  A balance rises by rewards and falls by what chat   *)
(* requests cost; it is told apart only by the number of its changes, so   *)
(* that a reading is older than another or not.  One day passes;           *)
(* adoptTried is of that day.                                              *)
(***************************************************************************)
EXTENDS Naturals

CONSTANTS
    Uid,
    Run,        \* goroutines
    KindOf,     \* "travel", "activity", "refresh" (of all) or "single"
    MaxStarts,  \* runs started (bound)
    MaxSpends,  \* changes of a balance by requests (bound)
    Lossy,      \* may an answer of the service be lost?
    None

ASSUME TravelConstants ==
    /\ KindOf \in [Run -> {"travel", "activity", "refresh", "single"}]
    /\ MaxStarts \in Nat /\ MaxSpends \in Nat /\ None \notin Uid \cup Run
    /\ Lossy \in BOOLEAN

VARIABLES
    cat,      \* service: accounts with a cat
    chatty,   \* service: accounts that have talked enough to adopt
    trip,     \* service: "idle", "limit" (idle, departed today), "traveling", "arrived"
    rev,      \* service: changes of each balance so far
    spent,    \* service: those by chat requests
    paid,     \* service: rewards paid (observed)
    rewarded, \* the change of each balance by its last reward (observed)
    shown,    \* the pool's balances, by the change they were read after
    written,  \* per kind, the reading its runs wrote last (observed)
    counters, \* Scheduler.tc
    tried,    \* adoptTried, for today
    holder,   \* per kind, the run that holds its mutex, or its busy flag
    pc, cur, todo, before, got,  \* of each run
    did,      \* the move the run made for its account (observed)
    event,    \* the last event of each run: the move it reported
    starts    \* runs started

vars == <<cat, chatty, trip, rev, spent, paid, rewarded, shown, written, counters,
          tried, holder, pc, cur, todo, before, got, did, event, starts>>
account == <<rev, spent, paid, rewarded>>
service == <<cat, chatty, trip, account>>
pool    == <<shown, written>>
local   == <<cur, todo, before, got, did, event, starts>>

Move  == {"adopts", "claims", "departs"}
Mutex == {"travel", "activity", "refresh"}

Init ==
    /\ cat \in SUBSET Uid /\ chatty \in SUBSET Uid /\ cat \subseteq chatty
    /\ trip \in [Uid -> {"idle", "arrived"}]
    /\ \A u \in Uid \ cat : trip[u] = "idle"
    /\ rev = [u \in Uid |-> 0] /\ spent = rev /\ paid = 0 /\ rewarded = rev
    /\ shown = rev /\ written = [k \in Mutex |-> rev]
    /\ counters = [m \in Move |-> 0]
    /\ tried = {}
    /\ holder = [k \in Mutex |-> None]
    /\ pc = [r \in Run |-> "idle"]
    /\ cur = [r \in Run |-> None]
    /\ todo = [r \in Run |-> {}]
    /\ before = [r \in Run |-> counters]
    /\ got = [r \in Run |-> 0]
    /\ did = [r \in Run |-> None]
    /\ event = [r \in Run |-> None]
    /\ starts = 0

Kind(r, k) == KindOf[r] = k
Locks(r)   == KindOf[r] \in Mutex
Moves(r)   == KindOf[r] \in {"travel", "activity"}
At(r, p)   == pc[r] = p
Goto(r, p) == pc' = [pc EXCEPT ![r] = p]

-----------------------------------------------------------------------------
\* Mutant: the mutex is not tried.
StartAnyway(r) ==
    /\ At(r, "idle") /\ starts < MaxStarts /\ starts' = starts + 1
    /\ Goto(r, "next") /\ todo' = [todo EXCEPT ![r] = Uid]
    /\ UNCHANGED <<service, pool, counters, tried, holder, cur, before, got,
                   did, event>>

\* A run starts, or skips because one of its kind is running.
Start(r) ==
    /\ At(r, "idle") /\ starts < MaxStarts /\ starts' = starts + 1
    /\ \/ /\ ~Locks(r) /\ Goto(r, "next") /\ UNCHANGED holder
          /\ \E u \in Uid : todo' = [todo EXCEPT ![r] = {u}]
       \/ /\ Locks(r) /\ holder[KindOf[r]] = None
          /\ Goto(r, "next") /\ todo' = [todo EXCEPT ![r] = Uid]
          /\ holder' = [holder EXCEPT ![KindOf[r]] = r]
       \/ Locks(r) /\ holder[KindOf[r]] # None /\ UNCHANGED <<pc, todo, holder>>
    /\ UNCHANGED <<service, pool, counters, tried, cur, before, got, did, event>>

\* Mutant: the mutex is given up when the last account is taken up.
NextUnlocks(r) ==
    /\ At(r, "next")
    /\ \E u \in todo[r] :
          /\ cur' = [cur EXCEPT ![r] = u]
          /\ todo' = [todo EXCEPT ![r] = @ \ {u}]
    /\ Goto(r, CASE Kind(r, "travel") -> "look" [] Kind(r, "activity") -> "report"
                 [] OTHER -> "read")
    /\ before' = [before EXCEPT ![r] = counters]
    /\ did' = [did EXCEPT ![r] = None]
    /\ holder' = [k \in DOMAIN holder |->
                     IF todo'[r] = {} /\ holder[k] = r THEN None ELSE holder[k]]
    /\ UNCHANGED <<service, pool, counters, tried, got, event, starts>>

\* The next account; the counters are read before anything is done for it.
Next1(r) ==
    /\ At(r, "next")
    /\ \E u \in todo[r] :
          /\ cur' = [cur EXCEPT ![r] = u]
          /\ todo' = [todo EXCEPT ![r] = @ \ {u}]
    /\ Goto(r, CASE Kind(r, "travel") -> "look" [] Kind(r, "activity") -> "report"
                 [] OTHER -> "read")
    /\ before' = [before EXCEPT ![r] = counters]
    /\ did' = [did EXCEPT ![r] = None]
    /\ UNCHANGED <<service, pool, counters, tried, holder, got, event, starts>>

Finish(r) ==
    /\ At(r, "next") /\ todo[r] = {} /\ Goto(r, "idle")
    /\ holder' = [k \in DOMAIN holder |-> IF holder[k] = r THEN None ELSE holder[k]]
    /\ UNCHANGED <<service, pool, counters, tried, local>>

\* travelOne: BuddyInfo and TravelStatus; any of them may fail.
Look(r) ==
    /\ At(r, "look")
    /\ LET u == cur[r] IN
       \/ Goto(r, "tell")
       \/ u \notin cat /\ u \notin tried /\ Goto(r, "adopt")
       \/ u \in cat /\ trip[u] = "arrived" /\ Goto(r, "claim")
       \/ u \in cat /\ trip[u] = "idle" /\ Goto(r, "depart")
    /\ UNCHANGED <<service, pool, counters, tried, holder, local>>

\* RunActivityNow: the reports, after which an account without a cat adopts.
Report(r) ==
    /\ At(r, "report")
    /\ \/ Goto(r, "next") /\ UNCHANGED <<chatty, before>>
       \/ /\ chatty' = chatty \cup {cur[r]}
          /\ Goto(r, "next") \/ (cur[r] \notin cat /\ Goto(r, "adopt"))
          /\ before' = [before EXCEPT ![r] = counters]
    /\ UNCHANGED <<cat, trip, account, pool, counters, tried, holder, cur, todo, got,
                   did, event, starts>>

\* A move the service accepts earns its reward; the counting comes after, or
\* never when the answer is lost.
Earn(r, m) ==
    /\ did' = [did EXCEPT ![r] = m]
    /\ Goto(r, "bump") \/ (Lossy /\ Goto(r, "tell"))
    /\ UNCHANGED spent
    /\ IF m = "departs" THEN UNCHANGED <<rev, paid, rewarded>>
       ELSE /\ rev' = [rev EXCEPT ![cur[r]] = @ + 1] /\ paid' = paid + 1
            /\ rewarded' = [rewarded EXCEPT ![cur[r]] = rev'[cur[r]]]

\* tryAdopt, at most once a day while the service says not enough talk yet.
Adopt(r) ==
    /\ At(r, "adopt")
    /\ LET u == cur[r] IN
       \/ u \in chatty \ cat /\ cat' = cat \cup {u} /\ Earn(r, "adopts") /\ UNCHANGED tried
       \/ /\ u \notin chatty /\ tried' = tried \cup {u} /\ Goto(r, "tell")
          /\ UNCHANGED <<cat, account, did>>
       \/ Goto(r, "tell") /\ UNCHANGED <<cat, account, did, tried>>
    /\ UNCHANGED <<chatty, trip, pool, counters, holder, cur, todo, before, got,
                   event, starts>>

\* The reward of a trip that has arrived; the cat may have to rest then.
Claim(r) ==
    /\ At(r, "claim")
    /\ \/ /\ trip[cur[r]] = "arrived" /\ Earn(r, "claims")
          /\ \E t \in {"idle", "limit"} : trip' = [trip EXCEPT ![cur[r]] = t]
       \/ Goto(r, "tell") /\ UNCHANGED <<trip, account, did>>
    /\ UNCHANGED <<cat, chatty, pool, counters, tried, holder, cur, todo, before,
                   got, event, starts>>

\* A new trip.
Depart(r) ==
    /\ At(r, "depart")
    /\ \/ /\ trip[cur[r]] = "idle" /\ Earn(r, "departs")
          /\ trip' = [trip EXCEPT ![cur[r]] = "traveling"]
       \/ Goto(r, "tell") /\ UNCHANGED <<trip, account, did>>
    /\ UNCHANGED <<cat, chatty, pool, counters, tried, holder, cur, todo, before,
                   got, event, starts>>

\* Mutant: a departure is counted as a claim.
BumpWrong(r) ==
    /\ At(r, "bump")
    /\ counters' = [counters EXCEPT ![IF did[r] = "departs" THEN "claims" ELSE did[r]] = @ + 1]
    /\ Goto(r, IF did[r] = "departs" THEN "tell" ELSE "read")
    /\ UNCHANGED <<service, pool, tried, holder, local>>

\* bumpTravel, and refreshCredits when the move earned something.
Bump(r) ==
    /\ At(r, "bump")
    /\ counters' = [counters EXCEPT ![did[r]] = @ + 1]
    /\ Goto(r, IF did[r] = "departs" THEN "tell" ELSE "read")
    /\ UNCHANGED <<service, pool, tried, holder, local>>

\* UserResource: the balance at this moment, or no answer.
ReadBalance(r) ==
    /\ At(r, "read")
    /\ \/ Goto(r, "write") /\ got' = [got EXCEPT ![r] = rev[cur[r]]]
       \/ Lossy /\ UNCHANGED got
          /\ Goto(r, IF Moves(r) THEN "tell" ELSE "next")
    /\ UNCHANGED <<service, pool, counters, tried, holder, cur, todo, before,
                   did, event, starts>>

\* Pool.SetCredits with the balance read before; it may be out of date.
WriteBalance(r) ==
    /\ At(r, "write") /\ Goto(r, IF Moves(r) THEN "tell" ELSE "next")
    /\ shown' = [shown EXCEPT ![cur[r]] = got[r]]
    /\ written' = IF Locks(r) THEN [written EXCEPT ![KindOf[r]][cur[r]] = got[r]] ELSE written
    /\ UNCHANGED <<service, counters, tried, holder, local>>

\* The event for the account, from the counters' growth: adoption first, then
\* claim, then departure; the activity run looks at adoptions only.
Grown(r) == {m \in Move : counters[m] > before[r][m]
                            /\ (Kind(r, "activity") => m = "adopts")}
Tell(r) ==
    /\ At(r, "tell") /\ Goto(r, "next")
    /\ event' = [event EXCEPT ![r] =
                    CASE "adopts" \in Grown(r) -> "adopts"
                      [] "claims" \in Grown(r) \ {"adopts"} -> "claims"
                      [] Grown(r) = {"departs"} -> "departs"
                      [] OTHER -> None]
    /\ UNCHANGED <<service, pool, counters, tried, holder, cur, todo, before, got,
                   did, starts>>

\* At the service a trip ends ...
Arrive(u) ==
    /\ trip[u] = "traveling" /\ trip' = [trip EXCEPT ![u] = "arrived"]
    /\ UNCHANGED <<cat, chatty, account, pool, counters, tried, holder, pc, local>>

\* ... and a chat request costs credits.
Spend(u) ==
    /\ spent[u] < MaxSpends /\ spent' = [spent EXCEPT ![u] = @ + 1]
    /\ rev' = [rev EXCEPT ![u] = @ + 1]
    /\ UNCHANGED <<cat, chatty, trip, paid, rewarded, pool, counters, tried, holder, pc, local>>

Step(r) == \/ Next1(r) \/ Finish(r) \/ Look(r) \/ Report(r) \/ Adopt(r) \/ Claim(r)
           \/ Depart(r) \/ Bump(r) \/ ReadBalance(r) \/ WriteBalance(r) \/ Tell(r)

Next == (\E r \in Run : Start(r) \/ Step(r)) \/ \E u \in Uid : Arrive(u) \/ Spend(u)

Spec == Init /\ [][Next]_vars

-----------------------------------------------------------------------------
\* Types; a mutex is held by the running run of its kind and by no other.
TypeOK ==
    /\ cat \subseteq Uid /\ chatty \subseteq Uid /\ tried \subseteq Uid
    /\ trip \in [Uid -> {"idle", "limit", "traveling", "arrived"}]
    /\ rev \in [Uid -> Nat] /\ spent \in [Uid -> 0 .. MaxSpends] /\ paid \in Nat
    /\ rewarded \in [Uid -> Nat]
    /\ shown \in [Uid -> Nat] /\ written \in [Mutex -> [Uid -> Nat]] /\ got \in [Run -> Nat]
    /\ counters \in [Move -> Nat]
    /\ cur \in [Run -> Uid \cup {None}] /\ todo \in [Run -> SUBSET Uid]
    /\ did \in [Run -> Move \cup {None}] /\ event \in [Run -> Move \cup {None}]
    /\ starts \in 0 .. MaxStarts
    /\ \A r \in Run : Locks(r) => (pc[r] # "idle" <=> holder[KindOf[r]] = r)

\* A run claims only a trip that has arrived and departs only when idle, with
\* nothing between its look and its move: runs of one kind, started by the
\* loop and the panel at any time, never hit the service twice.
SeesFreshTrip ==
    \A r \in Run : /\ At(r, "claim")  => trip[cur[r]] = "arrived"
                   /\ At(r, "depart") => trip[cur[r]] = "idle"

\* No more rewards are counted than the service has paid out, whatever the runs
\* of both kinds count at the same time and whichever answer is lost.
CountersEarned == counters["adopts"] + counters["claims"] <= paid

\* A balance that a run reads and writes later never replaces a newer one of
\* its own kind, although credits are spent and earned all the time and the
\* loop and the panel start runs of a kind at any moment: travel, activity and
\* the refresh of all accounts each keep others of the kind out from before the
\* reading until after the writing.
ReadingsInOrder ==
    [][\A k \in Mutex, u \in Uid : written'[k][u] >= written[k][u]]_vars

Quiet == \A r \in Run : At(r, "idle")

\* travel.go:162: the counters' growth tells what was done for one account.
EventsTruthful == [][\A r \in Run : Tell(r) => event'[r] \in {did[r], None}]_vars

\* travel.go:141: after an adoption or a claim the balance is read back at
\* once, so that the panel shows it (for answers that arrive): once nothing
\* runs, what is shown was read after the last reward.
ShownUpToDate == Quiet => \A u \in Uid : shown[u] >= rewarded[u]
=============================================================================
