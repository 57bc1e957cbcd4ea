---------------------------- MODULE AccountTasks ----------------------------
(***************************************************************************)
(* The batches that work through a channel's accounts next to the chat     *)
(* requests: keepalive and check-in (internal/scheduler) and the balance   *)
(* refresh (app.RefreshAll).  Each runs on a goroutine of its own - the    *)
(* scheduler's, or that of a panel request - lists the accounts once, and  *)
(* makes its upstream calls without any lock: what it listed or read may   *)
(* be stale when it writes to the pool.                                    *)
(*                                                                         *)
(* Tokens are the subject of TokenLifecycle; of a refresh only its outcome *)
(* matters here.  Chat requests are those of ChatDispatch, reduced to the  *)
(* account picked, its answer and the note of it in the pool: three steps, *)
(* and sticky routing has many requests of one account take them in any    *)
(* order.                                                                  *)
(***************************************************************************)
EXTENDS AccountPool

CONSTANTS
    Task,        \* goroutines that run batches, one after the other
    KindsOf,     \* which: of "keepalive", "checkin" and "refresh"
    Chat         \* attempts of chat requests under way at once

ASSUME TaskConstants ==
    /\ KindsOf \in [Task -> SUBSET {"keepalive", "checkin", "refresh"}]
    /\ IsFiniteSet(Task) /\ IsFiniteSet(Chat) /\ None \notin Uid

VARIABLES
    bal,     \* balance at the service
    kind,    \* what a batch is
    tpc,     \* "idle", "next", "work", "note", "read", "write", "record"
    todo,    \* accounts the batch has listed and not reached
    cur,     \* the account it works on
    got,     \* the balance it read
    asked,   \* the account a chat request has picked
    answer,  \* what that has answered, to be noted: "none", "ok", ...
    deads    \* per account, dead-session answers but for those noted before
             \* the last chat success or automatic disable was (observed)

chatVars == <<asked, answer>>
taskVars == <<bal, kind, tpc, todo, cur, got, chatVars, deads>>
poolVars == vars
allVars  == <<poolVars, taskVars>>

TaskInit ==
    /\ now = 1 /\ up = TRUE /\ saved = TRUE
    /\ files = Uid /\ scans = {}
    /\ mem = [u \in Uid |-> Fresh]
    /\ disk = [u \in Uid |-> None]
    /\ bal \in [Uid -> Credits]
    /\ kind = [t \in Task |-> "keepalive"]
    /\ tpc = [t \in Task |-> "idle"]
    /\ todo = [t \in Task |-> {}]
    /\ cur = [t \in Task |-> None]
    /\ got = [t \in Task |-> 0]
    /\ asked = [c \in Chat |-> None] /\ answer = [c \in Chat |-> "none"]
    /\ deads = [u \in Uid |-> 0]

Goto(t, p) == tpc' = [tpc EXCEPT ![t] = p]

\* The dead-session answers of u that are not noted yet, and how they count:
\* a success noted, or a disable, forgets all but these.
Untold(u) == Cardinality({c \in Chat : asked[c] = u /\ answer[c] = "dead"})
             + Cardinality({t \in Task : tpc[t] = "note" /\ cur[t] = u})
Dead(u)   == deads' = [deads EXCEPT ![u] = @ + 1]
DeadNote(u) ==
    /\ NoteSessionDead(u)
    /\ deads' = IF ReachesDead(u) THEN [deads EXCEPT ![u] = Untold(u) - 1] ELSE deads

-----------------------------------------------------------------------------
\* Pool.List, once: keepalive and check-in drop the accounts disabled now;
\* a check-in may also be of one account (CheckinAccount).
Listed(k) == {u \in Uid : mem[u] # None /\ (k = "refresh" \/ ~mem[u].disabled)}
Start(t) ==
    /\ tpc[t] = "idle" /\ Goto(t, "next")
    /\ \E k \in KindsOf[t] :
          /\ kind' = [kind EXCEPT ![t] = k]
          /\ \/ todo' = [todo EXCEPT ![t] = Listed(k)]
             \/ /\ k = "checkin"
                /\ \E u \in Listed(k) : todo' = [todo EXCEPT ![t] = {u}]
    /\ UNCHANGED <<poolVars, bal, cur, got, chatVars, deads>>

\* Mutant: a batch waits for an account that has left the pool.
NextAccountWaits(t) ==
    /\ tpc[t] = "next" /\ Goto(t, "work")
    /\ \E u \in todo[t] :
          /\ mem[u] # None
          /\ todo' = [todo EXCEPT ![t] = @ \ {u}] /\ cur' = [cur EXCEPT ![t] = u]
    /\ UNCHANGED <<poolVars, kind, bal, got, chatVars, deads>>

\* AuthByUID finds the next account, or the account has left the pool; a
\* check-in records that, too.
NextAccount(t) ==
    /\ tpc[t] = "next"
    /\ \E u \in todo[t] :
          /\ todo' = [todo EXCEPT ![t] = @ \ {u}]
          /\ \/ /\ mem[u] # None /\ Goto(t, "work")
                /\ cur' = [cur EXCEPT ![t] = u] /\ UNCHANGED poolVars
             \/ /\ mem[u] = None /\ UNCHANGED <<tpc, cur>>
                /\ IF kind[t] = "checkin" THEN RecordCheckin ELSE UNCHANGED poolVars
    /\ UNCHANGED <<kind, bal, got, chatVars, deads>>

Finish(t) ==
    /\ tpc[t] = "next" /\ todo[t] = {} /\ Goto(t, "idle")
    /\ cur' = [cur EXCEPT ![t] = None]
    /\ UNCHANGED <<poolVars, kind, bal, todo, got, chatVars, deads>>

\* Mutant: every failed refresh counts as a dead session.
KeepaliveHarsh(t) ==
    /\ tpc[t] = "work" /\ kind[t] = "keepalive"
    /\ \/ Goto(t, "next") /\ UNCHANGED deads
       \/ Goto(t, "note") /\ UNCHANGED deads
       \/ Goto(t, "note") /\ Dead(cur[t])
    /\ UNCHANGED <<poolVars, kind, bal, todo, cur, got, chatVars>>

\* RunKeepaliveNow for one account: a success is not noted in the pool, a
\* failure other than a dead session neither.
KeptAlive(t) ==
    /\ tpc[t] = "work" /\ kind[t] = "keepalive" /\ Goto(t, "next")
    /\ UNCHANGED <<poolVars, kind, bal, todo, cur, got, chatVars, deads>>

Keepalive(t) ==
    \/ KeptAlive(t)
    \/ /\ tpc[t] = "work" /\ kind[t] = "keepalive"
       /\ \/ Goto(t, "next") /\ UNCHANGED deads
          \/ Goto(t, "note") /\ Dead(cur[t])
       /\ UNCHANGED <<poolVars, kind, bal, todo, cur, got, chatVars>>

NoteDead(t) ==
    /\ tpc[t] = "note" /\ Goto(t, "next")
    /\ DeadNote(cur[t])
    /\ UNCHANGED <<kind, bal, todo, cur, got, chatVars>>

\* checkinOne up to the balance: refresh if need be, DailyCheckin, and once
\* more after a refresh if the session is reported dead (not noted).
Checkin(t) ==
    /\ tpc[t] = "work" /\ kind[t] = "checkin"
    /\ \/ Goto(t, "record") /\ UNCHANGED bal
       \/ Goto(t, "read") /\ \E c \in Credits : c >= bal[cur[t]] /\ bal' = [bal EXCEPT ![cur[t]] = c]
    /\ UNCHANGED <<poolVars, kind, todo, cur, got, chatVars, deads>>

\* UserResource, in a check-in or a refresh of balances.
ReadBalance(t) ==
    /\ tpc[t] = "read" \/ (tpc[t] = "work" /\ kind[t] = "refresh")
    /\ \/ got' = [got EXCEPT ![t] = bal[cur[t]]] /\ Goto(t, "write")
       \/ /\ Goto(t, IF kind[t] = "checkin" THEN "record" ELSE "next")
          /\ UNCHANGED got
    /\ UNCHANGED <<poolVars, kind, bal, todo, cur, chatVars, deads>>

\* SetCredits, or ReenableIfCredits, with the balance read before.
WriteBalance(t) ==
    /\ tpc[t] = "write"
    /\ \/ kind[t] = "refresh" /\ SetCredits(cur[t], got[t]) /\ Goto(t, "next")
       \/ kind[t] = "checkin" /\ ReenableIfCredits(cur[t], got[t]) /\ Goto(t, "record")
    /\ got' = [got EXCEPT ![t] = 0]
    /\ UNCHANGED <<kind, bal, todo, cur, chatVars, deads>>

Record(t) ==
    /\ tpc[t] = "record" /\ Goto(t, "next")
    /\ RecordCheckin
    /\ UNCHANGED <<kind, bal, todo, cur, got, chatVars, deads>>

-----------------------------------------------------------------------------
\* A chat request picks a healthy account, ...
ChatPick(c) ==
    /\ asked[c] = None
    /\ \E u \in HealthyUids : asked' = [asked EXCEPT ![c] = u]
    /\ UNCHANGED <<poolVars, kind, bal, tpc, todo, cur, got, answer, deads>>

Answers(c, a) == answer' = [answer EXCEPT ![c] = a]

\* ... is answered, whatever has become of the account meanwhile (the first
\* content of a stream, a failure of the account, or one of the request), ...
ChatAnswer(c) ==
    /\ asked[c] # None /\ answer[c] = "none"
    /\ \/ /\ bal[asked[c]] > 0 /\ Answers(c, "ok") /\ UNCHANGED <<asked, deads>>
          /\ \E n \in Credits : n <= bal[asked[c]] /\ bal' = [bal EXCEPT ![asked[c]] = n]
       \/ Answers(c, "failed") /\ UNCHANGED <<bal, asked, deads>>
       \/ Answers(c, "dead") /\ Dead(asked[c]) /\ UNCHANGED <<bal, asked>>
       \/ asked' = [asked EXCEPT ![c] = None] /\ UNCHANGED <<bal, answer, deads>>
    /\ UNCHANGED <<poolVars, kind, tpc, todo, cur, got>>

\* ... and notes the answer in the pool, in any order with the others.  After
\* a refresh that found the session dead it cools the account as well, unless
\* that was disabled.
Done(c) == asked' = [asked EXCEPT ![c] = None] /\ Answers(c, "none")

ChatNote(c) ==
    /\ asked[c] # None
    /\ \/ answer[c] = "ok" /\ Done(c) /\ NoteSuccess(asked[c])
          /\ deads' = [deads EXCEPT ![asked[c]] = Untold(asked[c])]
       \/ answer[c] = "failed" /\ Done(c) /\ UNCHANGED deads
          /\ (NoteError(asked[c]) \/ \E d \in Cooldowns : Cooldown(asked[c], d))
       \/ answer[c] = "dead" /\ DeadNote(asked[c])
          /\ \/ Done(c)
             \/ ~ReachesDead(asked[c]) /\ Answers(c, "failed") /\ UNCHANGED asked
    /\ UNCHANGED <<kind, bal, tpc, todo, cur, got>>

\* The operator's switch, a removal, and time.
Operator ==
    /\ \/ \E u \in Uid, d \in BOOLEAN : SetDisabled(u, d)
       \/ \E u \in Uid : Remove(u)
       \/ Tick
    /\ UNCHANGED taskVars

Step(t) == \/ NextAccount(t) \/ Finish(t) \/ Keepalive(t) \/ NoteDead(t) \/ Checkin(t)
           \/ ReadBalance(t) \/ WriteBalance(t) \/ Record(t)

TaskNext ==
    \/ \E t \in Task : Start(t) \/ Step(t)
    \/ \E c \in Chat : ChatPick(c) \/ ChatAnswer(c) \/ ChatNote(c)
    \/ Operator

TaskSpec == TaskInit /\ [][TaskNext]_allVars

\* A batch runs on its goroutine; every upstream call has a timeout.
FairTaskSpec == TaskSpec /\ \A t \in Task : WF_allVars(Step(t))

-----------------------------------------------------------------------------
\* Types; the pool's counter of dead sessions, with the answers it has not been
\* told of yet, never runs ahead of the answers that justify it.
TaskTypeOK ==
    /\ TypeOK
    /\ bal \in [Uid -> Credits] /\ got \in [Task -> Credits]
    /\ kind \in [Task -> {"keepalive", "checkin", "refresh"}]
    /\ tpc \in [Task -> {"idle", "next", "work", "note", "read", "write", "record"}]
    /\ todo \in [Task -> SUBSET Uid]
    /\ cur \in [Task -> Uid \cup {None}]
    /\ asked \in [Chat -> Uid \cup {None}]
    /\ answer \in [Chat -> {"none", "ok", "failed", "dead"}]
    /\ \A c \in Chat : asked[c] = None => answer[c] = "none"
    /\ deads \in [Uid -> Nat]
    /\ \A t \in Task : tpc[t] \in {"work", "note", "read", "write", "record"} => cur[t] # None
    /\ \A u \in Uid : mem[u] # None => mem[u].dead + Untold(u) <= deads[u]

\* No account is disabled automatically unless its session was reported dead
\* sessionDeadThreshold times, counting neither what was noted before a success
\* was nor what an earlier disable was for: batches and requests at once, noting
\* in any order, failures of another kind and late notes do not add up to one.
DisabledAfterDeads ==
    [][\A u \in Uid :
          mem[u] # None /\ ~mem[u].disabled /\ mem'[u] # None /\ mem'[u].disabled =>
             SetDisabled(u, TRUE) \/ deads[u] >= DeadThreshold]_allVars

\* Every batch ends, whichever accounts are disabled or removed meanwhile.
BatchesEnd == \A t \in Task : tpc[t] # "idle" ~> tpc[t] = "idle"

\* pool.go:64 counts dead answers in a row: a keepalive that finds the session
\* alive would break the row.
AliveBreaksRow ==
    [][\A t \in Task :
          KeptAlive(t) => mem'[cur[t]] = None \/ mem'[cur[t]].dead = 0]_allVars
=============================================================================
