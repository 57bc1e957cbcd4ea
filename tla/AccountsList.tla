---------------------------- MODULE AccountsList ----------------------------
(***************************************************************************)
(* The accounts page (webui/src/pages/AccountsPage.tsx): it loads the list *)
(* of accounts every five seconds, whether or not the load before has been *)
(* answered, and runs actions on single accounts and on all of them, each  *)
(* followed by a load of its own.  The list is abstracted to who is in it  *)
(* and a revision, which every change of an account at the server raises.  *)
(***************************************************************************)
EXTENDS Naturals

CONSTANTS Uids,
          RunSlots,    \* actions on single accounts that may be under way
          TimerSlots,  \* loads of the interval that may be under way
          MaxRev,      \* bound: changes at the server
          MaxFailures  \* bound: requests that fail

CONSTANTS Batch, NoUid

ASSUME ListAssumption == /\ NoUid \notin Uids
                         /\ Batch \notin RunSlots /\ RunSlots \cap TimerSlots = {}
                         /\ Batch \notin TimerSlots
                         /\ MaxRev \in Nat /\ MaxFailures \in Nat

AllRuns == RunSlots \cup {Batch}

VARIABLES
  pool,         \* the server's list: revision of each account, who is in it
  list,         \* accounts: the answer applied last
  listState,    \* loading and error of the page
  busyAccount,
  runs,         \* the actions: where they are, whose, the list they led to
  loads,        \* the loads, by what sent them
  failures

listVars == <<pool, list, listState, busyAccount, runs, loads, failures>>

Nothing == [rev |-> 0, in |-> {}]
NoRun   == [at |-> "none", uid |-> NoUid, kind |-> "none", led |-> 0]
NoLoad  == [at |-> "none", got |-> Nothing]

ListInit ==
  /\ pool = [rev |-> 0, in |-> Uids]
  /\ list = Nothing
  /\ listState = [loading |-> TRUE, error |-> FALSE]
  /\ busyAccount = NoUid
  /\ runs = [k \in AllRuns |-> NoRun]
  /\ loads = [x \in AllRuns \cup TimerSlots |->
                IF x = CHOOSE t \in TimerSlots : TRUE
                THEN [NoLoad EXCEPT !.at = "sent"] ELSE NoLoad]
  /\ failures = 0

\* The server's list after a change that takes accounts out or puts them in.
Altered(out, into) ==
  /\ pool.rev < MaxRev
  /\ pool' = [rev |-> pool.rev + 1, in |-> (pool.in \ out) \cup into]

-----------------------------------------------------------------------------
\* The interval of the page, and the dialogs that have added accounts: load().
ListTick(x) ==
  /\ loads[x].at = "none"
  /\ loads' = [loads EXCEPT ![x].at = "sent"]
  /\ UNCHANGED <<pool, list, listState, busyAccount, runs, failures>>

\* The accounts in the rows of the page, and what it offers: the buttons of an
\* account unless the page is busy with that very one, those of all accounts
\* unless a batch is under way.
Rows == IF listState.loading THEN {} ELSE list.in
Offered(u) == u \in Rows /\ busyAccount # u
BatchOffered == list.in # {} /\ runs[Batch].at = "none"

\* runAction, by a button of an account.
RunAction(k, u, kind) ==
  /\ Offered(u) /\ runs[k].at = "none"
  /\ busyAccount' = u
  /\ runs' = [runs EXCEPT ![k] = [NoRun EXCEPT !.at = "sent", !.uid = u, !.kind = kind]]
  /\ UNCHANGED <<pool, list, listState, loads, failures>>

\* runBatch: check in or refresh all accounts.
RunBatch ==
  /\ BatchOffered
  /\ runs' = [runs EXCEPT ![Batch] = [NoRun EXCEPT !.at = "sent", !.kind = "change"]]
  /\ UNCHANGED <<pool, list, listState, busyAccount, loads, failures>>

\* The server does what was asked, or refuses it; what it has done may be lost
\* on the way back.
HandleRun(k) ==
  /\ runs[k].at = "sent"
  /\ \/ /\ k # Batch => runs[k].uid \in pool.in
        /\ Altered(IF runs[k].kind = "remove" THEN {runs[k].uid} ELSE {}, {})
        /\ runs' = [runs EXCEPT ![k].at = "answered", ![k].led = pool'.rev]
     \/ /\ k # Batch /\ UNCHANGED pool
        /\ runs' = [runs EXCEPT ![k].at = "failed"]
  /\ UNCHANGED <<list, listState, busyAccount, loads, failures>>

LoseRun(k) ==
  /\ runs[k].at \in {"sent", "answered"} /\ failures < MaxFailures
  /\ runs' = [runs EXCEPT ![k].at = "failed"]
  /\ failures' = failures + 1
  /\ UNCHANGED <<pool, list, listState, busyAccount, loads>>

\* Mutant: the load of an action is that of the interval, if one is under way.
RunAnsweredSharing(k) ==
  /\ runs[k].at = "answered"
  /\ runs' = [runs EXCEPT ![k].at = "loading"]
  /\ loads' = [loads EXCEPT ![k] =
       IF \E x \in TimerSlots : loads[x].at # "none"
       THEN loads[CHOOSE x \in TimerSlots : loads[x].at # "none"]
       ELSE [NoLoad EXCEPT !.at = "sent"]]
  /\ UNCHANGED <<pool, list, listState, busyAccount, failures>>

\* An action is answered: it waits for a load of its own.
RunAnswered(k) ==
  /\ runs[k].at = "answered"
  /\ runs' = [runs EXCEPT ![k].at = "loading"]
  /\ loads' = [loads EXCEPT ![k].at = "sent"]
  /\ UNCHANGED <<pool, list, listState, busyAccount, failures>>

\* The end of an action frees busyAccount, whichever account that is of by now;
\* that of a batch frees its buttons.
Freed(k) == IF k = Batch THEN busyAccount ELSE NoUid

\* An action that has failed does not load.
RunFailed(k) ==
  /\ runs[k].at = "failed"
  /\ runs' = [runs EXCEPT ![k] = NoRun]
  /\ busyAccount' = Freed(k)
  /\ UNCHANGED <<pool, list, listState, loads, failures>>

HandleLoad(x) ==
  /\ loads[x].at = "sent"
  /\ loads' = [loads EXCEPT ![x] = [at |-> "answered", got |-> pool]]
  /\ UNCHANGED <<pool, list, listState, busyAccount, runs, failures>>

LoseLoad(x) ==
  /\ loads[x].at \in {"sent", "answered"} /\ failures < MaxFailures
  /\ loads' = [loads EXCEPT ![x] = [NoLoad EXCEPT !.at = "failed"]]
  /\ failures' = failures + 1
  /\ UNCHANGED <<pool, list, listState, busyAccount, runs>>

\* A load ends: its answer is shown, whatever was shown before, or its error;
\* the action that waits for it ends with it.
Loaded(x) ==
  /\ loads[x].at \in {"answered", "failed"}
  /\ list' = IF loads[x].at = "answered" THEN loads[x].got ELSE list
  /\ listState' = [loading |-> FALSE, error |-> loads[x].at = "failed"]
  /\ loads' = [loads EXCEPT ![x] = NoLoad]
  /\ IF x \in AllRuns
       THEN runs' = [runs EXCEPT ![x] = NoRun] /\ busyAccount' = Freed(x)
       ELSE UNCHANGED <<runs, busyAccount>>
  /\ UNCHANGED <<pool, failures>>

\* Something else changes an account, or adds it: the scheduler, a request, a
\* dialog, another page.
PoolChange(u) ==
  /\ Altered({}, {u})
  /\ UNCHANGED <<list, listState, busyAccount, runs, loads, failures>>

ListNext ==
  \/ \E x \in TimerSlots : ListTick(x)
  \/ \E k \in RunSlots, u \in Uids, kind \in {"change", "remove"} : RunAction(k, u, kind)
  \/ RunBatch
  \/ \E k \in AllRuns : HandleRun(k) \/ LoseRun(k) \/ RunAnswered(k) \/ RunFailed(k)
  \/ \E x \in AllRuns \cup TimerSlots : HandleLoad(x) \/ LoseLoad(x) \/ Loaded(x)
  \/ \E u \in Uids : PoolChange(u)

-----------------------------------------------------------------------------

(* When an action that succeeded ends and its buttons can be used again, the
   list shows what it led to, or an error of the load: although loads of the
   interval are under way all the time, none of them is taken for the load
   after the action.                                                         *)
ActionShown ==
  [][\A k \in AllRuns :
       runs[k].at = "loading" /\ runs'[k].at = "none" =>
         listState'.error \/ list'.rev >= runs[k].led]_listVars
=============================================================================
