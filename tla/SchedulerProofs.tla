--------------------------- MODULE SchedulerProofs --------------------------
(***************************************************************************)
(* Theorems about the scheduler: its loop, for any day, slots and changes, *)
(* and the batches it runs, for any number of them, accounts and           *)
(* thresholds.                                                             *)
(***************************************************************************)
EXTENDS AccountTasks, SchedulerLoop, AccountPoolProofs, FiniteSetTheorems

-----------------------------------------------------------------------------
\* The loop: while it waits, the timer is what is missing to the slot's minute,
\* and the slot has come when the timer is ready, unless the configuration has
\* changed and will wake the loop.
InDay(n) == IF n < Day THEN n ELSE n - Day
OnTime ==
  /\ left \in 0 .. Day /\ next.min = InDay(minute + left)
  /\ left = 0 => next \in due
  /\ ~wake => next \in Slots(checkin)
LoopInv ==
  /\ minute \in Minute /\ wake \in BOOLEAN
  /\ pc = "wait" /\ next # NoSlot /\ next.min \in Minute => OnTime

LEMMA DayLength == Day \in Nat \ {0}
BY SchedulerConstants DEF Day

LEMMA LoopStarts == LoopInit => LoopInv
<1>1. 0 \in Minute
  BY DayLength DEF Minute
<1>. QED BY <1>1, Zenon DEF LoopInit, LoopInv

LEMMA LoopKeeps == LoopInv /\ [LoopNext]_loopVars => LoopInv'
<1>. SUFFICES ASSUME LoopInv, [LoopNext]_loopVars PROVE LoopInv'
  OBVIOUS
<1>. USE DayLength
<1>1. CASE Plan
  <2>1. minute' = minute /\ wake' = wake /\ checkin' = checkin
    BY <1>1 DEF Plan
  <2>2. ASSUME next' # NoSlot, next'.min \in Minute PROVE OnTime'
    <3>1. next' \in Slots(checkin) /\ left' = Until(next'.min)
      BY <1>1, <2>2 DEF Plan, Nearest
    <3>2. left' \in 1 .. Day /\ next'.min = InDay(minute + left')
      BY <2>2, <3>1 DEF Until, InDay, LoopInv, Minute
    <3>3. next' \in Slots(checkin)'
      BY <2>1, <3>1 DEF Slots, ScheduleAll
    <3>. QED BY <2>1, <3>2, <3>3 DEF OnTime, InDay
  <2>. QED BY <2>1, <2>2 DEF LoopInv
<1>2. CASE MinutePasses
  <2>1. minute' \in Minute /\ minute' = InDay(minute + 1)
    BY <1>2 DEF MinutePasses, LoopInv, Minute, InDay
  <2>2. wake' = wake /\ checkin' = checkin /\ next' = next /\ pc' = pc
    BY <1>2 DEF MinutePasses
  <2>3. ASSUME pc = "wait", next # NoSlot, next.min \in Minute PROVE OnTime'
    <3>1. OnTime /\ ~wake /\ left > 0 /\ left' = left - 1
      BY <1>2, <2>3 DEF MinutePasses, LoopInv
    <3>2. left' \in 0 .. Day /\ next.min = InDay(minute' + left')
      BY <2>1, <3>1 DEF OnTime, InDay, LoopInv, Minute
    <3>3. left' = 0 => next.min = minute'
      BY <2>1, <3>2 DEF InDay, Minute
    <3>4. next \in Slots(checkin)
      BY <3>1 DEF OnTime
    <3>5. left' = 0 => next \in due'
      BY <1>2, <3>3, <3>4 DEF MinutePasses
    <3>6. next \in Slots(checkin)'
      BY <2>2, <3>4 DEF Slots, ScheduleAll
    <3>. QED BY <2>2, <3>2, <3>5, <3>6 DEF OnTime, InDay
  <2>. QED BY <2>1, <2>2, <2>3 DEF LoopInv
<1>3. ASSUME NEW ch \in CheckinSets, SetCheckinMinutes(ch) PROVE LoopInv'
  BY <1>3 DEF SetCheckinMinutes, LoopInv, OnTime, InDay
<1>4. CASE Fire \/ Wake \/ TaskDone
  <2>1. pc' # "wait" /\ minute' = minute /\ wake' \in BOOLEAN
    BY <1>4 DEF Fire, Wake, TaskDone, LoopInv
  <2>. QED BY <2>1 DEF LoopInv
<1>5. CASE UNCHANGED loopVars
  BY <1>5 DEF loopVars, LoopInv, OnTime, InDay, Slots, ScheduleAll
<1>. QED BY <1>1, <1>2, <1>3, <1>4, <1>5 DEF LoopNext

(* Whatever changes of the configuration wake the loop and however often it plans
   again, a slot of the day runs in its minute, once for each coming of it
   (scheduler.go, Run and nextFireMinutes).                                   *)
THEOREM SlotsOnTime == LoopSpec => OncePerDay
<1>1. LoopInv /\ [LoopNext]_loopVars =>
        [Fire /\ next.min \in Minute => next.min = minute /\ next \in due]_loopVars
  <2>. SUFFICES ASSUME LoopInv, Fire, next.min \in Minute
                PROVE  next.min = minute /\ next \in due
    OBVIOUS
  <2>1. OnTime /\ left = 0
    BY DEF Fire, LoopInv
  <2>. QED BY <2>1, DayLength DEF OnTime, InDay, LoopInv, Minute
<1>. QED BY <1>1, LoopStarts, LoopKeeps, PTL DEF LoopSpec, OncePerDay

-----------------------------------------------------------------------------
\* The batches: every step is one of the pool, or leaves it alone.
LEMMA TasksArePool ==
  ASSUME TaskTypeOK, [TaskNext]_allVars
  PROVE  [Next]_vars
<1>1. ASSUME NEW t \in Task, Start(t) \/ Step(t) PROVE [Next]_vars
  <2>1. CASE WriteBalance(t)
    <3>1. cur[t] \in Uid /\ got[t] \in Credits
      BY <2>1 DEF WriteBalance, TaskTypeOK
    <3>2. AccountOp(cur[t])
      BY <2>1, <3>1 DEF WriteBalance, AccountOp
    <3>. QED BY <3>1, <3>2 DEF Next
  <2>2. CASE NoteDead(t)
    <3>1. cur[t] \in Uid
      BY <2>2 DEF NoteDead, TaskTypeOK
    <3>. QED BY <2>2, <3>1 DEF NoteDead, DeadNote, Next, AccountOp
  <2>3. CASE \/ Start(t) \/ NextAccount(t) \/ Finish(t) \/ Keepalive(t) \/ Checkin(t)
             \/ ReadBalance(t) \/ Record(t)
    BY <2>3 DEF Start, NextAccount, Finish, Keepalive, KeptAlive, Checkin, ReadBalance,
                Record, poolVars, Next
  <2>. QED BY <1>1, <2>1, <2>2, <2>3 DEF Step
<1>2. ASSUME NEW c \in Chat, ChatPick(c) \/ ChatAnswer(c) \/ ChatNote(c) PROVE [Next]_vars
  <2>1. CASE ChatPick(c) \/ ChatAnswer(c)
    BY <2>1 DEF ChatPick, ChatAnswer, poolVars
  <2>2. CASE ChatNote(c)
    <3>1. asked[c] \in Uid
      BY <2>2 DEF ChatNote, TaskTypeOK
    <3>2. AccountOp(asked[c])
      BY <2>2 DEF ChatNote, DeadNote, AccountOp
    <3>. QED BY <3>1, <3>2 DEF Next
  <2>. QED BY <1>2, <2>1, <2>2
<1>3. CASE Operator
  BY <1>3 DEF Operator, Next, AccountOp
<1>4. CASE UNCHANGED allVars
  BY <1>4 DEF allVars, poolVars
<1>. QED BY <1>1, <1>2, <1>3, <1>4 DEF TaskNext

\* What a step does to the pool's count of dead sessions and to disabling: only
\* a dead session that is noted counts one more, only that or the operator
\* disables.
KeepsDead(u) == mem'[u] # None => mem[u] # None /\ mem'[u].dead <= mem[u].dead
KeepsAble(u) ==
  mem[u] # None /\ ~mem[u].disabled /\ mem'[u] # None /\ mem'[u].disabled =>
     SetDisabled(u, TRUE)

LEMMA UpdateKeeps ==
  ASSUME TypeOK, NEW u \in Uid, NEW e, Update(u, e),
         mem[u] # None => e.dead <= mem[u].dead /\ (e.disabled => mem[u].disabled),
         NEW v \in Uid
  PROVE  KeepsDead(v) /\ KeepsAble(v)
<1>1. mem \in [Uid -> Entry \cup {None}]
  BY DEF TypeOK
<1>2. mem'[v] = mem[v] \/ (v = u /\ mem[u] # None /\ mem'[v] = e)
  BY <1>1 DEF Update
<1>3. mem[v] # None => mem[v].dead \in Nat
  BY <1>1 DEF Entry
<1>4. KeepsDead(v)
  BY <1>2, <1>3 DEF KeepsDead
<1>5. KeepsAble(v)
  BY <1>2, Zenon DEF KeepsAble
<1>. QED BY <1>4, <1>5

LEMMA SameKeeps ==
  ASSUME TypeOK, NEW v \in Uid, mem'[v] = mem[v] \/ mem'[v] = None
  PROVE  KeepsDead(v) /\ KeepsAble(v)
<1>1. mem[v] # None => mem[v].dead \in Nat
  BY DEF TypeOK, Entry
<1>2. KeepsDead(v)
  BY <1>1 DEF KeepsDead
<1>3. KeepsAble(v)
  BY Zenon DEF KeepsAble
<1>. QED BY <1>2, <1>3

LEMMA OthersKeep ==
  ASSUME TypeOK, NEW u \in Uid, NEW v \in Uid,
         \/ \E c \in Credits : SetCredits(u, c) \/ ReenableIfCredits(u, c)
         \/ \E d \in Cooldowns : Cooldown(u, d)
         \/ \E d \in BOOLEAN : SetDisabled(u, d)
         \/ NoteSuccess(u) \/ NoteError(u) \/ Remove(u) \/ Tick \/ RecordCheckin \/ UNCHANGED vars
  PROVE  KeepsDead(v) /\ KeepsAble(v)
<1>0. mem \in [Uid -> Entry \cup {None}]
  BY DEF TypeOK
<1>1. ASSUME mem[u] # None PROVE mem[u] \in Entry /\ mem[u].dead \in Nat
  BY <1>0, <1>1 DEF Entry
<1>2. ASSUME NEW c \in Credits, SetCredits(u, c) \/ ReenableIfCredits(u, c)
      PROVE  KeepsDead(v) /\ KeepsAble(v)
  <2>1. CASE SetCredits(u, c)
    <3>. DEFINE e == [mem[u] EXCEPT !.credits = c]
    <3>1. mem[u] # None => e.dead = mem[u].dead /\ e.disabled = mem[u].disabled
      BY <1>1 DEF Entry
    <3>2. Update(u, e)
      BY <2>1 DEF SetCredits
    <3>. HIDE DEF e
    <3>. QED BY <1>1, <3>1, <3>2, UpdateKeeps
  <2>2. CASE ReenableIfCredits(u, c)
    <3>. DEFINE e == IF c > 0 /\ ~mem[u].disabled
                     THEN [mem[u] EXCEPT !.credits = c, !.until = 0, !.errCount = 0]
                     ELSE [mem[u] EXCEPT !.credits = c]
    <3>1. mem[u] # None => e.dead = mem[u].dead /\ e.disabled = mem[u].disabled
      BY <1>1 DEF Entry
    <3>2. Update(u, e)
      BY <2>2 DEF ReenableIfCredits
    <3>. HIDE DEF e
    <3>. QED BY <1>1, <3>1, <3>2, UpdateKeeps
  <2>. QED BY <1>2, <2>1, <2>2
<1>3. ASSUME NEW d \in Cooldowns, Cooldown(u, d) PROVE KeepsDead(v) /\ KeepsAble(v)
  <2>. DEFINE e == [mem[u] EXCEPT !.until = now + d, !.errCount = 0]
  <2>1. mem[u] # None => e.dead = mem[u].dead /\ e.disabled = mem[u].disabled
    BY <1>1 DEF Entry
  <2>2. Update(u, e)
    BY <1>3 DEF Cooldown
  <2>. HIDE DEF e
  <2>. QED BY <1>1, <2>1, <2>2, UpdateKeeps
<1>4. ASSUME NEW d \in BOOLEAN, SetDisabled(u, d) PROVE KeepsDead(v) /\ KeepsAble(v)
  <2>. DEFINE e == [mem[u] EXCEPT !.disabled = d]
  <2>1. mem[u] # None => e.dead = mem[u].dead /\ e.disabled = d
    BY <1>1 DEF Entry
  <2>2. mem'[v] = mem[v] \/ (v = u /\ mem[u] # None /\ mem'[v] = e)
    BY <1>0, <1>4 DEF SetDisabled, Update
  <2>3. mem[v] # None => mem[v].dead \in Nat
    BY <1>0 DEF Entry
  <2>4. CASE mem'[v] = mem[v]
    BY <2>4, SameKeeps
  <2>5. CASE v = u /\ mem[u] # None /\ mem'[v] = e
    <3>1. mem'[v].disabled => d = TRUE
      BY <2>1, <2>5, Zenon
    <3>2. KeepsAble(v)
      BY <1>4, <2>5, <3>1 DEF KeepsAble
    <3>3. KeepsDead(v)
      BY <2>1, <2>3, <2>5 DEF KeepsDead
    <3>. QED BY <3>2, <3>3
  <2>. QED BY <2>2, <2>4, <2>5
<1>5. CASE NoteSuccess(u)
  <2>. DEFINE e == [mem[u] EXCEPT !.errCount = 0, !.dead = 0]
  <2>1. mem[u] # None => e.dead = 0 /\ e.disabled = mem[u].disabled
    BY <1>1 DEF Entry
  <2>2. Update(u, e)
    BY <1>5 DEF NoteSuccess
  <2>. HIDE DEF e
  <2>. QED BY <1>1, <2>1, <2>2, UpdateKeeps
<1>6. CASE Remove(u)
  <2>1. mem'[v] = None \/ mem'[v] = mem[v]
    BY <1>0, <1>6 DEF Remove
  <2>. QED BY <2>1, SameKeeps
<1>7. CASE Tick \/ RecordCheckin \/ UNCHANGED vars
  <2>1. mem' = mem
    BY <1>7 DEF Tick, RecordCheckin, vars
  <2>. QED BY <2>1, SameKeeps
<1>8. CASE NoteError(u)
  <2>. DEFINE e == IF mem[u].errCount + 1 >= Threshold
                   THEN [mem[u] EXCEPT !.until = now + ErrCooldown, !.errCount = 0]
                   ELSE [mem[u] EXCEPT !.errCount = @ + 1]
  <2>1. mem[u] # None => e.dead = mem[u].dead /\ e.disabled = mem[u].disabled
    BY <1>1 DEF Entry
  <2>2. Update(u, e)
    BY <1>8 DEF NoteError
  <2>. HIDE DEF e
  <2>. QED BY <1>1, <2>1, <2>2, UpdateKeeps
<1>. QED BY <1>2, <1>3, <1>4, <1>5, <1>6, <1>7, <1>8

\* A dead session noted counts one more, or disables when it reaches the limit.
LEMMA DeadNoted ==
  ASSUME TypeOK, NEW u \in Uid, NoteSessionDead(u), NEW v \in Uid
  PROVE  \/ v # u /\ mem'[v] = mem[v]
         \/ mem[v] = None /\ mem'[v] = None
         \/ /\ v = u /\ mem[v] # None /\ mem'[v] # None /\ mem[v].dead \in Nat
            /\ \/ mem'[v].dead = 0 /\ mem[v].dead + 1 >= DeadThreshold
               \/ /\ mem'[v].dead = mem[v].dead + 1 /\ mem[v].dead + 1 < DeadThreshold
                  /\ mem'[v].disabled = mem[v].disabled
<1>0. mem \in [Uid -> Entry \cup {None}] /\ None \notin Entry /\ DeadThreshold \in Nat
  BY PoolConstants, NoneIsNoEntry DEF TypeOK
<1>1. CASE v # u \/ mem[u] = None
  BY <1>0, <1>1 DEF NoteSessionDead, Update
<1>2. CASE v = u /\ mem[u] # None
  <2>1. mem[u] \in Entry /\ mem[u].dead \in Nat
    BY <1>0, <1>2 DEF Entry
  <2>2. CASE ReachesDead(u)
    <3>1. mem'[u] = [mem[u] EXCEPT !.disabled = TRUE, !.dead = 0]
      BY <1>0, <1>2, <2>2 DEF NoteSessionDead, Update
    <3>2. mem'[u].dead = 0
      BY <2>1, <3>1 DEF Entry
    <3>. DEFINE off == [mem[u] EXCEPT !.disabled = TRUE]
    <3>3. off \in Entry
      BY <2>1 DEF Entry
    <3>4. [off EXCEPT !.dead = 0] \in Entry
      <4>. HIDE DEF off
      <4>. QED BY <3>3 DEF Entry
    <3>5. mem'[u] \in Entry
      BY <3>1, <3>4
    <3>. QED BY <1>0, <1>2, <2>1, <2>2, <3>2, <3>5 DEF ReachesDead
  <2>3. CASE ~ReachesDead(u)
    <3>1. mem'[u] = [mem[u] EXCEPT !.dead = @ + 1]
      BY <1>0, <1>2, <2>3 DEF NoteSessionDead, Update
    <3>2. mem'[u] \in Entry /\ mem'[u].dead = mem[u].dead + 1 /\ mem'[u].disabled = mem[u].disabled
      BY <2>1, <3>1 DEF Entry
    <3>. QED BY <1>0, <1>2, <2>1, <2>3, <3>2 DEF ReachesDead
  <2>. QED BY <2>2, <2>3
<1>. QED BY <1>1, <1>2

\* The dead answers not noted: which steps add one, take one, or keep them.
Waiting(u) == {c \in Chat : asked[c] = u /\ answer[c] = "dead"}
Noting(u)  == {t \in Task : tpc[t] = "note" /\ cur[t] = u}

LEMMA UntoldIs ==
  ASSUME NEW u
  PROVE  /\ IsFiniteSet(Waiting(u)) /\ Cardinality(Waiting(u)) \in Nat
         /\ IsFiniteSet(Noting(u)) /\ Cardinality(Noting(u)) \in Nat
         /\ Untold(u) = Cardinality(Waiting(u)) + Cardinality(Noting(u))
         /\ Untold(u) \in Nat
<1>1. IsFiniteSet(Waiting(u)) /\ IsFiniteSet(Noting(u))
  BY TaskConstants, FS_Subset DEF Waiting, Noting
<1>2. Cardinality(Waiting(u)) \in Nat /\ Cardinality(Noting(u)) \in Nat
  BY <1>1, FS_CardinalityType
<1>3. Untold(u) = Cardinality(Waiting(u)) + Cardinality(Noting(u))
  BY DEF Untold, Waiting, Noting
<1>. QED BY <1>1, <1>2, <1>3

LEMMA UntoldSame ==
  ASSUME NEW v,
         \A c \in Chat : (asked'[c] = v /\ answer'[c] = "dead") <=> (asked[c] = v /\ answer[c] = "dead"),
         \A t \in Task : (tpc'[t] = "note" /\ cur'[t] = v) <=> (tpc[t] = "note" /\ cur[t] = v)
  PROVE  Untold(v)' = Untold(v)
<1>1. /\ {c \in Chat : asked'[c] = v /\ answer'[c] = "dead"} = {c \in Chat : asked[c] = v /\ answer[c] = "dead"}
      /\ {t \in Task : tpc'[t] = "note" /\ cur'[t] = v} = {t \in Task : tpc[t] = "note" /\ cur[t] = v}
  OBVIOUS
<1>. QED BY <1>1 DEF Untold

LEMMA UntoldMore ==
  ASSUME NEW v,
         \/ \E c \in Chat \ Waiting(v) : Waiting(v)' = Waiting(v) \cup {c} /\ Noting(v)' = Noting(v)
         \/ \E t \in Task \ Noting(v) : Noting(v)' = Noting(v) \cup {t} /\ Waiting(v)' = Waiting(v)
  PROVE  Untold(v)' = Untold(v) + 1
<1>1. Untold(v)' = Cardinality(Waiting(v)') + Cardinality(Noting(v)')
  BY DEF Untold, Waiting, Noting
<1>2. ASSUME NEW S, IsFiniteSet(S), NEW x, x \notin S
      PROVE  Cardinality(S \cup {x}) = Cardinality(S) + 1
  BY <1>2, FS_AddElement
<1>3. Cardinality(Waiting(v)) \in Nat /\ Cardinality(Noting(v)) \in Nat
      /\ Untold(v) = Cardinality(Waiting(v)) + Cardinality(Noting(v))
  BY UntoldIs
<1>4. CASE \E c \in Chat \ Waiting(v) : Waiting(v)' = Waiting(v) \cup {c} /\ Noting(v)' = Noting(v)
  BY <1>1, <1>2, <1>3, <1>4, UntoldIs
<1>5. CASE \E t \in Task \ Noting(v) : Noting(v)' = Noting(v) \cup {t} /\ Waiting(v)' = Waiting(v)
  BY <1>1, <1>2, <1>3, <1>5, UntoldIs
<1>. QED BY <1>4, <1>5

LEMMA UntoldLess ==
  ASSUME NEW v,
         \/ \E c \in Waiting(v) : Waiting(v)' = Waiting(v) \ {c} /\ Noting(v)' = Noting(v)
         \/ \E t \in Noting(v) : Noting(v)' = Noting(v) \ {t} /\ Waiting(v)' = Waiting(v)
  PROVE  Untold(v)' = Untold(v) - 1 /\ Untold(v) >= 1
<1>1. Untold(v)' = Cardinality(Waiting(v)') + Cardinality(Noting(v)')
  BY DEF Untold, Waiting, Noting
<1>2. ASSUME NEW S, IsFiniteSet(S), NEW x \in S
      PROVE  Cardinality(S \ {x}) = Cardinality(S) - 1 /\ Cardinality(S) >= 1
  <2>1. Cardinality(S \ {x}) = Cardinality(S) - 1 /\ Cardinality(S) \in Nat
    BY <1>2, FS_RemoveElement, FS_CardinalityType
  <2>2. Cardinality(S \ {x}) \in Nat
    BY <1>2, FS_RemoveElement, FS_CardinalityType
  <2>. QED BY <2>1, <2>2
<1>3. Cardinality(Waiting(v)) \in Nat /\ Cardinality(Noting(v)) \in Nat
      /\ Untold(v) = Cardinality(Waiting(v)) + Cardinality(Noting(v))
  BY UntoldIs
<1>4. CASE \E c \in Waiting(v) : Waiting(v)' = Waiting(v) \ {c} /\ Noting(v)' = Noting(v)
  BY <1>1, <1>2, <1>3, <1>4, UntoldIs
<1>5. CASE \E t \in Noting(v) : Noting(v)' = Noting(v) \ {t} /\ Waiting(v)' = Waiting(v)
  BY <1>1, <1>2, <1>3, <1>5, UntoldIs
<1>. QED BY <1>4, <1>5

\* The steps that change what is not noted, one by one.
LEMMA KeepaliveTold ==
  ASSUME TaskTypeOK, NEW t \in Task, tpc[t] = "work", Goto(t, "note"), Dead(cur[t]),
         UNCHANGED <<cur, chatVars>>, NEW v \in Uid
  PROVE  /\ deads'[v] = IF v = cur[t] THEN deads[v] + 1 ELSE deads[v]
         /\ Untold(v)' = IF v = cur[t] THEN Untold(v) + 1 ELSE Untold(v)
<1>1. deads'[v] = IF v = cur[t] THEN deads[v] + 1 ELSE deads[v]
  BY DEF Dead, TaskTypeOK
<1>2. \A r \in Task : tpc'[r] = IF r = t THEN "note" ELSE tpc[r]
  BY DEF Goto, TaskTypeOK
<1>3. Waiting(v)' = Waiting(v)
  BY DEF Waiting, chatVars
<1>4. CASE v = cur[t]
  <2>1. t \in Task \ Noting(v) /\ Noting(v)' = Noting(v) \cup {t}
    BY <1>2, <1>4 DEF Noting
  <2>. QED BY <1>1, <1>3, <1>4, <2>1, UntoldMore
<1>5. CASE v # cur[t]
  BY <1>1, <1>2, <1>5, UntoldSame DEF chatVars
<1>. QED BY <1>4, <1>5

LEMMA KeepaliveNoted ==
  ASSUME TaskTypeOK, NEW t \in Task, tpc[t] = "note", Goto(t, "next"),
         UNCHANGED <<cur, chatVars>>, NEW v \in Uid
  PROVE  IF v = cur[t] THEN Untold(v)' = Untold(v) - 1 /\ Untold(v) >= 1
                       ELSE Untold(v)' = Untold(v)
<1>2. \A r \in Task : tpc'[r] = IF r = t THEN "next" ELSE tpc[r]
  BY DEF Goto, TaskTypeOK
<1>3. Waiting(v)' = Waiting(v)
  BY DEF Waiting, chatVars
<1>4. CASE v = cur[t]
  <2>1. t \in Noting(v) /\ Noting(v)' = Noting(v) \ {t}
    BY <1>2, <1>4 DEF Noting
  <2>. QED BY <1>3, <1>4, <2>1, UntoldLess
<1>5. CASE v # cur[t]
  BY <1>2, <1>5, UntoldSame DEF chatVars
<1>. QED BY <1>4, <1>5

LEMMA ChatTold ==
  ASSUME TaskTypeOK, NEW c \in Chat, answer[c] = "none", Answers(c, "dead"), Dead(asked[c]),
         UNCHANGED <<asked, tpc, cur>>, NEW v \in Uid
  PROVE  /\ deads'[v] = IF v = asked[c] THEN deads[v] + 1 ELSE deads[v]
         /\ Untold(v)' = IF v = asked[c] THEN Untold(v) + 1 ELSE Untold(v)
<1>1. deads'[v] = IF v = asked[c] THEN deads[v] + 1 ELSE deads[v]
  BY DEF Dead, TaskTypeOK
<1>2. \A d \in Chat : answer'[d] = IF d = c THEN "dead" ELSE answer[d]
  BY DEF Answers, TaskTypeOK
<1>3. Noting(v)' = Noting(v)
  BY DEF Noting
<1>4. CASE v = asked[c]
  <2>1. c \in Chat \ Waiting(v) /\ Waiting(v)' = Waiting(v) \cup {c}
    BY <1>2, <1>4 DEF Waiting
  <2>. QED BY <1>1, <1>3, <1>4, <2>1, UntoldMore
<1>5. CASE v # asked[c]
  BY <1>1, <1>2, <1>5, UntoldSame
<1>. QED BY <1>4, <1>5

LEMMA ChatNoted ==
  ASSUME TaskTypeOK, NEW c \in Chat, answer[c] = "dead", NEW a \in {"none", "failed"},
         Answers(c, a), asked' = asked \/ asked' = [asked EXCEPT ![c] = None],
         UNCHANGED <<tpc, cur>>, NEW v \in Uid
  PROVE  IF v = asked[c] THEN Untold(v)' = Untold(v) - 1 /\ Untold(v) >= 1
                         ELSE Untold(v)' = Untold(v)
<1>2. \A d \in Chat : answer'[d] = IF d = c THEN a ELSE answer[d]
  BY DEF Answers, TaskTypeOK
<1>3. Noting(v)' = Noting(v) /\ \A d \in Chat \ {c} : asked'[d] = asked[d]
  BY DEF Noting, TaskTypeOK
<1>4. CASE v = asked[c]
  <2>1. c \in Waiting(v) /\ Waiting(v)' = Waiting(v) \ {c}
    BY <1>2, <1>3, <1>4 DEF Waiting
  <2>. QED BY <1>3, <1>4, <2>1, UntoldLess
<1>5. CASE v # asked[c]
  BY <1>2, <1>3, <1>5, UntoldSame
<1>. QED BY <1>4, <1>5

LEMMA ChatQuiet ==
  ASSUME TaskTypeOK, NEW c \in Chat, answer[c] # "dead", answer'[c] # "dead",
         \A d \in Chat \ {c} : asked'[d] = asked[d] /\ answer'[d] = answer[d],
         UNCHANGED <<tpc, cur>>, NEW v \in Uid
  PROVE  Untold(v)' = Untold(v)
BY UntoldSame

-----------------------------------------------------------------------------
TaskTypes ==
  /\ bal \in [Uid -> Credits] /\ got \in [Task -> Credits]
  /\ kind \in [Task -> {"keepalive", "checkin", "refresh"}]
  /\ tpc \in [Task -> {"idle", "next", "work", "note", "read", "write", "record"}]
  /\ todo \in [Task -> SUBSET Uid]
  /\ cur \in [Task -> Uid \cup {None}]
  /\ asked \in [Chat -> Uid \cup {None}]
  /\ answer \in [Chat -> {"none", "ok", "failed", "dead"}]
  /\ \A c \in Chat : asked[c] = None => answer[c] = "none"
  /\ deads \in [Uid -> Nat]
  /\ \A t \in Task : tpc[t] \in {"work", "note", "read", "write", "record"} => cur[t] # None
Counted(u) == mem[u] # None => mem[u].dead + Untold(u) <= deads[u]

\* The count is never ahead of the answers: what is not noted yet is counted
\* already, and what is forgotten leaves the answers that are not noted.
LEMMA TasksStart == TaskInit => TaskTypeOK
<1>. SUFFICES ASSUME TaskInit PROVE TaskTypeOK
  OBVIOUS
<1>1. \A u \in Uid : mem[u] = Fresh /\ disk[u] = None /\ deads[u] = 0
  BY DEF TaskInit
<1>2. TypeOK
  <2>1. mem \in [Uid -> Entry \cup {None}] /\ disk \in [Uid -> Saved \cup {None}]
    BY FreshType DEF TaskInit
  <2>2. now \in Nat /\ files \in SUBSET Uid /\ scans \in SUBSET SUBSET Uid
        /\ up \in BOOLEAN /\ saved \in BOOLEAN
    BY Zenon DEF TaskInit
  <2>3. \A u \in Uid : mem[u].errCount < Threshold /\ mem[u].dead < DeadThreshold
    BY <1>1, FreshType, PoolConstants
  <2>. QED BY <2>1, <2>2, <2>3 DEF TypeOK
<1>3. \A u \in Uid : mem[u].dead + Untold(u) <= deads[u]
  <2>1. ASSUME NEW u \in Uid PROVE Untold(u) = 0
    <3>1. Waiting(u) = {} /\ Noting(u) = {}
      BY DEF Waiting, Noting, TaskInit
    <3>. QED BY <3>1, UntoldIs, FS_EmptySet
  <2>. QED BY <1>1, <2>1, FreshType
<1>4. deads \in [Uid -> Nat] /\ got \in [Task -> Credits]
  BY PoolConstants DEF TaskInit
<1>. QED BY <1>2, <1>3, <1>4 DEF TaskInit, TaskTypeOK

\* What DeadNote leaves of the count is a number: one answer is noted by it.
LEMMA NoteCounts ==
  ASSUME TaskTypeOK, NEW u \in Uid, DeadNote(u), Untold(u) >= 1
  PROVE  /\ deads' \in [Uid -> Nat]
         /\ \A v \in Uid : deads'[v] = IF v = u /\ ReachesDead(u) THEN Untold(u) - 1 ELSE deads[v]
<1>1. deads \in [Uid -> Nat] /\ Untold(u) - 1 \in Nat
  BY UntoldIs DEF TaskTypeOK
<1>. HIDE DEF Untold
<1>. QED BY <1>1 DEF DeadNote

LEMMA BatchTypes ==
  ASSUME TaskTypeOK, NEW t \in Task, Start(t) \/ Step(t) PROVE TaskTypes'
<1>. USE DEF TaskTypeOK, TaskTypes, Goto, chatVars
<1>0. Uid \subseteq Uid \cup {None} /\ None \in Uid \cup {None} /\ 0 \in Credits
  BY PoolConstants
<1>1. CASE Start(t)
  <2>1. PICK k \in KindsOf[t] :
           /\ kind' = [kind EXCEPT ![t] = k]
           /\ \/ todo' = [todo EXCEPT ![t] = Listed(k)]
              \/ \E u \in Listed(k) : todo' = [todo EXCEPT ![t] = {u}]
    BY <1>1 DEF Start
  <2>2. kind' \in [Task -> {"keepalive", "checkin", "refresh"}]
    BY <2>1, TaskConstants
  <2>3. tpc' = [tpc EXCEPT ![t] = "next"] /\ UNCHANGED <<bal, cur, got, asked, answer, deads>>
    BY <1>1 DEF Start
  <2>4. todo' \in [Task -> SUBSET Uid]
    BY <2>1 DEF Listed
  <2>. QED BY <2>2, <2>3, <2>4
<1>2. CASE NextAccount(t)
  <2>1. PICK u \in todo[t] : /\ todo' = [todo EXCEPT ![t] = @ \ {u}]
                             /\ \/ Goto(t, "work") /\ cur' = [cur EXCEPT ![t] = u]
                                \/ UNCHANGED <<tpc, cur>>
    BY <1>2 DEF NextAccount
  <2>2. u \in Uid /\ u # None
    BY TaskConstants
  <2>3. todo' \in [Task -> SUBSET Uid]
    BY <2>1
  <2>4. /\ tpc' \in [Task -> {"idle", "next", "work", "note", "read", "write", "record"}]
        /\ cur' \in [Task -> Uid \cup {None}]
        /\ \A r \in Task : tpc'[r] \in {"work", "note", "read", "write", "record"} => cur'[r] # None
    BY <2>1, <2>2
  <2>5. UNCHANGED <<kind, bal, got, chatVars, deads>>
    BY <1>2 DEF NextAccount
  <2>. QED BY <2>3, <2>4, <2>5
<1>3. CASE Finish(t)
  BY <1>3 DEF Finish
<1>4. CASE Keepalive(t)
  <2>1. cur[t] \in Uid
    BY <1>4 DEF Keepalive, KeptAlive
  <2>2. deads' \in [Uid -> Nat]
    BY <1>4, <2>1 DEF Keepalive, KeptAlive, Dead
  <2>. QED BY <1>4, <2>2 DEF Keepalive, KeptAlive
<1>5. CASE NoteDead(t)
  <2>1. cur[t] \in Uid
    BY <1>5 DEF NoteDead
  <2>2. deads' \in [Uid -> Nat]
    BY <1>5, <2>1, KeepaliveNoted, NoteCounts DEF NoteDead
  <2>. QED BY <1>5, <2>2 DEF NoteDead
<1>6. CASE Checkin(t)
  BY <1>6 DEF Checkin
<1>7. CASE ReadBalance(t)
  BY <1>7 DEF ReadBalance
<1>8. CASE WriteBalance(t)
  BY <1>0, <1>8 DEF WriteBalance
<1>9. CASE Record(t)
  BY <1>9 DEF Record
<1>. QED BY <1>1, <1>2, <1>3, <1>4, <1>5, <1>6, <1>7, <1>8, <1>9 DEF Step

LEMMA ChatTypes ==
  ASSUME TaskTypeOK, NEW c \in Chat, ChatPick(c) \/ ChatAnswer(c) \/ ChatNote(c)
  PROVE  TaskTypes'
<1>0. TaskTypes
  BY DEF TaskTypeOK, TaskTypes
<1>1. UNCHANGED <<kind, tpc, todo, cur, got>>
  BY DEF ChatPick, ChatAnswer, ChatNote
<1>2. CASE ChatPick(c)
  <2>1. PICK u \in HealthyUids : asked' = [asked EXCEPT ![c] = u]
    BY <1>2 DEF ChatPick
  <2>2. u \in Uid /\ u # None /\ answer[c] = "none"
    BY <1>0, <1>2, TaskConstants DEF HealthyUids, ChatPick, TaskTypes
  <2>. QED BY <1>0, <1>1, <1>2, <2>1, <2>2 DEF ChatPick, TaskTypes
<1>3. CASE ChatAnswer(c)
  <2>1. asked[c] \in Uid
    BY <1>0, <1>3 DEF ChatAnswer, TaskTypes
  <2>2. deads' \in [Uid -> Nat] /\ bal' \in [Uid -> Credits]
    BY <1>0, <1>3, <2>1 DEF ChatAnswer, TaskTypes, Dead
  <2>3. /\ asked' \in [Chat -> Uid \cup {None}]
        /\ answer' \in [Chat -> {"none", "ok", "failed", "dead"}]
        /\ \A d \in Chat : asked'[d] = None => answer'[d] = "none"
    BY <1>0, <1>3, <2>1, TaskConstants DEF ChatAnswer, TaskTypes, Answers
  <2>. QED BY <1>0, <1>1, <2>2, <2>3 DEF TaskTypes
<1>4. CASE ChatNote(c)
  <2>1. asked[c] \in Uid
    BY <1>0, <1>4 DEF ChatNote, TaskTypes
  <2>2. deads' \in [Uid -> Nat]
    <3>1. CASE deads' = deads
      BY <1>0, <3>1 DEF TaskTypes
    <3>2. CASE deads' = [deads EXCEPT ![asked[c]] = Untold(asked[c])]
      <4>1. Untold(asked[c]) \in Nat
        BY UntoldIs
      <4>. HIDE DEF Untold
      <4>. QED BY <1>0, <2>1, <3>2, <4>1 DEF TaskTypes
    <3>3. CASE answer[c] = "dead"
      <4>1. Untold(asked[c]) >= 1
        <5>1. Done(c) \/ (Answers(c, "failed") /\ UNCHANGED asked)
          BY <1>4, <3>3 DEF ChatNote
        <5>. QED BY <1>1, <2>1, <3>3, <5>1, ChatNoted DEF Done
      <4>. QED BY <1>4, <2>1, <3>3, <4>1, NoteCounts DEF ChatNote
    <3>. QED BY <1>4, <3>1, <3>2, <3>3 DEF ChatNote
  <2>3. /\ asked' \in [Chat -> Uid \cup {None}]
        /\ answer' \in [Chat -> {"none", "ok", "failed", "dead"}]
        /\ \A d \in Chat : asked'[d] = None => answer'[d] = "none"
    BY <1>0, <1>4, <2>1, TaskConstants DEF ChatNote, TaskTypes, Answers, Done
  <2>4. bal' = bal
    BY <1>4 DEF ChatNote
  <2>. QED BY <1>0, <1>1, <2>2, <2>3, <2>4 DEF TaskTypes
<1>. QED BY <1>2, <1>3, <1>4

LEMMA OperatorTypes ==
  ASSUME TaskTypeOK, Operator \/ UNCHANGED allVars PROVE TaskTypes'
<1>1. UNCHANGED <<bal, kind, tpc, todo, cur, got, asked, answer, deads>>
  BY DEF Operator, allVars, taskVars, chatVars
<1>2. TaskTypes
  BY DEF TaskTypeOK, TaskTypes
<1>. QED BY <1>1, <1>2 DEF TaskTypes

\* A step that notes no dead session and takes no answer keeps the count.
LEMMA CountedKept ==
  ASSUME TaskTypeOK, TypeOK', NEW v \in Uid, KeepsDead(v), deads'[v] = deads[v],
         Untold(v)' = Untold(v)
  PROVE  Counted(v)'
<1>. SUFFICES ASSUME mem'[v] # None PROVE mem'[v].dead + Untold(v)' <= deads'[v]
  BY DEF Counted
<1>1. mem'[v].dead \in Nat /\ mem[v].dead \in Nat /\ deads[v] \in Nat /\ Untold(v) \in Nat
  BY UntoldIs DEF TaskTypeOK, TypeOK, Entry, KeepsDead
<1>2. mem[v].dead + Untold(v) <= deads[v] /\ mem'[v].dead <= mem[v].dead
  BY DEF KeepsDead, TaskTypeOK
<1>. QED BY <1>1, <1>2

\* One more that is answered is counted at once.
LEMMA CountedMore ==
  ASSUME TaskTypeOK, TypeOK', NEW v \in Uid, mem' = mem, NEW u \in Uid,
         deads'[v] = IF v = u THEN deads[v] + 1 ELSE deads[v],
         Untold(v)' = IF v = u THEN Untold(v) + 1 ELSE Untold(v)
  PROVE  Counted(v)'
<1>1. mem[v] # None => mem[v].dead \in Nat /\ mem[v].dead + Untold(v) <= deads[v]
  BY DEF TaskTypeOK, TypeOK, Entry
<1>2. deads[v] \in Nat /\ Untold(v) \in Nat
  BY UntoldIs DEF TaskTypeOK
<1>. QED BY <1>1, <1>2 DEF Counted

\* One that is noted moves from the answers not noted to the pool's count, or
\* is forgotten with that.
LEMMA CountedNoted ==
  ASSUME TaskTypeOK, NEW u \in Uid, DeadNote(u), NEW v \in Uid, Untold(u) >= 1,
         Untold(v)' = IF v = u THEN Untold(v) - 1 ELSE Untold(v)
  PROVE  Counted(v)'
<1>1. Counted(v) /\ deads[v] \in Nat /\ Untold(v) \in Nat /\ DeadThreshold \in Nat \ {0} /\ TypeOK
  BY UntoldIs, PoolConstants DEF TaskTypeOK, Counted
<1>2. deads'[v] = IF v = u /\ ReachesDead(u) THEN Untold(u) - 1 ELSE deads[v]
  BY NoteCounts
<1>3. NoteSessionDead(u)
  BY DEF DeadNote
<1>4. mem[u] # None => (ReachesDead(u) <=> mem[u].dead + 1 >= DeadThreshold)
  BY DEF ReachesDead
<1>5. v = u /\ mem[v] # None => mem[v].dead \in Nat
  BY <1>1 DEF TypeOK, Entry
<1>. QED BY <1>1, <1>2, <1>3, <1>4, <1>5, DeadNoted DEF Counted

LEMMA BatchCounts ==
  ASSUME TaskTypeOK, TypeOK', NEW t \in Task, Start(t) \/ Step(t), NEW v \in Uid
  PROVE  Counted(v)'
<1>0. TypeOK /\ UNCHANGED chatVars /\ asked' = asked /\ answer' = answer
  BY DEF TaskTypeOK, Start, Step, NextAccount, Finish, Keepalive, KeptAlive, NoteDead,
         Checkin, ReadBalance, WriteBalance, Record, chatVars
<1>a. ASSUME tpc[t] # "note", NEW p \in {"idle", "next", "work", "read", "write", "record"},
             tpc' = [tpc EXCEPT ![t] = p] \/ tpc' = tpc,
             cur' = cur \/ \E u : cur' = [cur EXCEPT ![t] = u]
      PROVE  Untold(v)' = Untold(v)
  <2>1. \A r \in Task : (tpc'[r] = "note" /\ cur'[r] = v) <=> (tpc[r] = "note" /\ cur[r] = v)
    BY <1>a DEF TaskTypeOK
  <2>. QED BY <1>0, <2>1, UntoldSame
<1>1. CASE \/ Start(t) \/ NextAccount(t) \/ Finish(t) \/ Checkin(t)
           \/ ReadBalance(t) \/ Record(t)
           \/ (Keepalive(t) /\ deads' = deads)
  <2>1. /\ RecordCheckin \/ UNCHANGED vars
        /\ deads' = deads
    BY <1>1 DEF Start, NextAccount, Finish, Checkin, ReadBalance, Record, Keepalive,
                KeptAlive, poolVars
  <2>2. KeepsDead(v)
    BY <1>0, <2>1, OthersKeep
  <2>3. Untold(v)' = Untold(v)
    <3>1. CASE Start(t)
      BY <1>a, <3>1 DEF Start, Goto
    <3>2. CASE NextAccount(t)
      BY <1>a, <3>2 DEF NextAccount, Goto
    <3>3. CASE Finish(t)
      BY <1>a, <3>3 DEF Finish, Goto
    <3>4. CASE Checkin(t)
      BY <1>a, <3>4 DEF Checkin, Goto
    <3>5. CASE ReadBalance(t)
      BY <1>a, <3>5 DEF ReadBalance, Goto
    <3>6. CASE Record(t)
      BY <1>a, <3>6 DEF Record, Goto
    <3>7. CASE Keepalive(t) /\ deads' = deads
      <4>1. deads'[cur[t]] # deads[cur[t]] \/ ~Dead(cur[t])
        BY <3>7 DEF Keepalive, KeptAlive, Dead, TaskTypeOK
      <4>. QED BY <1>a, <3>7, <4>1 DEF Keepalive, KeptAlive, Goto
    <3>. QED BY <1>1, <3>1, <3>2, <3>3, <3>4, <3>5, <3>6, <3>7
  <2>. QED BY <2>1, <2>2, <2>3, CountedKept
<1>2. CASE WriteBalance(t)
  <2>1. /\ cur[t] \in Uid /\ got[t] \in Credits /\ deads' = deads
        /\ SetCredits(cur[t], got[t]) \/ ReenableIfCredits(cur[t], got[t])
    BY <1>2 DEF WriteBalance, TaskTypeOK
  <2>2. KeepsDead(v)
    BY <1>0, <2>1, OthersKeep
  <2>3. Untold(v)' = Untold(v)
    BY <1>a, <1>2 DEF WriteBalance, Goto
  <2>. QED BY <2>1, <2>2, <2>3, CountedKept
<1>3. CASE Keepalive(t) /\ deads' # deads
  <2>1. /\ tpc[t] = "work" /\ Goto(t, "note") /\ Dead(cur[t]) /\ UNCHANGED <<cur, chatVars>>
        /\ mem' = mem /\ cur[t] \in Uid
    BY <1>3 DEF Keepalive, KeptAlive, TaskTypeOK, poolVars, vars
  <2>. QED BY <2>1, KeepaliveTold, CountedMore
<1>4. CASE NoteDead(t)
  <2>1. cur[t] \in Uid /\ DeadNote(cur[t]) /\ tpc[t] = "note" /\ Goto(t, "next")
        /\ UNCHANGED <<cur, chatVars>>
    BY <1>4 DEF NoteDead, TaskTypeOK
  <2>2. Untold(cur[t]) >= 1 /\ Untold(v)' = IF v = cur[t] THEN Untold(v) - 1 ELSE Untold(v)
    BY <2>1, KeepaliveNoted
  <2>. QED BY <2>1, <2>2, CountedNoted
<1>. QED BY <1>1, <1>2, <1>3, <1>4 DEF Step

LEMMA ChatCounts ==
  ASSUME TaskTypeOK, TypeOK', NEW c \in Chat, ChatPick(c) \/ ChatAnswer(c) \/ ChatNote(c),
         NEW v \in Uid
  PROVE  Counted(v)'
<1>0. /\ TypeOK /\ asked \in [Chat -> Uid \cup {None}]
      /\ answer \in [Chat -> {"none", "ok", "failed", "dead"}]
      /\ asked[c] = None => answer[c] = "none"
      /\ deads \in [Uid -> Nat] /\ UNCHANGED <<tpc, cur>>
  BY DEF TaskTypeOK, ChatPick, ChatAnswer, ChatNote
<1>1. CASE ChatPick(c) \/ (ChatAnswer(c) /\ deads' = deads)
  <2>1. UNCHANGED vars /\ deads' = deads
    BY <1>1 DEF ChatPick, ChatAnswer, poolVars
  <2>2. KeepsDead(v)
    BY <1>0, <2>1, OthersKeep
  <2>3. answer[c] # "dead" /\ answer'[c] # "dead"
        /\ \A d \in Chat \ {c} : asked'[d] = asked[d] /\ answer'[d] = answer[d]
    <3>1. CASE ChatPick(c)
      BY <1>0, <3>1 DEF ChatPick
    <3>2. CASE ChatAnswer(c) /\ deads' = deads
      <4>1. ~Dead(asked[c])
        BY <1>0, <3>2 DEF ChatAnswer, Dead
      <4>. QED BY <1>0, <3>2, <4>1 DEF ChatAnswer, Answers
    <3>. QED BY <1>1, <3>1, <3>2
  <2>4. Untold(v)' = Untold(v)
    BY <1>0, <2>3, ChatQuiet
  <2>. QED BY <2>1, <2>2, <2>4, CountedKept
<1>2. CASE ChatAnswer(c) /\ deads' # deads
  <2>1. answer[c] = "none" /\ Answers(c, "dead") /\ Dead(asked[c]) /\ UNCHANGED asked
        /\ mem' = mem /\ asked[c] \in Uid
    BY <1>0, <1>2 DEF ChatAnswer, poolVars, vars
  <2>. QED BY <1>0, <2>1, ChatTold, CountedMore
<1>3. CASE ChatNote(c)
  <2>1. asked[c] \in Uid
    BY <1>0, <1>3 DEF ChatNote
  <2>2. ASSUME Done(c), answer[c] # "dead" PROVE Untold(v)' = Untold(v)
    BY <1>0, <2>2, ChatQuiet DEF Done, Answers
  <2>3. CASE answer[c] = "ok"
    <3>0. Done(c) /\ NoteSuccess(asked[c]) /\ deads' = [deads EXCEPT ![asked[c]] = Untold(asked[c])]
      BY <1>3, <2>3 DEF ChatNote
    <3>1. KeepsDead(v)
      BY <1>0, <2>1, <3>0, OthersKeep
    <3>2. Untold(v)' = Untold(v) /\ Untold(v) \in Nat
      BY <2>2, <2>3, <3>0, UntoldIs
    <3>. HIDE DEF Untold
    <3>3. CASE v # asked[c]
      <4>1. deads'[v] = deads[v]
        BY <1>0, <3>0, <3>3
      <4>. QED BY <3>1, <3>2, <4>1, CountedKept
    <3>4. CASE v = asked[c]
      <4>1. deads'[v] = Untold(v)
        BY <1>0, <3>0, <3>4
      <4>2. mem'[v] # None => mem'[v].dead = 0
        <5>1. mem'[v] = IF mem[v] = None THEN None ELSE [mem[v] EXCEPT !.errCount = 0, !.dead = 0]
          BY <1>0, <3>0, <3>4 DEF NoteSuccess, Update, TypeOK
        <5>2. mem[v] # None => mem[v] \in Entry
          BY <1>0 DEF TypeOK
        <5>. QED BY <5>1, <5>2 DEF Entry
      <4>. QED BY <3>2, <4>1, <4>2 DEF Counted
    <3>. QED BY <3>3, <3>4
  <2>4. CASE answer[c] = "failed"
    <3>1. /\ Done(c) /\ deads' = deads
          /\ NoteError(asked[c]) \/ \E d \in Cooldowns : Cooldown(asked[c], d)
      BY <1>3, <2>4 DEF ChatNote
    <3>2. KeepsDead(v)
      BY <1>0, <2>1, <3>1, OthersKeep
    <3>. QED BY <2>2, <2>4, <3>1, <3>2, CountedKept
  <2>5. CASE answer[c] = "dead"
    <3>1. DeadNote(asked[c]) /\ (Done(c) \/ (Answers(c, "failed") /\ UNCHANGED asked))
      BY <1>3, <2>5 DEF ChatNote
    <3>2. PICK a \in {"none", "failed"} :
             Answers(c, a) /\ (asked' = asked \/ asked' = [asked EXCEPT ![c] = None])
      BY <3>1 DEF Done
    <3>3. \A w \in Uid : IF w = asked[c] THEN Untold(w)' = Untold(w) - 1 /\ Untold(w) >= 1
                                         ELSE Untold(w)' = Untold(w)
      BY <1>0, <2>5, <3>2, ChatNoted
    <3>. QED BY <2>1, <3>1, <3>3, CountedNoted
  <2>. QED BY <1>3, <2>3, <2>4, <2>5 DEF ChatNote
<1>. QED BY <1>1, <1>2, <1>3

LEMMA OperatorCounts ==
  ASSUME TaskTypeOK, TypeOK', Operator \/ UNCHANGED allVars, NEW v \in Uid
  PROVE  Counted(v)'
<1>1. TypeOK /\ UNCHANGED <<asked, answer, deads, tpc, cur>>
  BY DEF TaskTypeOK, Operator, allVars, taskVars, chatVars
<1>2. KeepsDead(v)
  BY <1>1, OthersKeep DEF Operator, allVars, poolVars
<1>3. Untold(v)' = Untold(v)
  BY <1>1, UntoldSame
<1>. QED BY <1>1, <1>2, <1>3, CountedKept

LEMMA TasksKeep == TaskTypeOK /\ [TaskNext]_allVars => TaskTypeOK'
<1>. SUFFICES ASSUME TaskTypeOK, [TaskNext]_allVars PROVE TaskTypeOK'
  OBVIOUS
<1>1. TypeOK'
  BY TasksArePool, TypeStep DEF TaskTypeOK
<1>2. TaskTypes'
  BY BatchTypes, ChatTypes, OperatorTypes DEF TaskNext
<1>3. \A v \in Uid : Counted(v)'
  BY <1>1, BatchCounts, ChatCounts, OperatorCounts DEF TaskNext
<1>. QED BY <1>1, <1>2, <1>3 DEF TaskTypeOK, TaskTypes, Counted

(* Types of the batches, the requests and the pool; and that the pool counts no
   dead session that was not reported since its count was last forgotten.     *)
THEOREM TasksTypeCorrect == TaskSpec => []TaskTypeOK
BY TasksStart, TasksKeep, PTL DEF TaskSpec

(* However batches, any number of chat requests, the operator and balances
   interleave, an account is disabled automatically only after as many dead
   answers of its own as the threshold says (pool.go, NoteSessionDead, and its
   callers).                                                                  *)
THEOREM DeadsDisable == TaskSpec => DisabledAfterDeads
<1>. DEFINE Told(u) ==
       mem[u] # None /\ ~mem[u].disabled /\ mem'[u] # None /\ mem'[u].disabled =>
          SetDisabled(u, TRUE) \/ deads[u] >= DeadThreshold
<1>1. ASSUME TaskTypeOK, [TaskNext]_allVars, NEW v \in Uid PROVE Told(v)
  <2>0. TypeOK /\ deads[v] \in Nat /\ DeadThreshold \in Nat \ {0} /\ Counted(v)
        /\ Untold(v) \in Nat
    BY <1>1, PoolConstants, UntoldIs DEF TaskTypeOK, Counted
  <2>1. ASSUME NEW u \in Uid, DeadNote(u), Untold(u) >= 1 PROVE Told(v)
    <3>0. NoteSessionDead(u)
      BY <2>1 DEF DeadNote
    <3>1. CASE mem'[v] = mem[v] \/ mem'[v].disabled = mem[v].disabled \/ mem[v] = None
      BY <3>1, Zenon
    <3>2. CASE v = u /\ mem[v] # None /\ mem[v].dead \in Nat /\ mem[v].dead + 1 >= DeadThreshold
      <4>1. deads[v] >= DeadThreshold
        BY <2>0, <2>1, <3>2 DEF Counted
      <4>. QED BY <4>1
    <3>. QED BY <2>0, <3>0, <3>1, <3>2, DeadNoted
  <2>2. ASSUME KeepsAble(v) PROVE Told(v)
    BY <2>2, Zenon DEF KeepsAble
  <2>. HIDE DEF Told
  <2>3. ASSUME NEW t \in Task, Start(t) \/ Step(t) PROVE Told(v)
    <3>1. CASE WriteBalance(t)
      <4>1. /\ cur[t] \in Uid /\ got[t] \in Credits
            /\ SetCredits(cur[t], got[t]) \/ ReenableIfCredits(cur[t], got[t])
        BY <1>1, <3>1 DEF WriteBalance, TaskTypeOK
      <4>. QED BY <2>0, <2>2, <4>1, OthersKeep
    <3>2. CASE NoteDead(t)
      <4>1. cur[t] \in Uid /\ DeadNote(cur[t]) /\ tpc[t] = "note" /\ Goto(t, "next")
            /\ UNCHANGED <<cur, chatVars>>
        BY <1>1, <3>2 DEF NoteDead, TaskTypeOK
      <4>2. Untold(cur[t]) >= 1
        BY <1>1, <4>1, KeepaliveNoted
      <4>. QED BY <2>1, <4>1, <4>2
    <3>3. CASE \/ Start(t) \/ NextAccount(t) \/ Finish(t) \/ Keepalive(t) \/ Checkin(t)
               \/ ReadBalance(t) \/ Record(t)
      <4>1. RecordCheckin \/ UNCHANGED vars
        BY <3>3 DEF Start, NextAccount, Finish, Keepalive, KeptAlive, Checkin, ReadBalance,
                    Record, poolVars
      <4>. QED BY <2>0, <2>2, <4>1, OthersKeep
    <3>. QED BY <2>3, <3>1, <3>2, <3>3 DEF Step
  <2>4. ASSUME NEW c \in Chat, ChatPick(c) \/ ChatAnswer(c) \/ ChatNote(c) PROVE Told(v)
    <3>0. asked[c] \in Uid \/ ~ChatNote(c)
      BY <1>1 DEF ChatNote, TaskTypeOK
    <3>1. CASE ChatNote(c) /\ answer[c] = "dead"
      <4>1. /\ DeadNote(asked[c]) /\ UNCHANGED <<tpc, cur>>
            /\ Done(c) \/ (Answers(c, "failed") /\ UNCHANGED asked)
        BY <3>1 DEF ChatNote
      <4>2. Untold(asked[c]) >= 1
        BY <1>1, <3>0, <3>1, <4>1, ChatNoted DEF Done
      <4>. QED BY <2>1, <3>0, <3>1, <4>1, <4>2
    <3>2. CASE ChatPick(c) \/ ChatAnswer(c)
      <4>1. UNCHANGED vars
        BY <3>2 DEF ChatPick, ChatAnswer, poolVars
      <4>. QED BY <2>0, <2>2, <4>1, OthersKeep
    <3>3. CASE ChatNote(c) /\ answer[c] # "dead"
      <4>1. \/ NoteSuccess(asked[c]) \/ NoteError(asked[c])
            \/ \E d \in Cooldowns : Cooldown(asked[c], d)
        BY <3>3 DEF ChatNote
      <4>. QED BY <2>0, <2>2, <3>0, <3>3, <4>1, OthersKeep
    <3>. QED BY <2>4, <3>1, <3>2, <3>3
  <2>5. CASE Operator \/ UNCHANGED allVars
    BY <2>0, <2>2, <2>5, OthersKeep DEF Operator, allVars, poolVars
  <2>. QED BY <1>1, <2>3, <2>4, <2>5 DEF TaskNext
<1>2. TaskTypeOK /\ [TaskNext]_allVars => [\A u \in Uid : Told(u)]_allVars
  BY <1>1
<1>. QED BY <1>2, TasksTypeCorrect, PTL DEF TaskSpec, DisabledAfterDeads
=============================================================================
