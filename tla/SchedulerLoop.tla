---------------------------- MODULE SchedulerLoop ----------------------------
(***************************************************************************)
(* The loop that runs a channel's daily tasks (internal/scheduler,         *)
(* Scheduler.Run): plan the nearest slot, wait for its timer or for a      *)
(* configuration change, run the task in the loop itself, plan again.      *)
(*                                                                         *)
(* Time is the minute of the day, which is as fine as a slot; a day has    *)
(* Hours * Hour minutes (24 * 60 in the code).  Between two minutes the    *)
(* loop takes all the steps it can: only a running task lets time pass     *)
(* while the loop is not waiting.                                          *)
(***************************************************************************)
EXTENDS Naturals, FiniteSets

CONSTANTS
    Hour, Hours,     \* minutes of an hour, hours of a day
    InitialCheckin,  \* CheckinMinutes the loop starts with
    CheckinSets,     \* what SetCheckinMinutes may be given
    KeepaliveHours, TravelHours, ActivityHours,  \* as configured, in hours
    MaxDuration,     \* minutes a task may take (bound)
    MaxChanges,      \* configuration changes (bound)
    NoSlot           \* no slot planned

Day    == Hour * Hours
Minute == 0 .. Day - 1

ASSUME SchedulerConstants ==
    /\ Hour \in Nat \ {0} /\ Hours \in Nat \ {0}
    /\ InitialCheckin \in SUBSET Minute /\ CheckinSets \in SUBSET SUBSET Minute
    /\ {} \notin CheckinSets   \* the panel keeps at least one
    /\ KeepaliveHours \in SUBSET Nat \ {{}}   \* New puts in 22 for an empty list
    /\ TravelHours \in SUBSET Nat /\ ActivityHours \in SUBSET Nat
    /\ MaxDuration \in Nat /\ MaxChanges \in Nat
    /\ NoSlot \notin [kind: {"checkin", "keepalive", "travel", "activity"}, min: Nat]

VARIABLES
    minute,   \* minute of the day
    checkin,  \* cfg.CheckinMinutes
    wake,     \* is there something in the wake channel?
    pc,       \* "plan", "wait", "run"
    next,     \* the slot the timer is set for
    left,     \* minutes until the timer fires
    busy,     \* minutes the running task still takes
    changes,  \* configuration changes so far
    due       \* slots whose minute has come and that have not run (observed)

loopVars == <<minute, checkin, wake, pc, next, left, busy, changes, due>>

\* Kinds in the order the loop lists them: of two slots of the same minute
\* the kind listed first is taken.
Kind == {"checkin", "keepalive", "travel", "activity"}
Rank == [checkin |-> 1, keepalive |-> 2, travel |-> 3, activity |-> 4]

\* scheduleAll: keepalive hours become minutes, travel and activity hours are
\* handed over as they are.  KeepaliveHours is not validated anywhere.
HoursToMinutes(H) == {h * Hour : h \in H}
ScheduleAll(ch) ==
    [checkin   |-> ch,
     keepalive |-> HoursToMinutes(KeepaliveHours),
     travel    |-> TravelHours,
     activity  |-> ActivityHours]
Slots(ch) == UNION {{[kind |-> k, min |-> m] : m \in ScheduleAll(ch)[k]} : k \in Kind}

\* Mutant: a slot of this very minute counts as ahead.
UntilSameMinute(m) ==
    IF m \notin Minute THEN 0
    ELSE IF m >= minute THEN m - minute ELSE m + Day - minute

\* nextFireMinutes for one slot, as minutes from now: strictly later today,
\* else tomorrow; for a minute no day has it returns the zero time, which is
\* before every other and lets the timer fire at once.
Until(m) ==
    IF m \notin Minute THEN 0
    ELSE IF m > minute THEN m - minute ELSE m + Day - minute

SoonerInDay(s, t) ==   \* mutant: the minute of the day, not the time
    \/ s.min < t.min
    \/ s.min = t.min /\ Rank[s.kind] <= Rank[t.kind]

\* The first slot of the list with the earliest time.
Sooner(s, t) ==
    \/ Until(s.min) < Until(t.min)
    \/ Until(s.min) = Until(t.min) /\ Rank[s.kind] < Rank[t.kind]
    \/ Until(s.min) = Until(t.min) /\ s.kind = t.kind
Nearest(S) == {s \in S : \A t \in S : Sooner(s, t)}

-----------------------------------------------------------------------------
LoopInit ==
    /\ minute = 0 /\ checkin = InitialCheckin /\ wake = FALSE
    /\ pc = "plan" /\ next = NoSlot /\ left = 0 /\ busy = 0
    /\ changes = 0 /\ due = {}

Plan ==
    /\ pc = "plan" /\ pc' = "wait"
    /\ IF Slots(checkin) = {}
       THEN next' = NoSlot /\ left' = 0
       ELSE /\ next' \in Nearest(Slots(checkin))
            /\ left' = Until(next'.min)
    /\ UNCHANGED <<minute, checkin, wake, busy, changes, due>>

\* The timer's case of the select; the task runs in the loop's goroutine.
Fire ==
    /\ pc = "wait" /\ next # NoSlot /\ left = 0
    /\ pc' = "run"
    /\ busy' \in 0 .. MaxDuration
    /\ due' = due \ {next}
    /\ UNCHANGED <<minute, checkin, wake, next, left, changes>>

\* The wake case, also possible when the timer is ready too.
Wake ==
    /\ pc = "wait" /\ wake
    /\ pc' = "plan" /\ wake' = FALSE /\ next' = NoSlot /\ left' = 0
    /\ UNCHANGED <<minute, checkin, busy, changes, due>>

TaskDone ==
    /\ pc = "run" /\ busy = 0
    /\ pc' = "plan" /\ next' = NoSlot
    /\ UNCHANGED <<minute, checkin, wake, left, busy, changes, due>>

\* SetCheckinMinutes: the panel changes the minutes and wakes the loop.
SetCheckinMinutes(ch) ==
    /\ changes < MaxChanges
    /\ changes' = changes + 1
    /\ checkin' = ch /\ wake' = TRUE
    /\ UNCHANGED <<minute, pc, next, left, busy, due>>

\* A minute passes while the loop waits or a task runs.
MinutePasses ==
    /\ \/ pc = "wait" /\ ~wake /\ (next = NoSlot \/ left > 0)
       \/ pc = "run" /\ busy > 0
    /\ minute' = IF minute + 1 = Day THEN 0 ELSE minute + 1
    /\ left' = IF pc = "wait" /\ left > 0 THEN left - 1 ELSE left
    /\ busy' = IF busy > 0 THEN busy - 1 ELSE 0
    /\ due' = due \cup {s \in Slots(checkin) : s.min = minute'}
    /\ UNCHANGED <<checkin, wake, pc, next, changes>>

LoopNext ==
    \/ Plan \/ Fire \/ Wake \/ TaskDone \/ MinutePasses
    \/ \E ch \in CheckinSets : SetCheckinMinutes(ch)

LoopSpec == LoopInit /\ [][LoopNext]_loopVars

\* Time passes and the loop's goroutine is scheduled.
FairLoopSpec == LoopSpec /\ WF_loopVars(Plan \/ Fire \/ Wake \/ TaskDone \/ MinutePasses)

-----------------------------------------------------------------------------
\* A slot of the day runs in its minute, and not twice for one coming of it,
\* whatever wakes the loop in that minute and however often it plans again.
OncePerDay ==
    [][Fire /\ next.min \in Minute => next.min = minute /\ next \in due]_loopVars

\* Slots that come while no task can be running, and alone in their minute.
Apart(s) == \A t \in Slots(checkin) \ {s} :
               (s.min + Day - t.min) % Day > MaxDuration

\* No change of configuration, however it falls between planning, the timer
\* and a task, strands the loop, and no task keeps it from a slot that is far
\* enough behind the others: once configured for good it runs every day.
ApartSlotsRun ==
    \A s \in UNION {Slots(ch) : ch \in {InitialCheckin} \cup CheckinSets} :
        <>[](s \in Slots(checkin) /\ Apart(s)) => []<>(pc = "run" /\ next = s)

-----------------------------------------------------------------------------
\* What comments say and the code does not keep.

\* scheduler.go:252: slots are executed precisely, so that a loop busy over
\* its minute does not silently skip that day's trigger.  Of two slots of a
\* minute, or of one that comes while a task runs, only Apart ones are safe.
DayNotSkipped ==
    [][\A s \in due : minute' # minute => s.min # minute']_loopVars

\* scheduler.go:33: TravelHours are hours of the day.
TravelAtHours ==
    [][Fire /\ next.kind = "travel" => next.min \in HoursToMinutes(TravelHours)]_loopVars

\* scheduler.go:209: nextFireMinutes returns the nearest time after now.
FiresLater == [][Plan /\ next' # NoSlot => left' > 0]_loopVars
=============================================================================
