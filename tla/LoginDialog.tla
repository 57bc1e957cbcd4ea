---------------------------- MODULE LoginDialog ----------------------------
(***************************************************************************)
(* The dialog that adds an account by a login (AddAccountDialog of         *)
(* webui/src/pages/AccountsPage.tsx): it counts the accounts, starts a     *)
(* login at the server, and asks every two seconds, without waiting for    *)
(* the answer before, whether the login is over.  The server's login is    *)
(* the one of LoginFlow, reduced to what the dialog sees of it.            *)
(***************************************************************************)
EXTENDS Naturals

CONSTANTS TickSlots,  \* questions that may be under way
          MaxLogins,  \* bound: logins started
          MaxLosses   \* bound: requests that fail

ASSUME DialogAssumption == MaxLogins \in Nat /\ MaxLosses \in Nat

NoLogin == 0
Logins == 1..MaxLogins

VARIABLES
  login,     \* the server's login under way (loginBusy), NoLogin for none
  begun,     \* logins started so far
  count,     \* the server's accounts
  cancels,   \* cancel requests under way
  opened,    \* the dialog is open
  stage,     \* "pick" or "waiting"
  starting,  \* start: "no", then what it waits for
  before,    \* countRef
  timer,     \* the interval, by the login it was set for
  ticks,     \* its questions: whose, and what they bring
  losses

dialogServer == <<login, begun, count>>
dialogState == <<opened, stage, starting, before, timer>>
loginDialogVars == <<dialogServer, cancels, dialogState, ticks, losses>>

NoTick == [at |-> "none", for |-> NoLogin, busy |-> FALSE, count |-> 0]

DialogInit ==
  /\ login = NoLogin /\ begun = 0 /\ count = 0 /\ cancels = 0
  /\ opened = FALSE /\ stage = "pick" /\ starting = "no"
  /\ before = 0 /\ timer = NoLogin
  /\ ticks = [x \in TickSlots |-> NoTick]
  /\ losses = 0

Lost == losses < MaxLosses /\ losses' = losses + 1

---------------------------------------------------------------------------
\* The server: a login ends, with an account or without, by itself at its
\* deadline; a cancel only makes it end, and is left out otherwise.
LoginOver ==
  /\ login # NoLogin /\ login' = NoLogin
  /\ count' \in {count, count + 1}
  /\ UNCHANGED <<begun, cancels, dialogState, ticks, losses>>

CancelHandled ==
  /\ cancels > 0 /\ cancels' = cancels - 1
  /\ login' \in {login, NoLogin}
  /\ UNCHANGED <<begun, count, dialogState, ticks, losses>>

---------------------------------------------------------------------------
OpenDialog ==
  /\ ~opened /\ opened' = TRUE
  /\ UNCHANGED <<dialogServer, cancels, stage, starting, before, timer, ticks, losses>>

\* What a close sends: a login waited for is cancelled, once, or twice by the
\* button, whose close calls handleOpenChange too.
CancelsSent == IF stage = "waiting" THEN {1, 2} ELSE {0}

\* handleOpenChange(false).
CloseDialog ==
  /\ opened /\ opened' = FALSE
  /\ stage' = "pick" /\ timer' = NoLogin
  /\ \E n \in CancelsSent : cancels' = cancels + n
  /\ UNCHANGED <<dialogServer, starting, before, ticks, losses>>

\* The buttons of the channels, all of them off while a start is under way.
ChannelsOffered == opened /\ stage = "pick" /\ starting = "no"

\* start: a channel is picked; the dialog asks for the state first.
PickChannel ==
  /\ ChannelsOffered /\ begun < MaxLogins
  /\ starting' = "count"
  /\ UNCHANGED <<dialogServer, cancels, opened, stage, before, timer, ticks, losses>>

\* ... and with its answer starts the login ...
Counted ==
  /\ starting = "count"
  /\ before' = count
  /\ starting' = "start"
  /\ UNCHANGED <<dialogServer, cancels, opened, stage, timer, ticks, losses>>

\* ... which the server refuses while one is under way.
LoginStarted ==
  /\ starting = "start"
  /\ IF login = NoLogin
       THEN login' = begun + 1 /\ begun' = begun + 1 /\ starting' = "started"
       ELSE starting' = "failed" /\ UNCHANGED <<login, begun>>
  /\ UNCHANGED <<count, cancels, opened, stage, before, timer, ticks, losses>>

LoseStart ==
  /\ starting \in {"count", "start", "started"} /\ starting' = "failed" /\ Lost
  /\ UNCHANGED <<dialogServer, cancels, opened, stage, before, timer, ticks>>

\* Mutant: the dialog waits before the server has answered.
WaitEarly ==
  /\ starting \in {"start", "started"} /\ stage = "pick"
  /\ stage' = "waiting" /\ timer' = IF starting = "start" THEN begun + 1 ELSE begun
  /\ starting' = IF starting = "start" THEN starting ELSE "no"
  /\ UNCHANGED <<dialogServer, cancels, opened, before, ticks, losses>>

\* The login has started: the dialog waits, also one closed meanwhile, with an
\* interval in place of any other.
Wait ==
  /\ starting = "started" /\ starting' = "no"
  /\ stage' = "waiting" /\ timer' = begun
  /\ UNCHANGED <<dialogServer, cancels, opened, before, ticks, losses>>

\* An error is shown and another channel can be picked.
NotStarted ==
  /\ starting = "failed" /\ starting' = "no"
  /\ UNCHANGED <<dialogServer, cancels, opened, stage, before, timer, ticks, losses>>

---------------------------------------------------------------------------
\* The interval asks for the state.
Question(x) ==
  /\ timer # NoLogin /\ ticks[x].at = "none"
  /\ ticks' = [ticks EXCEPT ![x] = [NoTick EXCEPT !.at = "sent", !.for = timer]]
  /\ UNCHANGED <<dialogServer, cancels, dialogState, losses>>

AnswerQuestion(x) ==
  /\ ticks[x].at = "sent"
  /\ ticks' = [ticks EXCEPT ![x] = [@ EXCEPT !.at = "answered", !.busy = (login # NoLogin),
                                             !.count = count]]
  /\ UNCHANGED <<dialogServer, cancels, dialogState, losses>>

\* Mutant: a question that fails ends the interval.
LoseTimer(x) ==
  /\ ticks[x].at \in {"sent", "answered"} /\ Lost
  /\ ticks' = [ticks EXCEPT ![x] = NoTick]
  /\ timer' = NoLogin
  /\ UNCHANGED <<dialogServer, cancels, opened, stage, starting, before>>

\* A question that fails is passed over.
LoseQuestion(x) ==
  /\ ticks[x].at \in {"sent", "answered"} /\ Lost
  /\ ticks' = [ticks EXCEPT ![x] = NoTick]
  /\ UNCHANGED <<dialogServer, cancels, dialogState>>

\* A question is answered, for the interval of now or an earlier one.  When no
\* login is under way, the interval of now stops; with an account more than
\* before the dialog closes, or else it shows an error.
Told(x) ==
  /\ ticks[x].at = "answered"
  /\ ticks' = [ticks EXCEPT ![x] = NoTick]
  /\ IF ticks[x].busy
       THEN UNCHANGED <<opened, stage, timer>>
       ELSE /\ timer' = NoLogin /\ stage' = "pick"
            /\ opened' = (opened /\ ticks[x].count <= before)
  /\ UNCHANGED <<dialogServer, cancels, starting, before, losses>>

DialogProgress ==
  \/ LoginOver \/ CancelHandled \/ Counted \/ LoginStarted \/ Wait \/ NotStarted
  \/ \E x \in TickSlots : Question(x) \/ AnswerQuestion(x) \/ Told(x)

DialogNext ==
  \/ DialogProgress \/ OpenDialog \/ CloseDialog \/ PickChannel \/ LoseStart
  \/ \E x \in TickSlots : LoseQuestion(x)

---------------------------------------------------------------------------

(* What ends the wait for a login, unless it is an answer the interval of an
   earlier login asked for, is that the login is over: questions overtake each
   other, but none asked before the login had started counts for it.         *)
ToldWhenOver ==
  [][\A x \in TickSlots :
       Told(x) /\ ticks[x].for = timer /\ timer' # timer => login # timer]_loginDialogVars

(* The dialog does not wait for ever, whatever is lost: the login comes to an
   end and a later question finds that out.                                  *)
WaitingEnds == stage = "waiting" ~> stage = "pick"
============================================================================
