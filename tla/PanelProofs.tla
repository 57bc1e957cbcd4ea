----------------------------- MODULE PanelProofs -----------------------------
(***************************************************************************)
(* Theorems about the pages of the panel: each is proved of the part whose *)
(* property it is, whose variables the other parts leave alone.  Then,     *)
(* theorems about PanelSessions and PanelAuth, which share no state with   *)
(* them.                                                                   *)
(***************************************************************************)
EXTENDS Panel, PanelAuth, SequenceTheorems, FiniteSetTheorems, TLAPS

\* A step of the panel is a step of each part or leaves it alone.
LEMMA PartSteps ==
  ASSUME [PanelNext]_panelVars
  PROVE  /\ [DetailNext]_detailVars
         /\ [ImportNext]_importVars
         /\ [ListNext]_listVars
         /\ [DialogNext]_loginDialogVars
         /\ [ConfigNext]_configVars
<1>. USE DEF On, pollPages, accountParts, panelVars
<1>1. CASE UNCHANGED panelVars
  BY <1>1
<1>2. CASE OnReqlog(PollNext)
  BY <1>2 DEF OnReqlog
<1>3. CASE OnKeys(ConfigNext)
  BY <1>3 DEF OnKeys
<1>4. CASE OnToken(ListNext)
  BY <1>4 DEF OnToken
<1>5. CASE OnAdd(DialogNext)
  BY <1>5 DEF OnAdd
<1>6. CASE OnImport(ImportNext)
  BY <1>6 DEF OnImport
<1>7. CASE OnDetail(DetailNext)
  BY <1>7 DEF OnDetail
<1>8. CASE OnCats(CatsNext)
  BY <1>8 DEF OnCats
<1>. QED BY <1>1, <1>2, <1>3, <1>4, <1>5, <1>6, <1>7, <1>8 DEF PanelNext

-----------------------------------------------------------------------------
\* The dialog of credits: a question that was not cleaned up is of the view, and
\* what is shown is of the view unless the dialog still loads.
DetailInv ==
  /\ view \in Owners \cup {NoOwner}
  /\ detail \in [loading: BOOLEAN, of: Owners \cup {NoOwner}]
  /\ questions \in [DetailSlots -> [at: {"none", "sent", "answered"},
                                    of: Owners \cup {NoOwner}, cancelled: BOOLEAN]]
  /\ \A q \in DetailSlots :
       questions[q].at # "none" /\ ~questions[q].cancelled =>
         view # NoOwner /\ questions[q].of = view
  /\ DetailOfView

LEMMA DetailStart == DetailInit => DetailInv
BY DetailAssumption DEF DetailInit, DetailInv, DetailOfView, CreditsShown, NoQuestion

LEMMA DetailStep ==
  ASSUME DetailInv, [DetailNext]_detailVars PROVE DetailInv'
<1>. USE DetailAssumption DEF DetailInv, DetailOfView, CreditsShown, NoQuestion
<1>1. CASE UNCHANGED detailVars
  BY <1>1 DEF detailVars
<1>2. CASE CloseDetail
  BY <1>2 DEF CloseDetail
<1>3. ASSUME NEW q \in DetailSlots, AnswerDetail(q) PROVE DetailInv'
  BY <1>3 DEF AnswerDetail
<1>4. ASSUME NEW q \in DetailSlots, DetailArrives(q) PROVE DetailInv'
  BY <1>4 DEF DetailArrives, Shown
<1>5. ASSUME NEW q \in DetailSlots, NEW u \in Owners, OpenDetail(u, q) PROVE DetailInv'
  BY <1>5 DEF OpenDetail
<1>. QED BY <1>1, <1>2, <1>3, <1>4, <1>5 DEF DetailNext

(* The credits shown are of the account whose dialog is open, for any number of
   accounts and of questions under way (AccountsPage.tsx:502-530).           *)
THEOREM DetailIsOfView == PanelSpec => []DetailOfView
<1>1. PanelInit => DetailInv
  BY DetailStart DEF PanelInit
<1>2. DetailInv /\ [PanelNext]_panelVars => DetailInv'
  BY PartSteps, DetailStep
<1>3. DetailInv => DetailOfView
  BY DEF DetailInv
<1>. QED BY <1>1, <1>2, <1>3, PTL DEF PanelSpec

-----------------------------------------------------------------------------
\* The settings of the API page: as long as its last change was neither refused
\* nor met another one, what is still to be put in force is that change.
ConfigInv ==
  /\ cfg \in [Settings -> Nat] /\ file \in [Settings -> Nat] /\ inForce \in [Settings -> Nat]
  /\ pending \in [Settings -> SUBSET Nat]
  /\ overlapped \in [Settings -> BOOLEAN] /\ refused \in [Settings -> BOOLEAN]
  /\ source \in Nat
  /\ \A s \in Settings : ~refused[s] /\ ~overlapped[s] => pending[s] \subseteq {cfg[s]}
  /\ InForce

LEMMA ConfigStart == PollInit /\ ConfigInit => ConfigInv
BY DEF PollInit, ConfigInit, ConfigInv, InForce

LEMMA PollKeepsSource == ASSUME PollStep \/ Refresh \/ Enable \/ Disable PROVE UNCHANGED source
<1>1. ASSUME NEW g, PollNow(g) PROVE UNCHANGED source
  BY <1>1 DEF PollNow
<1>2. ASSUME NEW g, Fire(g) PROVE UNCHANGED source
  BY <1>1, <1>2 DEF Fire
<1>3. ASSUME NEW r, Serve(r) \/ Fail(r) \/ Settle(r) PROVE UNCHANGED source
  BY <1>3 DEF Serve, Fail, Settle, SettleWith
<1>4. CASE Enable
  BY <1>1, <1>4 DEF Enable
<1>5. CASE Refresh \/ Disable
  BY <1>5 DEF Refresh, Disable
<1>. QED BY <1>2, <1>3, <1>4, <1>5 DEF PollStep

\* What is left of the polling hook when only the settings are looked at.
LEMMA SourceSteps ==
  ASSUME ConfigInv, [PanelNext]_panelVars PROVE source' \in Nat
<1>. USE DEF ConfigInv
<1>1. CASE UNCHANGED source
  BY <1>1
<1>2. CASE OnReqlog(PollNext)
  <2>1. CASE Change
    BY <2>1 DEF Change
  <2>2. CASE PollStep \/ Refresh \/ Enable \/ Disable
    BY <2>2, PollKeepsSource
  <2>. QED BY <1>2, <2>1, <2>2 DEF OnReqlog, On, PollNext
<1>3. CASE OnKeys(ConfigNext)
  <2>1. ASSUME NEW s \in Settings, Accept(s) PROVE source' \in Nat
    BY <2>1 DEF Accept, Configure
  <2>2. CASE RestartServer
    BY <2>2 DEF RestartServer
  <2>3. ASSUME NEW s \in Settings,
               LoseSave(s) \/ Saved(s) \/ NotSaved(s) \/ \E v \in pending[s] : PutInForce(s, v)
        PROVE  UNCHANGED source
    BY <2>3, PollKeepsSource DEF LoseSave, Saved, NotSaved, PutInForce, pollVars
  <2>4. CASE OpenKey \/ OpenTimes \/ SubmitKey \/ SubmitTimes \/ Dismiss
    BY <2>4 DEF OpenKey, OpenTimes, SubmitKey, SubmitTimes, SendSave, Dismiss, pollVars
  <2>. QED BY <1>3, <2>1, <2>2, <2>3, <2>4, PollKeepsSource DEF OnKeys, On, ConfigNext
<1>4. CASE \/ OnToken(ListNext) \/ OnAdd(DialogNext) \/ OnImport(ImportNext)
           \/ OnDetail(DetailNext) \/ OnCats(CatsNext) \/ UNCHANGED panelVars
  <2>1. UNCHANGED source
    BY <1>4 DEF OnToken, OnAdd, OnImport, OnDetail, OnCats, On, pollPages, pollVars, panelVars
  <2>. QED BY <2>1
<1>. QED BY <1>2, <1>3, <1>4 DEF PanelNext

LEMMA ConfigStep ==
  ASSUME ConfigInv, source' \in Nat, [ConfigNext]_configVars PROVE ConfigInv'
<1>. USE DEF ConfigInv, InForce
<1>1. ASSUME UNCHANGED serverVars PROVE ConfigInv'
  BY <1>1 DEF serverVars
<1>2. ASSUME NEW s \in Settings, Accept(s) PROVE ConfigInv'
  <2>1. PICK written \in BOOLEAN : Configure(s, written) /\ UNCHANGED inForce
    BY <1>2 DEF Accept
  <2>. QED BY <2>1 DEF Configure
<1>3. ASSUME NEW s \in Settings, NEW v \in pending[s], PutInForce(s, v) PROVE ConfigInv'
  BY <1>3 DEF PutInForce
<1>4. CASE RestartServer
  BY <1>4 DEF RestartServer
<1>5. ASSUME NEW s \in Settings, LoseSave(s) \/ Saved(s) \/ NotSaved(s) PROVE ConfigInv'
  BY <1>1, <1>5 DEF LoseSave, Saved, NotSaved
<1>6. CASE \/ PollStep /\ UNCHANGED configVars
           \/ OpenKey \/ OpenTimes \/ SubmitKey \/ SubmitTimes \/ Dismiss
           \/ UNCHANGED configVars
  BY <1>1, <1>6 DEF OpenKey, OpenTimes, SubmitKey, SubmitTimes, SendSave, Dismiss, configVars
<1>. QED BY <1>2, <1>3, <1>4, <1>5, <1>6 DEF ConfigNext

(* A setting of the API page is in force as it is configured, and the file is
   the configuration, but for the cases InForce names (app.go:856-950).      *)
THEOREM SettingsInForce == PanelSpec => []InForce
<1>1. PanelInit => ConfigInv
  BY ConfigStart DEF PanelInit
<1>2. ConfigInv /\ [PanelNext]_panelVars => ConfigInv'
  BY PartSteps, SourceSteps, ConfigStep
<1>3. ConfigInv => InForce
  BY DEF ConfigInv
<1>. QED BY <1>1, <1>2, <1>3, PTL DEF PanelSpec

-----------------------------------------------------------------------------
\* The accounts page: an action that waits for its load has one under way, which
\* was sent after the action, and brings nothing older.
RunType == [at: {"none", "sent", "answered", "failed", "loading"}, uid: Uids \cup {NoUid},
            kind: {"none", "change", "remove"}, led: Nat]
LoadType == [at: {"none", "sent", "answered", "failed"}, got: [rev: Nat, in: SUBSET Uids]]
ListTypes ==
  /\ pool \in [rev: Nat, in: SUBSET Uids]
  /\ runs \in [AllRuns -> RunType]
  /\ loads \in [AllRuns \cup TimerSlots -> LoadType]
LoadOf(k) ==
  /\ runs[k].at \in {"answered", "loading"} => runs[k].led <= pool.rev
  /\ runs[k].at = "loading" =>
       /\ loads[k].at # "none"
       /\ loads[k].at = "answered" => runs[k].led <= loads[k].got.rev
ListInv == ListTypes /\ \A k \in AllRuns : LoadOf(k)

LEMMA ListStart == ListInit => ListInv
<1>. SUFFICES ASSUME ListInit PROVE ListInv
  OBVIOUS
<1>1. ListTypes
  BY DEF ListInit, ListTypes, Nothing, NoRun, NoLoad, RunType, LoadType
<1>2. \A k \in AllRuns : LoadOf(k)
  BY DEF ListInit, LoadOf, NoRun
<1>. QED BY <1>1, <1>2 DEF ListInv

LEMMA Nones == /\ NoRun \in RunType /\ NoRun.at = "none"
               /\ NoLoad \in LoadType /\ NoLoad.at = "none"
BY DEF NoRun, NoLoad, Nothing, RunType, LoadType

LEMMA ListTypesKept == ASSUME ListTypes, [ListNext]_listVars PROVE ListTypes'
<1>. USE DEF ListTypes
<1>1. CASE UNCHANGED listVars
  BY <1>1 DEF listVars
<1>2. ASSUME NEW x \in TimerSlots, ListTick(x) PROVE ListTypes'
  BY <1>2 DEF ListTick, LoadType
<1>3. ASSUME NEW k \in RunSlots, NEW u \in Uids, NEW kind \in {"change", "remove"},
             RunAction(k, u, kind)
      PROVE  ListTypes'
  BY <1>3 DEF RunAction, NoRun, AllRuns, RunType
<1>4. CASE RunBatch
  BY <1>4 DEF RunBatch, NoRun, AllRuns, RunType
<1>5. ASSUME NEW k \in AllRuns, HandleRun(k) PROVE ListTypes'
  <2>1. pool' \in [rev: Nat, in: SUBSET Uids] /\ UNCHANGED loads
    BY <1>5 DEF HandleRun, Altered, RunType
  <2>2. runs' \in [AllRuns -> RunType]
    <3>1. pool'.rev \in Nat
      BY <2>1
    <3>2. CASE runs' = [runs EXCEPT ![k].at = "answered", ![k].led = pool'.rev]
      <4>1. [[runs[k] EXCEPT !.at = "answered"] EXCEPT !.led = pool'.rev] \in RunType
        BY <3>1 DEF RunType
      <4>. QED BY <3>2, <4>1
    <3>3. CASE runs' = [runs EXCEPT ![k].at = "failed"]
      <4>1. [runs[k] EXCEPT !.at = "failed"] \in RunType
        BY DEF RunType
      <4>. QED BY <3>3, <4>1
    <3>. QED BY <1>5, <3>2, <3>3 DEF HandleRun
  <2>. QED BY <2>1, <2>2
<1>6. ASSUME NEW k \in AllRuns, LoseRun(k) PROVE ListTypes'
  BY <1>6 DEF LoseRun, RunType
<1>7. ASSUME NEW k \in AllRuns, RunAnswered(k) PROVE ListTypes'
  <2>1. runs' \in [AllRuns -> RunType]
    BY <1>7 DEF RunAnswered, RunType
  <2>2. [loads[k] EXCEPT !.at = "sent"] \in LoadType
    BY DEF LoadType
  <2>. QED BY <1>7, <2>1, <2>2 DEF RunAnswered
<1>8. ASSUME NEW k \in AllRuns, RunFailed(k) PROVE ListTypes'
  BY <1>8, Nones DEF RunFailed
<1>9. ASSUME NEW x \in AllRuns \cup TimerSlots, HandleLoad(x) PROVE ListTypes'
  BY <1>9 DEF HandleLoad, LoadType
<1>10. ASSUME NEW x \in AllRuns \cup TimerSlots, LoseLoad(x) PROVE ListTypes'
  <2>1. [NoLoad EXCEPT !.at = "failed"] \in LoadType
    BY Nones DEF LoadType
  <2>. QED BY <1>10, <2>1 DEF LoseLoad
<1>11. ASSUME NEW x \in AllRuns \cup TimerSlots, Loaded(x) PROVE ListTypes'
  <2>1. runs' \in [AllRuns -> RunType]
    BY <1>11, Nones DEF Loaded
  <2>2. loads' \in [AllRuns \cup TimerSlots -> LoadType] /\ UNCHANGED pool
    BY <1>11, Nones DEF Loaded
  <2>. QED BY <2>1, <2>2
<1>12. ASSUME NEW u \in Uids, PoolChange(u) PROVE ListTypes'
  BY <1>12 DEF PoolChange, Altered
<1>. QED
  BY <1>1, <1>2, <1>3, <1>4, <1>5, <1>6, <1>7, <1>8, <1>9, <1>10, <1>11, <1>12 DEF ListNext

\* What the theorem says of one step.
ShownStep ==
  \A k \in AllRuns :
    runs[k].at = "loading" /\ runs'[k].at = "none" =>
      listState'.error \/ list'.rev >= runs[k].led

LEMMA ListStep ==
  ASSUME ListInv, [ListNext]_listVars, NEW c \in AllRuns
  PROVE  /\ LoadOf(c)'
         /\ runs[c].at = "loading" /\ runs'[c].at = "none" =>
              listState'.error \/ list'.rev >= runs[c].led
<1>. DEFINE Goal == /\ LoadOf(c)'
                    /\ runs[c].at = "loading" /\ runs'[c].at = "none" =>
                         listState'.error \/ list'.rev >= runs[c].led
<1>. USE DEF ListInv, ListTypes, LoadOf, RunType, LoadType
<1>1. CASE UNCHANGED listVars
  BY <1>1 DEF listVars
<1>2. ASSUME NEW x \in TimerSlots, ListTick(x) PROVE Goal
  BY <1>2, ListAssumption DEF ListTick, AllRuns
<1>3. ASSUME NEW k \in RunSlots, NEW u \in Uids, NEW kind \in {"change", "remove"},
             RunAction(k, u, kind)
      PROVE  Goal
  BY <1>3 DEF RunAction, NoRun, AllRuns
<1>4. CASE RunBatch
  BY <1>4 DEF RunBatch, NoRun, AllRuns
<1>5. ASSUME NEW k \in AllRuns, HandleRun(k) PROVE Goal
  BY <1>5 DEF HandleRun, Altered
<1>6. ASSUME NEW k \in AllRuns, LoseRun(k) \/ RunAnswered(k) PROVE Goal
  <2>1. CASE LoseRun(k)
    BY <1>6, <2>1 DEF LoseRun
  <2>2. CASE RunAnswered(k)
    <3>1. CASE c = k
      <4>1. runs'[c].at = "loading" /\ runs'[c].led = runs[c].led /\ loads'[c].at = "sent"
        BY <2>2, <3>1 DEF RunAnswered
      <4>. QED BY <2>2, <3>1, <4>1 DEF RunAnswered
    <3>2. CASE c # k
      <4>1. runs'[c] = runs[c] /\ loads'[c] = loads[c] /\ pool' = pool
        BY <2>2, <3>2 DEF RunAnswered
      <4>. QED BY <4>1
    <3>. QED BY <3>1, <3>2
  <2>. QED BY <1>6, <2>1, <2>2
<1>6a. ASSUME NEW k \in AllRuns, RunFailed(k) PROVE Goal
  BY <1>6a, Nones DEF RunFailed
<1>7. ASSUME NEW x \in AllRuns \cup TimerSlots, HandleLoad(x) PROVE Goal
  BY <1>7 DEF HandleLoad
<1>8. ASSUME NEW x \in AllRuns \cup TimerSlots, LoseLoad(x) PROVE Goal
  BY <1>8 DEF LoseLoad, NoLoad
<1>9. ASSUME NEW x \in AllRuns \cup TimerSlots, Loaded(x) PROVE Goal
  <2>1. CASE x = c
    <3>1. runs'[c].at = "none"
      BY <1>9, <2>1, Nones DEF Loaded
    <3>2. runs[c].at = "loading" => listState'.error \/ list'.rev >= runs[c].led
      <4>1. CASE loads[x].at = "answered"
        <5>1. list' = loads[x].got
          BY <1>9, <4>1 DEF Loaded
        <5>2. loads[x].got.rev \in Nat /\ runs[c].led \in Nat
          OBVIOUS
        <5>. QED BY <2>1, <4>1, <5>1, <5>2
      <4>2. CASE loads[x].at = "failed"
        BY <1>9, <4>2 DEF Loaded
      <4>. QED BY <1>9, <4>1, <4>2 DEF Loaded
    <3>. QED BY <3>1, <3>2
  <2>2. CASE x # c
    <3>1. runs'[c] = runs[c] /\ loads'[c] = loads[c] /\ pool' = pool
      BY <1>9, <2>2 DEF Loaded
    <3>. QED BY <3>1
  <2>. QED BY <2>1, <2>2
<1>10. ASSUME NEW u \in Uids, PoolChange(u) PROVE Goal
  BY <1>10 DEF PoolChange, Altered
<1>. QED BY <1>1, <1>2, <1>3, <1>4, <1>5, <1>6, <1>6a, <1>7, <1>8, <1>9, <1>10 DEF ListNext

(* The load after an action shows what the action led to, or its error, whatever
   loads of the interval overtake it (AccountsPage.tsx:670-735).             *)
THEOREM ActionIsShown == PanelSpec => ActionShown
<1>1. PanelInit => ListInv
  BY ListStart DEF PanelInit
<1>2. ListInv /\ [PanelNext]_panelVars => ListInv'
  BY PartSteps, ListStep, ListTypesKept DEF ListInv
<1>3. ListInv /\ [PanelNext]_panelVars => [ShownStep]_listVars
  BY PartSteps, ListStep DEF ShownStep
<1>. QED BY <1>1, <1>2, <1>3, PTL DEF PanelSpec, ActionShown, ShownStep

-----------------------------------------------------------------------------
\* The dialog of logins: a question is asked for a login that has started, and
\* one that was told that none is under way was answered when that one was over.
TickType == [at: {"none", "sent", "answered"}, for: Nat, busy: BOOLEAN, count: Nat]
DialogTypes ==
  /\ begun \in Nat /\ login \in Nat /\ timer \in Nat /\ count \in Nat
  /\ ticks \in [TickSlots -> TickType]
DialogInv ==
  /\ DialogTypes
  /\ login <= begun /\ timer <= begun
  /\ starting = "started" => begun # NoLogin
  /\ \A x \in TickSlots :
       /\ ticks[x].for <= begun
       /\ ticks[x].at # "none" => ticks[x].for # NoLogin
       /\ ticks[x].at = "answered" /\ ~ticks[x].busy => ticks[x].for # login

LEMMA NoTickOK == NoTick \in TickType /\ NoTick.at = "none" /\ NoTick.for = 0
BY DEF NoTick, NoLogin, TickType

LEMMA DialogStart == DialogInit => DialogInv
BY NoTickOK DEF DialogInit, DialogInv, DialogTypes, NoLogin

LEMMA DialogStep ==
  ASSUME DialogInv, [DialogNext]_loginDialogVars PROVE DialogInv'
<1>. USE DEF DialogInv, DialogTypes, NoLogin, dialogServer, dialogState
<1>1. CASE UNCHANGED loginDialogVars
  BY <1>1 DEF loginDialogVars
<1>2. CASE LoginOver
  BY <1>2 DEF LoginOver
<1>3. CASE CancelHandled
  BY <1>3 DEF CancelHandled
<1>4. CASE LoginStarted
  BY <1>4 DEF LoginStarted, TickType
<1>5. CASE OpenDialog \/ CloseDialog \/ PickChannel \/ Counted \/ LoseStart
           \/ Wait \/ NotStarted
  BY <1>5 DEF OpenDialog, CloseDialog, PickChannel, Counted, LoseStart, Wait, NotStarted
<1>6. ASSUME NEW x \in TickSlots, Question(x) PROVE DialogInv'
  <2>. DEFINE t == [NoTick EXCEPT !.at = "sent", !.for = timer]
  <2>1. t \in TickType /\ t.for = timer /\ t.at = "sent"
    BY NoTickOK DEF TickType
  <2>2. ticks' = [ticks EXCEPT ![x] = t]
    BY <1>6 DEF Question
  <2>. HIDE DEF t
  <2>. QED BY <1>6, <2>1, <2>2 DEF Question
<1>7. ASSUME NEW x \in TickSlots, AnswerQuestion(x) PROVE DialogInv'
  <2>. DEFINE t == [ticks[x] EXCEPT !.at = "answered", !.busy = (login # NoLogin), !.count = count]
  <2>1. /\ t \in TickType /\ t.for = ticks[x].for /\ t.at = "answered"
        /\ ~t.busy => t.for # login
    <3>1. t.for = ticks[x].for /\ t.busy = (login # NoLogin) /\ t.at = "answered"
      BY DEF TickType
    <3>2. ticks[x].for # NoLogin
      BY <1>7 DEF AnswerQuestion
    <3>3. ~t.busy => login = NoLogin
      BY <3>1, Zenon
    <3>4. t \in TickType
      BY DEF TickType
    <3>. QED BY <3>1, <3>2, <3>3, <3>4
  <2>2. ticks' = [ticks EXCEPT ![x] = t] /\ ticks[x].at = "sent"
    BY <1>7 DEF AnswerQuestion
  <2>. HIDE DEF t
  <2>. QED BY <1>7, <2>1, <2>2 DEF AnswerQuestion
<1>8. ASSUME NEW x \in TickSlots, LoseQuestion(x) PROVE DialogInv'
  BY <1>8, NoTickOK DEF LoseQuestion
<1>9. ASSUME NEW x \in TickSlots, Told(x) PROVE DialogInv'
  BY <1>9, NoTickOK DEF Told
<1>. QED
  BY <1>1, <1>2, <1>3, <1>4, <1>5, <1>6, <1>7, <1>8, <1>9 DEF DialogNext, DialogProgress

\* What the theorem says of one step.
OverStep ==
  \A x \in TickSlots :
    Told(x) /\ ticks[x].for = timer /\ timer' # timer => login # timer

(* The wait for a login only ends by an answer to a question of its own when the
   login is over, whatever overtakes what (AccountsPage.tsx:132-150).        *)
THEOREM LoginIsOver == PanelSpec => ToldWhenOver
<1>1. PanelInit => DialogInv
  BY DialogStart DEF PanelInit
<1>2. DialogInv /\ [PanelNext]_panelVars => DialogInv'
  BY PartSteps, DialogStep
<1>3. DialogInv /\ [PanelNext]_panelVars => [OverStep]_loginDialogVars
  BY DEF OverStep, DialogInv, DialogTypes, Told, dialogState
<1>. QED BY <1>1, <1>2, <1>3, PTL DEF PanelSpec, ToldWhenOver, OverStep

-----------------------------------------------------------------------------
\* The dialog of imports.  A list made while no run went on is that of the only
\* run, if there is one, and marked as far as that run is, or was closed away;
\* as long as a file accepted is not loaded, a run that knows of one goes on.
Statuses == {"pending", "importing", "ok", "error"}
ItemType == [file: Files \cup {NotJson}, status: Statuses]
WorkType == [at: {"none", "reading", "sent", "ok", "error"}, entries: Seq(Files), i: Nat,
             anyOk: BOOLEAN]
ImportTypes ==
  /\ imported \subseteq Files /\ unlisted \subseteq Files /\ mixed \in BOOLEAN
  /\ items \in Seq(ItemType)
  /\ works \in [ImportRuns -> WorkType]

IsGoing(k) == works[k].at \in {"sent", "ok", "error"}
EntriesOK(w) == /\ w.at # "none" => w.entries # <<>>
                /\ w.at \in {"sent", "ok", "error"} => w.i \in 1 .. Len(w.entries)
                /\ w.at = "ok" => w.entries[w.i] \in imported

\* The list is that of run w, so far.
ListedSoFar(w) ==
  items # <<>> =>
    /\ Len(items) = Len(w.entries)
    /\ \A n \in 1 .. Len(items) : /\ items[n].file = w.entries[n]
                                  /\ n < w.i => items[n].status \in {"ok", "error"}
OneRun ==
  ~mixed => \A k \in ImportRuns : IsGoing(k) =>
              ListedSoFar(works[k]) /\ \A j \in ImportRuns : IsGoing(j) => j = k
Unloaded == unlisted # {} => \E k \in ImportRuns : IsGoing(k) /\ works[k].anyOk
OkImported == ~mixed => \A n \in 1 .. Len(items) : items[n].status = "ok" => items[n].file \in imported
AllMarked == ~mixed /\ (\A k \in ImportRuns : ~IsGoing(k)) =>
               \A n \in 1 .. Len(items) : items[n].status \in {"ok", "error"}

ImportInv == /\ ImportTypes /\ \A k \in ImportRuns : EntriesOK(works[k])
             /\ OneRun /\ Unloaded /\ OkImported /\ AllMarked

LEMMA GoingNone == Going = {} <=> \A k \in ImportRuns : ~IsGoing(k)
BY DEF Going, IsGoing

LEMMA ImportFollows == ASSUME ImportInv PROVE ImportsTold
<1>1. DOMAIN items = 1 .. Len(items)
  BY DEF ImportInv, ImportTypes
<1>. QED BY <1>1, GoingNone DEF ImportInv, ImportsTold, OkImported, AllMarked, Unloaded

LEMMA NoWorkOK == NoWork \in WorkType /\ NoWork.at = "none"
BY DEF NoWork, WorkType

LEMMA ImportStart == ASSUME ImportInit PROVE ImportInv
<1>1. ImportTypes
  <2>1. <<>> \in Seq(ItemType)
    BY EmptySeq
  <2>. QED BY <2>1, NoWorkOK DEF ImportInit, ImportTypes
<1>2. \A k \in ImportRuns : works[k].at = "none"
  BY NoWorkOK DEF ImportInit
<1>3. Len(items) = 0 /\ unlisted = {}
  BY DEF ImportInit
<1>. QED
  BY <1>1, <1>2, <1>3
     DEF ImportInv, EntriesOK, OneRun, Unloaded, OkImported, AllMarked, IsGoing

\* What a run may be given.
LEMMA EntriesAre ==
  ASSUME NEW e \in Entries
  PROVE  e \in Seq(Files) /\ e # <<>> /\ Len(e) \in Nat \ {0} /\ \A n \in 1 .. Len(e) : e[n] \in Files
<1>1. CASE \E f \in Files : e = <<f>>
  BY <1>1
<1>2. CASE \E f, g \in Files : e = <<f, g>>
  BY <1>2
<1>3. CASE e \in Files \X Files
  BY <1>2, <1>3
<1>. QED BY <1>1, <1>3 DEF Entries

IsPatch(p, its, i, status) ==
  /\ p \in Seq(ItemType) /\ Len(p) = Len(its)
  /\ \A n \in 1 .. Len(its) : /\ p[n].file = its[n].file
                               /\ p[n].status = IF n = i THEN status ELSE its[n].status

LEMMA Patched ==
  ASSUME NEW its \in Seq(ItemType), NEW i \in Nat \ {0}, NEW status \in Statuses
  PROVE  IsPatch(Patch(its, i, status), its, i, status)
<1>1. DOMAIN its = 1 .. Len(its) /\ Len(its) \in Nat
  OBVIOUS
<1>2. CASE i \notin 1 .. Len(its)
  BY <1>1, <1>2 DEF Patch, IsPatch
<1>3. CASE i \in 1 .. Len(its)
  <2>. DEFINE t == [its[i] EXCEPT !.status = status]
  <2>1. t \in ItemType /\ t.file = its[i].file /\ t.status = status
    <3>1. its[i] \in ItemType
      BY <1>3
    <3>. QED BY <3>1 DEF ItemType
  <2>2. Patch(its, i, status) = [its EXCEPT ![i] = t]
    BY <1>1, <1>3 DEF Patch
  <2>. HIDE DEF t
  <2>. QED BY <1>3, <2>1, <2>2, ExceptSeq DEF IsPatch
<1>. QED BY <1>2, <1>3

\* What replacing one run leaves of the others.
LEMMA OneWork ==
  ASSUME ImportTypes, NEW k \in ImportRuns, NEW w \in WorkType, works' = [works EXCEPT ![k] = w]
  PROVE  /\ works' \in [ImportRuns -> WorkType] /\ works'[k] = w
         /\ \A j \in ImportRuns : j # k => works'[j] = works[j]
BY DEF ImportTypes

LEMMA RunStarts ==
  ASSUME ImportInv, NEW k \in ImportRuns, NEW entries \in Seq(Files), entries # <<>>, ~IsGoing(k),
         RunImports(k, entries)
  PROVE  ImportInv'
<1>. DEFINE w == [at |-> "sent", entries |-> entries, i |-> 1, anyOk |-> FALSE]
<1>1. /\ w \in WorkType /\ w.at = "sent" /\ w.i = 1 /\ w.entries = entries
      /\ works' = [works EXCEPT ![k] = w]
  BY DEF RunImports, WorkType
<1>. HIDE DEF w
<1>2. /\ works' \in [ImportRuns -> WorkType] /\ works'[k] = w
      /\ \A j \in ImportRuns : j # k => works'[j] = works[j]
  BY <1>1, OneWork DEF ImportInv
<1>3. /\ items' \in Seq(ItemType) /\ Len(items') = Len(entries) /\ Len(entries) \in Nat \ {0}
      /\ \A n \in 1 .. Len(items') :
           items'[n].file = entries[n] /\ items'[n].status \in {"importing", "pending"}
  <2>1. DOMAIN entries = 1 .. Len(entries) /\ Len(entries) \in Nat \ {0}
        /\ \A n \in 1 .. Len(entries) : entries[n] \in Files
    BY EmptySeq
  <2>2. \A n \in 1 .. Len(entries) :
          [file |-> entries[n], status |-> IF n = 1 THEN "importing" ELSE "pending"] \in ItemType
    BY <2>1 DEF ItemType, Statuses
  <2>. QED BY <2>1, <2>2 DEF RunImports
<1>4. ImportTypes'
  <2>1. mixed' \in BOOLEAN
    BY DEF RunImports
  <2>. QED BY <1>2, <1>3, <2>1 DEF RunImports, ImportInv, ImportTypes
<1>5. ASSUME NEW j \in ImportRuns PROVE EntriesOK(works[j])'
  <2>1. EntriesOK(works[j]) /\ imported' = imported
    BY DEF ImportInv, RunImports
  <2>. QED BY <1>1, <1>2, <1>3, <2>1 DEF EntriesOK
<1>6. IsGoing(k)' /\ \A j \in ImportRuns : j # k => (IsGoing(j)' <=> IsGoing(j))
  BY <1>1, <1>2 DEF IsGoing
<1>7. OneRun'
  <2>1. ~mixed' => \A j \in ImportRuns : ~IsGoing(j)
    BY GoingNone DEF RunImports
  <2>2. ListedSoFar(works[k])'
    BY <1>1, <1>2, <1>3 DEF ListedSoFar
  <2>. QED BY <1>6, <2>1, <2>2 DEF OneRun
<1>8. Unloaded'
  BY <1>2, <1>6 DEF ImportInv, Unloaded, RunImports
<1>9. OkImported' /\ AllMarked'
  BY <1>3, <1>6 DEF OkImported, AllMarked
<1>. QED BY <1>4, <1>5, <1>7, <1>8, <1>9 DEF ImportInv

\* The steps that change no run that goes on, but may change the list.
LEMMA ListSteps ==
  ASSUME ImportInv, OpenImport \/ CloseImport \/ PasteNothing \/ PickNothing \/ UNCHANGED importVars
  PROVE  ImportInv'
<1>1. UNCHANGED <<imported, works, unlisted>>
  BY DEF OpenImport, CloseImport, PasteNothing, PickNothing, importVars
<1>2. (\A k \in ImportRuns : EntriesOK(works[k])') /\ Unloaded'
  BY <1>1 DEF ImportInv, EntriesOK, Unloaded, IsGoing
<1>3. CASE UNCHANGED items /\ UNCHANGED mixed
  BY <1>1, <1>2, <1>3
     DEF ImportInv, ImportTypes, OneRun, ListedSoFar, OkImported, AllMarked, IsGoing
<1>4. CASE items' = <<>> /\ UNCHANGED mixed
  <2>1. <<>> \in Seq(ItemType) /\ Len(<<>>) = 0
    BY EmptySeq
  <2>. QED
    BY <1>1, <1>2, <1>4, <2>1
       DEF ImportInv, ImportTypes, OneRun, ListedSoFar, OkImported, AllMarked, IsGoing
<1>5. CASE PickNothing
  <2>. DEFINE item == [file |-> NotJson, status |-> "error"]
  <2>1. item \in ItemType /\ item.status = "error" /\ items' = <<item>>
    BY <1>5 DEF PickNothing, ItemType, Statuses
  <2>. HIDE DEF item
  <2>2. items' \in Seq(ItemType) /\ Len(items') = 1 /\ items'[1] = item
    BY <2>1
  <2>3. mixed' \in BOOLEAN /\ (~mixed' => \A k \in ImportRuns : ~IsGoing(k))
    BY <1>5, GoingNone DEF PickNothing
  <2>4. \A k \in ImportRuns : IsGoing(k)' <=> IsGoing(k)
    BY <1>1 DEF IsGoing
  <2>5. ImportTypes'
    BY <1>1, <2>2, <2>3 DEF ImportInv, ImportTypes
  <2>6. OneRun' /\ OkImported' /\ AllMarked'
    BY <2>1, <2>2, <2>3, <2>4 DEF OneRun, OkImported, AllMarked
  <2>. QED BY <1>2, <2>5, <2>6 DEF ImportInv
<1>. QED
  BY <1>3, <1>4, <1>5 DEF OpenImport, CloseImport, PasteNothing, importVars

\* A run that changes neither the list nor what it has got to.
LEMMA RunAlone ==
  ASSUME ImportInv, NEW k \in ImportRuns, NEW w \in WorkType,
         works' = [works EXCEPT ![k] = w],
         UNCHANGED <<items, mixed, unlisted>>,
         imported \subseteq imported', imported' \subseteq Files,
         w.at # "none" => w.entries # <<>>,
         w.at = "ok" => w.entries[w.i] \in imported',
         IsGoing(k) <=> w.at \in {"sent", "ok", "error"},
         IsGoing(k) => /\ w.entries = works[k].entries /\ w.i = works[k].i
                       /\ w.anyOk = works[k].anyOk
  PROVE  ImportInv'
<1>1. /\ works' \in [ImportRuns -> WorkType] /\ works'[k] = w
      /\ \A j \in ImportRuns : j # k => works'[j] = works[j]
  BY OneWork DEF ImportInv
<1>2. ImportTypes'
  BY <1>1 DEF ImportInv, ImportTypes
<1>3. \A j \in ImportRuns : IsGoing(j)' <=> IsGoing(j)
  BY <1>1 DEF IsGoing
<1>4. \A j \in ImportRuns : IsGoing(j) =>
        /\ works'[j].entries = works[j].entries /\ works'[j].i = works[j].i
        /\ works'[j].anyOk = works[j].anyOk
  BY <1>1
<1>5. ASSUME NEW j \in ImportRuns PROVE EntriesOK(works[j])'
  BY <1>1, <1>4 DEF ImportInv, EntriesOK, IsGoing
<1>6. OneRun'
  BY <1>3, <1>4 DEF ImportInv, OneRun, ListedSoFar
<1>7. Unloaded' /\ OkImported' /\ AllMarked'
  BY <1>3, <1>4 DEF ImportInv, Unloaded, OkImported, AllMarked
<1>. QED BY <1>2, <1>5, <1>6, <1>7 DEF ImportInv

LEMMA RunSteps ==
  ASSUME ImportInv, NEW k \in ImportRuns,
         \/ HandleImport(k) \/ LoseImport(k)
         \/ \E entries \in Entries : PickFiles(k, entries)
  PROVE  ImportInv'
<1>0. works[k] \in WorkType /\ EntriesOK(works[k]) /\ imported \subseteq Files
  BY DEF ImportInv, ImportTypes
<1>1. ASSUME NEW entries \in Entries, PickFiles(k, entries) PROVE ImportInv'
  <2>. DEFINE w == [NoWork EXCEPT !.at = "reading", !.entries = entries]
  <2>1. w \in WorkType /\ w.at = "reading" /\ w.entries = entries
    BY EntriesAre, NoWorkOK DEF WorkType
  <2>2. works' = [works EXCEPT ![k] = w] /\ ~IsGoing(k)
    BY <1>1 DEF PickFiles, FreeRun, IsGoing
  <2>. HIDE DEF w
  <2>. QED BY <1>0, <1>1, <2>1, <2>2, EntriesAre, RunAlone DEF PickFiles
<1>2. ASSUME HandleImport(k) PROVE ImportInv'
  <2>1. PICK outcome \in {"ok", "error"} :
          /\ works' = [works EXCEPT ![k].at = outcome]
          /\ imported' = IF outcome = "ok" THEN imported \cup {works[k].entries[works[k].i]}
                         ELSE imported
    BY <1>2 DEF HandleImport
  <2>. DEFINE w == [works[k] EXCEPT !.at = outcome]
  <2>2. /\ w \in WorkType /\ w.at = outcome /\ w.entries = works[k].entries
        /\ w.i = works[k].i /\ w.anyOk = works[k].anyOk
    BY <1>0 DEF WorkType
  <2>3. works' = [works EXCEPT ![k] = w]
    BY <2>1
  <2>. HIDE DEF w
  <2>4. IsGoing(k) /\ works[k].entries # <<>> /\ works[k].entries[works[k].i] \in Files
    BY <1>0, <1>2 DEF HandleImport, IsGoing, EntriesOK, WorkType
  <2>5. /\ imported \subseteq imported' /\ imported' \subseteq Files
        /\ w.at = "ok" => w.entries[w.i] \in imported'
    BY <1>0, <2>1, <2>2, <2>4
  <2>6. UNCHANGED <<items, mixed, unlisted>>
    BY <1>2 DEF HandleImport
  <2>. QED BY <2>2, <2>3, <2>4, <2>5, <2>6, RunAlone
<1>3. ASSUME LoseImport(k) PROVE ImportInv'
  <2>. DEFINE w == [works[k] EXCEPT !.at = "error"]
  <2>1. /\ w \in WorkType /\ w.at = "error" /\ w.entries = works[k].entries
        /\ w.i = works[k].i /\ w.anyOk = works[k].anyOk
    BY <1>0 DEF WorkType
  <2>2. works' = [works EXCEPT ![k] = w]
    BY <1>3 DEF LoseImport
  <2>. HIDE DEF w
  <2>3. IsGoing(k) /\ works[k].entries # <<>>
    BY <1>0, <1>3 DEF LoseImport, IsGoing, EntriesOK
  <2>. QED BY <1>0, <1>3, <2>1, <2>2, <2>3, RunAlone DEF LoseImport
<1>. QED BY <1>1, <1>2, <1>3

\* The file a run has come to, and its mark.
LEMMA MarkFacts ==
  ASSUME ImportInv, NEW k \in ImportRuns, Mark(k)
  PROVE  /\ works[k] \in WorkType /\ IsGoing(k) /\ works[k].at \in {"ok", "error"}
         /\ works[k].i \in 1 .. Len(works[k].entries) /\ Len(works[k].entries) \in Nat
         /\ works[k].entries[works[k].i] \in Files
         /\ works[k].at = "ok" => works[k].entries[works[k].i] \in imported
         /\ UNCHANGED <<imported, mixed>>
<1>1. works[k] \in WorkType /\ EntriesOK(works[k]) /\ works[k].at \in {"ok", "error"}
      /\ UNCHANGED <<imported, mixed>>
  BY DEF ImportInv, ImportTypes, Mark
<1>. QED BY <1>1 DEF EntriesOK, WorkType, IsGoing

LEMMA MarkNext ==
  ASSUME ImportInv, NEW k \in ImportRuns, Mark(k), works[k].i < Len(works[k].entries)
  PROVE  ImportInv'
<1>. DEFINE v == works[k]
            any == v.anyOk \/ v.at = "ok"
            w == [v EXCEPT !.at = "sent", !.i = @ + 1, !.anyOk = any]
            done == Patch(items, v.i, v.at)
<1>1. /\ v \in WorkType /\ IsGoing(k) /\ v.at \in {"ok", "error"}
      /\ v.i \in 1 .. Len(v.entries) /\ Len(v.entries) \in Nat
      /\ v.at = "ok" => v.entries[v.i] \in imported
      /\ v.entries[v.i] \in Files
      /\ UNCHANGED <<imported, mixed>>
  BY MarkFacts
<1>2. /\ w \in WorkType /\ w.at = "sent" /\ w.i = v.i + 1 /\ w.entries = v.entries
      /\ any => w.anyOk
  <2>1. v.i + 1 \in Nat /\ any \in BOOLEAN
    BY <1>1 DEF WorkType
  <2>2. v \in WorkType
    BY <1>1
  <2>. HIDE DEF v, any
  <2>. QED BY <2>1, <2>2 DEF WorkType
<1>3. /\ works' = [works EXCEPT ![k] = w]
      /\ items' = Patch(done, v.i + 1, "importing")
      /\ unlisted' = IF v.at = "ok" THEN unlisted \cup {v.entries[v.i]} ELSE unlisted
  <2>1. works' = [works EXCEPT ![k] = w]
    BY DEF Mark
  <2>2. items' = Patch(done, v.i + 1, "importing")
    BY DEF Mark
  <2>. QED BY <2>1, <2>2 DEF Mark
<1>4. /\ items' \in Seq(ItemType) /\ Len(items') = Len(items)
      /\ \A n \in 1 .. Len(items) :
           /\ items'[n].file = items[n].file
           /\ items'[n].status = IF n = v.i + 1 THEN "importing"
                                 ELSE IF n = v.i THEN v.at ELSE items[n].status
  <2>1. v.i \in Nat \ {0} /\ v.i + 1 \in Nat \ {0} /\ v.at \in Statuses /\ "importing" \in Statuses
    BY <1>1 DEF Statuses
  <2>2. items \in Seq(ItemType)
    BY DEF ImportInv, ImportTypes
  <2>3. IsPatch(done, items, v.i, v.at)
    <3>. HIDE DEF v
    <3>. QED BY <2>1, <2>2, Patched
  <2>. HIDE DEF v, done
  <2>4. IsPatch(Patch(done, v.i + 1, "importing"), done, v.i + 1, "importing")
    <3>1. done \in Seq(ItemType)
      BY <2>3 DEF IsPatch
    <3>. QED BY <2>1, <3>1, Patched
  <2>. QED BY <1>3, <2>3, <2>4 DEF IsPatch
<1>. HIDE DEF w, any, done
<1>5. /\ works' \in [ImportRuns -> WorkType] /\ works'[k] = w
      /\ \A j \in ImportRuns : j # k => works'[j] = works[j]
  BY <1>2, <1>3, OneWork DEF ImportInv
<1>6. ImportTypes'
  BY <1>1, <1>3, <1>4, <1>5 DEF ImportInv, ImportTypes
<1>7. ASSUME NEW j \in ImportRuns PROVE EntriesOK(works[j])'
  <2>1. EntriesOK(works[j]) /\ EntriesOK(v)
    BY DEF ImportInv
  <2>. QED BY <1>1, <1>2, <1>5, <2>1 DEF EntriesOK
<1>8. \A j \in ImportRuns : IsGoing(j)' <=> IsGoing(j)
  BY <1>1, <1>2, <1>5 DEF IsGoing
<1>9. OneRun'
  <2>. SUFFICES ASSUME ~mixed PROVE ListedSoFar(works[k])' /\ \A j \in ImportRuns : IsGoing(j) => j = k
    BY <1>1, <1>8 DEF OneRun
  <2>1. ListedSoFar(v) /\ \A j \in ImportRuns : IsGoing(j) => j = k
    BY <1>1 DEF ImportInv, OneRun
  <2>2. items' # <<>> => items # <<>>
    BY <1>4, EmptySeq DEF ImportInv, ImportTypes
  <2>3. ASSUME items' # <<>>
        PROVE  /\ Len(items') = Len(w.entries)
               /\ \A n \in 1 .. Len(items') :
                    /\ items'[n].file = w.entries[n]
                    /\ n < w.i => items'[n].status \in {"ok", "error"}
    <3>1. /\ Len(items) = Len(v.entries)
          /\ \A n \in 1 .. Len(items) : /\ items[n].file = v.entries[n]
                                        /\ n < v.i => items[n].status \in {"ok", "error"}
      BY <2>1, <2>2, <2>3 DEF ListedSoFar
    <3>. QED BY <1>1, <1>2, <1>4, <3>1
  <2>. QED BY <1>5, <2>1, <2>3 DEF ListedSoFar
<1>10. OkImported'
  <2>. SUFFICES ASSUME ~mixed, NEW n \in 1 .. Len(items), items'[n].status = "ok"
                PROVE  items'[n].file \in imported
    BY <1>1, <1>4 DEF OkImported
  <2>1. ListedSoFar(v)
    BY <1>1 DEF ImportInv, OneRun
  <2>2. CASE n = v.i
    <3>1. items # <<>> /\ items'[n].file = items[n].file /\ v.at = "ok"
      BY <1>1, <1>4, <2>2 DEF ImportInv, ImportTypes
    <3>. QED BY <1>1, <2>1, <2>2, <3>1 DEF ListedSoFar
  <2>3. CASE n # v.i
    BY <1>4, <2>3 DEF ImportInv, OkImported
  <2>. QED BY <2>2, <2>3
<1>11. AllMarked'
  BY <1>1, <1>8 DEF AllMarked
<1>12. Unloaded'
  <2>. SUFFICES ASSUME unlisted' # {} PROVE \E j \in ImportRuns : IsGoing(j) /\ works'[j].anyOk
    BY <1>8 DEF Unloaded
  <2>1. CASE v.at = "ok"
    BY <1>1, <1>2, <1>5, <2>1 DEF any
  <2>2. CASE v.at # "ok"
    <3>1. PICK j \in ImportRuns : IsGoing(j) /\ works[j].anyOk
      BY <1>3, <2>2 DEF ImportInv, Unloaded
    <3>. QED BY <1>2, <1>5, <3>1 DEF any
  <2>. QED BY <2>1, <2>2
<1>. QED BY <1>6, <1>7, <1>9, <1>10, <1>11, <1>12 DEF ImportInv

LEMMA MarkEnd ==
  ASSUME ImportInv, NEW k \in ImportRuns, Mark(k), ~(works[k].i < Len(works[k].entries))
  PROVE  ImportInv'
<1>. DEFINE v == works[k]
<1>1. /\ v \in WorkType /\ IsGoing(k) /\ v.at \in {"ok", "error"}
      /\ v.i = Len(v.entries) /\ v.i \in Nat \ {0}
      /\ v.at = "ok" => v.entries[v.i] \in imported
      /\ UNCHANGED <<imported, mixed>>
  BY MarkFacts
<1>2. /\ works' = [works EXCEPT ![k] = NoWork]
      /\ items' = Patch(items, v.i, v.at)
      /\ v.anyOk \/ v.at = "ok" => unlisted' = {}
      /\ ~(v.anyOk \/ v.at = "ok") => unlisted' = unlisted
  BY DEF Mark
<1>3. IsPatch(items', items, v.i, v.at)
  BY <1>1, <1>2, Patched DEF ImportInv, ImportTypes, Statuses
<1>. HIDE DEF v
<1>4. /\ works' \in [ImportRuns -> WorkType] /\ works'[k] = NoWork
      /\ \A j \in ImportRuns : j # k => works'[j] = works[j]
  BY <1>2, OneWork, NoWorkOK DEF ImportInv
<1>5. ImportTypes'
  BY <1>1, <1>2, <1>3, <1>4 DEF ImportInv, ImportTypes, IsPatch
<1>6. ASSUME NEW j \in ImportRuns PROVE EntriesOK(works[j])'
  <2>1. EntriesOK(works[j])
    BY DEF ImportInv
  <2>. QED BY <1>1, <1>4, <2>1, NoWorkOK DEF EntriesOK
<1>7. \A j \in ImportRuns : IsGoing(j)' <=> IsGoing(j) /\ j # k
  BY <1>4, NoWorkOK DEF IsGoing
<1>8. ~mixed => ListedSoFar(v) /\ \A j \in ImportRuns : IsGoing(j) => j = k
  BY <1>1 DEF ImportInv, OneRun, v
<1>9. OneRun'
  BY <1>1, <1>7, <1>8 DEF OneRun
<1>10. items # <<>> \/ Len(items) = 0
  BY EmptySeq DEF ImportInv, ImportTypes
<1>11. OkImported'
  <2>. SUFFICES ASSUME ~mixed, NEW n \in 1 .. Len(items), items'[n].status = "ok"
                PROVE  items'[n].file \in imported
    BY <1>1, <1>3 DEF OkImported, IsPatch
  <2>1. CASE n = v.i
    <3>1. items # <<>> /\ items'[n].file = items[n].file /\ v.at = "ok"
      BY <1>1, <1>3, <1>10, <2>1 DEF ImportInv, ImportTypes, IsPatch
    <3>. QED BY <1>1, <1>8, <2>1, <3>1 DEF ListedSoFar
  <2>2. CASE n # v.i
    BY <1>3, <2>2 DEF ImportInv, OkImported, IsPatch
  <2>. QED BY <2>1, <2>2
<1>12. AllMarked'
  <2>. SUFFICES ASSUME ~mixed, NEW n \in 1 .. Len(items) PROVE items'[n].status \in {"ok", "error"}
    BY <1>1, <1>3 DEF AllMarked, IsPatch
  <2>1. Len(items) = v.i /\ (n < v.i => items[n].status \in {"ok", "error"})
    BY <1>1, <1>8, <1>10 DEF ListedSoFar, ImportInv, ImportTypes
  <2>2. CASE n = v.i
    BY <1>1, <1>3, <2>2 DEF IsPatch
  <2>3. CASE n # v.i
    BY <1>1, <1>3, <2>1, <2>3 DEF IsPatch
  <2>. QED BY <2>2, <2>3
<1>13. Unloaded'
  <2>. SUFFICES ASSUME unlisted' # {} PROVE \E j \in ImportRuns : IsGoing(j)' /\ works'[j].anyOk
    BY DEF Unloaded
  <2>1. ~v.anyOk /\ unlisted # {}
    BY <1>2
  <2>2. PICK j \in ImportRuns : IsGoing(j) /\ works[j].anyOk
    BY <2>1 DEF ImportInv, Unloaded
  <2>. QED BY <1>4, <1>7, <2>1, <2>2 DEF v
<1>. QED BY <1>5, <1>6, <1>9, <1>11, <1>12, <1>13 DEF ImportInv

LEMMA ImportStep == ASSUME ImportInv, [ImportNext]_importVars PROVE ImportInv'
<1>1. ASSUME NEW k \in ImportRuns, NEW entries \in Entries, PasteImport(k, entries)
      PROVE  ImportInv'
  <2>1. ~IsGoing(k) /\ RunImports(k, entries) /\ entries \in Seq(Files) /\ entries # <<>>
    BY <1>1, EntriesAre DEF PasteImport, PasteOffered, FreeRun, IsGoing
  <2>. QED BY <2>1, RunStarts
<1>2. ASSUME NEW k \in ImportRuns, FilesRead(k) PROVE ImportInv'
  <2>1. ~IsGoing(k) /\ RunImports(k, works[k].entries)
    BY <1>2 DEF FilesRead, IsGoing
  <2>2. works[k].entries \in Seq(Files) /\ works[k].entries # <<>>
    BY <1>2 DEF FilesRead, ImportInv, ImportTypes, EntriesOK, WorkType
  <2>. QED BY <2>1, <2>2, RunStarts
<1>3. ASSUME NEW k \in ImportRuns, Mark(k) PROVE ImportInv'
  BY <1>3, MarkNext, MarkEnd
<1>. QED BY <1>1, <1>2, <1>3, ListSteps, RunSteps DEF ImportNext

(* What the dialog says of an import is true, and no accepted file is left out
   of the accounts when no import goes on, for any number of files and of runs
   that overlap (AccountsPage.tsx:281-352).                                  *)
THEOREM ImportsAreTold == PanelSpec => []ImportsTold
<1>1. PanelInit => ImportInv
  BY ImportStart DEF PanelInit
<1>2. ImportInv /\ [PanelNext]_panelVars => ImportInv'
  BY PartSteps, ImportStep
<1>3. ImportInv => ImportsTold
  BY ImportFollows
<1>. QED BY <1>1, <1>2, <1>3, PTL DEF PanelSpec

-----------------------------------------------------------------------------
\* The polling hook: whatever waits for a request waits for one under way, every
\* loop but the latest is told that it is over, and those to come are untouched.
LoopType == [at: {"none", "request", "chained", "timer", "over"}, on: Requests \cup {NoReq},
             cancelled: BOOLEAN]
AskType == [at: {"free", "sent", "answered", "failed"}, gen: Gens \cup {NoReq}, val: Nat]
Chains == [Requests -> [Gens -> Nat]]
PollTypes ==
  /\ enabled \in BOOLEAN /\ generation \in Gens
  /\ inFlight \in Requests \cup {NoReq}
  /\ reqs \in [Requests -> AskType]
  /\ loops \in [Gens -> LoopType] /\ chained \in Chains
Awaits(g) == loops[g].at \in {"request", "chained"}
Latest(g) == enabled /\ g = generation
LoopOK(g) ==
  /\ Awaits(g) => loops[g].on \in Requests /\ reqs[loops[g].on].at # "free"
  /\ Latest(g) => ~loops[g].cancelled /\ (loops[g].at = "timer" \/ Awaits(g))
  /\ ~Latest(g) => loops[g].at # "timer" /\ (Awaits(g) => loops[g].cancelled)
  /\ g >= generation /\ ~Latest(g) => loops[g].at = "none" /\ ~loops[g].cancelled
FlightOK == inFlight # NoReq => reqs[inFlight].at # "free"
PollInv == PollTypes /\ FlightOK /\ \A g \in Gens : LoopOK(g)

LEMMA PollFollows == ASSUME PollInv PROVE PollingAlive
<1>1. generation \in Gens /\ \A g \in Gens : LoopOK(g)
  BY DEF PollInv, PollTypes
<1>2. enabled => ~loops[generation].cancelled
  BY <1>1 DEF LoopOK, Latest
<1>3. enabled => \/ loops[generation].at = "timer"
                 \/ /\ loops[generation].at \in {"request", "chained"}
                    /\ reqs[loops[generation].on].at # "free"
  BY <1>1 DEF LoopOK, Latest, Awaits
<1>4. \A g \in Gens : loops[g].at = "timer" => enabled /\ g = generation
  BY <1>1 DEF LoopOK, Latest
<1>. QED BY <1>2, <1>3, <1>4 DEF PollingAlive

LEMMA PollStart == ASSUME PollInit PROVE PollInv
<1>. USE PollAssumption DEF NoReq, Gens
<1>1. PollTypes
  <2>1. NoLoop \in LoopType /\ [at |-> "request", on |-> 1, cancelled |-> FALSE] \in LoopType
    BY DEF NoLoop, LoopType
  <2>2. FreeSlot \in AskType /\ [at |-> "sent", gen |-> 1, val |-> 0] \in AskType
    BY DEF FreeSlot, AskType
  <2>3. chained \in Chains
    BY DEF PollInit, Chains, NoChain
  <2>. QED BY <2>1, <2>2, <2>3 DEF PollInit, PollTypes
<1>2. FlightOK
  BY DEF PollInit, FlightOK
<1>3. ASSUME NEW g \in Gens PROVE LoopOK(g)
  BY DEF PollInit, LoopOK, Latest, Awaits, NoLoop
<1>. QED BY <1>1, <1>2, <1>3 DEF PollInv

\* Steps that leave the loops and the requests as they are.
LEMMA PollIdle ==
  ASSUME PollInv, UNCHANGED <<enabled, generation, inFlight, reqs, loops>>, chained' \in Chains
  PROVE  PollInv'
BY DEF PollInv, PollTypes, FlightOK, LoopOK, Latest, Awaits

\* Steps that free no request and leave the loops as they are.
LEMMA PollRequests ==
  ASSUME PollInv, UNCHANGED <<enabled, generation, loops>>, chained' \in Chains,
         reqs' \in [Requests -> AskType], inFlight' \in Requests \cup {NoReq}, FlightOK',
         \A r \in Requests : reqs[r].at # "free" => reqs'[r].at # "free"
  PROVE  PollInv'
BY DEF PollInv, PollTypes, LoopOK, Latest, Awaits

LEMMA PollAnswers ==
  ASSUME PollInv, source \in Nat, NEW r \in Requests, Serve(r) \/ Fail(r) PROVE PollInv'
<1>1. /\ UNCHANGED <<enabled, generation, loops, inFlight>> /\ reqs' \in [Requests -> AskType]
      /\ \A q \in Requests : reqs[q].at # "free" => reqs'[q].at # "free"
  <2>1. reqs \in [Requests -> AskType] /\ reqs[r] \in AskType
    BY DEF PollInv, PollTypes
  <2>2. CASE Serve(r)
    BY <2>1, <2>2 DEF Serve, AskType
  <2>3. CASE Fail(r)
    BY <2>1, <2>3 DEF Fail, AskType
  <2>. QED BY <2>2, <2>3
<1>2. inFlight' \in Requests \cup {NoReq} /\ FlightOK' /\ chained' \in Chains
  BY <1>1 DEF PollInv, PollTypes, FlightOK, Serve, Fail
<1>. QED BY <1>1, <1>2, PollRequests

\* A refresh is chained to the request under way.
LEMMA OneMoreChained ==
  ASSUME PollInv, inFlight # NoReq,
         \/ chained' = chained
         \/ chained' = [chained EXCEPT ![inFlight][generation] = @ + 1]
  PROVE  chained' \in Chains
<1>1. inFlight \in Requests /\ generation \in Gens /\ chained \in Chains
  BY DEF PollInv, PollTypes
<1>2. CASE chained' = [chained EXCEPT ![inFlight][generation] = @ + 1]
  <2>. DEFINE c == [chained[inFlight] EXCEPT ![generation] = @ + 1]
  <2>1. c \in [Gens -> Nat]
    BY <1>1 DEF Chains
  <2>2. chained' = [chained EXCEPT ![inFlight] = c]
    BY <1>2
  <2>. QED BY <1>1, <2>1, <2>2 DEF Chains
<1>. QED BY <1>1, <1>2

LEMMA PollRefresh == ASSUME PollInv, Refresh PROVE PollInv'
<1>1. CASE inFlight = NoReq
  <2>1. PICK r \in Unstarted :
          /\ reqs' = [reqs EXCEPT ![r] = [at |-> "sent", gen |-> generation, val |-> 0]]
          /\ inFlight' = r /\ UNCHANGED <<enabled, generation, loops, chained>>
    BY <1>1 DEF Refresh
  <2>2. r \in Requests /\ [at |-> "sent", gen |-> generation, val |-> 0] \in AskType
    BY <2>1 DEF Unstarted, AskType, PollInv, PollTypes
  <2>2a. reqs' \in [Requests -> AskType]
         /\ \A q \in Requests : reqs'[q].at # "free" \/ reqs'[q] = reqs[q]
    BY <2>1, <2>2 DEF PollInv, PollTypes
  <2>3. FlightOK'
    BY <2>1, <2>2, <2>2a DEF FlightOK, PollInv, PollTypes
  <2>4. chained' \in Chains
    BY <2>1 DEF PollInv, PollTypes
  <2>. QED BY <2>1, <2>2, <2>2a, <2>3, <2>4, PollRequests
<1>2. CASE inFlight # NoReq
  <2>1. /\ UNCHANGED <<enabled, generation, inFlight, reqs, loops>>
        /\ \/ chained' = chained
           \/ chained' = [chained EXCEPT ![inFlight][generation] = @ + 1]
    BY <1>2 DEF Refresh
  <2>2. chained' \in Chains
    BY <1>2, <2>1, OneMoreChained
  <2>. QED BY <2>1, <2>2, PollIdle
<1>. QED BY <1>1, <1>2

LEMMA PollDisable == ASSUME PollInv, Disable PROVE PollInv'
<1>. DEFINE l == [loops[generation] EXCEPT !.cancelled = TRUE,
                    !.at = IF loops[generation].at = "timer" THEN "over"
                           ELSE loops[generation].at]
<1>1. /\ generation \in Gens /\ generation + 1 \in Gens
      /\ loops[generation] \in LoopType /\ LoopOK(generation) /\ Latest(generation)
  BY PollAssumption DEF PollInv, PollTypes, Disable, Gens, Latest
<1>2. /\ l \in LoopType /\ l.cancelled /\ l.on = loops[generation].on
      /\ l.at = IF loops[generation].at = "timer" THEN "over" ELSE loops[generation].at
  BY <1>1 DEF LoopType
<1>3. loops' = [loops EXCEPT ![generation] = l]
  BY DEF Disable
<1>. HIDE DEF l
<1>4. /\ loops' \in [Gens -> LoopType] /\ loops'[generation] = l
      /\ \A g \in Gens : g # generation => loops'[g] = loops[g]
  BY <1>1, <1>2, <1>3 DEF PollInv, PollTypes
<1>5. PollTypes' /\ FlightOK'
  BY <1>1, <1>4 DEF PollInv, PollTypes, FlightOK, Disable
<1>6. ASSUME NEW g \in Gens PROVE LoopOK(g)'
  <2>1. ~Latest(g)' /\ generation' = generation + 1 /\ reqs' = reqs /\ LoopOK(g)
    BY DEF Disable, Latest, PollInv
  <2>2. CASE g = generation
    BY <1>1, <1>2, <1>4, <2>1, <2>2 DEF LoopOK, Awaits, Gens
  <2>3. CASE g # generation
    BY <1>1, <1>4, <2>1, <2>3 DEF LoopOK, Awaits, Gens, Latest
  <2>. QED BY <2>2, <2>3
<1>. QED BY <1>5, <1>6 DEF PollInv

\* A poll of loop g, which is, or is about to be, the latest.
LEMMA PollBegins ==
  ASSUME PollInv, NEW g \in Gens, PollNow(g), enabled', generation' = g, ~loops[g].cancelled,
         enabled' \in BOOLEAN, \A h \in Gens : h # g => (~Latest(h) /\ (h >= g => h >= generation))
  PROVE  PollInv'
<1>1. loops \in [Gens -> LoopType] /\ inFlight \in Requests \cup {NoReq} /\ reqs \in [Requests -> AskType]
  BY DEF PollInv, PollTypes
<1>2. \E l \in LoopType, r \in Requests :
        /\ loops' = [loops EXCEPT ![g] = l]
        /\ l.at \in {"request", "chained"} /\ l.on = r /\ ~l.cancelled
        /\ inFlight' = r
        /\ reqs'[r].at # "free" /\ reqs' \in [Requests -> AskType]
        /\ \A q \in Requests : reqs[q].at # "free" => reqs'[q].at # "free"
  <2>1. CASE inFlight = NoReq
    <3>1. PICK r \in Unstarted :
            /\ reqs' = [reqs EXCEPT ![r] = [at |-> "sent", gen |-> g, val |-> 0]]
            /\ inFlight' = r
            /\ loops' = [loops EXCEPT ![g] = [@ EXCEPT !.at = "request", !.on = r]]
      BY <2>1 DEF PollNow
    <3>. DEFINE l == [loops[g] EXCEPT !.at = "request", !.on = r]
    <3>2. l \in LoopType /\ l.at = "request" /\ l.on = r /\ ~l.cancelled /\ r \in Requests
      BY <1>1, <3>1 DEF LoopType, Unstarted
    <3>3. loops' = [loops EXCEPT ![g] = l]
      BY <3>1
    <3>. HIDE DEF l
    <3>3a. [at |-> "sent", gen |-> g, val |-> 0] \in AskType
      BY DEF AskType
    <3>4. /\ reqs'[r].at # "free" /\ reqs' \in [Requests -> AskType]
          /\ \A q \in Requests : reqs[q].at # "free" => reqs'[q].at # "free"
      BY <1>1, <3>1, <3>2, <3>3a
    <3>. QED BY <3>1, <3>2, <3>3, <3>4
  <2>2. CASE inFlight # NoReq
    <3>. DEFINE l == [loops[g] EXCEPT
                        !.at = IF reqs[inFlight].gen = g THEN "request" ELSE "chained",
                        !.on = inFlight]
    <3>1. /\ l \in LoopType /\ l.at \in {"request", "chained"} /\ l.on = inFlight
          /\ ~l.cancelled /\ inFlight \in Requests
      BY <1>1, <2>2 DEF LoopType
    <3>2. loops' = [loops EXCEPT ![g] = l] /\ UNCHANGED <<reqs, inFlight>>
      BY <2>2 DEF PollNow
    <3>3. reqs[inFlight].at # "free"
      BY <2>2 DEF PollInv, FlightOK
    <3>. HIDE DEF l
    <3>. QED BY <1>1, <3>1, <3>2, <3>3
  <2>. QED BY <2>1, <2>2
<1>3. PICK l \in LoopType, r \in Requests :
        /\ loops' = [loops EXCEPT ![g] = l]
        /\ l.at \in {"request", "chained"} /\ l.on = r /\ ~l.cancelled
        /\ inFlight' = r
        /\ reqs'[r].at # "free" /\ reqs' \in [Requests -> AskType]
        /\ \A q \in Requests : reqs[q].at # "free" => reqs'[q].at # "free"
  BY <1>2
<1>4. /\ loops' \in [Gens -> LoopType] /\ loops'[g] = l
      /\ \A h \in Gens : h # g => loops'[h] = loops[h]
  BY <1>1, <1>3
<1>5. PollTypes' /\ FlightOK'
  <2>1. chained' \in Chains
    BY DEF PollNow, PollInv, PollTypes
  <2>. QED BY <1>3, <1>4, <2>1 DEF PollTypes, FlightOK
<1>6. ASSUME NEW h \in Gens PROVE LoopOK(h)'
  <2>1. CASE h = g
    BY <1>3, <1>4, <2>1 DEF LoopOK, Awaits, Latest
  <2>2. CASE h # g
    <3>1. LoopOK(h) /\ ~Latest(h) /\ ~Latest(h)' /\ loops'[h] = loops[h]
      BY <1>4, <2>2 DEF PollInv, Latest
    <3>. QED BY <1>3, <2>2, <3>1 DEF LoopOK, Awaits
  <2>. QED BY <2>1, <2>2
<1>. QED BY <1>5, <1>6 DEF PollInv

LEMMA PollTimers ==
  ASSUME PollInv, Enable \/ \E g \in Gens : Fire(g) PROVE PollInv'
<1>1. generation \in Gens /\ \A h \in Gens : LoopOK(h)
  BY DEF PollInv, PollTypes
<1>2. ASSUME NEW g \in Gens, Fire(g) PROVE PollInv'
  <2>1. Latest(g) /\ ~loops[g].cancelled
    BY <1>1, <1>2 DEF Fire, LoopOK
  <2>2. PollNow(g) /\ enabled' /\ generation' = g /\ enabled' \in BOOLEAN
    BY <1>2, <2>1 DEF Fire, Latest
  <2>3. \A h \in Gens : h # g => ~Latest(h) /\ (h >= g => h >= generation)
    BY <2>1 DEF Latest
  <2>. QED BY <2>1, <2>2, <2>3, PollBegins
<1>3. ASSUME Enable PROVE PollInv'
  <2>. DEFINE g == generation + 1
  <2>1. g \in Gens /\ ~enabled
    BY <1>1, <1>3, PollAssumption DEF Enable, Gens
  <2>2. ~loops[g].cancelled
    BY <1>1, <2>1 DEF LoopOK, Latest, Gens
  <2>3. PollNow(g) /\ enabled' /\ generation' = g /\ enabled' \in BOOLEAN
    BY <1>3 DEF Enable
  <2>4. \A h \in Gens : h # g => ~Latest(h) /\ (h >= g => h >= generation)
    BY <1>1, <2>1 DEF Latest, Gens
  <2>. HIDE DEF g
  <2>. QED BY <2>1, <2>2, <2>3, <2>4, PollBegins
<1>. QED BY <1>2, <1>3

\* What the end of a request leaves of the requests and the loops.
Settled(r, mine, again) ==
  /\ reqs' \in [Requests -> AskType]
  /\ \A q \in Requests : reqs'[q].at = "free" => reqs[q].at = "free" \/ q = r
  /\ again => reqs'[mine].at # "free"
  /\ \/ inFlight' = inFlight /\ inFlight # r
     \/ inFlight' \in Requests /\ reqs'[inFlight'].at # "free"
     \/ inFlight' = NoReq
  /\ again => loops[generation].on = r /\ loops[generation].at = "chained"
  /\ \A g \in Gens :
       \/ loops'[g] = loops[g] /\ ~(loops[g].on = r /\ Awaits(g))
       \/ /\ loops[g].on = r /\ Awaits(g) /\ again /\ g = generation
          /\ loops'[g] = [loops[g] EXCEPT !.at = "request", !.on = mine]
       \/ /\ loops[g].on = r /\ Awaits(g) /\ ~(again /\ g = generation)
          /\ loops'[g] = [loops[g] EXCEPT !.on = NoReq,
                            !.at = IF loops[g].cancelled THEN "over" ELSE "timer"]
  /\ loops' = [g \in Gens |-> loops'[g]]
  /\ chained' \in Chains
  /\ UNCHANGED <<enabled, generation>>

\* What the end of a request starts: one for the loop that is chained to it, and
\* one for each refresh.
LEMMA Startings ==
  ASSUME PollInv, NEW r \in Requests, Settle(r)
  PROVE  \E started \in SUBSET Requests, mine \in Requests \cup {NoReq},
            last \in Requests \cup {NoReq} :
           /\ SettleWith(r, started, mine, last)
           /\ started # {} => mine \in started /\ last \in started
           /\ Cardinality(started) \in Nat
           /\ Cardinality(started) = 0 <=> started = {}
           /\ Cardinality(started) <= 1 => \A p, q \in started : p = q
           /\ Cardinality(started) \in {chained[r][generation], chained[r][generation] + 1}
           /\ chained[r][generation] \in Nat
<1>1. PICK started \in SUBSET Requests, mine \in Requests \cup {NoReq},
            last \in Requests \cup {NoReq} :
           /\ SettleWith(r, started, mine, last)
           /\ started # {} => mine \in started /\ last \in started
  <2>1. PICK started \in SUBSET (Unstarted \cup {r}) :
          \/ started = {} /\ SettleWith(r, {}, NoReq, NoReq)
          \/ \E mine, last \in started : SettleWith(r, started, mine, last)
    BY DEF Settle
  <2>2. started \in SUBSET Requests
    BY <2>1 DEF Unstarted
  <2>3. CASE started = {} /\ SettleWith(r, {}, NoReq, NoReq)
    BY <2>2, <2>3
  <2>4. CASE \E mine, last \in started : SettleWith(r, started, mine, last)
    BY <2>2, <2>4
  <2>. QED BY <2>1, <2>3, <2>4
<1>2. IsFiniteSet(started)
  BY <1>1, PollAssumption, FS_Subset
<1>3. /\ Cardinality(started) \in Nat
      /\ Cardinality(started) = 0 <=> started = {}
      /\ Cardinality(started) = 1 => \E x : started = {x}
  BY <1>2, FS_CardinalityType, FS_EmptySet, FS_Singleton
<1>4. Cardinality(started) <= 1 => \A p, q \in started : p = q
  BY <1>3
<1>5. Cardinality(started) \in {chained[r][generation], chained[r][generation] + 1}
  BY <1>1 DEF SettleWith
<1>6. chained[r][generation] \in Nat
  BY DEF PollInv, PollTypes, Chains
<1>. QED BY <1>1, <1>3, <1>4, <1>5, <1>6

LEMMA SettleFacts ==
  ASSUME PollInv, NEW r \in Requests, Settle(r)
  PROVE  \E mine \in Requests \cup {NoReq}, again \in BOOLEAN :
            (again => mine \in Requests) /\ Settled(r, mine, again)
<1>1. PICK started \in SUBSET Requests, mine \in Requests \cup {NoReq},
           last \in Requests \cup {NoReq} :
         /\ SettleWith(r, started, mine, last)
         /\ started # {} => mine \in started /\ last \in started
         /\ Cardinality(started) \in Nat
         /\ Cardinality(started) = 0 <=> started = {}
         /\ chained[r][generation] \in Nat
  BY Startings
<1>. DEFINE waiting == {g \in Gens : loops[g].on = r /\ loops[g].at \in {"request", "chained"}}
            again == generation \in waiting /\ loops[generation].at = "chained"
<1>2. again \in BOOLEAN
  OBVIOUS
<1>3. /\ FreeSlot \in AskType /\ FreeSlot.at = "free"
      /\ [at |-> "sent", gen |-> generation, val |-> 0] \in AskType
      /\ reqs \in [Requests -> AskType] /\ chained \in Chains
  BY DEF FreeSlot, AskType, PollInv, PollTypes
<1>4. /\ again => loops[generation].on = r /\ loops[generation].at = "chained"
      /\ again => started # {}
  <2>1. again => Cardinality(started) = chained[r][generation] + 1
    BY <1>1 DEF SettleWith
  <2>. HIDE DEF again
  <2>2. again => started # {}
    BY <1>1, <2>1
  <2>. USE DEF again
  <2>. QED BY <2>2
<1>5. loops' = [g \in Gens |->
                 IF g \notin waiting THEN loops[g]
                 ELSE IF again /\ g = generation
                      THEN [loops[g] EXCEPT !.at = "request", !.on = mine]
                 ELSE [loops[g] EXCEPT !.on = NoReq,
                         !.at = IF loops[g].cancelled THEN "over" ELSE "timer"]]
  BY <1>1 DEF SettleWith
<1>6. inFlight' = IF started # {} THEN last
                  ELSE IF inFlight = r THEN NoReq ELSE inFlight
  BY <1>1 DEF SettleWith
<1>7. /\ \A q \in Requests :
           reqs'[q] = IF q \in started
                        THEN [at |-> "sent", gen |-> generation, val |-> 0]
                      ELSE IF q = r THEN FreeSlot ELSE reqs[q]
      /\ reqs' = [q \in Requests |-> reqs'[q]]
  BY <1>1 DEF SettleWith
<1>8. UNCHANGED <<enabled, generation>> /\ chained' \in Chains
  <2>1. UNCHANGED <<enabled, generation>> /\ chained' = [chained EXCEPT ![r] = NoChain]
    BY <1>1 DEF SettleWith
  <2>2. NoChain \in [Gens -> Nat]
    BY DEF NoChain
  <2>. QED BY <1>3, <2>1, <2>2 DEF Chains
<1>9. \A g \in Gens : g \in waiting <=> loops[g].on = r /\ Awaits(g)
  BY DEF Awaits
<1>10. \A g \in Gens :
         \/ loops'[g] = loops[g] /\ ~(loops[g].on = r /\ Awaits(g))
         \/ /\ loops[g].on = r /\ Awaits(g) /\ again /\ g = generation
            /\ loops'[g] = [loops[g] EXCEPT !.at = "request", !.on = mine]
         \/ /\ loops[g].on = r /\ Awaits(g) /\ ~(again /\ g = generation)
            /\ loops'[g] = [loops[g] EXCEPT !.on = NoReq,
                              !.at = IF loops[g].cancelled THEN "over" ELSE "timer"]
  <2>. HIDE DEF waiting, again
  <2>. QED BY <1>5, <1>9
<1>11. loops' = [g \in Gens |-> loops'[g]]
  <2>. HIDE DEF waiting, again
  <2>. QED BY <1>5
<1>. HIDE DEF again, waiting
<1>12. /\ reqs' \in [Requests -> AskType]
       /\ \A q \in Requests : reqs'[q].at = "free" => reqs[q].at = "free" \/ q = r
       /\ \A q \in started : reqs'[q].at # "free"
  BY <1>1, <1>3, <1>7
<1>13. \/ inFlight' = inFlight /\ inFlight # r
       \/ inFlight' \in Requests /\ reqs'[inFlight'].at # "free"
       \/ inFlight' = NoReq
  BY <1>1, <1>6, <1>12
<1>14. again => mine \in Requests /\ reqs'[mine].at # "free"
  BY <1>1, <1>4, <1>12
<1>15. Settled(r, mine, again)
  BY <1>4, <1>8, <1>10, <1>11, <1>12, <1>13, <1>14 DEF Settled
<1>. QED BY <1>1, <1>2, <1>14, <1>15

LEMMA PollSettles ==
  ASSUME PollInv, NEW r \in Requests, Settle(r) PROVE PollInv'
<1>0. PICK mine \in Requests \cup {NoReq}, again \in BOOLEAN :
        (again => mine \in Requests) /\ Settled(r, mine, again)
  BY SettleFacts
<1>1. /\ reqs' \in [Requests -> AskType]
      /\ \A q \in Requests : reqs'[q].at = "free" => reqs[q].at = "free" \/ q = r
      /\ again => reqs'[mine].at # "free"
      /\ \/ inFlight' = inFlight /\ inFlight # r
         \/ inFlight' \in Requests /\ reqs'[inFlight'].at # "free"
         \/ inFlight' = NoReq
      /\ again => loops[generation].on = r /\ loops[generation].at = "chained"
      /\ loops' = [g \in Gens |-> loops'[g]] /\ chained' \in Chains
      /\ UNCHANGED <<enabled, generation>>
  BY <1>0 DEF Settled
<1>2. PollTypes /\ FlightOK /\ \A g \in Gens : LoopOK(g)
  BY DEF PollInv
<1>3. FlightOK' /\ inFlight' \in Requests \cup {NoReq}
  BY <1>1, <1>2 DEF FlightOK, PollTypes
<1>4. ASSUME NEW g \in Gens
      PROVE  loops'[g] \in LoopType /\ LoopOK(g)'
  <2>1. loops[g] \in LoopType /\ LoopOK(g)
    BY <1>2 DEF PollTypes
  <2>2. CASE loops'[g] = loops[g] /\ ~(loops[g].on = r /\ Awaits(g))
    <3>1. Awaits(g) => reqs'[loops[g].on].at # "free"
      BY <1>1, <2>1, <2>2 DEF LoopOK
    <3>. QED BY <1>1, <2>1, <2>2, <3>1 DEF LoopOK, Latest, Awaits
  <2>3. CASE /\ loops[g].on = r /\ Awaits(g) /\ again /\ g = generation
             /\ loops'[g] = [loops[g] EXCEPT !.at = "request", !.on = mine]
    <3>1. /\ loops'[g] \in LoopType /\ loops'[g].at = "request" /\ loops'[g].on = mine
          /\ loops'[g].cancelled = loops[g].cancelled
      BY <1>0, <2>1, <2>3 DEF LoopType
    <3>2. Latest(g)
      <4>1. g >= generation
        BY <2>3 DEF Gens
      <4>. QED BY <2>1, <2>3, <4>1 DEF LoopOK, Awaits
    <3>3. Latest(g)' /\ reqs'[mine].at # "free"
      BY <1>1, <2>3, <3>2 DEF Latest
    <3>. QED BY <1>0, <1>1, <2>1, <2>3, <3>1, <3>2, <3>3 DEF LoopOK, Latest, Awaits
  <2>4. CASE /\ loops[g].on = r /\ Awaits(g) /\ ~(again /\ g = generation)
             /\ loops'[g] = [loops[g] EXCEPT !.on = NoReq,
                               !.at = IF loops[g].cancelled THEN "over" ELSE "timer"]
    <3>1. /\ loops'[g] \in LoopType /\ loops'[g].cancelled = loops[g].cancelled
          /\ loops'[g].at = IF loops[g].cancelled THEN "over" ELSE "timer"
      BY <2>1, <2>4 DEF LoopType
    <3>2. ~Latest(g) => g < generation
      BY <1>2, <2>1, <2>4 DEF LoopOK, Awaits, PollTypes, Gens
    <3>. QED BY <1>1, <1>2, <2>1, <2>4, <3>1, <3>2 DEF LoopOK, Latest, Awaits, PollTypes, Gens
  <2>. QED BY <1>0, <2>2, <2>3, <2>4 DEF Settled
<1>5. PollTypes'
  <2>1. loops' \in [Gens -> LoopType]
    BY <1>1, <1>4 
  <2>. QED BY <1>1, <1>2, <1>3, <2>1 DEF PollTypes
<1>. QED BY <1>3, <1>4, <1>5 DEF PollInv

LEMMA PollStepKept == ASSUME PollInv, source \in Nat, PollStep PROVE PollInv'
<1>1. ASSUME NEW r \in Requests, Serve(r) \/ Fail(r) PROVE PollInv'
  BY <1>1, PollAnswers
<1>2. ASSUME NEW r \in Requests, Settle(r) PROVE PollInv'
  BY <1>2, PollSettles
<1>3. ASSUME NEW g \in Gens, Fire(g) PROVE PollInv'
  BY <1>3, PollTimers
<1>. QED BY <1>1, <1>2, <1>3 DEF PollStep

\* The steps of the API page that are not of the hook leave the polling alone,
\* but for the refresh after a save.
LEMMA PollOfKeys == ASSUME PollInv, source \in Nat, ConfigNext PROVE PollInv'
<1>1. CASE PollStep
  BY <1>1, PollStepKept
<1>2. ASSUME NEW s \in Settings, Saved(s) PROVE PollInv'
  BY <1>2, PollRefresh DEF Saved
<1>3. ASSUME NEW s \in Settings, Accept(s) \/ LoseSave(s) \/ NotSaved(s) PROVE PollInv'
  BY <1>3, PollIdle DEF Accept, LoseSave, NotSaved, pollVars, PollInv, PollTypes
<1>4. ASSUME NEW s \in Settings, NEW v \in pending[s], PutInForce(s, v) PROVE PollInv'
  BY <1>4, PollIdle DEF PutInForce, pollVars, PollInv, PollTypes
<1>5. CASE OpenKey \/ OpenTimes \/ SubmitKey \/ SubmitTimes \/ Dismiss \/ RestartServer
  BY <1>5, PollIdle
     DEF OpenKey, OpenTimes, SubmitKey, SubmitTimes, SendSave, Dismiss, RestartServer, pollVars,
         PollInv, PollTypes
<1>. QED BY <1>1, <1>2, <1>3, <1>4, <1>5 DEF ConfigNext

LEMMA PollOfPages == ASSUME PollInv, source \in Nat, [PanelNext]_panelVars PROVE PollInv'
<1>1. CASE UNCHANGED pollVars
  BY <1>1, PollIdle DEF pollVars, PollInv, PollTypes
<1>2. CASE OnReqlog(PollNext)
  <2>1. PollNext
    BY <1>2 DEF OnReqlog, On
  <2>2. CASE Refresh \/ Enable \/ Disable
    BY <2>2, PollRefresh, PollTimers, PollDisable
  <2>3. CASE Change
    BY <2>3, PollIdle DEF Change, PollInv, PollTypes
  <2>. QED BY <2>1, <2>2, <2>3, PollStepKept DEF PollNext
<1>3. CASE OnKeys(ConfigNext)
  BY <1>3, PollOfKeys DEF OnKeys, On
<1>4. CASE \/ OnToken(ListNext) \/ OnAdd(DialogNext) \/ OnImport(ImportNext)
           \/ OnDetail(DetailNext) \/ OnCats(CatsNext) \/ UNCHANGED panelVars
  BY <1>1, <1>4 DEF OnToken, OnAdd, OnImport, OnDetail, OnCats, pollPages, panelVars
<1>. QED BY <1>2, <1>3, <1>4 DEF PanelNext

(* While a page polls, its latest poll loop goes on and no other one has a
   timer, for any number of requests under way and however often polling is
   turned on and off (use-polling.ts).                                       *)
THEOREM PollingGoesOn == PanelSpec => []PollingAlive
<1>1. PanelInit => ConfigInv /\ PollInv
  BY ConfigStart, PollStart DEF PanelInit
<1>2. ConfigInv /\ PollInv /\ [PanelNext]_panelVars => (ConfigInv /\ PollInv)'
  BY PartSteps, SourceSteps, ConfigStep, PollOfPages DEF ConfigInv
<1>3. PollInv => PollingAlive
  BY PollFollows
<1>. QED BY <1>1, <1>2, <1>3, PTL DEF PanelSpec

-----------------------------------------------------------------------------
\* What is shown never goes back: as long as no answer has started several requests,
\* those of the latest generation are one, the one that refreshes share, which
\* was answered after what is shown; what waits for an older one waits for that.
Under(r) == reqs[r].at # "free" /\ reqs[r].gen = generation
BackTypes ==
  /\ shown \in [data: Nat, loading: BOOLEAN, error: BOOLEAN] /\ shown.data <= source
  /\ \A r \in Requests, g \in Gens : chained[r][g] # 0 => g <= generation
  /\ doubled \in BOOLEAN /\ source \in Nat
AskOK(r) ==
  /\ reqs[r].at # "free" => reqs[r].gen \in 1 .. generation
  /\ reqs[r].at = "answered" => reqs[r].val <= source
  /\ chained[r][generation] # 0 => r = inFlight
  /\ loops[generation].at = "chained" /\ loops[generation].on = r => r = inFlight
OneAsked(r) ==
  Under(r) => r = inFlight /\ (reqs[r].at = "answered" => shown.data <= reqs[r].val)
BackInv == BackTypes /\ \A r \in Requests : AskOK(r) /\ (~doubled => OneAsked(r))

LEMMA BackStart == ASSUME PollInit PROVE BackInv
<1>1. BackTypes
  <2>1. \A r \in Requests, g \in Gens : chained[r][g] = 0
    BY DEF PollInit, NoChain
  <2>2. shown \in [data: Nat, loading: BOOLEAN, error: BOOLEAN]
    BY DEF PollInit
  <2>3. shown.data <= source /\ source \in Nat
    BY DEF PollInit
  <2>4. doubled \in BOOLEAN
    BY Zenon DEF PollInit
  <2>. QED BY <2>1, <2>2, <2>3, <2>4 DEF BackTypes
<1>2. ASSUME NEW r \in Requests PROVE AskOK(r) /\ OneAsked(r)
  BY PollAssumption DEF PollInit, NoChain, AskOK, OneAsked, Under, Gens, NoReq, FreeSlot
<1>. QED BY <1>1, <1>2 DEF BackInv

\* The server's value grows, and nothing else happens to the polling.
LEMMA BackIdle ==
  ASSUME PollInv, BackInv, source' \in Nat, source' >= source,
         UNCHANGED <<generation, inFlight, reqs, loops, chained, shown, doubled>>
  PROVE  BackInv'
<1>1. BackTypes'
  BY DEF BackInv, BackTypes
<1>2. ASSUME NEW r \in Requests PROVE AskOK(r)' /\ (~doubled => OneAsked(r)')
  <2>1. reqs[r].val \in Nat
    BY DEF PollInv, PollTypes, AskType
  <2>. QED BY <2>1 DEF BackInv, BackTypes, AskOK, OneAsked, Under
<1>. QED BY <1>1, <1>2 DEF BackInv

\* A request is answered, or fails.
LEMMA BackAnswers ==
  ASSUME PollInv, BackInv, NEW r \in Requests, Serve(r) \/ Fail(r) PROVE BackInv'
<1>1. reqs \in [Requests -> AskType]
  BY DEF PollInv, PollTypes
<1>2. BackTypes' /\ source' = source /\ shown' = shown /\ doubled' = doubled
      /\ UNCHANGED <<generation, inFlight, loops, chained>>
  BY DEF Serve, Fail, BackInv, BackTypes
<1>3. ASSUME NEW q \in Requests PROVE AskOK(q)' /\ (~doubled => OneAsked(q)')
  <2>1. CASE q = r
    <3>1. reqs[r].at # "free" /\ reqs'[r].gen = reqs[r].gen
          /\ (reqs'[r].at = "answered" => reqs'[r].val = source)
      BY <1>1, <2>1 DEF Serve, Fail, AskType
    <3>. QED BY <1>2, <2>1, <3>1 DEF BackInv, BackTypes, AskOK, OneAsked, Under
  <2>2. CASE q # r
    <3>1. reqs'[q] = reqs[q]
      BY <1>1, <2>2 DEF Serve, Fail
    <3>. QED BY <1>2, <3>1 DEF BackInv, AskOK, OneAsked, Under
  <2>. QED BY <2>1, <2>2
<1>. QED BY <1>2, <1>3 DEF BackInv

\* A request of the latest generation is sent when none is shared.
LEMMA BackSends ==
  ASSUME PollInv, BackInv, inFlight = NoReq, NEW r \in Requests,
         reqs[r].at = "free", generation' \in Gens, generation' >= generation,
         reqs' = [reqs EXCEPT ![r] = [at |-> "sent", gen |-> generation', val |-> 0]],
         inFlight' = r, shown' = [shown EXCEPT !.error = FALSE],
         loops'[generation'].at # "chained",
         UNCHANGED <<source, chained, doubled>>
  PROVE  BackInv'
<1>1. reqs \in [Requests -> AskType] /\ generation \in Gens /\ NoReq \notin Requests
  BY PollAssumption DEF PollInv, PollTypes, NoReq
<1>2. BackTypes'
  <2>2. \A q \in Requests, g \in Gens : chained'[q][g] # 0 => g <= generation'
    BY <1>1 DEF BackInv, BackTypes, Gens
  <2>. QED BY <2>2 DEF BackInv, BackTypes
<1>3. ASSUME NEW q \in Requests PROVE AskOK(q)' /\ (~doubled => OneAsked(q)')
  <2>1. /\ AskOK(q) /\ (~doubled => OneAsked(q))
        /\ \A g \in Gens : chained[q][g] # 0 => g <= generation
    BY DEF BackInv, BackTypes
  <2>2. chained[q][generation] = 0
    BY <1>1, <2>1 DEF AskOK
  <2>3. chained'[q][generation'] = 0
    BY <1>1, <2>1, <2>2 DEF Gens
  <2>4. CASE q = r
    <3>1. reqs'[q] = [at |-> "sent", gen |-> generation', val |-> 0]
      BY <1>1, <2>4
    <3>. QED BY <1>1, <2>3, <2>4, <3>1 DEF AskOK, OneAsked, Under, Gens
  <2>5. CASE q # r
    <3>1. reqs'[q] = reqs[q]
      BY <1>1, <2>5
    <3>2. ~doubled => ~Under(q)
      BY <1>1, <2>1 DEF OneAsked
    <3>3. reqs[q].at # "free" => reqs[q].gen \in 1 .. generation
      BY <2>1 DEF AskOK
    <3>4. reqs'[q].at # "free" => reqs'[q].gen \in 1 .. generation'
      BY <1>1, <3>1, <3>3 DEF Gens
    <3>5. ~doubled => ~Under(q)'
      BY <1>1, <3>1, <3>2, <3>3 DEF Under, Gens
    <3>. QED BY <2>1, <2>3, <3>1, <3>4, <3>5 DEF AskOK, OneAsked
  <2>. QED BY <2>4, <2>5
<1>. QED BY <1>2, <1>3 DEF BackInv

LEMMA BackRefreshed == ASSUME PollInv, BackInv, Refresh PROVE BackInv'
<1>1. CASE inFlight = NoReq
  <2>1. PICK r \in Unstarted :
          /\ reqs' = [reqs EXCEPT ![r] = [at |-> "sent", gen |-> generation, val |-> 0]]
          /\ inFlight' = r
    BY <1>1 DEF Refresh
  <2>2. r \in Requests /\ reqs[r].at = "free"
    BY <2>1 DEF Unstarted
  <2>3. /\ shown' = [shown EXCEPT !.error = FALSE]
        /\ UNCHANGED <<source, generation, chained, loops, doubled>>
    BY <1>1 DEF Refresh
  <2>4. loops[generation].at # "chained"
    <3>1. generation \in Gens /\ LoopOK(generation) /\ NoReq \notin Requests
      BY PollAssumption DEF PollInv, PollTypes, NoReq
    <3>2. \A q \in Requests : AskOK(q)
      BY DEF BackInv
    <3>. QED BY <1>1, <3>1, <3>2 DEF LoopOK, Awaits, AskOK
  <2>5. generation' \in Gens /\ generation' >= generation
    BY <2>3 DEF PollInv, PollTypes, Gens
  <2>. QED BY <1>1, <2>1, <2>2, <2>3, <2>4, <2>5, BackSends
<1>2. CASE inFlight # NoReq
  <2>1. /\ UNCHANGED <<source, generation, inFlight, reqs, loops, shown, doubled>>
        /\ inFlight \in Requests /\ generation \in Gens /\ generation \in Nat
    BY <1>2 DEF Refresh, PollInv, PollTypes, Gens
  <2>1a. \/ chained' = chained
         \/ chained' = [chained EXCEPT ![inFlight][generation] = @ + 1]
    BY <1>2 DEF Refresh
  <2>2. \A q \in Requests, g \in Gens :
           chained'[q][g] = chained[q][g] \/ (q = inFlight /\ g = generation)
    <3>1. chained \in Chains
      BY DEF PollInv, PollTypes
    <3>. QED BY <2>1a, <3>1 DEF Chains
  <2>3. BackTypes'
    BY <2>1, <2>2 DEF BackInv, BackTypes
  <2>4. ASSUME NEW q \in Requests PROVE AskOK(q)' /\ (~doubled => OneAsked(q)')
    BY <2>1, <2>2 DEF BackInv, BackTypes, AskOK, OneAsked, Under
  <2>. QED BY <2>1, <2>3, <2>4 DEF BackInv
<1>. QED BY <1>1, <1>2

\* Polling is turned off: no request is of the generation to come.
LEMMA BackDisabled == ASSUME PollInv, BackInv, Disable PROVE BackInv'
<1>1. /\ generation \in Nat /\ generation' = generation + 1 /\ generation' \in Gens
      /\ UNCHANGED <<source, inFlight, reqs, chained, shown, doubled>>
  BY PollAssumption DEF Disable, PollInv, PollTypes, Gens
<1>2. loops'[generation'].at = "none"
  <2>1. LoopOK(generation + 1) /\ loops \in [Gens -> LoopType] /\ ~Latest(generation + 1)
    BY <1>1 DEF PollInv, PollTypes, Latest
  <2>2. loops'[generation + 1] = loops[generation + 1]
    BY <1>1, <2>1 DEF Disable
  <2>. QED BY <1>1, <2>1, <2>2 DEF LoopOK
<1>3. BackTypes'
  <2>1. \A r \in Requests, g \in Gens : chained[r][g] # 0 => g <= generation'
    BY <1>1 DEF BackInv, BackTypes, Gens
  <2>. QED BY <1>1, <2>1 DEF BackInv, BackTypes
<1>4. ASSUME NEW q \in Requests PROVE AskOK(q)' /\ (~doubled => OneAsked(q)')
  <2>1. AskOK(q) /\ \A g \in Gens : chained[q][g] # 0 => g <= generation
    BY DEF BackInv, BackTypes
  <2>2. AskOK(q)'
    BY <1>1, <1>2, <2>1 DEF AskOK
  <2>3. ~Under(q)'
    BY <1>1, <2>1 DEF AskOK, Under
  <2>. QED BY <2>2, <2>3 DEF OneAsked
<1>. QED BY <1>1, <1>3, <1>4 DEF BackInv

\* A poll of the latest loop, or of the one that polling begins with.
LEMMA BackPolls ==
  ASSUME PollInv, BackInv, NEW g \in Gens, PollNow(g), generation' = g,
         g = generation \/ g = generation + 1
  PROVE  BackInv'
<1>1. /\ generation \in Gens /\ generation \in Nat /\ g \in Nat /\ g >= generation
      /\ reqs \in [Requests -> AskType] /\ loops \in [Gens -> LoopType]
      /\ inFlight \in Requests \cup {NoReq}
  BY DEF PollInv, PollTypes, Gens
<1>1a. UNCHANGED <<source, chained, doubled>>
  BY DEF PollNow
<1>2. CASE inFlight = NoReq
  <2>1. PICK r \in Unstarted :
          /\ reqs' = [reqs EXCEPT ![r] = [at |-> "sent", gen |-> g, val |-> 0]]
          /\ inFlight' = r
          /\ loops' = [loops EXCEPT ![g] = [@ EXCEPT !.at = "request", !.on = r]]
    BY <1>2 DEF PollNow
  <2>2. r \in Requests /\ reqs[r].at = "free"
    BY <2>1 DEF Unstarted
  <2>3. loops'[g].at # "chained" /\ shown' = [shown EXCEPT !.error = FALSE]
    BY <1>1, <1>2, <2>1 DEF PollNow, LoopType
  <2>. QED BY <1>1, <1>1a, <1>2, <2>1, <2>2, <2>3, BackSends
<1>3. CASE inFlight # NoReq
  <2>0. /\ UNCHANGED <<reqs, inFlight, shown>> /\ inFlight \in Requests
        /\ loops' = [loops EXCEPT ![g] = [@ EXCEPT
             !.at = IF reqs[inFlight].gen = g THEN "request" ELSE "chained",
             !.on = inFlight]]
    BY <1>1, <1>3 DEF PollNow
  <2>1. loops'[g].on = inFlight
    BY <1>1, <2>0 DEF LoopType
  <2>2. BackTypes'
    <3>1. \A r \in Requests, h \in Gens : chained[r][h] # 0 => h <= g
      BY <1>1, <1>1a DEF BackInv, BackTypes, Gens
    <3>. QED BY <1>1, <1>1a, <2>0, <2>1, <3>1 DEF BackInv, BackTypes
  <2>3. ASSUME NEW q \in Requests PROVE AskOK(q)' /\ (~doubled => OneAsked(q)')
    <3>1. /\ AskOK(q) /\ (~doubled => OneAsked(q))
          /\ \A h \in Gens : chained[q][h] # 0 => h <= generation
      BY DEF BackInv, BackTypes
    <3>2. AskOK(q)'
      BY <1>1, <1>1a, <2>0, <2>1, <3>1 DEF AskOK
    <3>3. ~doubled => OneAsked(q)'
      BY <1>1, <1>1a, <2>0, <2>1, <3>1 DEF AskOK, OneAsked, Under
    <3>. QED BY <3>2, <3>3
  <2>4. ASSUME NEW q \in Requests PROVE AskOK(q)' /\ (~doubled' => OneAsked(q)')
    BY <1>1a, <2>3
  <2>. QED BY <2>2, <2>4 DEF BackInv
<1>. QED BY <1>1, <1>2, <1>3

LEMMA BackTimers ==
  ASSUME PollInv, BackInv, Enable \/ \E g \in Gens : Fire(g) PROVE BackInv'
<1>1. generation \in Gens /\ \A h \in Gens : LoopOK(h)
  BY DEF PollInv, PollTypes
<1>2. ASSUME NEW g \in Gens, Fire(g) PROVE BackInv'
  <2>1. g = generation /\ generation' = g /\ PollNow(g)
    BY <1>1, <1>2 DEF Fire, LoopOK, Latest
  <2>. QED BY <2>1, BackPolls
<1>3. CASE Enable
  <2>1. generation + 1 \in Gens /\ generation' = generation + 1 /\ PollNow(generation + 1)
    BY <1>1, <1>3, PollAssumption DEF Enable, Gens
  <2>. QED BY <2>1, BackPolls
<1>. QED BY <1>2, <1>3

\* A request settles: if it starts another, it was the one shared, and what it
\* brings is no older than what is shown.
LEMMA BackSettles ==
  ASSUME PollInv, BackInv, NEW r \in Requests, Settle(r)
  PROVE  BackInv' /\ (~doubled' => shown'.data >= shown.data)
<1>1. PICK started \in SUBSET Requests, mine \in Requests \cup {NoReq},
           last \in Requests \cup {NoReq} :
         /\ SettleWith(r, started, mine, last)
         /\ started # {} => mine \in started /\ last \in started
         /\ Cardinality(started) \in Nat
         /\ Cardinality(started) = 0 <=> started = {}
         /\ Cardinality(started) <= 1 => \A p, q \in started : p = q
         /\ chained[r][generation] \in Nat
  BY Startings
<1>. DEFINE waiting == {g \in Gens : loops[g].on = r /\ loops[g].at \in {"request", "chained"}}
            again == generation \in waiting /\ loops[generation].at = "chained"
<1>2. /\ generation \in Gens
      /\ reqs \in [Requests -> AskType] /\ inFlight \in Requests \cup {NoReq}
      /\ loops \in [Gens -> LoopType] /\ chained \in Chains
      /\ \A q \in Requests : AskOK(q) /\ (~doubled => OneAsked(q))
  BY DEF PollInv, PollTypes, BackInv
<1>3. started # {} => r = inFlight
  <2>1. Cardinality(started) = IF again THEN chained[r][generation] + 1 ELSE chained[r][generation]
    BY <1>1 DEF SettleWith
  <2>2. again => r = inFlight
    BY <1>2 DEF AskOK
  <2>3. chained[r][generation] # 0 => r = inFlight
    BY <1>2 DEF AskOK
  <2>. HIDE DEF again
  <2>. QED BY <1>1, <2>1, <2>2, <2>3
<1>4. \A q \in Requests :
        reqs'[q] = IF q \in started
                     THEN [at |-> "sent", gen |-> generation, val |-> 0]
                   ELSE IF q = r THEN FreeSlot ELSE reqs[q]
  BY <1>1 DEF SettleWith
<1>5. inFlight' = IF started # {} THEN last
                  ELSE IF inFlight = r THEN NoReq ELSE inFlight
  BY <1>1 DEF SettleWith
<1>6. doubled' = (doubled \/ Cardinality(started) > 1)
  BY <1>1 DEF SettleWith
<1>6a. ~doubled' => ~doubled /\ \A p, q \in started : p = q
  <2>1. ~doubled' => ~doubled /\ ~(Cardinality(started) > 1)
    BY <1>6, Zenon
  <2>2. ~(Cardinality(started) > 1) => Cardinality(started) <= 1
    BY <1>1
  <2>. QED BY <1>1, <2>1, <2>2, Zenon
<1>7. /\ chained' = [chained EXCEPT ![r] = NoChain] /\ reqs[r].at \in {"answered", "failed"}
      /\ UNCHANGED <<source, generation>>
  BY <1>1 DEF SettleWith, Settle
<1>7a. \A q \in Requests, g \in Gens : chained'[q][g] = IF q = r THEN 0 ELSE chained[q][g]
  BY <1>2, <1>7 DEF NoChain, Chains
<1>8. loops'[generation].at = "chained" =>
        loops'[generation] = loops[generation] /\ loops[generation].on # r
  <2>1. loops'[generation] =
          IF generation \notin waiting THEN loops[generation]
          ELSE IF again /\ generation = generation
               THEN [loops[generation] EXCEPT !.at = "request", !.on = mine]
          ELSE [loops[generation] EXCEPT !.on = NoReq,
                  !.at = IF loops[generation].cancelled THEN "over" ELSE "timer"]
    BY <1>1, <1>2 DEF SettleWith
  <2>. QED BY <1>2, <2>1 DEF LoopType
<1>9. /\ shown' \in [data: Nat, loading: BOOLEAN, error: BOOLEAN]
      /\ shown'.data = IF Under(r) /\ reqs[r].at = "answered" THEN reqs[r].val ELSE shown.data
  <2>. DEFINE b == shown'.error
  <2>1. /\ shown \in [data: Nat, loading: BOOLEAN, error: BOOLEAN] /\ reqs[r] \in AskType
        /\ (reqs[r].gen = generation <=> Under(r))
    BY <1>2, <1>7 DEF BackInv, BackTypes, Under
  <2>2. /\ Applied(r) \in [data: Nat, loading: BOOLEAN, error: BOOLEAN]
        /\ Applied(r).data = IF Under(r) /\ reqs[r].at = "answered" THEN reqs[r].val ELSE shown.data
    BY <2>1 DEF Applied, AskType
  <2>3. \E e \in BOOLEAN : shown' = [Applied(r) EXCEPT !.error = e]
    <3>1. shown' = [Applied(r) EXCEPT !.error = @ /\ started = {}]
      BY <1>1 DEF SettleWith
    <3>2. PICK e : e = (Applied(r).error /\ started = {})
      OBVIOUS
    <3>3. e \in BOOLEAN
      BY <3>2
    <3>4. shown' = [Applied(r) EXCEPT !.error = e]
      BY <3>1, <3>2
    <3>. QED BY <3>3, <3>4
  <2>. QED BY <2>2, <2>3
<1>. HIDE DEF again, waiting
<1>10. BackTypes'
  <2>1. \A q \in Requests, g \in Gens : chained'[q][g] # 0 => g <= generation
    BY <1>7a DEF BackInv, BackTypes
  <2>2. shown'.data <= source
    BY <1>2, <1>9 DEF BackInv, BackTypes, AskOK
  <2>3. doubled' \in BOOLEAN
    BY <1>6 DEF BackInv, BackTypes
  <2>. QED BY <1>7, <1>9, <2>1, <2>2, <2>3 DEF BackInv, BackTypes
<1>11. ASSUME NEW q \in Requests PROVE AskOK(q)' /\ (~doubled' => OneAsked(q)')
  <2>1. AskOK(q) /\ (~doubled => OneAsked(q))
    BY <1>2
  <2>2. chained'[q][generation] # 0 => q # r /\ q = inFlight
    BY <1>2, <1>7a, <2>1 DEF AskOK
  <2>3. loops'[generation].at = "chained" /\ loops'[generation].on = q => q # r /\ q = inFlight
    BY <1>8, <2>1 DEF AskOK
  <2>4. q # r /\ q = inFlight => inFlight' = q /\ started = {}
    BY <1>3, <1>5
  <2>5. CASE q \in started
    <3>1. reqs'[q] = [at |-> "sent", gen |-> generation, val |-> 0] /\ generation \in 1 .. generation
      BY <1>2, <1>4, <2>5 DEF Gens
    <3>2. AskOK(q)'
      BY <1>7, <2>2, <2>3, <2>4, <2>5, <3>1 DEF AskOK
    <3>3. ~doubled' => inFlight' = q
      BY <1>1, <1>5, <1>6a, <2>5
    <3>. QED BY <3>1, <3>2, <3>3 DEF OneAsked
  <2>6. CASE q = r /\ q \notin started
    BY <1>4, <1>7, <2>2, <2>3, <2>6 DEF FreeSlot, AskOK, OneAsked, Under
  <2>7. CASE q # r /\ q \notin started
    <3>1. reqs'[q] = reqs[q]
      BY <1>4, <2>7
    <3>2. AskOK(q)'
      BY <1>7, <2>1, <2>2, <2>3, <2>4, <3>1 DEF AskOK
    <3>3. ASSUME ~doubled', Under(q)' PROVE OneAsked(q)'
      <4>1. ~doubled /\ Under(q)
        BY <1>6, <1>7, <3>1, <3>3 DEF Under
      <4>2. q = inFlight /\ ~Under(r)
        BY <1>2, <2>1, <2>7, <4>1 DEF OneAsked
      <4>3. shown'.data = shown.data
        BY <1>9, <4>2
      <4>. QED BY <2>1, <2>4, <2>7, <3>1, <4>1, <4>2, <4>3 DEF OneAsked
    <3>. QED BY <3>2, <3>3 DEF OneAsked
  <2>. QED BY <2>5, <2>6, <2>7
<1>12. ~doubled' => shown'.data >= shown.data
  <2>1. shown.data \in Nat
    BY DEF BackInv, BackTypes
  <2>2. SUFFICES ASSUME ~doubled' PROVE shown'.data >= shown.data
    OBVIOUS
  <2>3. OneAsked(r)
    BY <1>2, <1>6, <2>2
  <2>4. CASE Under(r) /\ reqs[r].at = "answered"
    <3>1. shown'.data = reqs[r].val /\ shown.data <= reqs[r].val /\ reqs[r].val \in Nat
      BY <1>2, <1>9, <2>3, <2>4 DEF OneAsked, AskType
    <3>. QED BY <2>1, <3>1
  <2>5. CASE ~(Under(r) /\ reqs[r].at = "answered")
    <3>1. shown'.data = shown.data
      BY <1>9, <2>5
    <3>. QED BY <2>1, <3>1
  <2>. QED BY <2>4, <2>5
<1>. QED BY <1>10, <1>11, <1>12 DEF BackInv

LEMMA BackStepKept ==
  ASSUME PollInv, BackInv, PollStep
  PROVE  BackInv' /\ (~doubled' => shown'.data >= shown.data)
<1>0. shown.data \in Nat /\ shown \in [data: Nat, loading: BOOLEAN, error: BOOLEAN]
  BY DEF BackInv, BackTypes
<1>1. ASSUME NEW r \in Requests, Serve(r) \/ Fail(r)
      PROVE  BackInv' /\ shown'.data >= shown.data
  BY <1>0, <1>1, BackAnswers DEF Serve, Fail
<1>2. ASSUME NEW g \in Gens, Fire(g) PROVE BackInv' /\ shown'.data >= shown.data
  <2>1. shown'.data = shown.data
    BY <1>0, <1>2 DEF Fire, PollNow
  <2>. QED BY <1>0, <1>2, <2>1, BackTimers
<1>. QED BY <1>1, <1>2, BackSettles DEF PollStep

\* What other steps of the hook do.
LEMMA BackPanelSteps ==
  ASSUME PollInv, BackInv, Refresh \/ Enable \/ Disable
  PROVE  BackInv' /\ shown'.data >= shown.data
<1>0. shown.data \in Nat /\ shown \in [data: Nat, loading: BOOLEAN, error: BOOLEAN]
  BY DEF BackInv, BackTypes
<1>1. shown'.data = shown.data
  BY <1>0 DEF Refresh, Enable, Disable, PollNow
<1>. QED BY <1>0, <1>1, BackRefreshed, BackTimers, BackDisabled

LEMMA BackOfPages ==
  ASSUME PollInv, BackInv, [PanelNext]_panelVars
  PROVE  BackInv' /\ (~doubled' => shown'.data >= shown.data)
<1>0. shown.data \in Nat /\ source \in Nat /\ source + 1 >= source /\ source >= source
  BY DEF BackInv, BackTypes
<1>1. ASSUME source' = source \/ source' = source + 1,
             UNCHANGED <<generation, inFlight, reqs, loops, chained, shown, doubled>>
      PROVE  BackInv' /\ (~doubled' => shown'.data >= shown.data)
  BY <1>0, <1>1, BackIdle
<1>2. CASE UNCHANGED pollVars
  BY <1>1, <1>2 DEF pollVars
<1>3. CASE OnReqlog(PollNext)
  <2>1. PollNext
    BY <1>3 DEF OnReqlog, On
  <2>2. CASE Change
    BY <1>1, <2>2 DEF Change
  <2>. QED BY <2>1, <2>2, BackStepKept, BackPanelSteps DEF PollNext
<1>4. CASE OnKeys(ConfigNext)
  <2>1. ASSUME NEW s \in Settings, Saved(s) PROVE BackInv' /\ shown'.data >= shown.data
    BY <2>1, BackPanelSteps DEF Saved
  <2>2. ASSUME NEW s \in Settings, Accept(s) \/ LoseSave(s) \/ NotSaved(s)
        PROVE  BackInv' /\ (~doubled' => shown'.data >= shown.data)
    BY <1>1, <2>2 DEF Accept, Configure, LoseSave, NotSaved, pollVars
  <2>3. ASSUME NEW s \in Settings, NEW v \in pending[s], PutInForce(s, v)
        PROVE  BackInv' /\ (~doubled' => shown'.data >= shown.data)
    BY <1>1, <2>3 DEF PutInForce, pollVars
  <2>4. CASE OpenKey \/ OpenTimes \/ SubmitKey \/ SubmitTimes \/ Dismiss \/ RestartServer
    BY <1>1, <2>4
       DEF OpenKey, OpenTimes, SubmitKey, SubmitTimes, SendSave, Dismiss, RestartServer, pollVars
  <2>5. ConfigNext
    BY <1>4 DEF OnKeys, On
  <2>. QED BY <2>1, <2>2, <2>3, <2>4, <2>5, BackStepKept DEF ConfigNext
<1>5. CASE \/ OnToken(ListNext) \/ OnAdd(DialogNext) \/ OnImport(ImportNext)
           \/ OnDetail(DetailNext) \/ OnCats(CatsNext) \/ UNCHANGED panelVars
  BY <1>2, <1>5 DEF OnToken, OnAdd, OnImport, OnDetail, OnCats, pollPages, panelVars
<1>. QED BY <1>3, <1>4, <1>5 DEF PanelNext

(* What a page shows never goes back to an older answer, for any number of
   requests under way, generations and refreshes, as long as no one answer has
   started two requests (use-polling.ts).                                    *)
THEOREM ShownNeverBack == PanelSpec => NeverBack
<1>1. PanelInit => ConfigInv /\ PollInv /\ BackInv
  BY ConfigStart, PollStart, BackStart DEF PanelInit
<1>2. ConfigInv /\ PollInv /\ BackInv /\ [PanelNext]_panelVars =>
        (ConfigInv /\ PollInv /\ BackInv)'
  BY PartSteps, SourceSteps, ConfigStep, PollOfPages, BackOfPages DEF ConfigInv
<1>3. ConfigInv /\ PollInv /\ BackInv /\ [PanelNext]_panelVars =>
        [~doubled' => shown'.data >= shown.data]_pollVars
  BY BackOfPages
<1>. QED BY <1>1, <1>2, <1>3, PTL DEF PanelSpec, NeverBack
-----------------------------------------------------------------------------
\* The sessions of the panel and the tabs that use them, for any number of tabs,
\* tokens and passwords, any lost requests and any restarts.

\* The sessions of the table and the file are of the password they are said to
\* be of, and a process without a password has none.
Kept ==
  /\ made => password \in Passwords
  /\ password = Unset => live = {}
  /\ saved.fp = None => saved.tokens = {}

\* Whatever a logout may name has been issued.
Issued(t) == t # None => issued[t] # None
OutIssued == \A t \in loggedOut : issued[t] # None

SessionsInv == SessionsTypeOK /\ Kept /\ SessionsOfPassword /\ LoggedOutStaysOut /\ OutIssued

LEMMA SessionsStart == ASSUME SessionsInit PROVE SessionsInv
<1>1. SessionsTypeOK
  <2>1. saved \in [fp: Passwords \cup {None}, tokens: SUBSET Tokens]
    BY DEF SessionsInit, NoFile
  <2>2. fails \in 0 .. FailLimit - 1 /\ starts \in 0 .. MaxStarts
    BY SessionsAssumption DEF SessionsInit
  <2>. QED BY <2>1, <2>2 DEF SessionsInit, SessionsTypeOK
<1>2. Kept /\ SessionsOfPassword /\ LoggedOutStaysOut /\ OutIssued
  BY DEF SessionsInit, Kept, SessionsOfPassword, LoggedOutStaysOut, OutIssued, NoFile
<1>. QED BY <1>1, <1>2 DEF SessionsInv

LEMMA SessionsLogin ==
  ASSUME SessionsInv, NEW t \in Tokens, Login(t)
  PROVE  SessionsInv' /\ \A u \in Tokens : issued[u] # None => issued'[u] = issued[u]
BY SessionsAssumption
   DEF Login, Save, Fresh, SessionsInv, SessionsTypeOK, Kept, SessionsOfPassword,
       LoggedOutStaysOut, OutIssued

LEMMA Modulo == ASSUME NEW n \in Nat, NEW m \in Nat \ {0} PROVE n % m \in 0 .. m - 1
OBVIOUS

LEMMA SessionsWrongLogin == ASSUME SessionsInv, WrongLogin PROVE SessionsInv'
<1>1. fails' \in 0 .. FailLimit - 1
  BY SessionsAssumption, Modulo DEF WrongLogin, SessionsInv, SessionsTypeOK
<1>. QED
  BY <1>1, SessionsAssumption
     DEF WrongLogin, SessionsInv, SessionsTypeOK, Kept, SessionsOfPassword,
         LoggedOutStaysOut, OutIssued

LEMMA SessionsLogout ==
  ASSUME SessionsInv, NEW t \in Tokens, issued[t] # None, Logout(t) PROVE SessionsInv'
BY SessionsAssumption
   DEF Logout, Save, guardVars, SessionsInv, SessionsTypeOK, Kept, SessionsOfPassword,
       LoggedOutStaysOut, OutIssued

LEMMA SessionsAlone == ASSUME SessionsInv, ServerAlone PROVE SessionsInv' /\ issued' = issued
<1>1. CASE \E t \in Tokens : Expire(t)
  BY <1>1, SessionsAssumption
     DEF Expire, guardVars, SessionsInv, SessionsTypeOK, Kept, SessionsOfPassword,
         LoggedOutStaysOut, OutIssued
<1>2. CASE Unlock
  BY <1>2, SessionsAssumption
     DEF Unlock, SessionsInv, SessionsTypeOK, Kept, SessionsOfPassword,
         LoggedOutStaysOut, OutIssued
<1>3. ASSUME NEW p \in Passwords \cup {Unset}, Restart(p)
      PROVE  SessionsInv' /\ issued' = issued
  <2>. USE SessionsAssumption, <1>3 DEF Restart
  <2>1. SessionsTypeOK'
    <3>1. fails' \in 0 .. FailLimit - 1 /\ starts' \in 0 .. MaxStarts
      BY DEF SessionsInv, SessionsTypeOK
    <3>2. live' \subseteq Tokens /\ made' \in BOOLEAN
      BY DEF SessionsInv, SessionsTypeOK
    <3>. QED BY <3>1, <3>2 DEF SessionsInv, SessionsTypeOK
  <2>2. Kept'
    BY DEF SessionsInv, SessionsTypeOK, Kept
  <2>3. SessionsOfPassword' /\ LoggedOutStaysOut' /\ OutIssued' /\ issued' = issued
    BY DEF SessionsInv, SessionsOfPassword, LoggedOutStaysOut, OutIssued
  <2>. QED BY <2>1, <2>2, <2>3 DEF SessionsInv
<1>. QED BY <1>1, <1>2, <1>3 DEF ServerAlone

LEMMA SessionsStay == ASSUME SessionsInv, UNCHANGED sessionVars PROVE SessionsInv'
BY DEF sessionVars, SessionsInv, SessionsTypeOK, Kept, SessionsOfPassword, Valid,
       LoggedOutStaysOut, OutIssued

---------------------------------------------------------------------------
\* The types of the tabs ...
TabsType ==
  /\ cookie \in Tokens \cup {None}
  /\ page \in [Tabs -> {"login", "panel"}]
  /\ authed \in [Tabs -> BOOLEAN] /\ loading \in [Tabs -> BOOLEAN]
  /\ csrf \in [Tabs -> Tokens \cup {None}]
  /\ form \in [Tabs -> {"idle", "submitting", "bridge"}]
  /\ disturbed \subseteq Tabs
  /\ lost \in 0 .. MaxLost /\ clicks \in 0 .. MaxClicks
ReqType == req \in [Tabs -> [Slots -> Request]]

\* ... what each slot is for, and every cookie that is about has been issued.
Uses(s) == CASE s = "side" -> {"none", "check", "call"}
             [] s = "form" -> {"none", "check", "login"}
             [] OTHER      -> {"none", "logout"}
Of(b, s) == /\ req[b][s].what \in Uses(s)
            /\ req[b][s].what = "none" <=> req[b][s].at = "none"
            /\ Issued(req[b][s].cookie) /\ Issued(req[b][s].token)
ReqInv == ReqType /\ \A b \in Tabs : \A s \in Slots : Of(b, s)

\* A tab whose form has asked for something shows the login page.
Waiting(b) == req[b]["form"].at # "none" => page[b] = "login" /\ form[b] = "submitting"

TabsInv == TabsType /\ ReqInv /\ Issued(cookie) /\ \A b \in Tabs : Waiting(b)

AuthInv == SessionsInv /\ TabsInv

LEMMA TypeFollows == AuthInv => AuthTypeOK
BY DEF AuthInv, TabsInv, TabsType, ReqInv, ReqType, SessionsInv, AuthTypeOK

\* What replacing one request leaves of the others.
Others(b, s) == \A c \in Tabs : \A t \in Slots : c # b \/ t # s => req'[c][t] = req[c][t]
IssuedStay == \A u \in Tokens : issued[u] # None => issued'[u] = issued[u]

LEMMA Replaced ==
  ASSUME ReqInv, NEW b \in Tabs, NEW s \in Slots, NEW r \in Request,
         req' = [req EXCEPT ![b][s] = r]
  PROVE  ReqType' /\ req'[b][s] = r /\ Others(b, s)
BY DEF ReqInv, ReqType, Others

LEMMA OneRequest ==
  ASSUME ReqInv, NEW b \in Tabs, NEW s \in Slots, ReqType', Of(b, s)', Others(b, s), IssuedStay
  PROVE  ReqInv'
<1>1. ASSUME NEW c \in Tabs, NEW t \in Slots PROVE Of(c, t)'
  <2>1. CASE c = b /\ t = s
    BY <2>1
  <2>2. CASE c # b \/ t # s
    <3>1. req[c][t] \in Request /\ Of(c, t) /\ req'[c][t] = req[c][t]
      BY <2>2 DEF ReqInv, ReqType, Others
    <3>. QED BY <3>1 DEF Of, Issued, Request, IssuedStay
  <2>. QED BY <2>1, <2>2
<1>. QED BY <1>1 DEF ReqInv

LEMMA RequestsStay == ASSUME ReqInv, UNCHANGED req, IssuedStay PROVE  ReqInv'
<1>1. ASSUME NEW b \in Tabs, NEW s \in Slots PROVE Of(b, s)'
  <2>1. req[b][s] \in Request /\ Of(b, s)
    BY DEF ReqInv, ReqType
  <2>. QED BY <2>1 DEF Of, Issued, Request, IssuedStay
<1>. QED BY <1>1 DEF ReqInv, ReqType

\* What all the steps that leave the sessions alone, or replace no request, share.
LEMMA InvParts ==
  ASSUME SessionsInv', TabsType', ReqInv', Issued(cookie)', \A b \in Tabs : Waiting(b)'
  PROVE  AuthInv'
BY DEF AuthInv, TabsInv

LEMMA StartInv == ASSUME AuthInit PROVE AuthInv
<1>1. SessionsInv
  BY SessionsStart DEF AuthInit
<1>2. TabsType
  BY AuthAssumption DEF AuthInit, TabsType
<1>3. [NoRequest EXCEPT !.at = "sent", !.what = "check"] \in Request /\ NoRequest \in Request
  BY DEF NoRequest, Request
<1>4. ReqInv
  <2>1. ReqType
    BY <1>3 DEF AuthInit, ReqType
  <2>2. ASSUME NEW b \in Tabs, NEW s \in Slots PROVE Of(b, s)
    BY <2>2 DEF AuthInit, Of, Uses, Issued, NoRequest, Slots
  <2>. QED BY <2>1, <2>2 DEF ReqInv
<1>5. Issued(cookie) /\ \A b \in Tabs : Waiting(b)
  BY DEF AuthInit, Issued, Waiting, NoRequest, Slots
<1>. QED BY <1>1, <1>2, <1>4, <1>5 DEF AuthInv, TabsInv

\* The steps of a tab that ask for nothing.
LEMMA PageSteps ==
  ASSUME AuthInv, NEW b \in Tabs, GoLogin(b) \/ Bridge(b) PROVE AuthInv'
<1>1. SessionsInv' /\ ReqInv'
  BY SessionsStay, RequestsStay DEF AuthInv, TabsInv, GoLogin, Bridge, sessionVars, IssuedStay
<1>2. TabsType'
  BY DEF AuthInv, TabsInv, TabsType, GoLogin, Bridge
<1>3. Issued(cookie)'
  BY DEF AuthInv, TabsInv, Issued, GoLogin, Bridge, sessionVars
<1>4. ASSUME NEW c \in Tabs PROVE Waiting(c)'
  BY DEF AuthInv, TabsInv, TabsType, Waiting, GoLogin, Bridge
<1>. QED BY <1>1, <1>2, <1>3, <1>4, InvParts

\* A request just sent.
New(r, w) == /\ r.at = "sent" /\ r.what = w /\ r.cookie = cookie
             /\ r.good = FALSE /\ r.token = None

LEMMA SentOK ==
  ASSUME AuthInv, NEW w \in {"check", "call", "login", "logout"}
  PROVE  Sent(w) \in Request /\ New(Sent(w), w)
<1>1. cookie \in Tokens \cup {None}
  BY DEF AuthInv, TabsInv, TabsType
<1>2. NoRequest \in Request
  BY DEF NoRequest, Request
<1>. QED BY <1>1, <1>2 DEF Sent, NoRequest, Request, New

\* What asking for something leaves of the requests.
LEMMA RequestOK ==
  ASSUME AuthInv, NEW b \in Tabs, NEW s \in Slots, NEW w \in Uses(s) \ {"none"},
         Ask(b, s, w), UNCHANGED sessionVars
  PROVE  ReqInv' /\ New(req'[b][s], w) /\ Others(b, s)
<1>1. Sent(w) \in Request /\ New(Sent(w), w)
  BY SentOK DEF Uses
<1>2. ReqType' /\ req'[b][s] = Sent(w) /\ Others(b, s)
  BY <1>1, Replaced DEF Ask, AuthInv, TabsInv
<1>3. New(req'[b][s], w) /\ w \in Uses(s) \ {"none"} /\ Issued(cookie)
  BY <1>1, <1>2 DEF AuthInv, TabsInv
<1>4. Of(b, s)'
  BY <1>3 DEF Of, New, Issued, sessionVars
<1>5. ReqInv /\ IssuedStay
  BY DEF AuthInv, TabsInv, sessionVars, IssuedStay
<1>. QED BY <1>2, <1>3, <1>4, <1>5, OneRequest

LEMMA SubmitOK == ASSUME AuthInv, NEW b \in Tabs, Submit(b) PROVE AuthInv'
<1>1. SessionsInv' /\ ReqInv'
      /\ Others(b, "form")
  BY SessionsStay, RequestOK DEF AuthInv, Submit, Uses, Slots
<1>2. TabsType'
  BY AuthAssumption DEF AuthInv, TabsInv, TabsType, Submit, Click
<1>3. Issued(cookie)'
  BY DEF AuthInv, TabsInv, Issued, Submit, sessionVars
<1>4. ASSUME NEW c \in Tabs PROVE Waiting(c)'
  BY <1>1 DEF AuthInv, TabsInv, TabsType, Waiting, Submit, FormOffered, Slots, Others
<1>. QED BY <1>1, <1>2, <1>3, <1>4, InvParts

LEMMA ClickOK == ASSUME AuthInv, NEW b \in Tabs, PressLogout(b) \/ Call(b) PROVE AuthInv'
<1>1. SessionsInv' /\ ReqInv'
      /\ \A c \in Tabs : req'[c]["form"] = req[c]["form"]
  <2>1. CASE PressLogout(b)
    BY <2>1, SessionsStay, RequestOK DEF AuthInv, PressLogout, Uses, Slots, Others
  <2>2. CASE Call(b)
    BY <2>2, SessionsStay, RequestOK DEF AuthInv, Call, Uses, Slots, Others
  <2>. QED BY <2>1, <2>2
<1>2. TabsType'
  BY AuthAssumption DEF AuthInv, TabsInv, TabsType, PressLogout, Call, Click, tabVars
<1>3. Issued(cookie)'
  BY DEF AuthInv, TabsInv, Issued, PressLogout, Call, sessionVars
<1>4. ASSUME NEW c \in Tabs PROVE Waiting(c)'
  BY <1>1 DEF AuthInv, TabsInv, TabsType, Waiting, PressLogout, Call, tabVars
<1>. QED BY <1>1, <1>2, <1>3, <1>4, InvParts

\* The server's answers.
LEMMA AnswerOK ==
  ASSUME AuthInv, NEW b \in Tabs, NEW s \in Slots, NEW good \in BOOLEAN,
         NEW token \in Tokens \cup {None}, token # None => issued'[token] # None,
         req[b][s].at = "sent", Answer(b, s, good, token), IssuedStay
  PROVE  ReqInv' /\ Others(b, s) /\ req'[b][s].at # "none"
<1>1. ReqInv /\ req[b][s] \in Request /\ Of(b, s)
  BY DEF AuthInv, TabsInv, ReqInv, ReqType
<1>. DEFINE r == [req[b][s] EXCEPT !.at = "back", !.good = good, !.token = token]
<1>2. /\ r \in Request
      /\ r.at = "back" /\ r.what = req[b][s].what /\ r.token = token
      /\ r.cookie = req[b][s].cookie
  BY <1>1 DEF Request
<1>3. req' = [req EXCEPT ![b][s] = r]
  BY DEF Answer
<1>. HIDE DEF r
<1>4. ReqType' /\ req'[b][s] = r /\ Others(b, s)
  BY <1>1, <1>2, <1>3, Replaced
<1>5. Of(b, s)'
  BY <1>1, <1>2, <1>4 DEF Of, Issued, IssuedStay, Request
<1>. QED BY <1>1, <1>2, <1>4, <1>5, OneRequest

LEMMA HandleSessions ==
  ASSUME AuthInv, NEW b \in Tabs, NEW s \in Slots, Handle(b, s)
  PROVE  SessionsInv' /\ IssuedStay /\ ReqInv' /\ Others(b, s) /\ req'[b][s].at # "none"
<1>. USE SessionsAssumption
<1>1. SessionsInv /\ req[b][s] \in Request /\ Of(b, s) /\ req[b][s].at = "sent"
  BY DEF AuthInv, TabsInv, ReqInv, ReqType, Handle
<1>2. ASSUME UNCHANGED sessionVars PROVE SessionsInv' /\ IssuedStay /\ UNCHANGED issued
  BY <1>1, <1>2, SessionsStay DEF sessionVars, IssuedStay
<1>3. CASE HandleLogin(b, s)
  <2>1. ASSUME NEW t \in Fresh, Login(t), Answer(b, s, TRUE, t)
        PROVE  SessionsInv' /\ IssuedStay /\ ReqInv' /\ Others(b, s) /\ req'[b][s].at # "none"
    <3>1. t \in Tokens
      BY <2>1 DEF Fresh
    <3>2. SessionsInv' /\ IssuedStay
      BY <1>1, <2>1, <3>1, SessionsLogin DEF IssuedStay
    <3>3. issued'[t] # None
      BY <1>1, <2>1, <3>1 DEF Login, SessionsInv, SessionsTypeOK
    <3>. QED BY <1>1, <2>1, <3>1, <3>2, <3>3, AnswerOK
  <2>2. CASE WrongLogin /\ Answer(b, s, FALSE, None)
    <3>1. SessionsInv' /\ IssuedStay
      BY <1>1, <2>2, SessionsWrongLogin DEF WrongLogin, IssuedStay
    <3>. QED BY <1>1, <2>2, <3>1, AnswerOK
  <2>3. CASE Answer(b, s, password = Unset, None) /\ UNCHANGED sessionVars
    BY <1>1, <1>2, <2>3, AnswerOK
  <2>. QED BY <1>3, <2>1, <2>2, <2>3 DEF HandleLogin
<1>4. CASE HandleLogout(b, s)
  <2>1. SessionsInv' /\ UNCHANGED issued
    <3>1. CASE req[b][s].cookie = None
      BY <1>2, <1>4, <3>1 DEF HandleLogout
    <3>2. CASE req[b][s].cookie # None
      <4>1. req[b][s].cookie \in Tokens /\ issued[req[b][s].cookie] # None
        BY <1>1, <3>2 DEF Request, Of, Issued
      <4>. QED BY <1>1, <1>4, <3>2, <4>1, SessionsLogout DEF HandleLogout, Logout
    <3>. QED BY <3>1, <3>2
  <2>2. IssuedStay
    BY <2>1 DEF IssuedStay
  <2>. QED BY <1>1, <1>4, <2>1, <2>2, AnswerOK DEF HandleLogout
<1>5. CASE HandleCheck(b, s)
  <2>. DEFINE good == password = Unset \/ Valid(req[b][s].cookie)
              token == IF password # Unset /\ Valid(req[b][s].cookie)
                         THEN req[b][s].cookie ELSE None
  <2>1. SessionsInv' /\ IssuedStay /\ UNCHANGED issued /\ Answer(b, s, good, token)
    BY <1>2, <1>5 DEF HandleCheck
  <2>2. good \in BOOLEAN /\ token \in Tokens \cup {None}
    BY <1>1 DEF Request, Valid
  <2>3. token # None => issued'[token] # None
    BY <1>1, <2>1 DEF Of, Issued
  <2>. HIDE DEF good, token
  <2>. QED BY <1>1, <2>1, <2>2, <2>3, AnswerOK
<1>. QED BY <1>3, <1>4, <1>5 DEF Handle

LEMMA HandleOK ==
  ASSUME AuthInv, NEW b \in Tabs, NEW s \in Slots, Handle(b, s) PROVE AuthInv'
<1>1. SessionsInv' /\ IssuedStay /\ ReqInv' /\ Others(b, s)
  BY HandleSessions
<1>2. TabsType'
  BY DEF AuthInv, TabsInv, TabsType, Handle, tabVars
<1>3. Issued(cookie)'
  BY <1>1 DEF AuthInv, TabsInv, TabsType, Issued, IssuedStay, Handle
<1>4. ASSUME NEW c \in Tabs PROVE Waiting(c)'
  <2>1. Waiting(c) /\ (c = b /\ s = "form" => req[c]["form"].at # "none")
    BY DEF AuthInv, TabsInv, Handle
  <2>2. c # b \/ s # "form" => req'[c]["form"] = req[c]["form"]
    BY <1>1 DEF Others, Slots
  <2>. QED BY <2>1, <2>2 DEF Waiting, Handle, tabVars
<1>. QED BY <1>1, <1>2, <1>3, <1>4, InvParts

LEMMA LoseOK ==
  ASSUME AuthInv, NEW b \in Tabs, NEW s \in Slots, Lose(b, s) PROVE AuthInv'
<1>1. /\ SessionsInv' /\ IssuedStay
      /\ ReqInv /\ req[b][s] \in Request /\ Of(b, s) /\ req[b][s].at # "none"
  BY SessionsStay DEF AuthInv, TabsInv, ReqInv, ReqType, Lose, sessionVars, IssuedStay
<1>2. ReqInv' /\ Others(b, s)
  <2>. DEFINE r == [req[b][s] EXCEPT !.at = "failed", !.good = FALSE, !.token = None]
  <2>1. /\ r \in Request
        /\ r.at = "failed" /\ r.what = req[b][s].what /\ r.token = None
        /\ r.cookie = req[b][s].cookie
    BY <1>1 DEF Request
  <2>2. req' = [req EXCEPT ![b][s] = r]
    BY DEF Lose
  <2>. HIDE DEF r
  <2>3. ReqType' /\ req'[b][s] = r /\ Others(b, s)
    BY <1>1, <2>1, <2>2, Replaced
  <2>4. Of(b, s)'
    BY <1>1, <2>1, <2>3 DEF Of, Issued, IssuedStay, Request
  <2>. QED BY <1>1, <2>3, <2>4, OneRequest
<1>3. TabsType'
  BY AuthAssumption DEF AuthInv, TabsInv, TabsType, Lose, tabVars
<1>4. Issued(cookie)'
  BY DEF AuthInv, TabsInv, Issued, Lose, sessionVars
<1>5. ASSUME NEW c \in Tabs PROVE Waiting(c)'
  <2>1. Waiting(c) /\ (c = b /\ s = "form" => req[c]["form"].at # "none")
    BY <1>1 DEF AuthInv, TabsInv
  <2>2. c # b \/ s # "form" => req'[c]["form"] = req[c]["form"]
    BY <1>2 DEF Others, Slots
  <2>. QED BY <2>1, <2>2 DEF Waiting, Lose, tabVars
<1>. QED BY <1>1, <1>2, <1>3, <1>4, <1>5, InvParts

\* A tab takes an answer: the slot becomes free, or asks for the session.
LEMMA FreedOK ==
  ASSUME AuthInv, NEW b \in Tabs, NEW s \in Slots, UNCHANGED sessionVars,
         req' = [req EXCEPT ![b][s] = NoRequest]
  PROVE  SessionsInv' /\ ReqInv' /\ req'[b][s] = NoRequest /\ Others(b, s)
<1>1. SessionsInv' /\ IssuedStay /\ ReqInv /\ NoRequest \in Request
  BY SessionsStay DEF AuthInv, TabsInv, sessionVars, IssuedStay, NoRequest, Request
<1>2. ReqType' /\ req'[b][s] = NoRequest /\ Others(b, s)
  BY <1>1, Replaced
<1>3. Of(b, s)'
  BY <1>2 DEF Of, Issued, NoRequest, Uses
<1>. QED BY <1>1, <1>2, <1>3, OneRequest

LEMMA CheckedOK ==
  ASSUME AuthInv, NEW b \in Tabs, NEW s \in Slots, Checked(b, s) PROVE AuthInv'
<1>1. SessionsInv' /\ ReqInv' /\ req'[b][s] = NoRequest /\ Others(b, s)
  BY FreedOK DEF Checked
<1>2. req[b][s] \in Request
  BY DEF AuthInv, TabsInv, ReqInv, ReqType
<1>3. TabsType'
  BY <1>2 DEF AuthInv, TabsInv, TabsType, Checked, Request
<1>4. Issued(cookie)'
  BY DEF AuthInv, TabsInv, Issued, Checked, sessionVars
<1>5. ASSUME NEW c \in Tabs PROVE Waiting(c)'
  <2>1. Waiting(c) /\ form \in [Tabs -> {"idle", "submitting", "bridge"}]
    BY DEF AuthInv, TabsInv, TabsType
  <2>2. CASE c = b /\ s = "form"
    BY <1>1, <2>2 DEF Waiting, NoRequest
  <2>3. CASE c # b \/ s # "form"
    <3>1. req'[c]["form"] = req[c]["form"]
      BY <1>1, <2>3 DEF Others, Slots
    <3>2. page'[c] = page[c] /\ form'[c] = form[c]
      BY <2>1, <2>3 DEF Checked
    <3>. QED BY <2>1, <3>1, <3>2 DEF Waiting
  <2>. QED BY <2>2, <2>3
<1>. QED BY <1>1, <1>3, <1>4, <1>5, InvParts

LEMMA LoggedInOK == ASSUME AuthInv, NEW b \in Tabs, LoggedIn(b) PROVE AuthInv'
<1>. DEFINE r == req[b]["form"]
<1>1. /\ SessionsInv' /\ IssuedStay /\ ReqInv
      /\ r \in Request /\ Of(b, "form") /\ r.at # "none" /\ Waiting(b)
  BY SessionsStay
     DEF AuthInv, TabsInv, ReqInv, ReqType, Slots, LoggedIn, In, sessionVars, IssuedStay
<1>2. cookie' \in Tokens \cup {None} /\ Issued(cookie)'
  <2>1. CASE r.token # None
    <3>1. cookie' = r.token /\ r.token \in Tokens \cup {None} /\ Issued(r.token)
      BY <1>1, <2>1 DEF LoggedIn, TakeCookie, Request, Of
    <3>. QED BY <1>1, <3>1 DEF Issued, IssuedStay
  <2>2. CASE r.token = None
    BY <2>2 DEF LoggedIn, AuthInv, TabsInv, TabsType, Issued, sessionVars
  <2>. QED BY <2>1, <2>2
<1>3. TabsType'
  BY <1>2 DEF LoggedIn, TakeCookie, AuthInv, TabsInv, TabsType
<1>4. /\ ReqInv' /\ Others(b, "form")
      /\ req'[b]["form"].at # "none" => r.good
  <2>1. CASE r.good
    <3>. DEFINE q == [Sent("check") EXCEPT !.cookie = cookie']
    <3>1. /\ q \in Request /\ q.at = "sent" /\ q.what = "check"
          /\ q.cookie = cookie' /\ q.token = None
      BY <1>2, SentOK DEF Request, New
    <3>2. req' = [req EXCEPT ![b]["form"] = q]
      BY <2>1 DEF LoggedIn
    <3>. HIDE DEF q
    <3>3. ReqType' /\ req'[b]["form"] = q /\ Others(b, "form")
      BY <1>1, <3>1, <3>2, Replaced DEF Slots
    <3>4. Of(b, "form")'
      BY <1>2, <3>1, <3>3 DEF Of, Issued, Uses
    <3>. QED BY <1>1, <2>1, <3>3, <3>4, OneRequest DEF Slots
  <2>2. CASE ~r.good
    <3>1. ReqInv' /\ req'[b]["form"] = NoRequest /\ Others(b, "form")
      BY <2>2, FreedOK DEF LoggedIn, Slots
    <3>. QED BY <3>1 DEF NoRequest
  <2>. QED BY <2>1, <2>2
<1>5. ASSUME NEW c \in Tabs PROVE Waiting(c)'
  <2>1. Waiting(c) /\ form \in [Tabs -> {"idle", "submitting", "bridge"}]
    BY DEF AuthInv, TabsInv, TabsType
  <2>2. CASE c = b
    <3>1. r.good => UNCHANGED <<form, page>>
      BY DEF LoggedIn
    <3>. QED BY <1>1, <1>4, <2>2, <3>1 DEF Waiting
  <2>3. CASE c # b
    <3>1. req'[c]["form"] = req[c]["form"] /\ page'[c] = page[c] /\ form'[c] = form[c]
      BY <1>4, <2>1, <2>3 DEF Others, LoggedIn, Slots
    <3>. QED BY <2>1, <3>1 DEF Waiting
  <2>. QED BY <2>2, <2>3
<1>. QED BY <1>1, <1>2, <1>3, <1>4, <1>5, InvParts

LEMMA LoggedOutOK == ASSUME AuthInv, NEW b \in Tabs, LoggedOut(b) PROVE AuthInv'
<1>1. SessionsInv' /\ ReqInv' /\ Others(b, "out")
  BY FreedOK DEF LoggedOut, Slots
<1>2. TabsType'
  BY DEF AuthInv, TabsInv, TabsType, LoggedOut, TakeCookie
<1>3. Issued(cookie)'
  BY DEF AuthInv, TabsInv, Issued, LoggedOut, TakeCookie, sessionVars
<1>4. ASSUME NEW c \in Tabs PROVE Waiting(c)'
  <2>1. req'[c]["form"] = req[c]["form"]
    BY <1>1 DEF Others, Slots
  <2>2. Waiting(c) /\ page \in [Tabs -> {"login", "panel"}]
    BY DEF AuthInv, TabsInv, TabsType
  <2>3. form' = form /\ (page'[c] = page[c] \/ page'[c] = "login")
    BY <2>2 DEF LoggedOut
  <2>. QED BY <2>1, <2>2, <2>3 DEF Waiting
<1>. QED BY <1>1, <1>2, <1>3, <1>4, InvParts

LEMMA CalledOK == ASSUME AuthInv, NEW b \in Tabs, Called(b) PROVE AuthInv'
<1>1. SessionsInv' /\ ReqInv' /\ Others(b, "side")
  BY FreedOK DEF Called, Slots
<1>2. TabsType'
  BY DEF AuthInv, TabsInv, TabsType, Called
<1>3. Issued(cookie)'
  BY DEF AuthInv, TabsInv, Issued, Called, sessionVars
<1>4. ASSUME NEW c \in Tabs PROVE Waiting(c)'
  <2>1. req'[c]["form"] = req[c]["form"] /\ Waiting(c)
    BY <1>1 DEF Others, Slots, AuthInv, TabsInv
  <2>. QED BY <2>1 DEF Waiting, Called
<1>. QED BY <1>1, <1>2, <1>3, <1>4, InvParts

LEMMA ServerOK == ASSUME AuthInv, Server PROVE AuthInv'
<1>1. SessionsInv' /\ IssuedStay /\ UNCHANGED issued
  BY SessionsAlone DEF AuthInv, Server, IssuedStay
<1>2. ReqInv'
  BY <1>1, RequestsStay DEF AuthInv, TabsInv, Server
<1>3. TabsType'
  BY DEF AuthInv, TabsInv, TabsType, Server, tabVars
<1>4. Issued(cookie)' /\ \A c \in Tabs : Waiting(c)'
  BY <1>1 DEF AuthInv, TabsInv, Issued, Waiting, Server, tabVars
<1>. QED BY <1>1, <1>2, <1>3, <1>4, InvParts

LEMMA StutterOK == ASSUME AuthInv, UNCHANGED authVars PROVE AuthInv'
<1>1. SessionsInv' /\ ReqInv'
  BY SessionsStay, RequestsStay DEF AuthInv, TabsInv, authVars, sessionVars, IssuedStay
<1>2. TabsType'
  BY DEF AuthInv, TabsInv, TabsType, authVars, tabVars
<1>3. Issued(cookie)' /\ \A c \in Tabs : Waiting(c)'
  BY DEF AuthInv, TabsInv, Issued, Waiting, authVars, tabVars, sessionVars
<1>. QED BY <1>1, <1>2, <1>3, InvParts

LEMMA StepInv == AuthInv /\ [AuthNext]_authVars => AuthInv'
<1>. SUFFICES ASSUME AuthInv, [AuthNext]_authVars PROVE AuthInv'
  OBVIOUS
<1>1. ASSUME NEW b \in Tabs, Progress(b) PROVE AuthInv'
  BY <1>1, PageSteps, LoggedInOK, LoggedOutOK, CalledOK, HandleOK, CheckedOK DEF Progress
<1>2. ASSUME NEW b \in Tabs, Submit(b) \/ PressLogout(b) \/ Call(b) PROVE AuthInv'
  BY <1>2, SubmitOK, ClickOK
<1>3. ASSUME NEW b \in Tabs, NEW s \in Slots, Lose(b, s) PROVE AuthInv'
  BY <1>3, LoseOK
<1>. QED BY <1>1, <1>2, <1>3, ServerOK, StutterOK DEF AuthNext

---------------------------------------------------------------------------
(* Logging in and out keeps the sessions, the tabs and their requests of their
   types, however many tabs, restarts and lost answers there are.            *)
THEOREM AuthTypeCorrect == AuthSpec => []AuthTypeOK
<1>1. AuthInit => AuthInv
  BY StartInv
<1>. QED BY <1>1, StepInv, TypeFollows, PTL DEF AuthSpec

(* Changing the admin password, and changing it back, ends every session: the
   table and the file only hold sessions of the password they are taken for
   (app.go, loadSessions and its fingerprint).                               *)
THEOREM PasswordChangeEndsSessions == AuthSpec => []SessionsOfPassword
<1>1. AuthInit => AuthInv
  BY StartInv
<1>2. AuthInv => SessionsOfPassword
  BY DEF AuthInv, SessionsInv
<1>. QED BY <1>1, <1>2, StepInv, PTL DEF AuthSpec

(* A session whose logout was written stays out, whatever else fails to be
   written and however often the process starts again (app.go, /api/logout). *)
THEOREM LogoutIsFinal == AuthSpec => []LoggedOutStaysOut
<1>1. AuthInit => AuthInv
  BY StartInv
<1>2. AuthInv => LoggedOutStaysOut
  BY DEF AuthInv, SessionsInv
<1>. QED BY <1>1, <1>2, StepInv, PTL DEF AuthSpec

---------------------------------------------------------------------------
\* What holds of a tab whose session nothing else has touched.  Shown or about to
\* be, its CSRF token is that of the browser's session; the check it loaded with
\* was sent before there was a cookie, and that of its form with the new one.
InStep(b) == csrf[b] = cookie \/ cookie = None \/ password = Unset
ShownInStep(b) == authed[b] /\ (page[b] = "panel" \/ form[b] = "bridge") => InStep(b)
FirstCheck(b) ==
  req[b]["side"].what = "check" =>
    /\ cookie = None /\ req[b]["side"].cookie = None /\ req[b]["side"].token = None
    /\ form[b] = "idle" /\ req[b]["form"].at = "none"
FormCheck(b) ==
  req[b]["form"].what = "check" =>
    /\ cookie \in {req[b]["form"].cookie, None}
    /\ req[b]["form"].good => \/ /\ req[b]["form"].token # None
                                 /\ req[b]["form"].token = req[b]["form"].cookie
                              \/ password = Unset
Own(b) == ShownInStep(b) /\ FirstCheck(b) /\ FormCheck(b)

OwnInv == AuthInv /\ \A b \in Tabs \ disturbed : Own(b)

LEMMA OwnStart == ASSUME AuthInit PROVE OwnInv
<1>1. AuthInv
  BY StartInv
<1>2. ASSUME NEW b \in Tabs PROVE Own(b)
  BY DEF AuthInit, Own, ShownInStep, FirstCheck, FormCheck, NoRequest, Slots
<1>. QED BY <1>1, <1>2 DEF OwnInv

\* A step that leaves alone what Own looks at.
Untouched(c) ==
  /\ page'[c] = page[c] /\ authed'[c] = authed[c] /\ csrf'[c] = csrf[c] /\ form'[c] = form[c]
  /\ req'[c]["side"] = req[c]["side"] /\ req'[c]["form"] = req[c]["form"]
  /\ cookie' = cookie /\ (password' = Unset <=> password = Unset)

LEMMA OwnStays == ASSUME NEW c \in Tabs, Own(c), Untouched(c) PROVE Own(c)'
BY DEF Own, ShownInStep, InStep, FirstCheck, FormCheck, Untouched

\* The facts about a tab that every step below starts from.
LEMMA TabFacts ==
  ASSUME AuthInv, NEW c \in Tabs
  PROVE  /\ \A s \in Slots : req[c][s] \in Request /\ Of(c, s)
         /\ Waiting(c) /\ TabsType
BY DEF AuthInv, TabsInv, ReqInv, ReqType

LEMMA OwnPage ==
  ASSUME OwnInv, NEW b \in Tabs, GoLogin(b) \/ Bridge(b), NEW c \in Tabs \ disturbed'
  PROVE  Own(c)'
<1>1. Own(c) /\ TabsType /\ Of(c, "form") /\ Waiting(c)
  BY TabFacts DEF OwnInv, GoLogin, Bridge, Slots
<1>2. CASE c # b
  <2>1. Untouched(c)
    BY <1>1, <1>2 DEF TabsType, GoLogin, Bridge, Untouched, sessionVars
  <2>. QED BY <1>1, <2>1, OwnStays
<1>3. CASE c = b
  <2>1. /\ req' = req /\ cookie' = cookie /\ password' = password
        /\ authed' = authed /\ csrf' = csrf /\ form'[c] = "idle"
        /\ req[c]["form"].what = "none"
    BY <1>1, <1>3 DEF TabsType, GoLogin, Bridge, sessionVars, Of, Waiting
  <2>2. page'[c] = "panel" => form[c] = "bridge"
    BY <1>1, <1>3 DEF TabsType, GoLogin, Bridge
  <2>. QED BY <1>1, <2>1, <2>2 DEF Own, ShownInStep, InStep, FirstCheck, FormCheck
<1>. QED BY <1>2, <1>3

LEMMA OwnClicks ==
  ASSUME OwnInv, NEW b \in Tabs, Submit(b) \/ PressLogout(b) \/ Call(b),
         NEW c \in Tabs \ disturbed'
  PROVE  Own(c)'
<1>1. AuthInv /\ TabsType /\ (c \notin disturbed => Own(c))
  BY TabFacts DEF OwnInv
<1>2. CASE Submit(b)
  <2>1. New(req'[b]["form"], "login") /\ Others(b, "form")
    BY <1>1, <1>2, RequestOK DEF Submit, Uses, Slots
  <2>2. CASE c = b
    <3>1. req'[c]["side"] = req[c]["side"] /\ req[c]["side"].what = "none"
      BY <1>1, <1>2, <2>1, <2>2, TabFacts DEF Submit, Others, Slots, TabsType, Of
    <3>2. page'[c] = "login" /\ form'[c] = "submitting"
      BY <1>1, <1>2, <2>2 DEF Submit, FormOffered, TabsType
    <3>. QED BY <2>1, <2>2, <3>1, <3>2 DEF Own, ShownInStep, FirstCheck, FormCheck, New
  <2>3. CASE c # b
    <3>1. Untouched(c) /\ c \notin disturbed
      BY <1>1, <1>2, <2>1, <2>3
         DEF Submit, Others, Slots, TabsType, Untouched, sessionVars
    <3>. QED BY <1>1, <3>1, OwnStays
  <2>. QED BY <2>2, <2>3
<1>3. CASE PressLogout(b)
  <2>1. Others(b, "out")
    BY <1>1, <1>3, RequestOK DEF PressLogout, Uses, Slots
  <2>2. Untouched(c) /\ c \notin disturbed
    BY <1>1, <1>3, <2>1 DEF PressLogout, Others, Slots, Untouched, sessionVars, tabVars
  <2>. QED BY <1>1, <2>2, OwnStays
<1>4. CASE Call(b)
  <2>1. New(req'[b]["side"], "call") /\ Others(b, "side") /\ c \notin disturbed
    BY <1>1, <1>4, RequestOK DEF Call, Uses, Slots
  <2>2. CASE c # b
    <3>1. Untouched(c)
      BY <1>4, <2>1, <2>2 DEF Call, Others, Slots, Untouched, sessionVars, tabVars
    <3>. QED BY <1>1, <2>1, <3>1, OwnStays
  <2>3. CASE c = b
    <3>1. req'[c]["form"] = req[c]["form"] /\ req'[c]["side"].what = "call"
      BY <2>1, <2>3 DEF Others, Slots, New
    <3>. QED
      BY <1>1, <1>4, <2>1, <3>1
         DEF Call, sessionVars, tabVars, Own, ShownInStep, InStep, FirstCheck, FormCheck
  <2>. QED BY <2>2, <2>3
<1>. QED BY <1>2, <1>3, <1>4

LEMMA OwnServer ==
  ASSUME OwnInv, Server, NEW c \in Tabs \ disturbed' PROVE Own(c)'
<1>1. c \notin disturbed /\ (password' = Unset <=> password = Unset)
  BY DEF Server
<1>2. Untouched(c)
  BY <1>1 DEF Server, tabVars, Untouched
<1>. QED BY <1>1, <1>2, OwnStays DEF OwnInv

LEMMA OwnStutters ==
  ASSUME OwnInv, UNCHANGED authVars, NEW c \in Tabs \ disturbed' PROVE Own(c)'
<1>1. c \notin disturbed /\ Untouched(c)
  BY DEF authVars, tabVars, sessionVars, Untouched
<1>. QED BY <1>1, OwnStays DEF OwnInv

\* What an answer, or the loss of one, leaves of a request.
LEMMA AnswerFields ==
  ASSUME AuthInv, NEW b \in Tabs, NEW s \in Slots, NEW good, NEW token,
         Answer(b, s, good, token)
  PROVE  /\ req'[b][s].what = req[b][s].what /\ req'[b][s].cookie = req[b][s].cookie
         /\ req'[b][s].good = good /\ req'[b][s].token = token
<1>1. req \in [Tabs -> [Slots -> Request]] /\ req[b][s] \in Request
  BY DEF AuthInv, TabsInv, ReqInv, ReqType
<1>. DEFINE r == [req[b][s] EXCEPT !.at = "back", !.good = good, !.token = token]
<1>2. /\ r.what = req[b][s].what /\ r.cookie = req[b][s].cookie
      /\ r.good = good /\ r.token = token
  BY <1>1 DEF Request
<1>3. req'[b][s] = r
  <2>. HIDE DEF r
  <2>1. req' = [req EXCEPT ![b][s] = r]
    BY DEF Answer, r
  <2>. QED BY <1>1, <2>1
<1>. HIDE DEF r
<1>. QED BY <1>2, <1>3

LEMMA HandleFields ==
  ASSUME AuthInv, NEW b \in Tabs, NEW s \in Slots, Handle(b, s)
  PROVE  req'[b][s].what = req[b][s].what /\ req'[b][s].cookie = req[b][s].cookie
<1>1. CASE HandleLogin(b, s)
  <2>1. \E good \in BOOLEAN, token \in Tokens \cup {None} : Answer(b, s, good, token)
    BY <1>1 DEF HandleLogin, Fresh
  <2>. QED BY <2>1, AnswerFields
<1>2. CASE HandleLogout(b, s)
  <2>1. \E good \in BOOLEAN, token \in Tokens \cup {None} : Answer(b, s, good, token)
    BY <1>2 DEF HandleLogout
  <2>. QED BY <2>1, AnswerFields
<1>3. CASE HandleCheck(b, s)
  BY <1>3, AnswerFields DEF HandleCheck
<1>. QED BY <1>1, <1>2, <1>3 DEF Handle

LEMMA LoseFields ==
  ASSUME AuthInv, NEW b \in Tabs, NEW s \in Slots, Lose(b, s)
  PROVE  /\ req'[b][s].what = req[b][s].what /\ req'[b][s].cookie = req[b][s].cookie
         /\ ~req'[b][s].good /\ req'[b][s].token = None /\ req'[b][s].at # "none"
         /\ Others(b, s)
<1>1. ReqInv /\ req \in [Tabs -> [Slots -> Request]] /\ req[b][s] \in Request
  BY DEF AuthInv, TabsInv, ReqInv, ReqType
<1>. DEFINE r == [req[b][s] EXCEPT !.at = "failed", !.good = FALSE, !.token = None]
<1>2. /\ r.what = req[b][s].what /\ r.cookie = req[b][s].cookie
      /\ ~r.good /\ r.token = None /\ r.at # "none"
  BY <1>1 DEF Request
<1>3. req' = [req EXCEPT ![b][s] = r]
  BY DEF Lose
<1>. HIDE DEF r
<1>4. req'[b][s] = r /\ Others(b, s)
  BY <1>1, <1>3 DEF Others
<1>. QED BY <1>2, <1>4

LEMMA OwnHandle ==
  ASSUME OwnInv, NEW b \in Tabs, NEW s \in Slots, Handle(b, s), NEW c \in Tabs \ disturbed'
  PROVE  Own(c)'
<1>. USE SessionsAssumption
<1>1. AuthInv /\ c \notin disturbed /\ Own(c) /\ Others(b, s)
  BY HandleSessions DEF OwnInv, Handle
<1>2. \A t \in Slots : req[c][t] \in Request /\ Of(c, t)
  BY <1>1, TabFacts
<1>3. UNCHANGED <<cookie, tabVars>> /\ password' = password
  BY DEF Handle, HandleLogin, HandleLogout, HandleCheck, Login, WrongLogin, Logout, sessionVars
<1>4. CASE c # b \/ s = "out"
  <2>1. Untouched(c)
    BY <1>1, <1>3, <1>4 DEF Others, Slots, Untouched, tabVars
  <2>. QED BY <1>1, <2>1, OwnStays
<1>5. CASE c = b /\ s = "side"
  <2>1. req'[c]["form"] = req[c]["form"]
    BY <1>1, <1>5 DEF Others, Slots
  <2>2. req[c]["side"].what = "check" => req'[c]["side"].cookie = None /\ req'[c]["side"].token = None
    <3>1. ASSUME req[c]["side"].what = "check"
          PROVE  req'[c]["side"].cookie = None /\ req'[c]["side"].token = None
      <4>1. HandleCheck(b, s) /\ req[c]["side"].cookie = None
        BY <1>1, <1>5, <3>1 DEF Handle, HandleLogin, HandleLogout, Own, FirstCheck
      <4>2. ~Valid(None)
        BY <1>1 DEF Valid, AuthInv, SessionsInv, SessionsTypeOK
      <4>3. Answer(b, s, password = Unset, None)
        BY <1>5, <4>1, <4>2 DEF HandleCheck
      <4>. QED BY <1>1, <1>5, <4>1, <4>3, AnswerFields
    <3>. QED BY <3>1
  <2>3. req'[c]["side"].what = req[c]["side"].what
    BY <1>1, <1>5, HandleFields
  <2>. QED
    BY <1>1, <1>3, <2>1, <2>2, <2>3
       DEF tabVars, Own, ShownInStep, InStep, FirstCheck, FormCheck
<1>6. CASE c = b /\ s = "form"
  <2>1. req'[c]["side"] = req[c]["side"] /\ req[c]["form"].at = "sent"
    BY <1>1, <1>6 DEF Others, Slots, Handle
  <2>2. /\ req'[c]["form"].what = req[c]["form"].what
        /\ req'[c]["form"].cookie = req[c]["form"].cookie
    BY <1>1, <1>6, HandleFields
  <2>3. FormCheck(c)'
    <3>1. ASSUME req[c]["form"].what = "check"
          PROVE  req'[c]["form"].good => \/ /\ req'[c]["form"].token # None
                                            /\ req'[c]["form"].token = req[c]["form"].cookie
                                         \/ password = Unset
      <4>1. HandleCheck(b, s)
        BY <1>6, <3>1 DEF Handle, HandleLogin, HandleLogout
      <4>2. Valid(req[c]["form"].cookie) => req[c]["form"].cookie # None
        BY <1>1 DEF Valid, AuthInv, SessionsInv, SessionsTypeOK
      <4>3. /\ req'[b][s].good = (password = Unset \/ Valid(req[b][s].cookie))
            /\ req'[b][s].token = IF password # Unset /\ Valid(req[b][s].cookie)
                                    THEN req[b][s].cookie ELSE None
        BY <1>1, <4>1, AnswerFields DEF HandleCheck
      <4>. QED BY <1>6, <4>2, <4>3
    <3>. QED BY <1>1, <1>3, <2>2, <3>1 DEF Own, FormCheck
  <2>4. req[c]["side"].what # "check"
    BY <1>1, <2>1 DEF Own, FirstCheck
  <2>. QED
    BY <1>1, <1>3, <2>1, <2>3, <2>4 DEF tabVars, Own, ShownInStep, InStep, FirstCheck
<1>. QED BY <1>4, <1>5, <1>6 DEF Slots

LEMMA OwnLose ==
  ASSUME OwnInv, NEW b \in Tabs, NEW s \in Slots, Lose(b, s), NEW c \in Tabs \ disturbed'
  PROVE  Own(c)'
<1>1. AuthInv /\ c \notin disturbed /\ Own(c) /\ UNCHANGED <<cookie, tabVars, password>>
  BY DEF OwnInv, Lose, sessionVars
<1>2. CASE c # b
  <2>1. Untouched(c)
    BY <1>1, <1>2, LoseFields DEF Others, Slots, Untouched, tabVars
  <2>. QED BY <1>1, <2>1, OwnStays
<1>3. CASE c = b
  <2>1. FirstCheck(c)' /\ FormCheck(c)'
    <3>1. CASE s = "side"
      <4>1. req'[c]["form"] = req[c]["form"]
        BY <1>1, <1>3, <3>1, LoseFields DEF Others, Slots
      <4>2. /\ req'[c]["side"].what = req[c]["side"].what
            /\ req'[c]["side"].cookie = req[c]["side"].cookie
            /\ req'[c]["side"].token = None
        BY <1>1, <1>3, <3>1, LoseFields
      <4>. QED BY <1>1, <4>1, <4>2 DEF Own, FirstCheck, FormCheck, tabVars
    <3>2. CASE s = "form"
      <4>1. req'[c]["side"] = req[c]["side"] /\ req[c]["side"].what # "check"
        <5>1. Others(b, s) /\ req[c]["form"].at # "none"
          BY <1>1, <1>3, <3>2, LoseFields DEF Lose
        <5>. QED BY <1>1, <3>2, <5>1 DEF Others, Slots, Own, FirstCheck
      <4>2. /\ req'[c]["form"].what = req[c]["form"].what
            /\ req'[c]["form"].cookie = req[c]["form"].cookie
            /\ ~req'[c]["form"].good
        BY <1>1, <1>3, <3>2, LoseFields
      <4>. QED BY <1>1, <4>1, <4>2 DEF Own, FirstCheck, FormCheck
    <3>3. CASE s = "out"
      <4>1. req'[c]["form"] = req[c]["form"] /\ req'[c]["side"] = req[c]["side"]
        BY <1>1, <3>3, LoseFields DEF Others, Slots
      <4>. QED BY <1>1, <4>1 DEF Own, FirstCheck, FormCheck, tabVars
    <3>. QED BY <3>1, <3>2, <3>3 DEF Slots
  <2>. QED BY <1>1, <2>1 DEF Own, ShownInStep, InStep, tabVars
<1>. QED BY <1>2, <1>3

\* ... and what taking one leaves of a tab.
LEMMA OwnChecked ==
  ASSUME OwnInv, NEW b \in Tabs, NEW s \in Slots, Checked(b, s), NEW c \in Tabs \ disturbed'
  PROVE  Own(c)'
<1>1. AuthInv /\ c \notin disturbed /\ Own(c) /\ TabsType /\ UNCHANGED <<cookie, page, password>>
  BY TabFacts DEF OwnInv, Checked, sessionVars
<1>2. req'[b][s] = NoRequest /\ Others(b, s)
  BY <1>1, FreedOK DEF Checked
<1>3. \A t \in Slots : req[c][t] \in Request /\ Of(c, t) /\ Waiting(c)
  BY <1>1, TabFacts
<1>4. CASE c # b
  <2>1. Untouched(c)
    BY <1>1, <1>2, <1>4 DEF TabsType, Checked, Others, Slots, Untouched
  <2>. QED BY <1>1, <2>1, OwnStays
<1>5. CASE c = b /\ s = "side"
  <2>1. /\ cookie' = None /\ form'[c] = form[c]
        /\ req'[c]["form"] = req[c]["form"] /\ req'[c]["side"].what = "none"
    BY <1>1, <1>2, <1>5
       DEF Checked, In, Own, FirstCheck, Others, Slots, NoRequest
  <2>. QED BY <1>1, <2>1 DEF Own, ShownInStep, InStep, FirstCheck, FormCheck
<1>6. CASE c = b /\ s = "form"
  <2>1. /\ req'[c]["side"] = req[c]["side"] /\ req'[c]["form"].what = "none"
        /\ req[c]["form"].what = "check" /\ req[c]["form"].at # "none"
    BY <1>1, <1>2, <1>6 DEF Checked, In, Others, Slots, NoRequest
  <2>2. page'[c] = "login" /\ req[c]["side"].what # "check"
    BY <1>1, <1>3, <2>1 DEF Waiting, Own, FirstCheck, Slots
  <2>3. authed'[c] => InStep(c)'
    <3>1. authed'[c] = req[c]["form"].good /\ csrf'[c] = req[c]["form"].token
      BY <1>1, <1>6 DEF Checked, TabsType
    <3>. QED BY <1>1, <2>1, <3>1 DEF Own, FormCheck, InStep
  <2>. QED BY <2>1, <2>2, <2>3 DEF Own, ShownInStep, FirstCheck, FormCheck
<1>7. s # "out"
  BY TabFacts, <1>1 DEF Checked, In, Of, Uses, Slots
<1>. QED BY <1>4, <1>5, <1>6, <1>7 DEF Slots

LEMMA OwnLoggedIn ==
  ASSUME OwnInv, NEW b \in Tabs, LoggedIn(b), NEW c \in Tabs \ disturbed'
  PROVE  Own(c)'
<1>1. /\ AuthInv /\ TabsType /\ TabsType' /\ c \notin disturbed /\ Own(c)
      /\ UNCHANGED <<page, authed, password>>
  <2>1. AuthInv /\ TabsType /\ c \notin disturbed /\ UNCHANGED <<page, authed, password>>
    BY TabFacts DEF OwnInv, LoggedIn, TakeCookie, sessionVars
  <2>. QED BY <2>1, LoggedInOK DEF OwnInv, AuthInv, TabsInv
<1>2. /\ req[b]["form"] \in Request /\ Of(b, "form") /\ Waiting(b) /\ req \in [Tabs -> [Slots -> Request]]
      /\ req[b]["form"].at # "none"
  BY <1>1, TabFacts DEF Slots, LoggedIn, In, AuthInv, TabsInv, ReqInv, ReqType
<1>3. CASE c # b
  <2>1. cookie' = cookie
    BY <1>1, <1>3 DEF LoggedIn, TakeCookie
  <2>2. req'[c] = req[c]
    BY <1>2, <1>3 DEF LoggedIn
  <2>3. Untouched(c)
    BY <1>1, <1>3, <2>1, <2>2 DEF LoggedIn, TabsType, Untouched
  <2>. QED BY <1>1, <2>3, OwnStays
<1>4. CASE c = b
  <2>1. page'[c] = "login" /\ form'[c] # "bridge" /\ req[c]["side"].what # "check"
    BY <1>1, <1>2, <1>4 DEF LoggedIn, TabsType, Waiting, Own, FirstCheck
  <2>2. req'[c]["side"] = req[c]["side"]
    BY <1>2, <1>4 DEF LoggedIn, Slots
  <2>3. FormCheck(c)'
    <3>1. CASE req[b]["form"].good
      <4>. DEFINE q == [Sent("check") EXCEPT !.cookie = cookie']
      <4>1. Sent("check") \in Request /\ New(Sent("check"), "check")
        BY <1>1, SentOK
      <4>2. q.cookie = cookie' /\ ~q.good
        BY <4>1 DEF Request, New
      <4>3. req'[c]["form"] = q
        BY <1>2, <1>4, <3>1 DEF LoggedIn, Slots
      <4>. QED BY <4>2, <4>3 DEF FormCheck
    <3>2. CASE ~req[b]["form"].good
      <4>1. req'[c]["form"] = NoRequest
        BY <1>2, <1>4, <3>2 DEF LoggedIn, Slots
      <4>. QED BY <4>1 DEF FormCheck, NoRequest
    <3>. QED BY <3>1, <3>2
  <2>. QED BY <2>1, <2>2, <2>3 DEF Own, ShownInStep, FirstCheck
<1>. QED BY <1>3, <1>4

LEMMA OwnLoggedOut ==
  ASSUME OwnInv, NEW b \in Tabs, LoggedOut(b), NEW c \in Tabs \ disturbed'
  PROVE  Own(c)'
<1>1. AuthInv /\ c \notin disturbed /\ Own(c) /\ TabsType /\ UNCHANGED <<form, password>>
  BY TabFacts DEF OwnInv, LoggedOut, TakeCookie, sessionVars
<1>2. Others(b, "out")
  BY <1>1, FreedOK DEF LoggedOut, Slots
<1>3. req'[c]["side"] = req[c]["side"] /\ req'[c]["form"] = req[c]["form"]
  BY <1>2 DEF Others, Slots
<1>4. CASE c # b
  <2>1. Untouched(c)
    BY <1>1, <1>3, <1>4 DEF TabsType, LoggedOut, TakeCookie, Untouched
  <2>. QED BY <1>1, <2>1, OwnStays
<1>5. CASE c = b
  <2>1. ~authed'[c] /\ (cookie' = cookie \/ cookie' = None)
    BY <1>1, <1>5 DEF TabsType, LoggedOut, TakeCookie
  <2>. QED BY <1>1, <1>3, <2>1 DEF Own, ShownInStep, FirstCheck, FormCheck
<1>. QED BY <1>4, <1>5

LEMMA OwnCalled ==
  ASSUME OwnInv, NEW b \in Tabs, Called(b), NEW c \in Tabs \ disturbed'
  PROVE  Own(c)'
<1>1. AuthInv /\ c \notin disturbed /\ Own(c) /\ TabsType
      /\ UNCHANGED <<cookie, page, authed, form, password>>
  BY TabFacts DEF OwnInv, Called, sessionVars
<1>2. req'[b]["side"] = NoRequest /\ Others(b, "side")
  BY <1>1, FreedOK DEF Called, Slots
<1>3. csrf'[c] = csrf[c] /\ req'[c]["form"] = req[c]["form"]
  BY <1>1, <1>2 DEF Called, TabsType, Others, Slots
<1>4. req'[c]["side"] = req[c]["side"] \/ req'[c]["side"].what = "none"
  BY <1>2 DEF Others, Slots, NoRequest
<1>. QED BY <1>1, <1>3, <1>4 DEF Own, ShownInStep, InStep, FirstCheck, FormCheck

LEMMA OwnStep == OwnInv /\ [AuthNext]_authVars => OwnInv'
<1>. SUFFICES ASSUME OwnInv, [AuthNext]_authVars, NEW c \in Tabs \ disturbed' PROVE Own(c)'
  BY StepInv DEF OwnInv, AuthInv, TabsInv, TabsType
<1>1. ASSUME NEW b \in Tabs, Progress(b) PROVE Own(c)'
  BY <1>1, OwnPage, OwnLoggedIn, OwnLoggedOut, OwnCalled, OwnHandle, OwnChecked DEF Progress
<1>2. ASSUME NEW b \in Tabs, Submit(b) \/ PressLogout(b) \/ Call(b) PROVE Own(c)'
  BY <1>2, OwnClicks
<1>3. ASSUME NEW b \in Tabs, NEW s \in Slots, Lose(b, s) PROVE Own(c)'
  BY <1>3, OwnLose
<1>. QED BY <1>1, <1>2, <1>3, OwnServer, OwnStutters DEF AuthNext

(* What a tab posts is not refused while its session is its own: the CSRF token
   it took from its last check is that of the session of the browser's cookie
   (api-client.ts:27-46, app.go:1564-1590).                                  *)
THEOREM PostsAreAccepted == AuthSpec => []PostsPass
<1>1. AuthInit => OwnInv
  BY OwnStart
<1>2. OwnInv => PostsPass
  <2>. SUFFICES ASSUME OwnInv, NEW b \in Tabs \ disturbed,
                       page[b] = "panel", authed[b], Valid(cookie)
                PROVE  csrf[b] = cookie
    BY DEF PostsPass
  <2>1. cookie # None /\ password # Unset
    BY SessionsAssumption DEF OwnInv, AuthInv, SessionsInv, SessionsTypeOK, Kept, Valid
  <2>. QED BY <2>1 DEF OwnInv, Own, ShownInStep, InStep
<1>. QED BY <1>1, <1>2, OwnStep, PTL DEF AuthSpec
=============================================================================
