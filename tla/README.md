# wild-work2api: TLA+ models and proofs

wild-work2api is a gateway: it offers an OpenAI/Anthropic-style API and serves
each request with one of many accounts on three services ("channels":
WorkBuddy, TraeWork, Qoder). Around the requests it keeps those accounts
usable: it refreshes their tokens, checks in daily, cools down or disables the
accounts that fail, and earns credits ("travel"). A web panel lets an operator
log accounts in, import, disable, remove and reload them, start tasks and
change settings at any time, in any number of tabs.

This directory models that core, the streams it relays and the panel in TLA+,
checks them with TLC,
and proves with TLAPS the types and every safety property that a run checks
(one of them, `PoolIsLedger`, under an assumption named in section 5).
Definitions keep the names of the source where there is one; `PROJECT.json`
gives the source lines of each.

## 1. Inventory

| Part | State it keeps | Operations | Interacts with |
|---|---|---|---|
| Account pool `internal/pool` | per account: balance, disabled, cooldown, two failure counters, per-model cooldowns; the state file | pick, note success/error/dead session, cool, disable, re-enable, remove, align with the directory, save | everything below, each method under one mutex |
| Chat dispatch `internal/server/handler.go` | per channel one sticky record; per request the attempts | choose an account, send, rotate on failure, penalise, pass the error on | pool, tokens, upstream; concurrent requests |
| Scheduler loop `internal/scheduler/scheduler.go` | the planned slot, its timer, a wake channel | plan, wait, run a task, re-plan on change | the panel changes its configuration; runs the batches |
| Account batches (same file, `app.go`) | none of their own: lists and readings they hold while they run | keepalive, check-in, balance refresh | pool, tokens, upstream |
| Travel runs `internal/scheduler/travel.go` | shared counters, adoption attempts of the day, one mutex per kind | travel run, activity run | pool, growth service |
| Tokens `internal/auth`, upstream clients | one object per account with a lock; the credential file | refresh, save, load a directory | every refresher, logins, reloads |
| Logins `internal/login*`, `app.go` | busy flag, cancel function, client, kind; one state file | start, cancel, poll, complete | reload of the pool |
| Panel sessions `app.go` | table of sessions and its file, guard against guessing | log in, log out, check, load at the start | the tabs |
| Panel administration `app.go` | configuration in memory, in the file, in force; status cache | change the key and the times, status of the cats, task events | handler, schedulers, the pages |
| A tab of the panel `webui/.../use-auth.tsx`, `api-client.ts`, `LoginPage.tsx`, `AppLayout.tsx` | session known, CSRF token, form; the cookie it shares with the other tabs | check, log in, log out, call | panel sessions |
| Polling `webui/.../use-polling.ts` | generation, request under way, loop, what is shown | poll, refresh, turn on and off | all pages that read |
| Pages `webui/.../pages` | API page: two dialogs; accounts page: list, actions, login, import and credit dialogs; cats page: status, events, banner | load, act, wait, poll | panel administration, pool, logins, travel |
| Streams `internal/server/stall.go` | prefix buffer, watchdog | wait for first content, close when idle | chat dispatch |
| Request log `internal/server/reqlog.go` | ring in memory, journal file | append, trim, load | chat dispatch |
| Stream relays (`anthropic.go`, `responses.go`, `thinktag.go`, `sse.go`, `solosse.go`) | per stream: open blocks, items, tags, end | translate line by line, end the stream | chat dispatch, the client |
| Classification, upstream clients, configuration, prompts | none, or caches | | |
| Desktop shell, rendering components | none relevant | | |

The behaviours that are hard here:

* **Interleaving without a lock in between.** The pool's methods are atomic,
  but their callers are not: a request reads the sticky record, picks, calls
  for seconds, then notes the outcome. A batch lists accounts once. A balance
  is read, later written. A setting is written under the lock and put in force
  after it.
* **Two copies of one truth.** Memory and state file; the token in memory, in
  the credential file and at the service that rotates it; shown balance and
  balance; the session a tab believes in and the cookie the browser sends.
* **Failure between two steps.** Saves whose error is dropped, answers lost
  after the service acted, the process killed at any point.
* **The operator at any moment.** Remove, reload, disable, cancel, change the
  schedule while everything else runs.
* **Requests that overtake each other.** The pages ask on timers, after
  actions and in dialogs that are closed and opened again, without waiting for
  what they have asked before; any answer may be late or lost.
* **Two readers of one stream.** A goroutine reads a stream until it has
  content, then the relay reads on; a watchdog may close it under both; it may
  break anywhere, and the client must still be able to tell.
* **Time.** Cooldowns with limits; slots that coincide or come while a task
  runs; deadlines that race answers.

What makes each modelled part correct is stated as the properties of its
module (section 4); the hazards that led to them, with their source lines, are
in `PROJECT.json` under `hazards`.

## 2. Modules and the code

Each `MC...` module only gives constants their values for TLC.

### The gateway

**`AccountPool`** (`pool.go`). One action per exported method that changes
state; since every method holds the mutex throughout, the trailing
`saveLocked` is part of the action. `mem` is `byUID`, `disk` the state file;
`NoteSuccess`, `CooldownSoftForModel`, `SyncToDir` and `NoteSessionDead` below
its threshold do not save, as in the code. A save may fail (`SaveMayFail`).
`ScanDir` and `SyncToDir` are the two unlocked halves of a reload. `Crash` and
`Boot` are the end and start of the process (`main.go` 95-107, 203). Left out:
displayed fields; they appear only as the save they cause.

**`DurableLedger`**, **`AccountPoolRefinement`**. What the pool promises its
callers - a ledger of account states with no memory, file or save in it - and
the mapping under which the pool implements it: an account's state is what
memory holds, or what the file holds while memory does not know it. Stopping and
starting (`StopOrStart`) loses no state; an account that enters while the service
runs may start blank (`Realign`), as `SyncToDir` makes it.

**`ChatDispatch`** (extends `AccountPool`; `handler.go` 143-198, 482-622). A
request goes through the places of `Place`: `pick` (`ReadSticky`), `check` (is
that account usable), `fresh` (`Pick`), `store`, `admit` (already tried?),
`repick` (`PickExcluding`), `send` (model cooldown), `call`, then `clear` and
`penalize` or `ok` and `count`, or `exhausted`. Between any two of these
another request, or the operator, may act; that is exactly where the code
holds no lock. `Failure` lists the outcomes the classification can give.

**`SchedulerLoop`** (`scheduler.go` 200-310). `Plan`, `Wake`, `Fire`,
`TaskDone` are the loop's steps, `SetCheckinMinutes` the panel's. `Until` is
`nextFireMinutes`, with the zero time it returns for a minute no day has.

**`AccountTasks`** (extends `AccountPool`; `scheduler.go` 342-512, `app.go`
771-814). Batches step by step - list, next account, upstream call, balance
read, balance written, recorded - beside chat requests, any number of one
account: each picks it, is answered, and notes the answer in the pool, in any
order with the others, as sticky routing has it. `deads` observes the dead
answers, `Untold` those of them that are not noted yet.

**`TravelTasks`** (`travel.go`, `app.go` 771-814). Travel and activity runs
and both refreshes of balances, of all accounts (one at a time) and of one
(`RefreshCredits`, any number): mutexes, the shared counters and their readings,
the service's cats, trips and balances (external), lost answers. A balance
rises by rewards and falls by what chat requests cost (`Spend`); it is known by
the number of its changes, so that a reading is older than another or not.
`written` observes, per kind of run, the last reading written.

**`TokenLifecycle`** (`auth.go` 15-41, 202-332, `upstream/client.go` 240-287,
`app.go` 402-502, 840-851). One account's token: objects with locks, the file,
the service that rotates it. A refresh is take, ask (lock), answer (unlock),
save - the save being a critical section of its own, as in every caller.

**`LoginFlow`** (`app.go` 280-471, the login packages). Logins and their
pollers, the App's shared login fields, read without the mutex by the pollers,
the one state file, the callback server that survives a cancellation, and both
calls of `finishLogin`. The poller's several readings of the kind in one tick
are one reading here.

### Streams

**`StreamWatch`** (end of `dispatchChat`, `stall.go`). The probe, the handler
that waits for it, the watchdog and the relay, on one body. `Read` and `Renew`
are two steps since the timer is reset after the read returns; `ProbeLine` puts
a line into the buffer of limited size that `HandOn` has replayed before the
relay reads on; `Fire` is the timer's callback. The service (`Send`, `End`) and
the client (`ClientReady`, `ClientGone`) are external. A line is known by its
number, so that a line lost, repeated or out of order shows, and by what it is
to the probe (`LineKind`): content that `contentChunk` knows, content it does
not know (TraeWork's and Qoder's forms), an end, or none of these.

**`ChatRelay`** (`upstream/sse.go`, `traework/solosse.go`, `qoder/sse.go`,
`thinktag.go`). A line of the service is the set of what it has in it; the
elements the client gets are known by what a client can tell apart, a chunk's
text by its pieces, of which there are four at most, and a step of the relay
shows three elements at most (`Shown`). WorkBuddy's and TraeWork's relays read
on after [DONE], `done` and errors, to the end of the file, and so do the
actions (to Qoder's, [DONE] is the end); `after` observes that the service had
gone on. `Finish` is the end of a
stream, which each channel has its own.

**`AnswerRelay`**, extended by **`AnthropicRelay`** (`anthropic.go`) and
**`ResponsesRelay`** (`responses.go`). The base has what both read - pieces of
reasoning, text and tool calls, a finish reason, the end - and what a client
must be able to make of any answer; a piece is a fragment of a call with or
without its id and arguments, and `said` observes those that say something. The
two have the relays: blocks one after the other, numbered items side by side.
What a client makes of each event is an operator of its own (`SeesBlock`,
`SeesItemDone`, ...), which compares it with what came before and keeps what was
out of order in `view.wrong`. A step emits the events that one piece or the end
causes, and the client may be gone at any of them (`Emit`); the items of a
response, of which there can be any number, are completed one by one after the
stream has ended (`CompleteItem`, `EndResponse`).

**`RequestLog`** (`reqlog.go`, and its calls in the handlers). The window in
memory and the journal, of which a write may be whole, lack its line's end, be
cut short or fail (`How`). A journal is what can be read of it, the number of
lines that cannot, and how the last one ends, since the next record is appended
to one without its end (`Joined`). An `Import` step writes one record of the
older version's file; the process dies at any time, between two of these, too.

**`Streams`**. The four under one `part`: they meet in the lines, which the
relays take in order and ended (`Replayed`), and share no variable.

### The panel

The server's handlers run under a lock and are one step each, except where the
code releases it in between. In a tab, what runs between two awaits is one
step: an event handler up to its request, an answer with everything that
follows it until the next request. Requests carry what they were sent with,
are handled at any later time, and their answers are applied at any time after
that, or never.

**`PanelSessions`** (`app.go` 1373-1550, 1640-1710). Login, logout, expiry, the
guard, the file with its fingerprint, the start with another password.

**`PanelAuth`** (extends it; `use-auth.tsx`, `api-client.ts`, `LoginPage.tsx`,
`AppLayout.tsx`). Any number of tabs of one browser. Each has up to three
requests out (`Slots`): the check it loaded with or a page's call, what its
login form asked, a logout. `disturbed` observes the tabs whose session
something other than the tab itself has touched.

**`PagePolling`** (`use-polling.ts`). Generations, the request under way that
refreshes share, the loop of each generation, refreshes chained to a request
of an older generation. `Enable` and `Disable` are the request log page's
switch; `SettleWith` is the run of one promise's continuations, in the order
the code attached them: each refresh has attached its own (`chained` counts
them), and each starts a request, the last of which is shared from then on.

**`ConfigPanel`** (extends it; `ApiPage.tsx`, `app.go` 880-1000). The API page's
polling and its two modal dialogs, beside the server's three copies of a
setting. The lock is released between writing a setting and putting it in
force, so `Accept` and `PutInForce` are two actions.

**`AccountsList`**, **`LoginDialog`**, **`ImportDialog`**, **`CreditDetail`**
(`AccountsPage.tsx`). The list with its interval, actions and batches; the
dialog that waits for a login by asking every two seconds (the server's login
is `LoginFlow`'s, reduced to busy or not, with an account or without); the
dialog that imports files one after the other and marks them by index; the
dialog of one account's credits. They meet in the list's load only, which the
page's interval already does at any time, and share no other variable.

**`CatsPanel`** (`CatsPage.tsx`, `app.go` 585-680 and its task events). The
loads of the status with the server's one-minute cache and single fetch, the
polls of task events, the banner, and the effect that runs anew when the
banner changes.

**`Panel`** (`App.tsx`). The pages under one `route`: the router shows one page
and starts it anew, so a page's behaviour is that of its module while
`route` is its own. `PanelFairness` is stated here.

**`...Proofs`**: section 5.

## 3. Abstractions and bounds

Accounts, models, requests, objects, logins, tabs and files are model values.
Balances are 0 or 1 (the code compares them with 0 and each other). Time is a
small counter; durations are 1 or 2. Thresholds are 1 to 3, so that below, at
and beyond are distinct. What a page shows is a version or a revision of the
server's value: enough to tell an older answer from a newer one.

| Run | Bounds | Why they are enough |
|---|---|---|
| `pool_states` | 1 account, 1 model, clock to 4, thresholds 2 and 3 | no property relates two accounts; delays below, at and beyond the cap |
| `pool_ledger` | 2 accounts, clock to 2 | a save of one account writes, and forgets, the other's state |
| `chat_safety` | 2 requests, 2 accounts, 2 attempts | all sharing is pairwise; rotation needs a second account |
| `chat_answered` | 2 requests, 1 account, 3 attempts, every failure | an attempt after which nobody is left to pick, by one's own failure or the other's |
| `loop_changes` | a day of 15 minutes, 6 slots, tasks to 2 minutes, 3 changes | a change before, at and after a slot and during a task; slots apart and too close |
| `token_saved` | 2 refreshers, 3 objects, 4 tokens | two may hold old objects while the pool has a third |
| `tasks_batches` | 1 account, 2 goroutines (the scheduler's: keepalive or check-in; the panel's: check-in or refresh), 2 chat requests, dead threshold 2 | accounts are independent; two un-noted answers of one account with a success, a batch and the operator between them; 182,584 states |
| `travel_runs` | 1 account, 6 goroutines (2 travel, 1 activity, 2 refreshes of all, 1 of one), 3 starts, credits spent once | two runs of a kind, or of two kinds, and a reading of balances, with the balance changed between any of them; 903,906 states |
| `login_flows` | 3 logins of 3 kinds, 1 poll each | the wiped login, the one that wipes it, a third |
| `streams` | watch: 3 lines, clock to 3, a buffer of 2, timeouts 1 and 2; chat: 5 lines, 3 channels; answers: 3 pieces of 2 calls; log: a window of 2, 3 old records, 3 calls, 3 starts | a line beyond the buffer, and beyond each timeout; the opening, closing and end of a tag with a line before and after; one call between two pieces of another; a window, an import and a restart each cut off once more after the first |
| `panel_auth` | 2 tabs, 2 tokens, a password or none, 1 start, 3 clicks, 1 loss | one tab's login, logout or refusal against the other's; a session of before and one of after a start. The theorems hold for any number |
| `panel_pages` | one fault per page; polling: 4 requests, 3 generations, 2 refreshes chained to one request, 3 versions; list: 1 action beside a batch and a load of the interval, 2 revisions; logins: 2, with 2 questions; imports: 2 runs of up to 2 files; credits: 2 accounts, 2 questions; cats: 2 loads, 1 poll of events, 1 run | a request of an older generation, the loop's and both refreshes' after it; an answer of before and one of after each change, wait or view. Polls of events that overlap, which the effect stops, are not reached |

The bounds that are not the code's own - `MaxTime`, `MaxToken`, `MaxStarts`,
`MaxPolls`, `MaxReqs`, `MaxChanges`, `MaxDuration`, `MaxSpends` of the gateway,
`MaxLines`, `MaxChunks`, `MaxPieces`, `MaxCalls`, `MaxTime`, `MaxStarts` of the
streams, `MaxStarts`, `MaxClicks`, `MaxLost`, `MaxGen`, `MaxChained`, `MaxVersion`, `MaxFaults`,
`MaxRev`, `MaxFailures`, `MaxLogins`, `MaxLosses`, `MaxMisses`, `MaxRuns`,
`MaxDrops` of the panel, and the numbers of slots for requests under way - only
stop the clock, a service, a fault or a panel user from going on. Deadlock
checking is off where the bounded environment may stop: everywhere except in
`loop_changes`, whose loop never may.

**Fairness** is assumed only of what runs by itself: goroutines - each chat
request (`FairChatSpec`), the loop and the clock (`FairLoopSpec`),
each running batch (`FairTaskSpec`), each login (`LoginFlow!FairSpec`) - which
wait only for mutexes held briefly and for upstream calls with a timeout; the
goroutines and timers of a stream (`StreamsSpec`), and nothing of its service
and its client; and a browser's promises, timers and effects (`AuthFairness`, `PanelFairness`): a
request is answered or fails, what waits for it resumes, a timer set fires. In
`PanelFairness` a login at the server ends (it has a deadline), a run of tasks
ends (`BatchesEnd`), and a cache ages. Nothing is assumed of the operator, of
users, or of new requests. Each promise of a page has a fairness condition of
its own where a page polls without end, since the steps of the polls alone
would otherwise count as progress; in `PanelAuth` nothing repeats by itself and
one condition is enough.

## 4. What the runs show

Properties that hold:

* Pool: cooldown limits are respected under failing saves, crashes and
  reloads (`CooldownBounded`); the state file agrees with memory at every point
  the process may die (`SavedStateAgrees`), from which it follows that it holds
  every disable; only the operator re-enables (`OnlyOperatorReenables`); the
  pool implements the ledger (`PoolIsLedger`).
* Chat: the sticky record overruns its limit by at most the requests in
  flight (`StickyOverrun`); a request gives up only when it may
  (`GivesUpLast`), and every request ends (`EveryRequestAnswered`); only
  accounts that failed themselves are punished (`ClientErrorsHarmless`).
* Loop: a slot of the day runs in its minute and not twice for one coming of
  it (`OncePerDay`); once
  the configuration has settled, however the changes fell before, every slot
  that is more than a task's length behind the others runs every day
  (`ApartSlotsRun`).
* Batches: however many requests of an account are answered and note their
  answers late, it is disabled automatically only after as many dead answers as
  the threshold says (`DisabledAfterDeads`); batches end
  (`BatchesEnd`).
* Travel: no move on a stale trip (`SeesFreshTrip`), nothing counted that was
  not paid (`CountersEarned`), and no balance read by a run replaces a newer one
  of its kind, while credits are spent and earned (`ReadingsInOrder`). Across
  kinds an older reading may win (`ShownUpToDate`, below).
* Tokens: without a lost answer, a caller that never saves, or a reload under
  a running refresh, the file holds a live token whenever no save is pending
  (`SavedTokenIsLive`).
* Logins: a login reported in progress is running and can be cancelled
  (`BusyIsRunning`), all end (`LoginEnds`), accounts come only from logins
  their user completed (`OnlyAuthorised`).
* Sessions: whichever writes fail and however often the password changes, the
  sessions in the table are of the password in force (`SessionsOfPassword`); a
  logout that was written is final (`LoggedOutStaysOut`); a tab whose session
  nothing else has touched sends the right CSRF token (`PostsPass`); no check
  and no login form hangs (`LoginFormEnds`).
* Polling: the loop of the latest generation goes on and no other has a timer
  (`PollingAlive`); what is shown never goes back unless one answer has started
  several requests (`NeverBack`), and catches up (`PagesCatchUp`).
* Settings: a setting in force is the one configured, and the file is the
  configuration, but for the cases the property names (`InForce`).
* Accounts page: an action ends with the list it led to, or an error
  (`ActionShown`); only the end of its login ends a wait, and it does
  (`ToldWhenOver`, `WaitingEnds`); what an import is said to have done it has
  done, and the accounts are loaded after it (`ImportsTold`); the credits shown
  are of the account they are shown for (`DetailOfView`).
* Cats page: it, too, comes to show the last status, whichever load waited for
  another's fetch (`PagesCatchUp`).
* Streams: what a client gets is what the service sent, in order and without a
  gap, although two readers took it (`Replayed`); only a stream that is silent,
  or to the probe has nothing it knows as content, is given up or closed
  (`CutsDeadOnly`); every wait and every stream
  ends (`StreamEnds`).
* Relays: a stream that ended by itself has its [DONE], and another one only
  from a service that went on after its end; the client is told of a cut as far
  as its channel tells (`EndIsTold`); reasoning stays between its tags as long as it
  comes first (`TagsNest`); every piece arrives under the right block or item,
  each call under one id, with a cut told from an end (`AnswersArrive`).
* Request log: through short writes, deaths and imports no record is doubled or
  out of order, the window survives a restart, and a damaged line costs at most
  one whole record (`LogKept`). `StreamsTypeOK` is types, and that a client's
  picture of blocks and items is the relay's.

Statements of comments and documents that the code does not keep. Each is
stated at the end of its module. TLC refutes it in a second or two when its
name is put into the PROPERTIES (INVARIANTS for `ShownUpToDate`, `OneLogin`,
`LastChangeInForce`, `MarksTrue`, and those of the streams except
`StallIsSilence`) of that module's cfg with `SPECIFICATION Spec` (`ChatSpec`, `TaskSpec`, `LoopSpec`) in
place of its own properties; for the panel in `MCPanel_pages.cfg`, for the
streams in `MCStreams.cfg` with `StreamsSpec`, within a minute:

| Statement | Says | What happens |
|---|---|---|
| `TravelAtHours` | `scheduler.go:33` travel hours | are used as minutes |
| `RemovedStaysRemoved` | `app.go:840` the file is deleted | a refresh under way writes it again |
| `AliveBreaksRow` | `pool.go:64` dead answers in a row | only chat successes break the row, not a keepalive that finds the session alive |
| `VanishedStateKept` (2 accounts) | `pool.go:129` state of vanished accounts is kept | the next save drops it |
| `PassthroughIsLast` | `handler.go:608` the last error is passed on | an earlier attempt's may be |
| `RotatesAfterMax` | `handler.go:66` after `maxReqs` another account | `Pick` may draw the same |
| `CountsOwnSuccesses` (`MaxReqs = 2`) | `DEVELOPMENT.md:226` the account's own successes | another account's are counted too |
| `DayNotSkipped` | `scheduler.go:252` no slot is skipped silently | a slot of the same minute, or under a running task, is |
| `FiresLater` (a keepalive hour outside the day) | `scheduler.go:208` a time after now | the zero time: fires at once, again and again |
| `CallersSave` (a refresher outside `Saver`) | `client.go:241` the caller saves | the pricing refresh does not |
| `ReloadAligns` | `app.go:476` the pool gets the newest files | it gets what was read before a save |
| `EventsTruthful` (2 accounts) | `travel.go:162` growth tells one account's move | also a move of the other run |
| `ShownUpToDate` | `travel.go:141` the new balance is shown at once | an older reading overwrites it |
| `OneLogin` | `app.go:291` one login at a time | the second `finishLogin` frees the next login's fields |
| `CancelledStaysOut` | `app.go:332` cancel the login | an answer in flight completes it |
| `LastChangeInForce` | `app.go:882`, `937` a change takes effect | two changes at once are put in force in either order |
| `MarksTrue` | `AccountsPage.tsx:291` an item is imported | files chosen while a run goes on take over its marks |
| `StallIsSilence` | `handler.go:576` an account that stalls is rotated | the probe knows only lines of OpenAI's form; a stream of another form is given up at the timeout, content or not |
| `ExactlyOneDone` | `sse.go:396` exactly one [DONE] | TraeWork's `done` after an error writes a second one; one of the service is forwarded |
| `AllReplayed` (`SinkCap = 1`) | `stall.go:32` the prefix is replayed | what is beyond the buffer is not |
| `BreakIsTold` | `stall.go:104` a stream closed ends with an error | on TraeWork and Qoder it just ends |
| `ReasoningTagged` | `thinktag.go:2` reasoning is between tags | not that which comes after the closing tag |
| `ClosedInTime` | `thinktag.go:115` the tag is closed at the end | after [DONE], if nothing but reasoning came |
| `FailureIsTold` | `anthropic.go:524` a broken-off answer is not presented as complete | an error in the stream is skipped, and [DONE] makes it complete |
| `WholeIsRelayed` (`OwnForm = TRUE`) | `README.md:17` all channels on all endpoints | lines of another form are not understood by the two relays |
| `HistoryKept` | `reqlog.go:32` the journal is only appended to | a line after a cut one is lost |
| `ImportWhole` | `reqlog.go:61` old records are imported once | an import cut off is not taken up again |
| `EveryCallLogged` | `reqlog.go:2` every call is logged | not those refused before the dispatch |

The exceptions the panel's properties name are behaviours of the code, too: a
tab's first check, answered late, undoes the login it was overtaken by
(`disturbed` in `PostsPass`); a load of the interval may put an older list
over a newer one (`ActionShown` is about the end of an action only); an answer
an earlier wait asked for may end a later one (`ToldWhenOver`); the cancel
button of the login dialog cancels twice (`CancelsSent`); the first completed
run a page sees loads no status (`FeedShown`); a refused setting comes into
force with the next start if another setting is saved meanwhile (`InForce`).

Every property of a passing run has a mutant, an operator placed before the
definition it replaces that makes a plausible mistake there (dropped guard,
missing save, `>` for `>=`, a loop not told that it is over); with it TLC
finds the property violated.

## 5. Proofs

Proved for any accounts, models, balances, durations and thresholds that
satisfy `PoolConstants` and `NoneIsNoEntry` (stated in `AccountPool`):

* `TypeCorrect`: `Spec => []TypeOK`. The counters' limits are part of it, and
  `TypeOK` is inductive by itself. `EditsSound` collects, per kind of edit of
  an entry, that the result is an entry; `UpdateType` lifts that to the pool.
* `SavedStateCorrect`: `SavedStateAgrees` is not inductive without types, and
  by method would need a dozen similar cases. `StepShape` reduces every step
  to four: saved; not saved with what persists unchanged; entries created
  blank or dropped; restarted from the file. Each preserves the invariant.
* `DisableDurable` follows from it: a disabled entry is never blank.
* `OperatorReenables`: the action property; it needs that a process that is
  down knows no account (`DownEmpty`), so `Boot` re-enables nobody.
* `CooldownsBounded`: from types and `ReachableEdits`; deadlines are set to
  now plus a duration and only the clock moves, forward.
* `PoolImplementsLedger`: if no save fails (`SaveMayFail = FALSE`), the pool
  implements `DurableLedger`. `AlwaysSaved` gives `saved`, hence agreement of
  file and memory; `StepRefines` takes each action to a ledger step or a
  stutter: a save may forget accounts memory does not list (`SaveBooks`), a
  crash and a restart are `StopOrStart`, a reload is a `Realign`.

Proved for any day, slots and changes of them (`SchedulerConstants`), and for
any batches, accounts and thresholds (`TaskConstants`, `PoolConstants`), in
`SchedulerProofs`:

* `SlotsOnTime`: `LoopSpec => OncePerDay`. While the loop waits, the timer is
  what is missing to the slot's minute, and the slot is due when the timer is
  ready (`OnTime`); for that the slot must be one of the configuration, unless
  a change is about to wake the loop.
* `TasksTypeCorrect`: types, and that the pool's count of dead sessions,
  together with all answers that chat requests and batches have not noted yet,
  is not ahead of the dead answers there were (`TaskTypeOK`). Every step of a
  batch or a chat request is one of the pool, or leaves it alone
  (`TasksArePool`); an answer or a note changes the number of those to be noted
  by one (`UntoldMore`, `UntoldLess`).
* `DeadsDisable`: `TaskSpec => DisabledAfterDeads` follows from it: no other
  method counts or disables (`OthersKeep`), and `NoteSessionDead` disables only
  what has been counted (`DeadNoted`).

Proved for any number of logins and polls (`LoginConstants`), in
`LoginProofs`:

* `TypeCorrect`: `TypeOK` looks into functions without saying where they are
  defined; `Shape` adds that and is inductive (`Shaped`).
* `BusyRuns`: `Spec => []BusyIsRunning`, inductive given `Shape`: a login moves
  on with the fields untouched, ends with `finishLogin`, or panics for want of
  a client, which only wiped fields lack.
* `AuthorisedOnly`: `OnlyAuthorised` strengthened along the way of the
  credentials - the state file, what a poll took from it, a granted poll -
  since each may belong to another login than the one that handles it.

Proved for any accounts and runs (`TravelConstants`), in `TravelProofs`:

* `TypeCorrect`, from `Shape`, which is inductive (`Shaped`) and says besides
  that each mutex is held exactly by the run under way that took it.
* `TripsFresh`: `Spec => []SeesFreshTrip`. Of two travel runs under way one
  would not hold the mutex (`TravelsAlone`), activity runs leave trips alone,
  and what the service does by itself ends no trip that has arrived or that has
  not begun.
* `ReadingsStayInOrder`: `Spec => ReadingsInOrder`. What a kind has written was
  read before now, and not after what the run that holds its mutex has read
  (`InOrder`); there is one such run (`OneOfAKind`), and the count of a balance's
  changes only grows (`ChangesGrow`).
* `CountsPaid`: `Spec => []CountersEarned`. What is counted, together with the
  payment a run has got and is about to count, is no more than what was paid;
  each mutex admits one run of its kind, so no payment is counted twice
  (`CountInv`).

Proved for any requests, accounts, attempts, thresholds and faults
(`ChatConstants`, `PoolConstants`), in `ChatProofs`:

* `ChatTypeCorrect`: `Spec => []ChatTypeOK`. Every step of a request is a step
  of the pool or leaves it alone (`ChatIsPool`), so `TypeStep` of the pool's
  proofs applies; the dispatcher adds, for each place a request can be at, that
  it has one attempt for every account it has tried (`ReqOK`).
* `NoneIsMissed`: `Spec => GivesUpLast`. Only three steps give up
  (`GiveUpSteps`); each finds the attempts used up or no healthy account left.
* `OverrunBounded`: `StickyOverrun` is not inductive: the count and the
  requests that may still add to it are bounded together (`Room`).
* `ClientsHarmNone`: an account nobody blames has a spotless entry, and a
  request about to penalise has blamed its account (`ReqOK`).

Proved for any refreshers, objects and tokens (`TokenConstants`), in
`TokenProofs`:

* `TokenTypeCorrect`: `TypeOK`, with the lock of an object held by exactly the
  refresher that waits for an answer, through restarts.
* `SavedIsLive`: `Spec => []SavedTokenIsLive`. As long as nothing was spoilt
  there is one object that all hold, whoever is about to save has a live token,
  and the file is live when nobody is (`Whole`).

Proved for any number of tabs, tokens, passwords and starts
(`SessionsAssumption`, `AuthAssumption`), in `PanelProofs`:

* `AuthTypeCorrect`, from `AuthInv`: besides the types, the sessions are in
  order (`SessionsInv`), and every cookie and token in a tab or a request has
  been issued (`TabsInv`).
* `PasswordChangeEndsSessions`, `LogoutIsFinal`: both speak of the table and of
  the file, since a start copies one into the other. `SessionsInv` says that
  tokens are made only under a password and that there are none without one
  (`Kept`), and that what was logged out had been issued (`OutIssued`), so that
  a login, which takes a fresh token, never revives it.
* `PostsAreAccepted`: `OwnInv` says of an undisturbed tab that its CSRF token is
  the cookie while it shows the panel (`ShownInStep`), that the check it loaded
  with was sent before there was a cookie (`FirstCheck`), and that the check its
  login form sends carries the new one (`FormCheck`). Other tabs only matter
  where they change the cookie, which disturbs this one.

Proved for any number of slots, accounts, files and generations, in
`PanelProofs`. `PartSteps` reduces a step of the panel to a step of each part,
or a stutter of it; each part then has an invariant of its own:

* `PollingGoesOn`: a loop waits for a request that is under way (`PollInv`);
  the request joined is never free; only the loop of the latest generation is
  not cancelled.
* `ShownNeverBack`: as long as no one answer has started two requests, the
  requests of the latest generation are one, the one that refreshes share, and
  it was answered after what is shown; what waits for a request of an older
  generation waits for that one (`BackInv`).
* `SettingsInForce`: what is pending was written; an error leaves the file
  behind (`ConfigInv`).
* `ActionIsShown`: the load an action waits for was sent after what it led to,
  and revisions only grow (`ListInv`).
* `LoginIsOver`: a question asked for the interval of now was answered at a
  time when that login had begun; it says busy unless that login is over
  (`DialogInv`).
* `ImportsAreTold`: a run's marks follow its own index; what is accepted and
  not loaded is of a run that goes on (`ImportInv`).
* `DetailIsOfView`: a question that was not cleaned up is of the view
  (`DetailInv`).

Proved for any timeouts, buffers, lines, tools, windows and older logs
(`StreamConstants`, `RelayConstants`, `AnswerConstants`, `LogConstants`), in
`StreamsProofs`.
`StreamsSteps` reduces a step of the streams to a step of each part, or a
stutter of it:

* `InOrderWithoutGap`: `StreamsSpec => []Replayed`. The lines the probe took
  and those the relay handed out are counted (`InTurn`): while the buffer is
  replayed the relay is at the line after the last it handed out, and the body
  is where the probe left it; `Places` says who reads when.
* `OnlySilenceCuts`: `StreamsSpec => CutsDeadOnly`, for lines of every kind.
  The clock does not move while there is a line to read and someone to read it,
  so an open body has nothing waiting of an earlier moment, the client is slow,
  or what waits has just been let go; and the timer is set from the last read
  (`CutInv`).
* `LogIsKept`: `StreamsSpec => []LogKept`. Losses are bounded by bad lines
  because an unfinished last line is either a record whose write was not whole,
  or one that has been counted as bad and has cost nothing yet (`JournalOK`,
  `WroteOK`). That a restart finds the window needs how far an import has come
  (`Importing`) and that adding to the window and to the journal leaves the
  same latest records (`LatestAppend`).
* `EndAlwaysTold`, `TagsAlwaysNest`: `EndIsTold` and `TagsNest`, from one
  invariant: the client's place is what the flags of `thinkTagWriter` say
  (`TagFlags`), it was told what `Stream` remembers of the end, and no second
  [DONE] or anything after one as long as the service has not gone on
  (`TellsEnd`); and while reasoning comes in its turn the flags follow the phase
  (`InPhase`). A line keeps that whether it is read before or after an end
  (`WriteKeeps`, `QuietKeeps`, `EndsKeeps`), and what a client makes of each
  element is a lemma of its own (`SeesTagged`, `SeesEnd`, ...).

* `AnswersAlwaysArrive`: `StreamsSpec => []AnswersArrive`. Whatever a client
  has seen when it goes away must be right (`Right`), so that is said of every
  view an event leaves: each `Sees...` has a lemma that it keeps `Right`
  (`SeesBlockOf`, `SeesStopOf`, `SeesItemDoneOf`, ...). Of a client that is
  still there more is known: a client of messages has the relay's open block and
  number of blocks (`MessagesNow`), one of a streamed response the relay's order
  of items and how many of them are completed (`ResponsesNow`). From those
  follow that no event is out of place and that, at the end, nothing that was
  sent is missing. Which calls have an id of their own is carried as what the
  pieces so far say (`Named`, `NamedFirst`), by lemmas on what one more piece
  adds (`NamedOfMore`, `FirstNamesMore`, `RightOfMore`).
* `StreamsTypeCorrect`: `StreamsSpec => []StreamsTypeOK`, from the invariants
  of the four parts.

Only model-checked: the liveness properties (`EveryRequestAnswered`,
`ApartSlotsRun`, `BatchesEnd`, `LoginEnds`, `LoginFormEnds`, `WaitingEnds`,
`PagesCatchUp`, `StreamEnds`), since fairness and `ENABLED` are beyond the
prover.

## 6. Not modelled

* **Of the streams**: the aggregation of answers that are not streamed (but for
  `responses`), the translation of requests, texts, usage and models, choices
  other than the first. The dispatcher's model ends where a response is handed
  on; a stall before the first content is a transport failure there. A read of
  the journal that fails after it was opened (`reqlog.go:48`).
* **Classification, prompts, configuration parsing, wire formats, headers,
  signatures and encryption of the upstream clients**: text. Their outcomes
  (kinds of failure, answers, tokens) are choices in the models.
* **Panel administration**: the listener changed by a request it serves itself
  (`SetListen`), autostart, the pricing cache and its page cards (`FeesCard`),
  parsing of imported credentials, session files of the first version; upstream
  errors that the cats' status swallows account by account (`app.go:659`; here
  an answer brings the status or is lost).
* **Pages**: the dashboard and the logs beyond the polling hook they use,
  filters and paging, copying to the clipboard, texts of errors; the interval
  that is left over when the accounts page is left while a login starts; a
  second click on logout, which repeats the request.
* **Desktop shell and rendering components**: operating-system calls and
  markup, without state that matters here.
* Garbage collection, the disk below `rename`, the Go runtime and the browser's
  event loop are taken as they are specified.
