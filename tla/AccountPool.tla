---------------------------- MODULE AccountPool ----------------------------
(***************************************************************************)
(* The account pool of one channel (internal/pool/pool.go): which accounts *)
(* the gateway may route to, how failures cool or disable them, and how    *)
(* that state survives a crash through data/state-<kind>.json.             *)
(*                                                                         *)
(* Every exported method of Pool takes the pool mutex for its whole body,  *)
(* so each is one action here, the trailing saveLocked included.  What     *)
(* interleaves is everything around it: the directory scan that SyncToDir  *)
(* is given, the clock, the crash, and the callers (module ChatDispatch).  *)
(*                                                                         *)
(* Abstracted: `reason' and the lastCheckin* fields are only displayed;    *)
(* writing them is kept for the save it triggers (RecordCheckin).  The     *)
(* *auth.Auth pointer of an entry belongs to the token life cycle.         *)
(***************************************************************************)
EXTENDS Naturals, FiniteSets

CONSTANTS
    Uid,            \* account ids of the channel
    Model,          \* bare model names that can be rate limited (code 6004)
    Credits,        \* balances UserResource can report
    Cooldowns,      \* durations callers pass to Cooldown (hard, soft, error)
    Threshold,      \* ErrThreshold of the handler
    ErrCooldown,    \* ErrCooldown of the handler
    DeadThreshold,  \* sessionDeadThreshold
    ModelCap,       \* the two hours CooldownSoftForModel allows at most
    ResetDelays,    \* how far ahead an upstream reset time may lie
    SaveMayFail,    \* can a write of the state file fail?
    MaxTime,        \* bound of the clock, for TLC
    None            \* no entry

ASSUME PoolConstants ==
    /\ IsFiniteSet(Uid)
    /\ Credits \subseteq Nat /\ 0 \in Credits
    /\ Cooldowns \subseteq Nat /\ ResetDelays \subseteq Nat
    /\ Threshold \in Nat \ {0} /\ DeadThreshold \in Nat \ {0}
    /\ ErrCooldown \in Cooldowns /\ ModelCap \in Nat
    /\ SaveMayFail \in BOOLEAN /\ MaxTime \in Nat \ {0}

VARIABLES
    now,     \* time.Now(); 0 is the zero time.Time
    files,   \* accounts that have a credential file in auths/
    scans,   \* snapshots of `files' that running reloadAccounts calls hold
    up,      \* is the process running?
    mem,     \* Pool.byUID
    disk,    \* state-<kind>.json, None for an account it does not list
    saved    \* did the last write of the state file succeed? (observed)

vars == <<now, files, scans, up, mem, disk, saved>>

-----------------------------------------------------------------------------
\* An entry in memory and the part of it the state file holds.
Saved == [credits: Nat, disabled: BOOLEAN, until: Nat]

Entry == [credits: Nat, disabled: BOOLEAN, until: Nat,
          errCount: Nat, dead: Nat, modelCool: [Model -> Nat]]

ASSUME NoneIsNoEntry == None \notin Entry /\ None \notin Saved

Persist(e) == [credits |-> e.credits, disabled |-> e.disabled,
               until |-> e.until]

\* Counters and model cooldowns are memory only: a loaded entry has none.
Load(s) == [credits |-> s.credits, disabled |-> s.disabled,
            until |-> s.until, errCount |-> 0, dead |-> 0,
            modelCool |-> [m \in Model |-> 0]]

ZeroState == [credits |-> 0, disabled |-> FALSE, until |-> 0]
Fresh     == Load(ZeroState)

Cooling(e) == e.until # 0 /\ now < e.until
Healthy(e) == ~e.disabled /\ ~Cooling(e)
HealthyUids == {u \in Uid : mem[u] # None /\ Healthy(mem[u])}

CooledForModel(u, m) == mem[u] # None /\ now < mem[u].modelCool[m]

\* PickExcluding sorts the healthy accounts by balance and draws one of the
\* first three; ties are in any order.  The result is one of these.
PickTopK == 3
PickChoices(tried) ==
    LET cand == HealthyUids \ tried
    IN {u \in cand : Cardinality({v \in cand :
                        mem[v].credits > mem[u].credits}) < PickTopK}

-----------------------------------------------------------------------------
Init ==
    /\ now = 1
    /\ files \in SUBSET Uid
    /\ scans = {}
    /\ up = FALSE
    /\ mem = [u \in Uid |-> None]
    /\ disk = [u \in Uid |-> None]
    /\ saved = TRUE

\* saveLocked: the file is replaced by the whole of memory; a failed write
\* (its error is dropped) leaves the old file whole, WriteFileSync renames.
Image(m) == [u \in Uid |-> IF m[u] = None THEN None ELSE Persist(m[u])]
Save ==
    \/ disk' = Image(mem') /\ saved' = TRUE
    \/ SaveMayFail /\ saved' = FALSE /\ UNCHANGED disk

\* A method that looks the account up, changes the entry found (or nothing)
\* and saves; e is the entry's new value.
Update(u, e) ==
    /\ mem' = IF mem[u] = None THEN mem ELSE [mem EXCEPT ![u] = e]
    /\ UNCHANGED <<now, files, scans, up>>

SetCredits(u, c) ==
    /\ up
    /\ Update(u, [mem[u] EXCEPT !.credits = c])
    /\ Save

\* Mutant: a cooldown that is not saved.
CooldownUnsaved(u, d) ==
    /\ up
    /\ Update(u, [mem[u] EXCEPT !.until = now + d, !.errCount = 0])
    /\ UNCHANGED <<disk, saved>>

\* Overwrites whatever deadline the account had, a later one included.
Cooldown(u, d) ==
    /\ up
    /\ Update(u, [mem[u] EXCEPT !.until = now + d, !.errCount = 0])
    /\ Save

\* Disable, which nothing calls, has the effect of SetDisabled(u, TRUE).
SetDisabled(u, d) ==
    /\ up
    /\ Update(u, [mem[u] EXCEPT !.disabled = d])
    /\ Save

\* Mutant: a balance also lifts a disable.
ReenableAnyway(u, c) ==
    /\ up
    /\ Update(u, IF c > 0
                 THEN [mem[u] EXCEPT !.credits = c, !.until = 0, !.errCount = 0,
                                     !.disabled = FALSE]
                 ELSE [mem[u] EXCEPT !.credits = c])
    /\ Save

ReenableIfCredits(u, c) ==
    /\ up
    /\ Update(u, IF c > 0 /\ ~mem[u].disabled
                 THEN [mem[u] EXCEPT !.credits = c, !.until = 0, !.errCount = 0]
                 ELSE [mem[u] EXCEPT !.credits = c])
    /\ Save

\* RecordCheckin stores three displayed fields: here it is the save alone.
RecordCheckin ==
    /\ up
    /\ UNCHANGED <<now, files, scans, up, mem>>
    /\ Save

Remove(u) ==
    /\ up
    /\ mem' = [mem EXCEPT ![u] = None]
    /\ UNCHANGED <<now, files, scans, up>>
    /\ Save

NoteError(u) ==
    /\ up
    /\ Update(u, IF mem[u].errCount + 1 >= Threshold
                 THEN [mem[u] EXCEPT !.until = now + ErrCooldown, !.errCount = 0]
                 ELSE [mem[u] EXCEPT !.errCount = @ + 1])
    /\ Save

\* Not saved: both counters are memory only.
NoteSuccess(u) ==
    /\ up
    /\ Update(u, [mem[u] EXCEPT !.errCount = 0, !.dead = 0])
    /\ UNCHANGED <<disk, saved>>

\* Saved only when the account is disabled by it.
ReachesDead(u) == mem[u] # None /\ mem[u].dead + 1 >= DeadThreshold

NoteSessionDead(u) ==
    /\ up
    /\ \/ /\ ReachesDead(u)
          /\ Update(u, [mem[u] EXCEPT !.disabled = TRUE, !.dead = 0])
          /\ Save
       \/ /\ ~ReachesDead(u)
          /\ Update(u, [mem[u] EXCEPT !.dead = @ + 1])
          /\ UNCHANGED <<disk, saved>>

\* Not saved; the reset time is capped, a zero one is ignored by the code.
Uncapped(a, b) == a   \* mutant: the reset time as upstream reports it
Earlier(a, b) == IF a <= b THEN a ELSE b
CooldownSoftForModel(u, m, resetAt) ==
    /\ up
    /\ Update(u, [mem[u] EXCEPT !.modelCool[m] = Earlier(resetAt, now + ModelCap)])
    /\ UNCHANGED <<disk, saved>>

-----------------------------------------------------------------------------
\* reloadAccounts: the directory is scanned without a lock, then SyncToDir
\* aligns the pool with that scan; files may change in between.
ScanDir ==
    /\ up
    /\ scans' = scans \cup {files}
    /\ UNCHANGED <<now, files, up, mem, disk, saved>>

SyncToDir ==
    /\ up
    /\ \E s \in scans :
          /\ mem' = [u \in Uid |-> IF u \notin s THEN None
                                   ELSE IF mem[u] = None THEN Fresh
                                   ELSE mem[u]]
          /\ scans' = scans \ {s}
    /\ UNCHANGED <<now, files, up, disk, saved>>

\* Mutant: accounts start blank although the state file lists them.
BootBlank ==
    /\ ~up
    /\ up' = TRUE
    /\ mem' = [u \in Uid |-> IF u \notin files THEN None ELSE Fresh]
    /\ UNCHANGED <<now, files, scans, disk, saved>>

\* main: pool.New loads the state file, Add puts in the scanned accounts, and
\* ReloadAccounts drops the listed ones that have no credential file, all
\* before the server and the schedulers start.
Boot ==
    /\ ~up
    /\ up' = TRUE
    /\ mem' = [u \in Uid |-> IF u \notin files THEN None
                             ELSE IF disk[u] = None THEN Fresh
                             ELSE Load(disk[u])]
    /\ UNCHANGED <<now, files, scans, disk, saved>>

\* The process dies (or is restarted by the operator) at any point.
Crash ==
    /\ up
    /\ up' = FALSE
    /\ mem' = [u \in Uid |-> None]
    /\ scans' = {}
    /\ UNCHANGED <<now, files, disk, saved>>

\* A login or an import writes a credential file, a removal deletes one.
FilesChange(u) ==
    /\ files' = IF u \in files THEN files \ {u} ELSE files \cup {u}
    /\ UNCHANGED <<now, scans, up, mem, disk, saved>>

Tick ==
    /\ now < MaxTime
    /\ now' = now + 1
    /\ UNCHANGED <<files, scans, up, mem, disk, saved>>

-----------------------------------------------------------------------------
AccountOp(u) ==
    \/ \E c \in Credits : SetCredits(u, c)
    \/ \E c \in Credits : ReenableIfCredits(u, c)
    \/ \E d \in Cooldowns : Cooldown(u, d)
    \/ \E d \in BOOLEAN : SetDisabled(u, d)
    \/ Remove(u)
    \/ NoteError(u)
    \/ NoteSuccess(u)
    \/ NoteSessionDead(u)
    \/ \E m \in Model, d \in ResetDelays : CooldownSoftForModel(u, m, now + d)
    \/ FilesChange(u)

Next ==
    \/ \E u \in Uid : AccountOp(u)
    \/ RecordCheckin
    \/ ScanDir
    \/ SyncToDir
    \/ Boot
    \/ Crash
    \/ Tick

Spec == Init /\ [][Next]_vars

-----------------------------------------------------------------------------
\* Every variable has its type, and both failure counters stay below the
\* threshold at which they are turned into a cooldown or a disable and reset.
TypeOK ==
    /\ now \in Nat
    /\ files \in SUBSET Uid
    /\ scans \in SUBSET SUBSET Uid
    /\ up \in BOOLEAN
    /\ mem \in [Uid -> Entry \cup {None}]
    /\ disk \in [Uid -> Saved \cup {None}]
    /\ saved \in BOOLEAN
    /\ \A u \in Uid : mem[u] # None =>
          mem[u].errCount < Threshold /\ mem[u].dead < DeadThreshold

\* Whatever the interleaving of failed saves, removals, directory scans and
\* crashes, unless the last save failed the state file agrees with memory on
\* every account that has any state: a crash now loses none of it.  (An entry
\* SyncToDir just created is still blank and may be missing from the file, or
\* differ from what the file kept of an earlier life of that account.)
SavedStateAgrees ==
    saved => \A u \in Uid : mem[u] # None =>
                \/ disk[u] = Persist(mem[u])
                \/ Persist(mem[u]) = ZeroState

\* An account disabled in memory is disabled in the state file: neither a
\* crash nor a restart brings a disabled account back into rotation.
DisableIsDurable ==
    saved => \A u \in Uid : mem[u] # None /\ mem[u].disabled =>
                disk[u] # None /\ disk[u].disabled

\* No cooldown outlives its maximum, in memory or across restarts: a deadline
\* is never further away than the longest cooldown configured, and a model
\* never cools for more than two hours whatever reset time upstream reports.
CooldownBounded ==
    \A u \in Uid :
        /\ mem[u] # None =>
              /\ \E d \in Cooldowns : mem[u].until <= now + d
              /\ \A m \in Model : mem[u].modelCool[m] <= now + ModelCap
        /\ disk[u] # None => \E d \in Cooldowns : disk[u].until <= now + d

\* A disabled account leaves that state only by the operator's SetDisabled or
\* by leaving the pool: no success, check-in, reload or cooldown revives it.
OnlyOperatorReenables ==
    [][\A u \in Uid :
          mem[u] # None /\ mem[u].disabled =>
             \/ mem'[u] = None
             \/ mem'[u].disabled
             \/ SetDisabled(u, FALSE)]_vars

\* The comment on SyncToDir (pool.go:129) says an account that vanished from
\* the directory is dropped with its state retained; this states that the
\* state file keeps what it records of an account until that is removed.
VanishedStateKept ==
    [][\A u \in Uid :
          disk[u] \notin {None, ZeroState} /\ disk'[u] = None => Remove(u)]_vars
=============================================================================
