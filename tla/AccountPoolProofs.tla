-------------------------- MODULE AccountPoolProofs -------------------------
(* Theorems about AccountPool, for every set of accounts and every duration. *)
EXTENDS AccountPoolRefinement, TLAPS

\* A loaded or freshly created entry is an entry with both counters at zero.
LEMMA LoadType ==
    ASSUME NEW s \in Saved
    PROVE  /\ Load(s) \in Entry
           /\ Load(s).errCount = 0
           /\ Load(s).dead = 0
           /\ Persist(Load(s)) = s
BY DEF Load, Entry, Saved, Persist

\* A fresh entry has the zero saved part.
LEMMA FreshType ==
    /\ Fresh \in Entry
    /\ Fresh.errCount = 0
    /\ Fresh.dead = 0
    /\ Persist(Fresh) = ZeroState
    /\ ZeroState \in Saved
<1>1. ZeroState \in Saved
  BY DEF ZeroState, Saved
<1>2. QED
  BY <1>1, LoadType DEF Fresh

\* What is saved of an entry is a saved state.
LEMMA PersistType ==
    ASSUME NEW e \in Entry
    PROVE  Persist(e) \in Saved
BY DEF Persist, Entry, Saved

\* What a save leaves in the state file, given the memory it writes out.
LEMMA SaveType ==
    ASSUME disk \in [Uid -> Saved \cup {None}],
           saved \in BOOLEAN,
           mem' \in [Uid -> Entry \cup {None}],
           Save
    PROVE  /\ disk' \in [Uid -> Saved \cup {None}]
           /\ saved' \in BOOLEAN
BY PersistType DEF Save, Image

\* The entries the type invariant admits.
Sound(e) == e \in Entry /\ e.errCount < Threshold /\ e.dead < DeadThreshold

\* The edits the methods of the pool make to an entry keep it sound.
LEMMA EditsSound ==
    ASSUME NEW e, Sound(e), NEW c \in Nat, NEW b \in BOOLEAN
    PROVE  /\ Sound([e EXCEPT !.credits = c])
           /\ Sound([e EXCEPT !.disabled = b])
           /\ Sound([e EXCEPT !.until = c, !.errCount = 0])
           /\ Sound([e EXCEPT !.credits = c, !.until = 0, !.errCount = 0])
           /\ Sound([e EXCEPT !.errCount = 0, !.dead = 0])
           /\ Sound([e EXCEPT !.disabled = TRUE, !.dead = 0])
<1>1. e \in Entry /\ e.errCount < Threshold /\ e.dead < DeadThreshold
  BY DEF Sound
<1>2. 0 < Threshold /\ 0 < DeadThreshold
  BY PoolConstants
<1>3. /\ Sound([e EXCEPT !.credits = c])
      /\ Sound([e EXCEPT !.disabled = b])
  BY <1>1 DEF Sound, Entry
<1>4. Sound([e EXCEPT !.until = c, !.errCount = 0])
  BY <1>1, <1>2 DEF Sound, Entry
<1>5. Sound([e EXCEPT !.credits = c, !.until = 0, !.errCount = 0])
  BY <1>1, <1>2 DEF Sound, Entry
<1>6. Sound([e EXCEPT !.errCount = 0, !.dead = 0])
  BY <1>1, <1>2 DEF Sound, Entry
<1>7. Sound([e EXCEPT !.disabled = TRUE, !.dead = 0])
  BY <1>1, <1>2 DEF Sound, Entry
<1>8. QED
  BY <1>3, <1>4, <1>5, <1>6, <1>7

\* Memory is well typed after a method that replaces one entry by a sound one.
LEMMA UpdateType ==
    ASSUME TypeOK, NEW u \in Uid, NEW e,
           Update(u, e),
           mem[u] # None => Sound(e)
    PROVE  /\ mem' \in [Uid -> Entry \cup {None}]
           /\ \A v \in Uid : mem'[v] # None =>
                 mem'[v].errCount < Threshold /\ mem'[v].dead < DeadThreshold
           /\ now' \in Nat
           /\ files' \in SUBSET Uid
           /\ scans' \in SUBSET SUBSET Uid
           /\ up' \in BOOLEAN
<1>1. CASE mem[u] = None
  BY <1>1 DEF TypeOK, Update
<1>2. CASE mem[u] # None
  <2>1. mem' = [mem EXCEPT ![u] = e]
    BY <1>2 DEF Update
  <2>2. mem' \in [Uid -> Entry \cup {None}]
    BY <1>2, <2>1 DEF TypeOK, Sound
  <2>3. ASSUME NEW v \in Uid, mem'[v] # None
        PROVE  mem'[v].errCount < Threshold /\ mem'[v].dead < DeadThreshold
    BY <1>2, <2>1, <2>3 DEF TypeOK, Sound
  <2>4. QED
    BY <2>2, <2>3 DEF TypeOK, Update
<1>3. QED
  BY <1>1, <1>2

-----------------------------------------------------------------------------
\* Every step of the pool keeps the types.
LEMMA TypeStep == TypeOK /\ [Next]_vars => TypeOK'
<1> SUFFICES ASSUME TypeOK, [Next]_vars PROVE TypeOK'
  OBVIOUS
<1> USE PoolConstants
<1>1. ASSUME NEW u \in Uid, NEW e, Update(u, e), mem[u] # None => Sound(e),
             \/ Save
             \/ UNCHANGED <<disk, saved>>
      PROVE  TypeOK'
  <2>1. /\ disk' \in [Uid -> Saved \cup {None}]
        /\ saved' \in BOOLEAN
    BY <1>1, UpdateType, SaveType DEF TypeOK
  <2>2. QED
    BY <1>1, <2>1, UpdateType DEF TypeOK
<1>2. ASSUME NEW u \in Uid, mem[u] # None PROVE Sound(mem[u])
  BY <1>2 DEF TypeOK, Sound
<1>3. ASSUME NEW u \in Uid, NEW c \in Credits, SetCredits(u, c)
      PROVE  TypeOK'
  <2>1. mem[u] # None => Sound([mem[u] EXCEPT !.credits = c])
    BY <1>2 DEF Sound, Entry
  <2>2. QED
    BY <1>1, <1>3, <2>1 DEF SetCredits
<1>4. ASSUME NEW u \in Uid, NEW c \in Credits, ReenableIfCredits(u, c)
      PROVE  TypeOK'
  <2>1. mem[u] # None =>
           /\ Sound([mem[u] EXCEPT !.credits = c, !.until = 0, !.errCount = 0])
           /\ Sound([mem[u] EXCEPT !.credits = c])
    BY <1>2, EditsSound
  <2>2. QED
    BY <1>1, <1>4, <2>1 DEF ReenableIfCredits
<1>5. ASSUME NEW u \in Uid, NEW d \in Cooldowns, Cooldown(u, d)
      PROVE  TypeOK'
  <2>1. mem[u] # None =>
           Sound([mem[u] EXCEPT !.until = now + d, !.errCount = 0])
    <3>1. now + d \in Nat
      BY DEF TypeOK
    <3>2. QED
      BY <1>2, <3>1, EditsSound
  <2>2. QED
    BY <1>1, <1>5, <2>1 DEF Cooldown
<1>6. ASSUME NEW u \in Uid, NEW d \in BOOLEAN, SetDisabled(u, d)
      PROVE  TypeOK'
  <2>1. mem[u] # None => Sound([mem[u] EXCEPT !.disabled = d])
    BY <1>2 DEF Sound, Entry
  <2>2. QED
    BY <1>1, <1>6, <2>1 DEF SetDisabled
<1>7. ASSUME NEW u \in Uid, Remove(u)
      PROVE  TypeOK'
  <2>1. mem' \in [Uid -> Entry \cup {None}]
    BY <1>7 DEF Remove, TypeOK
  <2>2. disk' \in [Uid -> Saved \cup {None}] /\ saved' \in BOOLEAN
    BY <1>7, <2>1, SaveType DEF Remove, TypeOK
  <2>3. QED
    BY <1>7, <2>1, <2>2 DEF Remove, TypeOK
<1>8. ASSUME NEW u \in Uid, NoteError(u)
      PROVE  TypeOK'
  <2>1. mem[u] # None =>
           /\ Sound([mem[u] EXCEPT !.until = now + ErrCooldown, !.errCount = 0])
           /\ mem[u].errCount + 1 < Threshold =>
                 Sound([mem[u] EXCEPT !.errCount = mem[u].errCount + 1])
    <3>1. now + ErrCooldown \in Nat
      BY DEF TypeOK
    <3>2. ASSUME mem[u] # None, mem[u].errCount + 1 < Threshold
          PROVE  Sound([mem[u] EXCEPT !.errCount = mem[u].errCount + 1])
      BY <1>2, <3>2 DEF Sound, Entry
    <3>3. QED
      BY <1>2, <3>1, <3>2, EditsSound
  <2>2. mem[u] # None => (~(mem[u].errCount + 1 >= Threshold)
                             <=> mem[u].errCount + 1 < Threshold)
    BY <1>2 DEF Sound, Entry
  <2>3. QED
    BY <1>1, <1>8, <2>1, <2>2 DEF NoteError
<1>9. ASSUME NEW u \in Uid, NoteSuccess(u)
      PROVE  TypeOK'
  <2>1. mem[u] # None => Sound([mem[u] EXCEPT !.errCount = 0, !.dead = 0])
    BY <1>2, EditsSound
  <2>2. QED
    BY <1>1, <1>9, <2>1 DEF NoteSuccess
<1>10. ASSUME NEW u \in Uid, NoteSessionDead(u)
       PROVE  TypeOK'
  <2>1. mem[u] # None =>
           /\ Sound([mem[u] EXCEPT !.disabled = TRUE, !.dead = 0])
           /\ ~(mem[u].dead + 1 >= DeadThreshold) =>
                 Sound([mem[u] EXCEPT !.dead = mem[u].dead + 1])
    <3>1. ASSUME mem[u] # None, ~(mem[u].dead + 1 >= DeadThreshold)
          PROVE  Sound([mem[u] EXCEPT !.dead = mem[u].dead + 1])
      BY <1>2, <3>1 DEF Sound, Entry
    <3>2. QED
      BY <1>2, <3>1, EditsSound
  <2>2. QED
    BY <1>1, <1>10, <2>1 DEF NoteSessionDead, ReachesDead
<1>11. ASSUME NEW u \in Uid, NEW m \in Model, NEW d \in ResetDelays,
              CooldownSoftForModel(u, m, now + d)
       PROVE  TypeOK'
  <2>1. Earlier(now + d, now + ModelCap) \in Nat
    BY DEF Earlier, TypeOK
  <2>2. mem[u] # None =>
           Sound([mem[u] EXCEPT !.modelCool[m] =
                                   Earlier(now + d, now + ModelCap)])
    BY <1>2, <2>1 DEF Sound, Entry
  <2>3. QED
    BY <1>1, <1>11, <2>2 DEF CooldownSoftForModel
<1>12. ASSUME NEW u \in Uid, FilesChange(u)
       PROVE  TypeOK'
  BY <1>12 DEF FilesChange, TypeOK
<1>13. ASSUME RecordCheckin
       PROVE  TypeOK'
  <2>1. disk' \in [Uid -> Saved \cup {None}] /\ saved' \in BOOLEAN
    BY <1>13, SaveType DEF RecordCheckin, TypeOK
  <2>2. QED
    BY <1>13, <2>1 DEF RecordCheckin, TypeOK
<1>14. ASSUME ScanDir
       PROVE  TypeOK'
  BY <1>14 DEF ScanDir, TypeOK
<1>15. ASSUME SyncToDir
       PROVE  TypeOK'
  BY <1>15, FreshType DEF SyncToDir, TypeOK
<1>16. ASSUME Boot
       PROVE  TypeOK'
  BY <1>16, FreshType, LoadType DEF Boot, TypeOK
<1>17. ASSUME Crash
       PROVE  TypeOK'
  BY <1>17 DEF Crash, TypeOK
<1>18. ASSUME Tick
       PROVE  TypeOK'
  BY <1>18 DEF Tick, TypeOK
<1>19. CASE UNCHANGED vars
  BY <1>19 DEF vars, TypeOK
<1>20. QED
  BY <1>3, <1>4, <1>5, <1>6, <1>7, <1>8, <1>9, <1>10, <1>11, <1>12, <1>13,
     <1>14, <1>15, <1>16, <1>17, <1>18, <1>19 DEF Next, AccountOp

\* The type invariant: in particular neither failure counter ever reaches its
\* threshold, whatever methods run and whenever the process dies.
THEOREM TypeCorrect == Spec => []TypeOK
<1>1. Init => TypeOK
  <2> SUFFICES ASSUME Init PROVE TypeOK
    OBVIOUS
  <2>1. \A u \in Uid : mem[u] = None /\ disk[u] = None
    BY DEF Init
  <2>2. mem \in [Uid -> Entry \cup {None}] /\ disk \in [Uid -> Saved \cup {None}]
    BY DEF Init
  <2>3. QED
    BY <2>1, <2>2 DEF Init, TypeOK
<1>2. TypeOK /\ [Next]_vars => TypeOK'
  BY TypeStep
<1>3. QED
  BY <1>1, <1>2, PTL DEF Spec
-----------------------------------------------------------------------------
\* What a step leaves of the saved part of an entry it does not save.
Unsaved(u) ==
    mem'[u] # None =>
       \/ Persist(mem'[u]) = ZeroState
       \/ mem[u] # None /\ Persist(mem'[u]) = Persist(mem[u])

\* Every step saves the whole of memory, or leaves file and saved parts alone,
\* or starts the process from the file.
LEMMA StepShape ==
    ASSUME TypeOK, [Next]_vars
    PROVE  \/ Save
           \/ UNCHANGED <<disk, saved>> /\ \A u \in Uid : Unsaved(u)
           \/ UNCHANGED <<disk, saved>> /\ Boot
<1>1. ASSUME NEW u \in Uid, NEW e, Update(u, e), UNCHANGED <<disk, saved>>,
             mem[u] # None => Persist(e) = Persist(mem[u])
      PROVE  UNCHANGED <<disk, saved>> /\ \A v \in Uid : Unsaved(v)
  BY <1>1 DEF Update, Unsaved, TypeOK
<1>2. ASSUME NEW u \in Uid, mem[u] # None PROVE mem[u] \in Entry
  BY <1>2 DEF TypeOK
<1>3. ASSUME NEW u \in Uid, NoteSuccess(u)
      PROVE  UNCHANGED <<disk, saved>> /\ \A v \in Uid : Unsaved(v)
  <2>1. mem[u] # None =>
           Persist([mem[u] EXCEPT !.errCount = 0, !.dead = 0]) = Persist(mem[u])
    BY <1>2 DEF Persist, Entry
  <2>2. QED
    BY <1>1, <1>3, <2>1 DEF NoteSuccess
<1>4. ASSUME NEW u \in Uid, NoteSessionDead(u)
      PROVE  \/ Save
             \/ UNCHANGED <<disk, saved>> /\ \A v \in Uid : Unsaved(v)
  <2>1. mem[u] # None =>
           Persist([mem[u] EXCEPT !.dead = @ + 1]) = Persist(mem[u])
    BY <1>2 DEF Persist, Entry
  <2>2. QED
    BY <1>1, <1>4, <2>1 DEF NoteSessionDead
<1>5. ASSUME NEW u \in Uid, NEW m \in Model, NEW d \in ResetDelays,
             CooldownSoftForModel(u, m, now + d)
      PROVE  UNCHANGED <<disk, saved>> /\ \A v \in Uid : Unsaved(v)
  <2>1. mem[u] # None =>
           Persist([mem[u] EXCEPT !.modelCool[m] =
                       Earlier(now + d, now + ModelCap)]) = Persist(mem[u])
    BY <1>2 DEF Persist, Entry
  <2>2. QED
    BY <1>1, <1>5, <2>1 DEF CooldownSoftForModel
<1>6. ASSUME SyncToDir
      PROVE  UNCHANGED <<disk, saved>> /\ \A v \in Uid : Unsaved(v)
  BY <1>6, FreshType DEF SyncToDir, Unsaved, TypeOK
<1>7. ASSUME Crash
      PROVE  UNCHANGED <<disk, saved>> /\ \A v \in Uid : Unsaved(v)
  BY <1>7 DEF Crash, Unsaved
<1>8. ASSUME \/ \E u \in Uid : FilesChange(u)
             \/ ScanDir
             \/ Tick
             \/ UNCHANGED vars
      PROVE  UNCHANGED <<disk, saved>> /\ \A v \in Uid : Unsaved(v)
  BY <1>8 DEF FilesChange, ScanDir, Tick, vars, Unsaved
<1>9. ASSUME Boot PROVE UNCHANGED <<disk, saved>>
  BY <1>9 DEF Boot
<1>10. ASSUME \/ RecordCheckin
              \/ \E u \in Uid : \/ \E c \in Credits : SetCredits(u, c)
                                \/ \E c \in Credits : ReenableIfCredits(u, c)
                                \/ \E d \in Cooldowns : Cooldown(u, d)
                                \/ \E d \in BOOLEAN : SetDisabled(u, d)
                                \/ Remove(u)
                                \/ NoteError(u)
       PROVE  Save
  BY <1>10 DEF RecordCheckin, SetCredits, ReenableIfCredits, Cooldown,
               SetDisabled, Remove, NoteError
<1>11. QED
  BY <1>3, <1>4, <1>5, <1>6, <1>7, <1>8, <1>9, <1>10 DEF Next, AccountOp

\* Unless the last save failed, a crash loses no account state that was set.
THEOREM SavedStateCorrect == Spec => []SavedStateAgrees
<1>1. Init => SavedStateAgrees
  BY DEF Init, SavedStateAgrees
<1>2. TypeOK /\ TypeOK' /\ SavedStateAgrees /\ [Next]_vars => SavedStateAgrees'
  <2> SUFFICES ASSUME TypeOK, TypeOK', SavedStateAgrees, [Next]_vars, saved',
                      NEW u \in Uid, mem'[u] # None
               PROVE  disk'[u] = Persist(mem'[u]) \/ Persist(mem'[u]) = ZeroState
    BY DEF SavedStateAgrees
  <2>1. CASE Save
    BY <2>1 DEF Save, Image
  <2>2. CASE UNCHANGED <<disk, saved>> /\ Unsaved(u)
    BY <2>2 DEF Unsaved, SavedStateAgrees
  <2>3. CASE Boot /\ UNCHANGED <<disk, saved>>
    <3>1. CASE disk[u] = None
      BY <2>3, <3>1, FreshType DEF Boot
    <3>2. CASE disk[u] # None
      <4>1. disk[u] \in Saved
        BY <3>2 DEF TypeOK
      <4>2. QED
        BY <2>3, <3>2, <4>1, LoadType DEF Boot
    <3>3. QED
      BY <3>1, <3>2
  <2>4. QED
    BY <2>1, <2>2, <2>3, StepShape
<1>3. QED
  BY <1>1, <1>2, TypeCorrect, PTL DEF Spec

\* A disabled account is disabled in the state file, so no restart revives it.
THEOREM DisableDurable == Spec => []DisableIsDurable
<1>1. TypeOK /\ SavedStateAgrees => DisableIsDurable
  <2> SUFFICES ASSUME TypeOK, SavedStateAgrees, saved,
                      NEW u \in Uid, mem[u] # None, mem[u].disabled
               PROVE  disk[u] # None /\ disk[u].disabled
    BY DEF DisableIsDurable
  <2>1. mem[u] \in Entry
    BY DEF TypeOK
  <2>2. Persist(mem[u]).disabled
    BY <2>1 DEF Persist, Entry
  <2>3. Persist(mem[u]) # ZeroState
    BY <2>2 DEF ZeroState
  <2>4. disk[u] = Persist(mem[u])
    BY <2>3 DEF SavedStateAgrees
  <2>5. QED
    BY <2>1, <2>2, <2>4, PersistType, NoneIsNoEntry
<1>2. QED
  BY <1>1, TypeCorrect, SavedStateCorrect, PTL
-----------------------------------------------------------------------------
\* The process holds no entries while it is down: methods need `up'.
DownIsEmpty == ~up => \A u \in Uid : mem[u] = None

\* No entry survives in memory when the process dies.
LEMMA DownEmpty == Spec => []DownIsEmpty
<1>1. Init => DownIsEmpty
  BY DEF Init, DownIsEmpty
<1>2. DownIsEmpty /\ [Next]_vars => DownIsEmpty'
  <2> SUFFICES ASSUME DownIsEmpty, [Next]_vars PROVE DownIsEmpty'
    OBVIOUS
  <2>0. ASSUME NEW u, NEW e, Update(u, e) PROVE up' = up
    BY <2>0 DEF Update
  <2>1. ASSUME NEW u \in Uid, AccountOp(u), ~FilesChange(u)
        PROVE  up'
    BY <2>0, <2>1 DEF AccountOp, SetCredits, Cooldown, ReenableIfCredits,
                SetDisabled, Remove, NoteError, NoteSuccess, NoteSessionDead,
                CooldownSoftForModel
  <2>2. RecordCheckin \/ SyncToDir \/ Boot => up'
    BY DEF RecordCheckin, SyncToDir, Boot
  <2>3. ASSUME \/ \E u \in Uid : FilesChange(u)
               \/ ScanDir
               \/ Tick
               \/ UNCHANGED vars
        PROVE  DownIsEmpty'
    BY <2>3 DEF FilesChange, ScanDir, Tick, vars, DownIsEmpty
  <2>4. Crash => DownIsEmpty'
    BY DEF Crash, DownIsEmpty
  <2>5. up' => DownIsEmpty'
    BY DEF DownIsEmpty
  <2>6. QED
    BY <2>1, <2>2, <2>3, <2>4, <2>5 DEF Next
<1>3. QED
  BY <1>1, <1>2, PTL DEF Spec

\* What one method may do to the disabled flag of the account it is given.
LEMMA UpdateKeepsDisabled ==
    ASSUME TypeOK, NEW u \in Uid, NEW e, Update(u, e),
           mem[u] # None /\ mem[u].disabled => e.disabled,
           NEW v \in Uid, mem[v] # None, mem[v].disabled
    PROVE  mem'[v].disabled
BY DEF Update, TypeOK

\* Only the operator takes an account out of the disabled state.
THEOREM OperatorReenables == Spec => OnlyOperatorReenables
<1> DEFINE Keeps(v) == \/ mem'[v] = None
                       \/ mem'[v].disabled
                       \/ SetDisabled(v, FALSE)
<1>1. ASSUME TypeOK, DownIsEmpty, Next,
             NEW v \in Uid, mem[v] # None, mem[v].disabled
      PROVE  Keeps(v)
  <2>1. ASSUME NEW u \in Uid, mem[u] # None PROVE mem[u] \in Entry
    BY <1>1, <2>1 DEF TypeOK
  <2>2. ASSUME NEW u \in Uid, NEW c \in Credits, SetCredits(u, c)
        PROVE  Keeps(v)
    <3>1. mem[u] # None /\ mem[u].disabled =>
             [mem[u] EXCEPT !.credits = c].disabled
      BY <2>1 DEF Entry
    <3>2. QED
      BY <1>1, <2>2, <3>1, UpdateKeepsDisabled DEF SetCredits
  <2>3. ASSUME NEW u \in Uid, NEW c \in Credits, ReenableIfCredits(u, c)
        PROVE  Keeps(v)
    <3>1. mem[u] # None /\ mem[u].disabled =>
             [mem[u] EXCEPT !.credits = c].disabled
      BY <2>1 DEF Entry
    <3>2. QED
      BY <1>1, <2>3, <3>1, UpdateKeepsDisabled DEF ReenableIfCredits
  <2>4. ASSUME NEW u \in Uid, NEW d \in Cooldowns, Cooldown(u, d)
        PROVE  Keeps(v)
    <3>1. mem[u] # None /\ mem[u].disabled =>
             [mem[u] EXCEPT !.until = now + d, !.errCount = 0].disabled
      BY <2>1 DEF Entry
    <3>2. QED
      BY <1>1, <2>4, <3>1, UpdateKeepsDisabled DEF Cooldown
  <2>5. ASSUME NEW u \in Uid, NEW d \in BOOLEAN, SetDisabled(u, d)
        PROVE  Keeps(v)
    <3>1. CASE u = v
      BY <1>1, <2>1, <2>5, <3>1 DEF SetDisabled, Update, TypeOK, Entry
    <3>2. CASE u # v
      BY <1>1, <2>5, <3>2 DEF SetDisabled, Update, TypeOK
    <3>3. QED
      BY <3>1, <3>2
  <2>6. ASSUME NEW u \in Uid, Remove(u) PROVE Keeps(v)
    BY <1>1, <2>6 DEF Remove, TypeOK
  <2>7. ASSUME NEW u \in Uid, NoteError(u) PROVE Keeps(v)
    <3>1. mem[u] # None /\ mem[u].disabled =>
             /\ [mem[u] EXCEPT !.until = now + ErrCooldown, !.errCount = 0].disabled
             /\ [mem[u] EXCEPT !.errCount = @ + 1].disabled
      BY <2>1 DEF Entry
    <3>2. QED
      BY <1>1, <2>7, <3>1, UpdateKeepsDisabled DEF NoteError
  <2>8. ASSUME NEW u \in Uid, NoteSuccess(u) PROVE Keeps(v)
    <3>1. mem[u] # None /\ mem[u].disabled =>
             [mem[u] EXCEPT !.errCount = 0, !.dead = 0].disabled
      BY <2>1 DEF Entry
    <3>2. QED
      BY <1>1, <2>8, <3>1, UpdateKeepsDisabled DEF NoteSuccess
  <2>9. ASSUME NEW u \in Uid, NoteSessionDead(u) PROVE Keeps(v)
    <3>1. mem[u] # None /\ mem[u].disabled =>
             /\ [mem[u] EXCEPT !.disabled = TRUE, !.dead = 0].disabled
             /\ [mem[u] EXCEPT !.dead = @ + 1].disabled
      BY <2>1 DEF Entry
    <3>2. QED
      BY <1>1, <2>9, <3>1, UpdateKeepsDisabled DEF NoteSessionDead
  <2>10. ASSUME NEW u \in Uid, NEW m \in Model, NEW d \in ResetDelays,
                CooldownSoftForModel(u, m, now + d)
         PROVE  Keeps(v)
    <3>1. mem[u] # None /\ mem[u].disabled =>
             [mem[u] EXCEPT !.modelCool[m] =
                 Earlier(now + d, now + ModelCap)].disabled
      BY <2>1 DEF Entry
    <3>2. QED
      BY <1>1, <2>10, <3>1, UpdateKeepsDisabled DEF CooldownSoftForModel
  <2>11. ASSUME \/ \E u \in Uid : FilesChange(u)
                \/ RecordCheckin
                \/ ScanDir
                \/ Tick
         PROVE  Keeps(v)
    BY <1>1, <2>11 DEF FilesChange, RecordCheckin, ScanDir, Tick
  <2>12. ASSUME SyncToDir PROVE Keeps(v)
    BY <1>1, <2>12 DEF SyncToDir
  <2>13. ASSUME Crash PROVE Keeps(v)
    BY <1>1, <2>13 DEF Crash
  <2>14. ~Boot
    BY <1>1 DEF Boot, DownIsEmpty
  <2>15. QED
    BY <1>1, <2>2, <2>3, <2>4, <2>5, <2>6, <2>7, <2>8, <2>9, <2>10, <2>11,
       <2>12, <2>13, <2>14 DEF Next, AccountOp
<1>2. TypeOK /\ DownIsEmpty /\ [Next]_vars =>
         [\A u \in Uid : mem[u] # None /\ mem[u].disabled => Keeps(u)]_vars
  BY <1>1
<1>3. QED
  BY <1>2, TypeCorrect, DownEmpty, PTL DEF Spec, OnlyOperatorReenables
-----------------------------------------------------------------------------
\* The bound of CooldownBounded for one deadline and for one entry.
InReach(t) == \E d \in Cooldowns : t <= now + d
Reachable(e) ==
    InReach(e.until) /\ \A m \in Model : e.modelCool[m] <= now + ModelCap

LEMMA ReachableEdits ==
    ASSUME TypeOK, NEW e \in Entry, Reachable(e)
    PROVE  /\ \A c \in Credits :
                 Reachable([e EXCEPT !.credits = c, !.until = 0, !.errCount = 0])
           /\ \A c \in Credits : Reachable([e EXCEPT !.credits = c])
           /\ \A d \in Cooldowns :
                 Reachable([e EXCEPT !.until = now + d, !.errCount = 0])
           /\ \A b \in BOOLEAN : Reachable([e EXCEPT !.disabled = b])
           /\ Reachable([e EXCEPT !.errCount = @ + 1])
           /\ Reachable([e EXCEPT !.errCount = 0, !.dead = 0])
           /\ Reachable([e EXCEPT !.disabled = TRUE, !.dead = 0])
           /\ Reachable([e EXCEPT !.dead = @ + 1])
           /\ \A m \in Model, t \in Nat :
                 Reachable([e EXCEPT !.modelCool[m] = Earlier(t, now + ModelCap)])
<1>1. InReach(0)
  BY PoolConstants DEF InReach, TypeOK
<1>2. ASSUME NEW d \in Cooldowns PROVE InReach(now + d)
  BY PoolConstants DEF InReach, TypeOK
<1>3. ASSUME NEW f \in Entry, f.until = e.until, f.modelCool = e.modelCool
      PROVE  Reachable(f)
  BY <1>3 DEF Reachable
<1>4. ASSUME NEW f \in Entry, InReach(f.until), f.modelCool = e.modelCool
      PROVE  Reachable(f)
  BY <1>4 DEF Reachable
<1>5. ASSUME NEW c \in Credits
      PROVE  Reachable([e EXCEPT !.credits = c, !.until = 0, !.errCount = 0])
  <2> DEFINE f == [e EXCEPT !.credits = c, !.until = 0, !.errCount = 0]
  <2>1. f \in Entry /\ f.until = 0 /\ f.modelCool = e.modelCool
    BY PoolConstants DEF Entry
  <2>2. QED
    BY <1>1, <1>4, <2>1
<1>6. ASSUME NEW c \in Credits PROVE Reachable([e EXCEPT !.credits = c])
  <2> DEFINE f == [e EXCEPT !.credits = c]
  <2>1. f \in Entry /\ f.until = e.until /\ f.modelCool = e.modelCool
    BY PoolConstants DEF Entry
  <2>2. QED
    BY <1>3, <2>1
<1>7. ASSUME NEW d \in Cooldowns
      PROVE  Reachable([e EXCEPT !.until = now + d, !.errCount = 0])
  <2> DEFINE f == [e EXCEPT !.until = now + d, !.errCount = 0]
  <2>0. now + d \in Nat
    BY PoolConstants DEF TypeOK
  <2>1. f \in Entry /\ f.until = now + d /\ f.modelCool = e.modelCool
    BY <2>0 DEF Entry
  <2>2. QED
    BY <1>2, <1>4, <2>1
<1>8. ASSUME NEW b \in BOOLEAN PROVE Reachable([e EXCEPT !.disabled = b])
  <2> DEFINE f == [e EXCEPT !.disabled = b]
  <2>1. f \in Entry /\ f.until = e.until /\ f.modelCool = e.modelCool
    BY DEF Entry
  <2>2. QED
    BY <1>3, <2>1
<1>9. /\ Reachable([e EXCEPT !.errCount = @ + 1])
      /\ Reachable([e EXCEPT !.errCount = 0, !.dead = 0])
      /\ Reachable([e EXCEPT !.disabled = TRUE, !.dead = 0])
      /\ Reachable([e EXCEPT !.dead = @ + 1])
  BY DEF Reachable, Entry
<1>10. ASSUME NEW m \in Model, NEW t \in Nat
       PROVE  Reachable([e EXCEPT !.modelCool[m] = Earlier(t, now + ModelCap)])
  <2> DEFINE r == Earlier(t, now + ModelCap)
             f == [e EXCEPT !.modelCool[m] = r]
  <2>1. r \in Nat /\ r <= now + ModelCap
    BY PoolConstants DEF Earlier, TypeOK
  <2>2. f.until = e.until /\ f.modelCool = [e.modelCool EXCEPT ![m] = r]
    BY DEF Entry
  <2>3. \A n \in Model : f.modelCool[n] <= now + ModelCap
    BY <2>1, <2>2 DEF Reachable, Entry
  <2>4. QED
    BY <2>2, <2>3 DEF Reachable
<1>11. QED
  BY <1>5, <1>6, <1>7, <1>8, <1>9, <1>10

\* No deadline, in memory or on disk, is further away than its maximum.
THEOREM CooldownsBounded == Spec => []CooldownBounded
<1> DEFINE MemOK == \A u \in Uid : mem[u] # None => Reachable(mem[u])
           DiskOK == \A u \in Uid : disk[u] # None => InReach(disk[u].until)
<1>1. CooldownBounded <=> MemOK /\ DiskOK
  BY DEF CooldownBounded, Reachable, InReach
<1>2. Init => MemOK /\ DiskOK
  BY DEF Init
<1>3. TypeOK /\ TypeOK' /\ MemOK /\ DiskOK /\ [Next]_vars => MemOK' /\ DiskOK'
  <2> SUFFICES ASSUME TypeOK, TypeOK', MemOK, DiskOK, [Next]_vars
               PROVE  MemOK' /\ DiskOK'
    OBVIOUS
  <2>1. \A t \in Nat : InReach(t) /\ now' \in {now, now + 1} => InReach(t)'
    <3> SUFFICES ASSUME NEW t \in Nat, InReach(t), now' \in {now, now + 1}
                 PROVE  InReach(t)'
      OBVIOUS
    <3>1. PICK d \in Cooldowns : t <= now + d
      BY DEF InReach
    <3>2. now \in Nat /\ d \in Nat
      BY PoolConstants DEF TypeOK
    <3>3. t <= now' + d
      <4>1. CASE now' = now
        BY <3>1, <4>1
      <4>2. CASE now' = now + 1
        <5>1. now + d <= now + 1 + d /\ now + 1 + d \in Nat
          BY <3>2
        <5>2. t <= now + 1 + d
          BY <3>1, <3>2, <5>1
        <5>3. QED
          BY <4>2, <5>2
      <4>3. QED
        BY <4>1, <4>2
    <3>4. QED
      BY <3>3 DEF InReach
  <2>2. \A e \in Entry : Reachable(e) /\ now' \in {now, now + 1} => Reachable(e)'
    <3> SUFFICES ASSUME NEW e \in Entry, Reachable(e), now' \in {now, now + 1}
                 PROVE  Reachable(e)'
      OBVIOUS
    <3>1. InReach(e.until)'
      BY <2>1 DEF Reachable, Entry
    <3>2. \A m \in Model : e.modelCool[m] <= now' + ModelCap
      BY PoolConstants DEF Reachable, Entry, TypeOK
    <3>3. QED
      BY <3>1, <3>2 DEF Reachable
  <2>3. \/ now' = now
        \/ now' = now + 1 /\ UNCHANGED <<mem, disk>>
    <3>1. ASSUME NEW u, NEW e, Update(u, e) PROVE now' = now
      BY <3>1 DEF Update
    <3>2. ASSUME NEW u \in Uid, AccountOp(u) PROVE now' = now
      BY <3>1, <3>2 DEF AccountOp, SetCredits, Cooldown, SetDisabled,
         ReenableIfCredits, Remove, NoteError, NoteSuccess, NoteSessionDead,
         CooldownSoftForModel, FilesChange
    <3>3. RecordCheckin \/ ScanDir \/ SyncToDir \/ Boot \/ Crash => now' = now
      BY DEF RecordCheckin, ScanDir, SyncToDir, Boot, Crash
    <3>4. Tick => now' = now + 1 /\ UNCHANGED <<mem, disk>>
      BY DEF Tick
    <3>5. UNCHANGED vars => now' = now
      BY DEF vars
    <3>6. QED
      BY <3>2, <3>3, <3>4, <3>5 DEF Next
  <2>4. CASE now' = now + 1 /\ UNCHANGED <<mem, disk>>
    <3>1. \A u \in Uid : /\ mem[u] # None => mem[u] \in Entry
                         /\ disk[u] # None => disk[u].until \in Nat
      BY DEF TypeOK, Saved
    <3>2. ASSUME NEW u \in Uid, (mem[u] # None)' PROVE Reachable(mem[u])'
      <4>1. mem'[u] = mem[u] /\ mem[u] \in Entry /\ Reachable(mem[u])
        BY <2>4, <3>1, <3>2
      <4>2. QED
        BY <2>2, <2>4, <4>1
    <3>3. ASSUME NEW u \in Uid, (disk[u] # None)' PROVE InReach(disk[u].until)'
      <4>1. disk'[u] = disk[u] /\ disk[u].until \in Nat /\ InReach(disk[u].until)
        BY <2>4, <3>1, <3>3
      <4>2. QED
        BY <2>1, <2>4, <4>1
    <3>4. QED
      BY <3>2, <3>3
  <2>5. CASE now' = now
    <3>1. \A e : Reachable(e)' <=> Reachable(e)
      BY <2>5 DEF Reachable, InReach
    <3>2. \A t : InReach(t)' <=> InReach(t)
      BY <2>5 DEF InReach
    <3>3. ASSUME NEW u \in Uid, NEW e, Update(u, e), mem[u] # None => Reachable(e)
          PROVE  MemOK'
      BY <3>1, <3>3 DEF Update, TypeOK
    <3>4. ASSUME NEW u \in Uid, mem[u] # None
          PROVE  mem[u] \in Entry /\ Reachable(mem[u])
      BY <3>4 DEF TypeOK
    <3>5. ASSUME NEW u \in Uid, NEW c \in Credits,
                 SetCredits(u, c) \/ ReenableIfCredits(u, c)
          PROVE  MemOK'
      BY <3>3, <3>4, <3>5, ReachableEdits DEF SetCredits, ReenableIfCredits
    <3>6. ASSUME NEW u \in Uid, NEW d \in Cooldowns, Cooldown(u, d)
          PROVE  MemOK'
      BY <3>3, <3>4, <3>6, ReachableEdits DEF Cooldown
    <3>7. ASSUME NEW u \in Uid, NEW d \in BOOLEAN, SetDisabled(u, d)
          PROVE  MemOK'
      BY <3>3, <3>4, <3>7, ReachableEdits DEF SetDisabled
    <3>8. ASSUME NEW u \in Uid, NoteError(u) PROVE MemOK'
      BY <3>3, <3>4, <3>8, ReachableEdits, PoolConstants DEF NoteError
    <3>9. ASSUME NEW u \in Uid, NoteSuccess(u) PROVE MemOK'
      BY <3>3, <3>4, <3>9, ReachableEdits DEF NoteSuccess
    <3>10. ASSUME NEW u \in Uid, NoteSessionDead(u) PROVE MemOK'
      BY <3>3, <3>4, <3>10, ReachableEdits DEF NoteSessionDead
    <3>11. ASSUME NEW u \in Uid, NEW m \in Model, NEW d \in ResetDelays,
                  CooldownSoftForModel(u, m, now + d)
           PROVE  MemOK'
      <4>1. now + d \in Nat
        BY PoolConstants DEF TypeOK
      <4>2. QED
        BY <3>3, <3>4, <3>11, <4>1, ReachableEdits DEF CooldownSoftForModel
    <3>12. ASSUME NEW u \in Uid, Remove(u) PROVE MemOK'
      BY <3>1, <3>12 DEF Remove, TypeOK
    <3>13. Reachable(Fresh)
      BY PoolConstants DEF Reachable, InReach, Fresh, Load, ZeroState, TypeOK
    <3>14. ASSUME SyncToDir PROVE MemOK'
      BY <3>1, <3>13, <3>14 DEF SyncToDir
    <3>15. ASSUME Boot PROVE MemOK'
      <4>1. ASSUME NEW u \in Uid, disk[u] # None PROVE Reachable(Load(disk[u]))
        BY <4>1, PoolConstants DEF Reachable, Load, InReach, TypeOK
      <4>2. QED
        BY <3>1, <3>13, <3>15, <4>1 DEF Boot
    <3>16. ASSUME Crash PROVE MemOK'
      BY <3>16 DEF Crash
    <3>17. ASSUME UNCHANGED mem PROVE MemOK'
      BY <3>1, <3>17
    <3>18. MemOK'
      BY <3>5, <3>6, <3>7, <3>8, <3>9, <3>10, <3>11, <3>12, <3>14, <3>15,
         <3>16, <3>17
      DEF Next, AccountOp, FilesChange, RecordCheckin, ScanDir, Tick, vars
    <3>19. Save => DiskOK'
      <4>1. ASSUME NEW u \in Uid, mem'[u] # None
            PROVE  InReach(Persist(mem'[u]).until)
        <5>1. Reachable(mem'[u])
          BY <3>1, <3>18, <4>1
        <5>2. QED
          BY <5>1 DEF Reachable, Persist
      <4>2. ASSUME Save, NEW u \in Uid, disk'[u] # None
            PROVE  InReach(disk'[u].until)
        BY <4>1, <4>2 DEF Save, Image
      <4>3. QED
        BY <3>2, <4>2
    <3>20. UNCHANGED disk => DiskOK'
      BY <3>2
    <3>21. QED
      BY <3>18, <3>19, <3>20, StepShape
  <2>6. QED
    BY <2>3, <2>4, <2>5
<1>4. QED
  BY <1>1, <1>2, <1>3, TypeCorrect, PTL DEF Spec

-----------------------------------------------------------------------------
(* The account pool implements DurableLedger, for every value of the        *)
(* constants, as long as the state file can be written.                     *)

\* The abstract state the pool stands for, by name.
PoolLedger == [u \in Uid |-> LedgerOf(u)]
PoolListed == {u \in Uid : mem[u] # None}

LEMMA LedgerOfType ==
    ASSUME TypeOK, NEW u \in Uid
    PROVE  LedgerOf(u) \in Saved
BY PersistType, FreshType DEF LedgerOf, TypeOK

\* After a save the file holds exactly the listed accounts: the ledger is what
\* memory says of those and blank for the rest.
LEMMA SavedBook ==
    ASSUME TypeOK, SaveMayFail = FALSE, Save, NEW u \in Uid
    PROVE  LedgerOf(u)' = IF mem'[u] = None THEN ZeroState ELSE Persist(mem'[u])
BY DEF Save, Image, LedgerOf

\* A saving method of account u whose new entry persists as s books s for u.
LEMMA SaveBooks ==
    ASSUME TypeOK, SaveMayFail = FALSE, NEW u \in Uid, NEW e, NEW s,
           Update(u, e), Save,
           mem[u] # None => e # None /\ Persist(e) = s
    PROVE  Ledger!Book(u, s)
<1> DEFINE gone == Uid \ PoolListed
<1>1. ASSUME NEW v \in Uid
      PROVE  LedgerOf(v)' = IF v \in gone THEN ZeroState
                            ELSE IF v = u /\ u \in PoolListed THEN s
                            ELSE PoolLedger[v]
  <2>1. CASE mem[v] = None
    <3>1. mem'[v] = None
      BY <2>1 DEF Update, TypeOK
    <3>2. QED
      BY <2>1, <3>1, SavedBook DEF PoolListed
  <2>2. CASE mem[v] # None /\ v = u
    <3>1. mem'[v] = e
      BY <2>2 DEF Update, TypeOK
    <3>2. QED
      BY <2>2, <3>1, SavedBook DEF PoolListed
  <2>3. CASE mem[v] # None /\ v # u
    <3>1. mem'[v] = mem[v]
      BY <2>3 DEF Update, TypeOK
    <3>2. LedgerOf(v)' = Persist(mem[v]) /\ PoolLedger[v] = Persist(mem[v])
      BY <2>3, <3>1, SavedBook DEF PoolLedger, LedgerOf
    <3>3. QED
      BY <2>3, <3>2 DEF PoolListed
  <2>4. QED
    BY <2>1, <2>2, <2>3
<1>2. PoolListed' = PoolListed /\ now' = now /\ up' = up
  BY DEF Update, PoolListed, TypeOK
<1>3. gone \in SUBSET (Uid \ PoolListed)
  OBVIOUS
<1>4. PoolLedger' = [v \in Uid |-> IF v \in gone THEN ZeroState
                              ELSE IF v = u /\ u \in PoolListed THEN s
                              ELSE PoolLedger[v]]
  BY <1>1 DEF PoolLedger
<1>5. QED
  BY <1>2, <1>3, <1>4
  DEF Ledger!Book, Ledger!Blank, ZeroState, PoolLedger, PoolListed

\* A step that changes neither a saved part, nor who is listed, nor the file.
LEMMA Stutters ==
    ASSUME TypeOK, UNCHANGED <<now, up, disk>>,
           \A u \in Uid : \/ mem'[u] = mem[u]
                         \/ /\ mem[u] # None /\ mem'[u] # None
                            /\ Persist(mem'[u]) = Persist(mem[u])
    PROVE  UNCHANGED Ledger!lvars
<1>1. \A u \in Uid : LedgerOf(u)' = LedgerOf(u)
  BY DEF LedgerOf
<1>2. PoolLedger' = PoolLedger /\ PoolListed' = PoolListed
  BY <1>1 DEF PoolLedger, PoolListed
<1>3. QED
  BY <1>2 DEF Ledger!lvars, PoolLedger, PoolListed

\* Leaving memory loses no state that was set.
LEMMA Leaving ==
    ASSUME TypeOK, SavedStateAgrees, saved, UNCHANGED disk,
           NEW u \in Uid, mem'[u] = None
    PROVE  LedgerOf(u)' = LedgerOf(u) \/ LedgerOf(u) = ZeroState
<1>1. CASE mem[u] = None
  BY <1>1 DEF LedgerOf
<1>2. CASE mem[u] # None /\ disk[u] = Persist(mem[u])
  <2>1. disk[u] # None
    BY <1>2, PersistType, NoneIsNoEntry DEF TypeOK
  <2>2. QED
    BY <1>2, <2>1 DEF LedgerOf
<1>3. CASE mem[u] # None /\ Persist(mem[u]) = ZeroState
  BY <1>3 DEF LedgerOf
<1>4. QED
  BY <1>1, <1>2, <1>3 DEF SavedStateAgrees

\* The failure counters are not part of what is saved.
LEMMA CountersPersist ==
    ASSUME NEW x \in Entry, NEW n \in Nat
    PROVE  /\ /\ [x EXCEPT !.errCount = n] \in Entry
              /\ Persist([x EXCEPT !.errCount = n]) = Persist(x)
           /\ /\ [x EXCEPT !.dead = n] \in Entry
              /\ Persist([x EXCEPT !.dead = n]) = Persist(x)
<1>1. /\ [x EXCEPT !.errCount = n] \in Entry
      /\ Persist([x EXCEPT !.errCount = n]) = Persist(x)
  BY DEF Entry, Persist
<1>2. /\ [x EXCEPT !.dead = n] \in Entry
      /\ Persist([x EXCEPT !.dead = n]) = Persist(x)
  BY DEF Entry, Persist
<1>3. QED
  BY <1>1, <1>2

\* A saved state is determined by its three fields.
LEMMA SavedEdits ==
    ASSUME NEW s \in Saved, NEW n \in Nat, NEW y \in Saved
    PROVE  /\ y.credits = n /\ y.disabled = s.disabled /\ y.until = 0
                 => y = [s EXCEPT !.credits = n, !.until = 0]
           /\ y.credits = s.credits /\ y.disabled = TRUE /\ y.until = s.until
                 => y = [s EXCEPT !.disabled = TRUE]
<1>1. ASSUME y.credits = n, y.disabled = s.disabled, y.until = 0
      PROVE  y = [s EXCEPT !.credits = n, !.until = 0]
  BY <1>1 DEF Saved
<1>2. ASSUME y.credits = s.credits, y.disabled = TRUE, y.until = s.until
      PROVE  y = [s EXCEPT !.disabled = TRUE]
  BY <1>2 DEF Saved
<1>3. QED
  BY <1>1, <1>2

\* What each edit the methods make to an entry does to its saved part.
LEMMA EditsPersist ==
    ASSUME NEW x \in Entry, NEW n \in Nat, NEW b \in BOOLEAN
    PROVE  /\ /\ [x EXCEPT !.credits = n] \in Entry
              /\ Persist([x EXCEPT !.credits = n])
                    = [Persist(x) EXCEPT !.credits = n]
           /\ /\ [x EXCEPT !.until = n, !.errCount = 0] \in Entry
              /\ Persist([x EXCEPT !.until = n, !.errCount = 0])
                    = [Persist(x) EXCEPT !.until = n]
           /\ /\ [x EXCEPT !.credits = n, !.until = 0, !.errCount = 0] \in Entry
              /\ Persist([x EXCEPT !.credits = n, !.until = 0, !.errCount = 0])
                    = [Persist(x) EXCEPT !.credits = n, !.until = 0]
           /\ /\ [x EXCEPT !.disabled = b] \in Entry
              /\ Persist([x EXCEPT !.disabled = b])
                    = [Persist(x) EXCEPT !.disabled = b]
           /\ /\ [x EXCEPT !.disabled = TRUE, !.dead = 0] \in Entry
              /\ Persist([x EXCEPT !.disabled = TRUE, !.dead = 0])
                    = [Persist(x) EXCEPT !.disabled = TRUE]
<1>0. Persist(x) \in Saved
  BY PersistType
<1>1. /\ [x EXCEPT !.credits = n] \in Entry
      /\ Persist([x EXCEPT !.credits = n]) = [Persist(x) EXCEPT !.credits = n]
  BY DEF Entry, Persist
<1>2. /\ [x EXCEPT !.until = n, !.errCount = 0] \in Entry
      /\ Persist([x EXCEPT !.until = n, !.errCount = 0])
            = [Persist(x) EXCEPT !.until = n]
  <2> SUFFICES ASSUME NEW y, y = [x EXCEPT !.until = n, !.errCount = 0]
               PROVE  y \in Entry /\ Persist(y) = [Persist(x) EXCEPT !.until = n]
    OBVIOUS
  <2>1. y \in Entry /\ y.credits = x.credits /\ y.disabled = x.disabled
                    /\ y.until = n
    BY DEF Entry
  <2>2. QED
    BY <2>1 DEF Persist
<1>3. /\ [x EXCEPT !.credits = n, !.until = 0, !.errCount = 0] \in Entry
      /\ Persist([x EXCEPT !.credits = n, !.until = 0, !.errCount = 0])
            = [Persist(x) EXCEPT !.credits = n, !.until = 0]
  <2> SUFFICES ASSUME NEW y, y = [x EXCEPT !.credits = n, !.until = 0, !.errCount = 0]
               PROVE  y \in Entry /\ Persist(y) = [Persist(x) EXCEPT !.credits = n, !.until = 0]
    OBVIOUS
  <2>1. y \in Entry /\ y.credits = n /\ y.disabled = x.disabled /\ y.until = 0
    BY DEF Entry
  <2>2. Persist(y) \in Saved
    BY <2>1, PersistType
  <2>3. Persist(y).credits = n /\ Persist(y).until = 0
    BY <2>1 DEF Persist
  <2>4. Persist(y).disabled = Persist(x).disabled
    BY <2>1 DEF Persist
  <2>5. Persist(y) = [Persist(x) EXCEPT !.credits = n, !.until = 0]
    BY <1>0, <2>2, <2>3, <2>4, SavedEdits
  <2>6. QED
    BY <2>1, <2>5
<1>4. /\ [x EXCEPT !.disabled = b] \in Entry
      /\ Persist([x EXCEPT !.disabled = b]) = [Persist(x) EXCEPT !.disabled = b]
  BY DEF Entry, Persist
<1>5. /\ [x EXCEPT !.disabled = TRUE, !.dead = 0] \in Entry
      /\ Persist([x EXCEPT !.disabled = TRUE, !.dead = 0])
            = [Persist(x) EXCEPT !.disabled = TRUE]
  <2> SUFFICES ASSUME NEW y, y = [x EXCEPT !.disabled = TRUE, !.dead = 0]
               PROVE  y \in Entry /\ Persist(y) = [Persist(x) EXCEPT !.disabled = TRUE]
    OBVIOUS
  <2>1. y \in Entry /\ y.credits = x.credits /\ y.disabled = TRUE
                    /\ y.until = x.until
    BY DEF Entry
  <2>2. Persist(y) \in Saved
    BY <2>1, PersistType
  <2>3. Persist(y).credits = Persist(x).credits /\ Persist(y).until = Persist(x).until
    BY <2>1 DEF Persist
  <2>4. Persist(y).disabled = TRUE
    BY <2>1 DEF Persist
  <2>5. Persist(y) = [Persist(x) EXCEPT !.disabled = TRUE]
    BY <1>0, <2>2, <2>3, <2>4, SavedEdits
  <2>6. QED
    BY <2>1, <2>5
<1>6. QED
  BY <1>1, <1>2, <1>3, <1>4, <1>5

\* Without write failures the state file is always that of the last save.
LEMMA AlwaysSaved ==
    ASSUME SaveMayFail = FALSE
    PROVE  Spec => []saved
<1>1. Init => saved
  BY DEF Init
<1>2. TypeOK /\ saved /\ [Next]_vars => saved'
  BY StepShape DEF Save
<1>3. QED
  BY <1>1, <1>2, TypeCorrect, PTL DEF Spec

\* The step simulation: every method of the pool is an operation of the
\* ledger, a reload realigns it, a crash or a start stops or starts the service.
LEMMA StepRefines ==
    ASSUME SaveMayFail = FALSE, TypeOK, SavedStateAgrees, saved, DownIsEmpty,
           [Next]_vars
    PROVE  [Ledger!LNext]_(Ledger!lvars)
<1> DEFINE Goal == Ledger!LNext \/ UNCHANGED Ledger!lvars
<1> USE DEF Goal
<1>1. ASSUME NEW u \in Uid, mem[u] # None
      PROVE  /\ mem[u] \in Entry
             /\ PoolLedger[u] = Persist(mem[u])
  BY <1>1 DEF TypeOK, PoolLedger, LedgerOf
<1>2. ASSUME NEW u \in Uid, NEW e, Update(u, e), Save,
             mem[u] # None => e \in Entry,
             mem[u] # None =>
                \/ \E c \in Credits :
                      Persist(e) = [Persist(mem[u]) EXCEPT !.credits = c]
                \/ \E d \in Cooldowns :
                      Persist(e) = [Persist(mem[u]) EXCEPT !.until = now + d]
                \/ /\ ~mem[u].disabled
                   /\ \E c \in Credits \ {0} :
                         Persist(e) = [Persist(mem[u]) EXCEPT !.credits = c,
                                                              !.until = 0]
                \/ \E b \in BOOLEAN :
                      Persist(e) = [Persist(mem[u]) EXCEPT !.disabled = b]
                \/ Persist(e) = Persist(mem[u])
      PROVE  Goal
  <2>1. CASE mem[u] = None
    <3>1. Ledger!Book(u, PoolLedger[u])
      BY <1>2, <2>1, SaveBooks
    <3>2. QED
      BY <3>1 DEF Ledger!LNext, Ledger!Note, PoolLedger
  <2>2. CASE mem[u] # None
    <3>1. Ledger!Book(u, Persist(e))
      BY <1>2, <2>2, SaveBooks, NoneIsNoEntry
    <3>2. PoolLedger[u] = Persist(mem[u])
      BY <1>1, <2>2
    <3>3. PoolLedger[u].disabled = mem[u].disabled
      BY <3>2 DEF Persist
    <3>4. ASSUME NEW c \in Credits,
                 Persist(e) = [Persist(mem[u]) EXCEPT !.credits = c]
          PROVE  Ledger!Charge(u)
      BY <3>1, <3>2, <3>4 DEF Ledger!Charge, PoolLedger
    <3>5. ASSUME NEW d \in Cooldowns,
                 Persist(e) = [Persist(mem[u]) EXCEPT !.until = now + d]
          PROVE  Ledger!Cool(u)
      BY <3>1, <3>2, <3>5 DEF Ledger!Cool, PoolLedger
    <3>6. ASSUME NEW c \in Credits \ {0}, ~mem[u].disabled,
                 Persist(e) = [Persist(mem[u]) EXCEPT !.credits = c, !.until = 0]
          PROVE  Ledger!Thaw(u)
      BY <3>1, <3>2, <3>3, <3>6 DEF Ledger!Thaw, PoolLedger
    <3>7. ASSUME NEW b \in BOOLEAN,
                 Persist(e) = [Persist(mem[u]) EXCEPT !.disabled = b]
          PROVE  Ledger!Disable(u) \/ Ledger!Enable(u)
      BY <3>1, <3>2, <3>7 DEF Ledger!Disable, Ledger!Enable, PoolLedger
    <3>8. ASSUME Persist(e) = Persist(mem[u])
          PROVE  Ledger!Note(u)
      BY <3>1, <3>2, <3>8 DEF Ledger!Note, PoolLedger
    <3>9. QED
      BY <1>2, <2>2, <3>4, <3>5, <3>6, <3>7, <3>8 DEF Ledger!LNext
  <2>3. QED
    BY <2>1, <2>2
<1>3. ASSUME NEW u \in Uid, NEW e, Update(u, e), UNCHANGED <<disk, saved>>,
             mem[u] # None => e \in Entry /\ Persist(e) = Persist(mem[u])
      PROVE  Goal
  <2>1. ASSUME NEW v \in Uid
        PROVE  \/ mem'[v] = mem[v]
               \/ /\ mem[v] # None /\ mem'[v] # None
                  /\ Persist(mem'[v]) = Persist(mem[v])
    <3>1. CASE mem[u] = None
      BY <1>3, <3>1 DEF Update
    <3>2. CASE mem[u] # None /\ v = u
      <4>1. mem'[v] = e
        BY <1>3, <3>2 DEF Update, TypeOK
      <4>2. QED
        BY <1>3, <3>2, <4>1, NoneIsNoEntry
    <3>3. CASE mem[u] # None /\ v # u
      BY <1>3, <3>3 DEF Update, TypeOK
    <3>4. QED
      BY <3>1, <3>2, <3>3
  <2>2. UNCHANGED <<now, up, disk>>
    BY <1>3 DEF Update
  <2>3. QED
    BY <2>1, <2>2, Stutters
<1>4. ASSUME NEW u \in Uid, NEW c \in Credits, SetCredits(u, c)
      PROVE  Goal
  <2> DEFINE e == [mem[u] EXCEPT !.credits = c]
  <2>1. mem[u] # None => /\ e \in Entry
                         /\ Persist(e) = [Persist(mem[u]) EXCEPT !.credits = c]
    BY <1>1, PoolConstants DEF Entry, Persist
  <2>2. Update(u, e) /\ Save
    BY <1>4 DEF SetCredits
  <2>3. QED
    BY <1>2, <2>1, <2>2
<1>5. ASSUME NEW u \in Uid, NEW d \in Cooldowns, Cooldown(u, d)
      PROVE  Goal
  <2> DEFINE e == [mem[u] EXCEPT !.until = now + d, !.errCount = 0]
  <2>1. mem[u] # None =>
           /\ e \in Entry
           /\ Persist(e) = [Persist(mem[u]) EXCEPT !.until = now + d]
    <3>1. now + d \in Nat
      BY PoolConstants DEF TypeOK
    <3>2. QED
      BY <1>1, <3>1, EditsPersist
  <2>2. Update(u, e) /\ Save
    BY <1>5 DEF Cooldown
  <2>3. QED
    BY <1>2, <2>1, <2>2
<1>6. ASSUME NEW u \in Uid, NEW b \in BOOLEAN, SetDisabled(u, b)
      PROVE  Goal
  <2> DEFINE e == [mem[u] EXCEPT !.disabled = b]
  <2>1. mem[u] # None => /\ e \in Entry
                         /\ Persist(e) = [Persist(mem[u]) EXCEPT !.disabled = b]
    BY <1>1 DEF Entry, Persist
  <2>2. Update(u, e) /\ Save
    BY <1>6 DEF SetDisabled
  <2>3. QED
    BY <1>2, <2>1, <2>2
<1>7. ASSUME NEW u \in Uid, NEW c \in Credits, ReenableIfCredits(u, c)
      PROVE  Goal
  <2> DEFINE f == [mem[u] EXCEPT !.credits = c, !.until = 0, !.errCount = 0]
             g == [mem[u] EXCEPT !.credits = c]
             e == IF c > 0 /\ ~mem[u].disabled THEN f ELSE g
  <2>1. mem[u] # None =>
           /\ f \in Entry
           /\ Persist(f) = [Persist(mem[u]) EXCEPT !.credits = c, !.until = 0]
    BY <1>1, PoolConstants, EditsPersist
  <2>2. mem[u] # None => /\ g \in Entry
                         /\ Persist(g) = [Persist(mem[u]) EXCEPT !.credits = c]
    BY <1>1, PoolConstants DEF Entry, Persist
  <2>3. Update(u, e) /\ Save
    BY <1>7 DEF ReenableIfCredits
  <2>4. CASE c > 0 /\ ~mem[u].disabled
    <3>1. e = f /\ c \in Credits \ {0}
      BY <2>4, PoolConstants
    <3>2. QED
      BY <1>2, <2>1, <2>3, <2>4, <3>1
  <2>5. CASE ~(c > 0 /\ ~mem[u].disabled)
    <3>1. e = g
      BY <2>5
    <3>2. QED
      BY <1>2, <2>2, <2>3, <3>1
  <2>6. QED
    BY <2>4, <2>5
<1>8. ASSUME NEW u \in Uid, NoteError(u)
      PROVE  Goal
  <2> DEFINE f == [mem[u] EXCEPT !.until = now + ErrCooldown, !.errCount = 0]
             g == [mem[u] EXCEPT !.errCount = mem[u].errCount + 1]
             e == IF mem[u].errCount + 1 >= Threshold THEN f ELSE g
  <2>1. mem[u] # None =>
           /\ f \in Entry
           /\ Persist(f) = [Persist(mem[u]) EXCEPT !.until = now + ErrCooldown]
    <3>1. now + ErrCooldown \in Nat
      BY PoolConstants DEF TypeOK
    <3>2. QED
      BY <1>1, <3>1, EditsPersist
  <2>2. mem[u] # None => g \in Entry /\ Persist(g) = Persist(mem[u])
    <3>1. mem[u] # None => mem[u].errCount + 1 \in Nat
      BY <1>1 DEF Entry
    <3>2. QED
      BY <1>1, <3>1, CountersPersist
  <2>3. Update(u, e) /\ Save
    BY <1>8 DEF NoteError
  <2>4. CASE mem[u].errCount + 1 >= Threshold
    <3>1. e = f /\ ErrCooldown \in Cooldowns
      BY <2>4, PoolConstants
    <3>2. QED
      BY <1>2, <2>1, <2>3, <3>1
  <2>5. CASE ~(mem[u].errCount + 1 >= Threshold)
    <3>1. e = g
      BY <2>5
    <3>2. QED
      BY <1>2, <2>2, <2>3, <3>1
  <2>6. QED
    BY <2>4, <2>5
<1>9. ASSUME NEW u \in Uid, NoteSessionDead(u)
      PROVE  Goal
  <2> DEFINE f == [mem[u] EXCEPT !.disabled = TRUE, !.dead = 0]
             g == [mem[u] EXCEPT !.dead = mem[u].dead + 1]
  <2>1. mem[u] # None =>
           /\ f \in Entry
           /\ Persist(f) = [Persist(mem[u]) EXCEPT !.disabled = TRUE]
    BY <1>1, EditsPersist
  <2>2. mem[u] # None => g \in Entry /\ Persist(g) = Persist(mem[u])
    <3>1. mem[u] # None => mem[u].dead + 1 \in Nat
      BY <1>1 DEF Entry
    <3>2. QED
      BY <1>1, <3>1, CountersPersist
  <2>3. CASE ReachesDead(u)
    <3>1. Update(u, f) /\ Save
      BY <1>9, <2>3 DEF NoteSessionDead
    <3>2. QED
      BY <1>2, <2>1, <3>1
  <2>4. CASE ~ReachesDead(u)
    <3>1. Update(u, g) /\ UNCHANGED <<disk, saved>>
      BY <1>9, <2>4 DEF NoteSessionDead
    <3>2. QED
      BY <1>3, <2>2, <3>1
  <2>5. QED
    BY <2>3, <2>4
<1>10. ASSUME NEW u \in Uid, NoteSuccess(u)
       PROVE  Goal
  <2> DEFINE e == [mem[u] EXCEPT !.errCount = 0, !.dead = 0]
  <2>1. mem[u] # None => e \in Entry /\ Persist(e) = Persist(mem[u])
    BY <1>1 DEF Entry, Persist
  <2>2. Update(u, e) /\ UNCHANGED <<disk, saved>>
    BY <1>10 DEF NoteSuccess
  <2>3. QED
    BY <1>3, <2>1, <2>2
<1>11. ASSUME NEW u \in Uid, NEW m \in Model, NEW d \in ResetDelays,
              CooldownSoftForModel(u, m, now + d)
       PROVE  Goal
  <2> DEFINE t == Earlier(now + d, now + ModelCap)
             e == [mem[u] EXCEPT !.modelCool = [mem[u].modelCool EXCEPT ![m] = t]]
  <2>1. t \in Nat
    BY PoolConstants DEF Earlier, TypeOK
  <2>2. mem[u] # None => e \in Entry /\ Persist(e) = Persist(mem[u])
    BY <1>1, <2>1 DEF Entry, Persist
  <2>3. Update(u, e) /\ UNCHANGED <<disk, saved>>
    BY <1>11 DEF CooldownSoftForModel
  <2>4. QED
    BY <1>3, <2>2, <2>3
<1>12. CASE RecordCheckin
  <2>1. CASE Uid = {}
    <3>1. PoolLedger' = PoolLedger /\ PoolListed' = PoolListed /\ UNCHANGED <<now, up>>
      BY <1>12, <2>1 DEF RecordCheckin, PoolLedger, PoolListed
    <3>2. QED
      BY <3>1 DEF Ledger!lvars, PoolLedger, PoolListed
  <2>2. ASSUME NEW u \in Uid
        PROVE  Goal
    <3>1. Update(u, mem[u]) /\ Save
      BY <1>12 DEF RecordCheckin, Update, TypeOK
    <3>2. QED
      BY <1>1, <1>2, <3>1
  <2>3. QED
    BY <2>1, <2>2
<1>13. ASSUME NEW u \in Uid, Remove(u)
       PROVE  Goal
  <2> DEFINE gone == Uid \ PoolListed
  <2>1. mem' = [mem EXCEPT ![u] = None] /\ UNCHANGED <<now, up>> /\ Save
    BY <1>13 DEF Remove
  <2>2. ASSUME NEW v \in Uid
        PROVE  LedgerOf(v)' = IF v = u \/ v \in gone THEN ZeroState
                              ELSE PoolLedger[v]
    <3>1. CASE v = u
      BY <2>1, <3>1, SavedBook DEF TypeOK
    <3>2. CASE v # u
      <4>1. mem'[v] = mem[v]
        BY <2>1, <3>2 DEF TypeOK
      <4>2. LedgerOf(v)' = IF mem[v] = None THEN ZeroState ELSE Persist(mem[v])
        BY <2>1, <4>1, SavedBook
      <4>3. v \in gone <=> mem[v] = None
        BY DEF PoolListed
      <4>4. QED
        BY <1>1, <3>2, <4>2, <4>3
    <3>3. QED
      BY <3>1, <3>2
  <2>3. PoolLedger' = [v \in Uid |-> IF v = u \/ v \in gone THEN ZeroState
                                     ELSE PoolLedger[v]]
    BY <2>2 DEF PoolLedger
  <2>4. PoolListed' = PoolListed \ {u}
    BY <2>1 DEF PoolListed, TypeOK
  <2>5. Ledger!Forget(u)
    BY <2>1, <2>3, <2>4
    DEF Ledger!Forget, Ledger!Blank, ZeroState, PoolLedger, PoolListed
  <2>6. QED
    BY <2>5 DEF Ledger!LNext
<1>14. /\ DOMAIN PoolLedger' = Uid
       /\ PoolListed' \in SUBSET Uid
       /\ \A u \in Uid : /\ PoolLedger[u] = LedgerOf(u)
                         /\ PoolLedger'[u] = LedgerOf(u)'
  BY DEF PoolLedger, PoolListed
<1>15. CASE SyncToDir
  <2>1. PICK s \in scans :
           mem' = [u \in Uid |-> IF u \notin s THEN None
                                 ELSE IF mem[u] = None THEN Fresh
                                 ELSE mem[u]]
    BY <1>15 DEF SyncToDir
  <2>2. up /\ UNCHANGED <<now, up, disk>>
    BY <1>15 DEF SyncToDir
  <2>3. ASSUME NEW u \in Uid
        PROVE  \/ LedgerOf(u)' = LedgerOf(u)
               \/ u \in PoolListed' \ PoolListed /\ LedgerOf(u)' = ZeroState
               \/ LedgerOf(u) = ZeroState
    <3>1. CASE u \notin s
      BY <2>1, <2>2, <3>1, Leaving
    <3>2. CASE u \in s /\ mem[u] = None
      <4>1. mem'[u] = Fresh /\ Fresh # None
        BY <2>1, <3>2, FreshType, NoneIsNoEntry
      <4>2. QED
        BY <3>2, <4>1, FreshType DEF LedgerOf, PoolListed
    <3>3. CASE u \in s /\ mem[u] # None
      BY <2>1, <2>2, <3>3 DEF LedgerOf
    <3>4. QED
      BY <3>1, <3>2, <3>3
  <2>4. Ledger!Realign
    BY <1>14, <2>2, <2>3
    DEF Ledger!Realign, Ledger!Kept, Ledger!Blank, ZeroState, PoolLedger, PoolListed
  <2>5. QED
    BY <2>4 DEF Ledger!LNext
<1>16. CASE Crash
  <2>1. /\ UNCHANGED <<now, disk>>
        /\ \A u \in Uid : mem'[u] = None
    BY <1>16 DEF Crash
  <2>2. \A u \in Uid : LedgerOf(u)' = LedgerOf(u) \/ LedgerOf(u) = ZeroState
    BY <2>1, Leaving
  <2>3. up' = ~up /\ PoolListed' = {}
    BY <1>16, <2>1 DEF Crash, PoolListed, TypeOK
  <2>4. Ledger!StopOrStart
    BY <1>14, <2>1, <2>2, <2>3
    DEF Ledger!StopOrStart, Ledger!Kept, Ledger!Blank, ZeroState, PoolLedger, PoolListed
  <2>5. QED
    BY <2>4 DEF Ledger!LNext
<1>17. CASE Boot
  <2>1. UNCHANGED <<now, disk>> /\ \A u \in Uid : mem[u] = None
    BY <1>17 DEF Boot, DownIsEmpty
  <2>2. ASSUME NEW u \in Uid
        PROVE  LedgerOf(u)' = LedgerOf(u)
    <3>1. CASE u \notin files
      BY <1>17, <2>1, <3>1 DEF Boot, LedgerOf
    <3>2. CASE u \in files /\ disk[u] = None
      <4>1. mem'[u] = Fresh /\ Fresh # None
        BY <1>17, <3>2, FreshType, NoneIsNoEntry DEF Boot
      <4>2. QED
        BY <2>1, <3>2, <4>1, FreshType DEF LedgerOf
    <3>3. CASE u \in files /\ disk[u] # None
      <4>1. disk[u] \in Saved
        BY <3>3 DEF TypeOK
      <4>2. mem'[u] = Load(disk[u]) /\ Load(disk[u]) # None
        BY <1>17, <3>3, <4>1, LoadType, NoneIsNoEntry DEF Boot
      <4>3. QED
        BY <2>1, <3>3, <4>1, <4>2, LoadType DEF LedgerOf
    <3>4. QED
      BY <3>1, <3>2, <3>3
  <2>3. up' = ~up /\ ~up
    BY <1>17 DEF Boot, TypeOK
  <2>4. Ledger!StopOrStart
    BY <1>14, <2>1, <2>2, <2>3
    DEF Ledger!StopOrStart, Ledger!Kept, Ledger!Blank, ZeroState, PoolLedger, PoolListed
  <2>5. QED
    BY <2>4 DEF Ledger!LNext
<1>18. CASE Tick
  <2>1. now < MaxTime /\ now' = now + 1 /\ UNCHANGED <<up, mem, disk>>
    BY <1>18 DEF Tick
  <2>2. PoolLedger' = PoolLedger /\ PoolListed' = PoolListed
    BY <2>1 DEF PoolLedger, PoolListed, LedgerOf
  <2>3. Ledger!LTick
    BY <2>1, <2>2 DEF Ledger!LTick, PoolLedger, PoolListed
  <2>4. QED
    BY <2>3 DEF Ledger!LNext
<1>19. ASSUME UNCHANGED <<now, up, mem, disk>>
       PROVE  Goal
  BY <1>19, Stutters
<1>20. ASSUME NEW u \in Uid, AccountOp(u)
       PROVE  Goal
  <2>1. FilesChange(u) => UNCHANGED <<now, up, mem, disk>>
    BY DEF FilesChange
  <2>2. QED
    BY <1>4, <1>5, <1>6, <1>7, <1>8, <1>9, <1>10, <1>11, <1>13, <1>19, <1>20,
       <2>1 DEF AccountOp
<1>21. ScanDir \/ UNCHANGED vars => UNCHANGED <<now, up, mem, disk>>
  BY DEF ScanDir, vars
<1>22. QED
  BY <1>12, <1>15, <1>16, <1>17, <1>18, <1>19, <1>20, <1>21 DEF Next

\* The pool is a DurableLedger, provided the state file can be written: to its
\* callers crashes, restarts and reloads of the directory lose no state that
\* was ever set, and no account changes except by an operation on it.
THEOREM PoolImplementsLedger ==
    ASSUME SaveMayFail = FALSE
    PROVE  Spec => PoolIsLedger
<1>1. Init => Ledger!LInit
  <2> SUFFICES ASSUME Init PROVE Ledger!LInit
    OBVIOUS
  <2>1. \A u \in Uid : mem[u] = None /\ LedgerOf(u) = ZeroState
    BY DEF Init, LedgerOf
  <2>2. QED
    BY <2>1 DEF Ledger!LInit, Ledger!Blank, ZeroState, Init
<1>2. TypeOK /\ SavedStateAgrees /\ saved /\ DownIsEmpty /\ [Next]_vars
         => [Ledger!LNext]_(Ledger!lvars)
  BY StepRefines
<1>3. QED
  BY <1>1, <1>2, TypeCorrect, SavedStateCorrect, AlwaysSaved, DownEmpty, PTL
  DEF Spec, PoolIsLedger, Ledger!LSpec
=============================================================================
