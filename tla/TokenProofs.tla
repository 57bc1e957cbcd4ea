----------------------------- MODULE TokenProofs -----------------------------
(***************************************************************************)
(* Theorems about TokenLifecycle, for any number of refreshers, objects    *)
(* and tokens, any writes that fail and any restarts.                      *)
(***************************************************************************)
EXTENDS TokenLifecycle, TLAPS

\* What went wrong, whichever step it was.
LEMMA SpoiltType ==
  ASSUME TypeOK, NEW k \in {"lost", "unsaved", "swapped"}, NEW b, Spoil(k, b)
  PROVE  spoilt' \subseteq {"lost", "unsaved", "swapped"}
BY DEF Spoil, TypeOK

LEMMA HoldsObject ==
  ASSUME TypeOK, NEW p \in Proc, pc[p] # "idle"
  PROVE  hold[p] \in Obj /\ token[hold[p]] \in Token \cup {None}
BY DEF TypeOK

\* A rotation issues the next token.
LEMMA Rotated ==
  ASSUME TypeOK, NEW t, Rotate(t)
  PROVE  /\ issued + 1 \in Token /\ issued' \in Token /\ live' \subseteq 1 .. issued'
         /\ issued' = issued + 1
BY TokenConstants DEF TypeOK, Rotate, Token

LEMMA StartOK == ASSUME Init PROVE TypeOK
<1>1. 1 \in Token
  BY TokenConstants DEF Token
<1>2. \A o \in Obj : None # o
  BY TokenConstants
<1>3. \A o \in Obj : lock[o] = None
  BY DEF Init
<1>4. token \in [Obj -> Token \cup {None}] /\ cur \in Obj
  BY <1>1 DEF Init
<1>5. lock \in [Obj -> Proc \cup {None}] /\ hold \in [Proc -> Obj \cup {None}]
  BY DEF Init
<1>6. live \subseteq 1 .. issued
  BY DEF Init
<1>. QED BY <1>1, <1>2, <1>3, <1>4, <1>5, <1>6 DEF Init, TypeOK

LEMMA RefresherSteps ==
  ASSUME TypeOK, NEW p \in Proc,
         Take(p) \/ Ask(p) \/ Refreshed(p) \/ RefreshFailed(p) \/ Save(p)
  PROVE  TypeOK'
<1>. USE TokenConstants
<1>1. CASE Take(p)
  BY <1>1 DEF Take, TypeOK
<1>2. CASE Ask(p)
  BY <1>2, HoldsObject DEF Ask, TypeOK
<1>3. CASE Refreshed(p)
  <2>1. /\ issued + 1 \in Token /\ issued' \in Token /\ live' \subseteq 1 .. issued'
        /\ hold[p] \in Obj
    BY <1>3, Rotated, HoldsObject DEF Refreshed
  <2>2. spoilt' \subseteq {"lost", "unsaved", "swapped"}
    BY <1>3, SpoiltType DEF Refreshed
  <2>. QED BY <1>3, <2>1, <2>2 DEF Refreshed, Release, Drop, TypeOK
<1>4. CASE RefreshFailed(p)
  <2>0. hold[p] \in Obj
    BY <1>4, HoldsObject DEF RefreshFailed
  <2>1. issued' \in Token /\ live' \subseteq 1 .. issued'
    <3>1. CASE Rotate(token[hold[p]])
      BY <3>1, Rotated
    <3>2. CASE UNCHANGED <<issued, live>>
      BY <3>2 DEF TypeOK
    <3>. QED BY <1>4, <3>1, <3>2 DEF RefreshFailed
  <2>2. spoilt' \subseteq {"lost", "unsaved", "swapped"}
    <3>1. CASE UNCHANGED spoilt
      BY <3>1 DEF TypeOK
    <3>. QED BY <1>4, <3>1, SpoiltType DEF RefreshFailed
  <2>. QED BY <1>4, <2>0, <2>1, <2>2 DEF RefreshFailed, Release, Drop, TypeOK
<1>5. CASE Save(p)
  <2>1. hold[p] \in Obj /\ token[hold[p]] \in Token \cup {None}
    BY <1>5, HoldsObject DEF Save
  <2>2. /\ \/ file' = token[hold[p]] /\ UNCHANGED spoilt
           \/ Spoil("lost", TRUE) /\ UNCHANGED file
        /\ Drop(p) /\ UNCHANGED <<issued, live, cur, token, lock, scan, removing>>
    BY <1>5, Zenon DEF Save
  <2>3. spoilt' \subseteq {"lost", "unsaved", "swapped"}
    <3>1. CASE UNCHANGED spoilt
      BY <3>1 DEF TypeOK
    <3>. QED BY <2>2, <3>1, SpoiltType
  <2>4. file' \in Token \cup {None}
    <3>1. file' = file \/ file' = token[hold[p]]
      BY <2>2, Zenon
    <3>. QED BY <2>1, <3>1 DEF TypeOK
  <2>5. pc[p] = "save"
    BY <1>5 DEF Save
  <2>. QED BY <2>1, <2>2, <2>3, <2>4, <2>5 DEF Drop, TypeOK
<1>. QED BY <1>1, <1>2, <1>3, <1>4, <1>5

LEMMA PanelSteps ==
  ASSUME TypeOK, Login \/ ScanDir \/ SyncToDir \/ RemoveFile \/ RemoveFromPool
  PROVE  TypeOK'
<1>. USE TokenConstants
<1>1. CASE Login
  <2>1. issued' \in Token /\ live' \subseteq 1 .. issued' /\ file' \in Token
    BY <1>1 DEF Login, TypeOK, Token
  <2>. QED BY <1>1, <2>1 DEF Login, TypeOK
<1>2. CASE ScanDir \/ RemoveFile \/ RemoveFromPool
  <2>1. /\ file' \in {file, None} /\ cur' \in {cur, None} /\ scan' \in {scan, {file}}
        /\ removing' \in {removing, TRUE, FALSE}
        /\ UNCHANGED <<issued, live, token, lock, pc, hold, spoilt>>
    BY <1>2, Zenon DEF ScanDir, RemoveFile, RemoveFromPool
  <2>2. removing' \in BOOLEAN
    BY <2>1 DEF TypeOK
  <2>. QED BY <2>1, <2>2 DEF TypeOK
<1>3. CASE SyncToDir
  <2>1. (CHOOSE t \in scan : TRUE) \in Token \cup {None}
    BY <1>3 DEF SyncToDir, TypeOK
  <2>2. spoilt' \subseteq {"lost", "unsaved", "swapped"}
    BY <1>3 DEF SyncToDir, Spoil, TypeOK
  <2>. QED BY <1>3, <2>1, <2>2 DEF SyncToDir, TypeOK
<1>. QED BY <1>1, <1>2, <1>3

LEMMA RestartStep == ASSUME TypeOK, Restart PROVE TypeOK'
<1>. USE TokenConstants
<1>1. issued' \in Token /\ live' \subseteq 1 .. issued'
  <2>1. CASE UNCHANGED <<issued, live>>
    BY <2>1 DEF TypeOK
  <2>2. CASE \E p \in Proc : Rotate(token[hold[p]])
    BY <2>2, Rotated
  <2>. QED BY <2>1, <2>2 DEF Restart
<1>2. cur' \in Obj \cup {None} /\ token' \in [Obj -> Token \cup {None}]
  BY DEF Restart, TypeOK
<1>3. spoilt' \subseteq {"lost", "unsaved", "swapped"}
  BY DEF Restart, Spoil, TypeOK
<1>. QED BY <1>1, <1>2, <1>3 DEF Restart, TypeOK

LEMMA TypesKept == TypeOK /\ [Next]_vars => TypeOK'
<1>1. CASE UNCHANGED vars
  BY <1>1 DEF vars, TypeOK
<1>. QED BY <1>1, RefresherSteps, PanelSteps, RestartStep DEF Next

(* Types; whoever waits for an answer holds the lock of its object, and nobody
   else does, through restarts (auth.go:19-30, client.go:240-287).           *)
THEOREM TokenTypeCorrect == Spec => []TypeOK
<1>. QED BY StartOK, TypesKept, PTL DEF Spec

-----------------------------------------------------------------------------
\* As long as nothing of what Spoil names has happened, all refreshers hold one
\* object, which is the pool's if it has any, and whoever is about to save has a
\* token the service accepts.
OneObject ==
  \A p \in Proc : hold[p] # None =>
     /\ \A q \in Proc : hold[q] # None => hold[q] = hold[p]
     /\ cur # None => hold[p] = cur
SavesLive == \A p \in Proc : pc[p] = "save" => token[hold[p]] \in live
Whole == spoilt = {} => OneObject /\ SavesLive /\ FileIsLive

LEMMA SpoiltStays == ASSUME [Next]_vars PROVE spoilt \subseteq spoilt'
<1>1. ASSUME NEW p \in Proc,
             Take(p) \/ Ask(p) \/ Refreshed(p) \/ RefreshFailed(p) \/ Save(p)
      PROVE  spoilt \subseteq spoilt'
  BY <1>1 DEF Take, Ask, Refreshed, RefreshFailed, Save, Spoil
<1>2. CASE Login \/ ScanDir \/ SyncToDir \/ RemoveFile \/ RemoveFromPool \/ Restart
  BY <1>2 DEF Login, ScanDir, SyncToDir, RemoveFile, RemoveFromPool, Restart, Spoil
<1>. QED BY <1>1, <1>2 DEF Next, vars

\* A refresher's steps.
LEMMA WholeRefreshers ==
  ASSUME TypeOK, spoilt' = {}, OneObject, SavesLive, FileIsLive, NEW p \in Proc,
         Take(p) \/ Ask(p) \/ Refreshed(p) \/ RefreshFailed(p) \/ Save(p)
  PROVE  OneObject' /\ SavesLive' /\ FileIsLive'
<1>. USE TokenConstants
<1>1. CASE Take(p)
  BY <1>1 DEF Take, TypeOK, OneObject, SavesLive, FileIsLive, Quiet
<1>2. CASE Ask(p)
  BY <1>2 DEF Ask, TypeOK, OneObject, SavesLive, FileIsLive, Quiet
<1>3. CASE Refreshed(p)
  <2>1. p \in Saver /\ pc' = [pc EXCEPT ![p] = "save"] /\ hold' = hold /\ cur' = cur
    BY <1>3 DEF Refreshed, Spoil
  <2>2. hold[p] \in Obj /\ token'[hold[p]] \in live'
    BY <1>3, HoldsObject DEF Refreshed, Rotate, TypeOK
  <2>3. ASSUME NEW q \in Proc, pc'[q] = "save" PROVE token'[hold'[q]] \in live'
    <3>1. hold[q] # None /\ hold[p] # None
      BY <1>3, <2>1, <2>3 DEF Refreshed, TypeOK
    <3>2. hold[q] = hold[p]
      BY <3>1 DEF OneObject
    <3>. QED BY <2>1, <2>2, <3>2
  <2>4. ~Quiet'
    BY <2>1 DEF Quiet, TypeOK
  <2>. QED BY <2>1, <2>3, <2>4 DEF OneObject, SavesLive, FileIsLive
<1>4. CASE RefreshFailed(p)
  BY <1>4 DEF RefreshFailed, Spoil, Drop, TypeOK, OneObject, SavesLive, FileIsLive, Quiet
<1>5. CASE Save(p)
  <2>1. file' = token[hold[p]] /\ file' \in live'
    BY <1>5 DEF Save, Spoil, SavesLive
  <2>2. OneObject' /\ SavesLive'
    BY <1>5 DEF Save, Drop, TypeOK, OneObject, SavesLive
  <2>. QED BY <2>1, <2>2 DEF FileIsLive
<1>. QED BY <1>1, <1>2, <1>3, <1>4, <1>5

\* What the panel and the process do.
LEMMA WholePanel ==
  ASSUME TypeOK, spoilt' = {}, OneObject, SavesLive, FileIsLive,
         Login \/ ScanDir \/ SyncToDir \/ RemoveFile \/ RemoveFromPool \/ Restart
  PROVE  OneObject' /\ SavesLive' /\ FileIsLive'
<1>. USE TokenConstants
<1>1. CASE Login
  BY <1>1 DEF Login, TypeOK, OneObject, SavesLive, FileIsLive, Quiet
<1>2. CASE ScanDir \/ RemoveFile \/ RemoveFromPool
  BY <1>2 DEF ScanDir, RemoveFile, RemoveFromPool, TypeOK, OneObject, SavesLive, FileIsLive,
              Quiet
<1>3. CASE SyncToDir
  <2>1. \A p \in Proc : hold[p] = None
    BY <1>3 DEF SyncToDir, Spoil
  <2>2. \A p \in Proc : pc[p] = "idle"
    BY <2>1 DEF TypeOK
  <2>. QED
    BY <1>3, <2>1, <2>2 DEF SyncToDir, OneObject, SavesLive, FileIsLive, Quiet
<1>4. CASE Restart
  <2>1. \A p \in Proc : pc[p] \notin {"asking", "save"}
    BY <1>4 DEF Restart, Spoil
  <2>2. live' = live /\ file' = file
    BY <1>4, <2>1 DEF Restart
  <2>3. \A p \in Proc : pc'[p] = "idle" /\ hold'[p] = None
    BY <1>4 DEF Restart
  <2>. QED BY <2>1, <2>2, <2>3 DEF OneObject, SavesLive, FileIsLive, Quiet
<1>. QED BY <1>1, <1>2, <1>3, <1>4

LEMMA WholeStep == TypeOK /\ Whole /\ [Next]_vars => Whole'
<1>. SUFFICES ASSUME TypeOK, Whole, [Next]_vars, spoilt' = {}
              PROVE  OneObject' /\ SavesLive' /\ FileIsLive'
  BY DEF Whole
<1>1. OneObject /\ SavesLive /\ FileIsLive
  BY SpoiltStays DEF Whole
<1>2. CASE UNCHANGED vars
  BY <1>1, <1>2 DEF vars, OneObject, SavesLive, FileIsLive, Quiet
<1>. QED BY <1>1, <1>2, WholeRefreshers, WholePanel DEF Next

(* For any number of refreshers that interleave with logins, reloads, removals
   and restarts, the saved token is live, unless a rotated token was lost,
   never saved, or replaced under a running refresh (client.go:240-287).     *)
THEOREM SavedIsLive == Spec => []SavedTokenIsLive
<1>1. Init => Whole
  BY DEF Init, Whole, OneObject, SavesLive, FileIsLive
<1>2. Whole => SavedTokenIsLive
  BY DEF Whole, SavedTokenIsLive
<1>. QED BY <1>1, <1>2, StartOK, TypesKept, WholeStep, PTL DEF Spec
=============================================================================
