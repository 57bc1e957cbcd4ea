----------------------------- MODULE ChatProofs -----------------------------
(***************************************************************************)
(* Theorems about the chat dispatcher, for any number of requests,         *)
(* accounts and models, any thresholds and any set of failures.            *)
(***************************************************************************)
EXTENDS ChatDispatch, AccountPoolProofs, FiniteSetTheorems

\* The steps of a request that are steps of the pool, and those that are not.
LEMMA ChatIsPool ==
  ASSUME [ChatNext]_allVars,
         \A r \in Req : acct[r] \in Uid \/ pc[r] \notin {"penalize", "ok"}
  PROVE  [Next]_vars
<1>. USE ChatConstants, PoolConstants DEF poolVars, At
<1>1. CASE UNCHANGED allVars
  BY <1>1 DEF allVars
<1>2. CASE Around
  BY <1>2 DEF Around, Next, AccountOp
<1>3. ASSUME NEW r \in Req, Penalize(r) PROVE [Next]_vars
  <2>1. acct[r] \in Uid /\ ModelOf[r] \in Model /\ Penalty(acct[r], ModelOf[r], fail[r])
    BY <1>3 DEF Penalize
  <2>. DEFINE u == acct[r] m == ModelOf[r]
  <2>2. CASE \/ Cooldown(u, ErrCooldown) \/ Cooldown(u, HardCooldown)
             \/ Cooldown(u, SoftCooldown)
    BY <2>1, <2>2 DEF Next, AccountOp
  <2>3. CASE NoteSessionDead(u) \/ NoteError(u)
    BY <2>1, <2>3 DEF Next, AccountOp
  <2>4. CASE \E d \in ResetDelays : CooldownSoftForModel(u, m, now + d)
    BY <2>1, <2>4 DEF Next, AccountOp
  <2>. QED BY <2>1, <2>2, <2>3, <2>4 DEF Penalty
<1>4. ASSUME NEW r \in Req, Succeed(r) PROVE [Next]_vars
  BY <1>4 DEF Succeed, Next, AccountOp
<1>5. ASSUME NEW r \in Req, Arrive(r) \/ ReadSticky(r) \/ UsedUp(r) \/ CheckSticky(r)
                            \/ FreshPick(r) \/ StoreSticky(r) \/ Admit(r) \/ RePick(r)
      PROVE  [Next]_vars
  BY <1>5 DEF Arrive, ReadSticky, UsedUp, CheckSticky, FreshPick, StoreSticky, Admit, RePick
<1>6. ASSUME NEW r \in Req, CoolCheck(r) \/ Call(r) \/ ClearSticky(r) \/ StickySuccess(r)
                            \/ Passthrough(r) \/ Unavailable(r)
      PROVE  [Next]_vars
  BY <1>6 DEF CoolCheck, Call, ClearSticky, StickySuccess, Passthrough, Unavailable
<1>. QED BY <1>1, <1>2, <1>3, <1>4, <1>5, <1>6 DEF ChatNext, Serve

-----------------------------------------------------------------------------
\* The types of the dispatcher ...
ChatTypes ==
  /\ sticky \in [uid: Uid, count: Nat] \cup {None}
  /\ pc \in [Req -> Place]
  /\ acct \in [Req -> Uid \cup {None}]
  /\ tried \in [Req -> SUBSET Uid]
  /\ att \in [Req -> 0..MaxRotate]
  /\ fail \in [Req -> Failure \cup {None}]
  /\ body \in [Req -> 0..MaxRotate]
  /\ blamed \in SUBSET Uid

\* ... and what each request has by the place it is at: an account tried for
\* every attempt, save the one it is choosing for, and a failure that is told.
Choosing == {"check", "fresh", "store", "admit", "repick"}
Sending  == {"send", "call", "clear", "penalize", "ok", "count"}
ReqOK(r) ==
  /\ pc[r] = "idle" => tried[r] = {} /\ att[r] = 0
  /\ pc[r] = "pick" => Cardinality(tried[r]) = att[r]
  /\ pc[r] \in Choosing => Cardinality(tried[r]) + 1 = att[r]
  /\ pc[r] \in Sending => Cardinality(tried[r]) = att[r] /\ acct[r] \in tried[r]
  /\ pc[r] \in {"check", "store", "admit"} => acct[r] \in Uid
  /\ pc[r] \in {"clear", "penalize"} => fail[r] = "client" \/ acct[r] \in blamed
  /\ pc[r] = "penalize" => fail[r] # "client"

ChatInv == TypeOK /\ ChatTypes /\ \A r \in Req : ReqOK(r)

LEMMA ChatInvTypes == ChatInv => ChatTypeOK
BY DEF ChatInv, ChatTypes, ReqOK, Sending, ChatTypeOK

LEMMA ChatStart == ASSUME ChatInit PROVE ChatInv
<1>. USE PoolConstants, ChatConstants
<1>1. TypeOK
  <2>1. mem \in [Uid -> Entry \cup {None}] /\ disk \in [Uid -> Saved \cup {None}]
    BY FreshType DEF ChatInit
  <2>2. \A u \in Uid : mem[u] # None => mem[u].errCount < Threshold /\ mem[u].dead < DeadThreshold
    BY FreshType DEF ChatInit
  <2>. QED BY <2>1, <2>2 DEF ChatInit, TypeOK
<1>2. ChatTypes
  BY DEF ChatInit, ChatTypes, Place
<1>3. \A r \in Req : ReqOK(r)
  BY DEF ChatInit, ReqOK, Choosing, Sending
<1>. QED BY <1>1, <1>2, <1>3 DEF ChatInv

\* A step of request r leaves what the others have.
OnlyOf(r) ==
  /\ \A s \in Req \ {r} : /\ pc'[s] = pc[s] /\ acct'[s] = acct[s] /\ tried'[s] = tried[s]
                          /\ att'[s] = att[s] /\ fail'[s] = fail[s]
  /\ blamed \subseteq blamed'

LEMMA OneRequest ==
  ASSUME ChatInv, TypeOK', ChatTypes', NEW r \in Req, OnlyOf(r), ReqOK(r)'
  PROVE  ChatInv'
<1>1. ASSUME NEW s \in Req \ {r} PROVE ReqOK(s)'
  BY <1>1 DEF OnlyOf, ChatInv, ReqOK
<1>. QED BY <1>1 DEF ChatInv

\* The end of a request.
LEMMA Returned ==
  ASSUME ChatInv, TypeOK', NEW r \in Req, Return(r), blamed' = blamed,
         sticky' \in [uid: Uid, count: Nat] \cup {None}
  PROVE  ChatInv'
<1>1. ChatTypes'
  BY ChatConstants DEF ChatInv, ChatTypes, Return, Goto, Place
<1>2. OnlyOf(r) /\ ReqOK(r)'
  BY DEF ChatInv, ChatTypes, Return, Goto, OnlyOf, ReqOK, Choosing, Sending
<1>. QED BY <1>1, <1>2, OneRequest

LEMMA Counts == ASSUME NEW T \in SUBSET Uid, NEW u
                PROVE  /\ Cardinality(T) \in Nat
                       /\ Cardinality(T \cup {u}) = IF u \in T THEN Cardinality(T)
                                                    ELSE Cardinality(T) + 1
BY PoolConstants, FS_Subset, FS_CardinalityType, FS_AddElement

-----------------------------------------------------------------------------
\* Request r chooses an account.
LEMMA ChoosingSteps ==
  ASSUME ChatInv, TypeOK', NEW r \in Req,
         Arrive(r) \/ ReadSticky(r) \/ UsedUp(r) \/ CheckSticky(r) \/ FreshPick(r)
         \/ StoreSticky(r)
  PROVE  ChatInv'
<1>. USE DEF At, Goto, With, Choosing, Sending
<1>0. Cardinality(tried[r]) \in Nat /\ att[r] \in 0..MaxRotate /\ MaxRotate \in Nat
  BY Counts, ChatConstants DEF ChatInv, ChatTypes
<1>1. CASE Arrive(r)
  <2>1. ChatTypes'
    BY <1>1 DEF Arrive, ChatInv, ChatTypes, Place
  <2>2. OnlyOf(r) /\ ReqOK(r)'
    BY <1>1, FS_EmptySet DEF Arrive, ChatInv, ChatTypes, OnlyOf, ReqOK
  <2>. QED BY <2>1, <2>2, OneRequest
<1>2. CASE ReadSticky(r)
  <2>1. sticky # None => sticky.uid \in Uid
    BY DEF ChatInv, ChatTypes
  <2>2. ChatTypes'
    BY <1>0, <1>2, <2>1 DEF ReadSticky, ChatInv, ChatTypes, Place
  <2>3. OnlyOf(r) /\ ReqOK(r)'
    BY <1>0, <1>2, <2>1 DEF ReadSticky, ChatInv, ChatTypes, OnlyOf, ReqOK
  <2>. QED BY <2>2, <2>3, OneRequest
<1>3. CASE UsedUp(r)
  <2>1. ChatTypes'
    BY <1>3 DEF UsedUp, ChatInv, ChatTypes, Place
  <2>2. OnlyOf(r) /\ ReqOK(r)'
    BY <1>3 DEF UsedUp, ChatInv, ChatTypes, OnlyOf, ReqOK
  <2>. QED BY <2>1, <2>2, OneRequest
<1>4. CASE CheckSticky(r)
  <2>1. ChatTypes'
    BY <1>4 DEF CheckSticky, ChatInv, ChatTypes, Place
  <2>2. OnlyOf(r) /\ ReqOK(r)'
    BY <1>4 DEF CheckSticky, ChatInv, ChatTypes, OnlyOf, ReqOK
  <2>. QED BY <2>1, <2>2, OneRequest
<1>5. CASE FreshPick(r)
  <2>0. PickChoices({}) \subseteq Uid
    BY DEF PickChoices, HealthyUids
  <2>1. ChatTypes'
    BY <1>5, <2>0 DEF FreshPick, ChatInv, ChatTypes, Place
  <2>2. OnlyOf(r) /\ ReqOK(r)'
    BY <1>5, <2>0 DEF FreshPick, ChatInv, ChatTypes, OnlyOf, ReqOK
  <2>. QED BY <2>1, <2>2, OneRequest
<1>6. CASE StoreSticky(r)
  <2>1. ChatTypes'
    BY <1>6 DEF StoreSticky, ChatInv, ChatTypes, ReqOK, Place
  <2>2. OnlyOf(r) /\ ReqOK(r)'
    BY <1>6 DEF StoreSticky, ChatInv, ChatTypes, OnlyOf, ReqOK
  <2>. QED BY <2>1, <2>2, OneRequest
<1>. QED BY <1>1, <1>2, <1>3, <1>4, <1>5, <1>6

\* Request r takes the account chosen, or another one.
LEMMA AdmitSteps ==
  ASSUME ChatInv, TypeOK', NEW r \in Req, Admit(r) \/ RePick(r) PROVE ChatInv'
<1>. USE DEF At, Goto, With, Choosing, Sending
<1>1. CASE Admit(r)
  <2>0. acct[r] \in Uid /\ tried[r] \in SUBSET Uid
    BY <1>1 DEF Admit, ChatInv, ChatTypes, ReqOK
  <2>1. ChatTypes'
    BY <1>1, <2>0 DEF Admit, ChatInv, ChatTypes, Place
  <2>2. OnlyOf(r) /\ ReqOK(r)'
    BY <1>1, <2>0, Counts DEF Admit, ChatInv, ChatTypes, OnlyOf, ReqOK
  <2>. QED BY <2>1, <2>2, OneRequest
<1>2. CASE RePick(r)
  <2>0. PickChoices(tried[r]) \subseteq Uid \ tried[r] /\ tried[r] \in SUBSET Uid
    BY DEF PickChoices, HealthyUids, ChatInv, ChatTypes
  <2>1. ChatTypes'
    BY <1>2, <2>0 DEF RePick, ChatInv, ChatTypes, Place
  <2>2. OnlyOf(r) /\ ReqOK(r)'
    BY <1>2, <2>0, Counts DEF RePick, ChatInv, ChatTypes, OnlyOf, ReqOK
  <2>. QED BY <2>1, <2>2, OneRequest
<1>. QED BY <1>1, <1>2

\* Request r sends, and the attempt fails or not.
LEMMA SendingSteps ==
  ASSUME ChatInv, TypeOK', NEW r \in Req,
         CoolCheck(r) \/ Call(r) \/ ClearSticky(r) \/ Penalize(r) \/ Succeed(r)
  PROVE  ChatInv'
<1>. USE DEF At, Goto, With, Choosing, Sending
<1>1. CASE CoolCheck(r)
  <2>1. ChatTypes'
    BY <1>1 DEF CoolCheck, ChatInv, ChatTypes, Place
  <2>2. OnlyOf(r) /\ ReqOK(r)'
    BY <1>1 DEF CoolCheck, ChatInv, ChatTypes, OnlyOf, ReqOK
  <2>. QED BY <2>1, <2>2, OneRequest
<1>2. CASE Call(r)
  <2>0. acct[r] \in Uid
    BY <1>2 DEF Call, ChatInv, ChatTypes, ReqOK
  <2>1. ChatTypes'
    BY <1>2, <2>0, ChatConstants DEF Call, ChatInv, ChatTypes, Place
  <2>2. OnlyOf(r) /\ ReqOK(r)'
    BY <1>2, <2>0 DEF Call, ChatInv, ChatTypes, OnlyOf, ReqOK
  <2>. QED BY <2>1, <2>2, OneRequest
<1>3. CASE ClearSticky(r) /\ fail[r] = "client"
  BY <1>3, Returned DEF ClearSticky
<1>4. CASE ClearSticky(r) /\ fail[r] # "client"
  <2>1. ChatTypes'
    BY <1>4 DEF ClearSticky, ChatInv, ChatTypes, Place
  <2>2. OnlyOf(r) /\ ReqOK(r)'
    BY <1>4 DEF ClearSticky, ChatInv, ChatTypes, OnlyOf, ReqOK
  <2>. QED BY <2>1, <2>2, OneRequest
<1>5. CASE Penalize(r)
  <2>1. body' \in [Req -> 0..MaxRotate]
    BY <1>5 DEF Penalize, ChatInv, ChatTypes
  <2>2. ChatTypes'
    BY <1>5, <2>1 DEF Penalize, ChatInv, ChatTypes, Place, Failure, NoResponse
  <2>3. OnlyOf(r) /\ ReqOK(r)'
    BY <1>5 DEF Penalize, ChatInv, ChatTypes, OnlyOf, ReqOK
  <2>. QED BY <2>2, <2>3, OneRequest
<1>6. CASE Succeed(r)
  <2>1. ChatTypes'
    BY <1>6 DEF Succeed, ChatInv, ChatTypes, Place
  <2>2. OnlyOf(r) /\ ReqOK(r)'
    BY <1>6 DEF Succeed, ChatInv, ChatTypes, OnlyOf, ReqOK
  <2>. QED BY <2>1, <2>2, OneRequest
<1>. QED BY <1>1, <1>2, <1>3, <1>4, <1>5, <1>6

\* Request r ends.
LEMMA EndingSteps ==
  ASSUME ChatInv, TypeOK', NEW r \in Req,
         StickySuccess(r) \/ Passthrough(r) \/ Unavailable(r)
  PROVE  ChatInv'
<1>1. sticky \in [uid: Uid, count: Nat] \cup {None}
  BY DEF ChatInv, ChatTypes
<1>2. CASE StickySuccess(r)
  BY <1>1, <1>2, Returned DEF StickySuccess
<1>3. CASE Passthrough(r) \/ Unavailable(r)
  BY <1>1, <1>3, Returned DEF Passthrough, Unavailable
<1>. QED BY <1>2, <1>3

LEMMA ChatStep == ChatInv /\ [ChatNext]_allVars => ChatInv'
<1>. SUFFICES ASSUME ChatInv, [ChatNext]_allVars PROVE ChatInv'
  OBVIOUS
<1>0. TypeOK'
  <2>1. \A r \in Req : acct[r] \in Uid \/ pc[r] \notin {"penalize", "ok"}
    BY DEF ChatInv, ChatTypes, ReqOK, Sending
  <2>. QED BY <2>1, ChatIsPool, TypeStep DEF ChatInv
<1>1. CASE UNCHANGED chatVars
  BY <1>0, <1>1 DEF chatVars, ChatInv, ChatTypes, ReqOK
<1>2. ASSUME NEW r \in Req, Arrive(r) \/ Serve(r) PROVE ChatInv'
  BY <1>0, <1>2, ChoosingSteps, AdmitSteps, SendingSteps, EndingSteps DEF Serve
<1>. QED BY <1>1, <1>2 DEF ChatNext, Around, allVars

(* Type correctness of the dispatcher and of the pool under its calls, with one
   attempt for every account a request has tried (handler.go:488-502).       *)
THEOREM ChatTypeCorrect == ChatSpec => []ChatTypeOK
<1>1. ChatInit => ChatInv
  BY ChatStart
<1>. QED BY <1>1, ChatStep, ChatInvTypes, PTL DEF ChatSpec

-----------------------------------------------------------------------------
\* The places of the end of a rotation.
GivesUp(r) == pc[r] # "exhausted" /\ pc'[r] = "exhausted"
MayGiveUp(r) == HealthyUids \subseteq tried[r] \/ Cardinality(tried[r]) = MaxRotate

\* What the theorem says of one step.
LastStep ==
  \A r \in Req : pc[r] # "exhausted" /\ pc'[r] = "exhausted" =>
    \/ HealthyUids \subseteq tried[r]
    \/ Cardinality(tried[r]) = MaxRotate

\* Only three steps give up, each of the request that takes it.
LEMMA GiveUpSteps ==
  ASSUME ChatInv, ChatNext, NEW r \in Req, GivesUp(r)
  PROVE  UsedUp(r) \/ FreshPick(r) \/ RePick(r)
<1>. USE DEF GivesUp, At, Goto, ChatInv, ChatTypes
<1>1. CASE Around
  BY <1>1 DEF Around, chatVars
<1>2. ASSUME NEW s \in Req,
             \/ Arrive(s) \/ ReadSticky(s) \/ CheckSticky(s) \/ StoreSticky(s) \/ Admit(s)
             \/ CoolCheck(s) \/ Call(s) \/ Succeed(s)
      PROVE  FALSE
  BY <1>2 DEF Arrive, ReadSticky, CheckSticky, StoreSticky, Admit, CoolCheck, Call, Succeed
<1>3. ASSUME NEW s \in Req, ClearSticky(s) \/ Penalize(s) PROVE FALSE
  BY <1>3 DEF ClearSticky, Penalize, Return
<1>4. ASSUME NEW s \in Req, StickySuccess(s) \/ Passthrough(s) \/ Unavailable(s) PROVE FALSE
  BY <1>4 DEF StickySuccess, Passthrough, Unavailable, Return
<1>5. ASSUME NEW s \in Req, UsedUp(s) \/ FreshPick(s) \/ RePick(s) PROVE s = r
  BY <1>5 DEF UsedUp, FreshPick, RePick
<1>. QED BY <1>1, <1>2, <1>3, <1>4, <1>5 DEF ChatNext, Serve

(* However the requests rewrite one sticky record, a request gives up only after
   as many accounts as it has attempts or when it has tried all healthy ones
   (handler.go:488-502).                                                     *)
THEOREM NoneIsMissed == ChatSpec => GivesUpLast
<1>1. ChatInit => ChatInv
  BY ChatStart
<1>2. ASSUME ChatInv, [ChatNext]_allVars, NEW r \in Req, GivesUp(r) PROVE MayGiveUp(r)
  <2>1. ChatNext
    BY <1>2 DEF GivesUp, allVars, chatVars
  <2>2. CASE UsedUp(r)
    <3>1. Cardinality(tried[r]) = att[r] /\ att[r] \in 0..MaxRotate /\ MaxRotate \in Nat
      BY <1>2, <2>2, ChatConstants DEF UsedUp, At, ChatInv, ChatTypes, ReqOK
    <3>. QED BY <2>2, <3>1 DEF UsedUp, MayGiveUp
  <2>3. CASE FreshPick(r)
    BY <1>2, <2>3 DEF FreshPick, Goto, GivesUp, ChatInv, ChatTypes, MayGiveUp
  <2>4. CASE RePick(r)
    BY <1>2, <2>4 DEF RePick, Goto, GivesUp, ChatInv, ChatTypes, MayGiveUp
  <2>. QED BY <1>2, <2>1, <2>2, <2>3, <2>4, GiveUpSteps
<1>3. ChatInv /\ [ChatNext]_allVars => [LastStep]_allVars
  BY <1>2 DEF LastStep, GivesUp, MayGiveUp
<1>. QED BY <1>1, <1>3, ChatStep, PTL DEF ChatSpec, GivesUpLast, LastStep

-----------------------------------------------------------------------------
\* The requests that may still count a success on the record that is there now:
\* those past the look at it, except those that are about to replace it.
Counting == {r \in Req : pc[r] \in {"check", "admit", "repick", "send", "call", "ok", "count"}}

\* Each of them has room.
Room == sticky # None =>
          sticky.count + Cardinality(Counting) <= MaxReqs - 1 + Cardinality(Req)

LEMMA CountingSize ==
  /\ IsFiniteSet(Counting) /\ Cardinality(Counting) \in Nat /\ Cardinality(Req) \in Nat
  /\ Cardinality(Counting) <= Cardinality(Req)
  /\ MaxReqs \in Nat \ {0}
BY ChatConstants, FS_Subset, FS_CardinalityType DEF Counting

LEMMA CountingSizeNext == ASSUME ChatTypes' PROVE
  /\ IsFiniteSet(Counting') /\ Cardinality(Counting') \in Nat
  /\ Cardinality(Counting') <= Cardinality(Req)
<1>1. Counting' \in SUBSET Req
  BY DEF Counting
<1>. QED BY <1>1, ChatConstants, FS_Subset, FS_CardinalityType

\* The four ways a step changes the record and who counts.
LEMMA RoomKept ==
  ASSUME ChatInv, ChatTypes', Room,
         \/ sticky' = None
         \/ sticky' = sticky /\ Counting' \subseteq Counting
         \/ sticky'.count < MaxReqs
         \/ \E r \in Counting : /\ Counting' = Counting \ {r}
                                /\ sticky # None /\ sticky'.count = sticky.count + 1
  PROVE  Room'
<1>1. CASE sticky' = None
  BY <1>1 DEF Room
<1>2. CASE sticky' = sticky /\ Counting' \subseteq Counting
  <2>1. Cardinality(Counting') <= Cardinality(Counting)
    BY <1>2, CountingSize, FS_Subset
  <2>. QED BY <1>2, <2>1, CountingSize, CountingSizeNext DEF Room, ChatInv, ChatTypes
<1>3. CASE sticky' # None /\ sticky'.count < MaxReqs
  BY <1>3, CountingSize, CountingSizeNext DEF Room, ChatTypes
<1>4. ASSUME NEW r \in Counting, Counting' = Counting \ {r},
             sticky # None, sticky'.count = sticky.count + 1
      PROVE  Room'
  <2>1. Cardinality(Counting') = Cardinality(Counting) - 1
    BY <1>4, CountingSize, FS_RemoveElement
  <2>. QED BY <1>4, <2>1, CountingSize DEF Room, ChatInv, ChatTypes
<1>. QED BY <1>1, <1>2, <1>3, <1>4

LEMMA RoomStep ==
  ASSUME ChatInv, ChatInv', Room, [ChatNext]_allVars PROVE Room'
<1>. USE DEF At, Goto, ChatInv, ChatTypes
<1>1. CASE UNCHANGED chatVars
  BY <1>1 DEF chatVars, Room, Counting
<1>2. ASSUME NEW r \in Req,
             Arrive(r) \/ UsedUp(r) \/ CheckSticky(r) \/ FreshPick(r)
      PROVE  sticky' = sticky /\ Counting' \subseteq Counting
  BY <1>2 DEF Arrive, UsedUp, CheckSticky, FreshPick, Counting
<1>3. ASSUME NEW r \in Req, RePick(r) \/ CoolCheck(r) \/ Call(r) \/ Succeed(r)
      PROVE  sticky' = sticky /\ Counting' \subseteq Counting
  BY <1>3 DEF RePick, CoolCheck, Call, Succeed, Counting
<1>4. ASSUME NEW r \in Req, Penalize(r) \/ Passthrough(r) \/ Unavailable(r)
      PROVE  sticky' = sticky /\ Counting' \subseteq Counting
  BY <1>4 DEF Penalize, Passthrough, Unavailable, Return, Counting
<1>5. ASSUME NEW r \in Req, ReadSticky(r)
      PROVE  sticky' = sticky /\ (Counting' \subseteq Counting \/ sticky'.count < MaxReqs)
  BY <1>5 DEF ReadSticky, Counting
<1>6. ASSUME NEW r \in Req, StoreSticky(r) PROVE sticky'.count < MaxReqs
  BY <1>6, ChatConstants DEF StoreSticky
<1>7. ASSUME NEW r \in Req, Admit(r)
      PROVE  sticky' = None \/ (sticky' = sticky /\ Counting' \subseteq Counting)
  BY <1>7 DEF Admit, Counting
<1>8. ASSUME NEW r \in Req, ClearSticky(r) PROVE sticky' = None
  BY <1>8 DEF ClearSticky
<1>9. ASSUME NEW r \in Req, StickySuccess(r), sticky # None
      PROVE  /\ r \in Counting /\ Counting' = Counting \ {r}
             /\ sticky'.count = sticky.count + 1
  BY <1>9 DEF StickySuccess, Return, Counting
<1>10. ASSUME NEW r \in Req, StickySuccess(r), sticky = None PROVE sticky' = None
  BY <1>10 DEF StickySuccess
<1>. QED
  BY <1>1, <1>2, <1>3, <1>4, <1>5, <1>6, <1>7, <1>8, <1>9, <1>10, RoomKept
     DEF ChatNext, Serve, Around, allVars

(* For any number of requests, a sticky record overruns its limit by less than
   the number of requests (handler.go:152-198).                              *)
THEOREM OverrunBounded == ChatSpec => []StickyOverrun
<1>1. ChatInit => ChatInv /\ Room
  BY ChatStart DEF ChatInit, Room
<1>2. ChatInv /\ Room /\ [ChatNext]_allVars => ChatInv' /\ Room'
  BY ChatStep, RoomStep
<1>3. ChatInv /\ Room => StickyOverrun
  BY CountingSize DEF ChatInv, ChatTypes, Room, StickyOverrun
<1>. QED BY <1>1, <1>2, <1>3, PTL DEF ChatSpec

-----------------------------------------------------------------------------
\* An entry no failure has been charged to.
Spotless(e) == /\ e.until = 0 /\ e.errCount = 0 /\ e.dead = 0
               /\ \A m \in Model : e.modelCool[m] = 0

\* A call of the pool about one account leaves the others alone.
LEMMA OthersAlone ==
  ASSUME TypeOK, NEW u \in Uid, NEW k \in Failure, NEW m, Penalty(u, m, k),
         NEW v \in Uid \ {u}
  PROVE  mem'[v] = mem[v]
<1>1. ASSUME NEW e, Update(u, e) PROVE mem'[v] = mem[v]
  BY <1>1 DEF Update, TypeOK
<1>. QED BY <1>1 DEF Penalty, Cooldown, NoteSessionDead, NoteError, CooldownSoftForModel

LEMMA SpotlessStep ==
  ASSUME ChatInv, [ChatNext]_allVars, NEW u \in Uid \ blamed',
         mem[u] # None => Spotless(mem[u])
  PROVE  mem'[u] = None \/ Spotless(mem'[u])
<1>. USE DEF ChatInv, poolVars, vars
<1>1. mem[u] # None => mem[u] \in Entry
  BY DEF TypeOK
<1>2. CASE UNCHANGED poolVars
  BY <1>2
<1>3. CASE Around
  <2>1. ASSUME NEW v \in Uid, Remove(v) PROVE mem'[u] = None \/ mem'[u] = mem[u]
    BY <2>1 DEF Remove, TypeOK
  <2>2. ASSUME NEW v \in Uid, NEW d \in BOOLEAN, SetDisabled(v, d)
        PROVE  mem'[u] = None \/ Spotless(mem'[u])
    BY <1>1, <2>2 DEF SetDisabled, Update, Spotless, TypeOK, Entry
  <2>. QED BY <1>3, <2>1, <2>2 DEF Around, Tick
<1>4. ASSUME NEW r \in Req, Succeed(r) PROVE mem'[u] = None \/ Spotless(mem'[u])
  <2>1. NoteSuccess(acct[r]) /\ acct[r] \in Uid
    BY <1>4 DEF Succeed, At, ReqOK, Sending, ChatTypes
  <2>. QED BY <1>1, <2>1 DEF NoteSuccess, Update, Spotless, TypeOK, Entry
<1>5. ASSUME NEW r \in Req, Penalize(r) PROVE mem'[u] = mem[u]
  <2>1. /\ acct[r] \in Uid /\ acct[r] \in blamed /\ blamed' = blamed
        /\ Penalty(acct[r], ModelOf[r], fail[r])
    BY <1>5 DEF Penalize, At, ReqOK, Sending, ChatTypes
  <2>2. fail[r] \in Failure
    BY <2>1 DEF Penalty, Failure, NoResponse, AccountError
  <2>. QED BY <2>1, <2>2, OthersAlone
<1>6. ASSUME NEW r \in Req,
             \/ Arrive(r) \/ ReadSticky(r) \/ UsedUp(r) \/ CheckSticky(r) \/ FreshPick(r)
             \/ StoreSticky(r) \/ Admit(r) \/ RePick(r)
      PROVE  UNCHANGED poolVars
  BY <1>6 DEF Arrive, ReadSticky, UsedUp, CheckSticky, FreshPick, StoreSticky, Admit, RePick
<1>7. ASSUME NEW r \in Req,
             \/ CoolCheck(r) \/ Call(r) \/ ClearSticky(r) \/ StickySuccess(r)
             \/ Passthrough(r) \/ Unavailable(r)
      PROVE  UNCHANGED poolVars
  BY <1>7 DEF CoolCheck, Call, ClearSticky, StickySuccess, Passthrough, Unavailable
<1>. QED BY <1>2, <1>3, <1>4, <1>5, <1>6, <1>7 DEF ChatNext, Serve, allVars

\* The accounts blamed only get more.
LEMMA BlameStays == ASSUME [ChatNext]_allVars PROVE blamed \subseteq blamed'
<1>. USE DEF chatVars
<1>1. ASSUME NEW r \in Req,
             \/ Arrive(r) \/ ReadSticky(r) \/ UsedUp(r) \/ CheckSticky(r) \/ FreshPick(r)
             \/ StoreSticky(r) \/ Admit(r) \/ RePick(r)
      PROVE  blamed' = blamed
  BY <1>1 DEF Arrive, ReadSticky, UsedUp, CheckSticky, FreshPick, StoreSticky, Admit, RePick
<1>2. ASSUME NEW r \in Req,
             \/ CoolCheck(r) \/ Call(r) \/ ClearSticky(r) \/ Penalize(r) \/ Succeed(r)
             \/ StickySuccess(r) \/ Passthrough(r) \/ Unavailable(r)
      PROVE  blamed \subseteq blamed'
  BY <1>2 DEF CoolCheck, Call, ClearSticky, Penalize, Succeed, StickySuccess, Passthrough,
              Unavailable
<1>. QED BY <1>1, <1>2 DEF ChatNext, Serve, Around, allVars

(* For any number of requests and accounts, an account that has not failed on
   its own side carries no cooldown and no count (handler.go:544-600).       *)
THEOREM ClientsHarmNone == ChatSpec => []ClientErrorsHarmless
<1>. DEFINE Clean == \A u \in Uid \ blamed : mem[u] # None => Spotless(mem[u])
<1>1. ChatInit => ChatInv /\ Clean
  <2>1. Spotless(Fresh)
    BY DEF Spotless, Fresh, Load, ZeroState
  <2>. QED BY <2>1, ChatStart DEF ChatInit
<1>2. ChatInv /\ Clean /\ [ChatNext]_allVars => ChatInv' /\ Clean'
  <2>. SUFFICES ASSUME ChatInv, Clean, [ChatNext]_allVars, NEW u \in Uid \ blamed',
                       mem'[u] # None
                PROVE  Spotless(mem'[u])
    BY ChatStep DEF Spotless
  <2>. QED BY BlameStays, SpotlessStep
<1>3. Clean => ClientErrorsHarmless
  BY DEF Spotless, ClientErrorsHarmless
<1>. QED BY <1>1, <1>2, <1>3, PTL DEF ChatSpec
=============================================================================
