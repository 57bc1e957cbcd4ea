---------------------------- MODULE ChatDispatch ----------------------------
(***************************************************************************)
(* How chat requests are routed over one channel's accounts                *)
(* (internal/server/handler.go: pickWithSticky, dispatchChat): the sticky  *)
(* record shared by all requests, the rotation over accounts on failure,   *)
(* the penalty of each kind of failure, and the answer.                    *)
(*                                                                         *)
(* Requests run concurrently.  A step of a request is what it does under   *)
(* one lock (stickyMu or the pool's) or one upstream call, so everything   *)
(* read before a step may be stale when the step is taken.                 *)
(***************************************************************************)
EXTENDS AccountPool

CONSTANTS
    Req,            \* concurrent client connections, one request at a time
    ModelOf,        \* the bare model name each connection asks for
    MaxReqs,        \* successes after which a sticky record is used up (50)
    MaxRotate,      \* attempts per request (5)
    Faults,         \* the failures upstream produces
    HardCooldown,   \* after "no credit"
    SoftCooldown    \* after a 429

\* Failures of an attempt: before a response, with a response blamed on the
\* account, and a response that refuses the request itself.
NoResponse   == {"refreshDead", "refreshFail", "transport"}
AccountError == {"hard", "soft", "softModel", "dead", "server"}
Failure      == NoResponse \cup AccountError \cup {"client"}

ASSUME ChatConstants ==
    /\ IsFiniteSet(Req)
    /\ ModelOf \in [Req -> Model]
    /\ MaxReqs \in Nat \ {0} /\ MaxRotate \in Nat \ {0}
    /\ HardCooldown \in Cooldowns /\ SoftCooldown \in Cooldowns
    /\ Faults \subseteq Failure

VARIABLES
    sticky,  \* Handler.sticky of the channel: a record or None
    pc,      \* where each request is
    acct,    \* the account it works with
    tried,   \* the accounts it has tried
    att,     \* iterations of the rotation loop it has started
    fail,    \* how its current attempt failed
    body,    \* lastBody: which attempt the kept response is of, 0 for none
    blamed   \* accounts that failed on the account's side (observed)

chatVars == <<sticky, pc, acct, tried, att, fail, body, blamed>>
poolVars == vars
allVars  == <<poolVars, chatVars>>

Place == {"idle", "pick", "check", "fresh", "store", "admit", "repick", "send",
          "call", "clear", "penalize", "ok", "count", "exhausted"}

-----------------------------------------------------------------------------
ChatInit ==
    /\ now = 1 /\ up = TRUE /\ saved = TRUE
    /\ files = Uid /\ scans = {}
    /\ mem = [u \in Uid |-> Fresh]
    /\ disk = [u \in Uid |-> None]
    /\ sticky = None
    /\ pc = [r \in Req |-> "idle"]
    /\ acct = [r \in Req |-> None]
    /\ tried = [r \in Req |-> {}]
    /\ att = [r \in Req |-> 0]
    /\ fail = [r \in Req |-> None]
    /\ body = [r \in Req |-> 0]
    /\ blamed = {}

\* Request r moves from place p to place q; what it knows stays.
At(r, p)   == pc[r] = p
Goto(r, q) == pc' = [pc EXCEPT ![r] = q]
With(r, u) == acct' = [acct EXCEPT ![r] = u]

\* dispatchChat returns: its variables are gone.
Return(r) ==
    /\ Goto(r, "idle")
    /\ acct' = [acct EXCEPT ![r] = None]
    /\ tried' = [tried EXCEPT ![r] = {}]
    /\ att' = [att EXCEPT ![r] = 0]
    /\ fail' = [fail EXCEPT ![r] = None]
    /\ body' = [body EXCEPT ![r] = 0]

Arrive(r) ==
    /\ At(r, "idle") /\ Goto(r, "pick")
    /\ UNCHANGED <<poolVars, sticky, acct, tried, att, fail, body, blamed>>

\* Mutant: a record serves one request too many.
ReadStickyLate(r) ==
    /\ At(r, "pick") /\ att[r] < MaxRotate
    /\ att' = [att EXCEPT ![r] = @ + 1]
    /\ IF sticky # None /\ sticky.count <= MaxReqs
       THEN With(r, sticky.uid) /\ Goto(r, "check")
       ELSE With(r, None) /\ Goto(r, "fresh")
    /\ UNCHANGED <<poolVars, sticky, tried, fail, body, blamed>>

\* The head of the loop and the first half of pickWithSticky: is there a
\* record that is not used up?
ReadSticky(r) ==
    /\ At(r, "pick") /\ att[r] < MaxRotate
    /\ att' = [att EXCEPT ![r] = @ + 1]
    /\ IF sticky # None /\ sticky.count < MaxReqs
       THEN With(r, sticky.uid) /\ Goto(r, "check")
       ELSE With(r, None) /\ Goto(r, "fresh")
    /\ UNCHANGED <<poolVars, sticky, tried, fail, body, blamed>>

UsedUp(r) ==
    /\ At(r, "pick") /\ att[r] >= MaxRotate
    /\ Goto(r, "exhausted")
    /\ UNCHANGED <<poolVars, sticky, acct, tried, att, fail, body, blamed>>

\* AuthByUID and Status: the sticky account is taken only if still usable.
CheckSticky(r) ==
    /\ At(r, "check")
    /\ Goto(r, IF acct[r] \in HealthyUids THEN "admit" ELSE "fresh")
    /\ UNCHANGED <<poolVars, sticky, acct, tried, att, fail, body, blamed>>

\* Pick(): no account is excluded, not even those this request has tried.
FreshPick(r) ==
    /\ At(r, "fresh")
    /\ \/ \E u \in PickChoices({}) : With(r, u) /\ Goto(r, "store")
       \/ HealthyUids = {} /\ Goto(r, "exhausted") /\ UNCHANGED acct
    /\ UNCHANGED <<poolVars, sticky, tried, att, fail, body, blamed>>

StoreSticky(r) ==
    /\ At(r, "store") /\ Goto(r, "admit")
    /\ sticky' = [uid |-> acct[r], count |-> 0]
    /\ UNCHANGED <<poolVars, acct, tried, att, fail, body, blamed>>

\* Mutant: an account already tried spends the attempt.
AdmitSpends(r) ==
    /\ At(r, "admit")
    /\ IF acct[r] \in tried[r]
       THEN sticky' = None /\ Goto(r, "pick") /\ UNCHANGED tried
       ELSE /\ tried' = [tried EXCEPT ![r] = @ \cup {acct[r]}]
            /\ Goto(r, "send") /\ UNCHANGED sticky
    /\ UNCHANGED <<poolVars, acct, att, fail, body, blamed>>

\* An account this request has tried clears the record and is replaced.
Admit(r) ==
    /\ At(r, "admit")
    /\ IF acct[r] \in tried[r]
       THEN sticky' = None /\ Goto(r, "repick") /\ UNCHANGED tried
       ELSE /\ tried' = [tried EXCEPT ![r] = @ \cup {acct[r]}]
            /\ Goto(r, "send") /\ UNCHANGED sticky
    /\ UNCHANGED <<poolVars, acct, att, fail, body, blamed>>

RePickWaits(r) ==
    /\ At(r, "repick")
    /\ \E u \in PickChoices(tried[r]) :
          /\ With(r, u) /\ Goto(r, "send")
          /\ tried' = [tried EXCEPT ![r] = @ \cup {u}]
    /\ UNCHANGED <<poolVars, sticky, att, fail, body, blamed>>

\* PickExcluding(tried); the account found is not made sticky.
RePick(r) ==
    /\ At(r, "repick")
    /\ \/ \E u \in PickChoices(tried[r]) :
             /\ With(r, u) /\ Goto(r, "send")
             /\ tried' = [tried EXCEPT ![r] = @ \cup {u}]
       \/ /\ HealthyUids \subseteq tried[r]
          /\ Goto(r, "exhausted") /\ UNCHANGED <<acct, tried>>
    /\ UNCHANGED <<poolVars, sticky, att, fail, body, blamed>>

\* A model cooled on this account spends the attempt; the record is kept.
CoolCheck(r) ==
    /\ At(r, "send")
    /\ IF CooledForModel(acct[r], ModelOf[r])
       THEN Goto(r, "pick") /\ With(r, None)
       ELSE Goto(r, "call") /\ UNCHANGED acct
    /\ UNCHANGED <<poolVars, sticky, tried, att, fail, body, blamed>>

\* RefreshToken if the token is about to expire, ChatStream, and the wait
\* for the first content: a stall or a broken stream counts as transport.
Call(r) ==
    /\ At(r, "call")
    /\ \/ Goto(r, "ok") /\ UNCHANGED <<fail, blamed>>
       \/ \E k \in Faults :
             /\ fail' = [fail EXCEPT ![r] = k] /\ Goto(r, "clear")
             /\ blamed' = IF k = "client" THEN blamed
                          ELSE blamed \cup {acct[r]}
    /\ UNCHANGED <<poolVars, sticky, acct, tried, att, body>>

\* Mutant: a refused request is charged to the account.
ClearStickyCharges(r) ==
    /\ At(r, "clear")
    /\ sticky' = None
    /\ IF fail[r] = "client"
       THEN Return(r) /\ NoteError(acct[r])
       ELSE /\ Goto(r, "penalize")
            /\ UNCHANGED <<poolVars, acct, tried, att, fail, body>>
    /\ UNCHANGED blamed

\* stickyClear drops whatever record is there now.
ClearSticky(r) ==
    /\ At(r, "clear")
    /\ sticky' = None
    /\ IF fail[r] = "client"
       THEN Return(r)
       ELSE Goto(r, "penalize") /\ UNCHANGED <<acct, tried, att, fail, body>>
    /\ UNCHANGED <<poolVars, blamed>>

\* The penalty of each failure.
Penalty(u, m, k) ==
    \/ k = "refreshFail" /\ Cooldown(u, ErrCooldown)
    \/ k \in {"refreshDead", "dead"} /\ NoteSessionDead(u)
    \/ k \in {"transport", "server"} /\ NoteError(u)
    \/ k = "hard" /\ Cooldown(u, HardCooldown)
    \/ k = "soft" /\ Cooldown(u, SoftCooldown)
    \/ /\ k = "softModel"
       /\ \E d \in ResetDelays : CooldownSoftForModel(u, m, now + d)

\* A dead session at refresh that does not disable the account cools it too.
Penalize(r) ==
    /\ At(r, "penalize")
    /\ Penalty(acct[r], ModelOf[r], fail[r])
    /\ IF fail[r] = "refreshDead" /\ ~ReachesDead(acct[r])
       THEN fail' = [fail EXCEPT ![r] = "refreshFail"] /\ UNCHANGED <<pc, acct>>
       ELSE Goto(r, "pick") /\ With(r, None) /\ fail' = [fail EXCEPT ![r] = None]
    /\ body' = IF fail[r] \in AccountError
               THEN [body EXCEPT ![r] = att[r]] ELSE body
    /\ UNCHANGED <<sticky, tried, att, blamed>>

\* NoteSuccess, then stickySuccess on whatever record is there now; the
\* stream is handed to the client.
Succeed(r) ==
    /\ At(r, "ok") /\ Goto(r, "count")
    /\ NoteSuccess(acct[r])
    /\ UNCHANGED <<sticky, acct, tried, att, fail, body, blamed>>

StickySuccess(r) ==
    /\ At(r, "count") /\ Return(r)
    /\ sticky' = IF sticky = None THEN None
                 ELSE [sticky EXCEPT !.count = @ + 1]
    /\ UNCHANGED <<poolVars, blamed>>

\* The kept response of an attempt, or 503.
Passthrough(r) ==
    /\ At(r, "exhausted") /\ body[r] # 0 /\ Return(r)
    /\ UNCHANGED <<poolVars, sticky, blamed>>

Unavailable(r) ==
    /\ At(r, "exhausted") /\ body[r] = 0 /\ Return(r)
    /\ UNCHANGED <<poolVars, sticky, blamed>>

-----------------------------------------------------------------------------
\* Around the requests: time, the operator, and an account's removal.
Around ==
    /\ \/ Tick
       \/ \E u \in Uid : Remove(u) \/ \E d \in BOOLEAN : SetDisabled(u, d)
    /\ UNCHANGED chatVars

\* What a request does once it has arrived.
Serve(r) ==
    \/ ReadSticky(r) \/ UsedUp(r) \/ CheckSticky(r) \/ FreshPick(r)
    \/ StoreSticky(r) \/ Admit(r) \/ RePick(r) \/ CoolCheck(r) \/ Call(r)
    \/ ClearSticky(r) \/ Penalize(r) \/ Succeed(r) \/ StickySuccess(r)
    \/ Passthrough(r) \/ Unavailable(r)

ChatNext == Around \/ \E r \in Req : Arrive(r) \/ Serve(r)

ChatSpec == ChatInit /\ [][ChatNext]_allVars

\* Each request runs on its goroutine, every upstream call is bounded by a
\* timeout and no lock is held across one.
FairChatSpec == ChatSpec /\ \A r \in Req : WF_allVars(Serve(r))

-----------------------------------------------------------------------------
\* Types; an attempt has been spent for every account tried, and the pool's
\* own invariant holds under the handler's calls.
ChatTypeOK ==
    /\ TypeOK
    /\ sticky = None \/ (sticky.uid \in Uid /\ sticky.count \in Nat)
    /\ pc \in [Req -> Place]
    /\ acct \in [Req -> Uid \cup {None}]
    /\ tried \in [Req -> SUBSET Uid]
    /\ att \in [Req -> 0..MaxRotate]
    /\ fail \in [Req -> Failure \cup {None}]
    /\ body \in [Req -> 0..MaxRotate]
    /\ blamed \in SUBSET Uid
    /\ \A r \in Req : pc[r] \in {"send", "call", "clear", "penalize"} =>
          Cardinality(tried[r]) = att[r] /\ acct[r] \in tried[r]

\* The count is read, and incremented much later, without a lock in between:
\* a record may serve more than MaxReqs requests, but never more extra ones
\* than there are requests in flight besides the last admitted.
StickyOverrun ==
    sticky # None => sticky.count <= MaxReqs - 1 + Cardinality(Req)

\* An account that never failed on its own side is never punished: requests
\* the upstream refuses for what the client sent cool or disable nothing, and
\* no failure is charged to an account another request is using.
ClientErrorsHarmless ==
    \A u \in Uid \ blamed : mem[u] # None =>
        /\ mem[u].until = 0 /\ mem[u].errCount = 0 /\ mem[u].dead = 0
        /\ \A m \in Model : mem[u].modelCool[m] = 0

\* A request is given up only when it has used its attempts or when no
\* healthy account is left that it has not tried: neither the sticky record
\* other requests rewrite nor an account picked twice makes it miss one.
GivesUpLast ==
    [][\A r \in Req : pc[r] # "exhausted" /\ pc'[r] = "exhausted" =>
          \/ HealthyUids \subseteq tried[r]
          \/ Cardinality(tried[r]) = MaxRotate]_allVars

\* Every request gets an answer: the stream, the upstream's error, or 503.
EveryRequestAnswered == \A r \in Req : pc[r] # "idle" ~> pc[r] = "idle"

\* handler.go:608: the kept response is passed through when the rotation is
\* exhausted and the last failure was an upstream one.
PassthroughIsLast ==
    [][\A r \in Req : Passthrough(r) =>
          body[r] = Cardinality(tried[r])]_allVars

\* handler.go:66: after maxReqs requests in a row the account is changed (if
\* there is another healthy one).
RotatesAfterMax ==
    [][\A r \in Req : StoreSticky(r) /\ sticky # None =>
          \/ sticky.count < MaxReqs
          \/ sticky'.uid # sticky.uid
          \/ HealthyUids \subseteq {sticky.uid}]_allVars

\* DEVELOPMENT.md:226: reqCount counts the successful requests in a row of
\* the account in the record.
CountsOwnSuccesses ==
    [][\A r \in Req : StickySuccess(r) /\ sticky # None =>
          sticky.uid = acct[r]]_allVars
=============================================================================
