------------------------------ MODULE LoginFlow ------------------------------
(***************************************************************************)
(* Logins of new accounts (app.go and the login packages): the panel       *)
(* starts a login of one of three kinds, a goroutine polls for its result, *)
(* the panel may cancel it.  All share the App's login fields and one      *)
(* state file; the poller reads the fields without muLogin, the file is    *)
(* under no lock.  For TraeWork the browser calls back to a server of the  *)
(* login, which outlives a cancel and writes the state file itself.        *)
(***************************************************************************)
EXTENDS Naturals, FiniteSets

CONSTANTS
    Flow,      \* logins
    KindOf,    \* "workbuddy", "traework" or "qoder"
    MaxPolls,  \* polls before the deadline
    None

ASSUME LoginConstants ==
    /\ KindOf \in [Flow -> {"workbuddy", "traework", "qoder"}]
    /\ MaxPolls \in Nat \ {0}
    /\ None \notin Flow

VARIABLES
    busy,       \* loginBusy
    ctx,        \* loginCancel: the login it cancels
    client,     \* loginClient, by the login that made it
    kind,       \* loginKind, None for ""
    file,       \* the state file: None, or whose it is and whether a
                \* callback has put credentials into it
    fpc,        \* per login: "none", "start", "poll", "kind", "asking",
                \* "complete", "return", "over"
    asked,      \* what its poll goes by: the kind, then client and file
    polls,
    cancelled,  \* logins whose context is cancelled
    cancelling, \* a CancelLogin that has not removed the file yet
    authorised, \* logins the user completed in the browser
    accounts    \* logins whose account was saved and loaded

vars == <<busy, ctx, client, kind, file, fpc, asked, polls, cancelled,
          cancelling, authorised, accounts>>
fields == <<busy, ctx, client, kind>>
browser == <<authorised, accounts>>

Running(f) == fpc[f] \notin {"none", "over"}

Init ==
    /\ busy = FALSE /\ ctx = None /\ client = None /\ kind = None
    /\ file = None
    /\ fpc = [f \in Flow |-> "none"]
    /\ asked = [f \in Flow |-> [kind |-> KindOf[f], client |-> None, file |-> None]]
    /\ polls = [f \in Flow |-> 0]
    /\ cancelled = {} /\ cancelling = FALSE
    /\ authorised = {} /\ accounts = {}

Goto(f, p) == fpc' = [fpc EXCEPT ![f] = p]

finishLogin == busy' = FALSE /\ ctx' = None /\ client' = None /\ kind' = None

-----------------------------------------------------------------------------
\* StartLoginFor, in two parts: it takes the login fields ...
StartLogin(f) ==
    /\ fpc[f] = "none" /\ ~busy
    /\ busy' = TRUE /\ ctx' = f /\ client' = f /\ kind' = KindOf[f]
    /\ Goto(f, "start")
    /\ UNCHANGED <<file, asked, polls, cancelled, cancelling, browser>>

\* Mutant: an authorisation that cannot be asked for leaves the login busy.
RequestAuthStays(f) ==
    /\ fpc[f] = "start"
    /\ \/ /\ file' = [of |-> f, done |-> FALSE]
          /\ Goto(f, "poll") /\ UNCHANGED fields
       \/ Goto(f, "over") /\ UNCHANGED <<fields, file>>
    /\ UNCHANGED <<asked, polls, cancelled, cancelling, browser>>

\* ... and asks for an authorisation, writing the state file, which may fail;
\* WorkBuddy's needs the client, without which the request panics.
RequestAuth(f) ==
    /\ fpc[f] = "start"
    /\ \/ /\ client # None \/ KindOf[f] # "workbuddy"
          /\ file' = [of |-> f, done |-> FALSE]
          /\ Goto(f, "poll") /\ UNCHANGED fields
       \/ Goto(f, "over") /\ finishLogin /\ UNCHANGED file
       \/ /\ client = None /\ KindOf[f] = "workbuddy"
          /\ Goto(f, "over") /\ UNCHANGED <<fields, file>>
    /\ UNCHANGED <<asked, polls, cancelled, cancelling, browser>>

\* CancelLogin cancels whatever login the fields name, then removes the file.
CancelLogin ==
    /\ ctx # None /\ ~cancelling
    /\ cancelled' = cancelled \cup {ctx} /\ cancelling' = TRUE
    /\ UNCHANGED <<fields, file, fpc, asked, polls, browser>>

RemoveState ==
    /\ cancelling /\ cancelling' = FALSE /\ file' = None
    /\ UNCHANGED <<fields, fpc, asked, polls, cancelled, browser>>

-----------------------------------------------------------------------------
\* pollLogin ends when its context is cancelled or after the deadline.
GiveUp(f) ==
    /\ fpc[f] = "poll" /\ (f \in cancelled \/ polls[f] > 0)
    /\ Goto(f, "return")
    /\ UNCHANGED <<fields, file, asked, polls, cancelled, cancelling, browser>>

\* At a tick - also one that comes with the cancellation - it reads the kind
\* (here once, in the code for each comparison) ...
Tick(f) ==
    /\ fpc[f] = "poll" /\ polls[f] < MaxPolls /\ Goto(f, "kind")
    /\ polls' = [polls EXCEPT ![f] = @ + 1]
    /\ asked' = [asked EXCEPT ![f] = [kind |-> IF kind = None THEN "workbuddy" ELSE kind,
                                     client |-> None, file |-> None]]
    /\ UNCHANGED <<fields, file, cancelled, cancelling, browser>>

\* ... then client and file, and asks; with a file of another kind, which
\* fails to parse or (for TraeWork) looks pending, it does not get that far.
Poll(f) ==
    /\ fpc[f] = "kind"
    /\ IF file # None /\ KindOf[file.of] = asked[f].kind
       THEN /\ asked' = [asked EXCEPT ![f].client = client, ![f].file = file]
            /\ Goto(f, "asking")
       ELSE Goto(f, "poll") /\ UNCHANGED asked
    /\ UNCHANGED <<fields, file, polls, cancelled, cancelling, browser>>

\* Mutant: a pending login counts as granted.
GrantedAnyway(q) == q.file # None

\* TraeWork's file tells whether the user was there, the services of the
\* others do.
Granted(q) == IF KindOf[q.file.of] = "traework" THEN q.file.done
                                                ELSE q.file.of \in authorised

\* The answer: the login is complete, pending, or failed; a nil client panics
\* (for TraeWork only once there is something to ask), which is recovered.
Answered(f) ==
    /\ fpc[f] = "asking"
    /\ LET q == asked[f]
           nil == q.client = None /\ (KindOf[q.file.of] = "traework" => q.file.done)
       IN  \/ ~nil /\ Granted(q) /\ Goto(f, "complete") /\ file' = None
           \/ ~nil /\ Goto(f, "poll") /\ UNCHANGED file
           \/ nil /\ Goto(f, "return") /\ UNCHANGED file
    /\ UNCHANGED <<fields, asked, polls, cancelled, cancelling, browser>>

\* completeLogin, completeTraeLogin, completeQoderLogin: save the credentials,
\* reload, finishLogin; or return if they cannot be saved.
Complete(f) ==
    /\ fpc[f] = "complete" /\ Goto(f, "return")
    /\ \/ accounts' = accounts \cup {asked[f].file.of} /\ finishLogin
       \/ UNCHANGED <<accounts, fields>>
    /\ UNCHANGED <<file, asked, polls, cancelled, cancelling, authorised>>

\* pollLogin's deferred finishLogin, a second one after a completed login.
Return(f) ==
    /\ fpc[f] = "return" /\ Goto(f, "over") /\ finishLogin
    /\ UNCHANGED <<file, asked, polls, cancelled, cancelling, browser>>

\* The user completes a login in the browser, whatever became of it here; the
\* callback of a TraeWork login writes its own state over the file.
Authorise(f) ==
    /\ fpc[f] \notin {"none", "start"} /\ f \notin authorised
    /\ authorised' = authorised \cup {f}
    /\ file' = IF KindOf[f] = "traework" THEN [of |-> f, done |-> TRUE] ELSE file
    /\ UNCHANGED <<fields, fpc, asked, polls, cancelled, cancelling, accounts>>

Work(f) == \/ RequestAuth(f) \/ GiveUp(f) \/ Tick(f) \/ Poll(f)
           \/ Answered(f) \/ Complete(f) \/ Return(f)

Next ==
    \/ \E f \in Flow : StartLogin(f) \/ Work(f) \/ Authorise(f)
    \/ CancelLogin \/ RemoveState

Spec == Init /\ [][Next]_vars

\* Every login runs on a goroutine whose calls have a timeout of 30 s.
FairSpec == Spec /\ \A f \in Flow : WF_vars(Work(f))

-----------------------------------------------------------------------------
\* Types; what a poll was made with is there while it is needed.
TypeOK ==
    /\ busy \in BOOLEAN /\ cancelling \in BOOLEAN
    /\ ctx \in Flow \cup {None} /\ client \in Flow \cup {None}
    /\ kind \in {"workbuddy", "traework", "qoder", None}
    /\ file \in [of : Flow, done : BOOLEAN] \cup {None}
    /\ polls \in [Flow -> 0 .. MaxPolls]
    /\ cancelled \subseteq Flow /\ authorised \subseteq Flow
    /\ \A f \in Flow :
          /\ fpc[f] \in {"none", "start", "poll", "kind", "asking", "complete",
                        "return", "over"}
          /\ asked[f].client \in Flow \cup {None}
          /\ fpc[f] \in {"asking", "complete"} =>
                asked[f].file # None /\ KindOf[asked[f].file.of] = asked[f].kind

\* While a login is reported in progress it is one that is still running and
\* that can be cancelled: the panel is never locked out by a login that ended.
BusyIsRunning == busy => ctx # None /\ Running(ctx) /\ client # None

\* Accounts come only from logins the user completed, also when pollers use
\* each other's fields and state file.
OnlyAuthorised == accounts \subseteq authorised

\* Every login in progress ends, and another one may start.
LoginEnds == busy ~> ~busy

\* app.go:291: no second login starts while one is waiting for its user.
OneLogin == Cardinality({f \in Flow : fpc[f] \in {"start", "poll", "kind", "asking"}}) <= 1

\* app.go:332, 342: a login that was cancelled does not bring in its account.
CancelledStaysOut ==
    [][\A f \in cancelled : f \in accounts' => f \in accounts]_vars
=============================================================================
