----------------------------- MODULE LoginProofs ----------------------------
(***************************************************************************)
(* Theorems about LoginFlow, for any number of logins of any kinds that    *)
(* poll any number of times.                                               *)
(***************************************************************************)
EXTENDS LoginFlow, TLAPS

Kinds == {"workbuddy", "traework", "qoder"}
Place == {"none", "start", "poll", "kind", "asking", "complete", "return", "over"}
File  == [of : Flow, done : BOOLEAN]
Query == [kind : Kinds, client : Flow \cup {None}, file : File \cup {None}]

\* The types of the login fields and of what belongs to single logins.
Fields ==
    /\ busy \in BOOLEAN /\ cancelling \in BOOLEAN
    /\ ctx \in Flow \cup {None} /\ client \in Flow \cup {None}
    /\ kind \in Kinds \cup {None}
    /\ file \in File \cup {None}
    /\ cancelled \subseteq Flow /\ authorised \subseteq Flow
Logins ==
    /\ fpc \in [Flow -> Place]
    /\ asked \in [Flow -> Query]
    /\ polls \in [Flow -> 0 .. MaxPolls]

\* A poll under way, or one that was answered, goes by a state file of the
\* kind it was told to poll.
Polled(f) == asked[f].file # None /\ KindOf[asked[f].file.of] = asked[f].kind
Polls == \A f \in Flow : fpc[f] \in {"asking", "complete"} => Polled(f)

Shape == Fields /\ Logins /\ Polls

LEMMA ShapeIsType == Shape => TypeOK
BY DEF Shape, Fields, Logins, Polls, Polled, TypeOK, Place, Query, File, Kinds

\* Moving one login leaves the others where they are.
LEMMA GotoMoves ==
    ASSUME fpc \in [Flow -> Place], NEW f \in Flow, NEW p \in Place, Goto(f, p)
    PROVE  /\ fpc' \in [Flow -> Place]
           /\ fpc'[f] = p
           /\ \A g \in Flow : g # f => fpc'[g] = fpc[g]
BY DEF Goto

\* A login that moves anywhere but to "asking" or, unless it was there, to
\* "complete", leaves the polls as they are if it leaves the queries alone.
LEMMA PollsKept ==
    ASSUME Logins, Polls, NEW f \in Flow, NEW p \in Place, Goto(f, p),
           asked' = asked,
           p # "asking",
           p = "complete" => fpc[f] = "asking"
    PROVE  Polls'
BY GotoMoves DEF Logins, Polls, Polled

-----------------------------------------------------------------------------
\* The types, with those of the functions TypeOK looks into, are inductive.
LEMMA Shaped == Spec => []Shape
<1>1. Init => Shape
  <2> SUFFICES ASSUME Init PROVE Shape
    OBVIOUS
  <2>1. asked \in [Flow -> Query] /\ polls \in [Flow -> 0 .. MaxPolls]
    BY LoginConstants DEF Init, Query, Kinds
  <2>2. QED
    BY <2>1 DEF Init, Shape, Fields, Logins, Polls, Place
<1>2. Shape /\ [Next]_vars => Shape'
  <2> SUFFICES ASSUME Shape, [Next]_vars PROVE Shape'
    OBVIOUS
  <2> USE LoginConstants
  <2>0. Fields /\ Logins /\ Polls
    BY DEF Shape
  <2>1. ASSUME NEW f \in Flow, StartLogin(f) PROVE Shape'
    <3>1. Fields'
      <4>1. KindOf[f] \in Kinds
        BY DEF Kinds
      <4>2. QED
        BY <2>0, <2>1, <4>1 DEF StartLogin, Fields, browser
    <3>2. Logins' /\ Polls'
      BY <2>0, <2>1, GotoMoves, PollsKept DEF StartLogin, Logins, Place
    <3>3. QED
      BY <3>1, <3>2 DEF Shape
  <2>2. ASSUME NEW f \in Flow, RequestAuth(f) PROVE Shape'
    <3>1. Fields'
      <4>1. [of |-> f, done |-> FALSE] \in File
        BY DEF File
      <4>2. file' \in File \cup {None}
        BY <2>0, <2>2, <4>1 DEF RequestAuth, Fields
      <4>3. UNCHANGED fields \/ finishLogin
        BY <2>2 DEF RequestAuth
      <4>4. UNCHANGED <<cancelled, cancelling, authorised>>
        BY <2>2 DEF RequestAuth, browser
      <4>5. QED
        BY <2>0, <4>2, <4>3, <4>4 DEF Fields, fields, finishLogin
    <3>2. Logins' /\ Polls'
      BY <2>0, <2>2, GotoMoves, PollsKept DEF RequestAuth, Logins, Place
    <3>3. QED
      BY <3>1, <3>2 DEF Shape
  <2>3. ASSUME CancelLogin PROVE Shape'
    BY <2>0, <2>3 DEF CancelLogin, Shape, Fields, Logins, Polls, Polled, fields, browser
  <2>4. ASSUME RemoveState PROVE Shape'
    BY <2>0, <2>4 DEF RemoveState, Shape, Fields, Logins, Polls, Polled, fields, browser
  <2>5. ASSUME NEW f \in Flow, GiveUp(f) PROVE Shape'
    <3>1. Fields'
      BY <2>0, <2>5 DEF GiveUp, Fields, fields, browser
    <3>2. Logins' /\ Polls'
      BY <2>0, <2>5, GotoMoves, PollsKept DEF GiveUp, Logins, Place
    <3>3. QED
      BY <3>1, <3>2 DEF Shape
  <2>6. ASSUME NEW f \in Flow, Tick(f) PROVE Shape'
    <3>1. Fields'
      BY <2>0, <2>6 DEF Tick, Fields, fields, browser
    <3>2. fpc' \in [Flow -> Place] /\ fpc'[f] = "kind"
          /\ \A g \in Flow : g # f => fpc'[g] = fpc[g]
      BY <2>0, <2>6, GotoMoves DEF Tick, Logins, Place
    <3>3. PICK q \in Query : asked' = [asked EXCEPT ![f] = q]
      <4> DEFINE k == IF kind = None THEN "workbuddy" ELSE kind
      <4>1. k \in Kinds
        BY <2>0 DEF Fields, Kinds
      <4>2. [kind |-> k, client |-> None, file |-> None] \in Query
        BY <4>1 DEF Query
      <4>3. asked' = [asked EXCEPT ![f] = [kind |-> k, client |-> None, file |-> None]]
        BY <2>6 DEF Tick
      <4>4. QED
        BY <4>2, <4>3
    <3>4. polls' \in [Flow -> 0 .. MaxPolls]
      BY <2>0, <2>6 DEF Tick, Logins
    <3>5. Polls'
      BY <2>0, <3>2, <3>3 DEF Logins, Polls, Polled
    <3>6. QED
      BY <2>0, <3>1, <3>2, <3>3, <3>4, <3>5 DEF Shape, Logins
  <2>7. ASSUME NEW f \in Flow, Poll(f) PROVE Shape'
    <3>1. Fields'
      BY <2>0, <2>7 DEF Poll, Fields, fields, browser
    <3>2. CASE file # None /\ KindOf[file.of] = asked[f].kind
      <4>1. asked' = [asked EXCEPT ![f].client = client, ![f].file = file]
            /\ Goto(f, "asking") /\ polls' = polls
        BY <2>7, <3>2 DEF Poll
      <4>2. fpc' \in [Flow -> Place]
            /\ \A g \in Flow : g # f => fpc'[g] = fpc[g]
        BY <2>0, <4>1, GotoMoves DEF Logins, Place
      <4>3. asked' \in [Flow -> Query]
        <5>1. asked[f] \in Query /\ client \in Flow \cup {None} /\ file \in File \cup {None}
          BY <2>0 DEF Logins, Fields
        <5>2. [asked[f] EXCEPT !.client = client, !.file = file] \in Query
          BY <5>1 DEF Query
        <5>3. asked' = [asked EXCEPT ![f] = [asked[f] EXCEPT !.client = client, !.file = file]]
          BY <2>0, <4>1 DEF Logins
        <5>4. QED
          BY <2>0, <5>2, <5>3 DEF Logins
      <4>4. /\ asked'[f].file = file /\ asked'[f].kind = asked[f].kind
            /\ \A g \in Flow : g # f => asked'[g] = asked[g]
        BY <2>0, <4>1 DEF Logins, Query
      <4>5. Polls'
        BY <2>0, <3>2, <4>2, <4>4 DEF Polls, Polled
      <4>6. QED
        BY <2>0, <3>1, <4>1, <4>2, <4>3, <4>5 DEF Shape, Logins
    <3>3. CASE ~(file # None /\ KindOf[file.of] = asked[f].kind)
      <4>1. Goto(f, "poll") /\ asked' = asked /\ polls' = polls
        BY <2>7, <3>3 DEF Poll
      <4>2. Logins' /\ Polls'
        BY <2>0, <4>1, GotoMoves, PollsKept DEF Logins, Place
      <4>3. QED
        BY <3>1, <4>2 DEF Shape
    <3>4. QED
      BY <3>2, <3>3
  <2>8. ASSUME NEW f \in Flow, Answered(f) PROVE Shape'
    <3>1. Fields'
      BY <2>0, <2>8 DEF Answered, Fields, fields, browser
    <3>2. Logins' /\ Polls'
      BY <2>0, <2>8, GotoMoves, PollsKept DEF Answered, Logins, Place
    <3>3. QED
      BY <3>1, <3>2 DEF Shape
  <2>9. ASSUME NEW f \in Flow, Complete(f) PROVE Shape'
    <3>1. Fields'
      BY <2>0, <2>9 DEF Complete, Fields, finishLogin, fields
    <3>2. Logins' /\ Polls'
      BY <2>0, <2>9, GotoMoves, PollsKept DEF Complete, Logins, Place
    <3>3. QED
      BY <3>1, <3>2 DEF Shape
  <2>10. ASSUME NEW f \in Flow, Return(f) PROVE Shape'
    <3>1. Fields'
      BY <2>0, <2>10 DEF Return, Fields, finishLogin, browser
    <3>2. Logins' /\ Polls'
      BY <2>0, <2>10, GotoMoves, PollsKept DEF Return, Logins, Place
    <3>3. QED
      BY <3>1, <3>2 DEF Shape
  <2>11. ASSUME NEW f \in Flow, Authorise(f) PROVE Shape'
    <3>1. Fields'
      BY <2>0, <2>11 DEF Authorise, Fields, File, fields
    <3>2. QED
      BY <2>0, <2>11, <3>1 DEF Authorise, Shape, Logins, Polls, Polled
  <2>12. CASE UNCHANGED vars
    BY <2>0, <2>12 DEF vars, Shape, Fields, Logins, Polls, Polled
  <2>13. QED
    BY <2>1, <2>2, <2>3, <2>4, <2>5, <2>6, <2>7, <2>8, <2>9, <2>10, <2>11, <2>12
       DEF Next, Work
<1>3. QED
  BY <1>1, <1>2, PTL DEF Spec

\* Type correctness: pollers of any kinds that read each other's fields and
\* file never go on with a state file of another kind than they ask about.
THEOREM TypeCorrect == Spec => []TypeOK
BY Shaped, ShapeIsType, PTL

-----------------------------------------------------------------------------
\* Whatever the panel reports as in progress runs and can be cancelled: every
\* way out of a login wipes the fields, or finds that another login's end has
\* wiped them, and only a start fills them again.
THEOREM BusyRuns == Spec => []BusyIsRunning
<1>1. Init => BusyIsRunning
  BY DEF Init, BusyIsRunning
<1>2. Shape /\ BusyIsRunning /\ [Next]_vars => BusyIsRunning'
  <2> SUFFICES ASSUME Shape, BusyIsRunning, [Next]_vars PROVE BusyIsRunning'
    OBVIOUS
  <2>1. /\ fpc \in [Flow -> Place] /\ None \notin Flow
        /\ ctx \in Flow \cup {None}
    BY LoginConstants DEF Shape, Fields, Logins
  <2>2. ASSUME NEW f \in Flow, NEW p \in Place \ {"none", "over"}, Goto(f, p),
               UNCHANGED fields
        PROVE  BusyIsRunning'
    <3>1. \A g \in Flow : Running(g) => Running(g)'
      BY <2>1, <2>2, GotoMoves DEF Running, Place
    <3>2. QED
      BY <2>1, <2>2, <3>1 DEF BusyIsRunning, fields
  <2>3. finishLogin => BusyIsRunning'
    BY DEF finishLogin, BusyIsRunning
  <2>4. UNCHANGED <<fields, fpc>> => BusyIsRunning'
    BY DEF fields, BusyIsRunning, Running
  <2>5. ASSUME NEW f \in Flow, StartLogin(f) PROVE BusyIsRunning'
    <3>1. ctx' = f /\ client' = f /\ fpc'[f] = "start"
      BY <2>1, <2>5, GotoMoves DEF StartLogin, Place
    <3>2. QED
      BY <2>1, <3>1 DEF BusyIsRunning, Running
  <2>6. ASSUME NEW f \in Flow, RequestAuth(f) PROVE BusyIsRunning'
    <3>1. CASE Goto(f, "poll") /\ UNCHANGED fields
      BY <2>2, <3>1 DEF Place
    <3>2. CASE finishLogin
      BY <2>3, <3>2
    <3>3. CASE client = None /\ UNCHANGED fields
      BY <3>3 DEF BusyIsRunning, fields
    <3>4. QED
      BY <2>6, <3>1, <3>2, <3>3 DEF RequestAuth
  <2>7. ASSUME NEW f \in Flow,
               GiveUp(f) \/ Tick(f) \/ Poll(f) \/ Answered(f)
        PROVE  BusyIsRunning'
    <3>1. UNCHANGED fields
      BY <2>7 DEF GiveUp, Tick, Poll, Answered
    <3>2. \E p \in {"poll", "kind", "asking", "complete", "return"} : Goto(f, p)
      BY <2>7 DEF GiveUp, Tick, Poll, Answered
    <3>3. QED
      BY <2>2, <3>1, <3>2 DEF Place
  <2>8. ASSUME NEW f \in Flow, Complete(f) PROVE BusyIsRunning'
    <3>1. CASE finishLogin
      BY <2>3, <3>1
    <3>2. CASE Goto(f, "return") /\ UNCHANGED fields
      BY <2>2, <3>2 DEF Place
    <3>3. QED
      BY <2>8, <3>1, <3>2 DEF Complete
  <2>9. ASSUME NEW f \in Flow, Return(f) PROVE BusyIsRunning'
    BY <2>3, <2>9 DEF Return
  <2>10. CancelLogin \/ RemoveState \/ (\E f \in Flow : Authorise(f)) \/ UNCHANGED vars
         => UNCHANGED <<fields, fpc>>
    BY DEF CancelLogin, RemoveState, Authorise, vars, fields
  <2>11. QED
    BY <2>4, <2>5, <2>6, <2>7, <2>8, <2>9, <2>10 DEF Next, Work
<1>3. QED
  BY <1>1, <1>2, Shaped, PTL DEF Spec

-----------------------------------------------------------------------------
\* A state file that holds credentials has them from the browser.
Earned(x)  == x # None /\ x.done => x.of \in authorised
Asking(f)  == fpc[f] = "asking" => Earned(asked[f].file)
Granting(f) == fpc[f] = "complete" => asked[f].file.of \in authorised

\* Accounts come only from logins their user completed, although pollers take
\* over each other's kind, client and state file, and a callback may write
\* over the file of a later login.
THEOREM AuthorisedOnly == Spec => []OnlyAuthorised
<1> DEFINE Inv == /\ OnlyAuthorised /\ Earned(file)
                  /\ \A f \in Flow : Asking(f) /\ Granting(f)
<1>1. Init => Inv
  BY DEF Init, OnlyAuthorised, Earned, Asking, Granting
<1>2. Shape /\ Inv /\ [Next]_vars => Inv'
  <2> SUFFICES ASSUME Shape, Inv, [Next]_vars PROVE Inv'
    OBVIOUS
  <2>1. fpc \in [Flow -> Place] /\ asked \in [Flow -> Query] /\ file \in File \cup {None}
    BY DEF Shape, Fields, Logins
  \* What a step may do that disturbs nothing: it moves a login to a place
  \* without a poll, and keeps the file, removes it or starts a new one.
  <2>2. ASSUME NEW f \in Flow, NEW p \in Place \ {"asking", "complete"}, Goto(f, p),
               \A g \in Flow : g # f => asked'[g] = asked[g],
               UNCHANGED browser,
               \/ file' \in {file, None}
               \/ file' = [of |-> f, done |-> FALSE]
        PROVE  Inv'
    <3>1. \A g \in Flow : /\ fpc'[g] \in {"asking", "complete"} => g # f
                          /\ g # f => fpc'[g] = fpc[g]
      BY <2>1, <2>2, GotoMoves
    <3>2. \A g \in Flow : Asking(g)' /\ Granting(g)'
      BY <2>2, <3>1 DEF Asking, Granting, Earned, browser
    <3>3. Earned(file)' /\ OnlyAuthorised'
      BY <2>2 DEF Earned, OnlyAuthorised, browser
    <3>4. QED
      BY <3>2, <3>3
  <2>3. ASSUME NEW f \in Flow, StartLogin(f) \/ RequestAuth(f) \/ GiveUp(f) \/ Return(f)
        PROVE  Inv'
    BY <2>2, <2>3 DEF StartLogin, RequestAuth, GiveUp, Return, Place
  <2>4. ASSUME NEW f \in Flow, Tick(f) PROVE Inv'
    <3>1. \A g \in Flow : g # f => asked'[g] = asked[g]
      BY <2>1, <2>4 DEF Tick
    <3>2. QED
      BY <2>2, <2>4, <3>1 DEF Tick, Place
  <2>5. ASSUME NEW f \in Flow, Poll(f) PROVE Inv'
    <3>1. CASE Goto(f, "poll") /\ UNCHANGED asked
      BY <2>2, <2>5, <3>1 DEF Poll, Place
    <3>2. CASE Goto(f, "asking") /\ asked' = [asked EXCEPT ![f].client = client, ![f].file = file]
      <4>1. UNCHANGED <<authorised, accounts, file>>
        BY <2>5 DEF Poll, browser
      <4>2. /\ fpc'[f] = "asking"
            /\ \A g \in Flow : g # f => fpc'[g] = fpc[g] /\ asked'[g] = asked[g]
        BY <2>1, <3>2, GotoMoves DEF Place
      <4>3. asked'[f].file = file
        BY <2>1, <3>2 DEF Query
      <4>4. \A g \in Flow : Asking(g)' /\ Granting(g)'
        BY <4>1, <4>2, <4>3 DEF Asking, Granting, Earned
      <4>5. QED
        BY <4>1, <4>4 DEF Earned, OnlyAuthorised
    <3>3. QED
      BY <2>5, <3>1, <3>2 DEF Poll
  <2>6. ASSUME NEW f \in Flow, Answered(f) PROVE Inv'
    <3>1. CASE Goto(f, "complete") /\ Granted(asked[f]) /\ file' = None
      <4>1. asked[f].file # None /\ Asking(f) /\ fpc[f] = "asking"
        BY <2>6 DEF Answered, Shape, Polls, Polled
      <4>2. asked[f].file.of \in authorised
        BY <3>1, <4>1 DEF Granted, Asking, Earned
      <4>3. /\ fpc'[f] = "complete"
            /\ \A g \in Flow : g # f => fpc'[g] = fpc[g]
        BY <2>1, <3>1, GotoMoves DEF Place
      <4>4. UNCHANGED <<authorised, accounts, asked>>
        BY <2>6 DEF Answered, browser
      <4>5. \A g \in Flow : Asking(g)' /\ Granting(g)'
        BY <4>2, <4>3, <4>4 DEF Asking, Granting, Earned
      <4>6. QED
        BY <3>1, <4>4, <4>5 DEF Earned, OnlyAuthorised
    <3>2. CASE (Goto(f, "poll") \/ Goto(f, "return")) /\ UNCHANGED file
      BY <2>2, <2>6, <3>2 DEF Answered, Place
    <3>3. QED
      BY <2>6, <3>1, <3>2 DEF Answered
  <2>7. ASSUME NEW f \in Flow, Complete(f) PROVE Inv'
    <3>1. asked[f].file.of \in authorised
      BY <2>7 DEF Complete, Granting
    <3>2. UNCHANGED <<file, asked, authorised>> /\ Goto(f, "return")
      BY <2>7 DEF Complete
    <3>3. accounts' \subseteq authorised'
      BY <2>7, <3>1, <3>2 DEF Complete, OnlyAuthorised
    <3>4. \A g \in Flow : fpc'[g] \in {"asking", "complete"} => fpc'[g] = fpc[g]
      BY <2>1, <3>2, GotoMoves DEF Place
    <3>5. QED
      BY <3>2, <3>3, <3>4 DEF Asking, Granting, Earned, OnlyAuthorised
  <2>8. ASSUME NEW f \in Flow, Authorise(f) PROVE Inv'
    <3>1. UNCHANGED <<fpc, asked, accounts>> /\ authorised' = authorised \cup {f}
      BY <2>8 DEF Authorise
    <3>2. Earned(file)'
      BY <2>8, <3>1 DEF Authorise, Earned
    <3>3. QED
      BY <3>1, <3>2 DEF Asking, Granting, Earned, OnlyAuthorised
  <2>9. ASSUME \/ CancelLogin \/ RemoveState \/ UNCHANGED vars PROVE Inv'
    <3>1. UNCHANGED <<fpc, asked, authorised, accounts>> /\ file' \in {file, None}
      BY <2>9 DEF CancelLogin, RemoveState, vars, browser
    <3>2. QED
      BY <3>1 DEF Asking, Granting, Earned, OnlyAuthorised
  <2>10. QED
    BY <2>3, <2>4, <2>5, <2>6, <2>7, <2>8, <2>9 DEF Next, Work
<1>3. QED
  BY <1>1, <1>2, Shaped, PTL DEF Spec
=============================================================================
