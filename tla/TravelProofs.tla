----------------------------- MODULE TravelProofs ---------------------------
(***************************************************************************)
(* Theorems about TravelTasks, for any accounts and any number of runs,    *)
(* each started any number of times, with or without lost answers.         *)
(***************************************************************************)
EXTENDS TravelTasks, TLAPS

Place == {"idle", "next", "look", "report", "adopt", "claim", "depart", "bump",
          "read", "write", "tell"}
Trips == {"idle", "limit", "traveling", "arrived"}

\* The types of what is shared ...
Accounts ==
    /\ rev \in [Uid -> Nat] /\ spent \in [Uid -> 0 .. MaxSpends] /\ paid \in Nat
    /\ rewarded \in [Uid -> Nat]
Shared ==
    /\ cat \subseteq Uid /\ chatty \subseteq Uid /\ tried \subseteq Uid
    /\ trip \in [Uid -> Trips]
    /\ Accounts /\ shown \in [Uid -> Nat] /\ written \in [Mutex -> [Uid -> Nat]]
    /\ counters \in [Move -> Nat]
    /\ holder \in [Mutex -> Run \cup {None}]
    /\ starts \in 0 .. MaxStarts

\* ... and of what is each run's own; a run works on an account wherever it
\* does anything, and only a travel run looks, claims or departs.
Own ==
    /\ pc \in [Run -> Place]
    /\ cur \in [Run -> Uid \cup {None}] /\ todo \in [Run -> SUBSET Uid]
    /\ got \in [Run -> Nat]
    /\ did \in [Run -> Move \cup {None}] /\ event \in [Run -> Move \cup {None}]
Placed(r) ==
    /\ pc[r] \notin {"idle", "next"} => cur[r] \in Uid
    /\ pc[r] \in {"look", "claim", "depart"} => Kind(r, "travel")

\* A mutex is held by the run of its kind that is not idle.
Held(r) == Locks(r) => (pc[r] # "idle" <=> holder[KindOf[r]] = r)

Shape == Shared /\ Own /\ \A r \in Run : Placed(r) /\ Held(r)

LEMMA ShapeIsType == Shape => TypeOK
BY DEF Shape, Shared, Own, Accounts, Held, Locks, TypeOK, Place, Trips, Kind, At

\* Moving one run leaves the others where they are.
LEMMA GotoMoves ==
    ASSUME pc \in [Run -> Place], NEW r \in Run, NEW p \in Place, Goto(r, p)
    PROVE  /\ pc' \in [Run -> Place]
           /\ pc'[r] = p
           /\ \A q \in Run : q # r => pc'[q] = pc[q]
BY DEF Goto

\* A run that moves between places it holds its mutex at leaves the mutexes
\* as they are, and keeps to its places.
LEMMA WorkKeeps ==
    ASSUME Own, \A q \in Run : Placed(q) /\ Held(q),
           NEW r \in Run, NEW p \in Place \ {"idle"}, Goto(r, p),
           pc[r] # "idle", UNCHANGED holder,
           \A q \in Run : q # r => cur'[q] = cur[q],
           p # "next" => cur'[r] \in Uid,
           p \in {"look", "claim", "depart"} => Kind(r, "travel")
    PROVE  \A q \in Run : Placed(q)' /\ Held(q)'
<1>1. /\ pc'[r] = p
      /\ \A q \in Run : q # r => pc'[q] = pc[q]
  BY GotoMoves DEF Own
<1>2. ASSUME NEW q \in Run PROVE Placed(q)'
  BY <1>1, <1>2 DEF Placed, Kind
<1>3. ASSUME NEW q \in Run PROVE Held(q)'
  BY <1>1, <1>3 DEF Held, Kind, Locks
<1>4. QED
  BY <1>2, <1>3

-----------------------------------------------------------------------------
\* The types, the places and the mutexes are inductive together.
LEMMA Shaped == Spec => []Shape
<1> USE TravelConstants
<1>1. Init => Shape
  <2> SUFFICES ASSUME Init PROVE Shape
    OBVIOUS
  <2>1. Shared
    BY DEF Init, Shared, Accounts, Trips, Mutex
  <2>2. Own
    BY DEF Init, Own, Place
  <2>3. ASSUME NEW r \in Run PROVE Placed(r) /\ Held(r)
    BY <2>3 DEF Init, Placed, Held, Kind, Locks, Mutex
  <2>4. QED
    BY <2>1, <2>2, <2>3 DEF Shape
<1>2. Shape /\ [Next]_vars => Shape'
  <2> SUFFICES ASSUME Shape, [Next]_vars PROVE Shape'
    OBVIOUS
  <2>0. Shared /\ Own /\ \A q \in Run : Placed(q) /\ Held(q)
    BY DEF Shape
  <2>1. ASSUME NEW r \in Run, Start(r) PROVE Shape'
    <3>1. Own' /\ starts' \in 0 .. MaxStarts
      <4>1. pc' \in [Run -> Place]
        BY <2>0, <2>1 DEF Start, Own, Goto, Place
      <4>2. todo' \in [Run -> SUBSET Uid]
        BY <2>0, <2>1 DEF Start, Own
      <4>3. starts' \in 0 .. MaxStarts
        BY <2>0, <2>1 DEF Start, Shared
      <4>4. QED
        BY <2>0, <2>1, <4>1, <4>2, <4>3 DEF Start, Own
    <3>2. UNCHANGED <<service, pool, counters, tried, cur>>
      BY <2>1 DEF Start
    <3>3. CASE ~Locks(r)
      <4>1. Goto(r, "next") /\ UNCHANGED holder
        BY <2>1, <3>3 DEF Start
      <4>2. /\ pc'[r] = "next"
            /\ \A q \in Run : q # r => pc'[q] = pc[q]
        BY <2>0, <4>1, GotoMoves DEF Own, Place
      <4>3. \A q \in Run : Placed(q)' /\ Held(q)'
        BY <2>0, <3>2, <3>3, <4>1, <4>2 DEF Placed, Held, Kind, Locks
      <4>4. QED
        BY <2>0, <3>1, <3>2, <4>1, <4>3 DEF Shape, Shared, Accounts, service, account, pool
    <3>4. CASE Locks(r) /\ holder[KindOf[r]] = None
      <4>1. /\ Goto(r, "next") /\ pc[r] = "idle"
            /\ holder' = [holder EXCEPT ![KindOf[r]] = r]
        BY <2>1, <3>4 DEF Start, At
      <4>2. /\ pc'[r] = "next"
            /\ \A q \in Run : q # r => pc'[q] = pc[q]
        BY <2>0, <4>1, GotoMoves DEF Own, Place
      <4>3. KindOf[r] \in Mutex
        BY <3>4 DEF Locks
      <4>4. /\ holder' \in [Mutex -> Run \cup {None}]
            /\ holder'[KindOf[r]] = r
            /\ \A k \in Mutex : k # KindOf[r] => holder'[k] = holder[k]
        BY <2>0, <4>1, <4>3 DEF Shared
      <4>5. ASSUME NEW q \in Run PROVE Held(q)'
        <5>1. CASE q = r
          BY <4>2, <4>4, <5>1 DEF Held, Kind, Locks
        <5>2. CASE q # r
          <6>1. pc'[q] = pc[q] /\ Held(q)
            BY <2>0, <4>2, <5>2
          <6>2. Locks(q) => KindOf[q] \in Mutex
            BY DEF Locks
          <6>3. QED
            BY <3>4, <4>4, <5>2, <6>1, <6>2 DEF Held, Kind, Locks
        <5>3. QED
          BY <5>1, <5>2
      <4>6. \A q \in Run : Placed(q)'
        BY <2>0, <3>2, <4>2 DEF Placed, Kind
      <4>7. QED
        BY <2>0, <3>1, <3>2, <4>4, <4>5, <4>6 DEF Shape, Shared, Accounts, service, account, pool
    <3>5. CASE Locks(r) /\ holder[KindOf[r]] # None
      <4>1. UNCHANGED <<pc, holder>>
        BY <2>1, <3>5 DEF Start
      <4>2. \A q \in Run : Placed(q)' /\ Held(q)'
        BY <2>0, <3>2, <4>1 DEF Placed, Held, Kind, Locks
      <4>3. QED
        BY <2>0, <3>1, <3>2, <4>1, <4>2 DEF Shape, Shared, Accounts, service, account, pool
    <3>6. QED
      BY <3>3, <3>4, <3>5
  <2>2. ASSUME NEW r \in Run, Next1(r) PROVE Shape'
    <3>1. PICK u \in todo[r] : cur' = [cur EXCEPT ![r] = u]
      BY <2>2 DEF Next1
    <3>2. u \in Uid
      BY <2>0, <3>1 DEF Own
    <3>3. PICK p \in {"look", "report", "read"} :
             Goto(r, p) /\ (p = "look" => Kind(r, "travel"))
      BY <2>2 DEF Next1, Kind
    <3>4. pc[r] = "next" /\ UNCHANGED <<service, pool, counters, tried, holder, starts>>
      BY <2>2 DEF Next1, At
    <3>5. /\ cur'[r] = u
          /\ \A q \in Run : q # r => cur'[q] = cur[q]
      BY <2>0, <3>1 DEF Own
    <3>6. Own'
      <4>1. pc' \in [Run -> Place]
        BY <2>0, <3>3, GotoMoves DEF Own, Place
      <4>2. cur' \in [Run -> Uid \cup {None}]
        BY <2>0, <3>1, <3>2 DEF Own
      <4>3. QED
        BY <2>0, <2>2, <4>1, <4>2 DEF Own, Next1
    <3>7. \A q \in Run : Placed(q)' /\ Held(q)'
      BY <2>0, <3>2, <3>3, <3>4, <3>5, WorkKeeps DEF Place
    <3>8. QED
      BY <2>0, <3>4, <3>6, <3>7 DEF Shape, Shared, Accounts, service, account, pool
  <2>3. ASSUME NEW r \in Run, Finish(r) PROVE Shape'
    <3>1. /\ Goto(r, "idle") /\ pc[r] = "next" /\ UNCHANGED <<service, pool, counters, tried, local>>
          /\ holder' = [k \in DOMAIN holder |-> IF holder[k] = r THEN None ELSE holder[k]]
      BY <2>3 DEF Finish, At
    <3>2. /\ pc' \in [Run -> Place] /\ pc'[r] = "idle"
          /\ \A q \in Run : q # r => pc'[q] = pc[q]
      BY <2>0, <3>1, GotoMoves DEF Own, Place
    <3>3. /\ holder' \in [Mutex -> Run \cup {None}]
          /\ \A k \in Mutex : holder'[k] = IF holder[k] = r THEN None ELSE holder[k]
      BY <2>0, <3>1 DEF Shared
    <3>4. ASSUME NEW q \in Run PROVE Held(q)'
      <4>1. Locks(q) => KindOf[q] \in Mutex
        BY DEF Locks
      <4>2. QED
        BY <2>0, <3>2, <3>3, <4>1 DEF Held, Kind, Locks
    <3>5. \A q \in Run : Placed(q)'
      BY <2>0, <3>1, <3>2 DEF Placed, Kind, local
    <3>6. QED
      BY <2>0, <3>1, <3>2, <3>3, <3>4, <3>5 DEF Shape, Shared, Own, Accounts, service, account, pool, local
  <2>4. ASSUME NEW r \in Run, NEW p \in Place \ {"idle"}, Goto(r, p), pc[r] # "idle",
               UNCHANGED <<holder, cur, todo, starts>>,
               p # "next" => pc[r] # "next",
               p \in {"look", "claim", "depart"} => pc[r] = "look",
               cat' \subseteq Uid, chatty' \subseteq Uid, tried' \subseteq Uid,
               trip' \in [Uid -> Trips],
               Accounts', shown' \in [Uid -> Nat], written' \in [Mutex -> [Uid -> Nat]],
               counters' \in [Move -> Nat],
               got' \in [Run -> Nat],
               did' \in [Run -> Move \cup {None}], event' \in [Run -> Move \cup {None}]
        PROVE  Shape'
    <3>1. pc' \in [Run -> Place]
      BY <2>0, <2>4, GotoMoves DEF Own
    <3>2. Placed(r)
      BY <2>0
    <3>3. \A q \in Run : Placed(q)' /\ Held(q)'
      BY <2>0, <2>4, <3>2, WorkKeeps DEF Placed
    <3>4. QED
      BY <2>0, <2>4, <3>1, <3>3 DEF Shape, Shared, Own
  <2>5. ASSUME NEW r \in Run, Look(r) PROVE Shape'
    <3>1. /\ pc[r] = "look"
          /\ UNCHANGED <<service, pool, counters, tried, holder, local>>
          /\ \E p \in {"tell", "adopt", "claim", "depart"} : Goto(r, p)
      BY <2>5 DEF Look, At
    <3>2. QED
      BY <2>0, <2>4, <3>1 DEF Shared, Own, Accounts, service, account, pool, local, Place
  <2>6. ASSUME NEW r \in Run, Report(r) PROVE Shape'
    <3>1. /\ pc[r] = "report"
          /\ \E p \in {"next", "adopt"} : Goto(r, p)
          /\ UNCHANGED <<cat, trip, account, pool, counters, tried, holder, cur, todo,
                         got, did, event, starts>>
      BY <2>6 DEF Report, At
    <3>2. cur[r] \in Uid
      BY <2>0, <3>1 DEF Placed
    <3>3. chatty' \subseteq Uid
      BY <2>0, <2>6, <3>2 DEF Report, Shared
    <3>4. QED
      BY <2>0, <2>4, <3>1, <3>3 DEF Shared, Own, Accounts, account, pool, Place
  <2>7. ASSUME NEW r \in Run, NEW m \in Move, Earn(r, m), cur[r] \in Uid
        PROVE  /\ did' \in [Run -> Move \cup {None}] /\ Accounts'
               /\ \E p \in {"bump", "tell"} : Goto(r, p)
    <3>1. did' \in [Run -> Move \cup {None}] /\ \E p \in {"bump", "tell"} : Goto(r, p)
      BY <2>0, <2>7 DEF Earn, Own
    <3>2. CASE UNCHANGED <<rev, paid, rewarded>>
      BY <2>0, <2>7, <3>1, <3>2 DEF Earn, Shared, Accounts
    <3>3. CASE /\ rev' = [rev EXCEPT ![cur[r]] = @ + 1] /\ paid' = paid + 1
               /\ rewarded' = [rewarded EXCEPT ![cur[r]] = rev'[cur[r]]]
      <4>1. rev' \in [Uid -> Nat] /\ paid' \in Nat
        BY <2>0, <2>7, <3>3 DEF Shared, Accounts
      <4>2. rewarded' \in [Uid -> Nat]
        BY <2>0, <2>7, <3>3, <4>1 DEF Shared, Accounts
      <4>3. QED
        BY <2>0, <2>7, <3>1, <4>1, <4>2 DEF Earn, Shared, Accounts
    <3>4. QED
      BY <2>7, <3>2, <3>3 DEF Earn
  <2>8. ASSUME NEW r \in Run, Adopt(r) PROVE Shape'
    <3>1. /\ pc[r] = "adopt"
          /\ UNCHANGED <<chatty, trip, pool, counters, holder, cur, todo, got,
                         event, starts>>
      BY <2>8 DEF Adopt, At
    <3>2. cur[r] \in Uid
      BY <2>0, <3>1 DEF Placed
    <3>3. CASE /\ cat' = cat \cup {cur[r]} /\ Earn(r, "adopts") /\ UNCHANGED tried
      <4>1. /\ did' \in [Run -> Move \cup {None}] /\ Accounts'
            /\ \E p \in {"bump", "tell"} : Goto(r, p)
        BY <2>7, <3>2, <3>3 DEF Move
      <4>2. QED
        BY <2>0, <2>4, <3>1, <3>2, <3>3, <4>1 DEF Shared, Own, pool, Place
    <3>4. CASE /\ tried' \in {tried, tried \cup {cur[r]}} /\ Goto(r, "tell")
               /\ UNCHANGED <<cat, account, did>>
      BY <2>0, <2>4, <3>1, <3>2, <3>4 DEF Shared, Own, Accounts, account, pool, Place
    <3>5. QED
      BY <2>8, <3>3, <3>4 DEF Adopt
  <2>9. ASSUME NEW r \in Run, Claim(r) \/ Depart(r) PROVE Shape'
    <3>1. /\ pc[r] \in {"claim", "depart"}
          /\ UNCHANGED <<cat, chatty, pool, counters, tried, holder, cur, todo,
                         got, event, starts>>
      BY <2>9 DEF Claim, Depart, At
    <3>2. cur[r] \in Uid
      BY <2>0, <3>1 DEF Placed
    <3>3. trip' \in [Uid -> Trips]
      BY <2>0, <2>9, <3>2 DEF Claim, Depart, Shared, Trips
    <3>4. CASE \E m \in Move : Earn(r, m)
      <4>1. /\ did' \in [Run -> Move \cup {None}] /\ Accounts'
            /\ \E p \in {"bump", "tell"} : Goto(r, p)
        BY <2>7, <3>2, <3>4
      <4>2. QED
        BY <2>0, <2>4, <3>1, <3>3, <4>1 DEF Shared, Own, pool, Place
    <3>5. CASE Goto(r, "tell") /\ UNCHANGED <<account, did>>
      BY <2>0, <2>4, <3>1, <3>3, <3>5 DEF Shared, Own, Accounts, account, pool, Place
    <3>6. QED
      BY <2>9, <3>4, <3>5 DEF Claim, Depart, Move
  <2>10. ASSUME NEW r \in Run, Bump(r) PROVE Shape'
    <3>1. /\ pc[r] = "bump" /\ counters' = [counters EXCEPT ![did[r]] = @ + 1]
          /\ \E p \in {"tell", "read"} : Goto(r, p)
          /\ UNCHANGED <<service, pool, tried, holder, local>>
      BY <2>10 DEF Bump, At
    <3>2. counters' \in [Move -> Nat]
      <4>1. counters \in [Move -> Nat]
        BY <2>0 DEF Shared
      <4>2. CASE did[r] \in Move
        <5>1. counters[did[r]] + 1 \in Nat
          BY <4>1, <4>2
        <5>2. QED
          BY <3>1, <4>1, <5>1
      <4>3. CASE did[r] \notin Move
        BY <3>1, <4>1, <4>3
      <4>4. QED
        BY <4>2, <4>3
    <3>3. QED
      BY <2>0, <2>4, <3>1, <3>2 DEF Shared, Own, Accounts, service, account, pool, local, Place
  <2>11. ASSUME NEW r \in Run, ReadBalance(r) PROVE Shape'
    <3>1. /\ pc[r] = "read"
          /\ got' = got \/ got' = [got EXCEPT ![r] = rev[cur[r]]]
          /\ \E p \in {"write", "next", "tell"} : Goto(r, p)
          /\ UNCHANGED <<service, pool, counters, tried, holder, cur, todo, did,
                         event, starts>>
      BY <2>11 DEF ReadBalance, At
    <3>2. cur[r] \in Uid
      BY <2>0, <3>1 DEF Placed
    <3>3. got' \in [Run -> Nat]
      BY <2>0, <3>1, <3>2 DEF Shared, Own, Accounts
    <3>4. QED
      BY <2>0, <2>4, <3>1, <3>3 DEF Shared, Own, Accounts, service, account, pool, Place
  <2>12. ASSUME NEW r \in Run, WriteBalance(r) PROVE Shape'
    <3>1. /\ pc[r] = "write"
          /\ shown' = [shown EXCEPT ![cur[r]] = got[r]]
          /\ \/ written' = written
             \/ Locks(r) /\ written' = [written EXCEPT ![KindOf[r]][cur[r]] = got[r]]
          /\ \E p \in {"next", "tell"} : Goto(r, p)
          /\ UNCHANGED <<service, counters, tried, holder, local>>
      BY <2>12 DEF WriteBalance, At
    <3>2. got[r] \in Nat
      BY <2>0 DEF Own
    <3>3. shown' \in [Uid -> Nat]
      BY <2>0, <3>1, <3>2 DEF Shared
    <3>4. ASSUME Locks(r), written' = [written EXCEPT ![KindOf[r]][cur[r]] = got[r]]
          PROVE  written' \in [Mutex -> [Uid -> Nat]]
      <4>1. written[KindOf[r]] \in [Uid -> Nat]
        BY <2>0, <3>4 DEF Shared, Locks
      <4>2. written' = [written EXCEPT ![KindOf[r]] =
                            [written[KindOf[r]] EXCEPT ![cur[r]] = got[r]]]
        BY <3>4
      <4>3. [written[KindOf[r]] EXCEPT ![cur[r]] = got[r]] \in [Uid -> Nat]
        BY <3>2, <4>1
      <4>4. QED
        BY <2>0, <4>2, <4>3 DEF Shared
    <3>5. written' \in [Mutex -> [Uid -> Nat]]
      BY <2>0, <3>1, <3>4 DEF Shared
    <3>6. QED
      BY <2>0, <2>4, <3>1, <3>3, <3>5 DEF Shared, Own, Accounts, service, account, local, Place
  <2>13. ASSUME NEW r \in Run, Tell(r) PROVE Shape'
    <3>1. /\ pc[r] = "tell" /\ Goto(r, "next")
          /\ UNCHANGED <<service, pool, counters, tried, holder, cur, todo, got,
                         did, starts>>
      BY <2>13 DEF Tell, At
    <3>2. PICK e \in Move \cup {None} : event' = [event EXCEPT ![r] = e]
      BY <2>13 DEF Tell, Move
    <3>3. event' \in [Run -> Move \cup {None}]
      BY <2>0, <3>2 DEF Own
    <3>4. QED
      BY <2>0, <2>4, <3>1, <3>3 DEF Shared, Own, Accounts, service, account, pool, Place
  <2>14. ASSUME NEW u \in Uid, Arrive(u) \/ Spend(u) PROVE Shape'
    <3>1. UNCHANGED <<cat, chatty, pool, counters, tried, holder, pc, local>>
      BY <2>14 DEF Arrive, Spend
    <3>2. trip' \in [Uid -> Trips]
      BY <2>0, <2>14 DEF Arrive, Spend, Shared, Trips
    <3>3. Accounts'
      <4>1. CASE Arrive(u)
        BY <2>0, <4>1 DEF Arrive, Shared, Accounts, account
      <4>2. CASE Spend(u)
        <5>1. rev' \in [Uid -> Nat]
          BY <2>0, <4>2 DEF Spend, Shared, Accounts
        <5>2. spent' \in [Uid -> 0 .. MaxSpends]
          BY <2>0, <4>2 DEF Spend, Shared, Accounts
        <5>3. QED
          BY <2>0, <4>2, <5>1, <5>2 DEF Spend, Shared, Accounts
      <4>3. QED
        BY <2>14, <4>1, <4>2
    <3>4. Shared' /\ Own'
      BY <2>0, <3>1, <3>2, <3>3 DEF Shared, Own, local, pool
    <3>5. \A q \in Run : Placed(q)' /\ Held(q)'
      BY <2>0, <3>1 DEF Placed, Held, Kind, Locks, local
    <3>6. QED
      BY <3>4, <3>5 DEF Shape
  <2>15. CASE UNCHANGED vars
    <3>1. Shared' /\ Own'
      BY <2>0, <2>15 DEF vars, Shared, Own, Accounts
    <3>2. \A q \in Run : Placed(q)' /\ Held(q)'
      BY <2>0, <2>15 DEF vars, Placed, Held, Kind, Locks
    <3>3. QED
      BY <3>1, <3>2 DEF Shape
  <2>16. QED
    BY <2>1, <2>2, <2>3, <2>5, <2>6, <2>8, <2>9, <2>10, <2>11, <2>12, <2>13,
       <2>14, <2>15 DEF Next, Step
<1>3. QED
  BY <1>1, <1>2, PTL DEF Spec

\* Type correctness, with the mutex of each kind held exactly by the run of
\* the kind that is under way.
THEOREM TypeCorrect == Spec => []TypeOK
BY Shaped, ShapeIsType, PTL

-----------------------------------------------------------------------------
\* Two travel runs are never under way together.
LEMMA TravelsAlone ==
    ASSUME Shape, NEW r \in Run, NEW q \in Run, Kind(r, "travel"), Kind(q, "travel"),
           pc[r] # "idle", pc[q] # "idle"
    PROVE  r = q
BY DEF Shape, Held, Kind, Locks, Mutex

\* What SeesFreshTrip says of one run.
Fresh(r) == /\ pc[r] = "claim"  => trip[cur[r]] = "arrived"
            /\ pc[r] = "depart" => trip[cur[r]] = "idle"

LEMMA FreshEach == SeesFreshTrip <=> \A r \in Run : Fresh(r)
BY DEF SeesFreshTrip, At, Fresh

\* No run moves on a trip that has changed since it looked: the mutex keeps
\* the other travel runs away, activity runs do not touch trips, and what the
\* service does by itself does not end a trip that has arrived or not begun.
THEOREM TripsFresh == Spec => []SeesFreshTrip
<1>1. Init => SeesFreshTrip
  BY DEF Init, SeesFreshTrip, At
<1>2. Shape /\ SeesFreshTrip /\ [Next]_vars => SeesFreshTrip'
  <2> SUFFICES ASSUME Shape, SeesFreshTrip, [Next]_vars, NEW q \in Run PROVE Fresh(q)'
    BY DEF SeesFreshTrip, At, Fresh
  <2>1. /\ Fresh(q) /\ Placed(q) /\ pc \in [Run -> Place]
        /\ trip \in [Uid -> Trips] /\ cur \in [Run -> Uid \cup {None}]
    <3>1. Fresh(q)
      BY FreshEach
    <3>2. Placed(q) /\ Shared /\ Own
      BY DEF Shape
    <3>3. QED
      BY <3>1, <3>2 DEF Shared, Own
  <2>2. CASE trip' = trip /\ cur'[q] = cur[q] /\ pc'[q] \in {pc[q], "idle", "next", "report",
                "adopt", "bump", "read", "write", "tell"}
    BY <2>1, <2>2 DEF Fresh
  <2>3. ASSUME NEW r \in Run, NEW p \in Place \ {"look", "claim", "depart"}, Goto(r, p),
               UNCHANGED <<trip, cur>>
        PROVE  Fresh(q)'
    BY <2>1, <2>2, <2>3, GotoMoves DEF Place, Fresh
  <2>4. ASSUME NEW r \in Run, Start(r) PROVE Fresh(q)'
    <3>1. UNCHANGED <<trip, cur>> /\ (Goto(r, "next") \/ UNCHANGED pc)
      BY <2>4 DEF Start, service
    <3>2. QED
      BY <2>2, <2>3, <3>1 DEF Place
  <2>5. ASSUME NEW r \in Run, Next1(r) PROVE Fresh(q)'
    <3>1. UNCHANGED trip /\ \E p \in {"look", "report", "read"} : Goto(r, p)
      BY <2>5 DEF Next1, service
    <3>2. r # q => cur'[q] = cur[q] /\ pc'[q] = pc[q]
      BY <2>1, <2>5, <3>1, GotoMoves DEF Next1, Place
    <3>3. r = q => pc'[q] \notin {"claim", "depart"}
      BY <2>1, <3>1, GotoMoves DEF Place
    <3>4. QED
      BY <2>1, <3>1, <3>2, <3>3 DEF Fresh
  <2>6. ASSUME NEW r \in Run, Finish(r) \/ Report(r) \/ Adopt(r) \/ Bump(r)
                                \/ ReadBalance(r) \/ WriteBalance(r) \/ Tell(r)
        PROVE  Fresh(q)'
    <3>1. UNCHANGED <<trip, cur>>
      BY <2>6 DEF Finish, Report, Adopt, Bump, ReadBalance, WriteBalance, Tell,
                 service, local
    <3>2. \E p \in {"idle", "next", "adopt", "bump", "tell", "read", "write"} : Goto(r, p)
      BY <2>6 DEF Finish, Report, Adopt, Earn, Bump, ReadBalance, WriteBalance, Tell
    <3>3. QED
      BY <2>3, <3>1, <3>2 DEF Place
  <2>7. ASSUME NEW r \in Run, Look(r) PROVE Fresh(q)'
    <3>1. UNCHANGED <<trip, cur>>
      BY <2>7 DEF Look, service, local
    <3>2. CASE Goto(r, "tell") \/ Goto(r, "adopt")
      BY <2>3, <3>1, <3>2 DEF Place
    <3>3. CASE Goto(r, "claim") /\ trip[cur[r]] = "arrived"
      BY <2>1, <3>1, <3>3, GotoMoves DEF Place, Fresh
    <3>4. CASE Goto(r, "depart") /\ trip[cur[r]] = "idle"
      BY <2>1, <3>1, <3>4, GotoMoves DEF Place, Fresh
    <3>5. QED
      BY <2>7, <3>2, <3>3, <3>4 DEF Look
  <2>8. ASSUME NEW r \in Run, Claim(r) \/ Depart(r) PROVE Fresh(q)'
    <3>1. pc[r] \in {"claim", "depart"} /\ cur' = cur
      BY <2>8 DEF Claim, Depart, At
    <3>2. \E p \in {"bump", "tell"} : Goto(r, p)
      BY <2>8 DEF Claim, Depart, Earn
    <3>3. CASE q = r
      BY <2>1, <3>2, <3>3, GotoMoves DEF Place, Fresh
    <3>4. CASE q # r
      <4>1. pc'[q] = pc[q]
        BY <2>1, <3>2, <3>4, GotoMoves DEF Place
      <4>2. Kind(r, "travel")
        BY <3>1 DEF Shape, Placed
      <4>3. pc[q] \notin {"claim", "depart"}
        BY <2>1, <3>1, <3>4, <4>2, TravelsAlone DEF Placed
      <4>4. QED
        BY <4>1, <4>3 DEF Fresh
    <3>5. QED
      BY <3>3, <3>4
  <2>9. ASSUME NEW u \in Uid, Arrive(u) \/ Spend(u) PROVE Fresh(q)'
    <3>1. UNCHANGED <<pc, cur>>
      BY <2>9 DEF Arrive, Spend, local
    <3>2. trip' = trip \/ (trip[u] = "traveling" /\ trip' = [trip EXCEPT ![u] = "arrived"])
      BY <2>9 DEF Arrive, Spend
    <3>3. QED
      BY <2>1, <3>1, <3>2 DEF Placed, Fresh
  <2>10. CASE UNCHANGED vars
    BY <2>1, <2>10 DEF vars, Fresh
  <2>11. QED
    BY <2>4, <2>5, <2>6, <2>7, <2>8, <2>9, <2>10 DEF Next, Step
<1>3. QED
  BY <1>1, <1>2, Shaped, PTL DEF Spec

-----------------------------------------------------------------------------
\* A run that holds its mutex is the only one of its kind under way.
LEMMA OneOfAKind ==
    ASSUME Shape, NEW r \in Run, NEW q \in Run, Locks(r), Kind(q, KindOf[r]),
           pc[r] # "idle", pc[q] # "idle"
    PROVE  r = q
BY DEF Shape, Held, Kind, Locks

\* A balance read and not yet written is one the account has had, and none of
\* the kind's runs has written a newer one since.
Behind(r) ==
    pc[r] = "write" =>
        /\ got[r] <= rev[cur[r]]
        /\ Locks(r) => written[KindOf[r]][cur[r]] <= got[r]
Past    == \A k \in Mutex, u \in Uid : written[k][u] <= rev[u]
InOrder == Past /\ \A r \in Run : Behind(r)

\* The changes of a balance only become more.
LEMMA ChangesGrow ==
    ASSUME Shape, [Next]_vars
    PROVE  rev' \in [Uid -> Nat] /\ \A u \in Uid : rev[u] <= rev'[u]
<1>0. rev \in [Uid -> Nat] /\ \A r \in Run : Placed(r)
  BY DEF Shape, Shared, Accounts
<1>1. ASSUME NEW r \in Run, NEW m \in Move, Earn(r, m), cur[r] \in Uid
      PROVE  rev' \in [Uid -> Nat] /\ \A u \in Uid : rev[u] <= rev'[u]
  <2>1. CASE m = "departs"
    BY <1>0, <1>1, <2>1 DEF Earn
  <2>2. CASE m # "departs"
    <3>1. rev' = [rev EXCEPT ![cur[r]] = @ + 1]
      BY <1>1, <2>2 DEF Earn
    <3>2. QED
      BY <1>0, <1>1, <3>1
  <2>3. QED
    BY <2>1, <2>2
<1>2. CASE rev' = rev
  BY <1>0, <1>2
<1>3. ASSUME NEW r \in Run, Start(r) \/ Next1(r) \/ Finish(r) \/ Look(r) \/ Report(r)
                  \/ Bump(r) \/ ReadBalance(r) \/ WriteBalance(r) \/ Tell(r)
      PROVE  rev' = rev
  BY <1>3 DEF Start, Next1, Finish, Look, Report, Bump, ReadBalance, WriteBalance,
              Tell, service, account
<1>4. ASSUME NEW r \in Run, Adopt(r) \/ Claim(r) \/ Depart(r)
      PROVE  rev' = rev \/ \E m \in Move : Earn(r, m) /\ cur[r] \in Uid
  <2>1. cur[r] \in Uid
    BY <1>0, <1>4 DEF Placed, Adopt, Claim, Depart, At
  <2>2. QED
    BY <1>4, <2>1 DEF Adopt, Claim, Depart, Move, account
<1>5. ASSUME NEW u \in Uid, Arrive(u) PROVE rev' = rev
  BY <1>5 DEF Arrive, account
<1>6. ASSUME NEW u \in Uid, Spend(u)
      PROVE  rev' \in [Uid -> Nat] /\ \A v \in Uid : rev[v] <= rev'[v]
  BY <1>0, <1>6 DEF Spend
<1>7. CASE UNCHANGED vars
  BY <1>2, <1>7 DEF vars
<1>8. QED
  BY <1>1, <1>2, <1>3, <1>4, <1>5, <1>6, <1>7 DEF Next, Step

\* Every step keeps that order, and what a run writes is no older than what its
\* kind wrote before.
LEMMA OrderKept ==
    ASSUME Shape, InOrder, [Next]_vars
    PROVE  /\ InOrder'
           /\ \A k \in Mutex, u \in Uid : written'[k][u] >= written[k][u]
<1>. DEFINE Newer == \A k \in Mutex, u \in Uid : written'[k][u] >= written[k][u]
<1>0. /\ rev \in [Uid -> Nat] /\ got \in [Run -> Nat]
      /\ written \in [Mutex -> [Uid -> Nat]]
      /\ pc \in [Run -> Place] /\ cur \in [Run -> Uid \cup {None}]
      /\ \A q \in Run : Placed(q)
  BY DEF Shape, Shared, Own, Accounts
<1>1. rev' \in [Uid -> Nat] /\ \A u \in Uid : rev[u] <= rev'[u]
  BY ChangesGrow
<1>2. ASSUME UNCHANGED written PROVE Past' /\ Newer
  BY <1>0, <1>1, <1>2 DEF InOrder, Past
<1>3. ASSUME NEW q \in Run, got'[q] = got[q],
             pc'[q] = "write" => pc[q] = "write" /\ cur'[q] = cur[q],
             pc[q] = "write" /\ Locks(q) => written'[KindOf[q]][cur[q]] = written[KindOf[q]][cur[q]]
      PROVE  Behind(q)'
  <2>. SUFFICES ASSUME pc'[q] = "write"
                PROVE  /\ got'[q] <= rev'[cur'[q]]
                       /\ Locks(q)' => written'[KindOf[q]][cur'[q]] <= got'[q]
    BY DEF Behind
  <2>1. cur[q] \in Uid /\ got[q] \in Nat /\ Behind(q) /\ pc[q] = "write" /\ cur'[q] = cur[q]
    BY <1>0, <1>3 DEF Placed, InOrder
  <2>2. got[q] <= rev[cur[q]] /\ (Locks(q) => written[KindOf[q]][cur[q]] <= got[q])
    BY <2>1 DEF Behind
  <2>3. got[q] <= rev'[cur[q]]
    BY <1>0, <1>1, <2>1, <2>2
  <2>. QED BY <1>3, <2>1, <2>2, <2>3 DEF Locks
<1>4. ASSUME NEW r \in Run, NEW p \in Place \ {"write"}, Goto(r, p),
             UNCHANGED <<written, got>>, \A q \in Run : q # r => cur'[q] = cur[q]
      PROVE  InOrder' /\ Newer
  BY <1>0, <1>2, <1>3, <1>4, GotoMoves DEF InOrder
<1>5. ASSUME NEW r \in Run, Start(r) PROVE InOrder' /\ Newer
  <2>1. UNCHANGED <<written, got, cur>> /\ (Goto(r, "next") \/ UNCHANGED pc)
    BY <1>5 DEF Start, pool
  <2>2. CASE UNCHANGED pc
    BY <1>2, <1>3, <2>1, <2>2 DEF InOrder
  <2>3. QED
    BY <1>4, <2>1, <2>2 DEF Place
<1>6. ASSUME NEW r \in Run, Next1(r) PROVE InOrder' /\ Newer
  <2>1. UNCHANGED <<written, got>> /\ \E p \in {"look", "report", "read"} : Goto(r, p)
    BY <1>6 DEF Next1, pool
  <2>2. \A q \in Run : q # r => cur'[q] = cur[q]
    BY <1>0, <1>6 DEF Next1
  <2>3. QED
    BY <1>4, <2>1, <2>2 DEF Place
<1>7. ASSUME NEW r \in Run, Finish(r) \/ Look(r) \/ Report(r) \/ Adopt(r) \/ Claim(r)
                              \/ Depart(r) \/ Bump(r) \/ Tell(r)
      PROVE  InOrder' /\ Newer
  <2>1. UNCHANGED <<written, got, cur>>
    BY <1>7 DEF Finish, Look, Report, Adopt, Claim, Depart, Bump, Tell, local, pool
  <2>2. \E p \in Place \ {"write"} : Goto(r, p)
    BY <1>7 DEF Finish, Look, Report, Adopt, Claim, Depart, Earn, Bump, Tell, Place
  <2>3. QED
    BY <1>4, <2>1, <2>2
<1>8. ASSUME NEW r \in Run, ReadBalance(r) PROVE InOrder' /\ Newer
  <2>1. pc[r] = "read" /\ UNCHANGED <<rev, written, cur>>
    BY <1>8 DEF ReadBalance, At, service, account, pool
  <2>2. CASE Goto(r, "write") /\ got' = [got EXCEPT ![r] = rev[cur[r]]]
    <3>1. cur[r] \in Uid /\ pc'[r] = "write" /\ got'[r] = rev[cur[r]]
      BY <1>0, <2>1, <2>2, GotoMoves DEF Placed, Place
    <3>2. Behind(r)'
      BY <1>0, <2>1, <3>1 DEF Behind, InOrder, Past, Locks
    <3>3. ASSUME NEW q \in Run, q # r PROVE Behind(q)'
      BY <1>0, <1>3, <2>1, <2>2, <3>3, GotoMoves DEF Place
    <3>4. QED
      BY <1>2, <2>1, <3>2, <3>3 DEF InOrder
  <2>3. CASE UNCHANGED got /\ \E p \in {"next", "tell"} : Goto(r, p)
    BY <1>4, <2>1, <2>3 DEF Place
  <2>4. QED
    BY <1>8, <2>2, <2>3 DEF ReadBalance
<1>9. ASSUME NEW r \in Run, WriteBalance(r) PROVE InOrder' /\ Newer
  <2>1. /\ pc[r] = "write" /\ UNCHANGED <<rev, got, cur>>
        /\ written' = IF Locks(r) THEN [written EXCEPT ![KindOf[r]][cur[r]] = got[r]] ELSE written
        /\ \E p \in {"next", "tell"} : Goto(r, p)
    BY <1>9 DEF WriteBalance, At, service, account, local
  <2>2. cur[r] \in Uid /\ Behind(r)
    BY <1>0, <2>1 DEF Placed, InOrder
  <2>3. CASE ~Locks(r)
    BY <1>4, <2>1, <2>3 DEF Place
  <2>4. CASE Locks(r)
    <3>1. \A k \in Mutex, u \in Uid :
             written'[k][u] = IF k = KindOf[r] /\ u = cur[r] THEN got[r] ELSE written[k][u]
      BY <1>0, <2>1, <2>2, <2>4 DEF Locks
    <3>2. /\ got[r] \in Nat /\ got[r] <= rev[cur[r]]
          /\ written[KindOf[r]][cur[r]] <= got[r]
      BY <1>0, <2>1, <2>2, <2>4 DEF Behind
    <3>3. Past'
      BY <2>1, <3>1, <3>2 DEF InOrder, Past
    <3>4. Newer
      BY <1>0, <3>1, <3>2
    <3>5. ASSUME NEW q \in Run PROVE Behind(q)'
      <4>1. pc'[q] = "write" => q # r /\ pc[q] = "write"
        BY <1>0, <2>1, GotoMoves DEF Place
      <4>2. q # r /\ pc[q] = "write" => KindOf[q] # KindOf[r]
        BY <2>1, <2>4, OneOfAKind DEF Kind
      <4>3. ASSUME pc[q] = "write", q # r, Locks(q)
            PROVE  written'[KindOf[q]][cur[q]] = written[KindOf[q]][cur[q]]
        <5>1. cur[q] \in Uid /\ KindOf[q] \in Mutex
          BY <1>0, <4>3 DEF Placed, Locks
        <5>. QED BY <3>1, <4>2, <4>3, <5>1
      <4>4. CASE q = r
        BY <4>1, <4>4 DEF Behind
      <4>5. CASE q # r
        BY <1>3, <2>1, <4>1, <4>3, <4>5
      <4>. QED BY <4>4, <4>5
    <3>6. QED
      BY <3>3, <3>4, <3>5 DEF InOrder
  <2>5. QED
    BY <2>3, <2>4
<1>10. ASSUME NEW u \in Uid, Arrive(u) \/ Spend(u) PROVE InOrder' /\ Newer
  BY <1>2, <1>3, <1>10 DEF Arrive, Spend, local, pool, InOrder
<1>11. CASE UNCHANGED vars
  BY <1>2, <1>3, <1>11 DEF vars, InOrder
<1>12. QED
  BY <1>5, <1>6, <1>7, <1>8, <1>9, <1>10, <1>11 DEF Next, Step

(* For any accounts, any number of runs and any credits spent and earned beside
   them: a balance read by a run never replaces a newer one of its own kind
   (travel.go, refreshCredits; app.go, RefreshAll).                           *)
THEOREM ReadingsStayInOrder == Spec => ReadingsInOrder
<1>1. Init => InOrder
  BY DEF Init, InOrder, Past, Behind
<1>2. Shape /\ InOrder /\ [Next]_vars => InOrder'
  BY OrderKept
<1>3. Shape /\ InOrder /\ [Next]_vars =>
         [\A k \in Mutex, u \in Uid : written'[k][u] >= written[k][u]]_vars
  BY OrderKept
<1>4. QED
  BY <1>1, <1>2, <1>3, Shaped, PTL DEF Spec, ReadingsInOrder

-----------------------------------------------------------------------------
\* What is paid and not yet counted is owed to the run of a kind that is about
\* to count it, of which there is one.
Counts(r) == pc[r] = "bump" /\ did[r] # "departs"
Owed(k)   == IF \E r \in Run : Kind(r, k) /\ Counts(r) THEN 1 ELSE 0
Tallies(r) ==
    /\ pc[r] \in {"look", "report", "adopt", "claim", "depart", "bump"} => Moves(r)
    /\ pc[r] = "bump" => did[r] \in Move
Accounted ==
    counters["adopts"] + counters["claims"] + Owed("travel") + Owed("activity") <= paid
CountInv == Accounted /\ \A r \in Run : Tallies(r)

\* A step of one run leaves what the others are owed.
LEMMA OwedOthers ==
    ASSUME NEW r \in Run, NEW k,
           \A q \in Run : q # r => pc'[q] = pc[q] /\ did'[q] = did[q],
           ~Kind(r, k) \/ (Counts(r)' <=> Counts(r))
    PROVE  Owed(k)' = Owed(k)
<1>1. \A q \in Run : Kind(q, k)' <=> Kind(q, k)
  BY DEF Kind
<1>2. \A q \in Run : Kind(q, k) => (Counts(q)' <=> Counts(q))
  BY DEF Counts
<1>. QED BY <1>1, <1>2, Zenon DEF Owed

\* The kind of a run that was under way, or is, is owed what that run is.
LEMMA OwedOwn ==
    ASSUME Shape, NEW r \in Run, Locks(r), pc[r] # "idle"
    PROVE  Owed(KindOf[r]) = IF Counts(r) THEN 1 ELSE 0
<1>1. Kind(r, KindOf[r])
  BY DEF Kind
<1>2. ASSUME NEW q \in Run, Kind(q, KindOf[r]), Counts(q) PROVE q = r
  BY <1>2, OneOfAKind DEF Counts
<1>. QED BY <1>1, <1>2, Zenon DEF Owed

LEMMA OwedOwnNext ==
    ASSUME Shape', NEW r \in Run, Locks(r), pc'[r] # "idle"
    PROVE  Owed(KindOf[r])' = IF Counts(r)' THEN 1 ELSE 0
<1>1. Kind(r, KindOf[r])' /\ (Locks(r))'
  BY DEF Kind, Locks
<1>2. ASSUME NEW q \in Run, Kind(q, KindOf[r])', Counts(q)' PROVE q = r
  BY <1>1, <1>2 DEF Shape, Held, Kind, Locks, Counts
<1>. QED BY <1>1, <1>2, Zenon DEF Owed

\* A step of one run: what it counts more, or is owed more, has been paid.
One(r) == IF Counts(r) THEN 1 ELSE 0
Counted == counters["adopts"] + counters["claims"]

LEMMA CountStep ==
    ASSUME Shape, Shape', CountInv, NEW r \in Run,
           \A q \in Run : q # r => pc'[q] = pc[q] /\ did'[q] = did[q],
           Tallies(r)', pc[r] # "idle", Counts(r) => pc'[r] # "idle",
           Counted' + One(r)' + paid <= Counted + One(r) + paid'
    PROVE  CountInv'
<1>0. /\ Counted \in Nat /\ Counted' \in Nat /\ paid \in Nat /\ paid' \in Nat
      /\ Counted + Owed("travel") + Owed("activity") <= paid
  BY DEF Shape, Shared, Accounts, Counted, Move, CountInv, Accounted
<1>1. \A k : Owed(k) \in {0, 1} /\ Owed(k)' \in {0, 1}
  BY DEF Owed
<1>2. One(r) \in {0, 1} /\ One(r)' \in {0, 1}
  BY DEF One
<1>3. \A q \in Run : Tallies(q)'
  BY DEF CountInv, Tallies, Moves
<1>4. CASE Counts(r)' <=> Counts(r)
  <2>1. Owed("travel")' = Owed("travel") /\ Owed("activity")' = Owed("activity")
    BY <1>4, OwedOthers
  <2>2. One(r)' = One(r)
    BY <1>4 DEF One
  <2>3. Counted' + Owed("travel")' + Owed("activity")' <= paid'
    BY <1>0, <1>1, <1>2, <2>1, <2>2
  <2>. QED BY <1>3, <2>3 DEF CountInv, Accounted, Counted
<1>5. CASE ~(Counts(r)' <=> Counts(r))
  <2>1. Moves(r) /\ Locks(r) /\ pc'[r] # "idle"
    <3>1. Tallies(r) /\ (Counts(r) \/ Counts(r)')
      BY <1>5 DEF CountInv
    <3>2. Moves(r) /\ Locks(r)
      BY <3>1 DEF Tallies, Counts, Moves, Locks, Mutex
    <3>. QED BY <3>1, <3>2 DEF Counts
  <2>2. KindOf[r] \in {"travel", "activity"}
    BY <2>1 DEF Moves
  <2>3. ASSUME NEW k \in {"travel", "activity"}
        PROVE  /\ k = KindOf[r] => Owed(k) = One(r) /\ Owed(k)' = One(r)'
               /\ k # KindOf[r] => Owed(k)' = Owed(k)
    <3>1. CASE k = KindOf[r]
      BY <2>1, <3>1, OwedOwn, OwedOwnNext DEF One
    <3>2. CASE k # KindOf[r]
      BY <3>2, OwedOthers DEF Kind
    <3>. QED BY <3>1, <3>2
  <2>4. Owed("travel")' + Owed("activity")' + One(r) = Owed("travel") + Owed("activity") + One(r)'
    <3>1. CASE KindOf[r] = "travel"
      BY <1>1, <1>2, <2>3, <3>1
    <3>2. CASE KindOf[r] = "activity"
      BY <1>1, <1>2, <2>3, <3>2
    <3>. QED BY <2>2, <3>1, <3>2
  <2>5. Counted' + Owed("travel")' + Owed("activity")' <= paid'
    BY <1>0, <1>1, <1>2, <2>4
  <2>. QED BY <1>3, <2>5 DEF CountInv, Accounted, Counted
<1>. QED BY <1>4, <1>5

(* The rewards counted are never more than those paid, for any accounts and any
   number of runs, whichever of them count at once and whichever answers are lost:
   what is paid is counted once, by the run it was paid to (travel.go, bumpTravel). *)
THEOREM CountsPaid == Spec => []CountersEarned
<1>1. Init => CountInv
  <2>. SUFFICES ASSUME Init PROVE CountInv
    OBVIOUS
  <2>1. \A r \in Run : pc[r] = "idle"
    BY DEF Init
  <2>2. Owed("travel") = 0 /\ Owed("activity") = 0
    BY <2>1 DEF Owed, Counts
  <2>3. counters["adopts"] = 0 /\ counters["claims"] = 0 /\ paid = 0
    BY DEF Init, Move
  <2>. QED BY <2>1, <2>2, <2>3 DEF CountInv, Accounted, Tallies
<1>2. Shape /\ Shape' /\ CountInv /\ [Next]_vars => CountInv'
  <2>. SUFFICES ASSUME Shape, Shape', CountInv, [Next]_vars PROVE CountInv'
    OBVIOUS
  <2>0. /\ pc \in [Run -> Place] /\ did \in [Run -> Move \cup {None}]
        /\ counters \in [Move -> Nat] /\ paid \in Nat
        /\ \A q \in Run : Tallies(q)
    BY DEF Shape, Shared, Own, Accounts, CountInv
  <2>1. ASSUME UNCHANGED <<counters, paid, did>>, UNCHANGED pc PROVE CountInv'
    <3>1. \A k : Owed(k)' = Owed(k)
      BY <2>1 DEF Owed, Counts, Kind
    <3>. QED BY <2>1, <3>1 DEF CountInv, Accounted, Tallies, Moves
  <2>2. ASSUME NEW r \in Run, NEW p \in Place \ {"bump"}, Goto(r, p),
               UNCHANGED <<counters, paid>>, pc[r] \notin {"idle", "bump"},
               \A q \in Run : q # r => did'[q] = did[q],
               p \in {"look", "report", "adopt", "claim", "depart"} => Moves(r)
        PROVE  CountInv'
    <3>1. pc'[r] = p /\ \A q \in Run : q # r => pc'[q] = pc[q]
      BY <2>0, <2>2, GotoMoves
    <3>2. Tallies(r)' /\ One(r)' = 0 /\ One(r) = 0 /\ ~Counts(r)
      BY <2>2, <3>1 DEF Tallies, One, Counts, Moves
    <3>3. Counted' = Counted /\ Counted \in Nat
      BY <2>0, <2>2 DEF Counted, Move
    <3>4. Counted' + One(r)' + paid <= Counted + One(r) + paid'
      BY <2>0, <2>2, <3>2, <3>3
    <3>. QED BY <2>2, <3>1, <3>2, <3>4, CountStep
  <2>3. ASSUME NEW r \in Run, Start(r) PROVE CountInv'
    <3>1. /\ UNCHANGED <<counters, paid, did>> /\ pc[r] = "idle"
          /\ Goto(r, "next") \/ UNCHANGED pc
      BY <2>3 DEF Start, service, account, At
    <3>2. \A q \in Run : Counts(q)' <=> Counts(q)
      BY <2>0, <3>1, GotoMoves DEF Counts, Place
    <3>3. \A k : Owed(k)' = Owed(k)
      BY <3>2, Zenon DEF Owed, Kind
    <3>4. \A q \in Run : Tallies(q)'
      BY <2>0, <3>1, GotoMoves DEF Tallies, Place, Moves
    <3>. QED BY <3>1, <3>3, <3>4 DEF CountInv, Accounted
  <2>4. ASSUME NEW r \in Run, Next1(r) PROVE CountInv'
    <3>1. /\ UNCHANGED <<counters, paid>> /\ pc[r] = "next"
          /\ \A q \in Run : q # r => did'[q] = did[q]
      BY <2>0, <2>4 DEF Next1, service, account, At
    <3>2. PICK p \in {"look", "report", "read"} :
             Goto(r, p) /\ (p \in {"look", "report"} => Moves(r))
      BY <2>4 DEF Next1, Kind, Moves
    <3>. QED BY <2>2, <3>1, <3>2 DEF Place
  <2>5. ASSUME NEW r \in Run, Finish(r) \/ Look(r) \/ Report(r) \/ ReadBalance(r)
                                \/ WriteBalance(r) \/ Tell(r)
        PROVE  CountInv'
    <3>1. /\ UNCHANGED <<counters, paid, did>>
          /\ pc[r] \in {"next", "look", "report", "read", "write", "tell"}
      BY <2>5 DEF Finish, Look, Report, ReadBalance, WriteBalance, Tell, service, account, local, At
    <3>2. PICK p \in Place \ {"bump"} :
            Goto(r, p) /\ (p \in {"look", "report", "adopt", "claim", "depart"} =>
                              pc[r] \in {"look", "report"})
      BY <2>5 DEF Finish, Look, Report, ReadBalance, WriteBalance, Tell, Place, At
    <3>3. pc[r] \in {"look", "report"} => Moves(r)
      BY <2>0 DEF Tallies
    <3>. QED BY <2>2, <3>1, <3>2, <3>3
  <2>6. ASSUME NEW r \in Run, Adopt(r) \/ Claim(r) \/ Depart(r) PROVE CountInv'
    <3>1. pc[r] \in {"adopt", "claim", "depart"} /\ UNCHANGED counters /\ Moves(r)
      BY <2>0, <2>6 DEF Adopt, Claim, Depart, At, Tallies
    <3>2. CASE Goto(r, "tell") /\ UNCHANGED <<paid, did>>
      BY <2>2, <3>1, <3>2 DEF Place
    <3>3. ASSUME NEW m \in Move, Earn(r, m) PROVE CountInv'
      <4>1. did' = [did EXCEPT ![r] = m] /\ paid' = IF m = "departs" THEN paid ELSE paid + 1
        BY <3>3 DEF Earn
      <4>2. PICK p \in {"bump", "tell"} : Goto(r, p)
        BY <3>3 DEF Earn
      <4>3. /\ pc'[r] = p /\ did'[r] = m
            /\ \A q \in Run : q # r => pc'[q] = pc[q] /\ did'[q] = did[q]
        BY <2>0, <4>1, <4>2, GotoMoves DEF Place
      <4>4. Tallies(r)' /\ ~Counts(r)
        BY <3>1, <4>3 DEF Tallies, Moves, Counts
      <4>5. One(r) = 0 /\ One(r)' \in {0, 1} /\ (m = "departs" => One(r)' = 0)
        BY <4>3, <4>4 DEF One, Counts
      <4>6. Counted' = Counted /\ Counted \in Nat
        BY <2>0, <3>1 DEF Counted, Move
      <4>7. Counted' + One(r)' + paid <= Counted + One(r) + paid'
        BY <2>0, <4>1, <4>5, <4>6
      <4>. QED BY <3>1, <4>3, <4>4, <4>7, CountStep
    <3>. QED BY <2>6, <3>2, <3>3 DEF Adopt, Claim, Depart, Move, account
  <2>7. ASSUME NEW r \in Run, Bump(r) PROVE CountInv'
    <3>1. /\ pc[r] = "bump" /\ did[r] \in Move /\ UNCHANGED <<paid, did>>
          /\ counters' = [counters EXCEPT ![did[r]] = @ + 1]
      BY <2>0, <2>7 DEF Bump, At, Tallies, service, account, local
    <3>2. PICK p \in {"tell", "read"} : Goto(r, p)
      BY <2>7 DEF Bump
    <3>3. pc'[r] = p /\ \A q \in Run : q # r => pc'[q] = pc[q] /\ did'[q] = did[q]
      BY <2>0, <3>1, <3>2, GotoMoves DEF Place
    <3>4. Tallies(r)' /\ One(r)' = 0
      BY <3>3 DEF Tallies, One, Counts
    <3>5. Counted \in Nat /\ Counted' = Counted + One(r) /\ One(r) \in {0, 1}
      <4>1. CASE did[r] = "departs"
        BY <2>0, <3>1, <4>1 DEF Counted, Move, One, Counts
      <4>2. CASE did[r] \in {"adopts", "claims"}
        BY <2>0, <3>1, <4>2 DEF Counted, Move, One, Counts
      <4>. QED BY <3>1, <4>1, <4>2 DEF Move
    <3>6. Counted' + One(r)' + paid <= Counted + One(r) + paid'
      BY <2>0, <3>1, <3>4, <3>5
    <3>. QED BY <3>1, <3>2, <3>3, <3>4, <3>6, CountStep
  <2>8. ASSUME NEW u \in Uid, Arrive(u) \/ Spend(u) PROVE CountInv'
    BY <2>1, <2>8 DEF Arrive, Spend, account, local
  <2>9. CASE UNCHANGED vars
    BY <2>1, <2>9 DEF vars
  <2>. QED BY <2>3, <2>4, <2>5, <2>6, <2>7, <2>8, <2>9 DEF Next, Step
<1>3. Shape /\ CountInv => CountersEarned
  <2>. SUFFICES ASSUME Shape, CountInv PROVE CountersEarned
    OBVIOUS
  <2>1. Owed("travel") \in {0, 1} /\ Owed("activity") \in {0, 1}
    BY DEF Owed
  <2>2. counters["adopts"] \in Nat /\ counters["claims"] \in Nat /\ paid \in Nat
    BY DEF Shape, Shared, Accounts, Move
  <2>. QED BY <2>1, <2>2 DEF CountInv, Accounted, CountersEarned
<1>. QED BY <1>1, <1>2, <1>3, Shaped, PTL DEF Spec
=============================================================================
