--------------------------- MODULE DurableLedger ---------------------------
(***************************************************************************)
(* What the account pool promises its callers, without memory, files or    *)
(* saves: one ledger of account states.  The state of a listed account     *)
(* changes only by a named operation on that account; stopping and         *)
(* starting the service loses no state that was ever set; a disabled       *)
(* account stays disabled until Enable, or until it is forgotten.          *)
(***************************************************************************)
EXTENDS Naturals

CONSTANTS Uid, Credits, Cooldowns, MaxTime

VARIABLES now, serving, ledger, listed

lvars == <<now, serving, ledger, listed>>

Blank == [credits |-> 0, disabled |-> FALSE, until |-> 0]

LInit == /\ now = 1 /\ ~serving
         /\ ledger = [u \in Uid |-> Blank] /\ listed = {}

\* Accounts that are not listed may be forgotten whenever something is saved.
Book(u, s) ==
    /\ \E gone \in SUBSET (Uid \ listed) :
          ledger' = [v \in Uid |-> IF v \in gone THEN Blank
                                   ELSE IF v = u /\ u \in listed THEN s
                                   ELSE ledger[v]]
    /\ UNCHANGED <<now, serving, listed>>

Charge(u)  == \E c \in Credits : Book(u, [ledger[u] EXCEPT !.credits = c])
Cool(u)    == \E d \in Cooldowns :
                 Book(u, [ledger[u] EXCEPT !.until = now + d])
Thaw(u)    == /\ ~ledger[u].disabled
              /\ \E c \in Credits \ {0} :
                    Book(u, [ledger[u] EXCEPT !.credits = c, !.until = 0])
Disable(u) == Book(u, [ledger[u] EXCEPT !.disabled = TRUE])
Enable(u)  == Book(u, [ledger[u] EXCEPT !.disabled = FALSE])
Note(u)    == Book(u, ledger[u])

Forget(u) ==
    /\ \E gone \in SUBSET (Uid \ listed) :
          ledger' = [v \in Uid |-> IF v = u \/ v \in gone THEN Blank
                                   ELSE ledger[v]]
    /\ listed' = listed \ {u}
    /\ UNCHANGED <<now, serving>>

\* A state is kept; a blank one may get back what was remembered of it.
Kept(u) == ledger'[u] = ledger[u] \/ ledger[u] = Blank

\* The accounts listed are realigned with the credential files; one that
\* enters may start blank.
Realign ==
    /\ serving /\ UNCHANGED <<now, serving>>
    /\ listed' \in SUBSET Uid /\ DOMAIN ledger' = Uid
    /\ \A u \in Uid : Kept(u) \/ (u \in listed' \ listed /\ ledger'[u] = Blank)

\* The service stops, at any moment, or starts with any of the accounts.
StopOrStart ==
    /\ UNCHANGED now /\ serving' = ~serving
    /\ listed' \in SUBSET Uid /\ (serving => listed' = {})
    /\ DOMAIN ledger' = Uid
    /\ \A u \in Uid : Kept(u)

LTick == now < MaxTime /\ now' = now + 1 /\ UNCHANGED <<serving, ledger, listed>>

LNext ==
    \/ \E u \in Uid : \/ Charge(u) \/ Cool(u) \/ Thaw(u) \/ Disable(u)
                      \/ Enable(u) \/ Note(u) \/ Forget(u)
    \/ Realign \/ StopOrStart
    \/ LTick

LSpec == LInit /\ [][LNext]_lvars
=============================================================================
