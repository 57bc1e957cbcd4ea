----------------------- MODULE AccountPoolRefinement -----------------------
(* The pool implements DurableLedger as long as writes of the state file   *)
(* succeed: memory while the process knows the account, the state file     *)
(* while it is down or has dropped it.                                     *)
EXTENDS AccountPool

LedgerOf(u) ==
    IF mem[u] # None THEN Persist(mem[u])
    ELSE IF disk[u] # None THEN disk[u] ELSE ZeroState

Ledger == INSTANCE DurableLedger WITH
    serving <- up,
    ledger <- [u \in Uid |-> LedgerOf(u)],
    listed <- {u \in Uid : mem[u] # None}

\* Crashes and restarts are invisible to the callers of the pool: every step
\* of the pool is an operation of the ledger on one listed account, a change
\* of the listed accounts that loses no state, or no step at all.
PoolIsLedger == Ledger!LSpec
=============================================================================
