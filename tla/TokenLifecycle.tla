--------------------------- MODULE TokenLifecycle ---------------------------
(***************************************************************************)
(* The refresh token of one account: in the *auth.Auth objects of memory,  *)
(* in the credential file, and at the service that rotates it.             *)
(*                                                                         *)
(* A refresher (chat request, keepalive, check-in, pricing) takes the      *)
(* pool's object, refreshes it holding the object's lock for the whole     *)
(* call, and saves it in a second critical section; a reload reads the     *)
(* files into NEW objects and later puts those in the pool.  A refresher   *)
(* keeps the object it took, in the pool or not.                           *)
(*                                                                         *)
(* The service is external: every refresh replaces the token (Qoder        *)
(* requires it, WorkBuddy and TraeWork take what the answer holds), and a  *)
(* token it has replaced is refused.                                       *)
(***************************************************************************)
EXTENDS Naturals

CONSTANTS
    Proc,         \* refreshers
    Saver,        \* those that call SaveAtomic afterwards: not the pricing one
    Obj,          \* Auth objects
    MaxToken,     \* tokens the service issues (bound)
    SaveMayFail,  \* can writing the credential file fail?
    None

ASSUME TokenConstants ==
    /\ Saver \subseteq Proc /\ MaxToken \in Nat \ {0}
    /\ SaveMayFail \in BOOLEAN
    /\ None \notin Nat /\ None \notin Obj /\ None \notin Proc

VARIABLES
    issued,  \* tokens issued so far: the latest is token number `issued'
    live,    \* tokens the service accepts
    file,    \* token in the credential file, None without a file
    cur,     \* the pool's object, None when the account is not in the pool
    token,   \* RefreshToken of each object
    lock,    \* holder of each object's lock
    pc,      \* refresher: "idle", "picked", "asking", "save"
    hold,    \* the object each refresher took
    scan,    \* reloadAccounts: {what it read}, {} when not running
    removing,\* is RemoveAccount between the file and the pool?
    spoilt   \* what went wrong so far (observed), see Spoil below

vars == <<issued, live, file, cur, token, lock, pc, hold, scan, removing,
          spoilt>>

Token == 1 .. MaxToken

\* How the file can come to hold a dead token: a rotated token is lost with
\* an answer, a failed save or the process; its refresher never saves it; a
\* reload installs a second object while a refresher still holds the first.
Spoil(k, b) == spoilt' = IF b THEN spoilt \cup {k} ELSE spoilt

\* An object nobody refers to.
Free(o) == o # cur /\ \A p \in Proc : hold[p] # o

-----------------------------------------------------------------------------
Init ==
    /\ issued = 1 /\ live = {1} /\ file = 1
    /\ \E o \in Obj : /\ cur = o
                      /\ token = [x \in Obj |-> IF x = o THEN 1 ELSE None]
    /\ lock = [o \in Obj |-> None]
    /\ pc = [p \in Proc |-> "idle"]
    /\ hold = [p \in Proc |-> None]
    /\ scan = {} /\ removing = FALSE
    /\ spoilt = {}

\* Pick or AuthByUID: the refresher has the pool's object from here on.
Take(p) ==
    /\ pc[p] = "idle" /\ cur # None
    /\ pc' = [pc EXCEPT ![p] = "picked"]
    /\ hold' = [hold EXCEPT ![p] = cur]
    /\ UNCHANGED <<issued, live, file, cur, token, lock, scan, removing,
                   spoilt>>

\* RefreshToken locks the object and sends its token.
Ask(p) ==
    /\ pc[p] = "picked" /\ lock[hold[p]] = None
    /\ lock' = [lock EXCEPT ![hold[p]] = p]
    /\ pc' = [pc EXCEPT ![p] = "asking"]
    /\ UNCHANGED <<issued, live, file, cur, token, hold, scan, removing,
                   spoilt>>

\* The service replaces a token it accepts by a new one.
Rotate(t) ==
    /\ t \in live /\ issued < MaxToken
    /\ issued' = issued + 1
    /\ live' = (live \ {t}) \cup {issued + 1}

Release(p) == lock' = [lock EXCEPT ![hold[p]] = None]
Drop(p)    == /\ pc' = [pc EXCEPT ![p] = "idle"]
              /\ hold' = [hold EXCEPT ![p] = None]

RefreshedKeepsOld(p) ==   \* mutant: the answer's refresh token is ignored
    /\ pc[p] = "asking" /\ Rotate(token[hold[p]])
    /\ Spoil("unsaved", p \notin Saver)
    /\ Release(p)
    /\ IF p \in Saver
       THEN pc' = [pc EXCEPT ![p] = "save"] /\ UNCHANGED hold
       ELSE Drop(p)
    /\ UNCHANGED <<file, cur, token, scan, removing>>

\* A successful answer brings a new refresh token.
Refreshed(p) ==
    /\ pc[p] = "asking" /\ Rotate(token[hold[p]])
    /\ token' = [token EXCEPT ![hold[p]] = issued + 1]
    /\ Spoil("unsaved", p \notin Saver)
    /\ Release(p)
    /\ IF p \in Saver
       THEN pc' = [pc EXCEPT ![p] = "save"] /\ UNCHANGED hold
       ELSE Drop(p)
    /\ UNCHANGED <<file, cur, scan, removing>>

\* Refused, not sent, or answered but the answer never arrived.
RefreshFailed(p) ==
    /\ pc[p] = "asking"
    /\ \/ UNCHANGED <<issued, live, spoilt>>
       \/ Rotate(token[hold[p]]) /\ Spoil("lost", TRUE)
    /\ Release(p) /\ Drop(p)
    /\ UNCHANGED <<file, cur, token, scan, removing>>

\* SaveAtomic: the object's token as it is now, to the object's file path,
\* whether the file still exists or not.
Save(p) ==
    /\ pc[p] = "save" /\ lock[hold[p]] = None
    /\ \/ file' = token[hold[p]] /\ UNCHANGED spoilt
       \/ SaveMayFail /\ Spoil("lost", TRUE) /\ UNCHANGED file
    /\ Drop(p)
    /\ UNCHANGED <<issued, live, cur, token, lock, scan, removing>>

-----------------------------------------------------------------------------
\* A login issues a token and writes the file; a reload always follows it.
Login ==
    /\ issued < MaxToken
    /\ issued' = issued + 1 /\ live' = live \cup {issued + 1}
    /\ file' = issued + 1
    /\ UNCHANGED <<cur, token, lock, pc, hold, scan, removing, spoilt>>

\* reloadAccounts, after any login on any channel: read the directory ...
ScanDir ==
    /\ scan = {} /\ scan' = {file}
    /\ UNCHANGED <<issued, live, file, cur, token, lock, pc, hold, removing,
                   spoilt>>

\* ... and align the pool: the entry gets the scanned object.
SyncToDir ==
    /\ scan # {} /\ scan' = {}
    /\ IF scan = {None}
       THEN cur' = None /\ UNCHANGED token
       ELSE \E o \in Obj : /\ Free(o) /\ cur' = o
                           /\ token' = [token EXCEPT ![o] = CHOOSE t \in scan : TRUE]
    /\ Spoil("swapped", \E p \in Proc : hold[p] # None)
    /\ UNCHANGED <<issued, live, file, lock, pc, hold, removing>>

\* RemoveAccount: delete the file, then drop the account from the pool.
RemoveFile ==
    /\ cur # None /\ ~removing
    /\ removing' = TRUE /\ file' = None
    /\ UNCHANGED <<issued, live, cur, token, lock, pc, hold, scan, spoilt>>

RemoveFromPool ==
    /\ removing
    /\ removing' = FALSE /\ cur' = None
    /\ UNCHANGED <<issued, live, file, token, lock, pc, hold, scan, spoilt>>

\* The process dies and starts again from the files.
Restart ==
    /\ IF file = None
       THEN cur' = None /\ UNCHANGED token
       ELSE \E o \in Obj : cur' = o /\ token' = [token EXCEPT ![o] = file]
    /\ lock' = [o \in Obj |-> None]
    /\ pc' = [p \in Proc |-> "idle"] /\ hold' = [p \in Proc |-> None]
    /\ scan' = {} /\ removing' = FALSE
    /\ \/ UNCHANGED <<issued, live>>
       \/ \E p \in Proc : pc[p] = "asking" /\ Rotate(token[hold[p]])
    /\ Spoil("lost", \E p \in Proc : pc[p] \in {"asking", "save"})
    /\ UNCHANGED file

Next ==
    \/ \E p \in Proc : Take(p) \/ Ask(p) \/ Refreshed(p) \/ RefreshFailed(p) \/ Save(p)
    \/ Login \/ ScanDir \/ SyncToDir \/ RemoveFile \/ RemoveFromPool \/ Restart

Spec == Init /\ [][Next]_vars

-----------------------------------------------------------------------------
\* Types; a lock is held exactly by the refresher waiting for an answer.
TypeOK ==
    /\ issued \in Token /\ live \subseteq 1 .. issued
    /\ file \in Token \cup {None}
    /\ cur \in Obj \cup {None}
    /\ scan \subseteq Token \cup {None}
    /\ removing \in BOOLEAN /\ spoilt \subseteq {"lost", "unsaved", "swapped"}
    /\ token \in [Obj -> Token \cup {None}]
    /\ lock \in [Obj -> Proc \cup {None}]
    /\ pc \in [Proc -> {"idle", "picked", "asking", "save"}]
    /\ hold \in [Proc -> Obj \cup {None}]
    /\ \A p \in Proc : /\ pc[p] = "idle" <=> hold[p] = None
                       /\ pc[p] = "asking" => lock[hold[p]] = p
    /\ \A o \in Obj : lock[o] # None => pc[lock[o]] = "asking" /\ hold[lock[o]] = o

Quiet == \A p \in Proc : pc[p] # "save"
FileIsLive == Quiet /\ file # None => file \in live

\* However refreshers, logins, reloads, removals and restarts interleave, the
\* credential file holds a token the service accepts whenever no save is
\* pending, unless one of the three things above (Spoil) happened: the two
\* critical sections of a refresh (rotate, save) need not be one.
SavedTokenIsLive == spoilt = {} => FileIsLive

\* upstream/client.go:241: the caller of RefreshToken is responsible for
\* saving, so only a lost token or a reload in between makes the file stale.
CallersSave == spoilt \cap {"lost", "swapped"} = {} => FileIsLive

\* app.go:839: RemoveAccount deletes the account's file and its pool entry;
\* only a login brings the file back.
RemovedStaysRemoved == [][file = None /\ file' # None => Login]_vars

\* app.go:476: reloadAccounts aligns the pool with the newest files, so when
\* the file holds a token the service accepts the pool's new object does too.
ReloadAligns ==
    [][SyncToDir /\ file \in live /\ cur' # None => token'[cur'] \in live]_vars
=============================================================================
