--------------------------- MODULE PanelSessions ---------------------------
(***************************************************************************)
(* The sessions of the web panel (app.go): a login with the admin password *)
(* makes one, a logout ends it, the table is written to a file with the    *)
(* fingerprint of the password, and read again when the process starts,    *)
(* where the password may be another one or none.  A session is the token  *)
(* of its cookie.  Every handler runs under the lock of the table, or of   *)
(* the guard against guessing, and is one step.                            *)
(***************************************************************************)
EXTENDS Naturals, FiniteSets

CONSTANTS Tokens, Passwords,
          Unset,      \* admin_password is empty: no one needs to log in
          None,
          FailLimit,  \* loginFailLimit
          MaxStarts   \* bound: starts of the process

ASSUME SessionsAssumption == /\ Unset \notin Passwords /\ None \notin Passwords
                             /\ None # Unset /\ None \notin Tokens
                             /\ FailLimit \in Nat \ {0}
                             /\ MaxStarts \in Nat

VARIABLES
  password,  \* cfg.AdminPassword
  live,      \* the keys of the table of sessions
  made,      \* whether that table exists (is not nil)
  saved,     \* the file: the tokens in it, and whose password's fingerprint
  expired,   \* tokens past their TTL
  fails,     \* loginGuard: failures counted ...
  locked,    \* ... and whether the peer is locked out
  issued,    \* per token the password it was issued under, None before
  loggedOut, \* observation: tokens whose logout has been written
  starts

sessionVars == <<password, live, made, saved, expired, fails, locked, issued,
                 loggedOut, starts>>
guardVars == <<fails, locked>>

NoFile == [fp |-> None, tokens |-> {}]

SessionsInit ==
  /\ password \in Passwords \cup {Unset}
  /\ live = {} /\ made = FALSE
  /\ saved = NoFile
  /\ expired = {}
  /\ fails = 0 /\ locked = FALSE
  /\ issued = [t \in Tokens |-> None]
  /\ loggedOut = {}
  /\ starts = 0

\* lookupSession
Valid(t) == t \in live \ expired

\* saveSessionsLocked: a table that does not exist is not written, and an
\* error of the write, when it does not go well, is ignored.
Save(table, well) ==
  saved' = IF made' /\ well THEN [fp |-> password, tokens |-> table] ELSE saved

Fresh == {t \in Tokens : issued[t] = None}

\* POST /api/login with the right password: expired sessions are dropped, and
\* one is made and written.
Login(t) ==
  /\ password # Unset /\ ~locked /\ t \in Fresh
  /\ live' = (live \ expired) \cup {t} /\ made' = TRUE
  /\ \E well \in BOOLEAN : Save(live', well)
  /\ issued' = [issued EXCEPT ![t] = password]
  /\ fails' = 0
  /\ UNCHANGED <<password, expired, locked, loggedOut, starts>>

\* ... and with a wrong one: the failure counts, the last one locks.
WrongLogin ==
  /\ password # Unset /\ ~locked
  /\ fails' = (fails + 1) % FailLimit
  /\ locked' = (fails + 1 >= FailLimit)
  /\ UNCHANGED <<password, live, made, saved, expired, issued, loggedOut, starts>>

\* Mutant: the table is written before the session is taken out.
LogoutSavedFirst(t) ==
  /\ live' = live \ {t} /\ made' = made
  /\ \E well \in BOOLEAN :
       /\ Save(live, well)
       /\ loggedOut' = IF made /\ well THEN loggedOut \cup {t} ELSE loggedOut
  /\ UNCHANGED <<password, expired, guardVars, issued, starts>>

\* POST /api/logout with the cookie of a session.
Logout(t) ==
  /\ live' = live \ {t} /\ made' = made
  /\ \E well \in BOOLEAN :
       /\ Save(live', well)
       /\ loggedOut' = IF made /\ well THEN loggedOut \cup {t} ELSE loggedOut
  /\ UNCHANGED <<password, expired, guardVars, issued, starts>>

\* Time passes: a session's, that of the lockout.
Expire(t) ==
  /\ t \notin Fresh \cup expired
  /\ expired' = expired \cup {t}
  /\ UNCHANGED <<password, live, made, saved, guardVars, issued, loggedOut, starts>>

Unlock ==
  /\ locked /\ locked' = FALSE
  /\ UNCHANGED <<password, live, made, saved, expired, fails, issued, loggedOut, starts>>

\* Mutant: the fingerprint is not compared.
RestartAny(p) ==
  /\ starts < MaxStarts /\ starts' = starts + 1
  /\ password' = p
  /\ made' = (saved # NoFile)
  /\ live' = saved.tokens \ expired
  /\ fails' = 0 /\ locked' = FALSE
  /\ UNCHANGED <<saved, expired, issued, loggedOut>>

\* The process ends and starts again, with whatever password the configuration
\* has by then; loadSessions takes the file if its fingerprint is that password's.
Restart(p) ==
  /\ starts < MaxStarts /\ starts' = starts + 1
  /\ password' = p
  /\ made' = (saved.fp = p)
  /\ live' = IF made' THEN saved.tokens \ expired ELSE {}
  /\ fails' = 0 /\ locked' = FALSE
  /\ UNCHANGED <<saved, expired, issued, loggedOut>>

ServerAlone == \/ \E t \in Tokens : Expire(t)
               \/ Unlock
               \/ \E p \in Passwords \cup {Unset} : Restart(p)

SessionsNext == \/ \E t \in Tokens : Login(t) \/ Logout(t)
                \/ WrongLogin
                \/ ServerAlone

---------------------------------------------------------------------------

SessionsTypeOK ==
  /\ password \in Passwords \cup {Unset}
  /\ live \subseteq Tokens /\ made \in BOOLEAN
  /\ saved \in [fp: Passwords \cup {None}, tokens: SUBSET Tokens]
  /\ expired \subseteq Tokens
  /\ fails \in 0..FailLimit - 1 /\ locked \in BOOLEAN
  /\ issued \in [Tokens -> Passwords \cup {None}]
  /\ loggedOut \subseteq Tokens
  /\ starts \in 0..MaxStarts

(* Changing the admin password ends every session: those of the table were
   issued under the password in force, those of the file under the one whose
   fingerprint it has, however often the password changes and changes back,
   and whichever writes fail (the promise of app.go:1458-1460).              *)
SessionsOfPassword ==
  /\ \A t \in live : issued[t] = password
  /\ \A t \in saved.tokens : issued[t] = saved.fp

(* A session whose logout was written is never in the table again, nor in the
   file, whatever logs in, logs out or restarts after it.                    *)
LoggedOutStaysOut == loggedOut \cap (live \cup saved.tokens) = {}
=============================================================================
