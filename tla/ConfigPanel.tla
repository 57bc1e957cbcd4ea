---------------------------- MODULE ConfigPanel ----------------------------
(***************************************************************************)
(* The API page (webui/src/pages/ApiPage.tsx): it polls the application's  *)
(* state and changes two settings of the server, the API key and the       *)
(* check-in times, each through a modal dialog.  The server keeps each     *)
(* setting three times: in its configuration (which the page shows), in    *)
(* the file, and where it is in force, the request handler's key and the   *)
(* schedulers' minutes.  A setting is the version of its last change.      *)
(***************************************************************************)
EXTENDS PagePolling

Settings == {"key", "times"}

VARIABLES
  cfg, file, inForce,  \* per setting the version configured, written, in force
  pending,          \* per setting the versions written that are not yet put
                    \* in force, the lock being released in between
  overlapped,       \* observation: its last change met another one pending
  refused,          \* per setting: its last change was answered with an error
  unwritten,        \* the last write of the configuration failed
  open,             \* the dialog that is open, or "none"
  save              \* per setting the dialog's save under way

serverVars == <<cfg, file, inForce, pending, overlapped, refused, unwritten>>
dialogVars == <<open, save>>
configVars == <<serverVars, dialogVars>>

ConfigInit ==
  /\ cfg = [s \in Settings |-> 1] /\ file = cfg /\ inForce = cfg
  /\ pending = [s \in Settings |-> {}]
  /\ overlapped = [s \in Settings |-> FALSE]
  /\ refused = [s \in Settings |-> FALSE]
  /\ unwritten = FALSE
  /\ open = "none"
  /\ save = [s \in Settings |-> "no"]

\* The buttons of the dialogs, which are modal: both are there once the page has
\* loaded, that of the key on its card and that of the times on its own.
KeyOffered == open = "none" /\ ~shown.loading
TimesOffered == open = "none" /\ ~shown.loading

OpenKey ==
  /\ KeyOffered /\ open' = "key"
  /\ UNCHANGED <<pollVars, serverVars, save>>

OpenTimes ==
  /\ TimesOffered /\ open' = "times"
  /\ UNCHANGED <<pollVars, serverVars, save>>

\* A dialog is closed, also while its save is under way.
Dismiss ==
  /\ open # "none" /\ open' = "none"
  /\ UNCHANGED <<pollVars, serverVars, save>>

SendSave(s) ==
  /\ open = s /\ save[s] = "no"
  /\ save' = [save EXCEPT ![s] = "sent"]
  /\ UNCHANGED <<pollVars, serverVars, open>>

\* handleSave of the dialogs, unless a save of the dialog is under way; a draft
\* it does not take (empty, or a time that is not HH:MM) sends nothing.
SubmitKey == SendSave("key")
SubmitTimes == SendSave("times")

\* SetAPIKey and SetCheckinTimes under the lock: the configuration changes, and
\* all of it is written, or not.
Configure(s, written) ==
  /\ cfg' = [cfg EXCEPT ![s] = source + 1]
  /\ source' = source + 1
  /\ file' = IF written THEN cfg' ELSE file
  /\ unwritten' = ~written
  /\ refused' = [refused EXCEPT ![s] = ~written]
  /\ pending' = IF written THEN [pending EXCEPT ![s] = @ \cup {cfg'[s]}] ELSE pending
  /\ overlapped' = [overlapped EXCEPT ![s] = pending[s] # {}]

\* The server handles a save.
Accept(s) ==
  /\ save[s] = "sent" /\ source < MaxVersion
  /\ \E written \in BOOLEAN :
       /\ Configure(s, written)
       /\ save' = [save EXCEPT ![s] = IF written THEN "written" ELSE "failed"]
  /\ UNCHANGED <<enabled, generation, inFlight, reqs, loops, chained, shown,
                 faults, doubled, inForce, open>>

\* Mutant: the running parts are not told.
PutInForceNot(s, v) ==
  /\ v \in pending[s]
  /\ pending' = [pending EXCEPT ![s] = @ \ {v}]
  /\ save' = IF save[s] = "written" /\ v = cfg[s] THEN [save EXCEPT ![s] = "ok"] ELSE save
  /\ UNCHANGED <<pollVars, cfg, file, inForce, overlapped, refused, unwritten, open>>

\* ... and after the lock the handler or the schedulers are told, and the save is
\* answered, if it is the one the page waits for.
PutInForce(s, v) ==
  /\ v \in pending[s]
  /\ inForce' = [inForce EXCEPT ![s] = v]
  /\ pending' = [pending EXCEPT ![s] = @ \ {v}]
  /\ save' = IF save[s] = "written" /\ v = cfg[s] THEN [save EXCEPT ![s] = "ok"] ELSE save
  /\ UNCHANGED <<pollVars, cfg, file, overlapped, refused, unwritten, open>>

\* A save or its answer is lost, whatever the server goes on to do.
LoseSave(s) ==
  /\ save[s] \in {"sent", "written", "ok"} /\ faults < MaxFaults
  /\ save' = [save EXCEPT ![s] = "failed"]
  /\ faults' = faults + 1
  /\ UNCHANGED <<source, enabled, generation, inFlight, reqs, loops, chained,
                 shown, doubled, serverVars, open>>

\* A save has succeeded: its dialog closes and the page refreshes.
Saved(s) ==
  /\ save[s] = "ok"
  /\ save' = [save EXCEPT ![s] = "no"]
  /\ open' = IF open = s THEN "none" ELSE open
  /\ Refresh
  /\ UNCHANGED <<serverVars>>

\* A save has failed: its dialog stays as it is, and another may be tried.
NotSaved(s) ==
  /\ save[s] = "failed"
  /\ save' = [save EXCEPT ![s] = "no"]
  /\ UNCHANGED <<pollVars, serverVars, open>>

\* The process starts again with the file: what is configured there is in
\* force.  Unless the two differ that changes nothing here.
RestartServer ==
  /\ cfg # inForce /\ source < MaxVersion
  /\ cfg' = file /\ inForce' = file
  /\ source' = source + 1
  /\ pending' = [s \in Settings |-> {}]
  /\ overlapped' = [s \in Settings |-> FALSE]
  /\ refused' = [s \in Settings |-> FALSE] /\ unwritten' = FALSE
  /\ save' = [s \in Settings |-> IF save[s] = "written" THEN "failed" ELSE save[s]]
  /\ UNCHANGED <<enabled, generation, inFlight, reqs, loops, chained, shown,
                 faults, doubled, file, open>>

ConfigNext ==
  \/ PollStep /\ UNCHANGED configVars
  \/ \E s \in Settings : \/ Accept(s) \/ LoseSave(s) \/ Saved(s) \/ NotSaved(s)
                         \/ \E v \in pending[s] : PutInForce(s, v)
  \/ OpenKey \/ OpenTimes \/ SubmitKey \/ SubmitTimes \/ Dismiss \/ RestartServer

---------------------------------------------------------------------------

(* A setting in force is the one configured, which the page shows, unless its
   last change was answered with an error, is still being put in force, or was
   written while another change of it was; and the file is the configuration
   unless the last write failed, whichever setting it was of: a write of one
   setting also writes what a refused change of the other has left behind.    *)
InForce ==
  /\ \A s \in Settings :
       inForce[s] # cfg[s] => refused[s] \/ pending[s] # {} \/ overlapped[s]
  /\ file # cfg => unwritten

(* Refuted: the last change of a setting is the one in force in the end
   (app.go:882, 937).                                                        *)
LastChangeInForce ==
  \A s \in Settings : inForce[s] # cfg[s] => refused[s] \/ pending[s] # {}
============================================================================
