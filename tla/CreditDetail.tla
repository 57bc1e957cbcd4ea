---------------------------- MODULE CreditDetail ----------------------------
(***************************************************************************)
(* The dialog of an account's credits (CreditDetailDialog of               *)
(* webui/src/pages/AccountsPage.tsx): opened for an account it asks for    *)
(* its detail; closed and opened again, for that account or another, it    *)
(* asks anew, while the answers of before are still to come.               *)
(***************************************************************************)
CONSTANTS Owners,      \* the accounts of the page
          NoOwner,
          DetailSlots  \* questions under way

ASSUME DetailAssumption == NoOwner \notin Owners

VARIABLES
  view,      \* whose dialog is open
  detail,    \* loading, and whose data or error it holds
  questions  \* per slot where it is, whose, and whether the effect that sent it
             \* has been cleaned up

detailVars == <<view, detail, questions>>

NoQuestion == [at |-> "none", of |-> NoOwner, cancelled |-> FALSE]

DetailInit ==
  /\ view = NoOwner
  /\ detail = [loading |-> FALSE, of |-> NoOwner]
  /\ questions = [q \in DetailSlots |-> NoQuestion]

\* The button of an account: the effect clears what was shown and asks.
OpenDetail(u, q) ==
  /\ view = NoOwner /\ questions[q].at = "none"
  /\ view' = u
  /\ detail' = [loading |-> TRUE, of |-> NoOwner]
  /\ questions' = [questions EXCEPT ![q] = [NoQuestion EXCEPT !.at = "sent", !.of = u]]

\* The dialog is closed: the effect's cleanup, and the effect of no view, which
\* leaves the loading as it is.
CloseDetail ==
  /\ view # NoOwner /\ view' = NoOwner
  /\ detail' = [detail EXCEPT !.of = NoOwner]
  /\ questions' = [q \in DetailSlots |->
       IF questions[q].at = "none" THEN NoQuestion
       ELSE [questions[q] EXCEPT !.cancelled = TRUE]]

\* The server answers, with the detail or an error.
AnswerDetail(q) ==
  /\ questions[q].at = "sent"
  /\ questions' = [questions EXCEPT ![q].at = "answered"]
  /\ UNCHANGED <<view, detail>>

\* Mutant: it is not looked whether the question is an old one.
ShownAnyway(q) == [loading |-> FALSE, of |-> questions[q].of]

\* What an answer leaves in the dialog: nothing, after the cleanup.
Shown(q) == IF questions[q].cancelled THEN detail
            ELSE [loading |-> FALSE, of |-> questions[q].of]

DetailArrives(q) ==
  /\ questions[q].at = "answered"
  /\ detail' = Shown(q)
  /\ questions' = [questions EXCEPT ![q] = NoQuestion]
  /\ UNCHANGED view

\* What the dialog renders: a skeleton while it loads, then the credits or the
\* error it holds; it is whose they are.
CreditsShown == IF detail.loading THEN NoOwner ELSE detail.of

DetailNext == \/ CloseDetail
              \/ \E q \in DetailSlots : \/ AnswerDetail(q) \/ DetailArrives(q)
                                        \/ \E u \in Owners : OpenDetail(u, q)

---------------------------------------------------------------------------

(* The credits the dialog shows are those of the account it is open for, and it
   shows them or an error as soon as it is not loading, in whatever order the
   answers of this view and of earlier ones arrive.                          *)
DetailOfView ==
  /\ view # NoOwner /\ ~detail.loading => CreditsShown = view
  /\ view # NoOwner /\ detail.loading =>
       \E q \in DetailSlots : questions[q].at # "none" /\ ~questions[q].cancelled
============================================================================
