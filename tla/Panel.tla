-------------------------------- MODULE Panel --------------------------------
(***************************************************************************)
(* The pages of the web panel.  The router (App.tsx) shows one page at a   *)
(* time, keyed by its path, so that going to a page starts it anew; what a *)
(* page does until it is left is a behaviour of its module.  The dialogs   *)
(* of the accounts page, which add accounts and show credits, meet it in   *)
(* one call, its load, and are parts of their own.                         *)
(***************************************************************************)
EXTENDS ConfigPanel, AccountsList, LoginDialog, ImportDialog, CreditDetail, CatsPanel

VARIABLE route

pollPages == <<pollVars, configVars>>
accountParts == <<listVars, loginDialogVars, importVars, detailVars>>
panelVars == <<route, pollPages, accountParts, catsVars>>

Routes == {"reqlog", "keys", "token", "add", "import", "detail", "cats"}

PanelInit ==
  /\ route \in Routes
  /\ PollInit /\ ConfigInit /\ CatsInit
  /\ ListInit /\ DialogInit /\ ImportInit /\ DetailInit

On(r, A) == route = r /\ A /\ UNCHANGED route

OnReqlog(A) == On("reqlog", A) /\ UNCHANGED <<configVars, accountParts, catsVars>>
OnKeys(A)   == On("keys", A) /\ UNCHANGED <<accountParts, catsVars>>
OnToken(A)  == On("token", A) /\ UNCHANGED <<pollPages, loginDialogVars, importVars,
                                             detailVars, catsVars>>
OnAdd(A)    == On("add", A) /\ UNCHANGED <<pollPages, listVars, importVars, detailVars,
                                           catsVars>>
OnImport(A) == On("import", A) /\ UNCHANGED <<pollPages, listVars, loginDialogVars,
                                              detailVars, catsVars>>
OnDetail(A) == On("detail", A) /\ UNCHANGED <<pollPages, listVars, loginDialogVars,
                                              importVars, catsVars>>
OnCats(A)   == On("cats", A) /\ UNCHANGED <<pollPages, accountParts>>

PanelNext == \/ OnReqlog(PollNext) \/ OnKeys(ConfigNext) \/ OnToken(ListNext)
             \/ OnAdd(DialogNext) \/ OnImport(ImportNext) \/ OnDetail(DetailNext)
             \/ OnCats(CatsNext)

Polls(A) == OnReqlog(A) \/ OnKeys(A /\ UNCHANGED configVars)

\* Requests are answered or fail and their promises resume, one by one; the
\* timers of a page fire; a login and a run of tasks come to an end.
PanelFairness ==
  /\ \A r \in Requests : WF_pollVars(Polls(Serve(r) \/ Settle(r)))
  /\ WF_pollVars(Polls(\E g \in Gens : Fire(g)))
  /\ WF_loginDialogVars(OnAdd(LoginOver))
  /\ \A x \in TickSlots :
       WF_loginDialogVars(OnAdd(Question(x) \/ AnswerQuestion(x) \/ Told(x)))
  /\ WF_catsVars(OnCats(RunEnds)) /\ WF_catsVars(OnCats(CacheAges))
  /\ \A r \in StatusSlots : WF_catsVars(OnCats(StatusStep(r) \/ LoadStatus(r, FALSE)))
  /\ \A q \in FeedSlots : WF_catsVars(OnCats(FeedStep(q) \/ PollFeed(q)))

PanelSpec == PanelInit /\ [][PanelNext]_panelVars /\ PanelFairness

-----------------------------------------------------------------------------

(* The polling pages, of use-polling.ts, come to show the server's value, and *)
(* the cats page the last status (CatsPage.tsx).                             *)
PagesCatchUp == /\ route \in {"reqlog", "keys"} => CatchesUp
                /\ route = "cats" => CatsCatchUp
=============================================================================
