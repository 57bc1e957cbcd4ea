---------------------------- MODULE ImportDialog ----------------------------
(***************************************************************************)
(* The dialog that imports accounts from files or pasted text              *)
(* (ImportDialog of webui/src/pages/AccountsPage.tsx).  A run posts its    *)
(* entries one after the other and marks each in the list of the dialog,   *)
(* by its index.  Text is pasted and files are dropped only when no run    *)
(* says it is busy, but files can be chosen at any time, and are read      *)
(* before their run begins.                                                *)
(***************************************************************************)
EXTENDS Naturals, Sequences

CONSTANTS Files,       \* credentials, each in a file or pasted
          NotJson,     \* the name of the item that says that none was chosen
          ImportRuns,  \* numbers of runs that may be under way
          MaxMisses    \* bound: requests that fail

ASSUME ImportAssumption == NotJson \notin Files /\ ImportRuns \subseteq Nat /\ MaxMisses \in Nat

VARIABLES
  imported,    \* the server's: files it has accepted
  importOpen,  \* the dialog is open
  items,       \* what it lists: the file and its status
  importBusy,
  works,       \* the runs: where they are, their entries, the index of now
  mixed, \* observation: a list was made while a run was going on
  unlisted,    \* observation: accepted, as the dialog knows, since the accounts
               \* were loaded last
  misses

importVars == <<imported, importOpen, items, importBusy, works, mixed,
                unlisted, misses>>

NoWork == [at |-> "none", entries |-> <<>>, i |-> 0, anyOk |-> FALSE]
Entries == {<<f>> : f \in Files} \cup {s \in Files \X Files : s[1] # s[2]}
FreeRun(k) == works[k].at = "none" /\ \A j \in ImportRuns : j < k => works[j].at # "none"
Going == {k \in ImportRuns : works[k].at \in {"sent", "ok", "error"}}

ImportInit ==
  /\ imported = {}
  /\ importOpen = FALSE /\ items = <<>> /\ importBusy = FALSE
  /\ works = [k \in ImportRuns |-> NoWork]
  /\ mixed = FALSE /\ unlisted = {}
  /\ misses = 0

OpenImport ==
  /\ ~importOpen /\ importOpen' = TRUE
  /\ UNCHANGED <<imported, items, importBusy, works, mixed, unlisted, misses>>

\* handleOpenChange(false): the list is cleared, a run goes on.
CloseImport ==
  /\ importOpen /\ importOpen' = FALSE
  /\ items' = <<>>
  /\ UNCHANGED <<imported, importBusy, works, mixed, unlisted, misses>>

\* runImports: a new list, all pending but the first, which is posted.
RunImports(k, entries) ==
  /\ importBusy' = TRUE
  /\ items' = [i \in DOMAIN entries |->
                 [file |-> entries[i], status |-> IF i = 1 THEN "importing" ELSE "pending"]]
  /\ works' = [works EXCEPT ![k] = [at |-> "sent", entries |-> entries, i |-> 1,
                                    anyOk |-> FALSE]]
  /\ mixed' = (Going # {})
  /\ UNCHANGED <<imported, importOpen, unlisted, misses>>

\* The text box of the dialog and its button, off while a run says it is busy.
PasteOffered == importOpen /\ ~importBusy

\* handlePasteImport, by its button; an empty array imports nothing.
PasteImport(k, entries) ==
  /\ PasteOffered /\ FreeRun(k)
  /\ RunImports(k, entries)

PasteNothing ==
  /\ PasteOffered
  /\ items' = <<>>
  /\ UNCHANGED <<imported, importOpen, importBusy, works, mixed, unlisted, misses>>

\* handleFiles, by a drop or a choice of files: they are read first.
PickFiles(k, entries) ==
  /\ importOpen /\ FreeRun(k)
  /\ works' = [works EXCEPT ![k] = [NoWork EXCEPT !.at = "reading", !.entries = entries]]
  /\ UNCHANGED <<imported, importOpen, items, importBusy, mixed, unlisted, misses>>

PickNothing ==
  /\ importOpen
  /\ items' = <<[file |-> NotJson, status |-> "error"]>>
  /\ mixed' = (Going # {})
  /\ UNCHANGED <<imported, importOpen, importBusy, works, unlisted, misses>>

FilesRead(k) ==
  /\ works[k].at = "reading"
  /\ RunImports(k, works[k].entries)

\* POST /api/account/import, which accepts a file or refuses it.
HandleImport(k) ==
  /\ works[k].at = "sent"
  /\ \E outcome \in {"ok", "error"} :
       /\ works' = [works EXCEPT ![k].at = outcome]
       /\ imported' = IF outcome = "ok" THEN imported \cup {works[k].entries[works[k].i]}
                      ELSE imported
  /\ UNCHANGED <<importOpen, items, importBusy, mixed, unlisted, misses>>

LoseImport(k) ==
  /\ works[k].at \in {"sent", "ok"} /\ misses < MaxMisses
  /\ works' = [works EXCEPT ![k].at = "error"]
  /\ misses' = misses + 1
  /\ UNCHANGED <<imported, importOpen, items, importBusy, mixed, unlisted>>

\* patchItem: whatever item has the index by now, if one has it.
Patch(list, i, status) ==
  IF i \in DOMAIN list THEN [list EXCEPT ![i].status = status] ELSE list

\* Mutant: only the last entry counts.
MarkLast(k) ==
  LET w == works[k]
      done == Patch(items, w.i, w.at)
      known == IF w.at = "ok" THEN unlisted \cup {w.entries[w.i]} ELSE unlisted
  IN /\ w.at \in {"ok", "error"}
     /\ IF w.i < Len(w.entries)
          THEN /\ items' = Patch(done, w.i + 1, "importing")
               /\ works' = [works EXCEPT ![k] = [w EXCEPT !.at = "sent", !.i = w.i + 1]]
               /\ unlisted' = known
               /\ UNCHANGED importBusy
          ELSE /\ items' = done
               /\ works' = [works EXCEPT ![k] = NoWork]
               /\ importBusy' = FALSE
               /\ unlisted' = IF w.at = "ok" THEN {} ELSE known
     /\ UNCHANGED <<imported, importOpen, mixed, misses>>

\* The run goes on: the entry is marked and the next one posted; after the last
\* the accounts are loaded if any was accepted.
Mark(k) ==
  LET w == works[k]
      any == w.anyOk \/ w.at = "ok"
      done == Patch(items, w.i, w.at)
      known == IF w.at = "ok" THEN unlisted \cup {w.entries[w.i]} ELSE unlisted
  IN /\ w.at \in {"ok", "error"}
     /\ IF w.i < Len(w.entries)
          THEN /\ items' = Patch(done, w.i + 1, "importing")
               /\ works' = [works EXCEPT ![k] =
                              [w EXCEPT !.at = "sent", !.i = w.i + 1, !.anyOk = any]]
               /\ unlisted' = known
               /\ UNCHANGED importBusy
          ELSE /\ items' = done
               /\ works' = [works EXCEPT ![k] = NoWork]
               /\ importBusy' = FALSE
               /\ unlisted' = IF any THEN {} ELSE known
     /\ UNCHANGED <<imported, importOpen, mixed, misses>>

ImportNext ==
  \/ OpenImport \/ CloseImport \/ PasteNothing \/ PickNothing
  \/ \E k \in ImportRuns :
       \/ FilesRead(k) \/ HandleImport(k) \/ LoseImport(k) \/ Mark(k)
       \/ \E entries \in Entries : PasteImport(k, entries) \/ PickFiles(k, entries)

---------------------------------------------------------------------------

(* What the dialog says of an import is true: an item is marked as imported only
   if the server has taken its file, and once no run goes on every item has its
   outcome, unless a list was made while another run went on, whose marks go to
   whatever has their index.  And whatever runs overlap, when none goes on the
   accounts have been loaded since the last file known to be accepted.       *)
ImportsTold ==
  /\ ~mixed =>
       \A i \in DOMAIN items :
         /\ items[i].status = "ok" => items[i].file \in imported
         /\ Going = {} => items[i].status \in {"ok", "error"}
  /\ Going = {} => unlisted = {}

(* Refuted: an item is marked as imported only if its file is (AccountsPage.tsx:
   291); files chosen while a run goes on take over its marks.               *)
MarksTrue == \A i \in DOMAIN items : items[i].status = "ok" => items[i].file \in imported
============================================================================
