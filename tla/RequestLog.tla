----------------------------- MODULE RequestLog -----------------------------
(***************************************************************************)
(* reqlog.go: the log of requests, a window in memory and a journal of a   *)
(* line per request, and what the handlers put into it.  Writes may fail   *)
(* or be cut short, the process may die between any two and starts again,  *)
(* and the records of an older version are imported at the first start.    *)
(* Records are numbered in their order, those of the older version first.  *)
(***************************************************************************)
EXTENDS Naturals, SequencesExt

CONSTANTS
    Cap,        \* reqLogMemCap
    Old,        \* records in the file of the older version
    MaxCalls,   \* calls (bound)
    MaxStarts,  \* starts of the process (bound)
    NoRecord

ASSUME LogConstants ==
    /\ Cap \in Nat \ {0} /\ Old \in Nat /\ MaxCalls \in Nat /\ MaxStarts \in Nat
    /\ NoRecord \notin Nat

VARIABLES
    logs,      \* the window in memory
    file,      \* the journal: the records that can be read of it, how many lines
               \* cannot be, and whether the last line has its "end", or is
               \* "whole" or a "part" of one without it
    journal,   \* is the journal open?
    process,   \* "down", "importing", "up"
    copied,    \* records imported so far
    starts,
    calls,     \* of each call that is over: the status sent and the one logged
    written,   \* the records whose write was whole (observed)
    spoilt     \* has a write since the start fallen short, met a line without its
               \* end or no journal, or is the window not in it (observed)?

logVars == <<logs, file, journal, process, copied, starts, calls, written, spoilt>>

Latest(s) == SubSeq(s, 1 + (IF Len(s) > Cap THEN Len(s) - Cap ELSE 0), Len(s))

NoLines == [recs |-> <<>>, bad |-> 0, tail |-> "end"]

\* How much of a line is written: all, all but its end, a part, nothing.
How == {"all", "unended", "part", "none"}

\* Mutant: the journal is written from its beginning.
WroteAnew(f, id, how) ==
    IF how = "none" THEN f
    ELSE [recs |-> IF how = "part" THEN <<>> ELSE <<id>>,
          bad  |-> IF how = "part" THEN 1 ELSE 0, tail |-> "end"]

\* A line of its own.
WroteLine(f, id, how) ==
    [recs |-> IF how = "part" THEN f.recs ELSE Append(f.recs, id),
     bad  |-> IF how = "part" THEN f.bad + 1 ELSE f.bad,
     tail |-> CASE how = "all" -> "end" [] how = "unended" -> "whole" [] how = "part" -> "part"]

\* A line written after one without its end makes one with it, which cannot be
\* read.
Joined(f, how) ==
    [recs |-> IF f.tail = "whole" THEN Front(f.recs) ELSE f.recs,
     bad  |-> IF f.tail = "whole" THEN f.bad + 1 ELSE f.bad,
     tail |-> IF how = "all" THEN "end" ELSE "part"]

Wrote(f, id, how) ==
    CASE how = "none" -> f
      [] how # "none" /\ f.tail = "end" -> WroteLine(f, id, how)
      [] OTHER -> Joined(f, how)

LogInit ==
    /\ logs = <<>> /\ file = NoLines /\ journal = FALSE /\ process = "down"
    /\ copied = 0 /\ starts = 0 /\ calls = <<>> /\ written = {} /\ spoilt = FALSE

-----------------------------------------------------------------------------
\* The ends of a call, as sent and as logged: refused before the dispatch or
\* with an answer that could not be read (chat, messages); refused by the
\* services; cut off, of which responses logs 200; answered.
Ends == {[sent |-> s, logged |-> l] : s \in {"error"}, l \in {NoRecord, "error", "answer"}}
        \cup {[sent |-> "answer", logged |-> "answer"]}

\* A record goes into the journal, as far as it is written.
WriteRecord(id, how) ==
    /\ file' = Wrote(file, id, how)
    /\ written' = IF how = "all" THEN written \cup {id} ELSE written
    /\ spoilt' = (spoilt \/ how # "all" \/ file.tail # "end")

\* add: what is not written is in memory only.
Add(id) ==
    /\ \/ journal /\ \E how \in How : WriteRecord(id, how)
       \/ ~journal /\ spoilt' = TRUE /\ UNCHANGED <<file, written>>
    /\ logs' = Latest(Append(logs, id))

Call ==
    /\ process = "up" /\ Len(calls) < MaxCalls
    /\ \E e \in Ends :
          /\ calls' = Append(calls, e)
          /\ IF e.logged = NoRecord THEN UNCHANGED <<logs, file, written, spoilt>>
             ELSE Add(Old + Len(calls) + 1)
    /\ UNCHANGED <<journal, process, copied, starts>>

\* The process dies.
Crash ==
    /\ process # "down" /\ process' = "down" /\ journal' = FALSE /\ logs' = <<>>
    /\ UNCHANGED <<file, copied, starts, calls, written, spoilt>>

Legacy == [i \in 1 .. Old |-> i]

\* What load finds: the journal's records, or else those of the older version.
Loaded == Latest(IF file.recs = <<>> THEN Legacy ELSE file.recs)

\* Only an empty journal takes an import.
ImportNeeded == Loaded # <<>> /\ file = NoLines

\* load; the journal may not open.  One whose lines cannot be read is not empty,
\* and does not take the records of the older version that are loaded instead.
Load ==
    /\ process = "down" /\ starts < MaxStarts /\ starts' = starts + 1
    /\ logs' = Loaded /\ journal' \in BOOLEAN /\ copied' = 0
    /\ process' = IF journal' /\ ImportNeeded THEN "importing" ELSE "up"
    /\ spoilt' = (journal' /\ Loaded # <<>> /\ file.recs = <<>> /\ file # NoLines)
    /\ UNCHANGED <<file, calls, written>>

\* The next record of the older version is written to the empty journal.
Import ==
    /\ process = "importing"
    /\ \E how \in How : WriteRecord(logs[copied + 1], how)
    /\ copied' = copied + 1
    /\ process' = IF copied' < Len(logs) THEN "importing" ELSE "up"
    /\ UNCHANGED <<logs, journal, starts, calls>>

LogNext == Call \/ Crash \/ Load \/ Import

-----------------------------------------------------------------------------
Increasing(s) == \A i, j \in DOMAIN s : i < j => s[i] < s[j]

Record == 1 .. Old + MaxCalls

\* Types; the window is full at most, and the journal open only while it runs.
LogTypeOK ==
    /\ logs \in Seq(Record) /\ Len(logs) <= Cap
    /\ file \in [recs: Seq(Record), bad: Nat, tail: {"end", "whole", "part"}]
    /\ journal \in BOOLEAN /\ process \in {"down", "importing", "up"}
    /\ journal => process # "down"
    /\ copied \in Nat /\ (process = "importing" => copied < Len(logs))
    /\ starts \in 0 .. MaxStarts /\ calls \in Seq(Ends) /\ Len(calls) <= MaxCalls
    /\ written \subseteq Record /\ spoilt \in BOOLEAN

\* reqlog.go:61: however often the import is cut off and the process started,
\* no record is there twice or before an earlier one.
OnceInOrder == Increasing(file.recs) /\ Increasing(logs)

\* reqlog.go:43: a restart brings back the window as it was, unless since the
\* start before it a write fell short or met a line without its end, or what
\* was loaded was not in the journal.
SurvivesRestart == process = "up" /\ ~spoilt => Loaded = logs

\* A line that cannot be read costs one record that was written whole, at most,
\* and nothing else loses any.
Lost        == written \ ToSet(file.recs)
LossBounded == Cardinality(Lost) <= file.bad

\* The log keeps what it was given, through short writes, restarts and an import.
LogKept == OnceInOrder /\ SurvivesRestart /\ LossBounded

-----------------------------------------------------------------------------
\* Refuted statements.
\* reqlog.go:32: what is written to the journal stays there, readable.
HistoryKept == Lost = {}

\* reqlog.go:61: what has been imported once is in the journal.
ImportWhole ==
    process = "up" /\ journal /\ file.recs # <<>> =>
        ToSet(Latest(Legacy)) \subseteq ToSet(file.recs)

\* reqlog.go:2: every call is logged.
EveryCallLogged == \A i \in DOMAIN calls : calls[i].logged # NoRecord
=============================================================================
