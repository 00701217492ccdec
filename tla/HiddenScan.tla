------------------------------ MODULE HiddenScan ------------------------------
(***************************************************************************)
(* The preview of hidden Codex threads: the scans of one source that a     *)
(* process keeps in memory (archive/hidden_scan.rs), the worker that fills *)
(* each of them from one snapshot of the database (archive.rs              *)
(* `scan_hidden'), and the runner of the interface that starts a scan,     *)
(* polls its pages and stops it (lib/query/hiddenScan.ts, the actions of   *)
(* lib/query/ops.ts).                                                      *)
(*                                                                         *)
(* A run of the interface asks for at most one scan, which has its number. *)
(* The interface may abandon a run at any time (the user stops it, leaves  *)
(* the page or switches machines) and begin the next one before the        *)
(* requests of the former have ended.  The candidates of a scan are their  *)
(* numbers; total is known before the first of them.                       *)
(***************************************************************************)
EXTENDS Integers, FiniteSets

CONSTANTS
    HsSlots,        \* scans kept in memory (2)
    HsPage,         \* page size (100)
    HsTotals,       \* bound: numbers of hidden threads
    HsMaxRuns,      \* bound: runs of the interface
    HsMaxFaults     \* bound: lost requests, failed scans, scans that expire

ASSUME HiddenScanAssumption ==
  /\ HsSlots \in Nat \ {0} /\ HsPage \in Nat \ {0} /\ HsTotals \subseteq Nat
  /\ HsMaxRuns \in Nat /\ HsMaxFaults \in Nat

VARIABLES
    hsTotal,     \* hidden threads in the database
    hsRun,       \* the runs of the interface
    hsAnswer,    \* the answer to the request a run waits for
    hsJob,       \* the scans of the process
    hsLeased,    \* ACTIVE_SOURCES holds the source
    hsFaults     \* bound

hsVars == <<hsTotal, hsRun, hsAnswer, hsJob, hsLeased, hsFaults>>

HsRuns == 1..HsMaxRuns
HsPhases == {"preparing", "scanning", "complete", "stopping", "stopped", "failed"}
Terminal == {"complete", "stopped", "failed"}
Run == [pc : {"none", "start", "poll", "pause", "stopping", "over"},
        known : BOOLEAN,             \* it has a plan, with the id of its scan
        got : Nat,                   \* candidates it holds
        aborted : BOOLEAN,
        cancel : {"none", "sent", "done"},
        result : {"none", "complete", "stopped", "failed", "refused", "full", "mismatch"}]
\* at: how far the task of the worker is; listed: the scan is in JOBS.
Job == [at : {"none", "working", "ended", "finished", "gone"}, listed : BOOLEAN,
        items : Nat, phase : HsPhases, cancelled : BOOLEAN]
Page == [is : {"page"}, phase : HsPhases, cursor : Nat, count : Nat, processed : Nat,
         more : BOOLEAN]
NoAnswer == [is |-> "none"]
Error(why) == [is |-> why]

HsTypeOK ==
  /\ hsTotal \in HsTotals
  /\ hsRun \in [HsRuns -> Run] /\ hsJob \in [HsRuns -> Job]
  /\ \A k \in HsRuns : hsAnswer[k] \in Page \cup {NoAnswer, Error("refused"), Error("full"),
                                                 Error("failed")}
  /\ hsLeased \in BOOLEAN /\ hsFaults \in 0..HsMaxFaults

HiddenScanInit ==
  /\ hsTotal \in HsTotals
  /\ hsRun = [k \in HsRuns |-> [pc |-> "none", known |-> FALSE, got |-> 0, aborted |-> FALSE,
                                cancel |-> "none", result |-> "none"]]
  /\ hsAnswer = [k \in HsRuns |-> NoAnswer]
  /\ hsJob = [k \in HsRuns |-> [at |-> "none", listed |-> FALSE, items |-> 0,
                                phase |-> "preparing", cancelled |-> FALSE]]
  /\ hsLeased = FALSE /\ hsFaults = 0
-----------------------------------------------------------------------------
(* The process.                                                            *)

HsMin(a, b) == IF a < b THEN a ELSE b
\* has_more of `response'. Mutant: full pages only.
MoreFull(phase, left) == left >= HsPage
More(phase, left) == left >= HsPage \/ (phase \in Terminal /\ left > 0)
\* response: a page is published when it is full, or the scan is over.
Response(job, cursor) ==
  LET available == job.items - cursor
      count == IF job.phase \in Terminal \/ available >= HsPage
                 THEN HsMin(available, HsPage) ELSE 0 IN
  [is |-> "page", phase |-> job.phase, cursor |-> cursor, count |-> count,
   processed |-> job.items, more |-> More(job.phase, available - count)]

\* What holds a slot: a listed scan, or one whose worker still refers to it.
Holds(jobs, k) == jobs[k].at # "none" /\ (jobs[k].listed \/ jobs[k].at # "gone")
InSlots(jobs) == {k \in HsRuns : Holds(jobs, k)}
Announced(k) == hsJob[k].at \in {"finished", "gone"}
Done(k) == hsJob[k].listed /\ Announced(k)
\* The oldest finished scan makes room if no slot is free.
Retired ==
  IF Cardinality(InSlots(hsJob)) < HsSlots \/ ~\E k \in HsRuns : Done(k) THEN hsJob
  ELSE LET oldest == CHOOSE k \in HsRuns : Done(k) /\ \A l \in 1..(k - 1) : ~Done(l)
       IN [hsJob EXCEPT ![oldest].listed = FALSE]

HsStarts(k) ==
  LET room == Cardinality(InSlots(Retired)) < HsSlots
      started == [Retired EXCEPT ![k].at = "working", ![k].listed = TRUE] IN
  /\ hsRun[k].pc = "start" /\ hsAnswer[k] = NoAnswer
  /\ IF hsLeased THEN hsJob' = hsJob /\ UNCHANGED hsLeased
     ELSE IF room THEN hsJob' = started /\ hsLeased' = TRUE
     ELSE hsJob' = Retired /\ UNCHANGED hsLeased
  /\ hsAnswer' = [hsAnswer EXCEPT ![k] =
                    CASE hsLeased -> Error("refused")
                      [] ~hsLeased /\ ~room -> Error("full")
                      [] OTHER -> Response(started[k], 0)]
  /\ UNCHANGED <<hsTotal, hsRun, hsFaults>>

HsPolls(k) ==
  /\ hsRun[k].pc = "poll" /\ hsAnswer[k] = NoAnswer
  /\ hsAnswer' = [hsAnswer EXCEPT ![k] =
                    IF hsJob[k].listed THEN Response(hsJob[k], hsRun[k].got)
                    ELSE Error("failed")]
  /\ UNCHANGED <<hsTotal, hsRun, hsJob, hsLeased, hsFaults>>

\* Cancel: the phase is set by whether the worker has announced its end.
HsCancels(k) ==
  /\ hsRun[k].cancel = "sent"
  /\ hsRun' = [hsRun EXCEPT ![k].cancel = "done"]
  /\ hsJob' = IF ~hsJob[k].listed THEN hsJob
              ELSE [hsJob EXCEPT ![k].cancelled = TRUE,
                                 ![k].phase = IF Announced(k) THEN "stopped" ELSE "stopping"]
  /\ UNCHANGED <<hsTotal, hsAnswer, hsLeased, hsFaults>>

\* scan_hidden: one candidate more, unless the scan was stopped.
HsEmits(k) ==
  /\ hsJob[k].at = "working" /\ ~hsJob[k].cancelled /\ hsJob[k].items < hsTotal
  /\ hsJob' = [hsJob EXCEPT ![k].items = @ + 1, ![k].phase = "scanning"]
  /\ UNCHANGED <<hsTotal, hsRun, hsAnswer, hsLeased, hsFaults>>
HsEnds(k) ==
  /\ hsJob[k].at = "working"
  /\ hsJob[k].cancelled \/ hsJob[k].items = hsTotal
  /\ hsJob' = [hsJob EXCEPT ![k].at = "ended",
                            ![k].phase = IF hsJob[k].cancelled THEN "stopped" ELSE "complete"]
  /\ UNCHANGED <<hsTotal, hsRun, hsAnswer, hsLeased, hsFaults>>
HsFails(k) ==
  /\ hsJob[k].at = "working" /\ ~hsJob[k].cancelled /\ hsFaults < HsMaxFaults
  /\ hsJob' = [hsJob EXCEPT ![k].at = "ended", ![k].phase = "failed"]
  /\ hsFaults' = hsFaults + 1
  /\ UNCHANGED <<hsTotal, hsRun, hsAnswer, hsLeased>>
\* finished is stored; then the task ends, the lease and the job with it.
HsFinishes(k) ==
  /\ hsJob[k].at = "ended"
  /\ hsJob' = [hsJob EXCEPT ![k].at = "finished"]
  /\ UNCHANGED <<hsTotal, hsRun, hsAnswer, hsLeased, hsFaults>>
HsTaskEnds(k) ==
  /\ hsJob[k].at = "finished"
  /\ hsJob' = [hsJob EXCEPT ![k].at = "gone"]
  /\ hsLeased' = FALSE
  /\ UNCHANGED <<hsTotal, hsRun, hsAnswer, hsFaults>>

\* Nobody asked for five minutes.
HsExpires(k) ==
  /\ hsJob[k].listed /\ hsFaults < HsMaxFaults
  /\ hsJob' = [hsJob EXCEPT ![k].cancelled = TRUE, ![k].listed = FALSE]
  /\ hsFaults' = hsFaults + 1
  /\ UNCHANGED <<hsTotal, hsRun, hsAnswer, hsLeased>>
-----------------------------------------------------------------------------
(* The interface.                                                          *)

\* stop(): the scan is cancelled once, if its id is known.
Stopped(r) == [r EXCEPT !.aborted = TRUE,
                        !.cancel = IF r.known /\ r.cancel = "none" THEN "sent" ELSE @]
\* A run that throws is stopped.
Thrown(r, why) == [Stopped(r) EXCEPT !.pc = "over", !.result = why]

\* Bound: of the runs before, only the last may still have requests under way.
HsBegins(k) ==
  /\ hsRun[k].pc = "none"
  /\ k > 1 => hsRun[k - 1].aborted \/ hsRun[k - 1].pc = "over"
  /\ k > 2 => hsRun[k - 2].pc = "over" /\ hsRun[k - 2].cancel # "sent"
  /\ hsRun' = [hsRun EXCEPT ![k].pc = "start"]
  /\ UNCHANGED <<hsTotal, hsAnswer, hsJob, hsLeased, hsFaults>>
\* Bound: the last run is not abandoned.
HsAbandons(k) ==
  /\ hsRun[k].pc \notin {"none", "over"} /\ ~hsRun[k].aborted /\ k < HsMaxRuns
  /\ hsRun' = [hsRun EXCEPT ![k] = Stopped(hsRun[k])]
  /\ UNCHANGED <<hsTotal, hsAnswer, hsJob, hsLeased, hsFaults>>

\* mergeHiddenScanPage
Mergeable(r, page) ==
  /\ page.cursor = r.got
  /\ page.cursor + page.count <= page.processed
  /\ page.processed <= hsTotal
  /\ page.more => page.count > 0
  /\ page.phase = "complete" => page.processed = hsTotal
\* A page is taken: the run ends, polls at once, or waits.
Taken(r, page) ==
  LET kept == [r EXCEPT !.known = TRUE, !.got = @ + page.count] IN
  CASE page.phase = "failed" -> Thrown(kept, "failed")
    [] page.phase = "stopped" -> [kept EXCEPT !.pc = "over", !.result = "stopped"]
    [] page.phase = "complete" /\ ~page.more -> [kept EXCEPT !.pc = "over", !.result = "complete"]
    [] OTHER -> [kept EXCEPT !.pc = IF page.more THEN "poll" ELSE "pause"]
\* The answer to a run that was stopped meanwhile: a late start still gives the
\* id to cancel.
Late(r) == [Stopped([r EXCEPT !.known = TRUE]) EXCEPT !.pc = "stopping"]

HsReceives(k) ==
  LET r == hsRun[k]
      answer == hsAnswer[k] IN
  /\ r.pc \in {"start", "poll"} /\ answer # NoAnswer
  /\ hsRun' = [hsRun EXCEPT ![k] =
                 CASE answer.is # "page" -> Thrown(r, answer.is)
                   [] answer.is = "page" /\ r.aborted -> Late(r)
                   [] answer.is = "page" /\ ~r.aborted /\ ~Mergeable(r, answer) -> Thrown(r, "mismatch")
                   [] OTHER -> Taken(r, answer)]
  /\ hsAnswer' = [hsAnswer EXCEPT ![k] = NoAnswer]
  /\ UNCHANGED <<hsTotal, hsJob, hsLeased, hsFaults>>

\* The 250 ms are over, or cut short.
HsWakes(k) ==
  /\ hsRun[k].pc = "pause"
  /\ hsRun' = [hsRun EXCEPT ![k] = IF hsRun[k].aborted THEN Late(hsRun[k])
                                   ELSE [hsRun[k] EXCEPT !.pc = "poll"]]
  /\ UNCHANGED <<hsTotal, hsAnswer, hsJob, hsLeased, hsFaults>>
HsRunStopped(k) ==
  /\ hsRun[k].pc = "stopping" /\ hsRun[k].cancel = "done"
  /\ hsRun' = [hsRun EXCEPT ![k].pc = "over", ![k].result = "stopped"]
  /\ UNCHANGED <<hsTotal, hsAnswer, hsJob, hsLeased, hsFaults>>

\* A request, or its answer, is lost: the machine is gone.
HsLoses(k) ==
  /\ hsFaults < HsMaxFaults
  /\ \/ /\ hsRun[k].pc \in {"start", "poll"}
        /\ hsRun' = [hsRun EXCEPT ![k] = Thrown(hsRun[k], "failed")]
        /\ hsAnswer' = [hsAnswer EXCEPT ![k] = NoAnswer]
     \/ /\ hsRun[k].cancel = "sent"
        /\ hsRun' = [hsRun EXCEPT ![k].cancel = "done"]
        /\ UNCHANGED hsAnswer
  /\ hsFaults' = hsFaults + 1
  /\ UNCHANGED <<hsTotal, hsJob, hsLeased>>

HiddenScanNext == \E k \in HsRuns :
  \/ HsStarts(k) \/ HsPolls(k) \/ HsCancels(k)
  \/ HsEmits(k) \/ HsEnds(k) \/ HsFails(k) \/ HsFinishes(k) \/ HsTaskEnds(k)
  \/ HsExpires(k)
  \/ HsBegins(k) \/ HsAbandons(k) \/ HsReceives(k) \/ HsWakes(k) \/ HsRunStopped(k) \/ HsLoses(k)
HiddenScanSpec == HiddenScanInit /\ [][HiddenScanNext]_hsVars
-----------------------------------------------------------------------------
\* Pages are read while the worker writes, stops and requests cross, and the
\* next run begins meanwhile.  A run that ends as complete holds every candidate;
\* no page is ever refused as inconsistent; a run that is over, with every request
\* answered, leaves no scan behind that still works for nobody; and finished scans
\* that are kept for their pages never keep a new one from starting
\* (hidden_scan.rs 133-163, 193-206, 308-325, hiddenScan.ts 5-17, 41-68).
ScanIsWholeOrStopped ==
  \A k \in HsRuns :
    /\ hsRun[k].result = "complete" => hsRun[k].got = hsTotal
    /\ hsRun[k].result \notin {"mismatch", "full"}
    /\ hsRun[k].pc = "over" /\ hsRun[k].cancel # "sent" /\ hsFaults = 0 =>
         hsJob[k].at # "working" \/ hsJob[k].cancelled
=============================================================================
