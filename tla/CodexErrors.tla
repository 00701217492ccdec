----------------------------- MODULE CodexErrors -----------------------------
(***************************************************************************)
(* The monitor of errors that end a Codex turn: it reads the log of the    *)
(* native program behind a cursor, enters each new error as an incident,   *)
(* tells the user of the pending ones and saves the cursor.  The server    *)
(* and the monitor daemon each run it, on one database; within a process   *)
(* PROBE_ERROR_MONITOR_LOCK lets one round run at a time.                  *)
(*                                                                         *)
(* A position is the triple (ts, ts_nanos, id) of a row, by which the log  *)
(* is read.  The native program commits rows, may commit one late, removes *)
(* the oldest, and may begin a new log.                                    *)
(***************************************************************************)
EXTENDS Naturals, FiniteSets, FiniteSetsExt

CONSTANTS
  NoError,      \* no error
  CeErrors,     \* errors, by thread, turn and text: what incident_key hashes
  CeProcs,      \* processes that run the monitor
  CeBatch,      \* PROBE_ERROR_MONITOR_BATCH_LIMIT
  CeLate,       \* may a row be committed behind one that is there already?
  CeMaxRow,     \* bound on the rows of a log
  CeMaxLog,     \* bound on the logs
  CeMaxFaults   \* bound on stops, failures, unreadable threads, and rows and logs removed

ASSUME CeAssumption ==
  /\ IsFiniteSet(CeErrors) /\ IsFiniteSet(CeProcs)
  /\ {NoError, "other", "blank", "removed"} \cap CeErrors = {}
  /\ CeBatch \in Nat \ {0} /\ CeLate \in BOOLEAN
  /\ CeMaxRow \in Nat \ {0} /\ CeMaxLog \in Nat \ {0} /\ CeMaxFaults \in Nat

VARIABLES
  ceLog,        \* the rows of the log, by position
  ceIdentity,   \* logs_database_identity
  ceCursor,     \* the setting probe_error_monitor_cursor; identity 0 for none
  ceIncident,   \* bark_status of each row in probe_error_incidents
  ceDedupe,     \* errors with an unexpired row in probe_dedupe
  ceQueued,     \* errors with a row in the delivery queue
  ceEvent,      \* errors with a visible event
  ceProc,       \* each process: where its round is, and its local variables
  ceFaults,     \* faults so far
  \* history
  cePassed,     \* rows of the log that were there when a baseline was set
  ceUnread,     \* errors of threads that could not be identified
  ceLost        \* errors a process was telling when it stopped

ceVars == <<ceLog, ceIdentity, ceCursor, ceIncident, ceDedupe, ceQueued, ceEvent,
            ceProc, ceFaults, cePassed, ceUnread, ceLost>>

(***************************************************************************)
(* Data                                                                    *)
(***************************************************************************)
Position == 1..CeMaxRow
LogRow == CeErrors \cup {"other", "blank", "removed"}
BlankLog == [i \in Position |-> "blank"]

PresentRows == {i \in Position : ceLog[i] \notin {"blank", "removed"}}
ErrorsAt(positions) == {ceLog[i] : i \in positions} \cap CeErrors
LatestRow == Max(PresentRows \cup {0})

CursorRecord == [identity : 0..CeMaxLog, at : 0..CeMaxRow]
NoErrorCursor == [identity |-> 0, at |-> 0]

ErrorRoundOver == [pc |-> "idle", before |-> NoErrorCursor, cursor |-> NoErrorCursor,
                   found |-> {}, todo |-> {}, error |-> NoError, send |-> FALSE]

CeInit ==
  /\ ceLog = BlankLog /\ ceIdentity = 1
  /\ ceCursor = NoErrorCursor
  /\ ceIncident = [e \in CeErrors |-> "none"]
  /\ ceDedupe = {} /\ ceQueued = {} /\ ceEvent = {}
  /\ ceProc = [p \in CeProcs |-> ErrorRoundOver]
  /\ ceFaults = 0
  /\ cePassed = {} /\ ceUnread = {} /\ ceLost = {}

CeFault == ceFaults < CeMaxFaults /\ ceFaults' = ceFaults + 1

CeGoes(p, r) == ceProc' = [ceProc EXCEPT ![p] = r]

\* A process is telling the user of e.
Telling(p, e) ==
  ceProc[p].error = e /\ ceProc[p].send /\ ceProc[p].pc \in {"stage", "record", "update"}

(***************************************************************************)
(* The native program, the user and time                                   *)
(***************************************************************************)
CommitRow(i, what) ==
  /\ ceLog[i] = "blank"
  /\ CeLate \/ \A j \in Position : j > i => ceLog[j] = "blank"
  /\ ceLog' = [ceLog EXCEPT ![i] = what]
  /\ UNCHANGED <<ceIdentity, ceCursor, ceIncident, ceDedupe, ceQueued, ceEvent,
                 ceProc, ceFaults, cePassed, ceUnread, ceLost>>

RemoveOldest ==
  /\ PresentRows # {} /\ CeFault
  /\ ceLog' = [ceLog EXCEPT ![Min(PresentRows)] = "removed"]
  /\ UNCHANGED <<ceIdentity, ceCursor, ceIncident, ceDedupe, ceQueued, ceEvent,
                 ceProc, cePassed, ceUnread, ceLost>>

BeginLog ==
  /\ ceIdentity < CeMaxLog /\ CeFault
  /\ ceIdentity' = ceIdentity + 1
  /\ ceLog' = BlankLog
  /\ cePassed' = {}
  /\ UNCHANGED <<ceCursor, ceIncident, ceDedupe, ceQueued, ceEvent, ceProc, ceUnread, ceLost>>

\* PROBE_EVENT_TTL_SECONDS, longer than a delivery takes.
ErrorDedupeExpires(e) ==
  /\ e \in ceDedupe /\ \A p \in CeProcs : ~Telling(p, e)
  /\ ceDedupe' = ceDedupe \ {e}
  /\ UNCHANGED <<ceLog, ceIdentity, ceCursor, ceIncident, ceQueued, ceEvent, ceProc,
                 ceFaults, cePassed, ceUnread, ceLost>>

(***************************************************************************)
(* A round: run_probe_error_monitor_once                                   *)
(***************************************************************************)
\* scan_codex_turn_errors.  While the user has the monitor switched off no
\* round gets here, and the cursor stays.  A cursor of another log, or whose row is gone, is
\* replaced by a baseline at the latest row.
NeedsBaseline ==
  \/ ceCursor.identity # ceIdentity
  \/ ceCursor.at # 0 /\ ceCursor.at \notin PresentRows

NextBatch ==
  LET behind == {i \in PresentRows : i > ceCursor.at} IN
  {i \in behind : Cardinality({j \in behind : j <= i}) <= CeBatch}

\* Mutant: the cursor goes to the latest row although the batch is limited.
CursorAfterAll(batch) == LatestRow
CursorAfter(batch) == Max(batch \cup {ceCursor.at})

ScanErrors(p) ==
  /\ ceProc[p].pc = "idle"
  /\ CeGoes(p, [ErrorRoundOver EXCEPT
       !.pc = "claim", !.before = ceCursor,
       !.cursor = [identity |-> ceIdentity,
                   at |-> IF NeedsBaseline THEN LatestRow ELSE CursorAfter(NextBatch)],
       !.found = IF NeedsBaseline THEN {} ELSE ErrorsAt(NextBatch)])
  /\ cePassed' = IF NeedsBaseline THEN cePassed \cup PresentRows ELSE cePassed
  /\ UNCHANGED <<ceLog, ceIdentity, ceCursor, ceIncident, ceDedupe, ceQueued, ceEvent,
                 ceFaults, ceUnread, ceLost>>

\* task_notification_suppression_reason: a thread that cannot be identified at
\* that moment is treated as one that must not be told of.
Unidentified(e) == CeFault /\ ceUnread' = ceUnread \cup {e}

\* claim_probe_error_incident: INSERT OR IGNORE.
ClaimIncident(p, e) ==
  /\ ceProc[p].pc = "claim" /\ e \in ceProc[p].found
  /\ CeGoes(p, [ceProc[p] EXCEPT !.found = @ \ {e}])
  /\ \/ /\ ceIncident' = [ceIncident EXCEPT ![e] = IF @ = "none" THEN "pending" ELSE @]
        /\ UNCHANGED <<ceFaults, ceUnread>>
     \/ Unidentified(e) /\ UNCHANGED ceIncident
  /\ UNCHANGED <<ceLog, ceIdentity, ceCursor, ceDedupe, ceQueued, ceEvent, cePassed,
                 ceLost>>

\* list_pending_probe_error_deliveries: the pending incidents of every process.
ListPending(p) ==
  /\ ceProc[p].pc = "claim" /\ ceProc[p].found = {}
  /\ CeGoes(p, [ceProc[p] EXCEPT !.pc = "next",
                               !.todo = {e \in CeErrors : ceIncident[e] = "pending"}])
  /\ UNCHANGED <<ceLog, ceIdentity, ceCursor, ceIncident, ceDedupe, ceQueued, ceEvent,
                 ceFaults, cePassed, ceUnread, ceLost>>

\* record_probe_event_with_bark_timeout for one of them.
TellError(p, e) ==
  /\ ceProc[p].pc = "next" /\ e \in ceProc[p].todo
  /\ \/ /\ CeGoes(p, [ceProc[p] EXCEPT !.pc = "dedupe", !.error = e, !.todo = @ \ {e}])
        /\ UNCHANGED <<ceFaults, ceUnread>>
     \/ /\ Unidentified(e)
        /\ CeGoes(p, [ceProc[p] EXCEPT !.pc = "update", !.error = e, !.todo = @ \ {e}])
  /\ UNCHANGED <<ceLog, ceIdentity, ceCursor, ceIncident, ceDedupe, ceQueued, ceEvent,
                 cePassed, ceLost>>

ClaimErrorDedupe(p) ==
  LET e == ceProc[p].error IN
  /\ ceProc[p].pc = "dedupe"
  /\ ceDedupe' = ceDedupe \cup {e}
  /\ CeGoes(p, [ceProc[p] EXCEPT !.pc = "stage", !.send = e \notin ceDedupe])
  /\ UNCHANGED <<ceLog, ceIdentity, ceCursor, ceIncident, ceQueued, ceEvent, ceFaults,
                 cePassed, ceUnread, ceLost>>

StageError(p) ==
  /\ ceProc[p].pc = "stage"
  /\ ceQueued' = IF ceProc[p].send THEN ceQueued \cup {ceProc[p].error} ELSE ceQueued
  /\ CeGoes(p, [ceProc[p] EXCEPT !.pc = "record"])
  /\ UNCHANGED <<ceLog, ceIdentity, ceCursor, ceIncident, ceDedupe, ceEvent, ceFaults,
                 cePassed, ceUnread, ceLost>>

RecordEvent(p) ==
  /\ ceProc[p].pc = "record"
  /\ ceEvent' = IF ceProc[p].send THEN ceEvent \cup {ceProc[p].error} ELSE ceEvent
  /\ CeGoes(p, [ceProc[p] EXCEPT !.pc = "update"])
  /\ UNCHANGED <<ceLog, ceIdentity, ceCursor, ceIncident, ceDedupe, ceQueued, ceFaults,
                 cePassed, ceUnread, ceLost>>

\* update_probe_error_incident_delivery: the state of the visible event counts,
\* and the outcome of this process only if there is none.
\* Mutant: the outcome of the process always counts.
DeliveredOwn(p) == IF ceProc[p].send THEN "told" ELSE "skipped"
Delivered(p) == IF ceProc[p].error \in ceEvent THEN "told" ELSE "skipped"

UpdateIncident(p) ==
  /\ ceProc[p].pc = "update"
  /\ ceIncident' = [ceIncident EXCEPT ![ceProc[p].error] = Delivered(p)]
  /\ CeGoes(p, [ceProc[p] EXCEPT !.pc = "next", !.error = NoError, !.send = FALSE])
  /\ UNCHANGED <<ceLog, ceIdentity, ceCursor, ceDedupe, ceQueued, ceEvent, ceFaults,
                 cePassed, ceUnread, ceLost>>

SaveCursor(p) ==
  /\ ceProc[p].pc = "next" /\ ceProc[p].todo = {}
  /\ ceCursor' = IF ceProc[p].before # ceProc[p].cursor THEN ceProc[p].cursor ELSE ceCursor
  /\ CeGoes(p, ErrorRoundOver)
  /\ UNCHANGED <<ceLog, ceIdentity, ceIncident, ceDedupe, ceQueued, ceEvent, ceFaults,
                 cePassed, ceUnread, ceLost>>

\* The process stops, or a statement fails and ends the round.
ErrorRoundDies(p) ==
  /\ ceProc[p].pc # "idle" /\ CeFault
  /\ CeGoes(p, ErrorRoundOver)
  /\ ceLost' = IF Telling(p, ceProc[p].error) THEN ceLost \cup {ceProc[p].error} ELSE ceLost
  /\ UNCHANGED <<ceLog, ceIdentity, ceCursor, ceIncident, ceDedupe, ceQueued, ceEvent,
                 cePassed, ceUnread>>

CeNext ==
  \/ \E i \in Position, what \in CeErrors \cup {"other"} : CommitRow(i, what)
  \/ RemoveOldest \/ BeginLog
  \/ \E e \in CeErrors : ErrorDedupeExpires(e)
  \/ \E p \in CeProcs :
       \/ ScanErrors(p) \/ ListPending(p)
       \/ \E e \in CeErrors : ClaimIncident(p, e) \/ TellError(p, e)
       \/ ClaimErrorDedupe(p) \/ StageError(p) \/ RecordEvent(p) \/ UpdateIncident(p)
       \/ SaveCursor(p) \/ ErrorRoundDies(p)

CeSpec == CeInit /\ [][CeNext]_ceVars

(***************************************************************************)
(* Properties                                                              *)
(***************************************************************************)
CeTypeOK ==
  /\ ceLog \in [Position -> LogRow] /\ ceIdentity \in 1..CeMaxLog
  /\ ceCursor \in CursorRecord
  /\ ceIncident \in [CeErrors -> {"none", "pending", "told", "skipped"}]
  /\ ceDedupe \subseteq CeErrors /\ ceQueued \subseteq CeErrors /\ ceEvent \subseteq CeErrors
  /\ ceProc \in [CeProcs ->
       [pc : {"idle", "claim", "next", "dedupe", "stage", "record", "update"},
        before : CursorRecord, cursor : CursorRecord, found : SUBSET CeErrors,
        todo : SUBSET CeErrors, error : CeErrors \cup {NoError}, send : BOOLEAN]]
  /\ ceFaults \in 0..CeMaxFaults
  /\ cePassed \subseteq Position /\ ceUnread \subseteq CeErrors /\ ceLost \subseteq CeErrors

\* The cursor is never past an error that was not entered as an incident,
\* although it is saved last, rounds end half-way, batches are limited, and two
\* processes save it in any order.  Excepted is what a baseline passes over.
CursorCoversIncidents ==
  ceCursor.identity = ceIdentity =>
    \A i \in PresentRows \ cePassed :
      i <= ceCursor.at /\ ceLog[i] \in CeErrors \ ceUnread => ceIncident[ceLog[i]] # "none"

\* What an incident says of its delivery is true once nobody is at work on it,
\* whichever process wrote it last.  Excepted is the error a process was
\* telling when it stopped, which nobody tells again until its row that
\* suppresses duplicates has expired.
IncidentIsTrue ==
  \A e \in CeErrors \ ceLost :
    (\A p \in CeProcs : ceProc[p].error # e) =>
      /\ ceIncident[e] = "told" => e \in ceQueued
      /\ ceIncident[e] = "skipped" => e \in ceUnread /\ e \notin ceQueued
=============================================================================
