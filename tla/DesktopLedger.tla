---------------------------- MODULE DesktopLedger ----------------------------
(***************************************************************************)
(* The encrypted submission ledger of the Codex desktop collaboration:     *)
(* the table codex_desktop_submissions of one source and the methods of    *)
(* DesktopLedger (crates/agenthub-core/src/db/desktop_submissions.rs).     *)
(*                                                                         *)
(* Every method is one SQLite statement or one IMMEDIATE transaction, so   *)
(* every method is one action.  A row keeps its ciphertext exactly while   *)
(* its status is one of Open: each statement that leaves Open also sets    *)
(* ciphertext and nonce to NULL.  A body is abstracted to its kind, the    *)
(* only part of it the queue looks at; byte limits are left out.           *)
(*                                                                         *)
(* `forgotten' is a history variable: the identities that were deleted.    *)
(***************************************************************************)
EXTENDS Naturals, FiniteSets

CONSTANTS
    Ids,                \* client message identities
    Threads,            \* threads of the source
    NoThread,           \* the thread of an identity that has no row
    MaxPending,         \* MAX_PENDING: open rows of the database
    MaxThreadPending,   \* MAX_THREAD_PENDING: open rows of one thread
    MaxTerminal,        \* MAX_TERMINAL: closed rows a new row leaves behind
    MaxRow              \* bound: number of rows ever inserted

ASSUME LedgerAssumption ==
    /\ IsFiniteSet(Ids)
    /\ NoThread \notin Threads
    /\ MaxPending \in Nat \ {0}
    /\ MaxThreadPending \in Nat \ {0}
    /\ MaxTerminal \in Nat
    /\ MaxRow \in Nat

VARIABLES
    status,     \* column status, "absent" where there is no row
    thread,     \* column thread_id
    kind,       \* the kind in the encrypted body
    rowid,      \* SQLite's rowid: the order every query sorts by
    lastRow,    \* the largest rowid; SQLite gives the next row its successor
    forgotten   \* history: identities whose closed row was deleted

ledger == <<status, thread, kind, rowid, lastRow, forgotten>>

Kinds == {"queue", "steer"}
Waiting == {"queued", "held"}
InDoubt == {"dispatching", "outcome_unknown"}
Open == Waiting \cup InDoubt
Closed == {"accepted", "cancelled", "dismissed"}

LedgerTypeOK ==
    /\ status \in [Ids -> Open \cup Closed \cup {"absent"}]
    /\ thread \in [Ids -> Threads \cup {NoThread}]
    /\ kind \in [Ids -> Kinds \cup {"none"}]
    /\ rowid \in [Ids -> Nat]
    /\ lastRow \in Nat
    /\ forgotten \subseteq Ids

LedgerInit ==
    /\ status = [m \in Ids |-> "absent"]
    /\ thread = [m \in Ids |-> NoThread]
    /\ kind = [m \in Ids |-> "none"]
    /\ rowid = [m \in Ids |-> 0]
    /\ lastRow = 0
    /\ forgotten = {}

(***************************************************************************)
(* Queries                                                                 *)
(***************************************************************************)
Rows(t, S) == {m \in Ids : thread[m] = t /\ status[m] \in S}

\* ... ORDER BY rowid LIMIT 1
IsFirst(m, S) == m \in S /\ \A k \in S : rowid[m] <= rowid[k]

\* DELETE ... WHERE ciphertext IS NULL ORDER BY rowid DESC LIMIT -1 OFFSET ?1
Surplus ==
    LET closed == {m \in Ids : status[m] \in Closed}
    IN  {m \in closed :
            Cardinality({k \in closed : rowid[k] > rowid[m]}) >= MaxTerminal}

SetStatus(S, new) ==
    /\ status' = [m \in Ids |-> IF m \in S THEN new ELSE status[m]]
    /\ UNCHANGED <<thread, kind, rowid, lastRow, forgotten>>

(***************************************************************************)
(* enqueue                                                                 *)
(***************************************************************************)
\* The same identity, thread and plaintext: nothing to do, and not an error.
\* A closed row has no plaintext left to compare with.
IsRetry(t, m, k) ==
    /\ status[m] # "absent"
    /\ thread[m] = t
    /\ status[m] \in Open => kind[m] = k

HasRoom(t) ==
    /\ Cardinality({m \in Ids : status[m] \in Open}) < MaxPending
    /\ Cardinality(Rows(t, Open)) < MaxThreadPending

\* The insert and the deletion of surplus closed rows, one transaction.
Insert(t, m, k) ==
    /\ status[m] = "absent"
    /\ HasRoom(t)
    /\ lastRow < MaxRow
    /\ LET gone == Surplus
           keep(f, none) == [i \in Ids |-> IF i \in gone THEN none ELSE f[i]]
       IN  /\ status' = [keep(status, "absent") EXCEPT ![m] = "queued"]
           /\ thread' = [keep(thread, NoThread) EXCEPT ![m] = t]
           /\ kind' = [keep(kind, "none") EXCEPT ![m] = k]
           /\ rowid' = [keep(rowid, 0) EXCEPT ![m] = lastRow + 1]
           /\ forgotten' = forgotten \cup gone
    /\ lastRow' = lastRow + 1

Enqueue(t, m, k) ==
    \/ IsRetry(t, m, k) /\ UNCHANGED ledger
    \/ Insert(t, m, k)

EnqueueRefused(t, m, k) ==
    IF status[m] = "absent" THEN ~HasRoom(t) ELSE ~IsRetry(t, m, k)

(***************************************************************************)
(* The other methods.  Each returns whether a row changed; a method whose  *)
(* WHERE selects nothing changes nothing.                                  *)
(***************************************************************************)
LaneFree(t) == Rows(t, InDoubt) = {}

\* Mutant: the oldest queued row, although an older one is held.
CanClaimPastHeld(t, m) ==
    /\ status[m] = "queued"
    /\ LaneFree(t)
    /\ IsFirst(m, Rows(t, {"queued"}))

\* claim: the oldest waiting row, if it is not held.
CanClaim(t, m) ==
    /\ status[m] = "queued"
    /\ LaneFree(t)
    /\ IsFirst(m, Rows(t, Waiting))

\* claim_immediate: may pass waiting rows, never one in doubt.
CanClaimImmediate(t, m) ==
    /\ m \in Rows(t, {"queued"})
    /\ LaneFree(t)

Claim(t, m) == CanClaim(t, m) /\ SetStatus({m}, "dispatching")
ClaimImmediate(t, m) == CanClaimImmediate(t, m) /\ SetStatus({m}, "dispatching")

\* Mutants of the settling statements: a doubt is put back on hold; a refusal is
\* not written; what is in doubt can be cancelled.
UnknownIsHeld(t, m) == SetStatus({m} \cap Rows(t, {"dispatching"}), "held")
NotSentUnwritten(t, m) == SetStatus({m} \cap Rows(t, {"outcome_unknown"}), "held")
CancelOpen(t, m) == m \in Rows(t, Open) /\ SetStatus({m}, "cancelled")

Accepted(t, S) == SetStatus(S \cap Rows(t, InDoubt), "accepted")
OutcomeUnknown(t, m) == SetStatus({m} \cap Rows(t, {"dispatching"}), "outcome_unknown")
NotSent(t, m) == SetStatus({m} \cap Rows(t, {"dispatching"}), "held")
Cancel(t, m) == m \in Rows(t, Waiting) /\ SetStatus({m}, "cancelled")
DismissUnknown(t, m) == m \in Rows(t, {"outcome_unknown"}) /\ SetStatus({m}, "dismissed")
Hold(t) == SetStatus(Rows(t, {"queued"}), "held")
HoldQueued(t, m) == SetStatus({m} \cap Rows(t, {"queued"}), "held")
Resume(t) == SetStatus(Rows(t, {"held"}), "queued")
ResumeSelected(t, S) == SetStatus(S \cap Rows(t, {"held"}), "queued")

\* Mutants: recovery holds what may have been sent, or forgets what was queued.
RecoverHoldsAll ==
    /\ status' = [m \in Ids |-> IF status[m] \in {"queued", "dispatching"}
                               THEN "held" ELSE status[m]]
    /\ UNCHANGED <<thread, kind, rowid, lastRow, forgotten>>
RecoverInDoubtOnly ==
    /\ status' = [m \in Ids |-> IF status[m] = "dispatching"
                               THEN "outcome_unknown" ELSE status[m]]
    /\ UNCHANGED <<thread, kind, rowid, lastRow, forgotten>>

\* recover: once, when the process that owns the queue starts.
Recover ==
    /\ status' = [m \in Ids |-> CASE status[m] = "dispatching" -> "outcome_unknown"
                                  [] status[m] = "queued" -> "held"
                                  [] OTHER -> status[m]]
    /\ UNCHANGED <<thread, kind, rowid, lastRow, forgotten>>

(***************************************************************************)
(* The ledger on its own, under calls in any order: the workers of several *)
(* threads share it.  As in worker.rs, claim serves follow-ups and         *)
(* claim_immediate steers, and only held follow-ups are selected to resume;*)
(* resume itself, which selects all, is used by tests only.                *)
(***************************************************************************)
FollowUps(t) == {m \in Rows(t, {"held"}) : kind[m] = "queue"}

LedgerNext ==
    \/ \E t \in Threads, m \in Ids :
        \/ \E k \in Kinds : Enqueue(t, m, k)
        \/ kind[m] = "queue" /\ Claim(t, m)
        \/ kind[m] = "steer" /\ ClaimImmediate(t, m)
        \/ Accepted(t, {m})
        \/ OutcomeUnknown(t, m)
        \/ NotSent(t, m)
        \/ Cancel(t, m)
        \/ DismissUnknown(t, m)
        \/ HoldQueued(t, m)
    \/ \E t \in Threads : Hold(t) \/ Resume(t) \/ ResumeSelected(t, FollowUps(t))
    \/ Recover

LedgerSpec == LedgerInit /\ [][LedgerNext]_ledger

(***************************************************************************)
(* Properties                                                              *)
(***************************************************************************)
\* A thread never has two submissions whose outcome is open: claim and
\* claim_immediate test it, and neither recovery, hold nor resume may undo it.
OneInDoubtPerThread ==
    \A m, k \in Ids :
        /\ status[m] \in InDoubt
        /\ status[k] \in InDoubt
        /\ thread[m] = thread[k]
        => m = k

\* A follow-up on its way to the desktop, or of unknown outcome, has overtaken
\* no older follow-up of its thread, whatever was held, resumed or recovered.
NoFollowUpOvertakes ==
    \A m, k \in Ids :
        /\ kind[m] = "queue" /\ kind[k] = "queue"
        /\ thread[m] = thread[k]
        /\ rowid[k] < rowid[m]
        /\ status[m] \in InDoubt
        => status[k] \notin Waiting

\* Each thread is served one submission at a time, and follow-ups in their
\* order: what claim, claim_immediate, hold, resume and recover keep together.
OneAtATimeInOrder == OneInDoubtPerThread /\ NoFollowUpOvertakes

\* The table stays bounded although closed rows are only deleted by an insert:
\* rows closed since the last insert come on top of MAX_TERMINAL.
TableBounded ==
    Cardinality({m \in Ids : status[m] # "absent"}) <= MaxTerminal + MaxPending

\* A closed submission is never opened again: a retry of its identity, a late
\* answer, a resume or a restart leaves it closed until it is deleted.
ClosedIsFinal ==
    [][\A m \in Ids :
        status[m] \in Closed => status'[m] \in {status[m], "absent"}]_ledger
=============================================================================
