-------------------------- MODULE DesktopLedgerProofs --------------------------
(***************************************************************************)
(* Theorems about DesktopLedger, for any number of identities and threads  *)
(* and any limits.                                                         *)
(*                                                                         *)
(* The argument.  A statement of the ledger inserts one row and deletes    *)
(* closed ones (Insert), claims one row, or moves the status of some rows  *)
(* along May without touching another column (Moves).  A row becomes in    *)
(* doubt only by a claim, which needs a free lane; a row returns to the    *)
(* waiting ones only by leaving the lane, which is then free.              *)
(***************************************************************************)
EXTENDS DesktopLedger, FiniteSetTheorems, TLAPS

Statuses == Open \cup Closed \cup {"absent"}

\* The changes of status that are not a claim, an insertion or a deletion.
May(old, new) ==
    \/ old \in InDoubt /\ new = "accepted"
    \/ old = "dispatching" /\ new \in {"outcome_unknown", "held"}
    \/ old = "outcome_unknown" /\ new = "dismissed"
    \/ old \in Waiting /\ new = "cancelled"
    \/ old = "queued" /\ new = "held"
    \/ old = "held" /\ new = "queued"

Moves ==
    /\ status' = [m \in Ids |-> status'[m]]
    /\ \A m \in Ids : status'[m] = status[m] \/ May(status[m], status'[m])
    /\ UNCHANGED <<thread, kind, rowid, lastRow, forgotten>>

(***************************************************************************)
(* Every method is one of the forms above.                                 *)
(***************************************************************************)
\* Giving rows one status, allowed from where each of them is, is a move.
LEMMA SetStatusMoves ==
    ASSUME NEW S, NEW new,
           \A m \in S \cap Ids : May(status[m], new),
           SetStatus(S, new)
    PROVE  Moves
  BY DEF SetStatus, Moves

\* The methods that settle, hold, resume, cancel or dismiss rows.
LEMMA MethodsMove ==
    ASSUME NEW t, NEW m, NEW S,
           \/ Accepted(t, S) \/ OutcomeUnknown(t, m) \/ NotSent(t, m)
           \/ Cancel(t, m) \/ DismissUnknown(t, m)
           \/ Hold(t) \/ HoldQueued(t, m) \/ Resume(t) \/ ResumeSelected(t, S)
    PROVE  Moves
<1> USE DEF Rows, Waiting, InDoubt, May
<1>1. CASE Accepted(t, S)
  BY <1>1, SetStatusMoves DEF Accepted
<1>2. CASE OutcomeUnknown(t, m)
  BY <1>2, SetStatusMoves DEF OutcomeUnknown
<1>3. CASE NotSent(t, m)
  BY <1>3, SetStatusMoves DEF NotSent
<1>4. CASE Cancel(t, m)
  BY <1>4, SetStatusMoves DEF Cancel
<1>5. CASE DismissUnknown(t, m)
  BY <1>5, SetStatusMoves DEF DismissUnknown
<1>6. CASE Hold(t)
  BY <1>6, SetStatusMoves DEF Hold
<1>7. CASE HoldQueued(t, m)
  BY <1>7, SetStatusMoves DEF HoldQueued
<1>8. CASE ResumeSelected(t, S)
  BY <1>8, SetStatusMoves DEF ResumeSelected
<1>9. CASE Resume(t)
  BY <1>9, SetStatusMoves DEF Resume
<1> QED
  BY <1>1, <1>2, <1>3, <1>4, <1>5, <1>6, <1>7, <1>8, <1>9

\* Recovery moves every row that was queued or being dispatched.
LEMMA RecoverMoves ==
    ASSUME Recover
    PROVE  Moves
<1>1. ASSUME NEW m \in Ids
      PROVE  status'[m] = status[m] \/ May(status[m], status'[m])
  BY <1>1 DEF Recover, May
<1> QED
  BY <1>1 DEF Recover, Moves

\* A claim, with the guards that both kinds of claim share.
Claims(t, m) ==
    /\ m \in Rows(t, {"queued"})
    /\ LaneFree(t)
    /\ kind[m] = "queue" => IsFirst(m, Rows(t, Waiting))
    /\ SetStatus({m}, "dispatching")

\* The four forms of a step of the ledger.
LedgerForm ==
    \/ UNCHANGED ledger
    \/ Moves
    \/ \E t \in Threads, m \in Ids, k \in Kinds : Insert(t, m, k)
    \/ \E t \in Threads, m \in Ids : Claims(t, m)

\* Each call of a method has one of them.
LEMMA LedgerSteps ==
    ASSUME [LedgerNext]_ledger
    PROVE  LedgerForm
<1>1. ASSUME NEW t \in Threads, NEW m \in Ids, NEW k \in Kinds, Enqueue(t, m, k)
      PROVE  UNCHANGED ledger \/ Insert(t, m, k)
  BY <1>1 DEF Enqueue
<1>2. ASSUME NEW t \in Threads, NEW m \in Ids, kind[m] = "queue", Claim(t, m)
      PROVE  Claims(t, m)
  BY <1>2 DEF Claim, CanClaim, IsFirst, Rows, Waiting, Claims
<1>3. ASSUME NEW t \in Threads, NEW m \in Ids, kind[m] = "steer", ClaimImmediate(t, m)
      PROVE  Claims(t, m)
  BY <1>3 DEF ClaimImmediate, CanClaimImmediate, Claims
<1> QED
  BY <1>1, <1>2, <1>3, MethodsMove, RecoverMoves DEF LedgerNext, LedgerForm

(***************************************************************************)
(* Type correctness                                                        *)
(***************************************************************************)
LEMMA InsertType ==
    ASSUME LedgerTypeOK,
           NEW t \in Threads, NEW m \in Ids, NEW k \in Kinds, Insert(t, m, k)
    PROVE  LedgerTypeOK'
<1>1. Surplus \subseteq Ids
  BY DEF Surplus
<1>2. lastRow \in Nat /\ lastRow + 1 \in Nat
  BY DEF LedgerTypeOK
<1>3. status' \in [Ids -> Statuses]
  BY DEF LedgerTypeOK, Insert, Statuses, Open, Waiting
<1>4. thread' \in [Ids -> Threads \cup {NoThread}]
  BY DEF LedgerTypeOK, Insert
<1>5. kind' \in [Ids -> Kinds \cup {"none"}]
  BY DEF LedgerTypeOK, Insert
<1>6. rowid' \in [Ids -> Nat] /\ lastRow' \in Nat
  BY <1>2 DEF LedgerTypeOK, Insert
<1>7. forgotten' \subseteq Ids
  BY <1>1 DEF LedgerTypeOK, Insert
<1> QED
  BY <1>3, <1>4, <1>5, <1>6, <1>7 DEF LedgerTypeOK, Statuses

LEMMA LedgerTypeStep ==
    ASSUME LedgerTypeOK, LedgerForm
    PROVE  LedgerTypeOK'
<1>1. CASE UNCHANGED ledger
  BY <1>1 DEF ledger, LedgerTypeOK
<1>2. CASE Moves
  <2>1. ASSUME NEW m \in Ids
        PROVE  status'[m] \in Statuses
    BY <1>2 DEF Moves, May, LedgerTypeOK, Statuses, Open, Waiting, InDoubt, Closed
  <2> QED
    BY <1>2, <2>1 DEF Moves, LedgerTypeOK, Statuses
<1>3. CASE \E t \in Threads, m \in Ids, k \in Kinds : Insert(t, m, k)
  BY <1>3, InsertType
<1>4. CASE \E t \in Threads, m \in Ids : Claims(t, m)
  BY <1>4 DEF Claims, SetStatus, LedgerTypeOK, Open, InDoubt
<1> QED
  BY <1>1, <1>2, <1>3, <1>4 DEF LedgerForm

\* The columns and the status of every row stay in their domains under every
\* sequence of calls of the ledger.
THEOREM LedgerTypeCorrect == LedgerSpec => []LedgerTypeOK
<1>1. LedgerInit => LedgerTypeOK
  BY DEF LedgerInit, LedgerTypeOK
<1> QED
  BY <1>1, LedgerSteps, LedgerTypeStep, PTL DEF LedgerSpec

(***************************************************************************)
(* One submission in doubt per thread                                      *)
(***************************************************************************)
\* A row that is in doubt after a step that claims nothing was so before, in
\* the same thread.
LaneShrinks ==
    \A m \in Ids : status'[m] \in InDoubt =>
        status[m] \in InDoubt /\ thread'[m] = thread[m]

LEMMA MovesShrinkLane ==
    ASSUME Moves
    PROVE  LaneShrinks
  BY DEF Moves, May, LaneShrinks, InDoubt, Waiting

\* An insertion deletes closed rows only.
LEMMA InsertShrinksLane ==
    ASSUME NEW t, NEW m \in Ids, NEW k, Insert(t, m, k)
    PROVE  LaneShrinks
<1> SUFFICES ASSUME NEW i \in Ids, status'[i] \in InDoubt
             PROVE  status[i] \in InDoubt /\ thread'[i] = thread[i]
  BY DEF LaneShrinks
<1>1. i # m /\ i \notin Surplus
  BY DEF Insert, InDoubt
<1> QED
  BY <1>1 DEF Insert

LEMMA ClaimFillsLane ==
    ASSUME NEW t, NEW m, Claims(t, m), NEW i \in Ids, status'[i] \in InDoubt
    PROVE  i = m \/ (status[i] \in InDoubt /\ thread[i] # t)
  BY DEF Claims, SetStatus, LaneFree, Rows

LEMMA OneInDoubtStep ==
    ASSUME OneInDoubtPerThread, LedgerForm
    PROVE  OneInDoubtPerThread'
<1>1. CASE UNCHANGED ledger
  BY <1>1 DEF ledger, OneInDoubtPerThread
<1>2. CASE LaneShrinks
  BY <1>2 DEF LaneShrinks, OneInDoubtPerThread
<1>3. ASSUME NEW t, NEW m, Claims(t, m)
      PROVE  OneInDoubtPerThread'
  <2>1. thread[m] = t /\ UNCHANGED thread
    BY <1>3 DEF Claims, SetStatus, Rows
  <2>2. ASSUME NEW i \in Ids, NEW j \in Ids, status'[i] \in InDoubt, status'[j] \in InDoubt,
               thread'[i] = thread'[j]
        PROVE  i = j
    BY <1>3, <2>1, <2>2, ClaimFillsLane DEF OneInDoubtPerThread
  <2> QED
    BY <2>2 DEF OneInDoubtPerThread
<1> QED
  BY <1>1, <1>2, <1>3, MovesShrinkLane, InsertShrinksLane DEF LedgerForm

\* A thread never has two submissions whose outcome is open.
THEOREM LedgerLane == LedgerSpec => []OneInDoubtPerThread
<1>1. LedgerInit => OneInDoubtPerThread
  BY DEF LedgerInit, OneInDoubtPerThread, InDoubt
<1> QED
  BY <1>1, OneInDoubtStep, LedgerSteps, PTL DEF LedgerSpec

(***************************************************************************)
(* The order of follow-ups.  The invariant needs that new rows come last   *)
(* and that a follow-up that returns to the waiting ones leaves no other   *)
(* in the lane.                                                            *)
(***************************************************************************)
OrderInv ==
    /\ LedgerTypeOK
    /\ OneInDoubtPerThread
    /\ NoFollowUpOvertakes
    /\ \A m \in Ids : rowid[m] <= lastRow

LEMMA OrderStep ==
    ASSUME OrderInv, LedgerForm
    PROVE  NoFollowUpOvertakes' /\ (\A m \in Ids : rowid[m] <= lastRow)'
<1>1. CASE UNCHANGED ledger
  BY <1>1 DEF OrderInv, NoFollowUpOvertakes, ledger
<1>2. CASE Moves
  <2>1. \A m \in Ids : status'[m] \in Waiting => status[m] \in Waiting \cup InDoubt
    BY <1>2 DEF Moves, May, Waiting, InDoubt
  <2>2. \A m \in Ids : status'[m] \in InDoubt => status[m] \in InDoubt /\ status'[m] \notin Waiting
    BY <1>2 DEF Moves, May, Waiting, InDoubt
  <2>3. UNCHANGED <<thread, kind, rowid, lastRow>>
    BY <1>2 DEF Moves
  <2> QED
    BY <2>1, <2>2, <2>3 DEF OrderInv, NoFollowUpOvertakes, OneInDoubtPerThread
<1>3. ASSUME NEW t \in Threads, NEW m \in Ids, NEW k \in Kinds, Insert(t, m, k)
      PROVE  NoFollowUpOvertakes' /\ (\A i \in Ids : rowid[i] <= lastRow)'
  <2>1. lastRow \in Nat /\ lastRow' = lastRow + 1 /\ rowid'[m] = lastRow + 1
    BY <1>3 DEF OrderInv, LedgerTypeOK, Insert
  <2>2. ASSUME NEW i \in Ids, i # m
        PROVE  \/ i \in Surplus /\ status'[i] = "absent" /\ rowid'[i] = 0
               \/ /\ status'[i] = status[i] /\ thread'[i] = thread[i]
                  /\ kind'[i] = kind[i] /\ rowid'[i] = rowid[i]
    BY <1>3, <2>2 DEF Insert, OrderInv, LedgerTypeOK
  <2>3. status'[m] = "queued"
    BY <1>3 DEF Insert, OrderInv, LedgerTypeOK
  <2>4. \A i \in Ids : rowid[i] \in Nat /\ rowid[i] <= lastRow
    BY DEF OrderInv, LedgerTypeOK
  <2>5. \A i \in Ids : rowid'[i] <= lastRow'
    BY <2>1, <2>2, <2>4
  <2>6. ASSUME NEW i \in Ids, NEW j \in Ids,
               kind'[i] = "queue", kind'[j] = "queue", thread'[i] = thread'[j],
               rowid'[j] < rowid'[i], status'[i] \in InDoubt, status'[j] \in Waiting
        PROVE  FALSE
    <3>1. i # m /\ status'[i] # "absent"
      BY <2>3, <2>6 DEF InDoubt
    <3>2. j # m
      BY <2>1, <2>2, <2>4, <2>6, <3>1
    <3>3. status'[j] # "absent"
      BY <2>6 DEF Waiting
    <3> QED
      BY <2>2, <2>6, <3>1, <3>2, <3>3 DEF OrderInv, NoFollowUpOvertakes
  <2> QED
    BY <2>5, <2>6 DEF NoFollowUpOvertakes
<1>4. ASSUME NEW t \in Threads, NEW m \in Ids, Claims(t, m)
      PROVE  NoFollowUpOvertakes' /\ (\A i \in Ids : rowid[i] <= lastRow)'
  <2>1. UNCHANGED <<thread, kind, rowid, lastRow>>
    BY <1>4 DEF Claims, SetStatus
  <2>2. ASSUME NEW i \in Ids, NEW j \in Ids,
               kind[i] = "queue", kind[j] = "queue", thread[i] = thread[j],
               rowid[j] < rowid[i], status'[i] \in InDoubt, status'[j] \in Waiting
        PROVE  FALSE
    <3>1. status[j] \in Waiting
      BY <1>4, <2>2 DEF Claims, SetStatus, Waiting
    <3>2. CASE i = m
      <4>1. j \in Rows(t, Waiting)
        BY <1>4, <2>2, <3>1, <3>2 DEF Claims, Rows
      <4>2. rowid[m] <= rowid[j]
        BY <1>4, <2>2, <3>2, <4>1 DEF Claims, IsFirst
      <4> QED
        BY <2>2, <3>2, <4>2 DEF OrderInv, LedgerTypeOK
    <3>3. CASE i # m
      BY <1>4, <2>2, <3>1, <3>3, ClaimFillsLane DEF OrderInv, NoFollowUpOvertakes
    <3> QED
      BY <3>2, <3>3
  <2> QED
    BY <2>1, <2>2 DEF OrderInv, NoFollowUpOvertakes
<1> QED
  BY <1>1, <1>2, <1>3, <1>4 DEF LedgerForm

\* The strengthened invariant that keeps the order of follow-ups.
THEOREM LedgerOrderInv == LedgerSpec => []OrderInv
<1>1. LedgerInit => NoFollowUpOvertakes /\ \A m \in Ids : rowid[m] <= lastRow
  BY DEF LedgerInit, NoFollowUpOvertakes, InDoubt
<1>2. LedgerTypeOK /\ OneInDoubtPerThread /\ NoFollowUpOvertakes
        /\ (\A m \in Ids : rowid[m] <= lastRow) <=> OrderInv
  BY DEF OrderInv
<1> QED
  BY <1>1, <1>2, OrderStep, LedgerSteps, LedgerTypeCorrect, LedgerLane, PTL DEF LedgerSpec

\* A follow-up in the lane has overtaken no older follow-up of its thread.
THEOREM LedgerOrder == LedgerSpec => []NoFollowUpOvertakes
<1>1. OrderInv => NoFollowUpOvertakes
  BY DEF OrderInv
<1> QED
  BY <1>1, LedgerOrderInv, PTL

\* Each thread is served one submission at a time, and follow-ups in their
\* order, whatever calls the workers of all threads interleave.
THEOREM LedgerOneAtATimeInOrder == LedgerSpec => []OneAtATimeInOrder
<1>1. OneInDoubtPerThread /\ NoFollowUpOvertakes => OneAtATimeInOrder
  BY DEF OneAtATimeInOrder
<1> QED
  BY <1>1, LedgerLane, LedgerOrder, PTL

(***************************************************************************)
(* Closed rows                                                             *)
(***************************************************************************)
LEMMA ClosedStay ==
    ASSUME LedgerTypeOK, LedgerForm, NEW m \in Ids, status[m] \in Closed
    PROVE  status'[m] \in {status[m], "absent"}
<1>1. CASE UNCHANGED ledger
  BY <1>1 DEF ledger
<1>2. CASE Moves
  BY <1>2 DEF Moves, May, Closed, InDoubt, Waiting
<1>3. CASE \E t \in Threads, i \in Ids, k \in Kinds : Insert(t, i, k)
  BY <1>3 DEF Insert, Closed, LedgerTypeOK
<1>4. CASE \E t \in Threads, i \in Ids : Claims(t, i)
  BY <1>4 DEF Claims, SetStatus, Rows, Closed, LedgerTypeOK
<1> QED
  BY <1>1, <1>2, <1>3, <1>4 DEF LedgerForm

\* A closed submission is never opened again; only deletion changes it.
THEOREM LedgerClosedIsFinal == LedgerSpec => ClosedIsFinal
<1>1. ASSUME LedgerTypeOK, [LedgerNext]_ledger
      PROVE  [\A m \in Ids :
                status[m] \in Closed => status'[m] \in {status[m], "absent"}]_ledger
  BY <1>1, LedgerSteps, ClosedStay
<1> QED
  BY <1>1, LedgerTypeCorrect, PTL DEF LedgerSpec, ClosedIsFinal

(***************************************************************************)
(* The size of the table.  Rows kept by Surplus have fewer than MaxTerminal*)
(* closed rows after them; counting those is injective, because rowids are *)
(* distinct, so at most MaxTerminal rows are kept.                         *)
(***************************************************************************)
NonAbsent == {m \in Ids : status[m] # "absent"}
OpenRows == {m \in Ids : status[m] \in Open}
ClosedRows == {m \in Ids : status[m] \in Closed}
Later(m) == {k \in ClosedRows : rowid[k] > rowid[m]}

LEMMA FiniteRows ==
    ASSUME NEW S, S \subseteq Ids
    PROVE  IsFiniteSet(S) /\ Cardinality(S) \in Nat
  BY FS_Subset, FS_CardinalityType, LedgerAssumption

LEMMA LaterShrinks ==
    ASSUME LedgerTypeOK, NEW m \in ClosedRows, NEW k \in ClosedRows, rowid[m] < rowid[k]
    PROVE  Cardinality(Later(k)) < Cardinality(Later(m))
<1>1. rowid \in [Ids -> Nat] /\ m \in Ids /\ k \in Ids
  BY DEF LedgerTypeOK, ClosedRows
<1>2. Later(k) \cup {k} \subseteq Later(m) /\ k \notin Later(k)
  BY <1>1 DEF Later, ClosedRows
<1>3. Later(m) \subseteq Ids /\ Later(k) \subseteq Ids
  BY DEF Later, ClosedRows
<1>4. Cardinality(Later(k) \cup {k}) = Cardinality(Later(k)) + 1
  BY <1>2, <1>3, FiniteRows, FS_AddElement
<1>5. Cardinality(Later(k) \cup {k}) <= Cardinality(Later(m))
  BY <1>2, <1>3, FiniteRows, FS_Subset
<1>6. Cardinality(Later(k)) \in Nat /\ Cardinality(Later(m)) \in Nat
  BY <1>3, FiniteRows
<1> QED
  BY <1>4, <1>5, <1>6

DistinctRowids ==
    \A m, k \in Ids : status[m] # "absent" /\ status[k] # "absent" /\ rowid[m] = rowid[k] => m = k

\* Pruning keeps at most MaxTerminal closed rows.
LEMMA SurplusKeepsFew ==
    ASSUME LedgerTypeOK, DistinctRowids
    PROVE  Cardinality(ClosedRows \ Surplus) <= MaxTerminal
<1> DEFINE K == ClosedRows \ Surplus
           rank == [m \in K |-> Cardinality(Later(m))]
<1>1. \A m \in K : Cardinality(Later(m)) \in 0..(MaxTerminal - 1)
  <2> SUFFICES ASSUME NEW m \in K
               PROVE  Cardinality(Later(m)) \in 0..(MaxTerminal - 1)
    OBVIOUS
  <2>1. ~(Cardinality(Later(m)) >= MaxTerminal)
    BY DEF Surplus, ClosedRows, Later
  <2>2. Cardinality(Later(m)) \in Nat
    BY FiniteRows DEF Later, ClosedRows
  <2> QED
    BY <2>1, <2>2, LedgerAssumption
<1>2. ASSUME NEW m \in K, NEW k \in K, m # k
      PROVE  rank[m] # rank[k]
  <2>1. rowid[m] \in Nat /\ rowid[k] \in Nat /\ rowid[m] # rowid[k]
    BY <1>2 DEF LedgerTypeOK, DistinctRowids, ClosedRows, Closed
  <2>2. rowid[m] < rowid[k] \/ rowid[k] < rowid[m]
    BY <2>1
  <2>3. Cardinality(Later(m)) \in Nat /\ Cardinality(Later(k)) \in Nat
    BY <1>1, LedgerAssumption
  <2> QED
    BY <2>2, <2>3, LaterShrinks
<1>3. rank \in Injection(K, 0..(MaxTerminal - 1))
  BY <1>1, <1>2 DEF Injection, IsInjective
<1>4. IsFiniteSet(0..(MaxTerminal - 1)) /\ Cardinality(0..(MaxTerminal - 1)) = MaxTerminal
  BY FS_Interval, LedgerAssumption
<1>5. Cardinality(K) <= Cardinality(0..(MaxTerminal - 1))
  BY <1>3, <1>4, FS_Injection
<1> QED
  BY <1>4, <1>5

SizeInv ==
    /\ LedgerTypeOK
    /\ \A m \in Ids : rowid[m] <= lastRow
    /\ DistinctRowids
    /\ Cardinality(OpenRows) <= MaxPending
    /\ TableBounded

\* A step that deletes and inserts nothing, and opens no row.
LEMMA SizeUnlessInsert ==
    ASSUME SizeInv, UNCHANGED ledger \/ Moves \/ \E t, m : Claims(t, m)
    PROVE  /\ DistinctRowids'
           /\ (Cardinality(OpenRows) <= MaxPending)'
           /\ TableBounded'
<1>1. UNCHANGED rowid
  BY DEF ledger, Moves, Claims, SetStatus
<1>2. ASSUME NEW m \in Ids
      PROVE  /\ status'[m] = "absent" <=> status[m] = "absent"
             /\ status'[m] \in Open => status[m] \in Open
  <2>1. CASE UNCHANGED ledger
    BY <2>1 DEF ledger
  <2>2. CASE Moves
    BY <2>2 DEF Moves, May, Open, InDoubt, Waiting
  <2>3. CASE \E t, i : Claims(t, i)
    BY <2>3 DEF Claims, SetStatus, Rows, Open, Waiting
  <2> QED
    BY <2>1, <2>2, <2>3
<1>3. NonAbsent' = NonAbsent
  BY <1>2 DEF NonAbsent
<1>4. Cardinality(OpenRows') <= MaxPending
  <2>1. OpenRows' \subseteq OpenRows /\ OpenRows \subseteq Ids
    BY <1>2 DEF OpenRows
  <2>2. Cardinality(OpenRows') <= Cardinality(OpenRows)
    BY <2>1, FiniteRows, FS_Subset
  <2> QED
    BY <2>1, <2>2, FiniteRows, LedgerAssumption DEF SizeInv
<1> QED
  BY <1>1, <1>2, <1>3, <1>4 DEF SizeInv, DistinctRowids, TableBounded, NonAbsent

LEMMA SizeInsert ==
    ASSUME SizeInv, NEW t \in Threads, NEW m \in Ids, NEW k \in Kinds, Insert(t, m, k)
    PROVE  /\ DistinctRowids'
           /\ (Cardinality(OpenRows) <= MaxPending)'
           /\ TableBounded'
<1>1. lastRow \in Nat /\ \A i \in Ids : rowid[i] \in Nat /\ rowid[i] <= lastRow
  BY DEF SizeInv, LedgerTypeOK
<1>2. status'[m] = "queued" /\ rowid'[m] = lastRow + 1 /\ status[m] = "absent"
  BY DEF Insert, SizeInv, LedgerTypeOK
<1>3. ASSUME NEW i \in Ids, i # m
      PROVE  IF i \in Surplus THEN status'[i] = "absent"
                              ELSE status'[i] = status[i] /\ rowid'[i] = rowid[i]
  BY <1>3 DEF Insert, SizeInv, LedgerTypeOK
<1>4. DistinctRowids'
  <2> SUFFICES ASSUME NEW i \in Ids, NEW j \in Ids, status'[i] # "absent", status'[j] # "absent",
                      rowid'[i] = rowid'[j]
               PROVE  i = j
    BY DEF DistinctRowids
  <2>1. CASE i # m /\ j # m
    BY <1>3, <2>1 DEF SizeInv, DistinctRowids
  <2>2. CASE i = m \/ j = m
    BY <1>1, <1>2, <1>3, <2>2
  <2> QED
    BY <2>1, <2>2
<1>5. OpenRows \subseteq Ids /\ ClosedRows \ Surplus \subseteq Ids /\ m \notin OpenRows
  BY <1>2 DEF OpenRows, ClosedRows, Open, Waiting, InDoubt
<1>6. OpenRows' \subseteq OpenRows \cup {m}
  BY <1>2, <1>3 DEF OpenRows, Open, Waiting, InDoubt
<1>7. NonAbsent' \subseteq (OpenRows \cup {m}) \cup (ClosedRows \ Surplus)
  BY <1>2, <1>3 DEF NonAbsent, OpenRows, ClosedRows, SizeInv, LedgerTypeOK
<1>8. Cardinality(OpenRows) < MaxPending
  BY DEF Insert, HasRoom, OpenRows
<1>9. /\ IsFiniteSet(OpenRows \cup {m})
      /\ Cardinality(OpenRows \cup {m}) = Cardinality(OpenRows) + 1
  BY <1>5, FiniteRows, FS_AddElement
<1>10. Cardinality(OpenRows \cup {m}) <= MaxPending
  BY <1>5, <1>8, <1>9, FiniteRows, LedgerAssumption
<1>11. Cardinality(OpenRows') <= MaxPending
  <2>1. OpenRows' \subseteq Ids
    BY DEF OpenRows
  <2>2. Cardinality(OpenRows') <= Cardinality(OpenRows \cup {m})
    BY <1>6, <1>9, FS_Subset
  <2> QED
    BY <1>9, <1>10, <1>5, <2>1, <2>2, FiniteRows, LedgerAssumption
<1>12. TableBounded'
  <2> DEFINE A == OpenRows \cup {m}
             B == ClosedRows \ Surplus
  <2>1. Cardinality(B) <= MaxTerminal
    BY SurplusKeepsFew DEF SizeInv
  <2>2. IsFiniteSet(B) /\ Cardinality(B) \in Nat /\ A \subseteq Ids
    BY <1>5, FiniteRows
  <2>3. IsFiniteSet(A) /\ Cardinality(A) \in Nat /\ A \cap B \subseteq Ids
    BY <1>9, <2>2, FiniteRows
  <2> HIDE DEF A, B
  <2>4. /\ IsFiniteSet(A \cup B)
        /\ Cardinality(A \cup B) \in Nat
        /\ Cardinality(A \cup B) <= Cardinality(A) + Cardinality(B)
    <3>1. /\ IsFiniteSet(A \cup B)
          /\ Cardinality(A \cup B) = Cardinality(A) + Cardinality(B) - Cardinality(A \cap B)
      BY <2>2, <2>3, FS_Union
    <3>2. IsFiniteSet(A \cap B)
      BY <2>3, FS_Intersection
    <3>3. Cardinality(A \cap B) \in Nat /\ Cardinality(A \cup B) \in Nat
      BY <3>1, <3>2, FS_CardinalityType
    <3> QED
      BY <2>2, <2>3, <3>1, <3>3
  <2>5. Cardinality(NonAbsent') <= Cardinality(A \cup B)
    BY <1>7, <2>4, FS_Subset DEF A, B
  <2>6. Cardinality(NonAbsent') \in Nat
    BY <1>7, <2>4, FS_Subset, FS_CardinalityType DEF A, B
  <2>7. Cardinality(A) <= MaxPending
    BY <1>10 DEF A
  <2>8. Cardinality(NonAbsent') <= MaxTerminal + MaxPending
    BY <2>7, <2>1, <2>2, <2>3, <2>4, <2>5, <2>6, LedgerAssumption
  <2> QED
    BY <2>8 DEF TableBounded, NonAbsent
<1> QED
  BY <1>4, <1>11, <1>12

\* The table never holds more than MaxTerminal + MaxPending rows, although closed
\* rows are deleted by insertions only.
THEOREM LedgerSize == LedgerSpec => []TableBounded
<1>1. LedgerInit => SizeInv
  <2> SUFFICES ASSUME LedgerInit PROVE SizeInv
    OBVIOUS
  <2>1. OpenRows = {} /\ NonAbsent = {}
    BY DEF LedgerInit, OpenRows, NonAbsent, Open, Waiting, InDoubt
  <2>2. Cardinality({}) = 0
    BY FS_EmptySet
  <2>3. TableBounded
    BY <2>1, <2>2, LedgerAssumption DEF TableBounded, NonAbsent
  <2> QED
    BY <2>1, <2>2, <2>3, LedgerAssumption DEF LedgerInit, SizeInv, LedgerTypeOK, DistinctRowids
<1>2. ASSUME SizeInv, LedgerTypeOK', OrderInv', [LedgerNext]_ledger
      PROVE  SizeInv'
  <2>1. DistinctRowids' /\ (Cardinality(OpenRows) <= MaxPending)' /\ TableBounded'
    BY <1>2, LedgerSteps, SizeUnlessInsert, SizeInsert DEF LedgerForm
  <2> QED
    BY <1>2, <2>1 DEF SizeInv, OrderInv
<1>3. SizeInv => TableBounded
  BY DEF SizeInv
<1> QED
  BY <1>1, <1>2, <1>3, LedgerTypeCorrect, LedgerOrderInv, PTL DEF LedgerSpec
=============================================================================
