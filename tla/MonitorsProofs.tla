---------------------------- MODULE MonitorsProofs ----------------------------
(***************************************************************************)
(* The monitors of errors of Codex (I), of its questions (II) and of       *)
(* GitHub's runs (III), for any number of threads, errors, rows, days,     *)
(* accounts, runs and faults.                                              *)
(*                                                                         *)
(* I. What the monitor of errors says is true, and its cursor hides        *)
(* nothing.                                                                *)
(*                                                                         *)
(* Deliveries.  IncidentIsTrue is not inductive: what an incident says was *)
(* decided by a claim that suppresses duplicates, by a row of the queue    *)
(* and by a visible event, in that order, and a process that only repeats  *)
(* what another decided has to find it true.  DeliveryInv explains each    *)
(* claim, row and skipped incident by a process that is still telling, an  *)
(* event, or a process that stopped while it told.                         *)
(*                                                                         *)
(* Cursors.  CursorInv says of the saved cursor, and of the one each round *)
(* will save, that every error behind it is an incident or among what that *)
(* round has found and still has to enter.                                 *)
(*                                                                         *)
(* II. Questions asked while the notifications were off stay quiet, and    *)
(* what was told is not told again while anybody looks at it.              *)
(*                                                                         *)
(* QuestionsInv says who can still tell of a question asked in silence     *)
(* (Judged), that nobody can as long as no round has seen them off         *)
(* (Unnoticed), how old the marker of a told question can be (Remembered), *)
(* and what an entrance knows between two of its statements, while the     *)
(* others go on (OnItsWay, OneClaims).                                     *)
(*                                                                         *)
(* III. What the App shows of GitHub's runs the monitor has reported, and  *)
(* what ends while the notifications are off stays quiet.                  *)
(*                                                                         *)
(* Records.  RecordInv says that the record on the disk, the one a tick    *)
(* loaded and the one it made are true of GitHub as it is or was (Tells),  *)
(* and CiClockInv orders the instants of baselines and ticks.              *)
(*                                                                         *)
(* Shown.  The App compares two records it read; what lies between them is *)
(* several saves and resets.  ShownInv says that the App, while it follows *)
(* the record, saw or was told of whatever the record has as finished      *)
(* (Seen), and that a tick saves only what it has judged by the record it  *)
(* loaded (JudgedBy, Grew).                                                *)
(*                                                                         *)
(* Quiet.  What is on its way to be told has ended (EndedInv), and not     *)
(* while the notifications were off (CleanInv): a record that may judge a  *)
(* scan holds such a run as finished, or has no baseline, or what comes of *)
(* the scan is dropped (HeldInv, OffInv).  A scan that sets a baseline has *)
(* nothing to tell, and the runs its record shows as unfinished are        *)
(* exempt.  One fault leaves a record on that should be off; a second      *)
(* could leave one that is also old.                                       *)
(***************************************************************************)
EXTENDS CodexErrors, CodexQuestions, GithubCi, FiniteSetTheorems, WellFoundedInduction, TLAPS

USE CeAssumption

(***************************************************************************)
(* The greatest number of a finite set.                                    *)
(***************************************************************************)
LEMMA Least ==
  ASSUME NEW T, T \subseteq Nat, T # {}
  PROVE  \E x \in T : \A y \in T : x <= y
<1> DEFINE R == OpToRel(<, Nat)
<1>1. IsWellFoundedOn(R, Nat)
  BY NatLessThanWellFounded
<1>2. \A x, y \in Nat : x < y => <<x, y>> \in R
  BY DEF OpToRel
<1> HIDE DEF R
<1>3. PICK x \in T : \A y \in T : ~ (<<y, x>> \in R)
  BY <1>1, WFMin
<1>4. ASSUME NEW y \in T PROVE x <= y
  <2>1. x \in Nat /\ y \in Nat /\ ~ (y < x)
    BY <1>2, <1>3
  <2> QED  BY <2>1
<1> QED
  BY <1>4

LEMMA Greatest ==
  ASSUME NEW n \in Nat, NEW T, T \subseteq 0..n, T # {}
  PROVE  \E x \in T : \A y \in T : x >= y
<1> DEFINE U == {n - t : t \in T}
<1>1. U \subseteq Nat /\ U # {}
  <2>1. \A t \in T : n - t \in Nat
    OBVIOUS
  <2> QED  BY <2>1
<1>2. PICK u \in U : \A v \in U : u <= v
  <2> HIDE DEF U
  <2> QED  BY <1>1, Least
<1>3. PICK x \in T : u = n - x
  OBVIOUS
<1>4. ASSUME NEW y \in T PROVE x >= y
  <2>1. n - x <= n - y
    BY <1>2, <1>3
  <2>2. n \in Nat /\ x \in Nat /\ y \in Nat
    OBVIOUS
  <2> QED  BY <2>1, <2>2
<1> QED
  BY <1>4

LEMMA MaxIs ==
  ASSUME NEW n \in Nat, NEW T, T \subseteq 0..n, T # {}
  PROVE  Max(T) \in T /\ \A y \in T : Max(T) >= y
<1> QED
  BY Greatest DEF Max

Rounds == [pc : {"idle", "claim", "next", "dedupe", "stage", "record", "update"},
           before : CursorRecord, cursor : CursorRecord, found : SUBSET CeErrors,
           todo : SUBSET CeErrors, error : CeErrors \cup {NoError}, send : BOOLEAN]

(***************************************************************************)
(* The invariant of the deliveries.                                        *)
(***************************************************************************)
\* Somebody will record that the user was told of e.
BeingTold(e) == \E p \in CeProcs : Telling(p, e)

\* What a process has done so far for the error it works on.
RoundInv(p) ==
  LET r == ceProc[p] IN
  /\ r.pc \in {"idle", "claim", "next"} => r.error = NoError
  /\ r.pc \in {"idle", "claim", "next", "dedupe"} => ~r.send
  /\ r.pc \in {"dedupe", "stage", "record", "update"} => r.error \in CeErrors
  /\ r.pc = "record" /\ r.send => r.error \in ceQueued
  /\ r.pc = "update" /\ r.send => r.error \in ceEvent
  /\ r.pc \in {"stage", "record", "update"} /\ ~r.send =>
       r.error \in ceLost \cup ceUnread \cup ceEvent \/ BeingTold(r.error)

\* A claim, a row of the queue and an incident that was skipped each have an explanation.
ErrorInv(e) ==
  /\ e \in ceEvent => e \in ceQueued
  /\ ceIncident[e] = "told" => e \in ceEvent
  /\ e \in ceDedupe => e \in ceLost \cup ceEvent \/ BeingTold(e)
  /\ e \in ceQueued => e \in ceLost \cup ceEvent \/ BeingTold(e)
  /\ ceIncident[e] = "skipped" =>
       e \in ceLost \/ BeingTold(e) \/ (e \in ceUnread /\ e \notin ceQueued)

DeliveryInv ==
  CeTypeOK /\ (\A p \in CeProcs : RoundInv(p)) /\ (\A e \in CeErrors : ErrorInv(e))

(***************************************************************************)
(* The invariant of the cursors.                                           *)
(***************************************************************************)
\* What is behind a cursor of this log is an incident, or among what its round still has to enter.
Covers(cursor, found) ==
  /\ cursor.identity <= ceIdentity
  /\ cursor.identity = ceIdentity =>
       /\ cursor.at # 0 => ceLog[cursor.at] # "blank"
       /\ \A i \in PresentRows \ cePassed :
            i <= cursor.at /\ ceLog[i] \in CeErrors \ ceUnread =>
              ceIncident[ceLog[i]] # "none" \/ ceLog[i] \in found

CursorInv ==
  /\ Covers(ceCursor, {})
  /\ \A p \in CeProcs : /\ Covers(ceProc[p].cursor, ceProc[p].found)
                        /\ ceProc[p].pc # "claim" => ceProc[p].found = {}

(***************************************************************************)
(* What a step makes of the rounds.                                        *)
(***************************************************************************)
LEMMA RoundGoes ==
  ASSUME CeTypeOK, NEW p \in CeProcs, NEW r \in Rounds, CeGoes(p, r)
  PROVE  /\ ceProc' \in [CeProcs -> Rounds] /\ ceProc'[p] = r
         /\ \A q \in CeProcs \ {p} : ceProc'[q] = ceProc[q]
  BY DEF CeTypeOK, CeGoes, Rounds

LEMMA OverIsRound ==
  /\ ErrorRoundOver \in Rounds /\ ErrorRoundOver.pc = "idle" /\ ErrorRoundOver.error = NoError
  /\ ~ErrorRoundOver.send /\ ErrorRoundOver.found = {} /\ ErrorRoundOver.cursor = NoErrorCursor
<1>1. NoErrorCursor \in CursorRecord
  BY DEF NoErrorCursor, CursorRecord, CeAssumption
<1> QED
  BY <1>1 DEF ErrorRoundOver, Rounds

\* A step of one process keeps the invariant of the deliveries.
LEMMA Carry ==
  ASSUME DeliveryInv, NEW p \in CeProcs, CeTypeOK', RoundInv(p)',
         \A q \in CeProcs \ {p} : ceProc'[q] = ceProc[q],
         ceQueued \subseteq ceQueued', ceEvent \subseteq ceEvent',
         ceLost \subseteq ceLost', ceUnread \subseteq ceUnread',
         \A e \in CeErrors : BeingTold(e) => BeingTold(e)' \/ e \in ceLost' \cup ceEvent',
         \A e \in CeErrors : ErrorInv(e)'
  PROVE  DeliveryInv'
<1>1. ASSUME NEW q \in CeProcs \ {p} PROVE RoundInv(q)'
  <2>1. RoundInv(q) /\ ceProc'[q] = ceProc[q]
    BY DEF DeliveryInv
  <2>2. \A e \in CeErrors : e \in ceLost \cup ceUnread \cup ceEvent \/ BeingTold(e)
                             => e \in ceLost' \cup ceUnread' \cup ceEvent' \/ BeingTold(e)'
    OBVIOUS
  <2> QED
    BY <2>1, <2>2 DEF RoundInv
<1> QED
  BY <1>1 DEF DeliveryInv

\* So does one that changes nothing of the deliveries themselves.
LEMMA CarryPending ==
  ASSUME DeliveryInv, NEW p \in CeProcs, CeTypeOK', RoundInv(p)',
         \A q \in CeProcs \ {p} : ceProc'[q] = ceProc[q],
         UNCHANGED <<ceDedupe, ceQueued, ceEvent>>,
         \A e \in CeErrors : \/ ceIncident'[e] = ceIncident[e]
                             \/ ceIncident[e] = "none" /\ ceIncident'[e] = "pending",
         ceLost \subseteq ceLost', ceUnread \subseteq ceUnread',
         \A e \in CeErrors : BeingTold(e) => BeingTold(e)' \/ e \in ceLost'
  PROVE  DeliveryInv'
<1>1. ASSUME NEW e \in CeErrors PROVE ErrorInv(e)'
  <2>1. ErrorInv(e)
    BY DEF DeliveryInv
  <2> QED
    BY <2>1 DEF ErrorInv
<1> QED
  BY <1>1, Carry

LEMMA CarryQuietly ==
  ASSUME DeliveryInv, NEW p \in CeProcs, CeTypeOK', RoundInv(p)',
         \A q \in CeProcs \ {p} : ceProc'[q] = ceProc[q],
         UNCHANGED <<ceIncident, ceDedupe, ceQueued, ceEvent>>,
         ceLost \subseteq ceLost', ceUnread \subseteq ceUnread',
         \A e \in CeErrors : BeingTold(e) => BeingTold(e)' \/ e \in ceLost'
  PROVE  DeliveryInv'
<1>1. \A e \in CeErrors : \/ ceIncident'[e] = ceIncident[e]
                          \/ ceIncident[e] = "none" /\ ceIncident'[e] = "pending"
  OBVIOUS
<1>2. UNCHANGED <<ceDedupe, ceQueued, ceEvent>>
  OBVIOUS
<1> QED
  BY <1>1, <1>2, CarryPending

(***************************************************************************)
(* The deliveries: the native program and time.                            *)
(***************************************************************************)
LEMMA LogKeepsDeliveries ==
  ASSUME DeliveryInv, CeTypeOK',
         UNCHANGED <<ceIncident, ceDedupe, ceQueued, ceEvent, ceProc, ceUnread, ceLost>>
  PROVE  DeliveryInv'
<1>1. \A e \in CeErrors : BeingTold(e)' <=> BeingTold(e)
  BY DEF BeingTold, Telling
<1>2. \A p \in CeProcs : RoundInv(p)'
  BY <1>1 DEF DeliveryInv, RoundInv
<1>3. \A e \in CeErrors : ErrorInv(e)'
  BY <1>1 DEF DeliveryInv, ErrorInv
<1> QED
  BY <1>2, <1>3 DEF DeliveryInv

LEMMA FaultCounted == ASSUME CeTypeOK, CeFault PROVE ceFaults' \in 0..CeMaxFaults
  BY DEF CeTypeOK, CeFault, CeAssumption

LEMMA CommitRowKeeps ==
  ASSUME DeliveryInv, NEW i \in Position, NEW what \in CeErrors \cup {"other"}, CommitRow(i, what)
  PROVE  DeliveryInv'
<1>1. CeTypeOK'
  BY DEF DeliveryInv, CeTypeOK, CommitRow, LogRow
<1> QED
  BY <1>1, LogKeepsDeliveries DEF CommitRow

LEMMA RemoveOldestKeeps ==
  ASSUME DeliveryInv, RemoveOldest
  PROVE  DeliveryInv'
<1>1. ceLog' \in [Position -> LogRow]
  BY DEF DeliveryInv, CeTypeOK, RemoveOldest, LogRow
<1>2. CeTypeOK'
  BY <1>1, FaultCounted DEF DeliveryInv, CeTypeOK, RemoveOldest
<1> QED
  BY <1>2, LogKeepsDeliveries DEF RemoveOldest

LEMMA BeginLogKeeps ==
  ASSUME DeliveryInv, BeginLog
  PROVE  DeliveryInv'
<1>1. ceLog' \in [Position -> LogRow] /\ ceIdentity' \in 1..CeMaxLog
  BY DEF DeliveryInv, CeTypeOK, BeginLog, LogRow, BlankLog, CeAssumption
<1>2. CeTypeOK'
  BY <1>1, FaultCounted DEF DeliveryInv, CeTypeOK, BeginLog
<1> QED
  BY <1>2, LogKeepsDeliveries DEF BeginLog

LEMMA ErrorDedupeExpiresKeeps ==
  ASSUME DeliveryInv, NEW x \in CeErrors, ErrorDedupeExpires(x)
  PROVE  DeliveryInv'
<1>1. /\ ceDedupe' \subseteq ceDedupe
      /\ UNCHANGED <<ceIncident, ceQueued, ceEvent, ceProc, ceUnread, ceLost>>
  BY DEF ErrorDedupeExpires
<1>2. CeTypeOK'
  BY DEF DeliveryInv, CeTypeOK, ErrorDedupeExpires
<1>3. \A e \in CeErrors : BeingTold(e)' <=> BeingTold(e)
  BY <1>1 DEF BeingTold, Telling
<1>4. \A p \in CeProcs : RoundInv(p)'
  BY <1>1, <1>3 DEF DeliveryInv, RoundInv
<1>5. \A e \in CeErrors : ErrorInv(e)'
  BY <1>1, <1>3 DEF DeliveryInv, ErrorInv
<1> QED
  BY <1>2, <1>4, <1>5 DEF DeliveryInv

(***************************************************************************)
(* The deliveries: a round.                                                *)
(***************************************************************************)
LEMMA MaxPosition ==
  ASSUME NEW T, T \subseteq 0..CeMaxRow, T # {}
  PROVE  Max(T) \in T /\ \A y \in T : y <= Max(T)
<1>1. CeMaxRow \in Nat
  BY DEF CeAssumption
<1>2. Max(T) \in T /\ \A y \in T : Max(T) >= y
  BY <1>1, MaxIs
<1>3. \A y \in T : y \in Int
  BY <1>1
<1> QED
  BY <1>2, <1>3

LEMMA LatestIs ==
  /\ LatestRow \in 0..CeMaxRow /\ LatestRow \in PresentRows \cup {0}
  /\ \A i \in PresentRows : i <= LatestRow
<1> DEFINE T == PresentRows \cup {0}
<1>1. T \subseteq 0..CeMaxRow /\ T # {} /\ 0 \in T
  BY DEF PresentRows, Position, CeAssumption
<1> HIDE DEF T
<1>2. Max(T) \in T /\ \A y \in T : y <= Max(T)
  BY <1>1, MaxPosition
<1>3. LatestRow = Max(T)
  BY DEF LatestRow, T
<1> QED
  BY <1>1, <1>2, <1>3 DEF T

LEMMA AfterIs ==
  ASSUME CeTypeOK
  PROVE  /\ CursorAfter(NextBatch) \in 0..CeMaxRow
         /\ CursorAfter(NextBatch) \in NextBatch \cup {ceCursor.at}
         /\ ceCursor.at <= CursorAfter(NextBatch)
<1> DEFINE T == NextBatch \cup {ceCursor.at}
<1>1. T \subseteq 0..CeMaxRow /\ T # {}
  BY DEF NextBatch, PresentRows, Position, CeAssumption, CeTypeOK, CursorRecord
<1> HIDE DEF T
<1>2. Max(T) \in T /\ \A y \in T : y <= Max(T)
  BY <1>1, MaxPosition
<1>3. CursorAfter(NextBatch) = Max(T) /\ ceCursor.at \in T
  BY DEF CursorAfter, T
<1> QED
  BY <1>1, <1>2, <1>3 DEF T

\* A row that is behind the cursor and not in the batch is after all of the batch.
LEMMA BatchIsPrefix ==
  ASSUME CeTypeOK, NEW i \in PresentRows, i <= CursorAfter(NextBatch)
  PROVE  i <= ceCursor.at \/ i \in NextBatch
<1> SUFFICES ASSUME ~(i <= ceCursor.at) PROVE i \in NextBatch
  OBVIOUS
<1> DEFINE behind == {j \in PresentRows : j > ceCursor.at}
           m == CursorAfter(NextBatch)
           upTo(k) == {j \in behind : j <= k}
<1>1. /\ i \in Nat /\ ceCursor.at \in Nat /\ m \in Nat
      /\ PresentRows \subseteq 1..CeMaxRow
  BY AfterIs DEF PresentRows, Position, CeTypeOK, CursorRecord, CeAssumption
<1>2. i \in behind
  BY <1>1
<1>3. m \in NextBatch
  BY <1>1, AfterIs
<1>4. Cardinality(upTo(m)) <= CeBatch
  BY <1>3 DEF NextBatch
<1>5. upTo(i) \subseteq upTo(m) /\ upTo(m) \subseteq 1..CeMaxRow
  <2>1. ASSUME NEW j \in behind, j <= i PROVE j <= m
    <3>1. j \in Nat
      BY <1>1
    <3> QED  BY <1>1, <2>1, <3>1
  <2> QED  BY <1>1, <2>1
<1>6. IsFiniteSet(upTo(m))
  <2>1. IsFiniteSet(1..CeMaxRow)
    BY FS_Interval DEF CeAssumption
  <2> QED  BY <1>5, <2>1, FS_Subset
<1>7. /\ Cardinality(upTo(i)) <= Cardinality(upTo(m))
      /\ Cardinality(upTo(i)) \in Nat /\ Cardinality(upTo(m)) \in Nat
  <2> HIDE DEF upTo
  <2>1. IsFiniteSet(upTo(i))
    BY <1>5, <1>6, FS_Subset
  <2> QED  BY <1>5, <1>6, <2>1, FS_Subset, FS_CardinalityType
<1>8. Cardinality(upTo(i)) <= CeBatch
  <2> HIDE DEF upTo
  <2> QED  BY <1>4, <1>7 DEF CeAssumption
<1> QED
  BY <1>2, <1>8 DEF NextBatch

LEMMA ScanKeeps ==
  ASSUME DeliveryInv, NEW p \in CeProcs, ScanErrors(p)
  PROVE  DeliveryInv'
<1> DEFINE cursor == [identity |-> ceIdentity,
                      at |-> IF NeedsBaseline THEN LatestRow ELSE CursorAfter(NextBatch)]
           found == IF NeedsBaseline THEN {} ELSE ErrorsAt(NextBatch)
           r == [ErrorRoundOver EXCEPT !.pc = "claim", !.before = ceCursor, !.cursor = cursor,
                                       !.found = found]
<1>1. cursor \in CursorRecord
  BY LatestIs, AfterIs DEF DeliveryInv, CeTypeOK, CursorRecord, CeAssumption
<1>2. found \in SUBSET CeErrors
  BY DEF ErrorsAt
<1>3. ceCursor \in CursorRecord
  BY DEF DeliveryInv, CeTypeOK
<1>4. CeGoes(p, r)
  BY DEF ScanErrors
<1> HIDE DEF cursor, found
<1>5. r \in Rounds /\ r.pc = "claim" /\ r.error = NoError /\ ~r.send
  BY <1>1, <1>2, <1>3, OverIsRound DEF Rounds
<1> HIDE DEF r
<1>6. /\ ceProc' \in [CeProcs -> Rounds] /\ ceProc'[p] = r
      /\ \A q \in CeProcs \ {p} : ceProc'[q] = ceProc[q]
  BY <1>4, <1>5, RoundGoes DEF DeliveryInv
<1>7. CeTypeOK'
  BY <1>6 DEF DeliveryInv, CeTypeOK, ScanErrors, Rounds, PresentRows
<1>8. RoundInv(p)'
  BY <1>5, <1>6 DEF RoundInv
<1>9. \A e \in CeErrors : BeingTold(e) => BeingTold(e)'
  <2>1. ceProc[p].pc = "idle"
    BY DEF ScanErrors
  <2> QED
    BY <1>6, <2>1 DEF BeingTold, Telling
<1>10. UNCHANGED <<ceIncident, ceDedupe, ceQueued, ceEvent, ceLost, ceUnread>>
  BY DEF ScanErrors
<1> QED
  BY <1>6, <1>7, <1>8, <1>9, <1>10, CarryQuietly

LEMMA ClaimIncidentKeeps ==
  ASSUME DeliveryInv, NEW p \in CeProcs, NEW x \in CeErrors, ClaimIncident(p, x)
  PROVE  DeliveryInv'
<1> DEFINE old == ceProc[p]
           r == [old EXCEPT !.found = @ \ {x}]
<1>1. old \in Rounds /\ old.pc = "claim" /\ RoundInv(p)
  BY DEF DeliveryInv, CeTypeOK, Rounds, ClaimIncident
<1>2. /\ r \in Rounds /\ r.pc = old.pc /\ r.error = old.error /\ r.send = old.send
  BY <1>1 DEF Rounds
<1>3. CeGoes(p, r)
  BY DEF ClaimIncident
<1> HIDE DEF r
<1>4. /\ ceProc' \in [CeProcs -> Rounds] /\ ceProc'[p] = r
      /\ \A q \in CeProcs \ {p} : ceProc'[q] = ceProc[q]
  BY <1>2, <1>3, RoundGoes DEF DeliveryInv
<1>5. /\ UNCHANGED <<ceLog, ceIdentity, ceCursor, ceDedupe, ceQueued, ceEvent, cePassed, ceLost>>
      /\ ceUnread' \in {ceUnread, ceUnread \cup {x}} /\ ceFaults' \in 0..CeMaxFaults
  BY FaultCounted DEF ClaimIncident, Unidentified, DeliveryInv, CeTypeOK
<1>6. /\ ceIncident' \in [CeErrors -> {"none", "pending", "told", "skipped"}]
      /\ \A e \in CeErrors : \/ ceIncident'[e] = ceIncident[e]
                             \/ ceIncident[e] = "none" /\ ceIncident'[e] = "pending"
  <2>1. ceIncident \in [CeErrors -> {"none", "pending", "told", "skipped"}]
    BY DEF DeliveryInv, CeTypeOK
  <2>2. \/ ceIncident' = ceIncident
        \/ ceIncident' = [ceIncident EXCEPT ![x] = IF @ = "none" THEN "pending" ELSE @]
    BY DEF ClaimIncident
  <2>3. CASE ceIncident' = ceIncident
    BY <2>1, <2>3, Zenon
  <2>4. CASE ceIncident' = [ceIncident EXCEPT ![x] = IF @ = "none" THEN "pending" ELSE @]
    BY <2>1, <2>4
  <2> QED
    BY <2>2, <2>3, <2>4
<1>7. CeTypeOK'
  BY <1>4, <1>5, <1>6 DEF DeliveryInv, CeTypeOK, Rounds
<1>8. RoundInv(p)'
  BY <1>1, <1>2, <1>4 DEF RoundInv
<1>9. \A e \in CeErrors : BeingTold(e) => BeingTold(e)'
  BY <1>1, <1>4 DEF BeingTold, Telling
<1> QED
  BY <1>4, <1>5, <1>6, <1>7, <1>8, <1>9, CarryPending

LEMMA ListPendingKeeps ==
  ASSUME DeliveryInv, NEW p \in CeProcs, ListPending(p)
  PROVE  DeliveryInv'
<1> DEFINE old == ceProc[p]
           todo == {e \in CeErrors : ceIncident[e] = "pending"}
           r == [old EXCEPT !.pc = "next", !.todo = todo]
<1>1. old \in Rounds /\ old.pc = "claim" /\ RoundInv(p) /\ todo \in SUBSET CeErrors
  BY DEF DeliveryInv, CeTypeOK, Rounds, ListPending
<1>2. CeGoes(p, r)
  BY DEF ListPending
<1> HIDE DEF todo
<1>3. r \in Rounds /\ r.pc = "next" /\ r.error = old.error /\ r.send = old.send
  BY <1>1 DEF Rounds
<1> HIDE DEF r
<1>4. /\ ceProc' \in [CeProcs -> Rounds] /\ ceProc'[p] = r
      /\ \A q \in CeProcs \ {p} : ceProc'[q] = ceProc[q]
  BY <1>2, <1>3, RoundGoes DEF DeliveryInv
<1>5. UNCHANGED <<ceLog, ceIdentity, ceCursor, ceIncident, ceDedupe, ceQueued, ceEvent,
                  ceFaults, cePassed, ceUnread, ceLost>>
  BY DEF ListPending
<1>6. CeTypeOK'
  BY <1>4, <1>5 DEF DeliveryInv, CeTypeOK, Rounds
<1>7. RoundInv(p)'
  BY <1>1, <1>3, <1>4 DEF RoundInv
<1>8. \A e \in CeErrors : BeingTold(e) => BeingTold(e)'
  BY <1>1, <1>4 DEF BeingTold, Telling
<1> QED
  BY <1>4, <1>5, <1>6, <1>7, <1>8, CarryQuietly

LEMMA TellErrorKeeps ==
  ASSUME DeliveryInv, NEW p \in CeProcs, NEW x \in CeErrors, TellError(p, x)
  PROVE  DeliveryInv'
<1> DEFINE old == ceProc[p]
           at(pc) == [old EXCEPT !.pc = pc, !.error = x, !.todo = @ \ {x}]
<1>1. old \in Rounds /\ old.pc = "next" /\ ~old.send
  BY DEF DeliveryInv, CeTypeOK, RoundInv, Rounds, TellError
<1>2. PICK pc \in {"dedupe", "update"} :
        /\ CeGoes(p, at(pc))
        /\ ceUnread' \in {ceUnread, ceUnread \cup {x}} /\ ceFaults' \in 0..CeMaxFaults
        /\ pc = "update" => x \in ceUnread'
  BY FaultCounted DEF TellError, Unidentified, DeliveryInv, CeTypeOK
<1> DEFINE r == at(pc)
<1>3. r \in Rounds /\ r.pc = pc /\ r.error = x /\ ~r.send
  BY <1>1 DEF Rounds
<1>4. CeGoes(p, r)
  BY <1>2
<1> HIDE DEF r
<1>5. /\ ceProc' \in [CeProcs -> Rounds] /\ ceProc'[p] = r
      /\ \A q \in CeProcs \ {p} : ceProc'[q] = ceProc[q]
  BY <1>3, <1>4, RoundGoes DEF DeliveryInv
<1>6. UNCHANGED <<ceLog, ceIdentity, ceCursor, ceIncident, ceDedupe, ceQueued, ceEvent,
                  cePassed, ceLost>>
  BY DEF TellError
<1>7. CeTypeOK'
  BY <1>2, <1>5, <1>6 DEF DeliveryInv, CeTypeOK, Rounds
<1>8. RoundInv(p)'
  BY <1>2, <1>3, <1>5 DEF RoundInv
<1>9. \A e \in CeErrors : BeingTold(e) => BeingTold(e)'
  BY <1>1, <1>5 DEF BeingTold, Telling
<1> QED
  BY <1>2, <1>5, <1>6, <1>7, <1>8, <1>9, CarryQuietly

LEMMA ClaimErrorDedupeKeeps ==
  ASSUME DeliveryInv, NEW p \in CeProcs, ClaimErrorDedupe(p)
  PROVE  DeliveryInv'
<1> DEFINE old == ceProc[p]
<1>0. PICK x : x = old.error
  OBVIOUS
<1> DEFINE r == [old EXCEPT !.pc = "stage", !.send = x \notin ceDedupe]
<1>1. old \in Rounds /\ old.pc = "dedupe" /\ ~old.send /\ x \in CeErrors /\ ErrorInv(x)
  BY <1>0 DEF DeliveryInv, CeTypeOK, RoundInv, Rounds, ClaimErrorDedupe
<1>2. CeGoes(p, r)
  BY <1>0 DEF ClaimErrorDedupe
<1>3. r \in Rounds /\ r.pc = "stage" /\ r.error = x /\ r.send = (x \notin ceDedupe)
  BY <1>0, <1>1 DEF Rounds
<1> HIDE DEF r
<1>4. /\ ceProc' \in [CeProcs -> Rounds] /\ ceProc'[p] = r
      /\ \A q \in CeProcs \ {p} : ceProc'[q] = ceProc[q]
  BY <1>2, <1>3, RoundGoes DEF DeliveryInv
<1>5. /\ UNCHANGED <<ceLog, ceIdentity, ceCursor, ceIncident, ceQueued, ceEvent,
                     ceFaults, cePassed, ceUnread, ceLost>>
      /\ ceDedupe' = ceDedupe \cup {x}
  BY <1>0 DEF ClaimErrorDedupe
<1>6. CeTypeOK'
  BY <1>1, <1>4, <1>5 DEF DeliveryInv, CeTypeOK, Rounds
<1>7. \A e \in CeErrors : BeingTold(e) => BeingTold(e)'
  BY <1>1, <1>4 DEF BeingTold, Telling
<1>8. x \in ceLost' \cup ceEvent' \/ BeingTold(x)'
  <2>1. CASE x \in ceDedupe
    BY <1>1, <1>5, <1>7, <2>1 DEF ErrorInv
  <2>2. CASE x \notin ceDedupe
    BY <1>3, <1>4, <2>2 DEF BeingTold, Telling
  <2> QED  BY <2>1, <2>2
<1>9. RoundInv(p)'
  BY <1>1, <1>3, <1>4, <1>8 DEF RoundInv
<1>10. ASSUME NEW e \in CeErrors PROVE ErrorInv(e)'
  <2>1. ErrorInv(e)
    BY DEF DeliveryInv
  <2> QED
    BY <1>5, <1>7, <1>8, <2>1 DEF ErrorInv
<1> QED
  BY <1>4, <1>5, <1>6, <1>7, <1>9, <1>10, Carry

LEMMA StageErrorKeeps ==
  ASSUME DeliveryInv, NEW p \in CeProcs, StageError(p)
  PROVE  DeliveryInv'
<1> DEFINE old == ceProc[p]
<1>0. PICK x : x = old.error
  OBVIOUS
<1> DEFINE r == [old EXCEPT !.pc = "record"]
<1>1. /\ old \in Rounds /\ old.pc = "stage" /\ x \in CeErrors /\ RoundInv(p)
  BY <1>0 DEF DeliveryInv, CeTypeOK, RoundInv, Rounds, StageError
<1>2. CeGoes(p, r)
  BY <1>0 DEF StageError
<1>3. r \in Rounds /\ r.pc = "record" /\ r.error = x /\ r.send = old.send
  BY <1>0, <1>1 DEF Rounds
<1> HIDE DEF r
<1>4. /\ ceProc' \in [CeProcs -> Rounds] /\ ceProc'[p] = r
      /\ \A q \in CeProcs \ {p} : ceProc'[q] = ceProc[q]
  BY <1>2, <1>3, RoundGoes DEF DeliveryInv
<1>5. /\ UNCHANGED <<ceLog, ceIdentity, ceCursor, ceIncident, ceDedupe, ceEvent,
                     ceFaults, cePassed, ceUnread, ceLost>>
      /\ ceQueued' = IF old.send THEN ceQueued \cup {x} ELSE ceQueued
  BY <1>0 DEF StageError
<1>6. CeTypeOK'
  BY <1>1, <1>4, <1>5 DEF DeliveryInv, CeTypeOK, Rounds
<1>7. \A e \in CeErrors : BeingTold(e) => BeingTold(e)'
  BY <1>0, <1>1, <1>3, <1>4 DEF BeingTold, Telling
<1>8. old.send => BeingTold(x)'
  BY <1>3, <1>4 DEF BeingTold, Telling
<1>9. RoundInv(p)'
  BY <1>0, <1>1, <1>3, <1>4, <1>5, <1>7 DEF RoundInv
<1>10. ASSUME NEW e \in CeErrors PROVE ErrorInv(e)'
  <2>1. ErrorInv(e)
    BY DEF DeliveryInv
  <2> QED
    BY <1>5, <1>7, <1>8, <2>1 DEF ErrorInv
<1> QED
  BY <1>4, <1>5, <1>6, <1>7, <1>9, <1>10, Carry

LEMMA RecordEventKeeps ==
  ASSUME DeliveryInv, NEW p \in CeProcs, RecordEvent(p)
  PROVE  DeliveryInv'
<1> DEFINE old == ceProc[p]
<1>0. PICK x : x = old.error
  OBVIOUS
<1> DEFINE r == [old EXCEPT !.pc = "update"]
<1>1. /\ old \in Rounds /\ old.pc = "record" /\ x \in CeErrors /\ RoundInv(p)
      /\ old.send => x \in ceQueued
  BY <1>0 DEF DeliveryInv, CeTypeOK, RoundInv, Rounds, RecordEvent
<1>2. CeGoes(p, r)
  BY <1>0 DEF RecordEvent
<1>3. r \in Rounds /\ r.pc = "update" /\ r.error = x /\ r.send = old.send
  BY <1>0, <1>1 DEF Rounds
<1> HIDE DEF r
<1>4. /\ ceProc' \in [CeProcs -> Rounds] /\ ceProc'[p] = r
      /\ \A q \in CeProcs \ {p} : ceProc'[q] = ceProc[q]
  BY <1>2, <1>3, RoundGoes DEF DeliveryInv
<1>5. /\ UNCHANGED <<ceLog, ceIdentity, ceCursor, ceIncident, ceDedupe, ceQueued,
                     ceFaults, cePassed, ceUnread, ceLost>>
      /\ ceEvent' = IF old.send THEN ceEvent \cup {x} ELSE ceEvent
  BY <1>0 DEF RecordEvent
<1>6. CeTypeOK'
  BY <1>1, <1>4, <1>5 DEF DeliveryInv, CeTypeOK, Rounds
<1>7. \A e \in CeErrors : BeingTold(e) => BeingTold(e)'
  BY <1>0, <1>1, <1>3, <1>4 DEF BeingTold, Telling
<1>8. RoundInv(p)'
  BY <1>0, <1>1, <1>3, <1>4, <1>5, <1>7 DEF RoundInv
<1>9. ASSUME NEW e \in CeErrors PROVE ErrorInv(e)'
  <2>1. ErrorInv(e)
    BY DEF DeliveryInv
  <2> QED
    BY <1>1, <1>5, <1>7, <2>1 DEF ErrorInv
<1> QED
  BY <1>4, <1>5, <1>6, <1>7, <1>8, <1>9, Carry

LEMMA UpdateIncidentKeeps ==
  ASSUME DeliveryInv, NEW p \in CeProcs, UpdateIncident(p)
  PROVE  DeliveryInv'
<1> DEFINE old == ceProc[p]
<1>0. PICK x : x = old.error
  OBVIOUS
<1> DEFINE r == [old EXCEPT !.pc = "next", !.error = NoError, !.send = FALSE]
<1>1. /\ old \in Rounds /\ old.pc = "update" /\ x \in CeErrors
      /\ old.send => x \in ceEvent
      /\ ~old.send => x \in ceLost \cup ceUnread \cup ceEvent \/ BeingTold(x)
  BY <1>0 DEF DeliveryInv, CeTypeOK, RoundInv, Rounds, UpdateIncident
<1>2. CeGoes(p, r)
  BY <1>0 DEF UpdateIncident
<1>3. r \in Rounds /\ r.pc = "next" /\ r.error = NoError /\ ~r.send
  BY <1>0, <1>1 DEF Rounds
<1> HIDE DEF r
<1>4. /\ ceProc' \in [CeProcs -> Rounds] /\ ceProc'[p] = r
      /\ \A q \in CeProcs \ {p} : ceProc'[q] = ceProc[q]
  BY <1>2, <1>3, RoundGoes DEF DeliveryInv
<1>5. /\ UNCHANGED <<ceLog, ceIdentity, ceCursor, ceDedupe, ceQueued, ceEvent,
                     ceFaults, cePassed, ceUnread, ceLost>>
      /\ ceIncident' = [ceIncident EXCEPT ![x] = IF x \in ceEvent THEN "told" ELSE "skipped"]
  BY <1>0 DEF UpdateIncident, Delivered
<1>6. /\ ceIncident' \in [CeErrors -> {"none", "pending", "told", "skipped"}]
      /\ ceIncident'[x] = IF x \in ceEvent THEN "told" ELSE "skipped"
      /\ \A e \in CeErrors \ {x} : ceIncident'[e] = ceIncident[e]
  BY <1>1, <1>5 DEF DeliveryInv, CeTypeOK
<1>7. CeTypeOK'
  BY <1>4, <1>5, <1>6 DEF DeliveryInv, CeTypeOK, Rounds
\* Who was telling still is, except the process itself, which recorded it.
<1>8. \A e \in CeErrors : BeingTold(e) => BeingTold(e)' \/ (e = x /\ x \in ceEvent)
  BY <1>0, <1>1, <1>4 DEF BeingTold, Telling
<1>9. RoundInv(p)'
  BY <1>3, <1>4 DEF RoundInv
<1>10. ASSUME NEW e \in CeErrors \ {x} PROVE ErrorInv(e)'
  <2>1. ErrorInv(e) /\ (BeingTold(e) => BeingTold(e)')
    BY <1>8 DEF DeliveryInv
  <2> QED
    BY <1>5, <1>6, <2>1 DEF ErrorInv
<1>11. ErrorInv(x)'
  <2>1. ErrorInv(x)
    BY <1>1 DEF DeliveryInv
  <2>2. CASE x \in ceEvent
    BY <1>5, <1>6, <2>1, <2>2 DEF ErrorInv
  <2>3. CASE x \notin ceEvent
    <3>1. BeingTold(x) => BeingTold(x)'
      BY <1>1, <1>8, <2>3
    <3>2. x \in ceLost \cup ceUnread \/ BeingTold(x)
      BY <1>1, <2>3
    <3> QED
      BY <1>5, <1>6, <2>1, <2>3, <3>1, <3>2 DEF ErrorInv
  <2> QED  BY <2>2, <2>3
<1>12. \A e \in CeErrors : BeingTold(e) => BeingTold(e)' \/ e \in ceLost' \cup ceEvent'
  BY <1>5, <1>8
<1> QED
  BY <1>4, <1>5, <1>7, <1>9, <1>10, <1>11, <1>12, Carry

LEMMA SaveCursorKeeps ==
  ASSUME DeliveryInv, NEW p \in CeProcs, SaveCursor(p)
  PROVE  DeliveryInv'
<1>1. ceProc[p] \in Rounds /\ ceProc[p].pc = "next"
  BY DEF DeliveryInv, CeTypeOK, Rounds, SaveCursor
<1>2. /\ ceProc' \in [CeProcs -> Rounds] /\ ceProc'[p] = ErrorRoundOver
      /\ \A q \in CeProcs \ {p} : ceProc'[q] = ceProc[q]
  BY OverIsRound, RoundGoes DEF DeliveryInv, SaveCursor
<1>3. /\ UNCHANGED <<ceLog, ceIdentity, ceIncident, ceDedupe, ceQueued, ceEvent,
                     ceFaults, cePassed, ceUnread, ceLost>>
      /\ ceCursor' \in {ceCursor, ceProc[p].cursor}
  BY DEF SaveCursor
<1>4. CeTypeOK'
  BY <1>1, <1>2, <1>3 DEF DeliveryInv, CeTypeOK, Rounds
<1>5. RoundInv(p)'
  BY <1>2, OverIsRound DEF RoundInv
<1>6. \A e \in CeErrors : BeingTold(e) => BeingTold(e)'
  BY <1>1, <1>2 DEF BeingTold, Telling
<1> QED
  BY <1>2, <1>3, <1>4, <1>5, <1>6, CarryQuietly

LEMMA ErrorRoundDiesKeeps ==
  ASSUME DeliveryInv, NEW p \in CeProcs, ErrorRoundDies(p)
  PROVE  DeliveryInv'
<1> DEFINE x == ceProc[p].error
<1>1. ceProc[p] \in Rounds /\ RoundInv(p)
  BY DEF DeliveryInv, CeTypeOK, Rounds
<1>2. /\ ceProc' \in [CeProcs -> Rounds] /\ ceProc'[p] = ErrorRoundOver
      /\ \A q \in CeProcs \ {p} : ceProc'[q] = ceProc[q]
  BY OverIsRound, RoundGoes DEF DeliveryInv, ErrorRoundDies
<1>3. /\ UNCHANGED <<ceLog, ceIdentity, ceCursor, ceIncident, ceDedupe, ceQueued, ceEvent,
                     cePassed, ceUnread>>
      /\ ceFaults' \in 0..CeMaxFaults
      /\ ceLost' = IF Telling(p, x) THEN ceLost \cup {x} ELSE ceLost
  BY FaultCounted DEF ErrorRoundDies, DeliveryInv
<1>4. Telling(p, x) => x \in CeErrors
  BY <1>1 DEF RoundInv, Telling
<1>5. CeTypeOK'
  BY <1>2, <1>3, <1>4 DEF DeliveryInv, CeTypeOK, Rounds
<1>6. RoundInv(p)'
  BY <1>2, OverIsRound DEF RoundInv
<1>7. \A e \in CeErrors : BeingTold(e) => BeingTold(e)' \/ e \in ceLost'
  <2>1. ASSUME NEW e \in CeErrors, NEW q \in CeProcs, Telling(q, e)
        PROVE  BeingTold(e)' \/ e \in ceLost'
    <3>1. CASE q = p
      BY <1>3, <2>1, <3>1 DEF Telling
    <3>2. CASE q # p
      BY <1>2, <2>1, <3>2 DEF BeingTold, Telling
    <3> QED  BY <3>1, <3>2
  <2> QED  BY <2>1 DEF BeingTold
<1>8. ceLost \subseteq ceLost'
  BY <1>3
<1> QED
  BY <1>2, <1>3, <1>5, <1>6, <1>7, <1>8, CarryQuietly

LEMMA InitDelivers == CeInit => DeliveryInv
<1> SUFFICES ASSUME CeInit PROVE DeliveryInv
  OBVIOUS
<1>1. ErrorRoundOver \in Rounds /\ NoErrorCursor \in CursorRecord
  BY OverIsRound DEF NoErrorCursor, CursorRecord, CeAssumption
<1>2. CeTypeOK
  BY <1>1 DEF CeInit, CeTypeOK, Rounds, BlankLog, LogRow, CeAssumption
<1>3. \A p \in CeProcs : RoundInv(p)
  BY OverIsRound DEF CeInit, RoundInv
<1>4. \A e \in CeErrors : ErrorInv(e)
  BY DEF CeInit, ErrorInv
<1> QED
  BY <1>2, <1>3, <1>4 DEF DeliveryInv

LEMMA StepDelivers == DeliveryInv /\ [CeNext]_ceVars => DeliveryInv'
<1> SUFFICES ASSUME DeliveryInv, [CeNext]_ceVars PROVE DeliveryInv'
  OBVIOUS
<1>1. CASE UNCHANGED ceVars
  <2>1. CeTypeOK'
    BY <1>1 DEF ceVars, DeliveryInv, CeTypeOK
  <2> QED
    BY <1>1, <2>1, LogKeepsDeliveries DEF ceVars
<1>2. CASE \E i \in Position, what \in CeErrors \cup {"other"} : CommitRow(i, what)
  BY <1>2, CommitRowKeeps
<1>3. CASE RemoveOldest \/ BeginLog
  BY <1>3, RemoveOldestKeeps, BeginLogKeeps
<1>4. CASE \E e \in CeErrors : ErrorDedupeExpires(e)
  BY <1>4, ErrorDedupeExpiresKeeps
<1>5. ASSUME NEW p \in CeProcs, ScanErrors(p) \/ ListPending(p) PROVE DeliveryInv'
  BY <1>5, ScanKeeps, ListPendingKeeps
<1>6. ASSUME NEW p \in CeProcs, NEW e \in CeErrors, ClaimIncident(p, e) \/ TellError(p, e)
      PROVE  DeliveryInv'
  BY <1>6, ClaimIncidentKeeps, TellErrorKeeps
<1>7. ASSUME NEW p \in CeProcs,
             ClaimErrorDedupe(p) \/ StageError(p) \/ RecordEvent(p) \/ UpdateIncident(p)
      PROVE  DeliveryInv'
  BY <1>7, ClaimErrorDedupeKeeps, StageErrorKeeps, RecordEventKeeps, UpdateIncidentKeeps
<1>8. ASSUME NEW p \in CeProcs, SaveCursor(p) \/ ErrorRoundDies(p) PROVE DeliveryInv'
  BY <1>8, SaveCursorKeeps, ErrorRoundDiesKeeps
<1> QED
  BY <1>1, <1>2, <1>3, <1>4, <1>5, <1>6, <1>7, <1>8 DEF CeNext

\* The monitor keeps its variables in their types, whatever fails.
THEOREM ErrorsHaveType == CeSpec => []CeTypeOK
<1>1. DeliveryInv => CeTypeOK
  BY DEF DeliveryInv
<1> QED
  BY <1>1, InitDelivers, StepDelivers, PTL DEF CeSpec

\* Once nobody is at work on an incident, what it says of its delivery is true:
\* "told" has a row of the queue, "skipped" has none and its thread could not be identified.
THEOREM IncidentsAreTrue == CeSpec => []IncidentIsTrue
<1>1. ASSUME DeliveryInv PROVE IncidentIsTrue
  <2> SUFFICES ASSUME NEW e \in CeErrors \ ceLost, \A p \in CeProcs : ceProc[p].error # e
               PROVE  /\ ceIncident[e] = "told" => e \in ceQueued
                      /\ ceIncident[e] = "skipped" => e \in ceUnread /\ e \notin ceQueued
    BY DEF IncidentIsTrue
  <2>1. ErrorInv(e)
    BY <1>1 DEF DeliveryInv
  <2>2. ~BeingTold(e)
    BY DEF BeingTold, Telling
  <2> QED
    BY <2>1, <2>2 DEF ErrorInv
<1> QED
  BY <1>1, InitDelivers, StepDelivers, PTL DEF CeSpec

(***************************************************************************)
(* The cursors.                                                            *)
(***************************************************************************)
\* The rows stay, and so do incidents and what excuses a missing one.
Stays ==
  /\ UNCHANGED <<ceLog, ceIdentity>>
  /\ cePassed \subseteq cePassed' /\ ceUnread \subseteq ceUnread'
  /\ \A e \in CeErrors : ceIncident[e] # "none" => ceIncident'[e] # "none"

\* A cursor still covers what it covered.
LEMMA CoversStays ==
  ASSUME NEW c, NEW f, Covers(c, f), Stays
  PROVE  Covers(c, f)'
<1>1. PresentRows' = PresentRows
  BY DEF Stays, PresentRows
<1> QED
  BY <1>1 DEF Covers, Stays

\* A step of one process in which the rows stay keeps the other cursors.
LEMMA CarryCursors ==
  ASSUME CursorInv, NEW p \in CeProcs, Stays,
         \A q \in CeProcs \ {p} : ceProc'[q] = ceProc[q],
         Covers(ceProc[p].cursor, ceProc[p].found)',
         ceProc'[p].pc # "claim" => ceProc'[p].found = {},
         Covers(ceCursor, {})'
  PROVE  CursorInv'
<1>1. ASSUME NEW q \in CeProcs \ {p}
      PROVE  /\ Covers(ceProc[q].cursor, ceProc[q].found)'
             /\ ceProc'[q].pc # "claim" => ceProc'[q].found = {}
  <2>1. PICK c, f : c = ceProc[q].cursor /\ f = ceProc[q].found
    OBVIOUS
  <2>2. Covers(c, f)
    BY <2>1 DEF CursorInv
  <2>3. Covers(c, f)'
    BY <2>2, CoversStays
  <2>4. c = ceProc'[q].cursor /\ f = ceProc'[q].found
    BY <2>1
  <2>5. Covers(ceProc[q].cursor, ceProc[q].found)'
    BY <2>3, <2>4 DEF Covers
  <2> QED
    BY <2>5 DEF CursorInv
<1> QED
  BY <1>1 DEF CursorInv

\* A process that keeps its own cursor, and has entered what it found.
LEMMA OwnCursorStays ==
  ASSUME CursorInv, NEW p \in CeProcs, Stays, ceCursor' = ceCursor,
         \A q \in CeProcs \ {p} : ceProc'[q] = ceProc[q],
         ceProc'[p].cursor = ceProc[p].cursor, ceProc'[p].found = ceProc[p].found,
         ceProc[p].found = {}
  PROVE  CursorInv'
<1>1. PICK c, f : c = ceProc[p].cursor /\ f = ceProc[p].found
  OBVIOUS
<1>2. Covers(c, f)' /\ c = ceProc'[p].cursor /\ f = ceProc'[p].found
  BY <1>1, CoversStays DEF CursorInv
<1>3. Covers(ceProc[p].cursor, ceProc[p].found)'
  BY <1>2 DEF Covers
<1>4. PICK d : d = ceCursor
  OBVIOUS
<1>5. Covers(d, {})' /\ d = ceCursor'
  BY <1>4, CoversStays DEF CursorInv
<1>6. Covers(ceCursor, {})'
  BY <1>5 DEF Covers
<1> QED
  BY <1>3, <1>6, CarryCursors

\* What every cursor keeps, the saved one and those of the rounds keep.
LEMMA EveryCursor ==
  ASSUME CeTypeOK, CursorInv, UNCHANGED <<ceCursor, ceProc>>,
         ASSUME NEW c \in CursorRecord, NEW f, Covers(c, f) PROVE Covers(c, f)'
  PROVE  CursorInv'
<1>1. PICK d : d = ceCursor
  OBVIOUS
<1>2. Covers(d, {})' /\ d = ceCursor'
  BY <1>1 DEF CursorInv, CeTypeOK
<1>3. Covers(ceCursor, {})'
  BY <1>2 DEF Covers
<1>4. ASSUME NEW q \in CeProcs
      PROVE  /\ Covers(ceProc[q].cursor, ceProc[q].found)'
             /\ ceProc'[q].pc # "claim" => ceProc'[q].found = {}
  <2>1. PICK c, f : c = ceProc[q].cursor /\ f = ceProc[q].found
    OBVIOUS
  <2>2. Covers(c, f)' /\ c = ceProc'[q].cursor /\ f = ceProc'[q].found
    BY <2>1 DEF CursorInv, CeTypeOK
  <2>3. Covers(ceProc[q].cursor, ceProc[q].found)'
    BY <2>2 DEF Covers
  <2> QED
    BY <2>3 DEF CursorInv
<1> QED
  BY <1>3, <1>4 DEF CursorInv

LEMMA CommitRowCovers ==
  ASSUME ~CeLate, CeTypeOK, CursorInv, NEW i \in Position, NEW what \in CeErrors \cup {"other"},
         CommitRow(i, what)
  PROVE  CursorInv'
<1>1. ASSUME NEW c \in CursorRecord, NEW f, Covers(c, f) PROVE Covers(c, f)'
  <2>1. /\ ceLog \in [Position -> LogRow] /\ ceLog[i] = "blank"
        /\ ceLog' = [ceLog EXCEPT ![i] = what]
        /\ \A j \in Position : j > i => ceLog[j] = "blank"
        /\ UNCHANGED <<ceIdentity, ceIncident, cePassed, ceUnread>>
    BY DEF CommitRow, CeTypeOK
  <2>2. c.at \in 0..CeMaxRow /\ c.identity <= ceIdentity
    BY <1>1 DEF CursorRecord, Covers
  <2> SUFFICES ASSUME c.identity = ceIdentity
               PROVE  /\ c.at # 0 => ceLog'[c.at] # "blank"
                      /\ \A k \in PresentRows' \ cePassed :
                           k <= c.at /\ ceLog'[k] \in CeErrors \ ceUnread =>
                             ceIncident[ceLog'[k]] # "none" \/ ceLog'[k] \in f
    BY <2>1, <2>2 DEF Covers
  <2>3. /\ c.at # 0 => ceLog[c.at] # "blank"
        /\ \A k \in PresentRows \ cePassed :
             k <= c.at /\ ceLog[k] \in CeErrors \ ceUnread =>
               ceIncident[ceLog[k]] # "none" \/ ceLog[k] \in f
    BY <1>1 DEF Covers
  <2>4. c.at < i
    BY <2>1, <2>2, <2>3 DEF Position, CeAssumption
  <2>5. \A k \in Position \ {i} : ceLog'[k] = ceLog[k]
    BY <2>1
  <2>6. c.at # 0 => ceLog'[c.at] # "blank"
    BY <2>2, <2>3, <2>4, <2>5 DEF Position, CeAssumption
  <2>7. ASSUME NEW k \in PresentRows', k <= c.at PROVE k \in PresentRows /\ ceLog'[k] = ceLog[k]
    <3>1. k \in Position /\ k # i
      BY <2>2, <2>4, <2>7 DEF PresentRows, Position, CeAssumption
    <3> QED
      BY <2>5, <2>7, <3>1 DEF PresentRows
  <2> QED
    BY <2>3, <2>6, <2>7
<1>2. UNCHANGED <<ceCursor, ceProc>>
  BY DEF CommitRow
<1> QED
  BY <1>1, <1>2, EveryCursor

LEMMA RemoveOldestCovers ==
  ASSUME CeTypeOK, CursorInv, RemoveOldest
  PROVE  CursorInv'
<1> DEFINE m == Min(PresentRows)
<1>1. /\ ceLog \in [Position -> LogRow] /\ ceLog' = [ceLog EXCEPT ![m] = "removed"]
      /\ UNCHANGED <<ceIdentity, ceIncident, cePassed, ceUnread, ceCursor, ceProc>>
  BY DEF RemoveOldest, CeTypeOK
<1> HIDE DEF m
<1>2. \A k \in Position : ceLog'[k] = ceLog[k] \/ ceLog'[k] = "removed"
  BY <1>1
<1>3. \A k \in PresentRows' : k \in PresentRows /\ ceLog'[k] = ceLog[k]
  BY <1>2 DEF PresentRows
<1>4. ASSUME NEW c \in CursorRecord, NEW f, Covers(c, f) PROVE Covers(c, f)'
  <2>1. c.at # 0 => c.at \in Position
    BY DEF CursorRecord, Position, CeAssumption
  <2> QED
    BY <1>1, <1>2, <1>3, <1>4, <2>1 DEF Covers
<1> QED
  BY <1>1, <1>4, EveryCursor

LEMMA BeginLogCovers ==
  ASSUME CeTypeOK, CursorInv, BeginLog
  PROVE  CursorInv'
<1>1. /\ ceIdentity \in Nat /\ ceIdentity' = ceIdentity + 1 /\ UNCHANGED <<ceCursor, ceProc>>
  BY DEF BeginLog, CeTypeOK, CeAssumption
<1>2. ASSUME NEW c \in CursorRecord, NEW f, Covers(c, f) PROVE Covers(c, f)'
  <2>1. c.identity \in Nat /\ c.identity <= ceIdentity
    BY <1>2 DEF CursorRecord, Covers, CeAssumption
  <2>2. c.identity <= ceIdentity' /\ c.identity # ceIdentity'
    BY <1>1, <2>1
  <2> QED
    BY <2>2 DEF Covers
<1> QED
  BY <1>1, <1>2, EveryCursor

LEMMA DedupeExpiresCovers ==
  ASSUME CeTypeOK, CursorInv, NEW e \in CeErrors, ErrorDedupeExpires(e)
  PROVE  CursorInv'
<1>1. Stays /\ UNCHANGED <<ceCursor, ceProc>>
  BY DEF ErrorDedupeExpires, Stays
<1>2. ASSUME NEW c \in CursorRecord, NEW f, Covers(c, f) PROVE Covers(c, f)'
  BY <1>1, <1>2, CoversStays
<1> QED
  BY <1>1, <1>2, EveryCursor

\* The saved cursor stays when it is not written.
LEMMA SavedCursorStays ==
  ASSUME CursorInv, Stays, ceCursor' = ceCursor
  PROVE  Covers(ceCursor, {})'
<1>1. PICK d : d = ceCursor
  OBVIOUS
<1>2. Covers(d, {})' /\ d = ceCursor'
  BY <1>1, CoversStays DEF CursorInv
<1> QED
  BY <1>2 DEF Covers

\* The cursor of a round is behind all that the round has found, or passes it as a baseline.
LEMMA ScanCovers ==
  ASSUME CeTypeOK, CursorInv, NEW p \in CeProcs, ScanErrors(p)
  PROVE  CursorInv'
<1> DEFINE at == IF NeedsBaseline THEN LatestRow ELSE CursorAfter(NextBatch)
           cursor == [identity |-> ceIdentity, at |-> at]
           found == IF NeedsBaseline THEN {} ELSE ErrorsAt(NextBatch)
           r == [ErrorRoundOver EXCEPT !.pc = "claim", !.before = ceCursor, !.cursor = cursor,
                                       !.found = found]
<1>1. at \in 0..CeMaxRow /\ cursor \in CursorRecord
  BY LatestIs, AfterIs DEF CeTypeOK, CursorRecord, CeAssumption
<1>2. found \in SUBSET CeErrors
  BY DEF ErrorsAt
<1>3. ceCursor \in CursorRecord
  BY DEF CeTypeOK
<1>4. CeGoes(p, r)
  BY DEF ScanErrors
<1>5. /\ UNCHANGED <<ceLog, ceIdentity, ceCursor, ceIncident, ceUnread>>
      /\ cePassed' = IF NeedsBaseline THEN cePassed \cup PresentRows ELSE cePassed
  BY DEF ScanErrors
<1>6. Stays /\ PresentRows' = PresentRows
  BY <1>5 DEF Stays, PresentRows
<1>7. PICK c, f : c = cursor /\ f = found
  OBVIOUS
<1>8. c.identity = ceIdentity /\ c.at = at
  BY <1>7
<1> HIDE DEF cursor, found, at
<1>9. Covers(c, f)'
  <2>1. CASE NeedsBaseline
    <3>1. at = LatestRow /\ PresentRows \subseteq cePassed'
      BY <1>5, <2>1 DEF at
    <3>2. c.at # 0 => ceLog[c.at] # "blank"
      BY <1>8, <3>1, LatestIs DEF PresentRows
    <3> QED
      BY <1>5, <1>6, <1>8, <3>1, <3>2 DEF Covers, CeTypeOK
  <2>2. CASE ~NeedsBaseline
    <3>1. /\ at = CursorAfter(NextBatch) /\ f = ErrorsAt(NextBatch) /\ cePassed' = cePassed
          /\ ceCursor.identity = ceIdentity
          /\ ceCursor.at # 0 => ceCursor.at \in PresentRows
      BY <1>5, <1>7, <2>2 DEF at, found, NeedsBaseline
    <3>2. NextBatch \subseteq PresentRows
      BY DEF NextBatch
    <3>3. c.at # 0 => ceLog[c.at] # "blank"
      BY <1>8, <3>1, <3>2, AfterIs DEF PresentRows
    <3>4. ASSUME NEW i \in PresentRows \ cePassed, i <= c.at, ceLog[i] \in CeErrors \ ceUnread
          PROVE  ceIncident[ceLog[i]] # "none" \/ ceLog[i] \in f
      <4>1. i <= ceCursor.at \/ i \in NextBatch
        BY <1>8, <3>1, <3>4, BatchIsPrefix
      <4>2. CASE i \in NextBatch
        BY <3>1, <3>4, <4>2 DEF ErrorsAt
      <4>3. CASE i <= ceCursor.at
        BY <3>1, <3>4, <4>3 DEF CursorInv, Covers
      <4> QED  BY <4>1, <4>2, <4>3
    <3> QED
      BY <1>5, <1>6, <1>8, <3>1, <3>3, <3>4 DEF Covers, CeTypeOK
  <2> QED  BY <2>1, <2>2
<1>10. r \in Rounds /\ r.pc = "claim" /\ r.cursor = c /\ r.found = f
  BY <1>1, <1>2, <1>3, <1>7, OverIsRound DEF Rounds
<1> HIDE DEF r
<1>11. /\ ceProc'[p] = r
       /\ \A q \in CeProcs \ {p} : ceProc'[q] = ceProc[q]
  BY <1>4, <1>10, RoundGoes
<1>12. Covers(ceProc[p].cursor, ceProc[p].found)'
  BY <1>9, <1>10, <1>11 DEF Covers
<1>13. Covers(ceCursor, {})'
  BY <1>5, <1>6, SavedCursorStays
<1> QED
  BY <1>6, <1>10, <1>11, <1>12, <1>13, CarryCursors

\* An error that was found is an incident afterwards, or its thread could not be identified.
LEMMA ClaimCovers ==
  ASSUME CeTypeOK, CursorInv, NEW p \in CeProcs, NEW x \in CeErrors, ClaimIncident(p, x)
  PROVE  CursorInv'
<1> DEFINE old == ceProc[p]
           r == [old EXCEPT !.found = @ \ {x}]
<1>1. old \in Rounds /\ old.pc = "claim"
  BY DEF CeTypeOK, Rounds, ClaimIncident
<1>2. CeGoes(p, r)
  BY DEF ClaimIncident
<1>3. r \in Rounds /\ r.pc = "claim" /\ r.cursor = old.cursor /\ r.found = old.found \ {x}
  BY <1>1 DEF Rounds
<1> HIDE DEF r
<1>4. /\ ceProc'[p] = r
      /\ \A q \in CeProcs \ {p} : ceProc'[q] = ceProc[q]
  BY <1>2, <1>3, RoundGoes
<1>5. /\ UNCHANGED <<ceLog, ceIdentity, ceCursor, cePassed>>
      /\ \/ ceIncident' = [ceIncident EXCEPT ![x] = IF @ = "none" THEN "pending" ELSE @]
            /\ ceUnread' = ceUnread
         \/ ceIncident' = ceIncident /\ ceUnread' = ceUnread \cup {x}
  BY DEF ClaimIncident, Unidentified
<1>6. /\ \A e \in CeErrors : ceIncident[e] # "none" => ceIncident'[e] # "none"
      /\ ceIncident'[x] # "none" \/ x \in ceUnread'
      /\ ceUnread \subseteq ceUnread'
  BY <1>5 DEF CeTypeOK
<1>7. Stays /\ PresentRows' = PresentRows
  BY <1>5, <1>6 DEF Stays, PresentRows
<1>8. PICK c, f : c = old.cursor /\ f = old.found
  OBVIOUS
<1>9. Covers(c, f)'
  BY <1>7, <1>8, CoversStays DEF CursorInv
<1>10. Covers(c, f \ {x})'
  BY <1>6, <1>9 DEF Covers
<1>11. Covers(ceProc[p].cursor, ceProc[p].found)'
  BY <1>3, <1>4, <1>8, <1>10 DEF Covers
<1>12. Covers(ceCursor, {})'
  BY <1>5, <1>7, SavedCursorStays
<1> QED
  BY <1>3, <1>4, <1>7, <1>11, <1>12, CarryCursors

\* A process that keeps its cursor and has nothing to enter.
LEMMA ListPendingCovers ==
  ASSUME CeTypeOK, CursorInv, NEW p \in CeProcs, ListPending(p)
  PROVE  CursorInv'
<1> DEFINE todo == {e \in CeErrors : ceIncident[e] = "pending"}
           r == [ceProc[p] EXCEPT !.pc = "next", !.todo = todo]
<1>1. ceProc[p] \in Rounds /\ ceProc[p].found = {} /\ CeGoes(p, r) /\ todo \in SUBSET CeErrors
  BY DEF CeTypeOK, Rounds, ListPending
<1> HIDE DEF todo
<1>2. r \in Rounds /\ r.cursor = ceProc[p].cursor /\ r.found = {}
  BY <1>1 DEF Rounds
<1> HIDE DEF r
<1>3. ceProc'[p] = r /\ \A q \in CeProcs \ {p} : ceProc'[q] = ceProc[q]
  BY <1>1, <1>2, RoundGoes
<1>4. Stays /\ ceCursor' = ceCursor
  BY DEF ListPending, Stays
<1> QED
  BY <1>1, <1>2, <1>3, <1>4, OwnCursorStays

LEMMA TellErrorCovers ==
  ASSUME CeTypeOK, CursorInv, NEW p \in CeProcs, NEW x \in CeErrors, TellError(p, x)
  PROVE  CursorInv'
<1> DEFINE at(pc) == [ceProc[p] EXCEPT !.pc = pc, !.error = x, !.todo = @ \ {x}]
<1>1. ceProc[p] \in Rounds /\ ceProc[p].pc = "next" /\ ceProc[p].found = {}
  BY DEF CeTypeOK, CursorInv, Rounds, TellError
<1>2. PICK pc \in {"dedupe", "update"} : CeGoes(p, at(pc))
  BY DEF TellError
<1> DEFINE r == at(pc)
<1>3. r \in Rounds /\ r.cursor = ceProc[p].cursor /\ r.found = {} /\ CeGoes(p, r)
  BY <1>1, <1>2 DEF Rounds
<1> HIDE DEF r
<1>4. ceProc'[p] = r /\ \A q \in CeProcs \ {p} : ceProc'[q] = ceProc[q]
  BY <1>3, RoundGoes
<1>5. Stays /\ ceCursor' = ceCursor
  BY DEF TellError, Unidentified, Stays
<1> QED
  BY <1>1, <1>3, <1>4, <1>5, OwnCursorStays

\* The steps of a delivery.
LEMMA DeliveryCovers ==
  ASSUME CeTypeOK, CursorInv, NEW p \in CeProcs,
         ClaimErrorDedupe(p) \/ StageError(p) \/ RecordEvent(p) \/ UpdateIncident(p)
  PROVE  CursorInv'
<1> DEFINE old == ceProc[p]
<1>1. old \in Rounds /\ old.pc \in {"dedupe", "stage", "record", "update"} /\ old.found = {}
  BY DEF CeTypeOK, CursorInv, Rounds, ClaimErrorDedupe, StageError, RecordEvent, UpdateIncident
<1>2. PICK r \in Rounds : CeGoes(p, r) /\ r.cursor = old.cursor /\ r.found = old.found
  <2>1. CASE ClaimErrorDedupe(p)
    <3> DEFINE r == [old EXCEPT !.pc = "stage", !.send = old.error \notin ceDedupe]
    <3>1. r \in Rounds /\ r.cursor = old.cursor /\ r.found = old.found
      BY <1>1 DEF Rounds
    <3> QED  BY <2>1, <3>1 DEF ClaimErrorDedupe
  <2>2. CASE StageError(p)
    <3> DEFINE r == [old EXCEPT !.pc = "record"]
    <3>1. r \in Rounds /\ r.cursor = old.cursor /\ r.found = old.found
      BY <1>1 DEF Rounds
    <3> QED  BY <2>2, <3>1 DEF StageError
  <2>3. CASE RecordEvent(p)
    <3> DEFINE r == [old EXCEPT !.pc = "update"]
    <3>1. r \in Rounds /\ r.cursor = old.cursor /\ r.found = old.found
      BY <1>1 DEF Rounds
    <3> QED  BY <2>3, <3>1 DEF RecordEvent
  <2>4. CASE UpdateIncident(p)
    <3> DEFINE r == [old EXCEPT !.pc = "next", !.error = NoError, !.send = FALSE]
    <3>1. r \in Rounds /\ r.cursor = old.cursor /\ r.found = old.found
      BY <1>1 DEF Rounds
    <3> QED  BY <2>4, <3>1 DEF UpdateIncident
  <2> QED  BY <2>1, <2>2, <2>3, <2>4
<1>3. ceProc'[p] = r /\ \A q \in CeProcs \ {p} : ceProc'[q] = ceProc[q]
  BY <1>2, RoundGoes
<1>4. \A e \in CeErrors : ceIncident[e] # "none" => ceIncident'[e] # "none"
  BY DEF CeTypeOK, ClaimErrorDedupe, StageError, RecordEvent, UpdateIncident, Delivered
<1>5. /\ UNCHANGED <<ceLog, ceIdentity, cePassed, ceUnread>>
      /\ ceCursor' = ceCursor
  BY DEF ClaimErrorDedupe, StageError, RecordEvent, UpdateIncident
<1>6. Stays
  BY <1>4, <1>5 DEF Stays
<1> QED
  BY <1>1, <1>2, <1>3, <1>5, <1>6, OwnCursorStays

\* A process that is done has no cursor, so only what it saved counts.
LEMMA NoCursorCovers == CeTypeOK => Covers(NoErrorCursor, {})
  BY DEF CeTypeOK, Covers, NoErrorCursor, CeAssumption

LEMMA RoundOverCovers ==
  ASSUME CeTypeOK, CursorInv, NEW p \in CeProcs, SaveCursor(p) \/ ErrorRoundDies(p)
  PROVE  CursorInv'
<1>1. /\ ceProc' \in [CeProcs -> Rounds] /\ ceProc'[p] = ErrorRoundOver
      /\ \A q \in CeProcs \ {p} : ceProc'[q] = ceProc[q]
  BY OverIsRound, RoundGoes DEF SaveCursor, ErrorRoundDies
<1>2. Stays
  BY DEF SaveCursor, ErrorRoundDies, Stays
<1>3. PICK n : n = NoErrorCursor
  OBVIOUS
<1>4. Covers(n, {})
  BY <1>3, NoCursorCovers
<1>5. Covers(n, {})'
  BY <1>2, <1>4, CoversStays
<1>6. Covers(ceProc[p].cursor, ceProc[p].found)'
  BY <1>1, <1>3, <1>5, OverIsRound DEF Covers
<1>7. Covers(ceCursor, {})'
  <2>1. CASE ceCursor' = ceCursor
    BY <1>2, <2>1, SavedCursorStays
  <2>2. CASE SaveCursor(p) /\ ceCursor' = ceProc[p].cursor
    <3>1. PICK c : c = ceProc[p].cursor
      OBVIOUS
    <3>2. Covers(c, {})
      BY <2>2, <3>1 DEF CursorInv, SaveCursor
    <3>3. Covers(c, {})' /\ c = ceCursor'
      BY <1>2, <2>2, <3>1, <3>2, CoversStays
    <3> QED
      BY <3>3 DEF Covers
  <2> QED
    BY <2>1, <2>2 DEF SaveCursor, ErrorRoundDies
<1> QED
  BY <1>1, <1>2, <1>6, <1>7, OverIsRound, CarryCursors

LEMMA StepCovers ==
  ~CeLate /\ CeTypeOK /\ CursorInv /\ [CeNext]_ceVars => CursorInv'
<1> SUFFICES ASSUME ~CeLate, CeTypeOK, CursorInv, [CeNext]_ceVars PROVE CursorInv'
  OBVIOUS
<1>1. CASE UNCHANGED ceVars
  <2>1. Stays /\ UNCHANGED <<ceCursor, ceProc>>
    BY <1>1 DEF Stays, ceVars
  <2>2. ASSUME NEW c \in CursorRecord, NEW f, Covers(c, f) PROVE Covers(c, f)'
    BY <2>1, <2>2, CoversStays
  <2> QED
    BY <2>1, <2>2, EveryCursor
<1>2. CASE \E i \in Position, what \in CeErrors \cup {"other"} : CommitRow(i, what)
  BY <1>2, CommitRowCovers
<1>3. CASE RemoveOldest \/ BeginLog
  BY <1>3, RemoveOldestCovers, BeginLogCovers
<1>4. CASE \E e \in CeErrors : ErrorDedupeExpires(e)
  BY <1>4, DedupeExpiresCovers
<1>5. ASSUME NEW p \in CeProcs, ScanErrors(p) \/ ListPending(p) PROVE CursorInv'
  BY <1>5, ScanCovers, ListPendingCovers
<1>6. ASSUME NEW p \in CeProcs, NEW e \in CeErrors, ClaimIncident(p, e) \/ TellError(p, e)
      PROVE  CursorInv'
  BY <1>6, ClaimCovers, TellErrorCovers
<1>7. ASSUME NEW p \in CeProcs,
             ClaimErrorDedupe(p) \/ StageError(p) \/ RecordEvent(p) \/ UpdateIncident(p)
      PROVE  CursorInv'
  BY <1>7, DeliveryCovers
<1>8. ASSUME NEW p \in CeProcs, SaveCursor(p) \/ ErrorRoundDies(p) PROVE CursorInv'
  BY <1>8, RoundOverCovers
<1> QED
  BY <1>1, <1>2, <1>3, <1>4, <1>5, <1>6, <1>7, <1>8 DEF CeNext

LEMMA InitCovers == CeInit => CursorInv
<1> SUFFICES ASSUME CeInit PROVE CursorInv
  OBVIOUS
<1>1. CeTypeOK
  BY InitDelivers DEF DeliveryInv
<1>2. Covers(NoErrorCursor, {})
  BY <1>1, NoCursorCovers
<1> QED
  BY <1>2, OverIsRound DEF CeInit, CursorInv

\* If rows are committed in the order in which they are read, the saved cursor is never past an
\* error that was not entered as an incident, whichever process saved it and wherever rounds ended.
THEOREM CursorsCover == ASSUME ~CeLate PROVE CeSpec => []CursorCoversIncidents
<1>1. CursorInv => CursorCoversIncidents
  BY DEF CursorInv, Covers, CursorCoversIncidents
<1>2. CeInit => DeliveryInv /\ CursorInv
  BY InitDelivers, InitCovers
<1>3. DeliveryInv /\ CursorInv /\ [CeNext]_ceVars => (DeliveryInv /\ CursorInv)'
  BY StepDelivers, StepCovers DEF DeliveryInv
<1> QED
  BY <1>1, <1>2, <1>3, PTL DEF CeSpec

(***************************************************************************)
(* II. The questions.                                                      *)
(***************************************************************************)
\* An entrance and its local variables.
CqRecord ==
  [pc : {"idle", "next", "maintain", "confirm", "prepare", "mark", "dedupe", "stage", "finish"},
   on : BOOLEAN, todo : SUBSET CqThreads, active : SUBSET CqThreads, thread : CqThreads,
   mine : BOOLEAN, send : BOOLEAN]

\* A question asked while the notifications were off, and seen to be, is old
\* already, or will be for the next that looks with them on.
Judged ==
  \A t \in cqQuiet :
    /\ cqAsked[t] # "unasked" /\ cqTold[t] = 0
    /\ t \in cqOld \/ cqBaseline # "on"

\* One asked while they are off, and not yet seen to be, is not told before
\* somebody sees them off or the user switches them on.
Unnoticed ==
  /\ \A t \in cqUnnoticed : cqAsked[t] # "unasked" /\ cqTold[t] = 0
  /\ cqUnnoticed # {} => cqOn = FALSE /\ \A p \in InUse : Busy(p) => cqProc[p].on = FALSE

\* The marker of a question that was told is not older than anybody's last
\* look at it, or that is longer ago than the retention.
Remembered ==
  \A t \in CqThreads :
    /\ cqDay > 0 /\ cqAt[t] <= cqDay /\ cqKept[t] <= cqDay
    /\ cqTold[t] > 0 =>
         /\ cqAsked[t] # "unasked" /\ cqAt[t] <= cqKept[t] /\ cqKept[t] > 0
         /\ cqMarker[t] >= cqKept[t] \/ cqDay - cqKept[t] > CqRetention

\* What an entrance has made sure of on its way, and what its claim means.
OnItsWay(p) ==
  LET r == cqProc[p] IN
  /\ r.pc \in {"mark", "dedupe", "stage"} =>
       r.on = TRUE /\ r.thread \notin cqQuiet /\ cqAsked[r.thread] # "unasked"
  /\ r.mine = TRUE => r.pc \in {"dedupe", "stage", "finish"} /\ cqMarker[r.thread] = cqDay
  /\ r.send = TRUE => r.mine = TRUE
  /\ r.mine = TRUE /\ r.pc \in {"dedupe", "stage"} /\ cqTold[r.thread] > 0 =>
       cqDay - cqKept[r.thread] > CqRetention
  /\ p = "monitor" /\ r.pc \in {"prepare", "mark", "dedupe", "stage"} =>
       cqDay - cqAt[r.thread] <= CqMaxAge

OneClaims ==
  \A p, q \in InUse :
    p # q /\ cqProc[p].mine = TRUE /\ cqProc[q].mine = TRUE => cqProc[p].thread # cqProc[q].thread

QuestionsInv ==
  /\ CqTypeOK /\ Judged /\ Unnoticed /\ Remembered
  /\ \A p \in InUse : OnItsWay(p)
  /\ OneClaims

LEMMA CqRetentionIs ==
  CqMaxAge \in Nat /\ CqRetention \in Nat /\ CqMaxAge < CqRetention /\ CqMaxDay \in Nat
  BY CqAssumption

LEMMA CqTypes ==
  ASSUME CqTypeOK
  PROVE  /\ cqDay \in Nat /\ cqDay \in Days /\ cqDay <= CqMaxDay /\ cqOn \in BOOLEAN
         /\ \A t \in CqThreads : /\ cqAt[t] \in Nat /\ cqMarker[t] \in Nat
                                 /\ cqTold[t] \in Nat /\ cqKept[t] \in Nat
         /\ cqProc \in [InUse -> CqRecord]
         /\ \A p \in InUse : cqProc[p] \in CqRecord
<1>1. cqDay \in Nat /\ cqDay \in Days /\ cqDay <= CqMaxDay /\ cqOn \in BOOLEAN
  <2>1. cqDay \in 0..CqMaxDay /\ cqOn \in BOOLEAN
    BY DEF CqTypeOK, Days
  <2> QED  BY <2>1, CqRetentionIs DEF Days
<1>2. ASSUME NEW t \in CqThreads
      PROVE  cqAt[t] \in Nat /\ cqMarker[t] \in Nat /\ cqTold[t] \in Nat /\ cqKept[t] \in Nat
  <2>1. cqAt[t] \in Days /\ cqMarker[t] \in Days /\ cqTold[t] \in Nat /\ cqKept[t] \in Days
    BY DEF CqTypeOK
  <2> QED  BY <2>1, CqRetentionIs DEF Days
<1>3. cqProc \in [InUse -> CqRecord]
  BY DEF CqTypeOK, CqRecord
<1> QED  BY <1>1, <1>2, <1>3

LEMMA CqIdleIs ==
  /\ CqIdle \in CqRecord /\ CqIdle.pc = "idle" /\ CqIdle.on = FALSE
  /\ CqIdle.mine = FALSE /\ CqIdle.send = FALSE
<1>1. (CHOOSE t \in CqThreads : TRUE) \in CqThreads
  BY CqAssumption
<1> QED
  BY <1>1 DEF CqIdle, CqRecord

LEMMA CqGone ==
  ASSUME CqTypeOK, NEW p \in InUse, NEW r \in CqRecord, CqGoes(p, r)
  PROVE  /\ InUse' = InUse /\ cqProc' \in [InUse -> CqRecord] /\ cqProc'[p] = r
         /\ \A q \in InUse \ {p} : cqProc'[q] = cqProc[q]
  BY CqTypes DEF CqGoes, InUse

\* No step of an entrance tells one nobody has seen them off for, or lets an
\* entrance be at work with them on.
LEMMA UnnoticedStays ==
  ASSUME QuestionsInv, NEW p \in InUse, NEW r \in CqRecord, CqGoes(p, r),
         r.pc = "idle" \/ (r.on = cqProc[p].on /\ Busy(p)) \/ r.on = cqOn \/ r.on = FALSE,
         cqUnnoticed' \in {cqUnnoticed, {}}, UNCHANGED cqOn,
         \A t \in CqThreads : cqAsked[t] # "unasked" => cqAsked'[t] # "unasked",
         \A t \in cqUnnoticed : cqTold'[t] = cqTold[t]
  PROVE  Unnoticed'
<1>1. /\ InUse' = InUse /\ cqProc'[p] = r
      /\ \A q \in InUse \ {p} : cqProc'[q] = cqProc[q]
  BY CqGone DEF QuestionsInv
<1>2. \A t \in cqUnnoticed' : cqAsked'[t] # "unasked" /\ cqTold'[t] = 0
  <2>1. cqUnnoticed \subseteq CqThreads
    BY DEF QuestionsInv, CqTypeOK
  <2> QED  BY <2>1 DEF QuestionsInv, Unnoticed
<1>3. ASSUME cqUnnoticed # {}
      PROVE  cqOn = FALSE /\ \A q \in InUse : Busy(q)' => cqProc'[q].on = FALSE
  <2>1. cqOn = FALSE /\ \A q \in InUse : Busy(q) => cqProc[q].on = FALSE
    BY <1>3 DEF QuestionsInv, Unnoticed
  <2>2. Busy(p)' => cqProc'[p].on = FALSE
    BY <1>1, <2>1 DEF Busy
  <2>3. \A q \in InUse \ {p} : Busy(q)' => cqProc'[q].on = FALSE
    BY <1>1, <2>1 DEF Busy
  <2> QED  BY <2>1, <2>2, <2>3
<1> QED
  BY <1>1, <1>2, <1>3 DEF Unnoticed

(***************************************************************************)
(* Steps of one entrance that leave the database as it is: it starts, goes *)
(* on with nothing claimed, or ends.                                       *)
(***************************************************************************)
Unclaimed(r) == r.pc \notin {"mark", "dedupe", "stage"} /\ r.mine = FALSE /\ r.send = FALSE

LEMMA UnclaimedStep ==
  ASSUME QuestionsInv, NEW p \in InUse, NEW r \in CqRecord, CqGoes(p, r), Unclaimed(r),
         r.pc = "idle" \/ (r.on = cqProc[p].on /\ Busy(p)) \/ r.on = cqOn \/ r.on = FALSE,
         p = "monitor" /\ r.pc = "prepare" => cqDay - cqAt[r.thread] <= CqMaxAge,
         CqTypeOK', UNCHANGED <<cqDay, cqOn, cqAt, cqMarker, cqTold, cqKept>>,
         UNCHANGED <<cqBaseline, cqOld, cqUnnoticed, cqQuiet>>,
         \A t \in CqThreads : cqAsked[t] # "unasked" => cqAsked'[t] # "unasked"
  PROVE  QuestionsInv'
<1>1. /\ InUse' = InUse /\ cqProc'[p] = r
      /\ \A q \in InUse \ {p} : cqProc'[q] = cqProc[q]
  BY CqGone DEF QuestionsInv
<1>2. Judged' /\ Unnoticed'
  <2>1. cqQuiet \subseteq CqThreads
    BY DEF QuestionsInv, CqTypeOK
  <2>2. Judged'
    BY <2>1 DEF QuestionsInv, Judged
  <2>3. Unnoticed'
    BY UnnoticedStays
  <2> QED  BY <2>2, <2>3
<1>3. Remembered'
  BY DEF QuestionsInv, Remembered
<1>4. ASSUME NEW q \in InUse PROVE OnItsWay(q)'
  <2>1. CASE q = p
    BY <1>1, <2>1 DEF OnItsWay, Unclaimed
  <2>2. CASE q # p
    <3>1. cqProc'[q] = cqProc[q] /\ cqProc[q].thread \in CqThreads /\ OnItsWay(q)
      BY <1>1, <2>2, CqTypes DEF QuestionsInv, CqRecord
    <3> QED  BY <3>1 DEF OnItsWay
  <2> QED  BY <2>1, <2>2
<1>5. OneClaims'
  BY <1>1 DEF QuestionsInv, OneClaims, Unclaimed
<1> QED
  BY <1>1, <1>2, <1>3, <1>4, <1>5 DEF QuestionsInv

\* An entrance that steps on stays in the types.
LEMMA CqStepTyped ==
  ASSUME CqTypeOK, NEW p \in InUse, NEW r \in CqRecord, CqGoes(p, r),
         UNCHANGED <<cqDay, cqOn, cqSwitches, cqAt>>,
         cqUnnoticed' \subseteq CqThreads, cqQuiet' \subseteq CqThreads,
         cqAsked' \in [CqThreads -> {"unasked", "open", "turn over", "resolved"}],
         cqBaseline' \in {"unset", "on", "off"}, cqOld' \subseteq CqThreads,
         cqMarker' \in [CqThreads -> Days], cqPassive' \in [CqThreads -> Days],
         cqListed' \in [{"monitor", "scan"} -> [day : Days, threads : SUBSET CqThreads]],
         cqDedupe' \subseteq CqThreads, cqRow' \in [CqThreads -> Days],
         cqFaults' \in 0..CqMaxFaults,
         cqTold' \in [CqThreads -> Nat], cqKept' \in [CqThreads -> Days]
  PROVE  CqTypeOK'
<1>1. InUse' = InUse /\ cqProc' \in [InUse' -> CqRecord]
  BY CqGone
<1> QED
  BY <1>1 DEF CqTypeOK, CqRecord, Days

LEMMA QuestionsAfterIs ==
  ASSUME CqTypeOK, NEW p \in InUse, Busy(p)
  PROVE  /\ AfterPipeline(p) \in CqRecord /\ Unclaimed(AfterPipeline(p))
         /\ AfterPipeline(p).pc \in {"idle", "next"}
         /\ AfterPipeline(p).pc = "idle" \/ AfterPipeline(p).on = cqProc[p].on
<1>1. CASE p \in {"monitor", "scan"}
  <2>1. PICK r : r = [cqProc[p] EXCEPT !.pc = "next", !.mine = FALSE, !.send = FALSE]
    OBVIOUS
  <2>2. cqProc[p] \in CqRecord
    BY CqTypes
  <2>3. /\ r \in CqRecord /\ r.pc = "next" /\ r.mine = FALSE /\ r.send = FALSE
        /\ r.on = cqProc[p].on
    BY <2>1, <2>2 DEF CqRecord
  <2> QED  BY <1>1, <2>1, <2>3 DEF AfterPipeline, Unclaimed
<1>2. CASE p \notin {"monitor", "scan"}
  BY <1>2, CqIdleIs DEF AfterPipeline, Unclaimed
<1> QED  BY <1>1, <1>2

(***************************************************************************)
(* The native program, the user and time.                                  *)
(***************************************************************************)
LEMMA AskKeeps ==
  ASSUME QuestionsInv, NEW t \in CqThreads, NEW hooked \in BOOLEAN, AskQuestion(t, hooked)
  PROVE  QuestionsInv'
<1>1. /\ cqAsked[t] = "unasked"
      /\ cqAsked' = [cqAsked EXCEPT ![t] = "open"] /\ cqAt' = [cqAt EXCEPT ![t] = cqDay]
      /\ UNCHANGED <<cqDay, cqOn, cqSwitches, cqBaseline, cqOld, cqMarker, cqPassive, cqListed,
                     cqDedupe, cqRow, cqFaults, cqTold, cqKept>>
      /\ CqTypeOK
  BY DEF AskQuestion, cqTelling, QuestionsInv
<1>2. /\ cqAsked' \in [CqThreads -> {"unasked", "open", "turn over", "resolved"}]
      /\ cqAsked'[t] = "open" /\ \A u \in CqThreads \ {t} : cqAsked'[u] = cqAsked[u]
      /\ cqAt' \in [CqThreads -> Days]
      /\ cqAt'[t] = cqDay /\ \A u \in CqThreads \ {t} : cqAt'[u] = cqAt[u]
  BY <1>1 DEF CqTypeOK
<1>3. /\ InUse' = InUse /\ cqProc' \in [InUse -> CqRecord]
      /\ \A q \in InUse :
           \/ cqProc'[q] = cqProc[q]
           \/ cqProc'[q].pc = "confirm" /\ cqProc'[q].on = cqOn /\ Unclaimed(cqProc'[q])
  <2>1. CASE hooked
    <3>1. PICK r : r = [CqIdle EXCEPT !.pc = "confirm", !.on = cqOn, !.thread = t]
      OBVIOUS
    <3>2. r \in CqRecord /\ r.pc = "confirm" /\ r.on = cqOn /\ Unclaimed(r)
      BY <3>1, <1>1, CqIdleIs, CqTypes DEF CqRecord, Unclaimed
    <3>3. "hook" \in InUse /\ CqGoes("hook", r)
      BY <2>1, <3>1 DEF AskQuestion
    <3> QED  BY <1>1, <3>2, <3>3, CqGone
  <2>2. CASE ~hooked
    BY <2>2, <1>1, CqTypes DEF AskQuestion, InUse
  <2> QED  BY <2>1, <2>2
<1>4. /\ cqQuiet' \subseteq cqQuiet \cup {t} /\ cqQuiet' \subseteq CqThreads
      /\ cqUnnoticed' \subseteq cqUnnoticed \cup {t} /\ cqUnnoticed' \subseteq CqThreads
      /\ t \in cqQuiet' \ cqQuiet => cqBaseline # "on"
      /\ t \in cqUnnoticed' \ cqUnnoticed =>
           cqOn = FALSE /\ \A q \in InUse : Busy(q) => cqProc[q].on = FALSE
  <2>1. cqOn \in BOOLEAN /\ cqQuiet \subseteq CqThreads /\ cqUnnoticed \subseteq CqThreads
    BY <1>1 DEF CqTypeOK
  <2>2. \A q \in InUse : cqProc[q].on \in BOOLEAN
    BY <1>1, CqTypes DEF CqRecord
  <2>3. Silent => cqOn = FALSE /\ \A q \in InUse : Busy(q) => cqProc[q].on = FALSE
    BY <2>1, <2>2 DEF Silent
  <2>4. /\ cqQuiet' = cqQuiet \/ (cqQuiet' = cqQuiet \cup {t} /\ Silent /\ cqBaseline # "on")
        /\ cqUnnoticed' = cqUnnoticed \/ (cqUnnoticed' = cqUnnoticed \cup {t} /\ Silent)
    BY DEF AskQuestion
  <2> QED  BY <2>1, <2>3, <2>4
<1>5. cqTold[t] = 0
  BY <1>1, CqTypes DEF QuestionsInv, Remembered
<1>6. CqTypeOK'
  BY <1>1, <1>2, <1>3, <1>4 DEF CqTypeOK, CqRecord, Days
<1>7. Judged' /\ Unnoticed'
  <2>1. \A u \in cqQuiet' \cup cqUnnoticed' :
          u \in CqThreads /\ (u \in cqQuiet \cup cqUnnoticed \/ u = t)
    BY <1>4
  <2>2. \A u \in cqQuiet' \cup cqUnnoticed' : cqAsked'[u] # "unasked" /\ cqTold[u] = 0
    BY <2>1, <1>2, <1>5 DEF QuestionsInv, Judged, Unnoticed
  <2>3. \A u \in cqQuiet' : u \in cqOld \/ cqBaseline # "on"
    BY <1>4 DEF QuestionsInv, Judged
  <2>4. ASSUME cqUnnoticed' # {}
        PROVE  cqOn = FALSE /\ \A q \in InUse : Busy(q)' => cqProc'[q].on = FALSE
    <3>1. cqOn = FALSE /\ \A q \in InUse : Busy(q) => cqProc[q].on = FALSE
      BY <2>4, <1>4 DEF QuestionsInv, Unnoticed
    <3> QED  BY <1>3, <3>1 DEF Busy
  <2> QED  BY <1>1, <1>3, <2>2, <2>3, <2>4 DEF Judged, Unnoticed
<1>8. Remembered'
  <2> SUFFICES ASSUME NEW u \in CqThreads
               PROVE  /\ cqDay > 0 /\ cqAt'[u] <= cqDay /\ cqKept[u] <= cqDay
                      /\ cqTold[u] > 0 =>
                           /\ cqAsked'[u] # "unasked" /\ cqAt'[u] <= cqKept[u] /\ cqKept[u] > 0
                           /\ cqMarker[u] >= cqKept[u] \/ cqDay - cqKept[u] > CqRetention
    BY <1>1 DEF Remembered
  <2>1. CASE u = t
    <3>1. cqDay \in Nat
      BY <1>1, CqTypes
    <3>2. cqAt'[u] = cqDay /\ cqTold[u] = 0
      BY <2>1, <1>2, <1>5
    <3>3. cqDay > 0 /\ cqKept[u] <= cqDay
      BY DEF QuestionsInv, Remembered
    <3> QED  BY <3>1, <3>2, <3>3
  <2>2. CASE u # t
    BY <2>2, <1>2 DEF QuestionsInv, Remembered
  <2> QED  BY <2>1, <2>2
<1>9. ASSUME NEW q \in InUse PROVE OnItsWay(q)'
  <2>1. CASE cqProc'[q] = cqProc[q]
    <3>1. cqProc[q].thread \in CqThreads /\ OnItsWay(q)
      BY CqTypes, <1>1 DEF QuestionsInv, CqRecord
    <3>2. cqProc[q].thread = t => cqDay - cqAt'[t] <= CqMaxAge
      <4>1. cqDay \in Nat
        BY <1>1, CqTypes
      <4>2. cqAt'[t] = cqDay
        BY <1>2
      <4>3. cqDay - cqDay = 0
        BY <4>1
      <4> QED  BY <4>2, <4>3, CqRetentionIs
    <3>3. cqProc[q].pc \in {"mark", "dedupe", "stage"} => cqProc[q].thread # t
      BY <3>1, <1>1 DEF OnItsWay
    <3>4. cqProc[q].pc \in {"mark", "dedupe", "stage"} =>
            cqProc[q].thread \notin cqQuiet' /\ cqAsked'[cqProc[q].thread] # "unasked"
      BY <3>1, <3>3, <1>2, <1>4 DEF OnItsWay
    <3>5. cqProc[q].thread # t => cqAt'[cqProc[q].thread] = cqAt[cqProc[q].thread]
      BY <3>1, <1>2
    <3> QED  BY <2>1, <3>1, <3>2, <3>4, <3>5, <1>1 DEF OnItsWay
  <2>2. CASE cqProc'[q].pc = "confirm" /\ Unclaimed(cqProc'[q])
    BY <2>2 DEF OnItsWay, Unclaimed
  <2> QED  BY <2>1, <2>2, <1>3
<1>10. OneClaims'
  BY <1>3 DEF QuestionsInv, OneClaims, Unclaimed
<1> QED
  BY <1>3, <1>6, <1>7, <1>8, <1>9, <1>10 DEF QuestionsInv

\* A step that touches no entrance, no question that was told and no marker.
LEMMA OutsideStep ==
  ASSUME QuestionsInv, CqTypeOK', UNCHANGED <<cqProc, cqDay, cqAt, cqMarker, cqTold, cqKept>>,
         UNCHANGED <<cqQuiet, cqBaseline, cqOld>>,
         cqUnnoticed' = {} \/ (cqUnnoticed' = cqUnnoticed /\ cqOn' = cqOn),
         \A t \in CqThreads : cqAsked[t] # "unasked" => cqAsked'[t] # "unasked"
  PROVE  QuestionsInv'
<1>1. InUse' = InUse
  BY DEF InUse
<1>2. Judged' /\ Unnoticed'
  <2>1. Judged'
    BY DEF QuestionsInv, Judged, CqTypeOK
  <2>2. Unnoticed'
    BY <1>1 DEF QuestionsInv, Unnoticed, Busy, CqTypeOK
  <2> QED  BY <2>1, <2>2
<1>3. Remembered'
  BY DEF QuestionsInv, Remembered
<1>4. ASSUME NEW q \in InUse PROVE OnItsWay(q)'
  <2>1. cqProc[q].thread \in CqThreads /\ OnItsWay(q)
    BY CqTypes DEF QuestionsInv, CqRecord
  <2> QED  BY <2>1 DEF OnItsWay
<1>5. OneClaims'
  BY <1>1 DEF QuestionsInv, OneClaims
<1> QED
  BY <1>1, <1>2, <1>3, <1>4, <1>5 DEF QuestionsInv

LEMMA TurnStopsKeeps ==
  ASSUME QuestionsInv, NEW t \in CqThreads, NEW hooked \in BOOLEAN, TurnStops(t, hooked)
  PROVE  QuestionsInv'
<1>1. /\ cqAsked' = [cqAsked EXCEPT ![t] = "turn over"]
      /\ UNCHANGED <<cqDay, cqOn, cqSwitches, cqAt, cqBaseline, cqOld, cqUnnoticed, cqQuiet,
                     cqMarker, cqPassive, cqListed, cqDedupe, cqRow, cqFaults, cqTold, cqKept>>
      /\ CqTypeOK
  BY DEF TurnStops, cqTelling, cqSetting, QuestionsInv
<1>2. /\ cqAsked' \in [CqThreads -> {"unasked", "open", "turn over", "resolved"}]
      /\ \A u \in CqThreads : cqAsked[u] # "unasked" => cqAsked'[u] # "unasked"
  BY <1>1 DEF CqTypeOK
<1>3. CASE hooked
  <2>1. PICK s : s = [CqIdle EXCEPT !.on = cqOn]
    OBVIOUS
  <2>2. s \in CqRecord /\ s.on = cqOn /\ s.mine = FALSE /\ s.send = FALSE
    BY <2>1, <1>1, CqIdleIs, CqTypes DEF CqRecord
  <2>3. PICK r : r = [s EXCEPT !.pc = "prepare", !.thread = t]
    OBVIOUS
  <2>4. /\ r \in CqRecord /\ r.pc = "prepare" /\ r.thread = t /\ r.on = cqOn /\ Unclaimed(r)
    <3>1. /\ r \in CqRecord /\ r.pc = "prepare" /\ r.thread = t /\ r.on = s.on
          /\ r.mine = s.mine /\ r.send = s.send
      BY <2>2, <2>3 DEF CqRecord
    <3> QED  BY <2>2, <3>1 DEF Unclaimed
  <2>5. "stop" \in InUse /\ CqGoes("stop", r)
    BY <1>3, <2>1, <2>3 DEF TurnStops, Enters
  <2>6. CqTypeOK'
    BY <1>1, <1>2, <2>4, <2>5, CqStepTyped DEF CqTypeOK
  <2> QED
    BY <1>1, <1>2, <2>4, <2>5, <2>6, UnclaimedStep
<1>4. CASE ~hooked
  <2>1. UNCHANGED cqProc
    BY <1>4 DEF TurnStops
  <2>2. CqTypeOK'
    BY <1>1, <1>2, <2>1 DEF CqTypeOK, InUse, Days
  <2> QED
    BY <1>1, <1>2, <2>1, <2>2, OutsideStep
<1> QED
  BY <1>3, <1>4

LEMMA OutsideKeeps ==
  ASSUME QuestionsInv,
         SwitchQuestions \/ \E t \in CqThreads : QuestionResolved(t) \/ DedupeExpires(t)
  PROVE  QuestionsInv'
<1>0. CqTypeOK
  BY DEF QuestionsInv
<1>1. CASE SwitchQuestions
  <2>1. CqTypeOK'
    <3>1. cqSwitches' \in 0..CqMaxSwitches /\ cqOn' \in BOOLEAN
      <4>1. cqSwitches \in 0..CqMaxSwitches /\ CqMaxSwitches \in Nat
        BY <1>0, CqAssumption DEF CqTypeOK
      <4>2. cqSwitches < CqMaxSwitches /\ cqSwitches' = cqSwitches + 1 /\ cqOn' = ~cqOn
        BY <1>1 DEF SwitchQuestions
      <4>3. cqSwitches' \in 0..CqMaxSwitches
        BY <4>1, <4>2
      <4> QED  BY <4>2, <4>3
    <3> QED
      BY <1>0, <1>1, <3>1 DEF SwitchQuestions, CqTypeOK, cqTelling, InUse, Days
  <2>2. /\ UNCHANGED <<cqProc, cqDay, cqAt, cqMarker, cqTold, cqKept>>
        /\ UNCHANGED <<cqQuiet, cqBaseline, cqOld, cqAsked>> /\ cqUnnoticed' = {}
    BY <1>1 DEF SwitchQuestions, cqTelling
  <2> QED
    BY <2>1, <2>2, OutsideStep
<1>2. ASSUME NEW t \in CqThreads, QuestionResolved(t)
      PROVE  QuestionsInv'
  <2>1. CqTypeOK'
    BY <1>0, <1>2 DEF QuestionResolved, CqTypeOK, cqTelling, cqSetting, InUse, Days
  <2>2. /\ UNCHANGED <<cqProc, cqDay, cqAt, cqMarker, cqTold, cqKept>>
        /\ UNCHANGED <<cqQuiet, cqBaseline, cqOld, cqOn, cqUnnoticed>>
        /\ cqAsked' = [cqAsked EXCEPT ![t] = "resolved"]
    BY <1>2 DEF QuestionResolved, cqTelling, cqSetting
  <2>3. \A u \in CqThreads : cqAsked[u] # "unasked" => cqAsked'[u] # "unasked"
    BY <2>2, <1>0 DEF CqTypeOK
  <2> QED
    BY <2>1, <2>2, <2>3, OutsideStep
<1>3. ASSUME NEW t \in CqThreads, DedupeExpires(t)
      PROVE  QuestionsInv'
  <2>1. CqTypeOK'
    BY <1>0, <1>3 DEF DedupeExpires, CqTypeOK, cqNative, cqTelling, cqSetting, InUse, Days
  <2>2. /\ UNCHANGED <<cqProc, cqDay, cqAt, cqMarker, cqTold, cqKept>>
        /\ UNCHANGED <<cqQuiet, cqBaseline, cqOld, cqOn, cqAsked, cqUnnoticed>>
    BY <1>3 DEF DedupeExpires, cqNative, cqTelling, cqSetting
  <2> QED
    BY <2>1, <2>2, OutsideStep
<1> QED
  BY <1>1, <1>2, <1>3

LEMMA DayKeeps ==
  ASSUME QuestionsInv, DayPasses
  PROVE  QuestionsInv'
<1>1. /\ cqDay' = cqDay + 1 /\ cqDay < CqMaxDay /\ cqDedupe' = {}
      /\ \A p \in InUse : cqProc[p].pc = "idle"
      /\ UNCHANGED <<cqOn, cqSwitches, cqAsked, cqAt, cqBaseline, cqOld, cqUnnoticed, cqQuiet,
                     cqMarker, cqPassive, cqListed, cqRow, cqProc, cqFaults, cqTold, cqKept>>
      /\ InUse' = InUse /\ CqTypeOK
  BY DEF DayPasses, Busy, cqTelling, cqSetting, InUse, QuestionsInv
<1>2. CqTypeOK'
  <2>1. cqDay' \in Days
    BY <1>1, CqTypes, CqRetentionIs DEF Days
  <2> QED  BY <1>1, <2>1 DEF CqTypeOK, Days
<1>3. Judged' /\ Unnoticed'
  BY <1>1 DEF QuestionsInv, Judged, Unnoticed, Busy
<1>4. Remembered'
  <2> SUFFICES ASSUME NEW t \in CqThreads
               PROVE  /\ cqDay + 1 > 0 /\ cqAt[t] <= cqDay + 1 /\ cqKept[t] <= cqDay + 1
                      /\ cqTold[t] > 0 =>
                           /\ cqAsked[t] # "unasked" /\ cqAt[t] <= cqKept[t] /\ cqKept[t] > 0
                           /\ cqMarker[t] >= cqKept[t] \/ (cqDay + 1) - cqKept[t] > CqRetention
    BY <1>1 DEF Remembered
  <2> QED  BY <1>1, CqTypes, CqRetentionIs DEF QuestionsInv, Remembered
<1>5. \A p \in InUse : OnItsWay(p)'
  BY <1>1 DEF QuestionsInv, OnItsWay
<1>6. OneClaims'
  BY <1>1 DEF QuestionsInv, OneClaims
<1> QED
  BY <1>1, <1>2, <1>3, <1>4, <1>5, <1>6 DEF QuestionsInv

(***************************************************************************)
(* The rounds and the hooks.                                               *)
(***************************************************************************)
\* Whoever has them on makes every question of an interval they were seen off
\* in old, and whoever sees them off notices the others.
LEMMA BaselineJudges ==
  ASSUME QuestionsInv, NEW on \in BOOLEAN, Baseline(on)
  PROVE  /\ cqBaseline' \in {"unset", "on", "off"} /\ cqOld' \subseteq CqThreads
         /\ cqUnnoticed' \in {cqUnnoticed, {}} /\ cqQuiet' \subseteq cqQuiet \cup cqUnnoticed
         /\ \A t \in cqQuiet' : t \in cqOld' \/ cqBaseline' # "on"
<1>1. /\ cqBaseline' = (IF on THEN "on" ELSE "off") /\ cqOld' = OldAfter(on)
      /\ cqUnnoticed' = IF on THEN cqUnnoticed ELSE {}
      /\ cqQuiet' = IF on THEN cqQuiet ELSE cqQuiet \cup cqUnnoticed
  BY DEF Baseline, BaselineIs
<1>2. cqOld \subseteq CqThreads /\ AskedSoFar \subseteq CqThreads /\ cqQuiet \subseteq CqThreads
  BY DEF QuestionsInv, CqTypeOK, AskedSoFar
<1>3. ASSUME NEW t \in cqQuiet', cqBaseline' = "on"
      PROVE  t \in cqOld'
  <2>1. on = TRUE /\ t \in cqQuiet
    BY <1>1, <1>3
  <2>2. CASE cqBaseline # "on"
    <3>1. t \in AskedSoFar
      BY <1>2, <2>1 DEF QuestionsInv, Judged, AskedSoFar
    <3> QED  BY <1>1, <2>1, <2>2, <3>1 DEF OldAfter
  <2>3. CASE cqBaseline = "on"
    <3>1. t \in cqOld
      BY <2>1, <2>3 DEF QuestionsInv, Judged
    <3> QED  BY <1>1, <2>3, <3>1 DEF OldAfter
  <2> QED  BY <2>2, <2>3
<1> QED
  BY <1>1, <1>2, <1>3 DEF OldAfter

LEMMA BaselineStep ==
  ASSUME QuestionsInv, NEW on \in BOOLEAN, Baseline(on),
         NEW p \in InUse, NEW r \in CqRecord, CqGoes(p, r),
         r.pc = "idle" \/ (r.on = cqProc[p].on /\ Busy(p)) \/ r.on = cqOn,
         r.mine = FALSE, r.send = FALSE, r.pc \notin {"dedupe", "stage"},
         r.pc = "mark" =>
           /\ r.on = TRUE /\ Busy(p) /\ cqProc[p].on = TRUE /\ cqAsked[r.thread] # "unasked"
           /\ r.thread \notin cqOld' /\ cqBaseline' = "on",
         p = "monitor" /\ r.pc \in {"prepare", "mark"} => cqDay - cqAt[r.thread] <= CqMaxAge,
         UNCHANGED <<cqDay, cqOn, cqSwitches, cqAsked, cqAt, cqMarker, cqPassive>>,
         UNCHANGED <<cqListed, cqDedupe, cqRow, cqFaults, cqTold, cqKept>>
  PROVE  QuestionsInv'
<1>1. /\ InUse' = InUse /\ cqProc'[p] = r
      /\ \A q \in InUse \ {p} : cqProc'[q] = cqProc[q]
  BY CqGone DEF QuestionsInv
<1>2. /\ cqBaseline' \in {"unset", "on", "off"} /\ cqOld' \subseteq CqThreads
      /\ cqUnnoticed' \in {cqUnnoticed, {}} /\ cqQuiet' \subseteq cqQuiet \cup cqUnnoticed
      /\ \A t \in cqQuiet' : t \in cqOld' \/ cqBaseline' # "on"
  BY BaselineJudges
<1>3. CqTypeOK'
  <2>1. CqTypeOK
    BY DEF QuestionsInv
  <2>2. cqUnnoticed' \subseteq CqThreads /\ cqQuiet' \subseteq CqThreads
    BY <1>2, <2>1 DEF CqTypeOK
  <2> QED
    BY <1>2, <2>1, <2>2, CqStepTyped DEF CqTypeOK
<1>4. Judged'
  BY <1>2 DEF QuestionsInv, Judged, Unnoticed
<1>5. Unnoticed'
  BY <1>2, UnnoticedStays
<1>6. Remembered'
  BY DEF QuestionsInv, Remembered
<1>7. ASSUME NEW q \in InUse PROVE OnItsWay(q)'
  <2>1. CASE q = p
    <3>1. r.pc = "mark" => r.thread \notin cqQuiet'
      BY <1>2
    <3> QED  BY <1>1, <2>1, <3>1 DEF OnItsWay
  <2>2. CASE q # p
    <3>1. cqProc'[q] = cqProc[q] /\ OnItsWay(q)
      BY <1>1, <2>2 DEF QuestionsInv
    <3>2. ASSUME cqProc[q].pc \in {"mark", "dedupe", "stage"}
          PROVE  cqProc[q].thread \notin cqQuiet'
      <4>1. cqProc[q].on = TRUE /\ cqProc[q].thread \notin cqQuiet
        BY <3>1, <3>2 DEF OnItsWay
      <4>2. cqUnnoticed = {}
        BY <3>2, <4>1 DEF QuestionsInv, Unnoticed, Busy
      <4> QED  BY <1>2, <4>1, <4>2
    <3> QED  BY <3>1, <3>2 DEF OnItsWay
  <2> QED  BY <2>1, <2>2
<1>8. OneClaims'
  BY <1>1 DEF QuestionsInv, OneClaims
<1> QED
  BY <1>1, <1>3, <1>4, <1>5, <1>6, <1>7, <1>8 DEF QuestionsInv

LEMMA MonitorBeginsKeeps ==
  ASSUME QuestionsInv, "monitor" \in InUse, NEW seen \in SUBSET CqThreads, MonitorBegins(seen)
  PROVE  QuestionsInv'
<1>1. PICK r : r = [CqIdle EXCEPT !.on = cqOn, !.pc = IF cqOn THEN "next" ELSE "maintain",
                                  !.todo = IF cqOn THEN seen ELSE {}]
  OBVIOUS
<1>2. cqOn \in BOOLEAN
  BY DEF QuestionsInv, CqTypeOK
<1>3. /\ r \in CqRecord /\ r.pc \in {"next", "maintain"} /\ r.on = cqOn
      /\ r.mine = FALSE /\ r.send = FALSE
  BY <1>1, <1>2, CqIdleIs DEF CqRecord
<1>4. /\ Baseline(cqOn) /\ CqGoes("monitor", r)
      /\ UNCHANGED <<cqDay, cqOn, cqSwitches, cqAsked, cqAt, cqMarker, cqPassive>>
      /\ UNCHANGED <<cqListed, cqDedupe, cqRow, cqFaults, cqTold, cqKept>>
  BY <1>1 DEF MonitorBegins, cqNative, cqSetting, cqTelling
<1> QED
  BY <1>2, <1>3, <1>4, BaselineStep

LEMMA PrepareKeeps ==
  ASSUME QuestionsInv, NEW p \in InUse, NEW readable \in BOOLEAN, Prepare(p, readable)
  PROVE  QuestionsInv'
<1>1. /\ cqProc[p].pc = "prepare" /\ Busy(p) /\ CqTypeOK
      /\ UNCHANGED <<cqDay, cqOn, cqSwitches, cqAsked, cqAt, cqMarker, cqPassive>>
      /\ UNCHANGED <<cqListed, cqDedupe, cqRow, cqFaults, cqTold, cqKept>>
  BY DEF Prepare, Busy, cqNative, cqSetting, cqTelling, QuestionsInv
<1>2. /\ cqProc[p] \in CqRecord /\ cqProc[p].on \in BOOLEAN /\ cqProc[p].thread \in CqThreads
  BY <1>1, CqTypes DEF CqRecord
<1>3. cqProc[p].mine = FALSE /\ cqProc[p].send = FALSE
  BY <1>1, <1>2 DEF QuestionsInv, OnItsWay, CqRecord
<1>4. PICK a : a = AfterPipeline(p)
  OBVIOUS
<1>5. /\ a \in CqRecord /\ Unclaimed(a) /\ a.pc \in {"idle", "next"}
      /\ a.pc = "idle" \/ a.on = cqProc[p].on
  BY <1>1, <1>4, QuestionsAfterIs
<1>6. CASE ~readable
  <2>1. UNCHANGED <<cqBaseline, cqOld, cqUnnoticed, cqQuiet>> /\ CqGoes(p, a)
    BY <1>4, <1>6 DEF Prepare, cqSetting
  <2>2. CqTypeOK'
    BY <1>1, <1>5, <2>1, CqStepTyped DEF CqTypeOK
  <2> QED
    BY <1>1, <1>5, <2>1, <2>2, UnclaimedStep
<1>7. CASE readable
  <2>1. Baseline(cqProc[p].on)
    BY <1>7 DEF Prepare
  <2>2. CASE CqGoes(p, a)
    BY <1>1, <1>2, <1>5, <2>1, <2>2, BaselineStep DEF Unclaimed
  <2>3. CASE ~CqGoes(p, a)
    <3>1. PICK r : r = [cqProc[p] EXCEPT !.pc = "mark"]
      OBVIOUS
    <3>2. /\ r \in CqRecord /\ r.pc = "mark" /\ r.thread = cqProc[p].thread
          /\ r.on = cqProc[p].on /\ r.mine = FALSE /\ r.send = FALSE
      BY <1>2, <1>3, <3>1 DEF CqRecord
    <3>3. /\ CqGoes(p, r) /\ cqProc[p].on = TRUE
          /\ cqProc[p].thread \notin OldAfter(TRUE) /\ PendingQuestion(cqProc[p].thread)
      BY <1>2, <1>4, <1>7, <2>3, <3>1 DEF Prepare
    <3>4. cqBaseline' = "on" /\ cqOld' = OldAfter(TRUE)
      BY <1>2, <2>1, <3>3 DEF Baseline, BaselineIs
    <3>5. cqAsked[r.thread] # "unasked" /\ r.thread \notin cqOld'
      BY <3>2, <3>3, <3>4 DEF PendingQuestion
    <3>6. p = "monitor" => cqDay - cqAt[r.thread] <= CqMaxAge
      BY <1>1, <3>2 DEF QuestionsInv, OnItsWay
    <3> QED
      BY <1>1, <1>2, <2>1, <3>2, <3>3, <3>4, <3>5, <3>6, BaselineStep
  <2> QED  BY <2>2, <2>3
<1> QED
  BY <1>6, <1>7

\* An entrance comes across the marker of question t, or makes it.
LEMMA MarkStep ==
  ASSUME QuestionsInv, NEW t \in CqThreads, cqMarker' = [cqMarker EXCEPT ![t] = cqDay],
         UNCHANGED cqKept \/ KeepsAlive(t),
         NEW p \in InUse, NEW r \in CqRecord, CqGoes(p, r), Busy(p), r.on = cqProc[p].on,
         r.send = FALSE, r.pc \notin {"mark", "stage"},
         r.mine = TRUE =>
           r.pc = "dedupe" /\ r.thread = t /\ cqMarker[t] = 0 /\ UNCHANGED cqKept,
         r.pc = "dedupe" =>
           r.on = TRUE /\ r.thread \notin cqQuiet /\ cqAsked[r.thread] # "unasked",
         p = "monitor" /\ r.pc \in {"prepare", "dedupe"} => cqDay - cqAt[r.thread] <= CqMaxAge,
         UNCHANGED <<cqDay, cqOn, cqSwitches, cqAsked, cqAt, cqBaseline, cqOld, cqUnnoticed, cqQuiet>>,
         UNCHANGED <<cqPassive, cqListed, cqDedupe, cqRow, cqFaults, cqTold>>
  PROVE  QuestionsInv'
<1>0. CqTypeOK
  BY DEF QuestionsInv
<1>1. /\ InUse' = InUse /\ cqProc'[p] = r
      /\ \A q \in InUse \ {p} : cqProc'[q] = cqProc[q]
  BY <1>0, CqGone
<1>2. /\ cqMarker' \in [CqThreads -> Days] /\ cqMarker'[t] = cqDay
      /\ \A u \in CqThreads \ {t} : cqMarker'[u] = cqMarker[u]
  BY <1>0, CqTypes DEF CqTypeOK
<1>3. /\ cqKept' \in [CqThreads -> Days]
      /\ \A u \in CqThreads \ {t} : cqKept'[u] = cqKept[u]
      /\ cqKept'[t] \in {cqKept[t], cqDay}
      /\ cqKept'[t] # cqKept[t] =>
           \A q \in InUse : ~(cqProc[q].thread = t /\ cqProc[q].mine = TRUE)
  <2>1. cqKept \in [CqThreads -> Days] /\ cqDay \in Days
    BY <1>0, CqTypes DEF CqTypeOK
  <2>2. CASE UNCHANGED cqKept
    BY <2>1, <2>2
  <2>3. CASE KeepsAlive(t)
    <3>1. CASE \E q \in InUse : cqProc[q].thread = t /\ cqProc[q].mine
      <4>1. cqKept' = [cqKept EXCEPT ![t] = cqKept[t]]
        BY <2>3, <3>1 DEF KeepsAlive
      <4> QED  BY <2>1, <4>1
    <3>2. CASE ~\E q \in InUse : cqProc[q].thread = t /\ cqProc[q].mine
      <4>1. cqKept' = [cqKept EXCEPT ![t] = cqDay]
        BY <2>3, <3>2 DEF KeepsAlive
      <4>2. \A q \in InUse : ~(cqProc[q].thread = t /\ cqProc[q].mine = TRUE)
        BY <3>2
      <4> QED  BY <2>1, <4>1, <4>2
    <3> QED  BY <3>1, <3>2
  <2> QED  BY <2>2, <2>3
<1>4. CqTypeOK'
  BY <1>0, <1>2, <1>3, CqStepTyped DEF CqTypeOK
<1>5. Judged' /\ Unnoticed'
  <2>1. Judged'
    BY DEF QuestionsInv, Judged
  <2>2. Unnoticed'
    BY UnnoticedStays
  <2> QED  BY <2>1, <2>2
<1>6. Remembered'
  <2> SUFFICES ASSUME NEW u \in CqThreads
               PROVE  /\ cqDay > 0 /\ cqAt[u] <= cqDay /\ cqKept'[u] <= cqDay
                      /\ cqTold[u] > 0 =>
                           /\ cqAsked[u] # "unasked" /\ cqAt[u] <= cqKept'[u] /\ cqKept'[u] > 0
                           /\ cqMarker'[u] >= cqKept'[u] \/ cqDay - cqKept'[u] > CqRetention
    BY DEF Remembered
  <2>1. /\ cqDay > 0 /\ cqAt[u] <= cqDay /\ cqKept[u] <= cqDay
        /\ cqTold[u] > 0 =>
             /\ cqAsked[u] # "unasked" /\ cqAt[u] <= cqKept[u] /\ cqKept[u] > 0
             /\ cqMarker[u] >= cqKept[u] \/ cqDay - cqKept[u] > CqRetention
    BY DEF QuestionsInv, Remembered
  <2>2. CASE u = t
    <3>1. cqMarker'[u] = cqDay /\ cqKept'[u] \in {cqKept[u], cqDay}
      BY <1>2, <1>3, <2>2
    <3>2. cqDay \in Nat /\ cqKept[u] \in Nat /\ cqAt[u] \in Nat
      BY <1>0, CqTypes
    <3> QED  BY <2>1, <3>1, <3>2
  <2>3. CASE u # t
    BY <1>2, <1>3, <2>1, <2>3
  <2> QED  BY <2>2, <2>3
<1>7. ASSUME NEW q \in InUse PROVE OnItsWay(q)'
  <2>1. CASE q = p
    <3>1. CASE r.mine = TRUE
      <4>1. /\ r.pc = "dedupe" /\ r.thread = t /\ cqMarker[t] = 0 /\ cqKept' = cqKept
            /\ cqMarker'[r.thread] = cqDay
        BY <3>1, <1>2
      <4>2. cqTold[t] > 0 => cqDay - cqKept[t] > CqRetention
        <5>1. cqTold[t] > 0 =>
                cqKept[t] > 0 /\ (cqMarker[t] >= cqKept[t] \/ cqDay - cqKept[t] > CqRetention)
          BY DEF QuestionsInv, Remembered
        <5>2. cqKept[t] \in Nat
          BY <1>0, CqTypes
        <5> QED  BY <4>1, <5>1, <5>2
      <4> QED  BY <1>1, <2>1, <4>1, <4>2 DEF OnItsWay
    <3>2. CASE r.mine # TRUE
      BY <1>1, <2>1, <3>2 DEF OnItsWay
    <3> QED  BY <3>1, <3>2
  <2>2. CASE q # p
    <3>1. cqProc'[q] = cqProc[q] /\ OnItsWay(q) /\ cqProc[q].thread \in CqThreads
      BY <1>0, <1>1, <2>2, CqTypes DEF QuestionsInv, CqRecord
    <3>2. cqProc[q].mine = TRUE => cqKept'[cqProc[q].thread] = cqKept[cqProc[q].thread]
      BY <1>3, <3>1
    <3>3. cqProc[q].mine = TRUE => cqMarker'[cqProc[q].thread] = cqDay
      BY <1>2, <3>1 DEF OnItsWay
    <3> QED  BY <3>1, <3>2, <3>3 DEF OnItsWay
  <2> QED  BY <2>1, <2>2
<1>8. OneClaims'
  <2>1. ASSUME NEW q \in InUse \ {p}, r.mine = TRUE, cqProc[q].mine = TRUE, cqProc[q].thread = t
        PROVE  FALSE
    <3>1. cqMarker[t] = cqDay /\ cqMarker[t] = 0
      BY <2>1 DEF QuestionsInv, OnItsWay
    <3>2. cqDay > 0
      BY DEF QuestionsInv, Remembered
    <3> QED  BY <3>1, <3>2
  <2>2. \A q \in InUse \ {p} :
          r.mine = TRUE /\ cqProc[q].mine = TRUE => cqProc[q].thread # r.thread
    BY <2>1
  <2> QED
    BY <1>1, <2>2 DEF QuestionsInv, OneClaims
<1> QED
  BY <1>1, <1>4, <1>5, <1>6, <1>7, <1>8 DEF QuestionsInv

LEMMA MonitorLooksKeeps ==
  ASSUME QuestionsInv, "monitor" \in InUse, NEW t \in CqThreads, MonitorLooks(t)
  PROVE  QuestionsInv'
<1>0. /\ CqTypeOK
      /\ cqProc["monitor"].pc = "next" /\ Busy("monitor") /\ cqProc["monitor"] \in CqRecord
      /\ UNCHANGED <<cqDay, cqOn, cqSwitches, cqAsked, cqAt, cqBaseline, cqOld, cqUnnoticed, cqQuiet>>
      /\ UNCHANGED <<cqPassive, cqListed, cqDedupe, cqRow, cqFaults, cqTold>>
  BY CqTypes DEF QuestionsInv, MonitorLooks, Busy, cqNative, cqSetting
<1>1. PICK left : left = [cqProc["monitor"] EXCEPT !.todo = @ \ {t}]
  OBVIOUS
<1>2. PICK noted : noted = [left EXCEPT !.active = @ \cup {t}]
  OBVIOUS
<1>3. cqProc["monitor"].mine = FALSE /\ cqProc["monitor"].send = FALSE
  BY <1>0 DEF QuestionsInv, OnItsWay, CqRecord
<1>4. /\ left \in CqRecord /\ left.pc = "next" /\ Unclaimed(left)
      /\ left.on = cqProc["monitor"].on
  BY <1>0, <1>1, <1>3 DEF CqRecord, Unclaimed
<1>5. /\ noted \in CqRecord /\ noted.pc = "next" /\ Unclaimed(noted)
      /\ noted.on = cqProc["monitor"].on
  BY <1>2, <1>4 DEF CqRecord, Unclaimed
<1>6. CASE CqGoes("monitor", left) /\ UNCHANGED <<cqMarker, cqKept>>
  <2>1. CqTypeOK'
    BY <1>0, <1>4, <1>6, CqStepTyped DEF CqTypeOK
  <2> QED
    BY <1>0, <1>4, <1>6, <2>1, UnclaimedStep
<1>7. CASE CqGoes("monitor", noted) /\ UNCHANGED <<cqMarker, cqKept>>
  <2>1. CqTypeOK'
    BY <1>0, <1>5, <1>7, CqStepTyped DEF CqTypeOK
  <2> QED
    BY <1>0, <1>5, <1>7, <2>1, UnclaimedStep
<1>8. CASE /\ cqMarker' = [cqMarker EXCEPT ![t] = cqDay] /\ KeepsAlive(t)
           /\ CqGoes("monitor", noted)
  BY <1>0, <1>5, <1>8, MarkStep DEF Unclaimed
<1>9. CASE Enters("monitor", t, noted) /\ ~TooOld(t) /\ UNCHANGED <<cqMarker, cqKept>>
  <2>1. PICK r : r = [noted EXCEPT !.pc = "prepare", !.thread = t]
    OBVIOUS
  <2>2. /\ r \in CqRecord /\ r.pc = "prepare" /\ r.thread = t /\ r.on = noted.on
        /\ r.mine = noted.mine /\ r.send = noted.send
    BY <1>5, <2>1 DEF CqRecord
  <2>3. CqGoes("monitor", r) /\ Unclaimed(r)
    BY <1>5, <1>9, <2>1, <2>2 DEF Enters, Unclaimed
  <2>4. cqDay - cqAt[t] <= CqMaxAge
    <3>1. cqDay \in Nat /\ cqAt[t] \in Nat
      BY <1>0, CqTypes
    <3> QED  BY <1>9, <3>1, CqRetentionIs DEF TooOld
  <2>5. CqTypeOK'
    BY <1>0, <1>9, <2>2, <2>3, CqStepTyped DEF CqTypeOK
  <2> QED
    BY <1>0, <1>5, <1>9, <2>2, <2>3, <2>4, <2>5, UnclaimedStep
<1> QED
  BY <1>1, <1>2, <1>6, <1>7, <1>8, <1>9 DEF MonitorLooks

LEMMA RetainsTyped ==
  ASSUME CqTypeOK, NEW p \in InUse, Retains(p)
  PROVE  cqListed' \in [{"monitor", "scan"} -> [day : Days, threads : SUBSET CqThreads]]
<1>1. PICK l : l = [day |-> cqDay, threads |-> cqProc[p].active]
  OBVIOUS
<1>2. cqProc[p] \in CqRecord /\ cqDay \in Days
  BY CqTypes
<1>3. l \in [day : Days, threads : SUBSET CqThreads]
  BY <1>1, <1>2 DEF CqRecord
<1> QED
  BY <1>1, <1>3 DEF Retains, CqTypeOK

LEMMA RoundsKeep ==
  ASSUME QuestionsInv,
         \/ "monitor" \in InUse /\ MonitorEnds
         \/ "scan" \in InUse /\ (ScanEnds \/ \E fresh \in SUBSET CqThreads : ScanBegins(fresh))
         \/ "scan" \in InUse /\ \E t \in CqThreads : ScanLooks(t)
  PROVE  QuestionsInv'
<1>0. CqTypeOK
  BY DEF QuestionsInv
<1>1. CASE "monitor" \in InUse /\ MonitorEnds
  <2>1. PICK r : r = [CqIdle EXCEPT !.pc = "maintain"]
    OBVIOUS
  <2>2. r \in CqRecord /\ r.on = FALSE /\ Unclaimed(r) /\ r.pc = "maintain"
    BY <2>1, CqIdleIs DEF CqRecord, Unclaimed
  <2>3. /\ CqGoes("monitor", r) /\ Retains("monitor")
        /\ UNCHANGED <<cqDay, cqOn, cqSwitches, cqAsked, cqAt, cqBaseline, cqOld, cqUnnoticed, cqQuiet>>
        /\ UNCHANGED <<cqMarker, cqPassive, cqDedupe, cqRow, cqFaults, cqTold, cqKept>>
    BY <1>1, <2>1 DEF MonitorEnds, cqNative, cqSetting, cqTelling
  <2>4. CqTypeOK'
    BY <1>0, <1>1, <2>2, <2>3, CqStepTyped, RetainsTyped DEF CqTypeOK
  <2> QED
    BY <1>1, <2>2, <2>3, <2>4, UnclaimedStep
<1>2. CASE "scan" \in InUse /\ ScanEnds
  <2>1. /\ CqGoes("scan", CqIdle) /\ Retains("scan")
        /\ UNCHANGED <<cqDay, cqOn, cqSwitches, cqAsked, cqAt, cqBaseline, cqOld, cqUnnoticed, cqQuiet>>
        /\ UNCHANGED <<cqMarker, cqPassive, cqDedupe, cqRow, cqFaults, cqTold, cqKept>>
    BY <1>2 DEF ScanEnds, cqNative, cqSetting, cqTelling
  <2>2. CqTypeOK'
    BY <1>0, <1>2, <2>1, CqIdleIs, CqStepTyped, RetainsTyped DEF CqTypeOK
  <2> QED
    BY <1>2, <2>1, <2>2, CqIdleIs, UnclaimedStep DEF Unclaimed
<1>3. ASSUME "scan" \in InUse, NEW fresh \in SUBSET CqThreads, ScanBegins(fresh)
      PROVE  QuestionsInv'
  <2>1. PICK r : r = [CqIdle EXCEPT !.pc = "next", !.on = TRUE, !.todo = fresh]
    OBVIOUS
  <2>2. r \in CqRecord /\ r.pc = "next" /\ r.on = TRUE /\ Unclaimed(r)
    BY <2>1, CqIdleIs DEF CqRecord, Unclaimed
  <2>3. /\ CqGoes("scan", r) /\ cqOn = TRUE
        /\ UNCHANGED <<cqDay, cqOn, cqSwitches, cqAsked, cqAt, cqBaseline, cqOld, cqUnnoticed, cqQuiet>>
        /\ UNCHANGED <<cqMarker, cqPassive, cqListed, cqDedupe, cqRow, cqFaults, cqTold, cqKept>>
    BY <1>0, <1>3, <2>1 DEF ScanBegins, cqNative, cqSetting, cqTelling, CqTypeOK
  <2>4. CqTypeOK'
    BY <1>0, <1>3, <2>2, <2>3, CqStepTyped DEF CqTypeOK
  <2> QED
    BY <1>3, <2>2, <2>3, <2>4, UnclaimedStep
<1>4. ASSUME "scan" \in InUse, NEW t \in CqThreads, ScanLooks(t)
      PROVE  QuestionsInv'
  <2>0. /\ cqProc["scan"].pc = "next" /\ Busy("scan") /\ cqProc["scan"] \in CqRecord
        /\ UNCHANGED <<cqDay, cqOn, cqSwitches, cqAsked, cqAt, cqBaseline, cqOld, cqUnnoticed, cqQuiet>>
        /\ UNCHANGED <<cqMarker, cqPassive, cqListed, cqDedupe, cqRow, cqFaults, cqTold, cqKept>>
    BY <1>0, <1>4, CqTypes DEF ScanLooks, Busy, cqNative, cqSetting, cqTelling
  <2>1. cqProc["scan"].mine = FALSE /\ cqProc["scan"].send = FALSE
    BY <1>4, <2>0 DEF QuestionsInv, OnItsWay, CqRecord
  <2>2. PICK s : s = [cqProc["scan"] EXCEPT !.todo = @ \ {t}, !.active = @ \cup {t}]
    OBVIOUS
  <2>3. s \in CqRecord /\ s.on = cqProc["scan"].on /\ s.mine = FALSE /\ s.send = FALSE
    BY <2>0, <2>1, <2>2 DEF CqRecord
  <2>4. PICK r : r = [s EXCEPT !.pc = "prepare", !.thread = t]
    OBVIOUS
  <2>5. /\ r \in CqRecord /\ r.pc = "prepare" /\ r.thread = t /\ r.on = cqProc["scan"].on
        /\ r.mine = FALSE /\ r.send = FALSE
    BY <2>3, <2>4 DEF CqRecord
  <2>6. CqGoes("scan", r)
    BY <1>4, <2>2, <2>4 DEF ScanLooks, Enters
  <2>7. CqTypeOK'
    BY <1>0, <1>4, <2>0, <2>5, <2>6, CqStepTyped DEF CqTypeOK
  <2> QED
    BY <1>4, <2>0, <2>5, <2>6, <2>7, UnclaimedStep DEF Unclaimed
<1> QED
  BY <1>1, <1>2, <1>3, <1>4

LEMMA HookKeeps ==
  ASSUME QuestionsInv, "hook" \in InUse, HookConfirms
  PROVE  QuestionsInv'
<1>0. /\ CqTypeOK
      /\ cqProc["hook"].pc = "confirm" /\ Busy("hook") /\ cqProc["hook"] \in CqRecord
      /\ UNCHANGED <<cqDay, cqOn, cqSwitches, cqAsked, cqAt, cqBaseline, cqOld, cqUnnoticed, cqQuiet>>
      /\ UNCHANGED <<cqMarker, cqPassive, cqListed, cqDedupe, cqRow, cqFaults, cqTold, cqKept>>
  BY CqTypes DEF QuestionsInv, HookConfirms, Busy, cqNative, cqSetting, cqTelling
<1>1. cqProc["hook"].mine = FALSE /\ cqProc["hook"].send = FALSE
  BY <1>0 DEF QuestionsInv, OnItsWay, CqRecord
<1>2. PICK t : t = cqProc["hook"].thread
  OBVIOUS
<1>3. PICK r : r = [cqProc["hook"] EXCEPT !.pc = "prepare", !.thread = t]
  OBVIOUS
<1>4. /\ r \in CqRecord /\ r.pc = "prepare" /\ r.on = cqProc["hook"].on
      /\ r.mine = FALSE /\ r.send = FALSE
  BY <1>0, <1>1, <1>2, <1>3 DEF CqRecord
<1>5. CqGoes("hook", r) \/ CqGoes("hook", CqIdle)
  BY <1>2, <1>3 DEF HookConfirms, Enters
<1>6. CqTypeOK'
  BY <1>0, <1>4, <1>5, CqIdleIs, CqStepTyped DEF CqTypeOK
<1>7. CASE CqGoes("hook", r)
  BY <1>0, <1>4, <1>6, <1>7, UnclaimedStep DEF Unclaimed
<1>8. CASE CqGoes("hook", CqIdle)
  BY <1>0, <1>6, <1>8, CqIdleIs, UnclaimedStep DEF Unclaimed
<1> QED
  BY <1>5, <1>7, <1>8

LEMMA StopKeeps ==
  ASSUME QuestionsInv, NEW p \in InUse, EntranceStops(p)
  PROVE  QuestionsInv'
<1>1. /\ CqGoes(p, CqIdle) /\ cqFaults < CqMaxFaults /\ cqFaults' = cqFaults + 1 /\ CqTypeOK
      /\ UNCHANGED <<cqDay, cqOn, cqSwitches, cqAsked, cqAt, cqBaseline, cqOld, cqUnnoticed, cqQuiet>>
      /\ UNCHANGED <<cqMarker, cqPassive, cqListed, cqDedupe, cqRow, cqTold, cqKept>>
  BY DEF EntranceStops, CqFault, cqNative, cqSetting, cqTelling, QuestionsInv
<1>2. cqFaults' \in 0..CqMaxFaults
  <2>1. cqFaults \in 0..CqMaxFaults /\ CqMaxFaults \in Nat
    BY <1>1, CqAssumption DEF CqTypeOK
  <2> QED  BY <1>1, <2>1
<1>3. CqTypeOK'
  BY <1>1, <1>2, CqIdleIs, CqStepTyped DEF CqTypeOK
<1> QED
  BY <1>1, <1>3, CqIdleIs, UnclaimedStep DEF Unclaimed

(***************************************************************************)
(* Maintenance and the statements on the database.                         *)
(***************************************************************************)
LEMMA SweptIs ==
  ASSUME NEW markers \in [CqThreads -> Days], NEW kept
  PROVE  /\ Swept(markers, kept) \in [CqThreads -> Days]
         /\ \A t \in CqThreads :
              \/ Swept(markers, kept)[t] = markers[t]
              \/ Swept(markers, kept)[t] = 0 /\ cqDay - markers[t] > CqRetention
<1>1. 0 \in Days
  BY CqRetentionIs DEF Days
<1> QED
  BY <1>1 DEF Swept, Outdated

LEMMA MaintainKeeps ==
  ASSUME QuestionsInv, "monitor" \in InUse, NEW due \in BOOLEAN, MonitorMaintains(due)
  PROVE  QuestionsInv'
<1>1. /\ CqGoes("monitor", CqIdle) /\ CqTypeOK
      /\ UNCHANGED <<cqDay, cqOn, cqSwitches, cqAsked, cqAt, cqBaseline, cqOld, cqUnnoticed, cqQuiet>>
      /\ UNCHANGED <<cqListed, cqDedupe, cqFaults, cqTold, cqKept>>
  BY DEF MonitorMaintains, cqNative, cqSetting, cqTelling, QuestionsInv
<1>2. /\ cqMarker' \in [CqThreads -> Days] /\ cqPassive' \in [CqThreads -> Days]
      /\ cqRow' \in [CqThreads -> Days]
      /\ \A t \in CqThreads :
           cqMarker'[t] = cqMarker[t] \/ (cqMarker'[t] = 0 /\ cqDay - cqMarker[t] > CqRetention)
  <2>1. /\ cqMarker \in [CqThreads -> Days] /\ cqPassive \in [CqThreads -> Days]
        /\ cqRow \in [CqThreads -> Days]
    BY <1>1 DEF CqTypeOK
  <2>2. CASE due
    <3>1. /\ cqMarker' = Swept(cqMarker, Listed("monitor"))
          /\ cqPassive' = Swept(cqPassive, Listed("scan")) /\ cqRow' = Swept(cqRow, {})
      BY <2>2 DEF MonitorMaintains
    <3> QED  BY <2>1, <3>1, SweptIs
  <2>3. CASE ~due
    BY <2>1, <2>3 DEF MonitorMaintains
  <2> QED  BY <2>2, <2>3
<1>3. CqTypeOK'
  BY <1>1, <1>2, CqIdleIs, CqStepTyped DEF CqTypeOK
<1>4. /\ InUse' = InUse /\ cqProc'["monitor"] = CqIdle
      /\ \A q \in InUse \ {"monitor"} : cqProc'[q] = cqProc[q]
  BY <1>1, CqIdleIs, CqGone
<1>5. Judged' /\ Unnoticed'
  <2>1. Judged'
    BY <1>1 DEF QuestionsInv, Judged
  <2>2. Unnoticed'
    BY <1>1, CqIdleIs, UnnoticedStays
  <2> QED  BY <2>1, <2>2
<1>6. Remembered'
  <2> SUFFICES ASSUME NEW t \in CqThreads
               PROVE  /\ cqDay > 0 /\ cqAt[t] <= cqDay /\ cqKept[t] <= cqDay
                      /\ cqTold[t] > 0 =>
                           /\ cqAsked[t] # "unasked" /\ cqAt[t] <= cqKept[t] /\ cqKept[t] > 0
                           /\ cqMarker'[t] >= cqKept[t] \/ cqDay - cqKept[t] > CqRetention
    BY <1>1 DEF Remembered
  <2>1. /\ cqDay > 0 /\ cqAt[t] <= cqDay /\ cqKept[t] <= cqDay
        /\ cqTold[t] > 0 =>
             /\ cqAsked[t] # "unasked" /\ cqAt[t] <= cqKept[t] /\ cqKept[t] > 0
             /\ cqMarker[t] >= cqKept[t] \/ cqDay - cqKept[t] > CqRetention
    BY DEF QuestionsInv, Remembered
  <2>2. cqDay \in Nat /\ cqKept[t] \in Nat /\ cqMarker[t] \in Nat /\ CqRetention \in Nat
    BY <1>1, CqTypes, CqRetentionIs
  <2>3. cqMarker'[t] = cqMarker[t] \/ cqDay - cqMarker[t] > CqRetention
    BY <1>2
  <2>4. cqMarker[t] >= cqKept[t] /\ cqDay - cqMarker[t] > CqRetention
          => cqDay - cqKept[t] > CqRetention
    BY <2>2
  <2> QED
    BY <2>1, <2>3, <2>4
<1>7. ASSUME NEW q \in InUse PROVE OnItsWay(q)'
  <2>1. CASE q = "monitor"
    BY <1>4, <2>1, CqIdleIs DEF OnItsWay
  <2>2. CASE q # "monitor"
    <3>1. cqProc'[q] = cqProc[q] /\ OnItsWay(q) /\ cqProc[q].thread \in CqThreads
      BY <1>1, <1>4, <2>2, CqTypes DEF QuestionsInv, CqRecord
    <3>2. cqProc[q].mine = TRUE => cqMarker'[cqProc[q].thread] = cqDay
      <4>1. cqDay \in Nat /\ ~(cqDay - cqDay > CqRetention)
        <5>1. cqDay \in Nat
          BY <1>1, CqTypes
        <5> QED  BY <5>1, CqRetentionIs
      <4> QED  BY <1>2, <3>1, <4>1 DEF OnItsWay
    <3> QED  BY <1>1, <3>1, <3>2 DEF OnItsWay
  <2> QED  BY <2>1, <2>2
<1>8. OneClaims'
  BY <1>4, CqIdleIs DEF QuestionsInv, OneClaims
<1> QED
  BY <1>3, <1>4, <1>5, <1>6, <1>7, <1>8 DEF QuestionsInv

LEMMA ClaimMarkerKeeps ==
  ASSUME QuestionsInv, NEW p \in InUse, ClaimMarker(p)
  PROVE  QuestionsInv'
<1>0. /\ CqTypeOK /\ cqProc[p].pc = "mark" /\ Busy(p) /\ cqProc[p] \in CqRecord
      /\ UNCHANGED <<cqDay, cqOn, cqSwitches, cqAsked, cqAt, cqBaseline, cqOld, cqUnnoticed, cqQuiet>>
      /\ UNCHANGED <<cqPassive, cqListed, cqDedupe, cqRow, cqFaults, cqTold>>
  BY CqTypes DEF QuestionsInv, ClaimMarker, Busy, cqNative, cqSetting
<1>1. PICK t \in CqThreads : t = cqProc[p].thread
  BY <1>0 DEF CqRecord
<1>2. PICK first \in BOOLEAN : first = (cqMarker[t] = 0)
  OBVIOUS
<1>3. PICK r : r = [cqProc[p] EXCEPT !.pc = "dedupe", !.mine = first]
  OBVIOUS
<1>4. cqProc[p].send = FALSE
  BY <1>0 DEF QuestionsInv, OnItsWay, CqRecord
<1>5. /\ r \in CqRecord /\ r.pc = "dedupe" /\ r.thread = t /\ r.on = cqProc[p].on
      /\ r.mine = first /\ r.send = FALSE
  BY <1>0, <1>1, <1>3, <1>4 DEF CqRecord
<1>6. CqGoes(p, r) /\ cqMarker' = [cqMarker EXCEPT ![t] = cqDay]
  BY <1>1, <1>2, <1>3 DEF ClaimMarker
<1>7. /\ UNCHANGED cqKept \/ KeepsAlive(t)
      /\ cqMarker[t] = 0 => UNCHANGED cqKept
  BY <1>1 DEF ClaimMarker
<1>8. /\ r.on = TRUE /\ t \notin cqQuiet /\ cqAsked[t] # "unasked"
      /\ p = "monitor" => cqDay - cqAt[t] <= CqMaxAge
  BY <1>0, <1>1, <1>5 DEF QuestionsInv, OnItsWay
<1>9. r.mine = TRUE => cqMarker[t] = 0
  BY <1>2, <1>5
<1> QED
  BY <1>0, <1>5, <1>6, <1>7, <1>8, <1>9, MarkStep

LEMMA ClaimDedupeKeeps ==
  ASSUME QuestionsInv, NEW p \in InUse, ClaimDedupe(p)
  PROVE  QuestionsInv'
<1>0. /\ CqTypeOK /\ cqProc[p].pc = "dedupe" /\ cqProc[p] \in CqRecord
      /\ UNCHANGED <<cqDay, cqOn, cqSwitches, cqAsked, cqAt, cqBaseline, cqOld, cqUnnoticed, cqQuiet>>
      /\ UNCHANGED <<cqMarker, cqListed, cqRow, cqFaults, cqTold, cqKept>>
  BY CqTypes DEF QuestionsInv, ClaimDedupe, cqNative, cqSetting, cqTelling
<1>1. PICK t \in CqThreads : t = cqProc[p].thread
  BY <1>0 DEF CqRecord
<1>2. PICK s \in BOOLEAN :
        s = (t \notin cqDedupe /\ cqProc[p].mine /\ ~(IsPassive(p) /\ cqPassive[t] # 0))
  OBVIOUS
<1>3. PICK r : r = [cqProc[p] EXCEPT !.pc = "stage", !.send = s]
  OBVIOUS
<1>4. /\ r \in CqRecord /\ r.pc = "stage" /\ r.thread = t /\ r.on = cqProc[p].on
      /\ r.mine = cqProc[p].mine /\ r.send = s
  BY <1>0, <1>1, <1>3 DEF CqRecord
<1>5. s = TRUE => r.mine = TRUE
  <2>1. cqProc[p].mine \in BOOLEAN
    BY <1>0 DEF CqRecord
  <2> QED  BY <1>2, <1>4, <2>1
<1>6. CqGoes(p, r)
  BY <1>1, <1>2, <1>3 DEF ClaimDedupe
<1>7. CqTypeOK'
  <2>1. cqDedupe' = cqDedupe \cup {t} /\ cqPassive' \in {cqPassive, [cqPassive EXCEPT ![t] = cqDay]}
    BY <1>1 DEF ClaimDedupe
  <2>2. cqDedupe' \subseteq CqThreads /\ cqPassive' \in [CqThreads -> Days]
    <3>1. cqDay \in Days
      BY <1>0, CqTypes
    <3>2. cqDedupe \subseteq CqThreads /\ cqPassive \in [CqThreads -> Days]
      BY <1>0 DEF CqTypeOK
    <3>3. [cqPassive EXCEPT ![t] = cqDay] \in [CqThreads -> Days]
      BY <3>1, <3>2
    <3> QED  BY <2>1, <3>2, <3>3
  <2> QED
    BY <1>0, <1>4, <1>6, <2>2, CqStepTyped DEF CqTypeOK
<1>8. /\ InUse' = InUse /\ cqProc'[p] = r
      /\ \A q \in InUse \ {p} : cqProc'[q] = cqProc[q]
  BY <1>0, <1>4, <1>6, CqGone
<1>9. Judged' /\ Unnoticed'
  <2>1. Judged'
    BY <1>0 DEF QuestionsInv, Judged
  <2>2. Busy(p)
    BY <1>0 DEF Busy
  <2>3. Unnoticed'
    BY <1>0, <1>4, <1>6, <2>2, UnnoticedStays
  <2> QED  BY <2>1, <2>3
<1>10. Remembered'
  BY <1>0 DEF QuestionsInv, Remembered
<1>11. ASSUME NEW q \in InUse PROVE OnItsWay(q)'
  <2>1. CASE q = p
    <3>1. OnItsWay(p)
      BY DEF QuestionsInv
    <3> QED  BY <1>0, <1>1, <1>4, <1>5, <1>8, <2>1, <3>1 DEF OnItsWay
  <2>2. CASE q # p
    <3>1. cqProc'[q] = cqProc[q] /\ OnItsWay(q)
      BY <1>8, <2>2 DEF QuestionsInv
    <3> QED  BY <1>0, <3>1 DEF OnItsWay
  <2> QED  BY <2>1, <2>2
<1>12. OneClaims'
  BY <1>1, <1>4, <1>8 DEF QuestionsInv, OneClaims
<1> QED
  BY <1>7, <1>8, <1>9, <1>10, <1>11, <1>12 DEF QuestionsInv

LEMMA StageKeeps ==
  ASSUME QuestionsInv, NEW p \in InUse, StageQuestion(p)
  PROVE  QuestionsInv'
<1>0. /\ CqTypeOK /\ cqProc[p].pc = "stage" /\ cqProc[p] \in CqRecord
      /\ UNCHANGED <<cqDay, cqOn, cqSwitches, cqAsked, cqAt, cqBaseline, cqOld, cqUnnoticed, cqQuiet>>
      /\ UNCHANGED <<cqMarker, cqPassive, cqListed, cqDedupe, cqFaults>>
  BY CqTypes DEF QuestionsInv, StageQuestion, cqNative, cqSetting
<1>1. PICK t \in CqThreads : t = cqProc[p].thread
  BY <1>0 DEF CqRecord
<1>2. PICK r : r = [cqProc[p] EXCEPT !.pc = "finish"]
  OBVIOUS
<1>3. /\ r \in CqRecord /\ r.pc = "finish" /\ r.thread = t /\ r.on = cqProc[p].on
      /\ r.mine = cqProc[p].mine /\ r.send = cqProc[p].send
  BY <1>0, <1>1, <1>2 DEF CqRecord
<1>4. CqGoes(p, r)
  BY <1>2 DEF StageQuestion
<1>5. /\ InUse' = InUse /\ cqProc'[p] = r
      /\ \A q \in InUse \ {p} : cqProc'[q] = cqProc[q]
  BY <1>0, <1>3, <1>4, CqGone
<1>6. OnItsWay(p) /\ cqProc[p].on = TRUE /\ t \notin cqQuiet /\ cqAsked[t] # "unasked"
  BY <1>0, <1>1 DEF QuestionsInv, OnItsWay
<1>7. \/ UNCHANGED <<cqRow, cqTold, cqKept>>
      \/ /\ cqProc[p].mine = TRUE
         /\ cqRow' = [cqRow EXCEPT ![t] = cqDay]
         /\ cqTold' = [cqTold EXCEPT ![t] = @ + 1]
         /\ cqKept' = [cqKept EXCEPT ![t] = cqDay]
  <2>1. cqProc[p].send \in BOOLEAN
    BY <1>0 DEF CqRecord
  <2>2. cqProc[p].send = TRUE => cqProc[p].mine = TRUE
    BY <1>6 DEF OnItsWay
  <2> QED  BY <1>1, <2>1, <2>2 DEF StageQuestion
<1>8. /\ cqRow' \in [CqThreads -> Days] /\ cqTold' \in [CqThreads -> Nat]
      /\ cqKept' \in [CqThreads -> Days]
      /\ \A u \in CqThreads \ {t} : cqTold'[u] = cqTold[u] /\ cqKept'[u] = cqKept[u]
      /\ \/ cqTold'[t] = cqTold[t] /\ cqKept'[t] = cqKept[t]
         \/ cqProc[p].mine = TRUE /\ cqKept'[t] = cqDay
  <2>1. /\ cqDay \in Days /\ cqRow \in [CqThreads -> Days] /\ cqTold \in [CqThreads -> Nat]
        /\ cqKept \in [CqThreads -> Days]
    BY <1>0, CqTypes DEF CqTypeOK
  <2>2. CASE UNCHANGED <<cqRow, cqTold, cqKept>>
    BY <2>1, <2>2
  <2>3. CASE /\ cqProc[p].mine = TRUE
             /\ cqRow' = [cqRow EXCEPT ![t] = cqDay]
             /\ cqTold' = [cqTold EXCEPT ![t] = @ + 1]
             /\ cqKept' = [cqKept EXCEPT ![t] = cqDay]
    <3>1. PICK n \in Nat : n = cqTold[t] + 1
      <4>1. cqTold[t] \in Nat
        BY <2>1
      <4> QED  BY <4>1
    <3>2. cqTold' = [cqTold EXCEPT ![t] = n]
      BY <2>3, <3>1
    <3>3. cqRow' \in [CqThreads -> Days]
      BY <2>1, <2>3
    <3>4. cqTold' \in [CqThreads -> Nat] /\ \A u \in CqThreads \ {t} : cqTold'[u] = cqTold[u]
      BY <2>1, <3>2
    <3>5. /\ cqKept' \in [CqThreads -> Days] /\ cqKept'[t] = cqDay
          /\ \A u \in CqThreads \ {t} : cqKept'[u] = cqKept[u]
      BY <2>1, <2>3
    <3> QED  BY <2>3, <3>3, <3>4, <3>5
  <2> QED  BY <1>7, <2>2, <2>3
<1>9. CqTypeOK'
  BY <1>0, <1>3, <1>4, <1>8, CqStepTyped DEF CqTypeOK
<1>10. Judged' /\ Unnoticed'
  <2>1. \A u \in cqQuiet : u \in CqThreads \ {t} /\ cqTold'[u] = cqTold[u]
    BY <1>0, <1>6, <1>8 DEF CqTypeOK
  <2>2. Judged'
    BY <1>0, <2>1 DEF QuestionsInv, Judged
  <2>3. Busy(p) /\ cqUnnoticed = {}
    BY <1>0, <1>6 DEF QuestionsInv, Unnoticed, Busy
  <2>4. Unnoticed'
    BY <1>0, <1>3, <1>4, <2>3, UnnoticedStays
  <2> QED  BY <2>2, <2>4
<1>11. Remembered'
  <2> SUFFICES ASSUME NEW u \in CqThreads
               PROVE  /\ cqDay > 0 /\ cqAt[u] <= cqDay /\ cqKept'[u] <= cqDay
                      /\ cqTold'[u] > 0 =>
                           /\ cqAsked[u] # "unasked" /\ cqAt[u] <= cqKept'[u] /\ cqKept'[u] > 0
                           /\ cqMarker[u] >= cqKept'[u] \/ cqDay - cqKept'[u] > CqRetention
    BY <1>0 DEF Remembered
  <2>1. /\ cqDay > 0 /\ cqAt[u] <= cqDay /\ cqKept[u] <= cqDay
        /\ cqTold[u] > 0 =>
             /\ cqAsked[u] # "unasked" /\ cqAt[u] <= cqKept[u] /\ cqKept[u] > 0
             /\ cqMarker[u] >= cqKept[u] \/ cqDay - cqKept[u] > CqRetention
    BY DEF QuestionsInv, Remembered
  <2>2. CASE cqTold'[u] = cqTold[u] /\ cqKept'[u] = cqKept[u]
    BY <2>1, <2>2
  <2>3. CASE u = t /\ cqProc[p].mine = TRUE /\ cqKept'[t] = cqDay
    <3>1. cqMarker[t] = cqDay
      BY <1>1, <1>6, <2>3 DEF OnItsWay
    <3>2. cqDay \in Nat
      BY <1>0, CqTypes
    <3> QED  BY <1>6, <2>1, <2>3, <3>1, <3>2
  <2> QED  BY <1>8, <2>2, <2>3
<1>12. ASSUME NEW q \in InUse PROVE OnItsWay(q)'
  <2>1. CASE q = p
    <3>1. r.mine = TRUE => cqMarker[r.thread] = cqDay
      BY <1>1, <1>3, <1>6 DEF OnItsWay
    <3>2. r.send = TRUE => r.mine = TRUE
      BY <1>3, <1>6 DEF OnItsWay
    <3> QED  BY <1>0, <1>3, <1>5, <2>1, <3>1, <3>2 DEF OnItsWay
  <2>2. CASE q # p
    <3>1. cqProc'[q] = cqProc[q] /\ OnItsWay(q) /\ cqProc[q].thread \in CqThreads
      BY <1>0, <1>5, <2>2, CqTypes DEF QuestionsInv, CqRecord
    <3>2. CASE cqProc[q].thread = t /\ cqProc[q].mine = TRUE
      <4>1. cqProc[p].mine # TRUE
        BY <1>1, <2>2, <3>2 DEF QuestionsInv, OneClaims
      <4>2. cqTold'[t] = cqTold[t] /\ cqKept'[t] = cqKept[t]
        BY <1>8, <4>1
      <4> QED  BY <1>0, <3>1, <3>2, <4>2 DEF OnItsWay
    <3>3. CASE cqProc[q].thread # t
      <4>1. /\ cqTold'[cqProc[q].thread] = cqTold[cqProc[q].thread]
            /\ cqKept'[cqProc[q].thread] = cqKept[cqProc[q].thread]
        BY <1>8, <3>1, <3>3
      <4> QED  BY <1>0, <3>1, <4>1 DEF OnItsWay
    <3>4. CASE cqProc[q].mine # TRUE
      BY <1>0, <3>1, <3>4 DEF OnItsWay
    <3> QED  BY <3>2, <3>3, <3>4
  <2> QED  BY <2>1, <2>2
<1>13. OneClaims'
  BY <1>1, <1>3, <1>5 DEF QuestionsInv, OneClaims
<1> QED
  BY <1>5, <1>9, <1>10, <1>11, <1>12, <1>13 DEF QuestionsInv

LEMMA FinishKeeps ==
  ASSUME QuestionsInv, NEW p \in InUse, FinishQuestion(p)
  PROVE  QuestionsInv'
<1>0. /\ CqTypeOK /\ cqProc[p].pc = "finish" /\ Busy(p) /\ cqProc[p] \in CqRecord
      /\ UNCHANGED <<cqDay, cqOn, cqSwitches, cqAsked, cqAt, cqBaseline, cqOld, cqUnnoticed, cqQuiet>>
      /\ UNCHANGED <<cqListed, cqDedupe, cqRow, cqFaults, cqTold, cqKept>>
  BY CqTypes DEF QuestionsInv, FinishQuestion, Busy, cqNative, cqSetting, cqTelling
<1>1. PICK t \in CqThreads : t = cqProc[p].thread
  BY <1>0 DEF CqRecord
<1>2. PICK a : a = AfterPipeline(p)
  OBVIOUS
<1>3. /\ a \in CqRecord /\ Unclaimed(a) /\ a.pc \in {"idle", "next"}
      /\ a.pc = "idle" \/ a.on = cqProc[p].on
  BY <1>0, <1>2, QuestionsAfterIs
<1>4. CqGoes(p, a)
  BY <1>2 DEF FinishQuestion
<1>5. cqMarker' = cqMarker
  <2>1. CASE cqProc[p].mine = TRUE
    <3>1. cqMarker' = [cqMarker EXCEPT ![t] = cqDay] /\ cqMarker[t] = cqDay
      BY <1>1, <2>1 DEF FinishQuestion, QuestionsInv, OnItsWay
    <3>2. cqMarker \in [CqThreads -> Days]
      BY <1>0 DEF CqTypeOK
    <3> QED  BY <3>1, <3>2
  <2>2. CASE cqProc[p].mine = FALSE
    BY <2>2 DEF FinishQuestion
  <2> QED  BY <1>0, <2>1, <2>2 DEF CqRecord
<1>6. cqPassive' \in [CqThreads -> Days]
  <2>1. cqPassive' \in {cqPassive, [cqPassive EXCEPT ![t] = cqDay]}
    BY <1>1 DEF FinishQuestion
  <2>2. cqDay \in Days /\ cqPassive \in [CqThreads -> Days]
    BY <1>0, CqTypes DEF CqTypeOK
  <2>3. [cqPassive EXCEPT ![t] = cqDay] \in [CqThreads -> Days]
    BY <2>2
  <2> QED  BY <2>1, <2>2, <2>3
<1>7. CqTypeOK'
  BY <1>0, <1>3, <1>4, <1>5, <1>6, CqStepTyped DEF CqTypeOK
<1> QED
  BY <1>0, <1>3, <1>4, <1>5, <1>7, UnclaimedStep

LEMMA QuestionsBegin ==
  ASSUME CqInit
  PROVE  QuestionsInv
<1>1. PICK used \in CqUses : cqProc = [p \in used |-> CqIdle]
  BY DEF CqInit
<1>2. InUse = used /\ \A p \in InUse : cqProc[p] = CqIdle
  BY <1>1 DEF InUse
<1>3. 0 \in Days /\ 1 \in Days
  BY CqAssumption DEF Days
<1>4. /\ cqDay = 1 /\ cqOn \in BOOLEAN /\ cqSwitches = 0 /\ cqFaults = 0
      /\ cqBaseline = "unset" /\ cqOld = {} /\ cqDedupe = {}
      /\ cqUnnoticed = {} /\ cqQuiet = {}
      /\ \A t \in CqThreads : /\ cqAsked[t] = "unasked" /\ cqAt[t] = 0 /\ cqTold[t] = 0
                              /\ cqMarker[t] = 0 /\ cqKept[t] = 0
  BY DEF CqInit, Never
<1>5. CqTypeOK
  <2>1. Never \in [CqThreads -> Days] /\ Never \in [CqThreads -> Nat]
    BY <1>3 DEF Never
  <2>2. PICK l : l = [day |-> 0, threads |-> {}]
    OBVIOUS
  <2>3. l \in [day : Days, threads : SUBSET CqThreads]
    BY <1>3, <2>2
  <2>4. cqListed = [n \in {"monitor", "scan"} |-> l]
    BY <2>2 DEF CqInit
  <2>5. cqListed \in [{"monitor", "scan"} -> [day : Days, threads : SUBSET CqThreads]]
    BY <2>3, <2>4
  <2>6. cqSwitches \in 0..CqMaxSwitches /\ cqFaults \in 0..CqMaxFaults
    BY <1>4, CqAssumption
  <2>7. InUse \in CqUses /\ cqProc \in [InUse -> CqRecord]
    BY <1>1, <1>2, CqIdleIs
  <2>8. cqAsked \in [CqThreads -> {"unasked", "open", "turn over", "resolved"}]
    BY DEF CqInit
  <2> QED
    BY <1>3, <1>4, <2>1, <2>5, <2>6, <2>7, <2>8 DEF CqInit, CqTypeOK, CqRecord
<1>6. Judged /\ Unnoticed
  BY <1>4 DEF Judged, Unnoticed
<1>7. Remembered
  BY <1>4 DEF Remembered
<1>8. \A p \in InUse : OnItsWay(p)
  BY <1>2, CqIdleIs DEF OnItsWay
<1>9. OneClaims
  BY <1>2, CqIdleIs DEF OneClaims
<1> QED
  BY <1>5, <1>6, <1>7, <1>8, <1>9 DEF QuestionsInv

LEMMA QuestionsKeep ==
  ASSUME QuestionsInv, [CqNext]_cqVars
  PROVE  QuestionsInv'
<1>1. CASE UNCHANGED cqVars
  <2>1. /\ UNCHANGED <<cqProc, cqDay, cqOn, cqSwitches, cqAsked, cqAt, cqBaseline, cqOld>>
        /\ UNCHANGED <<cqMarker, cqPassive, cqListed, cqDedupe, cqRow, cqFaults, cqTold>>
        /\ UNCHANGED <<cqKept, cqUnnoticed, cqQuiet>>
    BY <1>1 DEF cqVars
  <2>2. CqTypeOK'
    BY <2>1 DEF QuestionsInv, CqTypeOK, InUse, Days
  <2> QED
    BY <2>1, <2>2, OutsideStep
<1>2. ASSUME NEW t \in CqThreads, NEW hooked \in BOOLEAN,
             AskQuestion(t, hooked) \/ TurnStops(t, hooked)
      PROVE  QuestionsInv'
  BY <1>2, AskKeeps, TurnStopsKeeps
<1>3. CASE SwitchQuestions \/ \E t \in CqThreads : QuestionResolved(t) \/ DedupeExpires(t)
  BY <1>3, OutsideKeeps
<1>4. CASE DayPasses
  BY <1>4, DayKeeps
<1>5. CASE "monitor" \in InUse /\ \E seen \in SUBSET CqThreads : MonitorBegins(seen)
  BY <1>5, MonitorBeginsKeeps
<1>6. CASE "monitor" \in InUse /\ \E t \in CqThreads : MonitorLooks(t)
  BY <1>6, MonitorLooksKeeps
<1>7. CASE \/ "monitor" \in InUse /\ MonitorEnds
           \/ "scan" \in InUse /\ (ScanEnds \/ \E fresh \in SUBSET CqThreads : ScanBegins(fresh))
           \/ "scan" \in InUse /\ \E t \in CqThreads : ScanLooks(t)
  BY <1>7, RoundsKeep
<1>8. CASE "monitor" \in InUse /\ \E due \in BOOLEAN : MonitorMaintains(due)
  BY <1>8, MaintainKeeps
<1>9. CASE "hook" \in InUse /\ HookConfirms
  BY <1>9, HookKeeps
<1>10. ASSUME NEW p \in InUse, CqPipeline(p) \/ EntranceStops(p)
       PROVE  QuestionsInv'
  BY <1>10, PrepareKeeps, ClaimMarkerKeeps, ClaimDedupeKeeps, StageKeeps, FinishKeeps, StopKeeps
     DEF CqPipeline
<1>11. CASE CqNext
  BY <1>2, <1>3, <1>4, <1>5, <1>6, <1>7, <1>8, <1>9, <1>10, <1>11 DEF CqNext
<1> QED
  BY <1>1, <1>11

LEMMA QuestionsAlways == CqSpec => []QuestionsInv
<1>1. CqInit => QuestionsInv
  BY QuestionsBegin
<1>2. QuestionsInv /\ [CqNext]_cqVars => QuestionsInv'
  BY QuestionsKeep
<1> QED
  BY <1>1, <1>2, PTL DEF CqSpec

\* For any threads, entrances, days, switches and faults, the state stays of
\* its types, the marks on the database and the local variables of the rounds
\* of codex/async_questions.rs included.
THEOREM QuestionsHaveType == CqSpec => []CqTypeOK
<1>1. QuestionsInv => CqTypeOK
  BY DEF QuestionsInv
<1> QED
  BY <1>1, QuestionsAlways, PTL

\* A question asked while the notifications were off is never put in the
\* queue, if a round or a hook saw them off before the user switched them on
\* again, and none that began before they were off was at work when it was
\* asked: whoever takes the setting notification_baseline from off to on makes
\* it old first.  The settings change at any time, and are read at any time.
THEOREM QuestionsAskedWhileOffStayQuiet == CqSpec => []AskedWhileOffStaysQuiet
<1>1. QuestionsInv => AskedWhileOffStaysQuiet
  BY DEF QuestionsInv, Judged, AskedWhileOffStaysQuiet
<1> QED
  BY <1>1, QuestionsAlways, PTL

LEMMA OnlyStagingTells ==
  ASSUME QuestionsInv, [CqNext]_cqVars, NEW t \in CqThreads, cqTold'[t] > cqTold[t]
  PROVE  \E p \in InUse : /\ StageQuestion(p) /\ cqProc[p].thread = t
                          /\ cqProc[p].pc = "stage" /\ cqProc[p].mine = TRUE
<1>1. cqTold' # cqTold
  <2>1. cqTold[t] \in Nat
    BY CqTypes DEF QuestionsInv
  <2> QED  BY <2>1
<1>2. PICK p \in InUse : StageQuestion(p)
  BY <1>1 DEF CqNext, cqVars, AskQuestion, TurnStops, QuestionResolved, DedupeExpires,
     SwitchQuestions, DayPasses, MonitorBegins, MonitorLooks, MonitorEnds, MonitorMaintains,
     ScanBegins, ScanLooks, ScanEnds, HookConfirms, CqPipeline, Prepare, ClaimMarker, ClaimDedupe,
     FinishQuestion, EntranceStops, cqTelling
<1>3. /\ cqProc[p].pc = "stage" /\ cqProc[p].send
      /\ cqTold' = [cqTold EXCEPT ![cqProc[p].thread] = @ + 1]
  BY <1>1, <1>2 DEF StageQuestion
<1>4. cqProc[p] \in CqRecord /\ OnItsWay(p)
  BY CqTypes DEF QuestionsInv
<1>5. cqProc[p].mine = TRUE
  BY <1>3, <1>4 DEF OnItsWay, CqRecord
<1>6. cqProc[p].thread = t
  <2>1. cqTold \in [CqThreads -> Nat] /\ cqTold[t] \in Nat
    BY CqTypes DEF QuestionsInv, CqTypeOK
  <2>2. cqProc[p].thread # t => cqTold'[t] = cqTold[t]
    BY <1>3, <2>1
  <2> QED  BY <2>1, <2>2
<1> QED
  BY <1>2, <1>3, <1>5, <1>6

\* A question that was told is told again only when no entrance has come
\* across it for longer than the retention, and never by the monitor, for any
\* interleaving of the four entrances, restarts and maintenance: the marker
\* stays as long as it is looked at (claim_feedback_delivery,
\* maintain_probe_events), and PASSIVE_ASYNC_QUESTION_MAX_AGE_MS is less than
\* the retention.
THEOREM QuestionsNotToldAgain == CqSpec => NotToldAgainWhileKept
<1>1. ASSUME QuestionsInv, [CqNext]_cqVars, NEW t \in CqThreads,
             cqTold'[t] > cqTold[t], cqTold[t] > 0
      PROVE  /\ cqDay - cqKept[t] > CqRetention
             /\ ~("monitor" \in InUse /\ cqProc["monitor"].pc = "stage"
                    /\ cqProc'["monitor"].pc = "finish")
  <2>1. PICK p \in InUse : /\ StageQuestion(p) /\ cqProc[p].thread = t
                           /\ cqProc[p].pc = "stage" /\ cqProc[p].mine = TRUE
    BY <1>1, OnlyStagingTells
  <2>2. OnItsWay(p)
    BY <1>1 DEF QuestionsInv
  <2>3. cqDay - cqKept[t] > CqRetention
    BY <1>1, <2>1, <2>2 DEF OnItsWay
  <2>4. p # "monitor"
    <3>1. cqAt[t] <= cqKept[t]
      BY <1>1 DEF QuestionsInv, Remembered
    <3>2. cqDay \in Nat /\ cqAt[t] \in Nat /\ cqKept[t] \in Nat
      BY <1>1, CqTypes DEF QuestionsInv
    <3>3. ~(cqDay - cqAt[t] <= CqMaxAge)
      BY <2>3, <3>1, <3>2, CqRetentionIs
    <3> QED  BY <2>1, <2>2, <3>3 DEF OnItsWay
  <2>5. "monitor" \in InUse => cqProc'["monitor"] = cqProc["monitor"]
    <3>1. PICK r : r = [cqProc[p] EXCEPT !.pc = "finish"]
      OBVIOUS
    <3>2. cqProc' = [cqProc EXCEPT ![p] = r]
      BY <2>1, <3>1 DEF StageQuestion, CqGoes
    <3> QED  BY <2>4, <3>2 DEF InUse
  <2> QED  BY <2>3, <2>5
<1>2. QuestionsInv /\ [CqNext]_cqVars =>
        [\A t \in CqThreads : cqTold'[t] > cqTold[t] /\ cqTold[t] > 0
           => /\ cqDay - cqKept[t] > CqRetention
              /\ ~("monitor" \in InUse /\ cqProc["monitor"].pc = "stage"
                     /\ cqProc'["monitor"].pc = "finish")]_cqVars
  BY <1>1
<1> QED
  BY <1>2, QuestionsAlways, PTL DEF CqSpec, NotToldAgainWhileKept

(***************************************************************************)
(* III. GitHub CI.                                                         *)
(***************************************************************************)
USE CiAssumption

CiRow == {x \in RunRecord : x.status = "absent" <=> x.attempt = 0}
CiRecord == [account : Accounts \cup {NoAccount}, enabled : BOOLEAN,
             baseline : 0..MaxNow + 1, scanned : 0..MaxNow + 1, runs : [Runs -> CiRow],
             pending : SUBSET CiEvent]
CiTask == [pc : {"idle", "scan", "check", "save", "deliver", "acksave"},
           account : Accounts \cup {NoAccount}, time : 0..MaxNow + 1,
           before : CiRecord, state : CiRecord, todo : SUBSET CiEvent, acked : SUBSET CiEvent]
CiWatch == [source : (Accounts \cup {NoAccount}) \X (0..MaxNow + 1), since : 0..MaxNow + 1,
            fresh : BOOLEAN, runs : [Runs -> CiRow]]
Ticking == ciMon.pc \in {"scan", "check", "save"}

CiShape ==
  /\ ciNow \in 1..MaxNow + 1 /\ ciOn \in BOOLEAN /\ ciAccount \in Accounts
  /\ ciNative \in [Runs -> CiRow]
  /\ ciStored \in CiRecord
  /\ ciMon \in CiTask
  /\ ciObserver \in CiWatch
  /\ ciStaged \subseteq Accounts \X Runs \X (1..MaxAttempt)
  /\ ciFaults \in 0..MaxCiFaults
  /\ ciUnwanted \subseteq Runs \X (0..MaxAttempt)
  /\ ciReported \subseteq Runs \X (0..MaxAttempt)
  /\ ciShown \subseteq Runs \X (0..MaxAttempt)
  /\ Ticking => ciMon.account \in Accounts

LEMMA ShapeHasCiType == CiShape => CiTypeOK
<1>1. CiRow \subseteq RunRecord
  BY DEF CiRow
<1>2. CiRecord \subseteq StoredRecord
  BY <1>1 DEF CiRecord, StoredRecord
<1>3. ASSUME NEW m \in CiTask
      PROVE  m \in [pc : {"idle", "scan", "check", "save", "deliver", "acksave"},
                 account : Accounts \cup {NoAccount}, time : 0..MaxNow + 1,
                 before : StoredRecord, state : StoredRecord,
                 todo : SUBSET CiEvent, acked : SUBSET CiEvent]
  BY <1>2 DEF CiTask
<1>4. CiShape => ciNative \in [Runs -> RunRecord]
  BY <1>1 DEF CiShape
<1> QED
  BY <1>2, <1>3, <1>4 DEF CiShape, CiTypeOK

LEMMA DefaultsTyped ==
  /\ CiDefault \in CiRecord /\ Unseen \in CiRow
  /\ MonitorIdle \in CiTask /\ ObserverDefault \in CiWatch
<1>1. Unseen \in CiRow /\ [r \in Runs |-> Unseen] \in [Runs -> CiRow]
  BY DEF CiRow, Unseen, RunRecord
<1>2. CiDefault \in CiRecord
  BY <1>1 DEF CiDefault, CiRecord
<1>3. MonitorIdle \in CiTask
  BY <1>2 DEF MonitorIdle, CiTask
<1>4. ObserverDefault \in CiWatch
  BY <1>1 DEF ObserverDefault, CiWatch
<1> QED
  BY <1>1, <1>2, <1>3, <1>4

LEMMA ResetIs ==
  ASSUME NEW s \in CiRecord
  PROVE  /\ CiReset(s) \in CiRecord
         /\ CiReset(s).account = s.account /\ CiReset(s).runs = s.runs
         /\ CiReset(s).scanned = s.scanned /\ CiReset(s).pending = {}
         /\ CiReset(s).baseline = 0 /\ ~CiReset(s).enabled
<1>1. CiReset(s) = [s EXCEPT !.enabled = FALSE, !.baseline = 0, !.pending = {}]
  BY DEF CiReset
<1>2. CiReset(s).account = s.account /\ CiReset(s).runs = s.runs
      /\ CiReset(s).scanned = s.scanned /\ CiReset(s).pending = {}
      /\ CiReset(s).baseline = 0
  BY <1>1 DEF CiRecord
<1>3. ~CiReset(s).enabled
  BY <1>1 DEF CiRecord
<1>4. CiReset(s) \in CiRecord
  <2>1. CiReset(s) = [account |-> s.account, enabled |-> FALSE, baseline |-> 0,
                      scanned |-> s.scanned, runs |-> s.runs, pending |-> {}]
    BY <1>1 DEF CiRecord
  <2>2. 0 \in 0..MaxNow + 1 /\ {} \in SUBSET CiEvent
    OBVIOUS
  <2>3. /\ s.account \in Accounts \cup {NoAccount} /\ s.scanned \in 0..MaxNow + 1
        /\ s.runs \in [Runs -> CiRow]
    BY DEF CiRecord
  <2> QED  BY <2>1, <2>2, <2>3 DEF CiRecord
<1> QED
  BY <1>2, <1>3, <1>4

\* An account whose repositories are not those of the record starts from nothing.
LEMMA ForAccountIs ==
  ASSUME NEW s \in CiRecord, NEW a \in Accounts
  PROVE  /\ ForAccount(s, a) \in CiRecord /\ ForAccount(s, a).account = a
         /\ ForAccount(s, a) = s
            \/ /\ s.account # a
               /\ ~ForAccount(s, a).enabled /\ ForAccount(s, a).baseline = 0
               /\ ForAccount(s, a).scanned = 0 /\ ForAccount(s, a).pending = {}
               /\ ForAccount(s, a).runs = [r \in Runs |-> Unseen]
<1>1. CASE s.account = a
  BY <1>1 DEF ForAccount
<1>2. CASE s.account # a
  <2>1. ForAccount(s, a) = [CiDefault EXCEPT !.account = a] /\ CiDefault \in CiRecord
    BY <1>2, DefaultsTyped DEF ForAccount
  <2>2. ForAccount(s, a) \in CiRecord /\ ForAccount(s, a).account = a
    BY <2>1 DEF CiRecord
  <2>3. ~CiDefault.enabled /\ CiDefault.baseline = 0 /\ CiDefault.scanned = 0
        /\ CiDefault.pending = {} /\ CiDefault.runs = [r \in Runs |-> Unseen]
    BY DEF CiDefault
  <2> QED  BY <1>2, <2>1, <2>2, <2>3 DEF CiRecord
<1> QED
  BY <1>1, <1>2

LEMMA ReadIs ==
  ASSUME CiShape, NEW s \in CiRecord, NEW a, NEW unread
  PROVE  ReadRuns(s, a, unread) \in [Runs -> CiRow]
<1>1. ASSUME NEW r \in Runs PROVE s.runs[r] \in CiRow /\ ciNative[r] \in CiRow
  BY DEF CiShape, CiRecord
<1> QED
  BY <1>1, DefaultsTyped DEF ReadRuns

\* What a scan makes of the record: what it reads, and as pending what has
\* finished since, unless it sets the baseline.
NoBaseline(s) == ~s.enabled \/ s.baseline = 0
Reconciled(s, read, time, t) ==
  /\ t \in CiRecord /\ t.account = s.account /\ t.enabled /\ t.enabled \in BOOLEAN
  /\ t.baseline = IF NoBaseline(s) THEN time ELSE s.baseline
  /\ t.runs = read /\ t.scanned = s.scanned
  /\ \A e \in t.pending :
       /\ read[e.run].attempt = e.attempt /\ Notifiable(read[e.run])
       /\ e \in s.pending \/ (~NoBaseline(s) /\ NewlyFinished(s, read, e.run))
  /\ \A r \in Runs : ~NoBaseline(s) /\ NewlyFinished(s, read, r) =>
       \E e \in t.pending : e.run = r /\ e.attempt = read[r].attempt

LEMMA ReconcileIs ==
  ASSUME NEW s \in CiRecord, NEW a \in Accounts, NEW read \in [Runs -> CiRow],
         NEW time \in 0..MaxNow + 1
  PROVE  Reconciled(s, read, time, ReconcileRuns(s, a, read, time))
<1> DEFINE baseline == ~s.enabled \/ s.baseline = 0
           known(r) == \E e \in s.pending : e.run = r /\ e.attempt = read[r].attempt
           event(r) == [run |-> r, attempt |-> read[r].attempt, account |-> a, seen |-> time]
           new == {event(r) : r \in {x \in Runs :
                     ~baseline /\ NewlyFinished(s, read, x) /\ ~known(x)}}
           pending == {e \in s.pending \cup new : /\ read[e.run].attempt = e.attempt
                                                  /\ Notifiable(read[e.run])}
           t == ReconcileRuns(s, a, read, time)
<1>1. t = [s EXCEPT !.pending = pending, !.runs = read, !.enabled = TRUE,
                    !.baseline = IF baseline THEN time ELSE @]
  BY DEF ReconcileRuns
<1>2. ASSUME NEW r \in Runs, Notifiable(read[r]) PROVE event(r) \in CiEvent
  <2>1. read[r] \in CiRow /\ read[r].status = "done"
    BY <1>2 DEF Notifiable
  <2>2. read[r].attempt \in 1..MaxAttempt
    BY <2>1 DEF CiRow, RunRecord
  <2> QED  BY <2>2 DEF CiEvent
<1>3. new \subseteq CiEvent
  BY <1>2 DEF NewlyFinished
<1>4. pending \subseteq CiEvent
  BY <1>3 DEF CiRecord
<1>5. \A e \in pending :
              /\ read[e.run].attempt = e.attempt /\ Notifiable(read[e.run])
              /\ e \in s.pending \/ (~baseline /\ NewlyFinished(s, read, e.run))
  OBVIOUS
<1>6. ASSUME NEW r \in Runs, ~baseline, NewlyFinished(s, read, r)
      PROVE  \E e \in pending : e.run = r /\ e.attempt = read[r].attempt
  <2>1. Notifiable(read[r])
    BY <1>6 DEF NewlyFinished
  <2>2. CASE known(r)
    BY <2>1, <2>2
  <2>3. CASE ~known(r)
    <3>1. event(r) \in new
      BY <1>6, <2>3
    <3>2. event(r).run = r /\ event(r).attempt = read[r].attempt
      OBVIOUS
    <3> HIDE DEF event, new
    <3>3. event(r) \in pending
      BY <2>1, <3>1, <3>2
    <3> QED  BY <3>2, <3>3
  <2> QED  BY <2>2, <2>3
<1> HIDE DEF pending, baseline
<1>7. /\ t \in CiRecord /\ t.account = s.account /\ t.enabled = TRUE
      /\ t.baseline = IF baseline THEN time ELSE s.baseline
      /\ t.runs = read /\ t.scanned = s.scanned /\ t.pending = pending
  BY <1>1, <1>4 DEF CiRecord
<1> HIDE DEF t, event, new
<1> QED
  BY <1>5, <1>6, <1>7 DEF baseline, t, NoBaseline, Reconciled

\* What the steps of a tick make of the local variables.
Started ==
  /\ ciMon'.pc = "scan" /\ ciMon'.account = ciAccount /\ ciMon'.time = ciNow
  /\ ciMon'.before = ciStored /\ ciMon'.state = ciStored
  /\ ciMon'.todo = ciMon.todo /\ ciMon'.acked = ciMon.acked
Looking(pc, state) ==
  /\ ciMon'.pc = pc /\ ciMon'.state = state
  /\ ciMon'.account = ciMon.account /\ ciMon'.time = ciMon.time /\ ciMon'.before = ciMon.before
  /\ ciMon'.todo = ciMon.todo /\ ciMon'.acked = ciMon.acked
Base == ForAccount(ciMon.state, ciMon.account)
Reading(unread) == ReadRuns(Base, ciMon.account, unread)
Read(unread) == ReconcileRuns(Base, ciMon.account, Reading(unread), ciMon.time)

LEMMA StartedIs ==
  ASSUME CiShape, TickStart
  PROVE  Started /\ ciMon' \in CiTask
<1>1. ciMon' = [ciMon EXCEPT !.pc = "scan", !.account = ciAccount, !.time = ciNow,
                            !.before = ciStored, !.state = ciStored]
      /\ ciMon \in CiTask /\ ciStored \in CiRecord /\ ciAccount \in Accounts
      /\ ciNow \in 0..MaxNow + 1
  BY DEF TickStart, CiShape
<1>2. Started
  BY <1>1 DEF CiTask, Started
<1>3. ciMon' \in CiTask
  BY <1>1 DEF CiTask
<1> QED
  BY <1>2, <1>3

LEMMA LookingIs ==
  ASSUME CiShape, NEW pc \in {"check", "save", "acksave"}, NEW state \in CiRecord,
         ciMon' = [ciMon EXCEPT !.pc = pc, !.state = state]
  PROVE  Looking(pc, state) /\ ciMon' \in CiTask
<1>1. ciMon \in CiTask
  BY DEF CiShape
<1>2. Looking(pc, state)
  BY <1>1 DEF CiTask, Looking
<1>3. ciMon' \in CiTask
  BY <1>1 DEF CiTask
<1> QED
  BY <1>2, <1>3

LEMMA BaseIs ==
  ASSUME CiShape, ciMon.pc = "scan", NEW unread
  PROVE  /\ ciMon.account \in Accounts /\ ciMon.state \in CiRecord /\ Base \in CiRecord
         /\ ciMon.time \in 0..MaxNow + 1 /\ Reading(unread) \in [Runs -> CiRow]
         /\ Read(unread) \in CiRecord
<1>1. ciMon.account \in Accounts /\ ciMon.state \in CiRecord /\ ciMon.time \in 0..MaxNow + 1
  BY DEF CiShape, Ticking, CiTask
<1>2. Base \in CiRecord
  BY <1>1, ForAccountIs DEF Base
<1>3. Reading(unread) \in [Runs -> CiRow]
  BY <1>2, ReadIs DEF Reading
<1>4. Read(unread) \in CiRecord
  BY <1>1, <1>2, <1>3, ReconcileIs DEF Read, Reconciled
<1> QED
  BY <1>1, <1>2, <1>3, <1>4

\* The states a scan can end with.
LEMMA ScansIs ==
  ASSUME CiShape, ScanFails \/ \E unread \in SUBSET Runs : CiScan(unread)
  PROVE  /\ ciMon.pc = "scan" /\ ciMon' \in CiTask
         /\ UNCHANGED <<OtherThanMonitor, ciStored, ciStaged, ciReported>>
         /\ \/ \E state \in {ciMon.state, Base} : Looking("check", state)
            \/ \E unread \in SUBSET Runs :
                 Looking("check", Read(unread))
<1>1. CASE ScanFails
  <2>1. PICK s \in {ciMon.state, Base} : ciMon' = [ciMon EXCEPT !.pc = "check", !.state = s]
    BY <1>1 DEF ScanFails, Base
  <2>2. ciMon.pc = "scan" /\ s \in CiRecord
    BY <1>1, <2>1, BaseIs DEF ScanFails
  <2>3. Looking("check", s) /\ ciMon' \in CiTask
    BY <2>1, <2>2, LookingIs
  <2> QED  BY <1>1, <2>2, <2>3 DEF ScanFails
<1>2. ASSUME NEW unread \in SUBSET Runs, CiScan(unread)
      PROVE  /\ ciMon.pc = "scan" /\ ciMon' \in CiTask
             /\ UNCHANGED <<OtherThanMonitor, ciStored, ciStaged, ciReported>>
             /\ Looking("check", Read(unread))
  <2>1. ciMon' = [ciMon EXCEPT !.pc = "check", !.state = Read(unread)] /\ ciMon.pc = "scan"
    BY <1>2 DEF CiScan, Read, Reading, Base
  <2>2. Read(unread) \in CiRecord
    BY <2>1, BaseIs
  <2>3. Looking("check", Read(unread)) /\ ciMon' \in CiTask
    BY <2>1, <2>2, LookingIs
  <2> QED  BY <1>2, <2>1, <2>3 DEF CiScan
<1> QED
  BY <1>1, <1>2

\* A delivery changes what is left to do, and nothing else of the task.
Delivering ==
  /\ ciMon'.state = ciMon.state /\ ciMon'.before = ciMon.before
  /\ ciMon'.pc = "deliver" /\ ciMon'.time = ciMon.time /\ ciMon'.account = ciMon.account
LEMMA DeliveringIs ==
  ASSUME CiShape, NEW todo \in SUBSET CiEvent, NEW acked \in SUBSET CiEvent,
         ciMon' = [ciMon EXCEPT !.pc = "deliver", !.todo = todo, !.acked = acked]
  PROVE  Delivering /\ ciMon'.todo = todo /\ ciMon'.acked = acked /\ ciMon' \in CiTask
<1>1. ciMon \in CiTask
  BY DEF CiShape
<1>2. Delivering /\ ciMon'.todo = todo /\ ciMon'.acked = acked
  BY <1>1 DEF CiTask, Delivering
<1>3. ciMon' \in CiTask
  BY <1>1 DEF CiTask
<1> QED
  BY <1>2, <1>3

LEMMA DeliversIs ==
  ASSUME CiShape, DeliverFails \/ \E e \in ciMon.todo : Deliver(e)
  PROVE  /\ ciMon.pc = "deliver" /\ ciMon' \in CiTask
         /\ UNCHANGED <<OtherThanMonitor, ciStored, ciReported>>
         /\ ciStaged' \subseteq ciStaged \cup {KeyOf(e) : e \in ciMon.todo}
         /\ ciMon' = MonitorIdle \/ (Delivering /\ ciMon'.todo \subseteq ciMon.todo)
<1>0. ciMon \in CiTask /\ ciMon.todo \in SUBSET CiEvent /\ ciMon.acked \in SUBSET CiEvent
  BY DEF CiShape, CiTask
<1>1. CASE DeliverFails
  <2>1. ciMon' = MonitorIdle \/ ciMon' = [ciMon EXCEPT !.todo = {}]
    BY <1>1 DEF DeliverFails
  <2>2. CASE ciMon' = [ciMon EXCEPT !.todo = {}]
    <3>1. ciMon' = [ciMon EXCEPT !.pc = "deliver", !.todo = {}, !.acked = ciMon.acked]
      BY <1>0, <1>1, <2>2 DEF CiTask, DeliverFails
    <3>2. Delivering /\ ciMon'.todo = {} /\ ciMon' \in CiTask
      BY <1>0, <3>1, DeliveringIs
    <3> QED  BY <1>1, <3>2 DEF DeliverFails
  <2> QED  BY <1>1, <2>1, <2>2, DefaultsTyped DEF DeliverFails
<1>2. ASSUME NEW e \in ciMon.todo, Deliver(e)
      PROVE  /\ ciMon.pc = "deliver" /\ ciMon' \in CiTask
             /\ UNCHANGED <<OtherThanMonitor, ciStored, ciReported>>
             /\ ciStaged' \subseteq ciStaged \cup {KeyOf(e)}
             /\ Delivering /\ ciMon'.todo \subseteq ciMon.todo
  <2>1. ciMon' = [ciMon EXCEPT !.todo = @ \ {e}, !.acked = @ \cup {e}] /\ ciMon.pc = "deliver"
    BY <1>2 DEF Deliver
  <2>2. ciMon.todo \ {e} \in SUBSET CiEvent /\ ciMon.acked \cup {e} \in SUBSET CiEvent
    BY <1>0
  <2>3. ciMon' = [ciMon EXCEPT !.pc = "deliver", !.todo = ciMon.todo \ {e},
                               !.acked = ciMon.acked \cup {e}]
    BY <1>0, <2>1 DEF CiTask
  <2>4. Delivering /\ ciMon'.todo = ciMon.todo \ {e} /\ ciMon' \in CiTask
    BY <2>2, <2>3, DeliveringIs
  <2> QED  BY <1>2, <2>1, <2>4 DEF Deliver
<1> QED
  BY <1>1, <1>2

\* What is acknowledged leaves the record; the rest is as it was loaded.
Acknowledged(state) ==
  /\ state \in CiRecord /\ state.pending \subseteq ciStored.pending
  /\ state.account = ciStored.account /\ state.runs = ciStored.runs
  /\ state.scanned = ciStored.scanned /\ state.baseline = ciStored.baseline
  /\ (state.enabled <=> ciStored.enabled)
LEMMA AcknowledgedIs ==
  ASSUME CiShape, AckLoad
  PROVE  /\ \E state : Acknowledged(state) /\ Looking("acksave", state)
         /\ ciMon' \in CiTask /\ ciMon.pc = "deliver"
         /\ UNCHANGED <<OtherThanMonitor, ciStored, ciStaged, ciReported>>
<1> DEFINE left == {e \in ciStored.pending : \A a \in ciMon.acked : KeyOf(a) # KeyOf(e)}
           state == [ciStored EXCEPT !.pending = left]
<1>1. ciStored \in CiRecord /\ left \subseteq ciStored.pending
  BY DEF CiShape
<1> HIDE DEF left
<1>2. Acknowledged(state)
  <2>1. left \in SUBSET CiEvent
    BY <1>1 DEF CiRecord
  <2>2. state \in CiRecord
    BY <1>1, <2>1 DEF CiRecord
  <2>3. state.account = ciStored.account /\ state.runs = ciStored.runs
        /\ state.scanned = ciStored.scanned /\ state.baseline = ciStored.baseline
        /\ state.pending = left /\ state.enabled = ciStored.enabled
    BY <1>1 DEF CiRecord
  <2> QED  BY <1>1, <2>2, <2>3 DEF Acknowledged
<1>3. ciMon' = [ciMon EXCEPT !.pc = "acksave", !.state = state] /\ ciMon.pc = "deliver"
  BY DEF AckLoad, left
<1> HIDE DEF state
<1>4. Looking("acksave", state) /\ ciMon' \in CiTask
  BY <1>2, <1>3, LookingIs DEF Acknowledged
<1> QED
  BY <1>2, <1>3, <1>4 DEF AckLoad

\* The record is written as the scan left it, and its events are in hand.
LEMMA SavedIs ==
  ASSUME CiShape, TickSave
  PROVE  /\ ciMon.pc = "save" /\ ciMon' \in CiTask
         /\ UNCHANGED <<ciNow, ciOn, ciAccount, ciNative, ciStaged, ciFaults, ciShown>>
         /\ ciUnwanted' = IF SetsBaseline THEN ciUnwanted \ Missed(ciMon.state) ELSE ciUnwanted
         /\ \/ ciStored' = ciStored /\ ciMon.state = ciMon.before
            \/ /\ ciStored'.account = ciMon.state.account /\ ciStored'.runs = ciMon.state.runs
               /\ ciStored'.baseline = ciMon.state.baseline
               /\ ciStored'.pending = ciMon.state.pending
               /\ (ciStored'.enabled <=> ciMon.state.enabled)
               /\ ciStored'.scanned = ciMon.time
         /\ ciStored' \in CiRecord
         /\ ciReported' = ciReported \cup {<<e.run, e.attempt>> : e \in ciMon.state.pending}
         /\ ciObserver' \in CiWatch
         /\ ciObserver'.source = ciObserver.source /\ ciObserver'.since = ciObserver.since
         /\ ciObserver'.runs = ciObserver.runs
         /\ ciMon' = MonitorIdle \/ (Delivering /\ ciMon'.todo = ciMon.state.pending)
<1>1. /\ ciMon.state \in CiRecord /\ ciMon.time \in 0..MaxNow + 1
      /\ ciMon \in CiTask /\ ciMon.state.pending \in SUBSET CiEvent
      /\ ciMon.acked \in SUBSET CiEvent /\ ciObserver \in CiWatch /\ ciStored \in CiRecord
  BY DEF CiShape, CiTask, CiRecord
<1>2. \/ ciStored' = ciStored /\ ciMon.state = ciMon.before
      \/ /\ ciStored' \in CiRecord
         /\ ciStored'.account = ciMon.state.account /\ ciStored'.runs = ciMon.state.runs
         /\ ciStored'.baseline = ciMon.state.baseline
         /\ ciStored'.pending = ciMon.state.pending
         /\ ciStored'.enabled = ciMon.state.enabled
         /\ ciStored'.scanned = ciMon.time
  <2>1. CASE ciStored' = [ciMon.state EXCEPT !.scanned = ciMon.time]
    BY <1>1, <2>1 DEF CiRecord
  <2> QED  BY <2>1 DEF TickSave
<1>3. /\ ciObserver'.source = ciObserver.source /\ ciObserver'.since = ciObserver.since
      /\ ciObserver'.runs = ciObserver.runs /\ ciObserver' \in CiWatch
  <2>1. PICK fresh \in BOOLEAN : ciObserver' = [ciObserver EXCEPT !.fresh = fresh]
    <3>1. (ciObserver.fresh \/ ciMon.state # ciMon.before) \in BOOLEAN
      OBVIOUS
    <3> QED  BY <3>1 DEF TickSave
  <2> QED  BY <1>1, <2>1 DEF CiWatch
<1>4. /\ ciMon' \in CiTask
      /\ ciMon' = MonitorIdle \/ (Delivering /\ ciMon'.todo = ciMon.state.pending)
  <2>1. CASE ciMon' = [ciMon EXCEPT !.pc = "deliver", !.todo = ciMon.state.pending]
    <3>1. ciMon' = [ciMon EXCEPT !.pc = "deliver", !.todo = ciMon.state.pending,
                                 !.acked = ciMon.acked]
      BY <1>1, <2>1 DEF CiTask
    <3> QED  BY <1>1, <3>1, DeliveringIs
  <2> QED  BY <2>1, DefaultsTyped DEF TickSave, ToDeliver
<1> QED
  BY <1>1, <1>2, <1>3, <1>4 DEF TickSave

\* The steps, by what they do to the record and to the monitor.
RunMoves == \E r \in Runs : RunStarts(r) \/ \E status \in CiCompleted : RunEnds(r, status)
Settings == SaveSettings \/ SaveSettingsDies \/ TickOff
Scans == ScanFails \/ \E unread \in SUBSET Runs : CiScan(unread)
Delivers == DeliverFails \/ \E e \in ciMon.todo : Deliver(e)
Watches == ObserverResets \/ Observe

LEMMA CiCases ==
  ASSUME [CiNext]_ciVars
  PROVE  \/ RunMoves \/ (\E a \in Accounts : SwitchAccount(a)) \/ Settings
         \/ TickStart \/ Scans \/ TickCheck \/ TickSave \/ Delivers \/ AckLoad \/ AckSave
         \/ MonitorDies \/ Watches \/ UNCHANGED ciVars
<1>1. {} \in SUBSET Runs
  OBVIOUS
<1>2. CASE CiEnvironment
  BY <1>2 DEF CiEnvironment, RunMoves, Settings
<1>3. CASE CiMonitor
  BY <1>1, <1>3 DEF CiMonitor, Settings, Scans, Delivers
<1>4. CASE CiBreaks
  BY <1>4 DEF CiBreaks, Settings, Scans, Delivers
<1>5. CASE ObserverResets \/ Observe
  BY <1>5 DEF Watches
<1> QED
  BY <1>2, <1>3, <1>4, <1>5 DEF CiNext

\* A summary of an earlier attempt, or of this one as it ended, stays one.
OldRun(old, new) ==
  /\ old.attempt <= new.attempt
  /\ old.attempt = new.attempt /\ old.status \in CiCompleted =>
       new.status = old.status /\ new.at = old.at
NewlyUnwanted(u) ==
  /\ ~ciOn /\ u \in Runs \X (0..MaxAttempt)
  /\ ciNative[u[1]].attempt = u[2] /\ ciNative[u[1]].status = "busy"
  /\ ciNative'[u[1]].attempt = u[2] /\ ciNative'[u[1]].status \in CiCompleted

LEMMA RunMovesIs ==
  ASSUME CiShape, RunMoves
  PROVE  /\ UNCHANGED <<ciOn, ciAccount, ciStored, ciMon, ciStaged, ciObserver, ciFaults,
                        ciReported, ciShown>>
         /\ ciNative' \in [Runs -> CiRow]
         /\ \A q \in Runs, row \in CiRow : OldRun(row, ciNative[q]) => OldRun(row, ciNative'[q])
         /\ \A q \in Runs : ciNative[q].attempt <= ciNative'[q].attempt
         /\ ciNow' \in 1..MaxNow + 1 /\ ciNow <= ciNow'
         /\ ciUnwanted \subseteq ciUnwanted'
         /\ \A u \in ciUnwanted' \ ciUnwanted : NewlyUnwanted(u)
<1>0. ciNative \in [Runs -> CiRow] /\ ciNow \in 1..MaxNow + 1 /\ MaxNow \in Nat
  BY DEF CiShape
<1>1. ASSUME NEW r \in Runs, RunStarts(r)
      PROVE  /\ UNCHANGED <<ciNow, ciOn, ciAccount, ciStored, ciMon, ciStaged, ciObserver, ciFaults,
                            ciUnwanted, ciReported, ciShown>>
             /\ ciNative' \in [Runs -> CiRow]
             /\ \A q \in Runs, row \in CiRow :
                  OldRun(row, ciNative[q]) => OldRun(row, ciNative'[q])
             /\ \A q \in Runs : ciNative[q].attempt <= ciNative'[q].attempt
  <2> DEFINE next == [attempt |-> ciNative[r].attempt + 1, status |-> "busy", at |-> 0]
  <2>1. ciNative' = [ciNative EXCEPT ![r] = next]
    BY <1>1 DEF RunStarts
  <2>2. ciNative[r].attempt \in Nat
    BY <1>0 DEF CiRow, RunRecord
  <2>3. next \in CiRow
    <3>1. ciNative[r].attempt < Attempts[r] /\ Attempts[r] \in 1..MaxAttempt
      BY <1>1 DEF RunStarts
    <3>2. ciNative[r].attempt + 1 \in 0..MaxAttempt
      BY <2>2, <3>1
    <3>3. next \in RunRecord
      BY <3>2 DEF RunRecord
    <3> QED  BY <2>2, <3>3 DEF CiRow
  <2>4. next.attempt = ciNative[r].attempt + 1
    OBVIOUS
  <2> HIDE DEF next
  <2>5. \A q \in Runs : ciNative'[q] = IF q = r THEN next ELSE ciNative[q]
    BY <1>0, <2>1
  <2>6. ASSUME NEW q \in Runs, NEW row \in CiRow, OldRun(row, ciNative[q])
        PROVE  OldRun(row, ciNative'[q])
    <3>1. row.attempt \in Nat
      BY DEF CiRow, RunRecord
    <3> QED  BY <2>2, <2>4, <2>5, <2>6, <3>1 DEF OldRun
  <2>7. \A q \in Runs : ciNative[q].attempt \in Nat
    BY <1>0 DEF CiRow, RunRecord
  <2> QED  BY <1>0, <1>1, <2>1, <2>2, <2>3, <2>4, <2>5, <2>6, <2>7 DEF RunStarts
<1>2. ASSUME NEW r \in Runs, NEW status \in CiCompleted, RunEnds(r, status)
      PROVE  /\ UNCHANGED <<ciOn, ciAccount, ciStored, ciMon, ciStaged, ciObserver, ciFaults,
                            ciReported, ciShown>>
             /\ ciNative' \in [Runs -> CiRow]
             /\ \A q \in Runs, row \in CiRow :
                  OldRun(row, ciNative[q]) => OldRun(row, ciNative'[q])
             /\ \A q \in Runs : ciNative[q].attempt <= ciNative'[q].attempt
             /\ ciNow' \in 1..MaxNow + 1 /\ ciNow <= ciNow'
             /\ ciUnwanted \subseteq ciUnwanted'
             /\ \A u \in ciUnwanted' \ ciUnwanted : NewlyUnwanted(u)
  <2> DEFINE next == [ciNative[r] EXCEPT !.status = status, !.at = ciNow + 1]
  <2>1. ciNative' = [ciNative EXCEPT ![r] = next]
    BY <1>0, <1>2 DEF RunEnds
  <2>2. ciNative[r] \in CiRow /\ ciNative[r].status = "busy" /\ ciNow < MaxNow
    BY <1>0, <1>2 DEF RunEnds
  <2>3. next.attempt = ciNative[r].attempt /\ next.status = status /\ next.at = ciNow + 1
    BY <2>2 DEF CiRow, RunRecord
  <2>4. next \in CiRow
    <3>1. ciNow + 1 \in 0..MaxNow + 1 /\ status \in {"done", "cancelled"}
      BY <1>0, <2>2 DEF CiCompleted
    <3>2. next \in RunRecord
      BY <2>2, <3>1 DEF CiRow, RunRecord
    <3> QED  BY <2>2, <2>3, <3>1, <3>2 DEF CiRow
  <2> HIDE DEF next
  <2>5. \A q \in Runs : ciNative'[q] = IF q = r THEN next ELSE ciNative[q]
    BY <1>0, <2>1
  <2>6. ASSUME NEW q \in Runs, NEW row \in CiRow, OldRun(row, ciNative[q])
        PROVE  OldRun(row, ciNative'[q])
    BY <2>2, <2>3, <2>5, <2>6 DEF OldRun, CiCompleted
  <2>7. ciUnwanted' = IF ciOn THEN ciUnwanted ELSE ciUnwanted \cup {<<r, ciNative[r].attempt>>}
    BY <1>2 DEF RunEnds
  <2>8. ~ciOn => NewlyUnwanted(<<r, ciNative[r].attempt>>)
    BY <2>2, <2>3, <2>5 DEF NewlyUnwanted, CiRow, RunRecord
  <2>9. \A q \in Runs : ciNative[q].attempt \in Nat
    BY <1>0 DEF CiRow, RunRecord
  <2> QED  BY <1>0, <1>2, <2>1, <2>2, <2>3, <2>4, <2>5, <2>6, <2>7, <2>8, <2>9 DEF RunEnds
<1> QED
  BY <1>0, <1>1, <1>2 DEF RunMoves

LEMMA CiFaultCounted ==
  ASSUME CiShape, CiFault \/ UNCHANGED ciFaults
  PROVE  ciFaults' \in 0..MaxCiFaults
BY DEF CiShape, CiFault

LEMMA SettingsIs ==
  ASSUME CiShape, Settings
  PROVE  /\ UNCHANGED <<ciAccount, ciNative, ciMon, ciStaged, ciObserver,
                        ciReported, ciShown>>
         /\ ciUnwanted' \subseteq ciUnwanted
         /\ ciNow' \in 1..MaxNow + 1 /\ ciOn' \in BOOLEAN /\ ciFaults' \in 0..MaxCiFaults
         /\ \/ /\ TickOff /\ ciOn' = ciOn /\ ~ciOn /\ ciNow' = ciNow /\ ciFaults' = ciFaults
               /\ ciStored' = CiReset(ciStored)
            \/ SaveSettings /\ ciNow' = ciNow + 1 /\ ciStored' = CiReset(ciStored)
            \/ SaveSettingsDies /\ ciNow' = ciNow + 1 /\ ciStored' = ciStored
<1>0. ciNow \in 1..MaxNow + 1 /\ ciOn \in BOOLEAN /\ ciFaults \in 0..MaxCiFaults
  BY DEF CiShape
<1>1. CASE SaveSettings
  BY <1>0, <1>1 DEF SaveSettings, CiFault
<1>2. CASE SaveSettingsDies
  <2>1. ciFaults' \in 0..MaxCiFaults
    BY <1>2, CiFaultCounted DEF SaveSettingsDies
  <2>2. ciOn' \in BOOLEAN /\ ciNow' = ciNow + 1 /\ ciNow <= MaxNow
    BY <1>2 DEF SaveSettingsDies
  <2>3. /\ UNCHANGED <<ciAccount, ciNative, ciMon, ciStaged, ciObserver,
                       ciReported, ciShown>>
        /\ ciStored' = ciStored /\ ciUnwanted' \subseteq ciUnwanted
    BY <1>2 DEF SaveSettingsDies
  <2>4. ciNow' \in 1..MaxNow + 1
    BY <1>0, <2>2
  <2> QED  BY <1>2, <2>1, <2>2, <2>3, <2>4
<1>3. CASE TickOff
  BY <1>0, <1>3 DEF TickOff, OtherThanMonitor
<1> QED
  BY <1>1, <1>2, <1>3 DEF Settings

LEMMA WatchesIs ==
  ASSUME CiShape, Watches
  PROVE  /\ UNCHANGED <<ciNow, ciOn, ciAccount, ciNative, ciStored, ciMon,
                        ciStaged, ciFaults, ciUnwanted, ciReported>>
         /\ ciObserver' \in CiWatch
         /\ \/ ciObserver' = ObserverDefault /\ ciShown' = ciShown
            \/ /\ ciOn /\ ciStored.enabled /\ ciStored.baseline > 0
               /\ ciObserver'.source = <<ciStored.account, ciStored.baseline>>
               /\ ciObserver'.runs = ciStored.runs
               /\ ciObserver'.since = IF SourceChanged THEN ciStored.scanned ELSE ciObserver.since
               /\ ciShown' = IF SourceChanged THEN ciShown
                     ELSE ciShown \cup {<<r, ciStored.runs[r].attempt>> : r \in ObserverNews}
<1>0. ciStored \in CiRecord /\ ciObserver \in CiWatch
  BY DEF CiShape
<1>1. CASE ObserverResets
  BY <1>1, DefaultsTyped DEF ObserverResets
<1>2. CASE Observe
  <2>1. ciObserver' = [source |-> <<ciStored.account, ciStored.baseline>>, fresh |-> FALSE,
                    since |-> IF SourceChanged THEN ciStored.scanned ELSE ciObserver.since,
                    runs |-> ciStored.runs]
    BY <1>2 DEF Observe
  <2>2. ciObserver' \in CiWatch
    BY <1>0, <2>1 DEF CiWatch, CiRecord
  <2> QED  BY <1>2, <2>1, <2>2 DEF Observe
<1> QED
  BY <1>1, <1>2 DEF Watches

LEMMA CiStepTyped ==
  ASSUME CiShape, [CiNext]_ciVars
  PROVE  CiShape'
<1>0. MonitorIdle \in CiTask /\ MonitorIdle.pc = "idle"
  BY DefaultsTyped DEF MonitorIdle
<1>1. CASE RunMoves
  <2>1. ciUnwanted' \subseteq Runs \X (0..MaxAttempt)
    BY <1>1, RunMovesIs DEF NewlyUnwanted, CiShape
  <2> QED  BY <1>1, <2>1, RunMovesIs DEF CiShape, Ticking
<1>2. ASSUME NEW a \in Accounts, SwitchAccount(a) PROVE CiShape'
  BY <1>2 DEF CiShape, SwitchAccount, Ticking
<1>3. CASE Settings
  <2>1. ciStored' \in CiRecord
    BY <1>3, SettingsIs, ResetIs DEF CiShape
  <2> QED  BY <1>3, <2>1, SettingsIs DEF CiShape, Ticking
<1>4. CASE TickStart
  BY <1>4, StartedIs DEF CiShape, Ticking, TickStart, OtherThanMonitor, Started
<1>5. CASE Scans
  <2>1. ciMon'.account = ciMon.account /\ ciMon.account \in Accounts
    BY <1>5, ScansIs DEF Scans, Looking, CiShape, Ticking
  <2>2. ciFaults' \in 0..MaxCiFaults
    BY <1>5, CiFaultCounted DEF Scans, ScanFails, CiScan
  <2> QED  BY <1>5, <2>1, <2>2, ScansIs DEF CiShape, Scans, OtherThanMonitor
<1>6. CASE TickCheck
  <2>1. ciMon.state \in CiRecord
    BY DEF CiShape, CiTask
  <2>2. CASE ciMon' = MonitorIdle
    BY <1>0, <1>6, <2>2 DEF CiShape, TickCheck, OtherThanMonitor, Ticking
  <2>3. CASE ciMon' = [ciMon EXCEPT !.pc = "save"]
    <3>1. ciMon' = [ciMon EXCEPT !.pc = "save", !.state = ciMon.state]
      BY <2>3 DEF CiShape, CiTask
    <3>2. ciMon' \in CiTask /\ ciMon'.account = ciMon.account /\ ciMon.account \in Accounts
      BY <1>6, <2>1, <3>1, LookingIs DEF Looking, TickCheck, CiShape, Ticking
    <3> QED  BY <1>6, <3>2 DEF CiShape, TickCheck, OtherThanMonitor
  <2> QED  BY <1>6, <2>2, <2>3 DEF TickCheck
<1>7. CASE TickSave
  <2>1. ciMon'.pc \notin {"scan", "check", "save"}
    BY <1>0, <1>7, SavedIs DEF Delivering
  <2>2. {<<e.run, e.attempt>> : e \in ciMon.state.pending} \subseteq Runs \X (0..MaxAttempt)
    BY DEF CiShape, CiTask, CiRecord, CiEvent
  <2> QED  BY <1>7, <2>1, <2>2, SavedIs DEF CiShape, Ticking
<1>8. CASE Delivers
  <2>1. ciMon'.pc \notin {"scan", "check", "save"}
    BY <1>0, <1>8, DeliversIs DEF Delivering, Delivers
  <2>2. {KeyOf(e) : e \in ciMon.todo} \subseteq Accounts \X Runs \X (1..MaxAttempt)
    BY DEF CiShape, CiTask, CiEvent, KeyOf
  <2>3. ciStaged' \subseteq Accounts \X Runs \X (1..MaxAttempt)
    BY <1>8, <2>2, DeliversIs DEF CiShape, Delivers
  <2>4. ciFaults' \in 0..MaxCiFaults
    BY <1>8, CiFaultCounted DEF Delivers, DeliverFails, Deliver
  <2> QED  BY <1>8, <2>1, <2>3, <2>4, DeliversIs DEF CiShape, Ticking, Delivers, OtherThanMonitor
<1>9. CASE AckLoad
  <2>1. ciMon'.pc = "acksave"
    BY <1>9, AcknowledgedIs DEF Looking
  <2>2. ciFaults' = ciFaults
    BY <1>9 DEF AckLoad
  <2> QED  BY <1>9, <2>1, <2>2, AcknowledgedIs DEF CiShape, Ticking, OtherThanMonitor
<1>10. CASE AckSave
  BY <1>0, <1>10 DEF CiShape, AckSave, Ticking, OtherThanMonitor, CiTask
<1>11. CASE MonitorDies
  BY <1>0, <1>11 DEF CiShape, MonitorDies, Ticking, OtherThanMonitor, CiFault
<1>12. CASE Watches
  <2>1. ciShown' \subseteq Runs \X (0..MaxAttempt)
    <3>1. {<<r, ciStored.runs[r].attempt>> : r \in ObserverNews} \subseteq Runs \X (0..MaxAttempt)
      BY DEF ObserverNews, CiShape, CiRecord, CiRow, RunRecord
    <3> QED  BY <1>12, <3>1, WatchesIs DEF CiShape
  <2> QED  BY <1>12, <2>1, WatchesIs DEF CiShape, Ticking
<1>13. CASE UNCHANGED ciVars
  BY <1>13 DEF CiShape, ciVars, Ticking
<1> QED
  BY <1>1, <1>2, <1>3, <1>4, <1>5, <1>6, <1>7, <1>8, <1>9, <1>10, <1>11, <1>12, <1>13, CiCases

LEMMA CiShapeInit == CiInit => CiShape
<1>1. CiInit => ciAccount \in Accounts
  BY DEF CiInit
<1>2. [r \in Runs |-> Unseen] \in [Runs -> CiRow] /\ MonitorIdle.pc = "idle"
  BY DefaultsTyped DEF MonitorIdle
<1> QED
  BY <1>1, <1>2, DefaultsTyped DEF CiInit, CiShape, Ticking

\* The monitor, the settings and the App's observer keep the record a record.
THEOREM GithubCiHasType == CiSpec => []CiTypeOK
<1>1. CiSpec => []CiShape
  BY CiShapeInit, CiStepTyped, PTL DEF CiSpec
<1> QED
  BY <1>1, ShapeHasCiType, PTL

(***************************************************************************)
(* The record                                                              *)
(***************************************************************************)
\* A record tells of each run what GitHub says or said before, and of no run of
\* another account; it has a baseline exactly when it is enabled.
Tells(s, native) ==
  /\ \A r \in Runs : OldRun(s.runs[r], native[r])
                     /\ (s.runs[r].status # "absent" => OwnerOf[r] = s.account)
  /\ s.enabled <=> s.baseline > 0
Truthful(s) == Tells(s, ciNative)
\* Since it was loaded, the settings at most reset it.
AtMostReset(s) ==
  /\ ciStored.runs = s.runs /\ ciStored.account = s.account /\ ciStored.scanned = s.scanned
  /\ \/ ciStored.baseline = s.baseline /\ (ciStored.enabled <=> s.enabled)
     \/ ciStored.baseline = 0 /\ ~ciStored.enabled
TaskInv ==
  /\ Ticking => AtMostReset(ciMon.before) /\ ciMon.time > 0
  /\ ciMon.pc = "acksave" => AtMostReset(ciMon.state)
  /\ ciMon.pc = "idle" => ciMon = MonitorIdle
  /\ ciMon.pc = "scan" => ciMon.state = ciMon.before
RecordInv == TaskInv /\ Truthful(ciStored) /\ Truthful(ciMon.before) /\ Truthful(ciMon.state)

\* The scan sets a baseline: after a reset, or for another account.
Rebases == ~ciMon.before.enabled \/ ciMon.before.baseline = 0
           \/ ciMon.before.account # ciMon.account

LEMMA DefaultTruthful ==
  ASSUME CiShape
  PROVE  Truthful(CiDefault) /\ Truthful(MonitorIdle.before) /\ Truthful(MonitorIdle.state)
<1>1. \A r \in Runs : OldRun(Unseen, ciNative[r])
  <2>1. \A r \in Runs : ciNative[r].attempt \in Nat
    BY DEF CiShape, CiRow, RunRecord
  <2> QED  BY <2>1 DEF OldRun, Unseen, CiCompleted
<1>2. /\ \A r \in Runs : CiDefault.runs[r] = Unseen
      /\ CiDefault.enabled = FALSE /\ CiDefault.baseline = 0
  BY DEF CiDefault
<1>3. Unseen.status = "absent" /\ ~(0 > 0)
  BY DEF Unseen
<1>4. Truthful(CiDefault)
  BY <1>1, <1>2, <1>3 DEF Truthful, Tells
<1>5. MonitorIdle.before = CiDefault /\ MonitorIdle.state = CiDefault
  BY DEF MonitorIdle
<1> QED
  BY <1>4, <1>5

LEMMA TruthKept ==
  ASSUME NEW s, NEW t, Truthful(s), t.runs = s.runs, t.account = s.account,
         t.enabled <=> t.baseline > 0
  PROVE  Truthful(t)
BY DEF Truthful, Tells

LEMMA TruthOfReset ==
  ASSUME NEW s \in CiRecord, Truthful(s)
  PROVE  Truthful(CiReset(s))
<1>1. CiReset(s).runs = s.runs /\ CiReset(s).account = s.account
      /\ CiReset(s).baseline = 0 /\ ~CiReset(s).enabled
  BY ResetIs
<1>2. CiReset(s).enabled <=> CiReset(s).baseline > 0
  BY <1>1
<1> QED
  BY <1>1, <1>2, TruthKept

\* What the scan has read, run by run.
LEMMA ReadingIs ==
  ASSUME CiShape, RecordInv, ciMon.pc = "scan", NEW unread, NEW r \in Runs
  PROVE  LET read == Reading(unread)[r] IN
         \/ OwnerOf[r] # ciMon.account /\ read = Unseen
         \/ OwnerOf[r] = ciMon.account /\ r \notin unread /\ read = ciNative[r]
         \/ OwnerOf[r] = ciMon.account /\ r \in unread /\ read = Base.runs[r]
BY DEF Reading, ReadRuns

\* Nothing is carried over from the record of another account.
LEMMA BaseTruth ==
  ASSUME CiShape, RecordInv, ciMon.pc = "scan"
  PROVE  /\ Truthful(Base) /\ Base.account = ciMon.account
         /\ IF ciMon.before.account = ciMon.account THEN Base = ciMon.before
            ELSE ~Base.enabled /\ Base.baseline = 0 /\ Base.pending = {}
         /\ ((~Base.enabled \/ Base.baseline = 0) <=> Rebases)
<1>1. ciMon.before \in CiRecord /\ ciMon.account \in Accounts /\ ciMon.state = ciMon.before
      /\ Truthful(ciMon.before)
  BY DEF CiShape, CiTask, Ticking, RecordInv, TaskInv
<1>2. CASE ciMon.before.account = ciMon.account
  <2>1. Base = ciMon.before
    BY <1>1, <1>2 DEF Base, ForAccount
  <2> QED  BY <1>1, <1>2, <2>1 DEF Base, Rebases
<1>3. CASE ciMon.before.account # ciMon.account
  <2>1. /\ ~Base.enabled /\ Base.baseline = 0 /\ Base.pending = {}
        /\ Base.runs = [r \in Runs |-> Unseen] /\ Base.account = ciMon.account
    BY <1>1, <1>3, ForAccountIs DEF Base
  <2>2. \A r \in Runs : Base.runs[r] = CiDefault.runs[r] /\ Base.runs[r] = Unseen
    BY <2>1 DEF CiDefault
  <2>3. Truthful(Base)
    <3>1. \A r \in Runs : OldRun(Base.runs[r], ciNative[r])
      BY <2>2, DefaultTruthful DEF Truthful, Tells
    <3>2. \A r \in Runs : Base.runs[r].status = "absent"
      BY <2>2 DEF Unseen
    <3>3. Base.enabled <=> Base.baseline > 0
      BY <2>1
    <3> QED  BY <3>1, <3>2, <3>3 DEF Truthful, Tells
  <2> QED  BY <1>3, <2>1, <2>3 DEF Base, Rebases
<1> QED
  BY <1>2, <1>3

LEMMA ReadTruth ==
  ASSUME CiShape, RecordInv, ciMon.pc = "scan", NEW unread
  PROVE  Truthful(Read(unread))
<1>1. /\ Read(unread).account = ciMon.account /\ Read(unread).enabled
      /\ Read(unread).runs = Reading(unread)
      /\ Read(unread).baseline = IF Rebases THEN ciMon.time ELSE Base.baseline
  <2>1. /\ ciMon.account \in Accounts /\ Base \in CiRecord /\ ciMon.time \in 0..MaxNow + 1
        /\ Reading(unread) \in [Runs -> CiRow]
    BY BaseIs
  <2>2. /\ Read(unread).account = Base.account /\ Read(unread).enabled
        /\ Read(unread).runs = Reading(unread)
        /\ Read(unread).baseline = IF ~Base.enabled \/ Base.baseline = 0 THEN ciMon.time
                                   ELSE Base.baseline
    <3>1. Reconciled(Base, Reading(unread), ciMon.time, Read(unread))
      BY <2>1, ReconcileIs DEF Read
    <3> QED  BY <3>1 DEF Reconciled, NoBaseline
  <2> QED  BY <2>2, BaseTruth
<1>2. Read(unread).baseline > 0
  <2>1. Base.baseline \in Nat /\ ciMon.time > 0
    BY BaseIs DEF CiRecord, RecordInv, TaskInv, Ticking
  <2> QED  BY <1>1, <2>1, BaseTruth
<1>3. ASSUME NEW r \in Runs
      PROVE  /\ OldRun(Reading(unread)[r], ciNative[r])
             /\ Reading(unread)[r].status # "absent" => OwnerOf[r] = ciMon.account
  <2>1. ciNative[r].attempt \in Nat
    BY DEF CiShape, CiRow, RunRecord
  <2>2. OldRun(ciNative[r], ciNative[r])
    BY <2>1 DEF OldRun
  <2>3. OldRun(Unseen, ciNative[r]) /\ Unseen.status = "absent"
    BY DefaultTruthful DEF Truthful, Tells, CiDefault, Unseen
  <2>4. OldRun(Base.runs[r], ciNative[r])
    BY BaseTruth DEF Truthful, Tells
  <2> QED  BY <2>2, <2>3, <2>4, ReadingIs
<1> QED
  BY <1>1, <1>2, <1>3 DEF Truthful, Tells

LEMMA StillTrue ==
  ASSUME CiShape, RunMoves, NEW s \in CiRecord, Tells(s, ciNative)
  PROVE  Tells(s, ciNative')
<1>1. \A r \in Runs : s.runs[r] \in CiRow
  BY DEF CiRecord
<1>2. \A r \in Runs : OldRun(s.runs[r], ciNative'[r])
  BY <1>1, RunMovesIs DEF Tells
<1> QED
  BY <1>2 DEF Tells

LEMMA RecordTask ==
  ASSUME CiShape, RecordInv, [CiNext]_ciVars
  PROVE  TaskInv'
<1>0. /\ ciMon.time \in Nat /\ ciNow > 0 /\ ciStored \in CiRecord
      /\ MonitorIdle.pc = "idle" /\ TaskInv
  BY DEF CiShape, CiTask, MonitorIdle, RecordInv
<1>1. CASE UNCHANGED <<ciStored, ciMon>>
  BY <1>0, <1>1 DEF TaskInv, AtMostReset, Ticking
<1>2. CASE Settings
  <2>1. ciMon' = ciMon /\ (ciStored' = CiReset(ciStored) \/ ciStored' = ciStored)
    BY <1>2, SettingsIs
  <2>2. ASSUME NEW s, AtMostReset(s), ciStored' = CiReset(ciStored)
        PROVE  /\ ciStored'.runs = s.runs /\ ciStored'.account = s.account
               /\ ciStored'.scanned = s.scanned
               /\ ciStored'.baseline = 0 /\ ~ciStored'.enabled
    BY <1>0, <2>2, ResetIs DEF AtMostReset
  <2> QED  BY <1>0, <1>1, <2>1, <2>2 DEF TaskInv, AtMostReset, Ticking
<1>3. CASE TickStart
  <2>1. ciStored' = ciStored /\ Started
    BY <1>3, StartedIs DEF TickStart
  <2> QED  BY <1>0, <2>1 DEF Started, TaskInv, AtMostReset, Ticking
<1>4. CASE Scans
  <2>1. /\ ciStored' = ciStored /\ ciMon.pc = "scan" /\ ciMon'.pc = "check"
        /\ ciMon'.before = ciMon.before /\ ciMon'.time = ciMon.time
    BY <1>4, ScansIs DEF Looking, Scans
  <2> QED  BY <1>0, <2>1 DEF TaskInv, AtMostReset, Ticking
<1>5. CASE TickCheck
  <2>1. ciStored' = ciStored /\ ciMon.pc = "check"
    BY <1>5 DEF TickCheck
  <2>2. CASE ciMon' = MonitorIdle
    BY <1>0, <2>2 DEF TaskInv, Ticking
  <2>3. CASE ciMon' = [ciMon EXCEPT !.pc = "save"]
    <3>1. ciMon'.pc = "save" /\ ciMon'.before = ciMon.before /\ ciMon'.time = ciMon.time
      BY <2>3 DEF CiShape, CiTask
    <3> QED  BY <1>0, <2>1, <3>1 DEF TaskInv, AtMostReset, Ticking
  <2> QED  BY <1>5, <2>2, <2>3 DEF TickCheck
<1>6. CASE ciMon' = MonitorIdle
  BY <1>0, <1>6 DEF TaskInv, Ticking
<1>7. CASE ciMon'.pc = "deliver"
  BY <1>7 DEF TaskInv, Ticking
<1>8. CASE AckLoad
  <2>1. PICK state : Acknowledged(state) /\ Looking("acksave", state)
    BY <1>8, AcknowledgedIs
  <2>2. ciStored' = ciStored /\ ciMon'.pc = "acksave" /\ ciMon'.state = state
    BY <1>8, <2>1 DEF AckLoad, Looking
  <2> QED  BY <2>1, <2>2 DEF TaskInv, AtMostReset, Ticking, Acknowledged
<1>9. TickSave \/ Delivers => ciMon' = MonitorIdle \/ ciMon'.pc = "deliver"
  BY SavedIs, DeliversIs DEF Delivers, Delivering
<1>10. AckSave \/ MonitorDies => ciMon' = MonitorIdle
  BY DEF AckSave, MonitorDies
<1>11. RunMoves \/ (\E a \in Accounts : SwitchAccount(a)) \/ Watches \/ UNCHANGED ciVars
       => UNCHANGED <<ciStored, ciMon>>
  BY RunMovesIs, WatchesIs DEF SwitchAccount, ciVars
<1> QED
  BY <1>1, <1>2, <1>3, <1>4, <1>5, <1>6, <1>7, <1>8, <1>9, <1>10, <1>11, CiCases

\* Every task saves records that are true; a record is loaded, reset or scanned.
LEMMA RecordStep ==
  ASSUME CiShape, RecordInv, [CiNext]_ciVars
  PROVE  RecordInv'
<1> USE DEF Truthful
<1>0. /\ ciStored \in CiRecord /\ ciMon.before \in CiRecord /\ ciMon.state \in CiRecord
      /\ Tells(ciStored, ciNative) /\ Tells(ciMon.before, ciNative)
      /\ Tells(ciMon.state, ciNative)
      /\ Tells(MonitorIdle.before, ciNative) /\ Tells(MonitorIdle.state, ciNative)
  BY DefaultTruthful DEF CiShape, CiTask, RecordInv
<1> SUFFICES /\ Tells(ciStored', ciNative') /\ Tells(ciMon'.before, ciNative')
             /\ Tells(ciMon'.state, ciNative')
  BY RecordTask DEF RecordInv
<1>1. CASE UNCHANGED <<ciNative, ciStored, ciMon>>
  BY <1>0, <1>1
<1>2. CASE RunMoves
  BY <1>0, <1>2, StillTrue, RunMovesIs
<1>3. CASE Settings
  <2>1. /\ ciMon' = ciMon /\ ciNative' = ciNative
        /\ ciStored' = CiReset(ciStored) \/ ciStored' = ciStored
    BY <1>3, SettingsIs
  <2> QED  BY <1>0, <2>1, TruthOfReset
<1>4. CASE TickStart
  BY <1>0, <1>4, StartedIs DEF Started, TickStart, OtherThanMonitor
<1>5. CASE Scans
  <2>1. /\ ciStored' = ciStored /\ ciNative' = ciNative /\ ciMon.pc = "scan"
        /\ ciMon'.before = ciMon.before
        /\ \/ ciMon'.state = ciMon.state \/ ciMon'.state = Base
           \/ \E unread \in SUBSET Runs : ciMon'.state = Read(unread)
    BY <1>5, ScansIs DEF Looking, Scans, OtherThanMonitor
  <2>2. Tells(ciMon'.state, ciNative)
    BY <1>0, <2>1, BaseTruth, ReadTruth
  <2> QED  BY <1>0, <2>1, <2>2
<1>6. CASE TickCheck
  <2>1. UNCHANGED <<ciStored, ciNative>>
    BY <1>6 DEF TickCheck, OtherThanMonitor
  <2>2. CASE ciMon' = [ciMon EXCEPT !.pc = "save"]
    <3>1. ciMon'.before = ciMon.before /\ ciMon'.state = ciMon.state
      BY <2>2 DEF CiShape, CiTask
    <3> QED  BY <1>0, <2>1, <3>1
  <2> QED  BY <1>0, <1>6, <2>1, <2>2 DEF TickCheck
<1>7. CASE TickSave
  <2>1. Tells(ciStored', ciNative)
    BY <1>0, <1>7, SavedIs, TruthKept DEF Tells
  <2>2. ciNative' = ciNative /\ (ciMon' = MonitorIdle \/ Delivering)
    BY <1>7, SavedIs
  <2> QED  BY <1>0, <2>1, <2>2 DEF Delivering
<1>8. CASE Delivers
  BY <1>0, <1>8, DeliversIs DEF Delivers, Delivering, OtherThanMonitor
<1>9. CASE AckLoad
  <2>1. PICK state : Acknowledged(state) /\ Looking("acksave", state)
    BY <1>9, AcknowledgedIs
  <2>2. Tells(state, ciNative)
    BY <1>0, <2>1 DEF Acknowledged, Tells
  <2>3. UNCHANGED <<ciStored, ciNative>>
    BY <1>9 DEF AckLoad, OtherThanMonitor
  <2> QED  BY <1>0, <2>1, <2>2, <2>3 DEF Looking
<1>10. CASE AckSave
  BY <1>0, <1>10 DEF AckSave, OtherThanMonitor
<1>11. CASE MonitorDies
  BY <1>0, <1>11 DEF MonitorDies, OtherThanMonitor
<1>12. (\E a \in Accounts : SwitchAccount(a)) \/ Watches \/ UNCHANGED ciVars
       => UNCHANGED <<ciNative, ciStored, ciMon>>
  BY WatchesIs DEF SwitchAccount, ciVars
<1> QED
  BY <1>1, <1>2, <1>3, <1>4, <1>5, <1>6, <1>7, <1>8, <1>9, <1>10, <1>11, <1>12, CiCases

LEMMA RecordInit == CiInit => RecordInv
<1> SUFFICES ASSUME CiInit PROVE RecordInv
  OBVIOUS
<1>1. ciStored = CiDefault /\ ciMon = MonitorIdle /\ CiShape
  BY CiShapeInit DEF CiInit
<1>2. TaskInv
  BY <1>1 DEF TaskInv, Ticking, MonitorIdle
<1> QED
  BY <1>1, <1>2, DefaultTruthful DEF RecordInv

\* Baselines and the instants of ticks are past; a tick of this instant is of
\* the account gh is logged in with.
CiClockInv ==
  /\ ciStored.baseline <= ciNow /\ ciStored.baseline <= ciStored.scanned
  /\ ciMon.time <= ciNow
  /\ ciObserver.source[2] <= ciNow /\ ciObserver.source[2] <= ciObserver.since
  /\ Ticking => /\ ciMon.before.baseline <= ciMon.time
                /\ ciMon.before.baseline <= ciMon.before.scanned
                /\ (ciMon.time = ciNow => ciMon.account = ciAccount)
  /\ ciMon.pc \in {"check", "save"} => ciMon.state.baseline <= ciMon.time
  /\ ciMon.pc = "acksave" => /\ ciMon.state.baseline <= ciMon.state.scanned
                             /\ ciMon.state.baseline <= ciNow

LEMMA CiInstants ==
  ASSUME CiShape
  PROVE  /\ ciNow \in Nat /\ ciMon.time \in Nat /\ ciStored.baseline \in Nat
         /\ ciStored.scanned \in Nat /\ ciObserver.source[2] \in Nat /\ ciObserver.since \in Nat
         /\ ciMon.before.baseline \in Nat /\ ciMon.before.scanned \in Nat
         /\ ciMon.state.baseline \in Nat /\ ciMon.state.scanned \in Nat
<1>1. /\ ciStored \in CiRecord /\ ciMon.before \in CiRecord /\ ciMon.state \in CiRecord
      /\ ciObserver \in CiWatch /\ ciNow \in Nat /\ ciMon.time \in 0..MaxNow + 1
  BY DEF CiShape, CiTask
<1>2. \A s \in CiRecord : s.baseline \in Nat /\ s.scanned \in Nat
  BY DEF CiRecord
<1>3. ciObserver.source[2] \in Nat /\ ciObserver.since \in Nat
  BY <1>1 DEF CiWatch
<1> QED
  BY <1>1, <1>2, <1>3

\* A scan sets the baseline to its instant or leaves it as the record had it.
LEMMA ReadBaseline ==
  ASSUME CiShape, RecordInv, ciMon.pc = "scan", NEW unread
  PROVE  /\ Read(unread).account = ciMon.account /\ Read(unread).runs = Reading(unread)
         /\ IF Rebases THEN Read(unread).baseline = ciMon.time
            ELSE Read(unread).baseline = ciMon.before.baseline /\ Base = ciMon.before
<1>1. /\ ciMon.account \in Accounts /\ Base \in CiRecord /\ ciMon.time \in 0..MaxNow + 1
      /\ Reading(unread) \in [Runs -> CiRow]
  BY BaseIs
<1>2. /\ Read(unread).account = Base.account /\ Read(unread).runs = Reading(unread)
      /\ Read(unread).baseline = IF NoBaseline(Base) THEN ciMon.time ELSE Base.baseline
  <2>1. Reconciled(Base, Reading(unread), ciMon.time, Read(unread))
    BY <1>1, ReconcileIs DEF Read
  <2> QED  BY <2>1 DEF Reconciled
<1>3. NoBaseline(Base) <=> Rebases
  BY BaseTruth DEF NoBaseline
<1>4. ~Rebases => Base = ciMon.before
  BY BaseTruth DEF Rebases
<1> QED
  BY <1>2, <1>3, <1>4, BaseTruth

\* The states a scan ends with, when it read nothing or something.
LEMMA CiScanEnds ==
  ASSUME CiShape, RecordInv, Scans
  PROVE  /\ ciMon.pc = "scan" /\ ciMon'.pc = "check" /\ ciMon'.account = ciMon.account
         /\ ciMon'.time = ciMon.time /\ ciMon'.before = ciMon.before /\ ciMon'.todo = ciMon.todo
         /\ UNCHANGED <<OtherThanMonitor, ciStored, ciStaged, ciReported>>
         /\ ciMon.state = ciMon.before
         /\ \/ ciMon'.state = ciMon.before
            \/ ciMon'.state = Base /\ ~Base.enabled /\ Base.baseline = 0 /\ Base.pending = {}
            \/ \E unread \in SUBSET Runs :
                 ciMon'.state = Read(unread)
<1>1. ciMon.pc = "scan" /\ ciMon.state = ciMon.before
  BY ScansIs DEF Scans, RecordInv, TaskInv
<1>2. Base = ciMon.before \/ (~Base.enabled /\ Base.baseline = 0 /\ Base.pending = {})
  BY <1>1, BaseTruth
<1> QED
  BY <1>1, <1>2, ScansIs DEF Scans, Looking

LEMMA ClockStep ==
  ASSUME CiShape, RecordInv, CiClockInv, [CiNext]_ciVars
  PROVE  CiClockInv'
<1>0. CiShape' /\ MonitorIdle.pc = "idle" /\ MonitorIdle.time = 0
      /\ ObserverDefault.source[2] = 0 /\ ObserverDefault.since = 0
  BY CiStepTyped DEF MonitorIdle, ObserverDefault
<1>1. CASE ciNow <= ciNow' /\ UNCHANGED <<ciAccount, ciStored, ciMon, ciObserver>>
  BY <1>1, CiInstants, <1>0 DEF CiClockInv, Ticking, CiShape
<1>2. ASSUME NEW a \in Accounts, SwitchAccount(a) PROVE CiClockInv'
  <2>1. ciNow' = ciNow + 1 /\ UNCHANGED <<ciStored, ciMon, ciObserver>>
    BY <1>2 DEF SwitchAccount
  <2> QED  BY <2>1, CiInstants DEF CiClockInv, Ticking
<1>3. CASE Settings
  <2>1. ciNow <= ciNow' /\ UNCHANGED <<ciAccount, ciMon, ciObserver>>
        /\ (ciStored' = CiReset(ciStored) \/ ciStored' = ciStored)
    BY <1>3, SettingsIs, CiInstants
  <2>2. CASE ciStored' = CiReset(ciStored)
    <3>1. ciStored'.baseline = 0 /\ ciStored'.scanned = ciStored.scanned
      BY <2>2, ResetIs DEF CiShape
    <3>2. ciNow' \in Nat
      BY <1>0 DEF CiShape
    <3> QED  BY <2>1, <3>1, <3>2, CiInstants DEF CiClockInv, Ticking
  <2> QED  BY <1>1, <2>1, <2>2
<1>4. CASE TickStart
  <2>1. Started /\ UNCHANGED <<ciNow, ciAccount, ciStored, ciObserver>>
    BY <1>4, StartedIs DEF TickStart, OtherThanMonitor
  <2> QED  BY <2>1, CiInstants DEF Started, CiClockInv, Ticking
<1>5. CASE Scans
  <2>1. UNCHANGED <<ciNow, ciAccount, ciStored, ciObserver>> /\ ciMon.pc = "scan"
        /\ ciMon'.pc = "check" /\ ciMon'.account = ciMon.account
        /\ ciMon'.time = ciMon.time /\ ciMon'.before = ciMon.before
    BY <1>5, CiScanEnds DEF OtherThanMonitor
  <2>2. ciMon.before.baseline <= ciMon.time
    BY <2>1 DEF CiClockInv, Ticking
  <2>3. ciMon'.state.baseline <= ciMon.time
    <3>1. \/ ciMon'.state.baseline = ciMon.before.baseline \/ ciMon'.state.baseline = 0
          \/ ciMon'.state.baseline = ciMon.time
      BY <1>5, CiScanEnds, ReadBaseline
    <3> QED  BY <2>2, <3>1, CiInstants
  <2> QED  BY <2>1, <2>3 DEF CiClockInv, Ticking
<1>6. CASE TickCheck
  <2>1. UNCHANGED <<ciNow, ciAccount, ciStored, ciObserver>> /\ ciMon.pc = "check"
    BY <1>6 DEF TickCheck, OtherThanMonitor
  <2>2. CASE ciMon' = MonitorIdle
    BY <1>0, <2>1, <2>2, CiInstants DEF CiClockInv, Ticking
  <2>3. CASE ciMon' = [ciMon EXCEPT !.pc = "save"]
    <3>1. ciMon'.pc = "save" /\ ciMon'.before = ciMon.before /\ ciMon'.time = ciMon.time
          /\ ciMon'.account = ciMon.account /\ ciMon'.state = ciMon.state
      BY <2>3 DEF CiShape, CiTask
    <3> QED  BY <2>1, <3>1 DEF CiClockInv, Ticking
  <2> QED  BY <1>6, <2>2, <2>3 DEF TickCheck
<1>7. CASE TickSave
  <2>1. /\ ciMon.pc = "save" /\ ciNow' = ciNow
        /\ ciStored' = ciStored
           \/ (ciStored'.baseline = ciMon.state.baseline /\ ciStored'.scanned = ciMon.time)
        /\ ciObserver'.source = ciObserver.source /\ ciObserver'.since = ciObserver.since
        /\ (ciMon' = MonitorIdle \/ (ciMon'.pc = "deliver" /\ ciMon'.time = ciMon.time))
    BY <1>7, SavedIs DEF Delivering
  <2>2. ciStored'.baseline <= ciNow /\ ciStored'.baseline <= ciStored'.scanned
    BY <2>1, CiInstants DEF CiClockInv
  <2> QED  BY <1>0, <2>1, <2>2, CiInstants DEF CiClockInv, Ticking
<1>8. CASE Delivers
  <2>1. /\ UNCHANGED <<ciNow, ciStored, ciObserver>>
        /\ (ciMon' = MonitorIdle \/ (ciMon'.pc = "deliver" /\ ciMon'.time = ciMon.time))
    BY <1>8, DeliversIs DEF Delivering, Delivers, OtherThanMonitor
  <2> QED  BY <1>0, <2>1, CiInstants DEF CiClockInv, Ticking
<1>9. CASE AckLoad
  <2>1. PICK state : Acknowledged(state) /\ Looking("acksave", state)
    BY <1>9, AcknowledgedIs
  <2>2. UNCHANGED <<ciNow, ciStored, ciObserver>>
    BY <1>9 DEF AckLoad, OtherThanMonitor
  <2> QED  BY <2>1, <2>2, CiInstants DEF CiClockInv, Ticking, Acknowledged, Looking
<1>10. CASE AckSave
  <2>1. UNCHANGED <<ciNow, ciObserver>> /\ ciStored' = ciMon.state /\ ciMon' = MonitorIdle
        /\ ciMon.pc = "acksave"
    BY <1>10 DEF AckSave, OtherThanMonitor
  <2> QED  BY <1>0, <2>1, CiInstants DEF CiClockInv, Ticking
<1>11. CASE MonitorDies
  <2>1. UNCHANGED <<ciNow, ciStored, ciObserver>> /\ ciMon' = MonitorIdle
    BY <1>11 DEF MonitorDies, OtherThanMonitor
  <2> QED  BY <1>0, <2>1, CiInstants DEF CiClockInv, Ticking
<1>12. CASE Watches
  <2>1. /\ UNCHANGED <<ciNow, ciAccount, ciStored, ciMon>>
        /\ \/ ciObserver' = ObserverDefault
           \/ /\ ciObserver'.source = <<ciStored.account, ciStored.baseline>>
              /\ ciObserver'.since = IF SourceChanged THEN ciStored.scanned ELSE ciObserver.since
    BY <1>12, WatchesIs
  <2>2. ciObserver'.source[2] <= ciNow /\ ciObserver'.source[2] <= ciObserver'.since
    <3>1. CASE ciObserver' = ObserverDefault
      BY <1>0, <3>1, CiInstants
    <3>2. CASE /\ ciObserver'.source = <<ciStored.account, ciStored.baseline>>
               /\ ciObserver'.since = IF SourceChanged THEN ciStored.scanned ELSE ciObserver.since
      BY <3>2 DEF CiClockInv, SourceChanged
    <3> QED  BY <2>1, <3>1, <3>2
  <2> QED  BY <2>1, <2>2 DEF CiClockInv, Ticking
<1>13. RunMoves \/ UNCHANGED ciVars
       => ciNow <= ciNow' /\ UNCHANGED <<ciAccount, ciStored, ciMon, ciObserver>>
  BY RunMovesIs, CiInstants DEF ciVars
<1> QED
  BY <1>1, <1>2, <1>3, <1>4, <1>5, <1>6, <1>7, <1>8, <1>9, <1>10, <1>11, <1>12, <1>13, CiCases

LEMMA ClockInit == CiInit => CiClockInv
<1>1. /\ MonitorIdle.pc = "idle" /\ MonitorIdle.time = 0 /\ CiDefault.baseline = 0
      /\ CiDefault.scanned = 0 /\ ObserverDefault.source[2] = 0 /\ ObserverDefault.since = 0
  BY DEF MonitorIdle, ObserverDefault, CiDefault
<1> QED
  BY <1>1 DEF CiInit, CiClockInv, Ticking

(***************************************************************************)
(* What the App shows                                                      *)
(***************************************************************************)
\* The App, which follows the record s, has seen or was told of what the record
\* has as finished; what was never reported it will not take for news.
Follows(o, reported, s) ==
  o.source = <<s.account, s.baseline>> /\ s.baseline > 0 =>
    \A r \in Runs :
      /\ o.runs[r].status # "absent" => s.runs[r].status # "absent"
      /\ s.runs[r].status = "done" /\ <<r, s.runs[r].attempt>> \notin reported =>
           \/ o.runs[r].status = "absent" /\ s.runs[r].at <= o.since
           \/ o.runs[r].status = "done" /\ o.runs[r].attempt = s.runs[r].attempt
Seen(s) == Follows(ciObserver, ciReported, s)

\* What a run of the scanned record was in the record before.
JudgedBy(before, state, r) ==
  /\ before.runs[r].status # "absent" => state.runs[r].status # "absent"
  /\ state.runs[r].status = "done" =>
       \/ \E e \in state.pending : e.run = r /\ e.attempt = state.runs[r].attempt
       \/ before.runs[r].status = "absent" /\ state.runs[r].at <= before.baseline
       \/ before.runs[r] = state.runs[r]
\* The scan reset the record, set a baseline, or judged every run by the last.
Grew ==
  \/ Rebases /\ ciMon.state.baseline = 0
  \/ Rebases /\ ciMon.state.baseline = ciMon.time /\ ciMon.state.account = ciMon.account
  \/ /\ ciMon.state.account = ciMon.before.account
     /\ ciMon.state.baseline = ciMon.before.baseline
     /\ \A r \in Runs : JudgedBy(ciMon.before, ciMon.state, r)

ShownInv ==
  /\ Seen(ciStored)
  /\ Ticking => Seen(ciMon.before)
  /\ ciMon.pc = "acksave" => Seen(ciMon.state)
  /\ ciMon.pc \in {"check", "save"} => Grew
  /\ Ticking /\ Rebases => ciObserver.source # <<ciMon.account, ciMon.time>>
  /\ ciObserver.source = <<ciAccount, ciNow>> =>
       ciOn /\ ciStored.enabled /\ ciStored.account = ciAccount /\ ciStored.baseline = ciNow
  /\ ShownWasReported

LEMMA FollowsMore ==
  ASSUME NEW o, NEW reported, NEW more, NEW s, reported \subseteq more, Follows(o, reported, s)
  PROVE  Follows(o, more, s)
BY DEF Follows

LEMMA FollowsSame ==
  ASSUME NEW o, NEW reported, NEW s, NEW t, Follows(o, reported, s),
         t.account = s.account, t.baseline = s.baseline, t.runs = s.runs
  PROVE  Follows(o, reported, t)
BY DEF Follows

LEMMA JudgedOfRead ==
  ASSUME CiShape, RecordInv, ciMon.pc = "scan", ~Rebases, NEW unread, NEW r \in Runs
  PROVE  JudgedBy(ciMon.before, Read(unread), r)
<1> DEFINE old == ciMon.before.runs[r]
           read == Reading(unread)[r]
           native == ciNative[r]
<1>1. /\ old \in CiRow /\ native \in CiRow
      /\ OldRun(old, native) /\ (old.status # "absent" => OwnerOf[r] = ciMon.account)
  BY DEF CiShape, CiTask, CiRecord, RecordInv, Truthful, Tells, Rebases
<1>2. \/ OwnerOf[r] # ciMon.account /\ read = Unseen
      \/ OwnerOf[r] = ciMon.account /\ read = native
      \/ read = old
  BY ReadingIs, ReadBaseline
<1>3. Read(unread).runs[r] = read
  BY ReadBaseline
<1>4. NewlyFinished(ciMon.before, Reading(unread), r) =>
        \E e \in Read(unread).pending : e.run = r /\ e.attempt = read.attempt
  <2>1. /\ ciMon.account \in Accounts /\ Base \in CiRecord /\ ciMon.time \in 0..MaxNow + 1
        /\ Reading(unread) \in [Runs -> CiRow]
    BY BaseIs
  <2>2. ~NoBaseline(Base) /\ Base = ciMon.before
    BY BaseTruth, ReadBaseline DEF NoBaseline
  <2>3. Reconciled(Base, Reading(unread), ciMon.time, Read(unread))
    BY <2>1, ReconcileIs DEF Read
  <2>4. \A q \in Runs : NewlyFinished(ciMon.before, Reading(unread), q) =>
          \E e \in Read(unread).pending : e.run = q /\ e.attempt = Reading(unread)[q].attempt
    BY <2>2, <2>3 DEF Reconciled
  <2> QED  BY <2>4
<1>5. NewlyFinished(ciMon.before, Reading(unread), r) <=>
        /\ read.status = "done"
        /\ IF old.status = "absent" THEN read.at > ciMon.before.baseline
           ELSE old.attempt # read.attempt \/ old.status \notin CiCompleted
  BY DEF NewlyFinished, Notifiable
<1>6. Unseen.status = "absent"
  BY DEF Unseen
<1>7. read \in CiRow /\ read.at \in Nat /\ ciMon.before.baseline \in Nat
  BY BaseIs, CiInstants DEF CiRow, RunRecord
<1> HIDE DEF old, read, native
<1>8. old.status # "absent" => read.status # "absent"
  <2>1. old.attempt \in Nat /\ native.attempt \in Nat
    BY <1>1 DEF CiRow, RunRecord
  <2> QED  BY <1>1, <1>2, <2>1 DEF CiRow, OldRun
<1>9. ASSUME read.status = "done", old.status \in CiCompleted, old.attempt = read.attempt,
             old.status # "absent"
      PROVE  old = read
  <2>1. CASE read = native
    <3>1. native.status = old.status /\ native.at = old.at /\ native.attempt = old.attempt
      BY <1>1, <1>9, <2>1 DEF OldRun
    <3> QED  BY <1>1, <2>1, <3>1 DEF CiRow, RunRecord
  <2> QED  BY <1>1, <1>2, <1>6, <1>9, <2>1
<1>10. read.status = "done" =>
         \/ \E e \in Read(unread).pending : e.run = r /\ e.attempt = read.attempt
         \/ old.status = "absent" /\ read.at <= ciMon.before.baseline
         \/ old = read
  BY <1>4, <1>5, <1>7, <1>9
<1> QED
  BY <1>3, <1>8, <1>10 DEF JudgedBy, old, read

LEMMA ScanGrows ==
  ASSUME CiShape, RecordInv, Scans
  PROVE  Grew'
<1>1. /\ ciMon.pc = "scan" /\ ciMon'.account = ciMon.account /\ ciMon'.time = ciMon.time
      /\ ciMon'.before = ciMon.before
  BY CiScanEnds
<1>2. Rebases' <=> Rebases
  BY <1>1 DEF Rebases
<1>3. CASE ciMon'.state = ciMon.before
  BY <1>1, <1>3 DEF Grew, JudgedBy
<1>4. CASE ciMon'.state = Base /\ ~Base.enabled /\ Base.baseline = 0
  BY <1>1, <1>2, <1>4, BaseTruth DEF Grew
<1>5. ASSUME NEW unread \in SUBSET Runs, ciMon'.state = Read(unread) PROVE Grew'
  <2>1. CASE Rebases
    BY <1>1, <1>2, <1>5, <2>1, ReadBaseline DEF Grew
  <2>2. CASE ~Rebases
    <3>1. \A r \in Runs : JudgedBy(ciMon.before, ciMon'.state, r)
      BY <1>1, <1>5, <2>2, JudgedOfRead
    <3>2. /\ ciMon'.state.account = ciMon.before.account
          /\ ciMon'.state.baseline = ciMon.before.baseline
      BY <1>1, <1>5, <2>2, ReadBaseline DEF Rebases
    <3> QED  BY <1>1, <3>1, <3>2 DEF Grew
  <2> QED  BY <2>1, <2>2
<1> QED
  BY <1>3, <1>4, <1>5, CiScanEnds

\* The App has seen or was told of all a saved scan newly finds finished.
LEMMA SavedIsSeen ==
  ASSUME CiShape, RecordInv, CiClockInv, ShownInv, TickSave, NEW s,
         s.account = ciMon.state.account, s.baseline = ciMon.state.baseline,
         s.runs = ciMon.state.runs
  PROVE  Follows(ciObserver, ciReported', s)
<1> SUFFICES ASSUME ciObserver.source = <<s.account, s.baseline>>, s.baseline > 0, NEW r \in Runs
             PROVE  /\ ciObserver.runs[r].status # "absent" => s.runs[r].status # "absent"
                    /\ s.runs[r].status = "done" /\ <<r, s.runs[r].attempt>> \notin ciReported' =>
                         \/ ciObserver.runs[r].status = "absent" /\ s.runs[r].at <= ciObserver.since
                         \/ /\ ciObserver.runs[r].status = "done"
                            /\ ciObserver.runs[r].attempt = s.runs[r].attempt
  BY DEF Follows
<1>1. /\ ciMon.pc = "save" /\ Ticking
      /\ ciReported' = ciReported \cup {<<e.run, e.attempt>> : e \in ciMon.state.pending}
  BY SavedIs DEF Ticking
<1>2. ~(Rebases /\ ciMon.state.baseline = ciMon.time /\ ciMon.state.account = ciMon.account)
  BY <1>1 DEF ShownInv
<1>3. /\ ciMon.state.account = ciMon.before.account
      /\ ciMon.state.baseline = ciMon.before.baseline /\ JudgedBy(ciMon.before, ciMon.state, r)
  BY <1>1, <1>2 DEF ShownInv, Grew
<1>4. /\ ciObserver.runs[r].status # "absent" => ciMon.before.runs[r].status # "absent"
      /\ (/\ ciMon.before.runs[r].status = "done"
          /\ <<r, ciMon.before.runs[r].attempt>> \notin ciReported) =>
           \/ ciObserver.runs[r].status = "absent" /\ ciMon.before.runs[r].at <= ciObserver.since
           \/ /\ ciObserver.runs[r].status = "done"
              /\ ciObserver.runs[r].attempt = ciMon.before.runs[r].attempt
  <2>1. Follows(ciObserver, ciReported, ciMon.before)
    BY <1>1 DEF ShownInv, Seen
  <2>2. /\ ciObserver.source = <<ciMon.before.account, ciMon.before.baseline>>
        /\ ciMon.before.baseline > 0
    BY <1>3
  <2> QED  BY <2>1, <2>2 DEF Follows
<1>5. ciMon.before.baseline <= ciObserver.since
  BY <1>3 DEF CiClockInv
<1>6. ciMon.state.runs[r].at \in Nat
  BY DEF CiShape, CiTask, CiRecord, CiRow, RunRecord
<1> QED
  BY <1>1, <1>3, <1>4, <1>5, <1>6, CiInstants DEF JudgedBy

LEMMA ShownByWatch ==
  ASSUME CiShape, RecordInv, CiClockInv, ShownInv, Watches
  PROVE  ShownInv'
<1>1. /\ UNCHANGED <<ciNow, ciOn, ciAccount, ciNative, ciStored, ciMon, ciReported>>
      /\ \/ ciObserver' = ObserverDefault /\ ciShown' = ciShown
         \/ /\ ciOn /\ ciStored.enabled /\ ciStored.baseline > 0
            /\ ciObserver'.source = <<ciStored.account, ciStored.baseline>>
            /\ ciObserver'.runs = ciStored.runs
            /\ ciShown' = IF SourceChanged THEN ciShown
                  ELSE ciShown \cup {<<r, ciStored.runs[r].attempt>> : r \in ObserverNews}
  BY WatchesIs
<1>2. (Ticking' <=> Ticking) /\ (Rebases' <=> Rebases) /\ (Grew' <=> Grew)
  BY <1>1 DEF Ticking, Rebases, Grew
<1>3. Ticking => ciMon.time > 0
  BY DEF RecordInv, TaskInv
<1>4. CASE ciObserver' = ObserverDefault /\ ciShown' = ciShown
  <2>1. ObserverDefault.source = <<NoAccount, 0>> /\ ciNow > 0
    BY DEF ObserverDefault, CiShape
  <2>2. \A reported, s : Follows(ObserverDefault, reported, s)
    BY <2>1 DEF Follows
  <2>3. ShownWasReported'
    BY <1>1, <1>4 DEF ShownInv, ShownWasReported
  <2> QED  BY <1>1, <1>2, <1>3, <1>4, <2>1, <2>2, <2>3 DEF ShownInv, Seen
<1>5. CASE /\ ciOn /\ ciStored.enabled /\ ciStored.baseline > 0
           /\ ciObserver'.source = <<ciStored.account, ciStored.baseline>>
           /\ ciObserver'.runs = ciStored.runs
           /\ ciShown' = IF SourceChanged THEN ciShown
                  ELSE ciShown \cup {<<r, ciStored.runs[r].attempt>> : r \in ObserverNews}
  <2>1. \A s : s.runs = ciStored.runs => Follows(ciObserver', ciReported, s)
    BY <1>5 DEF Follows
  <2>2. /\ Ticking => /\ ciMon.before.runs = ciStored.runs
                      /\ ciMon.before.account = ciStored.account
                      /\ ciMon.before.baseline = ciStored.baseline /\ ciMon.before.enabled
        /\ ciMon.pc = "acksave" => ciMon.state.runs = ciStored.runs
    BY <1>5 DEF RecordInv, TaskInv, AtMostReset
  <2>3. Ticking /\ Rebases => ciObserver'.source # <<ciMon.account, ciMon.time>>
    BY <1>5, <2>2 DEF Rebases
  <2>4. ShownWasReported'
    <3>1. ASSUME ~SourceChanged, NEW r \in ObserverNews
          PROVE  <<r, ciStored.runs[r].attempt>> \in ciReported
      <4>1. /\ r \in Runs /\ ciStored.runs[r].status = "done"
            /\ IF ciObserver.runs[r].status = "absent"
               THEN ciStored.runs[r].at > ciObserver.since
               ELSE \/ ciObserver.runs[r].attempt # ciStored.runs[r].attempt
                    \/ ciObserver.runs[r].status # "done"
        BY DEF ObserverNews, Notifiable
      <4>2. ciObserver.source = <<ciStored.account, ciStored.baseline>>
        BY <3>1 DEF SourceChanged
      <4>3. \/ <<r, ciStored.runs[r].attempt>> \in ciReported
            \/ ciObserver.runs[r].status = "absent" /\ ciStored.runs[r].at <= ciObserver.since
            \/ /\ ciObserver.runs[r].status = "done"
               /\ ciObserver.runs[r].attempt = ciStored.runs[r].attempt
        BY <1>5, <4>1, <4>2 DEF ShownInv, Seen, Follows
      <4>4. ciStored.runs[r].at \in Nat
        BY <4>1 DEF CiShape, CiRecord, CiRow, RunRecord
      <4> QED  BY <4>1, <4>3, <4>4, CiInstants
    <3> QED  BY <1>1, <1>5, <3>1 DEF ShownInv, ShownWasReported
  <2> QED  BY <1>1, <1>2, <1>5, <2>1, <2>2, <2>3, <2>4 DEF ShownInv, Seen
<1> QED
  BY <1>1, <1>4, <1>5

\* Settings and other tasks leave the App, which follows the record as reset.
LEMMA ShownByRest ==
  ASSUME CiShape, RecordInv, CiClockInv, ShownInv, ciReported' = ciReported,
         UNCHANGED <<ciMon, ciObserver, ciShown>>,
         ciStored' = ciStored \/ ciStored' = CiReset(ciStored),
         \/ UNCHANGED <<ciNow, ciOn, ciAccount, ciStored>>
         \/ ciNow < ciNow'
         \/ ~ciOn /\ UNCHANGED <<ciNow, ciAccount>>
  PROVE  ShownInv'
<1>1. (Ticking' <=> Ticking) /\ (Rebases' <=> Rebases) /\ (Grew' <=> Grew)
  BY DEF Ticking, Rebases, Grew
<1>2. Seen(ciStored)'
  <2>1. CASE ciStored' = CiReset(ciStored)
    <3>1. ~(ciStored'.baseline > 0)
      BY <2>1, ResetIs DEF CiShape
    <3> QED  BY <3>1 DEF Seen, Follows
  <2>2. CASE ciStored' = ciStored
    BY <2>2 DEF ShownInv, Seen
  <2> QED  BY <2>1, <2>2
<1>3. ShownWasReported' /\ (Ticking => Seen(ciMon.before)')
      /\ (ciMon.pc = "acksave" => Seen(ciMon.state)')
  BY DEF ShownInv, ShownWasReported, Seen
<1>4. ciNow < ciNow' => ciObserver.source # <<ciAccount', ciNow'>>
  <2>1. ASSUME ciNow < ciNow', ciObserver.source = <<ciAccount', ciNow'>> PROVE FALSE
    <3>1. ciObserver.source[2] = ciNow'
      BY <2>1
    <3> QED  BY <2>1, <3>1, CiInstants DEF CiClockInv
  <2> QED  BY <2>1
<1> QED
  BY <1>1, <1>2, <1>3, <1>4 DEF ShownInv

\* A tick that saves what it found of this very instant was already followed.
LEMMA SavedInstant ==
  ASSUME CiShape, RecordInv, CiClockInv, ShownInv, TickSave,
         ciObserver.source = <<ciAccount, ciNow>>
  PROVE  /\ ciOn /\ ciMon.state.enabled /\ ciMon.state.account = ciAccount
         /\ ciMon.state.baseline = ciNow
<1>1. ciOn /\ ciStored.enabled /\ ciStored.account = ciAccount /\ ciStored.baseline = ciNow
  BY DEF ShownInv
<1>2. ciMon.pc = "save" /\ Ticking /\ ciNow > 0
  BY DEF TickSave, Ticking, CiShape
<1>3. ciMon.before.baseline = ciNow /\ ciMon.before.account = ciAccount
  BY <1>1, <1>2 DEF RecordInv, TaskInv, AtMostReset
<1>4. ciMon.time = ciNow /\ ciMon.account = ciAccount
  BY <1>2, <1>3, CiInstants DEF CiClockInv
<1>5. ~Rebases
  BY <1>2, <1>4 DEF ShownInv
<1>6. ciMon.state.account = ciAccount /\ ciMon.state.baseline = ciNow
  BY <1>2, <1>3, <1>5 DEF ShownInv, Grew
<1>7. ciMon.state.enabled
  BY <1>2, <1>6 DEF RecordInv, Truthful, Tells
<1> QED
  BY <1>1, <1>6, <1>7

LEMMA ShownStep ==
  ASSUME CiShape, RecordInv, CiClockInv, ShownInv, [CiNext]_ciVars
  PROVE  ShownInv'
<1>0. MonitorIdle.pc = "idle"
  BY DEF MonitorIdle
<1>1. CASE RunMoves \/ Settings \/ UNCHANGED ciVars \/ \E a \in Accounts : SwitchAccount(a)
  <2>1. CASE RunMoves
    <3>1. UNCHANGED <<ciOn, ciAccount, ciStored, ciMon, ciObserver, ciReported, ciShown>>
          /\ ciNow <= ciNow' /\ ciNow' \in Nat
      BY <2>1, RunMovesIs
    <3>2. ciNow' = ciNow \/ ciNow < ciNow'
      BY <3>1, CiInstants
    <3> QED  BY <3>1, <3>2, ShownByRest
  <2>2. CASE Settings
    <3>1. /\ UNCHANGED <<ciAccount, ciMon, ciObserver, ciReported, ciShown>>
          /\ ciStored' = ciStored \/ ciStored' = CiReset(ciStored)
          /\ ciNow < ciNow' \/ (~ciOn /\ ciNow' = ciNow)
      BY <2>2, SettingsIs, CiInstants
    <3> QED  BY <3>1, ShownByRest
  <2>3. ASSUME NEW a \in Accounts, SwitchAccount(a) PROVE ShownInv'
    <3>1. UNCHANGED <<ciStored, ciMon, ciObserver, ciReported, ciShown>> /\ ciNow < ciNow'
      BY <2>3, CiInstants DEF SwitchAccount
    <3> QED  BY <3>1, ShownByRest
  <2>4. CASE UNCHANGED ciVars
    BY <2>4, ShownByRest DEF ciVars
  <2> QED  BY <1>1, <2>1, <2>2, <2>3, <2>4
<1>2. CASE TickStart
  <2>1. Started /\ UNCHANGED <<ciNow, ciOn, ciAccount, ciStored, ciObserver, ciReported, ciShown>>
    BY <1>2, StartedIs DEF TickStart, OtherThanMonitor
  <2>2. Rebases' => ciObserver.source # <<ciAccount, ciNow>>
    <3>1. ciNow > 0
      BY DEF CiShape
    <3> QED  BY <2>1, <3>1 DEF Started, Rebases, ShownInv
  <2> QED  BY <2>1, <2>2 DEF Started, ShownInv, ShownWasReported, Seen, Ticking
<1>3. CASE Scans
  <2>1. /\ ciMon.pc = "scan" /\ ciMon'.pc = "check" /\ ciMon'.account = ciMon.account
        /\ ciMon'.time = ciMon.time /\ ciMon'.before = ciMon.before
        /\ UNCHANGED <<ciNow, ciOn, ciAccount, ciStored, ciObserver, ciReported, ciShown>>
    BY <1>3, CiScanEnds DEF OtherThanMonitor
  <2>2. Rebases' <=> Rebases
    BY <2>1 DEF Rebases
  <2>3. Grew'
    BY <1>3, ScanGrows
  <2> QED  BY <2>1, <2>2, <2>3 DEF ShownInv, ShownWasReported, Seen, Ticking
<1>4. CASE TickCheck
  <2>1. UNCHANGED <<ciNow, ciOn, ciAccount, ciStored, ciObserver, ciReported, ciShown>>
        /\ ciMon.pc = "check"
    BY <1>4 DEF TickCheck, OtherThanMonitor
  <2>2. CASE ciMon' = MonitorIdle
    BY <1>0, <2>1, <2>2 DEF ShownInv, ShownWasReported, Seen, Ticking
  <2>3. CASE ciMon' = [ciMon EXCEPT !.pc = "save"]
    <3>1. ciMon'.pc = "save" /\ ciMon'.before = ciMon.before /\ ciMon'.time = ciMon.time
          /\ ciMon'.account = ciMon.account /\ ciMon'.state = ciMon.state
      BY <2>3 DEF CiShape, CiTask
    <3>2. (Rebases' <=> Rebases) /\ (Grew' <=> Grew)
      BY <3>1 DEF Rebases, Grew
    <3> QED  BY <2>1, <3>1, <3>2 DEF ShownInv, ShownWasReported, Seen, Ticking
  <2> QED  BY <1>4, <2>2, <2>3 DEF TickCheck
<1>5. CASE TickSave
  <2>1. /\ UNCHANGED <<ciNow, ciOn, ciAccount, ciShown>> /\ ciReported \subseteq ciReported'
        /\ ciObserver'.source = ciObserver.source /\ ciObserver'.since = ciObserver.since
        /\ ciObserver'.runs = ciObserver.runs
        /\ (ciMon' = MonitorIdle \/ ciMon'.pc = "deliver")
        /\ \/ ciStored' = ciStored
           \/ /\ ciStored'.account = ciMon.state.account /\ ciStored'.runs = ciMon.state.runs
              /\ ciStored'.baseline = ciMon.state.baseline
              /\ (ciStored'.enabled <=> ciMon.state.enabled)
    BY <1>5, SavedIs DEF Delivering
  <2>2. Follows(ciObserver, ciReported', ciStored')
    <3>1. CASE ciStored' = ciStored
      BY <2>1, <3>1, FollowsMore DEF ShownInv, Seen
    <3>2. CASE /\ ciStored'.account = ciMon.state.account /\ ciStored'.runs = ciMon.state.runs
               /\ ciStored'.baseline = ciMon.state.baseline
      <4>1. Follows(ciObserver, ciReported', ciMon.state)
        BY <1>5, SavedIsSeen
      <4> QED  BY <3>2, <4>1 DEF Follows
    <3> QED  BY <2>1, <3>1, <3>2
  <2>3. Seen(ciStored)'
    BY <2>1, <2>2 DEF Seen, Follows
  <2>4. ciObserver.source = <<ciAccount, ciNow>> =>
          ciOn /\ ciStored'.enabled /\ ciStored'.account = ciAccount /\ ciStored'.baseline = ciNow
    BY <1>5, <2>1, SavedInstant DEF ShownInv
  <2> QED  BY <1>0, <2>1, <2>3, <2>4 DEF ShownInv, ShownWasReported, Ticking
<1>6. CASE Delivers
  <2>1. UNCHANGED <<ciNow, ciOn, ciAccount, ciStored, ciObserver, ciReported, ciShown>>
        /\ (ciMon' = MonitorIdle \/ ciMon'.pc = "deliver")
    BY <1>6, DeliversIs DEF Delivers, Delivering, OtherThanMonitor
  <2> QED  BY <1>0, <2>1 DEF ShownInv, ShownWasReported, Seen, Ticking
<1>7. CASE AckLoad
  <2>1. PICK state : Acknowledged(state) /\ Looking("acksave", state)
    BY <1>7, AcknowledgedIs
  <2>2. UNCHANGED <<ciNow, ciOn, ciAccount, ciStored, ciObserver, ciReported, ciShown>>
        /\ ciMon'.pc = "acksave" /\ ciMon'.state = state
    BY <1>7, <2>1 DEF AckLoad, Looking, OtherThanMonitor
  <2>3. Seen(state)
    BY <2>1, FollowsSame DEF ShownInv, Seen, Acknowledged
  <2> QED  BY <2>2, <2>3 DEF ShownInv, ShownWasReported, Seen, Ticking
<1>8. CASE AckSave
  <2>1. UNCHANGED <<ciNow, ciOn, ciAccount, ciObserver, ciReported, ciShown>>
        /\ ciMon' = MonitorIdle /\ ciStored' = ciMon.state /\ ciMon.pc = "acksave" /\ ciNow > 0
    BY <1>8 DEF AckSave, OtherThanMonitor, CiShape
  <2>2. ciStored.baseline = ciNow /\ ciStored.enabled =>
          /\ ciMon.state.baseline = ciNow /\ ciMon.state.enabled
          /\ ciMon.state.account = ciStored.account
    BY <2>1 DEF RecordInv, TaskInv, AtMostReset
  <2> QED  BY <1>0, <2>1, <2>2 DEF ShownInv, ShownWasReported, Seen, Ticking
<1>9. CASE MonitorDies
  <2>1. UNCHANGED <<ciNow, ciOn, ciAccount, ciStored, ciObserver, ciReported, ciShown>>
        /\ ciMon' = MonitorIdle
    BY <1>9 DEF MonitorDies, OtherThanMonitor
  <2> QED  BY <1>0, <2>1 DEF ShownInv, ShownWasReported, Seen, Ticking
<1>10. CASE Watches
  BY <1>10, ShownByWatch
<1> QED
  BY <1>1, <1>2, <1>3, <1>4, <1>5, <1>6, <1>7, <1>8, <1>9, <1>10, CiCases

LEMMA ShownInit == CiInit => ShownInv
<1>1. /\ CiDefault.baseline = 0 /\ MonitorIdle.pc = "idle"
      /\ ObserverDefault.source = <<NoAccount, 0>>
  BY DEF CiDefault, MonitorIdle, ObserverDefault
<1> QED
  BY <1>1 DEF CiInit, ShownInv, Seen, Follows, Ticking, ShownWasReported

\* The App shows nothing the monitor did not report, whatever is lost, fails,
\* is switched or dies: it follows the record a scan has been judged against.
THEOREM AppShowsReported == CiSpec => []ShownWasReported
<1> DEFINE Inv == CiShape /\ RecordInv /\ CiClockInv /\ ShownInv
<1>1. CiInit => Inv
  BY CiShapeInit, RecordInit, ClockInit, ShownInit
<1>2. Inv /\ [CiNext]_ciVars => Inv'
  BY CiStepTyped, RecordStep, ClockStep, ShownStep
<1>3. Inv => ShownWasReported
  BY DEF ShownInv
<1> QED
  BY <1>1, <1>2, <1>3, PTL DEF CiSpec

(***************************************************************************)
(* What ends while the notifications are off                               *)
(***************************************************************************)
\* One fault in all: a second lost save can undo the first.
OneFault == MaxCiFaults <= 1

EndedIn(native, r, n) ==
  native[r].attempt > n \/ (native[r].attempt = n /\ native[r].status \in CiCompleted)
Ended(r, n) == EndedIn(ciNative, r, n)
Off(s) == ~s.enabled /\ s.baseline = 0
\* No scan judged by s takes u for newly finished.
HoldsIn(native, s, u) ==
  ~ \E r \in Runs : /\ s.enabled /\ OwnerOf[r] = s.account
                    /\ NewlyFinished(s, native, r) /\ u = <<r, native[r].attempt>>
Holds(s, u) == HoldsIn(ciNative, s, u)
Clean(pending) == \A e \in pending : <<e.run, e.attempt>> \notin ciUnwanted
\* The results of this tick will be dropped: the settings were saved meanwhile.
Dropped == Off(ciStored) /\ ciMon.before.baseline > 0
\* This tick sets the first baseline after a reset: it has nothing to tell.
First == Off(ciMon.before)
\* Off, and the one fault is spent: only a save that resets the record switches
\* on again.
Locked == ~ciOn /\ ciFaults = 1
\* Attempt u[2] had ended when this tick began, unless another attempt runs.
EndedBefore(u) == ciNative[u[1]].attempt = u[2] => ciNative[u[1]].at <= ciMon.time

EndedInv ==
  /\ \A r \in Runs : ciNative[r].at <= ciNow
  /\ \A u \in ciUnwanted : Ended(u[1], u[2])
  /\ \A e \in ciStored.pending : Ended(e.run, e.attempt)
  /\ \A e \in ciMon.before.pending : Ended(e.run, e.attempt)
  /\ \A e \in ciMon.state.pending : Ended(e.run, e.attempt)
  /\ \A e \in ciMon.todo : Ended(e.run, e.attempt)
  /\ \A k \in ciStaged : Ended(k[2], k[3])
EmptyInv ==
  /\ Off(ciStored) => ciStored.pending = {}
  /\ Ticking /\ First => ciMon.before.pending = {} /\ ciMon.state.pending = {}
  /\ ciMon.pc \in {"check", "save", "acksave"} /\ Off(ciMon.state) => ciMon.state.pending = {}
CleanInv ==
  /\ Clean(ciStored.pending) \/ Locked
  /\ ciMon.pc \in {"scan", "check"} =>
       (Clean(ciMon.before.pending) /\ Clean(ciMon.state.pending)) \/ Dropped \/ Locked
  /\ ciMon.pc \in {"save", "acksave"} => Clean(ciMon.state.pending) \/ Locked
  /\ ciMon.pc = "deliver" => Clean(ciMon.todo) \/ Locked \/ Off(ciStored)
  /\ QuietWhileOff
OffInv ==
  ~ciOn /\ ciFaults = 0 =>
    /\ Off(ciStored) \/ ciMon.pc = "idle"
    /\ ciMon.pc \in {"scan", "check"} => Dropped \/ First
    /\ ciMon.pc = "save" => First
    /\ ciMon.pc = "acksave" => Off(ciMon.state)
HeldInv ==
  \A u \in ciUnwanted :
    /\ ciOn => Holds(ciStored, u)
    /\ ciMon.pc = "scan" => EndedBefore(u) \/ Dropped \/ First \/ Locked
    /\ ciMon.pc \in {"scan", "check"} => Holds(ciMon.before, u) \/ Dropped \/ Locked
    /\ ciMon.pc = "check" => Holds(ciMon.state, u) \/ Dropped \/ First \/ Locked
    /\ ciMon.pc = "save" => Holds(ciMon.state, u) \/ First \/ Locked
    /\ ciMon.pc = "acksave" => Holds(ciMon.state, u) \/ Locked
QuietInv == EndedInv /\ EmptyInv /\ CleanInv /\ OffInv /\ HeldInv

LEMMA FaultsOnce ==
  ASSUME OneFault, CiShape
  PROVE  /\ ciFaults \in {0, 1}
         /\ CiFault => ciFaults = 0 /\ ciFaults' = 1
<1>1. ciFaults \in 0..MaxCiFaults /\ MaxCiFaults \in Nat /\ MaxCiFaults <= 1
  BY DEF CiShape, OneFault
<1> QED
  BY <1>1 DEF CiFault

\* A record that is off misses nothing; what a record misses depends on its
\* account, switch, baseline and runs only.
LEMMA OffHolds ==
  ASSUME NEW s, NEW u, ~s.enabled
  PROVE  Holds(s, u)
BY DEF Holds, HoldsIn

LEMMA MissedIs ==
  ASSUME NEW s, NEW u
  PROVE  u \in Missed(s) <=> ~Holds(s, u)
BY DEF Missed, Holds, HoldsIn

LEMMA SameMissed ==
  ASSUME NEW s, NEW t, s.account = t.account, s.enabled <=> t.enabled,
         s.baseline = t.baseline, s.runs = t.runs
  PROVE  \A u : Holds(s, u) <=> Holds(t, u)
<1>1. \A r \in Runs : NewlyFinished(s, ciNative, r) <=> NewlyFinished(t, ciNative, r)
  BY DEF NewlyFinished
<1> QED
  BY <1>1 DEF Holds, HoldsIn

\* What has ended stays as it is; what ends now had not ended, and is off.
LEMMA EndedStays ==
  ASSUME CiShape, RunMoves
  PROVE  /\ \A r \in Runs, n \in Nat : EndedIn(ciNative, r, n) =>
              /\ EndedIn(ciNative', r, n)
              /\ ciNative'[r].attempt = n => ciNative'[r] = ciNative[r]
         /\ \A u \in ciUnwanted' \ ciUnwanted :
              /\ ~EndedIn(ciNative, u[1], u[2]) /\ EndedIn(ciNative', u[1], u[2])
              /\ ~ciOn /\ u[1] \in Runs /\ u[2] \in Nat /\ u = <<u[1], u[2]>>
<1>1. /\ ciNative \in [Runs -> CiRow] /\ ciNative' \in [Runs -> CiRow]
      /\ \A q \in Runs, row \in CiRow : OldRun(row, ciNative[q]) => OldRun(row, ciNative'[q])
      /\ \A u \in ciUnwanted' \ ciUnwanted : NewlyUnwanted(u)
  BY RunMovesIs DEF CiShape
<1>2. ASSUME NEW r \in Runs
      PROVE  /\ ciNative[r].attempt \in Nat /\ ciNative'[r].attempt \in Nat
             /\ OldRun(ciNative[r], ciNative'[r])
             /\ ciNative[r] \in RunRecord /\ ciNative'[r] \in RunRecord
  <2>1. ciNative[r] \in CiRow /\ ciNative'[r] \in CiRow
    BY <1>1
  <2>2. ciNative[r].attempt \in Nat /\ ciNative'[r].attempt \in Nat
    BY <2>1 DEF CiRow, RunRecord
  <2>3. OldRun(ciNative[r], ciNative[r])
    BY <2>2 DEF OldRun
  <2> QED  BY <1>1, <2>1, <2>2, <2>3 DEF CiRow
<1>3. ASSUME NEW r \in Runs, NEW n \in Nat, EndedIn(ciNative, r, n)
      PROVE  /\ EndedIn(ciNative', r, n)
             /\ ciNative'[r].attempt = n => ciNative'[r] = ciNative[r]
  <2>1. /\ ciNative[r].attempt \in Nat /\ ciNative'[r].attempt \in Nat
        /\ ciNative[r].attempt <= ciNative'[r].attempt
        /\ ciNative[r].attempt = ciNative'[r].attempt /\ ciNative[r].status \in CiCompleted =>
             ciNative'[r].status = ciNative[r].status /\ ciNative'[r].at = ciNative[r].at
    BY <1>2 DEF OldRun
  <2>2. ciNative[r].attempt > n => ciNative'[r].attempt > n
    BY <2>1
  <2>3. ciNative[r].attempt = n => ciNative'[r].attempt > n \/ ciNative'[r].attempt = n
    BY <2>1
  <2>4. ciNative'[r].attempt = n => ciNative[r].attempt = n /\ ciNative[r].status \in CiCompleted
    BY <1>3, <2>1, <2>2 DEF EndedIn
  <2>5. ciNative'[r].attempt = n => ciNative'[r] = ciNative[r]
    BY <1>2, <2>1, <2>4 DEF RunRecord
  <2> QED  BY <1>3, <2>1, <2>2, <2>3, <2>5 DEF EndedIn
<1>4. ASSUME NEW u \in ciUnwanted' \ ciUnwanted
      PROVE  /\ ~EndedIn(ciNative, u[1], u[2]) /\ EndedIn(ciNative', u[1], u[2])
             /\ ~ciOn /\ u[1] \in Runs /\ u[2] \in Nat /\ u = <<u[1], u[2]>>
  <2>1. /\ ~ciOn /\ u \in Runs \X (0..MaxAttempt)
        /\ ciNative[u[1]].attempt = u[2] /\ ciNative[u[1]].status = "busy"
        /\ ciNative'[u[1]].attempt = u[2] /\ ciNative'[u[1]].status \in CiCompleted
    BY <1>1 DEF NewlyUnwanted
  <2>2. u[1] \in Runs /\ u[2] \in Nat /\ u = <<u[1], u[2]>>
    BY <2>1
  <2> QED  BY <2>1, <2>2 DEF EndedIn, CiCompleted
<1> QED
  BY <1>3, <1>4

\* A run that moves makes no record miss what had ended before.
LEMMA HoldsOn ==
  ASSUME CiShape, RunMoves, NEW s, NEW u, u[1] \in Runs, u[2] \in Nat, Ended(u[1], u[2]),
         Holds(s, u)
  PROVE  HoldsIn(ciNative', s, u)
<1>1. SUFFICES ASSUME NEW r \in Runs, u = <<r, ciNative'[r].attempt>>, s.enabled,
                      OwnerOf[r] = s.account, NewlyFinished(s, ciNative', r)
               PROVE  FALSE
  BY DEF HoldsIn
<1>2. u[1] = r /\ u[2] = ciNative'[r].attempt
  BY <1>1
<1>3. ciNative'[r] = ciNative[r]
  BY <1>2, EndedStays DEF Ended
<1>4. NewlyFinished(s, ciNative, r)
  BY <1>1, <1>3 DEF NewlyFinished
<1> QED
  BY <1>1, <1>3, <1>4 DEF Holds, HoldsIn

LEMMA MovedInstants ==
  ASSUME CiShape, RunMoves, \A r \in Runs : ciNative[r].at <= ciNow
  PROVE  \A r \in Runs : ciNative'[r].at <= ciNow'
<1>0. ciNow \in Nat /\ ciNative \in [Runs -> CiRow]
      /\ \A r \in Runs : ciNative[r] \in CiRow /\ ciNative[r].at \in Nat
  BY DEF CiShape, CiRow, RunRecord
<1>1. ASSUME NEW q \in Runs, RunStarts(q), NEW r \in Runs PROVE ciNative'[r].at <= ciNow'
  <2>1. ciNow' = ciNow /\ ciNative'[r].at = IF r = q THEN 0 ELSE ciNative[r].at
    BY <1>0, <1>1 DEF RunStarts
  <2> QED  BY <1>0, <2>1
<1>2. ASSUME NEW q \in Runs, NEW status \in CiCompleted, RunEnds(q, status), NEW r \in Runs
      PROVE  ciNative'[r].at <= ciNow'
  <2>1. ciNow' = ciNow + 1 /\ ciNative'[r].at = IF r = q THEN ciNow + 1 ELSE ciNative[r].at
    <3> DEFINE next == [ciNative[q] EXCEPT !.status = status, !.at = ciNow + 1]
    <3>1. ciNative' = [ciNative EXCEPT ![q] = next]
      BY <1>0, <1>2 DEF RunEnds
    <3>2. next.at = ciNow + 1
      BY <1>0 DEF CiRow, RunRecord
    <3> HIDE DEF next
    <3> QED  BY <1>0, <1>2, <3>1, <3>2 DEF RunEnds
  <2> QED  BY <1>0, <2>1
<1> QED
  BY <1>1, <1>2 DEF RunMoves

LEMMA QuietByRun ==
  ASSUME OneFault, CiShape, QuietInv, RunMoves
  PROVE  QuietInv'
<1>0. /\ ciFaults \in {0, 1}
      /\ UNCHANGED <<ciOn, ciStored, ciMon, ciStaged, ciFaults>>
      /\ ciUnwanted \subseteq ciUnwanted'
  BY FaultsOnce, RunMovesIs
<1>1. /\ ciStored.pending \subseteq CiEvent /\ ciMon.before.pending \subseteq CiEvent
      /\ ciMon.state.pending \subseteq CiEvent /\ ciMon.todo \subseteq CiEvent
      /\ \A k \in ciStaged : k[2] \in Runs /\ k[3] \in Nat
      /\ \A u \in ciUnwanted : u[1] \in Runs /\ u[2] \in Nat
      /\ \A e \in CiEvent : e.run \in Runs /\ e.attempt \in Nat
  BY DEF CiShape, CiTask, CiRecord, CiEvent
<1>2. \A u \in ciUnwanted' \ ciUnwanted :
        /\ ~Ended(u[1], u[2]) /\ EndedIn(ciNative', u[1], u[2])
        /\ ~ciOn /\ u[1] \in Runs /\ u[2] \in Nat /\ u = <<u[1], u[2]>>
  BY EndedStays DEF Ended
<1>3. \A r \in Runs, n \in Nat : Ended(r, n) =>
        EndedIn(ciNative', r, n) /\ <<r, n>> \notin ciUnwanted' \ ciUnwanted
  BY EndedStays DEF Ended
<1>4. EndedInv'
  <2>1. \A r \in Runs : ciNative'[r].at <= ciNow'
    BY MovedInstants DEF QuietInv, EndedInv
  <2> QED  BY <1>0, <1>1, <1>2, <1>3, <2>1 DEF QuietInv, EndedInv, Ended
<1>5. CleanInv'
  <2>1. ASSUME NEW pending \in SUBSET CiEvent, Clean(pending),
               \A e \in pending : Ended(e.run, e.attempt)
        PROVE  \A e \in pending : <<e.run, e.attempt>> \notin ciUnwanted'
    BY <1>1, <1>3, <2>1 DEF Clean
  <2>2. \A k \in ciStaged : <<k[2], k[3]>> \notin ciUnwanted'
    BY <1>1, <1>3 DEF QuietInv, EndedInv, CleanInv, QuietWhileOff
  <2>3. /\ Clean(ciStored.pending) => Clean(ciStored.pending)'
        /\ Clean(ciMon.before.pending) => Clean(ciMon.before.pending)'
        /\ Clean(ciMon.state.pending) => Clean(ciMon.state.pending)'
        /\ Clean(ciMon.todo) => Clean(ciMon.todo)'
    BY <1>0, <1>1, <2>1 DEF QuietInv, EndedInv, Clean
  <2> QED  BY <1>0, <2>2, <2>3 DEF QuietInv, CleanInv, Dropped, Locked, Off, QuietWhileOff
<1>6. OffInv' /\ EmptyInv'
  BY <1>0 DEF QuietInv, OffInv, EmptyInv, Dropped, First, Off, Ticking
<1>7. HeldInv'
  <2>1. ASSUME NEW u \in ciUnwanted' \ ciUnwanted
        PROVE  /\ ~ciOn
               /\ ciFaults = 0 => /\ ciMon.pc \in {"scan", "check"} => Dropped \/ First
                                  /\ ciMon.pc = "save" => First
                                  /\ ciMon.pc = "acksave" => Off(ciMon.state)
    BY <1>2, <2>1 DEF QuietInv, OffInv
  <2>2. ASSUME NEW u \in ciUnwanted, NEW s, Holds(s, u)
        PROVE  HoldsIn(ciNative', s, u)
    <3>1. u[1] \in Runs /\ u[2] \in Nat /\ Ended(u[1], u[2])
      BY <1>1 DEF QuietInv, EndedInv
    <3> QED  BY <2>2, <3>1, HoldsOn
  <2>3. ASSUME NEW u \in ciUnwanted, EndedBefore(u)
        PROVE  ciNative'[u[1]].attempt = u[2] => ciNative'[u[1]].at <= ciMon.time
    <3>1. u[1] \in Runs /\ u[2] \in Nat /\ Ended(u[1], u[2])
      BY <1>1 DEF QuietInv, EndedInv
    <3>2. ciNative'[u[1]].attempt = u[2] => ciNative'[u[1]] = ciNative[u[1]]
      BY <3>1, EndedStays DEF Ended
    <3> QED  BY <2>3, <3>2 DEF EndedBefore
  <2>4. ASSUME NEW u \in ciUnwanted'
        PROVE  /\ ciOn => HoldsIn(ciNative', ciStored, u)
               /\ ciMon.pc = "scan" =>
                    \/ ciNative'[u[1]].attempt = u[2] => ciNative'[u[1]].at <= ciMon.time
                    \/ Dropped \/ First \/ Locked
               /\ ciMon.pc \in {"scan", "check"} =>
                    HoldsIn(ciNative', ciMon.before, u) \/ Dropped \/ Locked
               /\ ciMon.pc = "check" =>
                    HoldsIn(ciNative', ciMon.state, u) \/ Dropped \/ First \/ Locked
               /\ ciMon.pc = "save" => HoldsIn(ciNative', ciMon.state, u) \/ First \/ Locked
               /\ ciMon.pc = "acksave" => HoldsIn(ciNative', ciMon.state, u) \/ Locked
    <3>1. CASE u \in ciUnwanted
      BY <2>2, <2>3, <3>1 DEF QuietInv, HeldInv
    <3>2. CASE u \notin ciUnwanted
      <4>1. \A s : ~s.enabled => HoldsIn(ciNative', s, u)
        BY DEF HoldsIn
      <4> QED  BY <1>0, <2>1, <3>2, <4>1 DEF First, Off, Locked
    <3> QED  BY <3>1, <3>2
  <2> QED  BY <1>0, <2>4 DEF HeldInv, Holds, EndedBefore, Dropped, First, Locked, Off
<1> QED
  BY <1>4, <1>5, <1>6, <1>7 DEF QuietInv

LEMMA QuietBySettings ==
  ASSUME OneFault, CiShape, RecordInv, QuietInv, Settings
  PROVE  QuietInv'
<1>0. /\ ciFaults \in {0, 1} /\ ciOn \in BOOLEAN
      /\ UNCHANGED <<ciNative, ciMon, ciStaged>> /\ ciUnwanted' \subseteq ciUnwanted
      /\ ciStored' = CiReset(ciStored) \/ ciStored' = ciStored
      /\ ciNow' \in Nat /\ ciNow \in Nat /\ ciNow <= ciNow'
      /\ \A r \in Runs : ciNative[r].at \in Nat
      /\ ciMon.before.baseline \in Nat
      /\ (Ticking => (ciMon.before.enabled <=> ciMon.before.baseline > 0))
  BY FaultsOnce, SettingsIs, CiInstants
     DEF CiShape, CiRow, RunRecord, RecordInv, Truthful, Tells
<1>1. ciStored' = CiReset(ciStored) => Off(ciStored') /\ ciStored'.pending = {}
  BY ResetIs DEF CiShape, Off
<1>2. EndedInv'
  <2>1. \A r \in Runs : ciNative'[r].at <= ciNow'
    BY <1>0 DEF QuietInv, EndedInv
  <2> QED  BY <1>0, <1>1, <2>1 DEF QuietInv, EndedInv, Ended
<1>3. EmptyInv'
  BY <1>0, <1>1 DEF QuietInv, EmptyInv, Off, First, Ticking
<1>4. /\ Dropped => Dropped'
      /\ First' <=> First
      /\ Ticking /\ ciStored' = CiReset(ciStored) => Dropped' \/ First
  BY <1>0, <1>1 DEF Dropped, First, Off
<1>5. \A u : Off(ciStored') => HoldsIn(ciNative', ciStored', u)
  BY DEF HoldsIn, Off
<1>6. \A pending : Clean(pending) => \A e \in pending : <<e.run, e.attempt>> \notin ciUnwanted'
  BY <1>0 DEF Clean
<1>7. CASE SaveSettings
  <2>1. /\ ciStored' = CiReset(ciStored) /\ ciOn' = ~ciOn
        /\ ciUnwanted' = ciUnwanted
        /\ IF ciMon.pc \in {"save", "acksave"} THEN ciFaults = 0 /\ ciFaults' = 1
           ELSE ciFaults' = ciFaults
    BY <1>7, FaultsOnce DEF SaveSettings
  <2>2. CleanInv'
    BY <1>0, <1>1, <1>3, <1>4, <2>1
       DEF QuietInv, CleanInv, EmptyInv, Clean, Locked, Ticking, Off, QuietWhileOff
  <2>3. OffInv'
    BY <1>0, <1>1, <1>4, <2>1 DEF OffInv, Ticking
  <2>4. HeldInv'
    BY <1>0, <1>1, <1>4, <2>1, OffHolds
       DEF QuietInv, OffInv, HeldInv, Locked, Ticking, Holds, HoldsIn, Off, First, EndedBefore
  <2> QED  BY <1>2, <1>3, <2>2, <2>3, <2>4 DEF QuietInv
<1>8. CASE SaveSettingsDies
  <2>1. /\ ciStored' = ciStored /\ ciOn' = ~ciOn /\ ciFaults = 0 /\ ciFaults' = 1
        /\ ciUnwanted' = ciUnwanted \ Missed(ciStored)
    BY <1>8, FaultsOnce DEF SaveSettingsDies
  <2>2. CleanInv'
    BY <1>0, <2>1 DEF QuietInv, CleanInv, Clean, Locked, Dropped, Off, QuietWhileOff
  <2>3. OffInv'
    BY <2>1 DEF OffInv
  <2>4. HeldInv'
    <3>1. \A u \in ciUnwanted' : u \in ciUnwanted /\ HoldsIn(ciNative', ciStored', u)
      BY <1>0, <2>1, MissedIs DEF Holds
    <3> QED  BY <1>0, <2>1, <3>1
             DEF QuietInv, OffInv, HeldInv, Locked, Dropped, First, Off, Holds, EndedBefore
  <2> QED  BY <1>2, <1>3, <2>2, <2>3, <2>4 DEF QuietInv
<1>9. CASE TickOff
  <2>1. /\ ciStored' = CiReset(ciStored) /\ ciMon.pc = "idle" /\ ~ciOn
        /\ ciOn' = ciOn /\ ciFaults' = ciFaults /\ ciUnwanted' = ciUnwanted
    BY <1>9 DEF TickOff, OtherThanMonitor
  <2> QED  BY <1>0, <1>1, <1>2, <1>3, <2>1
           DEF QuietInv, CleanInv, Clean, OffInv, HeldInv, Ticking, QuietWhileOff
<1> QED
  BY <1>7, <1>8, <1>9 DEF Settings

\* The monitor is back at its start, having saved nothing.
LEMMA QuietAtRest ==
  ASSUME OneFault, CiShape, QuietInv, ciMon' = MonitorIdle,
         UNCHANGED <<ciNow, ciOn, ciNative, ciStored, ciStaged, ciUnwanted>>,
         ciFaults' = ciFaults \/ CiFault
  PROVE  QuietInv'
<1>1. /\ MonitorIdle.pc = "idle" /\ MonitorIdle.before.pending = {}
      /\ MonitorIdle.state.pending = {} /\ MonitorIdle.todo = {}
  BY DEF MonitorIdle, CiDefault
<1>2. ciFaults' = ciFaults \/ (ciFaults = 0 /\ ciFaults' = 1)
  BY FaultsOnce
<1>3. EndedInv'
  BY <1>1 DEF QuietInv, EndedInv, Ended
<1>4. CleanInv' /\ EmptyInv'
  BY <1>1, <1>2 DEF QuietInv, CleanInv, EmptyInv, Clean, Locked, Off, Ticking, QuietWhileOff
<1>5. OffInv'
  BY <1>1, <1>2 DEF QuietInv, OffInv
<1>6. HeldInv'
  BY <1>1 DEF QuietInv, HeldInv, Holds
<1> QED
  BY <1>3, <1>4, <1>5, <1>6 DEF QuietInv

LEMMA QuietByStart ==
  ASSUME OneFault, CiShape, RecordInv, QuietInv, TickStart
  PROVE  QuietInv'
<1>1. /\ Started /\ ciOn /\ ciMon.pc = "idle" /\ ciMon'.time = ciNow
      /\ UNCHANGED <<ciNow, ciOn, ciNative, ciStored, ciStaged, ciUnwanted, ciFaults>>
  BY StartedIs DEF TickStart, OtherThanMonitor, Started
<1>2. ciMon.todo = {}
  BY <1>1 DEF RecordInv, TaskInv, MonitorIdle
<1>3. EndedInv'
  BY <1>1, <1>2 DEF QuietInv, EndedInv, Ended, Started
<1>4. CleanInv' /\ EmptyInv'
  BY <1>1, <1>2
     DEF QuietInv, CleanInv, EmptyInv, Clean, Locked, First, Off, Ticking, QuietWhileOff, Started
<1>5. OffInv'
  BY <1>1 DEF OffInv
<1>6. HeldInv'
  <2>1. \A u \in ciUnwanted : EndedBefore(u)'
    BY <1>1 DEF QuietInv, EndedInv, EndedBefore, CiShape
  <2> QED  BY <1>1, <2>1 DEF QuietInv, HeldInv, Holds, Started
<1> QED
  BY <1>3, <1>4, <1>5, <1>6 DEF QuietInv

\* A scan judged by the same baseline keeps what the record holds; one that sets
\* the baseline for another account holds what ended before it began.
LEMMA ReadHolds ==
  ASSUME CiShape, RecordInv, ciMon.pc = "scan", NEW unread, ~First, NEW u,
         u[1] \in Runs, u[2] \in Nat, Ended(u[1], u[2]), EndedBefore(u), Holds(ciMon.before, u)
  PROVE  Holds(Read(unread), u)
<1>1. SUFFICES ASSUME NEW r \in Runs, OwnerOf[r] = ciMon.account,
                      u = <<r, ciNative[r].attempt>>, Read(unread).enabled,
                      NewlyFinished(Read(unread), ciNative, r)
               PROVE  FALSE
  BY ReadBaseline DEF Holds, HoldsIn
<1> DEFINE read == Reading(unread)[r]
           native == ciNative[r]
<1>2. /\ Read(unread).runs[r] = read /\ Read(unread).account = ciMon.account
      /\ IF Rebases THEN Read(unread).baseline = ciMon.time
         ELSE Read(unread).baseline = ciMon.before.baseline /\ Base = ciMon.before
  BY ReadBaseline
<1>3. native \in CiRow /\ native.status = "done" /\ native.attempt = u[2] /\ u[1] = r
  BY <1>1 DEF CiShape, NewlyFinished, Notifiable
<1>4. read # native
  <2>1. read = native => native.status # "absent" /\ native.status \in CiCompleted
    BY <1>3 DEF CiCompleted
  <2> QED  BY <1>1, <1>2, <2>1 DEF NewlyFinished
<1>5. read = Base.runs[r]
  BY <1>1, <1>4, ReadingIs
<1>6. CASE Rebases
  <2>1. ciMon.before.account # ciMon.account
    BY <1>6 DEF Rebases, First, Off, RecordInv, Truthful, Tells, CiShape, CiTask, CiRecord
  <2>2. Base.runs[r] = Unseen
    <3>1. /\ ciMon.state \in CiRecord /\ ciMon.account \in Accounts
          /\ ciMon.state.account # ciMon.account
      BY <2>1, BaseIs DEF RecordInv, TaskInv
    <3>2. Base.runs = [x \in Runs |-> Unseen]
      BY <3>1, ForAccountIs DEF Base
    <3> QED  BY <3>2
  <2>3. native.at > ciMon.time
    BY <1>1, <1>2, <1>5, <1>6, <2>2 DEF NewlyFinished, Unseen
  <2>4. native.at <= ciMon.time
    BY <1>3 DEF EndedBefore
  <2> QED  BY <1>3, <2>3, <2>4, CiInstants DEF CiRow, RunRecord
<1>7. CASE ~Rebases
  <2>1. ciMon.before.runs[r] = read /\ Read(unread).baseline = ciMon.before.baseline
        /\ ciMon.before.enabled /\ ciMon.before.account = ciMon.account
    BY <1>2, <1>5, <1>7 DEF Rebases
  <2>2. NewlyFinished(ciMon.before, ciNative, r)
    BY <1>1, <1>2, <2>1 DEF NewlyFinished
  <2> QED  BY <1>1, <2>1, <2>2 DEF Holds, HoldsIn
<1> QED
  BY <1>6, <1>7

\* The events of a scan: of the record before, or of a run it did not hold.
LEMMA ReadEvents ==
  ASSUME CiShape, RecordInv, ciMon.pc = "scan", NEW unread, NEW e \in Read(unread).pending
  PROVE  /\ e.run \in Runs /\ e.attempt \in Nat /\ Ended(e.run, e.attempt)
         /\ \/ e \in ciMon.before.pending
            \/ ~First /\ ~Holds(ciMon.before, <<e.run, e.attempt>>)
<1> DEFINE r == e.run
           n == e.attempt
           read == Reading(unread)[r]
           native == ciNative[r]
<1>1. /\ ciMon.account \in Accounts /\ Base \in CiRecord /\ ciMon.time \in 0..MaxNow + 1
      /\ Reading(unread) \in [Runs -> CiRow] /\ Read(unread) \in CiRecord
  BY BaseIs
<1>2. e \in CiEvent /\ r \in Runs /\ n \in Nat
  BY <1>1 DEF CiRecord, CiEvent
<1>3. /\ read.attempt = n /\ read.status = "done"
      /\ e \in Base.pending \/ (~NoBaseline(Base) /\ NewlyFinished(Base, Reading(unread), r))
  <2>1. Reconciled(Base, Reading(unread), ciMon.time, Read(unread))
    BY <1>1, ReconcileIs DEF Read
  <2> QED  BY <2>1 DEF Reconciled, Notifiable
<1>4. Read(unread).runs = Reading(unread) /\ Truthful(Read(unread))
  BY ReadTruth, ReadBaseline
<1>5. /\ OldRun(read, native) /\ OwnerOf[r] = ciMon.account
      /\ read \in CiRow /\ native \in CiRow
  BY <1>1, <1>2, <1>3, <1>4, ReadBaseline DEF Truthful, Tells, CiShape
<1>6. Ended(r, n)
  <2>1. read.attempt \in Nat /\ native.attempt \in Nat
    BY <1>5 DEF CiRow, RunRecord
  <2> QED  BY <1>3, <1>5, <2>1 DEF Ended, EndedIn, OldRun, CiCompleted
<1>7. CASE e \in Base.pending
  BY <1>2, <1>6, <1>7, BaseTruth
<1>8. CASE ~NoBaseline(Base) /\ NewlyFinished(Base, Reading(unread), r)
  <2>1. /\ Base = ciMon.before /\ ciMon.before.account = ciMon.account
        /\ ciMon.before.enabled /\ ~First
    BY <1>8, BaseTruth, ReadBaseline DEF NoBaseline, Rebases, First, Off
  <2>2. read # ciMon.before.runs[r]
    BY <1>3, <1>8, <2>1 DEF NewlyFinished, CiCompleted
  <2>3. read = native
    BY <1>2, <1>5, <2>1, <2>2, ReadingIs
  <2>4. NewlyFinished(ciMon.before, ciNative, r)
    BY <1>8, <2>1, <2>3 DEF NewlyFinished
  <2>5. ~Holds(ciMon.before, <<r, n>>)
    BY <1>2, <1>3, <1>5, <2>1, <2>3, <2>4 DEF Holds, HoldsIn
  <2> QED  BY <1>2, <1>6, <2>1, <2>5
<1> QED
  BY <1>3, <1>7, <1>8

LEMMA QuietByScan ==
  ASSUME OneFault, CiShape, RecordInv, QuietInv, Scans
  PROVE  QuietInv'
<1>1. /\ ciMon.pc = "scan" /\ ciMon'.pc = "check"
      /\ ciMon'.before = ciMon.before /\ ciMon'.todo = ciMon.todo
      /\ UNCHANGED <<ciNow, ciOn, ciNative, ciStored, ciStaged, ciUnwanted>>
      /\ ciFaults' = ciFaults \/ CiFault
      /\ \/ ciMon'.state = ciMon.before
         \/ ciMon'.state = Base /\ ~Base.enabled /\ Base.baseline = 0 /\ Base.pending = {}
         \/ \E unread \in SUBSET Runs : ciMon'.state = Read(unread)
  BY CiScanEnds DEF OtherThanMonitor, Scans, ScanFails, CiScan
<1>2. ciFaults' = ciFaults \/ (ciFaults = 0 /\ ciFaults' = 1)
  BY <1>1, FaultsOnce
<1>3. /\ Dropped' <=> Dropped
      /\ First' <=> First
      /\ Locked => Locked'
  BY <1>1, <1>2 DEF Dropped, First, Off, Locked
<1>4. \A u \in ciUnwanted : u[1] \in Runs /\ u[2] \in Nat
  BY DEF CiShape
<1>5. \A e \in ciMon'.state.pending :
        /\ Ended(e.run, e.attempt)
        /\ \/ e \in ciMon.before.pending
           \/ ~First /\ ~Holds(ciMon.before, <<e.run, e.attempt>>)
  BY <1>1, ReadEvents DEF QuietInv, EndedInv
<1>6. EndedInv'
  BY <1>1, <1>5 DEF QuietInv, EndedInv, Ended
<1>7. EmptyInv'
  <2>1. First => ciMon.before.pending = {} /\ ciMon'.state.pending = {}
    BY <1>1, <1>5 DEF QuietInv, EmptyInv, Ticking
  <2>2. \A unread : Read(unread).enabled
    <3>1. ASSUME NEW unread PROVE Read(unread).enabled
      <4>1. Reconciled(Base, Reading(unread), ciMon.time, Read(unread))
        BY <1>1, BaseIs, ReconcileIs DEF Read
      <4> QED  BY <4>1 DEF Reconciled
    <3> QED  BY <3>1
  <2>3. Off(ciMon'.state) => ciMon'.state.pending = {}
    BY <1>1, <2>1, <2>2 DEF Off, First
  <2> QED  BY <1>1, <1>3, <2>1, <2>3 DEF QuietInv, EmptyInv
<1>8. (Clean(ciMon.before.pending) /\ Clean(ciMon'.state.pending)) \/ Dropped \/ Locked
  <2>1. ASSUME ~Dropped, ~Locked, NEW e \in ciMon'.state.pending,
               <<e.run, e.attempt>> \in ciUnwanted
        PROVE  FALSE
    <3>1. Holds(ciMon.before, <<e.run, e.attempt>>) /\ Clean(ciMon.before.pending)
      BY <1>1, <2>1 DEF QuietInv, HeldInv, CleanInv
    <3> QED  BY <1>5, <2>1, <3>1 DEF Clean
  <2> QED  BY <1>1, <2>1 DEF QuietInv, CleanInv, Clean
<1>9. CleanInv'
  BY <1>1, <1>3, <1>8 DEF QuietInv, CleanInv, Clean, QuietWhileOff
<1>10. OffInv'
  BY <1>1, <1>2, <1>3 DEF QuietInv, OffInv
<1>11. \A u \in ciUnwanted : Holds(ciMon'.state, u) \/ Dropped \/ First \/ Locked
  <2>1. ASSUME NEW u \in ciUnwanted, ~Dropped, ~First, ~Locked
        PROVE Holds(ciMon'.state, u)
    <3>1. /\ Holds(ciMon.before, u) /\ EndedBefore(u) /\ Ended(u[1], u[2])
          /\ u[1] \in Runs /\ u[2] \in Nat
      BY <1>1, <1>4, <2>1 DEF QuietInv, HeldInv, EndedInv
    <3>2. CASE ciMon'.state = Base /\ ~Base.enabled
      BY <3>2, OffHolds
    <3>3. ASSUME NEW unread \in SUBSET Runs
          PROVE  Holds(Read(unread), u)
      BY <1>1, <2>1, <3>1, ReadHolds
    <3> QED  BY <1>1, <3>1, <3>2, <3>3
  <2> QED  BY <2>1
<1>12. HeldInv'
  BY <1>1, <1>3, <1>11 DEF QuietInv, HeldInv, Holds
<1> QED
  BY <1>6, <1>7, <1>9, <1>10, <1>12 DEF QuietInv

\* Results are kept only when the settings did not move: the record is on, and
\* what the scan found was not ended while it was off.
LEMMA QuietByCheck ==
  ASSUME OneFault, CiShape, RecordInv, QuietInv, TickCheck
  PROVE  QuietInv'
<1>1. /\ ciMon.pc = "check"
      /\ UNCHANGED <<ciNow, ciOn, ciNative, ciStored, ciStaged, ciUnwanted, ciFaults>>
  BY DEF TickCheck, OtherThanMonitor
<1>2. CASE ciMon' = MonitorIdle
  BY <1>1, <1>2, QuietAtRest
<1>3. CASE ~SettingsMoved /\ ciMon' = [ciMon EXCEPT !.pc = "save"]
  <2>1. /\ ciMon'.pc = "save" /\ ciMon'.before = ciMon.before
        /\ ciMon'.state = ciMon.state /\ ciMon'.todo = ciMon.todo
    BY <1>3 DEF CiShape, CiTask
  <2>2. ~Dropped
    BY <1>3 DEF SettingsMoved, Dropped, Off
  <2>3. EndedInv' /\ EmptyInv'
    BY <1>1, <2>1 DEF QuietInv, EndedInv, Ended, EmptyInv, Off, First, Ticking
  <2>4. CleanInv'
    BY <1>1, <2>1, <2>2 DEF QuietInv, CleanInv, Clean, Locked, QuietWhileOff
  <2>5. OffInv'
    BY <1>1, <2>1, <2>2 DEF QuietInv, OffInv, First, Off
  <2>6. HeldInv'
    BY <1>1, <2>1, <2>2 DEF QuietInv, HeldInv, Holds, First, Off, Locked
  <2> QED  BY <2>3, <2>4, <2>5, <2>6 DEF QuietInv
<1> QED
  BY <1>2, <1>3 DEF TickCheck

\* The first record after a reset misses nothing that is still unwanted.
LEMMA QuietBySave ==
  ASSUME OneFault, CiShape, RecordInv, QuietInv, TickSave
  PROVE  QuietInv'
<1>1. /\ ciMon.pc = "save"
      /\ UNCHANGED <<ciNow, ciOn, ciNative, ciStaged, ciFaults>>
      /\ ciUnwanted' = IF SetsBaseline THEN ciUnwanted \ Missed(ciMon.state) ELSE ciUnwanted
      /\ \/ ciStored' = ciStored
         \/ /\ ciStored'.account = ciMon.state.account /\ ciStored'.runs = ciMon.state.runs
            /\ ciStored'.baseline = ciMon.state.baseline
            /\ ciStored'.pending = ciMon.state.pending
            /\ (ciStored'.enabled <=> ciMon.state.enabled)
  BY SavedIs
<1>2. /\ ciUnwanted' \subseteq ciUnwanted
      /\ Off(ciMon.state) => ciMon.state.pending = {}
      /\ First => ciMon.state.pending = {}
  BY <1>1 DEF QuietInv, EmptyInv, Ticking
<1>3. \/ /\ ciMon'.pc = "idle" /\ ciMon'.before.pending = {} /\ ciMon'.state.pending = {}
         /\ ciMon'.todo = {}
      \/ /\ ciMon'.pc = "deliver" /\ ciMon'.before = ciMon.before /\ ciMon'.state = ciMon.state
         /\ ciMon'.todo = ciMon.state.pending
  <2>1. ciMon' = MonitorIdle \/ (Delivering /\ ciMon'.todo = ciMon.state.pending)
    BY SavedIs
  <2> QED  BY <2>1 DEF Delivering, MonitorIdle, CiDefault
<1>4. First => ciMon'.pc = "idle"
  <2>1. First => ciMon' = MonitorIdle
    BY <1>2 DEF TickSave, ToDeliver
  <2> QED  BY <2>1 DEF MonitorIdle
<1>5. EndedInv'
  BY <1>1, <1>2, <1>3 DEF QuietInv, EndedInv, Ended
<1>6. EmptyInv'
  BY <1>1, <1>2, <1>3 DEF QuietInv, EmptyInv, Off, Ticking
<1>7. CleanInv'
  BY <1>1, <1>2, <1>3 DEF QuietInv, CleanInv, Clean, Locked, QuietWhileOff
<1>8. OffInv'
  BY <1>1, <1>3, <1>4 DEF QuietInv, OffInv
<1>9. HeldInv'
  <2>1. ASSUME NEW u \in ciUnwanted', ciOn PROVE HoldsIn(ciNative', ciStored', u)
    <3>1. u \in ciUnwanted /\ Holds(ciStored, u) /\ (Holds(ciMon.state, u) \/ First)
      BY <1>1, <1>2, <2>1 DEF QuietInv, HeldInv, Locked
    <3>2. CASE First /\ ciStored' # ciStored
      <4>1. ciMon.state.enabled <=> ciMon.state.baseline > 0
        BY DEF RecordInv, Truthful, Tells
      <4>2. CASE ciMon.state.enabled
        <5>1. SetsBaseline
          BY <3>2, <4>1, <4>2, CiInstants DEF SetsBaseline, First, Off
        <5>2. Holds(ciMon.state, u)
          BY <1>1, <2>1, <5>1, MissedIs
        <5> QED  BY <1>1, <3>2, <5>2, SameMissed DEF Holds
      <4>3. CASE ~ciMon.state.enabled
        BY <1>1, <3>2, <4>3 DEF HoldsIn
      <4> QED  BY <4>2, <4>3
    <3>3. CASE Holds(ciMon.state, u) /\ ciStored' # ciStored
      BY <1>1, <3>3, SameMissed DEF Holds
    <3> QED  BY <1>1, <3>1, <3>2, <3>3 DEF Holds
  <2> QED  BY <1>1, <1>3, <2>1 DEF HeldInv, Holds
<1> QED
  BY <1>5, <1>6, <1>7, <1>8, <1>9 DEF QuietInv

LEMMA QuietByDelivery ==
  ASSUME OneFault, CiShape, QuietInv, Delivers
  PROVE  QuietInv'
<1>1. /\ ciMon.pc = "deliver"
      /\ UNCHANGED <<ciNow, ciOn, ciNative, ciStored, ciUnwanted>>
      /\ ciStaged' \subseteq ciStaged \cup {KeyOf(e) : e \in ciMon.todo}
      /\ ciMon' = MonitorIdle \/ (Delivering /\ ciMon'.todo \subseteq ciMon.todo)
  BY DeliversIs DEF Delivers, OtherThanMonitor
<1>2. ciFaults' = ciFaults \/ (ciFaults = 0 /\ ciFaults' = 1)
  BY FaultsOnce DEF Delivers, DeliverFails, Deliver
<1>3. /\ ciMon'.before.pending \subseteq ciMon.before.pending
      /\ ciMon'.state.pending \subseteq ciMon.state.pending
      /\ ciMon'.todo \subseteq ciMon.todo /\ ciMon'.pc \in {"idle", "deliver"}
  BY <1>1 DEF Delivering, MonitorIdle, CiDefault
<1>4. \A k \in ciStaged' : k \in ciStaged
        \/ \E e \in ciMon.todo : k[2] = e.run /\ k[3] = e.attempt
  BY <1>1 DEF KeyOf
<1>5. EndedInv' /\ EmptyInv'
  BY <1>1, <1>3, <1>4 DEF QuietInv, EndedInv, Ended, EmptyInv, Off, Ticking
<1>6. QuietWhileOff'
  <2>1. CASE ciStaged' \subseteq ciStaged
    BY <1>1, <2>1 DEF QuietInv, CleanInv, QuietWhileOff
  <2>2. ASSUME NEW e \in ciMon.todo, Deliver(e), EventCurrent(e)
        PROVE  QuietWhileOff'
    <3>1. ciOn /\ ciStored.enabled
      BY <2>2 DEF EventCurrent
    <3>2. Clean(ciMon.todo)
      BY <1>1, <3>1 DEF QuietInv, CleanInv, Locked, Off
    <3> QED  BY <1>1, <1>4, <3>2 DEF QuietInv, CleanInv, Clean, QuietWhileOff
  <2>3. ciStaged' \subseteq ciStaged \/ \E e \in ciMon.todo : Deliver(e) /\ EventCurrent(e)
    BY DEF Delivers, DeliverFails, Deliver
  <2> QED  BY <2>1, <2>2, <2>3
<1>7. CleanInv'
  BY <1>1, <1>2, <1>3, <1>6 DEF QuietInv, CleanInv, Clean, Locked, Off
<1>8. OffInv'
  BY <1>1, <1>2, <1>3 DEF QuietInv, OffInv
<1>9. HeldInv'
  BY <1>1, <1>3 DEF QuietInv, HeldInv, Holds
<1> QED
  BY <1>5, <1>7, <1>8, <1>9 DEF QuietInv

LEMMA QuietByAck ==
  ASSUME OneFault, CiShape, RecordInv, QuietInv, AckLoad \/ AckSave
  PROVE  QuietInv'
<1>0. UNCHANGED <<ciNow, ciOn, ciNative, ciStaged, ciUnwanted, ciFaults>>
      /\ ciFaults \in {0, 1}
  BY FaultsOnce DEF AckLoad, AckSave, OtherThanMonitor
<1>1. CASE AckLoad
  <2>1. PICK state : Acknowledged(state) /\ Looking("acksave", state)
    BY <1>1, AcknowledgedIs
  <2>2. /\ ciStored' = ciStored /\ ciMon.pc = "deliver" /\ ciMon'.pc = "acksave"
        /\ ciMon'.state = state /\ ciMon'.before = ciMon.before /\ ciMon'.todo = ciMon.todo
        /\ state.pending \subseteq ciStored.pending
    BY <1>1, <2>1 DEF AckLoad, Looking, Acknowledged
  <2>3. /\ Off(ciStored) <=> Off(state)
        /\ \A u : Holds(ciStored, u) => Holds(state, u)
    BY <2>1, SameMissed DEF Acknowledged, Off
  <2>4. EndedInv' /\ EmptyInv'
    BY <1>0, <2>2, <2>3 DEF QuietInv, EndedInv, Ended, EmptyInv, Off, Ticking
  <2>5. CleanInv'
    BY <1>0, <2>2 DEF QuietInv, CleanInv, Clean, Locked, QuietWhileOff
  <2>6. OffInv'
    BY <1>0, <2>2, <2>3 DEF QuietInv, OffInv, Off
  <2>7. \A u \in ciUnwanted : Holds(state, u) \/ Locked
    <3>1. ~ciOn /\ ciFaults = 0 => Off(state)
      BY <2>2, <2>3 DEF QuietInv, OffInv
    <3> QED  BY <1>0, <2>3, <3>1, OffHolds DEF QuietInv, HeldInv, Off, Locked
  <2>8. HeldInv'
    BY <1>0, <2>2, <2>7 DEF QuietInv, HeldInv, Holds, Locked
  <2> QED  BY <2>4, <2>5, <2>6, <2>8 DEF QuietInv
<1>2. CASE AckSave
  <2>1. /\ ciStored' = ciMon.state /\ ciMon.pc = "acksave" /\ ciMon' = MonitorIdle
        /\ MonitorIdle.pc = "idle" /\ MonitorIdle.before.pending = {}
        /\ MonitorIdle.state.pending = {} /\ MonitorIdle.todo = {}
    BY <1>2 DEF AckSave, MonitorIdle, CiDefault
  <2>4. EndedInv' /\ EmptyInv'
    BY <1>0, <2>1 DEF QuietInv, EndedInv, Ended, EmptyInv, Off, Ticking
  <2>5. CleanInv'
    BY <1>0, <2>1 DEF QuietInv, CleanInv, Clean, Locked, QuietWhileOff
  <2>6. OffInv'
    BY <1>0, <2>1 DEF QuietInv, OffInv
  <2>7. HeldInv'
    BY <1>0, <2>1 DEF QuietInv, HeldInv, Holds, Locked
  <2> QED  BY <2>4, <2>5, <2>6, <2>7 DEF QuietInv
<1> QED
  BY <1>1, <1>2

LEMMA QuietStep ==
  ASSUME OneFault, CiShape, RecordInv, QuietInv, [CiNext]_ciVars
  PROVE  QuietInv'
<1>1. CASE /\ UNCHANGED <<ciOn, ciNative, ciStored, ciMon, ciStaged, ciFaults, ciUnwanted>>
           /\ ciNow' = ciNow \/ ciNow' = ciNow + 1
  <2>1. \A r \in Runs : ciNative[r].at <= ciNow'
    BY <1>1, CiInstants DEF QuietInv, EndedInv, CiShape, CiRow, RunRecord
  <2>2. EndedInv' /\ EmptyInv' /\ CleanInv'
    BY <1>1, <2>1 DEF QuietInv, EndedInv, Ended, EmptyInv, CleanInv, Clean, Off, First, Dropped,
                      Locked, Ticking, QuietWhileOff
  <2>3. OffInv' /\ HeldInv'
    BY <1>1 DEF QuietInv, OffInv, HeldInv, Holds, EndedBefore, Off, First, Locked, Dropped
  <2> QED  BY <2>2, <2>3 DEF QuietInv
<1>2. CASE MonitorDies
  BY <1>2, QuietAtRest DEF MonitorDies, OtherThanMonitor
<1>3. (\E a \in Accounts : SwitchAccount(a)) \/ Watches \/ UNCHANGED ciVars
       => /\ UNCHANGED <<ciOn, ciNative, ciStored, ciMon, ciStaged, ciFaults, ciUnwanted>>
          /\ ciNow' = ciNow \/ ciNow' = ciNow + 1
  BY WatchesIs DEF SwitchAccount, ciVars
<1> QED
  BY <1>1, <1>2, <1>3, CiCases, QuietByRun, QuietBySettings, QuietByStart, QuietByScan,
     QuietByCheck, QuietBySave, QuietByDelivery, QuietByAck

LEMMA QuietInit == CiInit => QuietInv
<1>1. /\ MonitorIdle.pc = "idle" /\ MonitorIdle.before.pending = {}
      /\ MonitorIdle.state.pending = {} /\ MonitorIdle.todo = {}
      /\ CiDefault.pending = {} /\ Off(CiDefault)
  BY DEF MonitorIdle, CiDefault, Off
<1> SUFFICES ASSUME CiInit PROVE QuietInv
  OBVIOUS
<1>2. /\ ciStored = CiDefault /\ ciMon = MonitorIdle /\ ciStaged = {} /\ ciUnwanted = {}
      /\ \A r \in Runs : ciNative[r].at = 0
      /\ ciNow = 1
  BY DEF CiInit, Unseen
<1> QED
  BY <1>1, <1>2 DEF QuietInv, EndedInv, EmptyInv, CleanInv, Clean, OffInv, HeldInv, Ticking,
                    QuietWhileOff

\* With at most one fault, nothing that ended while the notifications were off
\* and that the record to come does not miss reaches the delivery queue: for
\* every number of runs, accounts, attempts and switches, those in a scan that
\* sets a baseline included.
THEOREM QuietWithOneFault ==
  ASSUME MaxCiFaults <= 1
  PROVE  CiSpec => []QuietWhileOff
<1> DEFINE Inv == CiShape /\ RecordInv /\ QuietInv
<1>0. OneFault
  BY DEF OneFault
<1>1. CiInit => Inv
  BY CiShapeInit, RecordInit, QuietInit
<1>2. Inv /\ [CiNext]_ciVars => Inv'
  BY <1>0, CiStepTyped, RecordStep, QuietStep
<1>3. Inv => QuietWhileOff
  BY DEF QuietInv, CleanInv
<1> QED
  BY <1>1, <1>2, <1>3, PTL DEF CiSpec
=============================================================================
