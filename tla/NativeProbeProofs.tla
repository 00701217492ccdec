-------------------------- MODULE NativeProbeProofs --------------------------
(***************************************************************************)
(* A turn of a provider's session file is told once, and one that ended    *)
(* while nobody was to be told never: for any number of turns, files,      *)
(* rounds that overlap, faults and instants.                               *)
(*                                                                         *)
(* Keys.  A key, a turn of one file, enters the queue once because of what *)
(* the store knows of the file: a row, a cursor behind its record, or the  *)
(* absence of its stream.  NpKeyInv says of the log that each turn ends    *)
(* once, of a scan in hand that it shows the log as it was, of the cursor  *)
(* that it lies within the log, of a row that its status fits what was     *)
(* sent, and of a forgotten key that the cursor is past it while its file  *)
(* is the stream (PastCursor), and that a scan in hand shows it, so that   *)
(* staging it to go back to the file skips the turn.                       *)
(*                                                                         *)
(* Files.  The same turn is in the file that replaces another, under a key *)
(* of its own.  NpFileInv says that a turn that is live, pending, claimed  *)
(* or told, of one file is live of no other, and that no scan in hand will *)
(* enter it again.  A stale scan that is staged after the file was         *)
(* replaced makes the stream go back to the old file; a second one, then,  *)
(* tells the turn again.  So the theorem has OneStale for a hypothesis: no *)
(* two rounds hold a scan of one replaced file.  Two processes always meet *)
(* it, since the one that staged the later file holds no scan of an        *)
(* earlier one (SomeUpToDate).                                             *)
(*                                                                         *)
(* Historic turns.  A turn that ended while the notifications were off is  *)
(* kept back by the lack of a baseline, once a round saw them off, and     *)
(* then by the baseline (KeptBack).  Where the past may change, what a     *)
(* known stream shows anew is not compared with the baseline               *)
(* (db/native_probe.rs:93-113): the turn is kept back by a row, or by a    *)
(* cursor behind its record (Covered), which every scan in hand preserves  *)
(* since it shows the turn (InEveryScan).                                  *)
(***************************************************************************)
EXTENDS NativeProbe, FiniteSetTheorems, WellFoundedInduction, TLAPS

USE NpAssumption DEF npTurns

(***************************************************************************)
(* Numbers, and the least of them.                                         *)
(***************************************************************************)
LEMMA Least ==
  ASSUME NEW T, T \subseteq Nat, T # {}
  PROVE  \E x \in T : \A y \in T : x <= y
<1> DEFINE R == OpToRel(<, Nat)
<1>1. IsWellFoundedOn(R, Nat)
  BY NatLessThanWellFounded
<1>2. \A x, y \in Nat : x < y => <<x, y>> \in R
  BY DEF OpToRel
<1> HIDE DEF R
<1>3. PICK x \in T : \A y \in T : ~ (<<y, x>> \in R)
  BY <1>1, WFMin
<1>4. ASSUME NEW y \in T PROVE x <= y
  <2>1. x \in Nat /\ y \in Nat /\ ~ (y < x)
    BY <1>2, <1>3
  <2> QED  BY <2>1
<1> QED
  BY <1>4

\* The settled count lies within the log.
LEMMA SettledIs ==
  ASSUME NEW n \in Nat, NEW log \in Seq(NpRecord), Len(log) <= n, NEW known
  PROVE  SettledCount(log, known) \in 0..Len(log)
<1> DEFINE T == {Len(log)} \cup {i - 1 : i \in {j \in EndsOf(log) : log[j].turn \notin known}}
<1>1. EndsOf(log) \subseteq 1..Len(log)
  BY DEF EndsOf
<1>2. T \subseteq 0..Len(log) /\ T # {} /\ T \subseteq Nat
  BY <1>1
<1> HIDE DEF T
<1>3. PICK x \in T : \A y \in T : x <= y
  BY <1>2, Least
<1>4. Min(T) \in T
  <2>1. Min(T) = CHOOSE y \in T : \A z \in T : y <= z
    BY DEF Min
  <2> QED  BY <1>3, <2>1
<1>5. SettledCount(log, known) = Min(T)
  BY DEF SettledCount, T
<1> QED
  BY <1>2, <1>4, <1>5

\* The cursor never goes behind the settled count, nor behind where it started.
LEMMA MaxOfTwo ==
  ASSUME NEW a \in Nat, NEW b \in Nat
  PROVE  Max({a, b}) = IF a >= b THEN a ELSE b
<1> DEFINE m == IF a >= b THEN a ELSE b
<1>1. Max({a, b}) = CHOOSE y \in {a, b} : \A z \in {a, b} : y >= z
  BY DEF Max
<1>2. m \in {a, b} /\ \A z \in {a, b} : m >= z
  OBVIOUS
<1>3. \A y \in {a, b} : (\A z \in {a, b} : y >= z) => y = m
  OBVIOUS
<1> QED
  BY <1>1, <1>2, <1>3

(***************************************************************************)
(* Types.                                                                  *)
(***************************************************************************)
NpProcRecord == [pc : {"idle", "scan", "stage", "list", "claim", "send", "finish"},
                 on : BOOLEAN, scan : Snapshot, todo : SUBSET NpKey,
                 key : NpKey \cup {<<0, 0>>}]
NpProcType == {c \in NpProcRecord : c.pc \in {"send", "finish"} => c.key \in NpKey}
NpRowType == [status : NpStatus, pos : 0..MaxTurns]

\* The types, and the length of the log.
NpShape ==
  /\ npNow \in Nat /\ npOn \in BOOLEAN
  /\ npSource \in [identity : 1..MaxIdentity, log : Seq(NpRecord), written : 0..MaxTurns]
  /\ Len(npSource.log) <= npSource.written
  /\ npEvidence \subseteq Turn
  /\ npProvider \in [enabled : BOOLEAN, activated : Nat]
  /\ npStream \in [identity : 0..MaxIdentity, cursor : 0..MaxTurns]
  /\ npRows \in [NpKey -> NpRowType]
  /\ npQueue \subseteq NpKey
  /\ npProc \in [NpProcs -> NpProcType]
  /\ npAged \subseteq NpKey
  /\ npFaults \in 0..MaxNpFaults
  /\ npSent \in [NpKey -> Nat]
  /\ npUnnoticed \subseteq Turn /\ npUnwanted \subseteq Turn /\ npOwed \subseteq Turn

LEMMA ShapeHasType ==
  ASSUME NpShape PROVE NpTypeOK
BY DEF NpShape, NpTypeOK, Instant, NpRowType, NpProcType, NpProcRecord

LEMMA NpShapeInit ==
  ASSUME NpInit PROVE NpShape
<1>1. NpIdle \in NpProcType
  BY DEF NpIdle, NoSnapshot, Snapshot, NpProcType, NpProcRecord
<1>2. npSource = [identity |-> 1, log |-> <<>>, written |-> 0]
  BY DEF NpInit
<1>3. npSource \in [identity : 1..MaxIdentity, log : Seq(NpRecord), written : 0..MaxTurns]
      /\ Len(npSource.log) <= npSource.written
  BY <1>2
<1>4. npRows \in [NpKey -> [status : NpStatus, pos : 0..MaxTurns]]
  BY DEF NpInit, NoRow, NpStatus
<1>5. npProc \in [NpProcs -> NpProcType]
  BY <1>1 DEF NpInit
<1>6. npStream \in [identity : 0..MaxIdentity, cursor : 0..MaxTurns]
  BY DEF NpInit, NoStream
<1> QED
  BY <1>3, <1>4, <1>5, <1>6 DEF NpInit, NpShape, Instant, Turn, NpRowType, NpProcType, NpProcRecord

\* What a round reads of the source is a snapshot.
LEMMA SnapshotTyped ==
  ASSUME NpShape
  PROVE  /\ SnapshotNow \in Snapshot
         /\ SnapshotNow.settled <= SnapshotNow.count
<1> DEFINE log == npSource.log
           events == EventsOf(log, npEvidence)
<1>1. log \in Seq(NpRecord) /\ npSource.identity \in 0..MaxIdentity /\ Len(log) \in 0..MaxTurns
  BY DEF NpShape
<1>2. SettledCount(log, npEvidence) \in 0..Len(log)
  BY <1>1, SettledIs
<1>3. events \subseteq NpEvent
  <2>1. ASSUME NEW i \in EndsOf(log)
        PROVE  [turn |-> log[i].turn, pos |-> i, at |-> log[i].at] \in NpEvent
    <3>1. i \in 1..Len(log)
      BY <1>1, <2>1 DEF EndsOf
    <3>2. log[i] \in NpRecord /\ i \in 1..MaxTurns
      BY <1>1, <3>1
    <3> QED  BY <3>2 DEF NpRecord, NpEvent
  <2> QED  BY <2>1 DEF EventsOf
<1> QED
  BY <1>1, <1>2, <1>3 DEF SnapshotNow, Snapshot

\* A round that goes on with its list, or ends.
LEMMA GoOnTyped ==
  ASSUME NEW c \in NpProcType, NEW todo \in SUBSET NpKey
  PROVE  GoOn(c, todo) \in NpProcType
<1>1. NpIdle \in NpProcType
  BY DEF NpProcType, NpProcRecord, NpIdle, NoSnapshot, Snapshot
<1>2. [c EXCEPT !.pc = "claim", !.todo = todo, !.key = <<0, 0>>] \in NpProcType
  BY DEF NpProcType, NpProcRecord
<1> QED
  BY <1>1, <1>2 DEF GoOn

\* A record more.
LEMMA AppendTyped ==
  ASSUME NpShape, npSource.written < MaxTurns, NEW kind \in {"end", "other"}, NEW at \in Nat,
         Append1(kind, at)
  PROVE  /\ npSource' \in [identity : 1..MaxIdentity, log : Seq(NpRecord), written : 0..MaxTurns]
         /\ Len(npSource.log)' <= npSource.written'
<1> DEFINE r == [turn |-> npSource.written + 1, kind |-> kind, at |-> at]
<1>1. npSource.log \in Seq(NpRecord) /\ npSource.written \in 0..MaxTurns
      /\ Len(npSource.log) <= npSource.written /\ npSource.identity \in 1..MaxIdentity
  BY DEF NpShape
<1>2. r \in NpRecord
  BY <1>1 DEF NpRecord, Turn, Instant
<1>3. Append(npSource.log, r) \in Seq(NpRecord)
      /\ Len(Append(npSource.log, r)) = Len(npSource.log) + 1
  BY <1>1, <1>2
<1>4. npSource' = [npSource EXCEPT !.written = @ + 1, !.log = Append(@, r)]
  BY DEF Append1
<1>5. npSource \in [identity : 1..MaxIdentity, log : Seq(NpRecord), written : 0..MaxTurns]
  BY DEF NpShape
<1>6. npSource' = [identity |-> npSource.identity, log |-> Append(npSource.log, r),
                  written |-> npSource.written + 1]
  BY <1>4, <1>5
<1> HIDE DEF r
<1> QED
  BY <1>1, <1>3, <1>6

LEMMA OutsideTyped ==
  ASSUME NpShape,
         \/ WriteOther
         \/ \E evident \in BOOLEAN : TurnEnds(evident)
         \/ \E turn \in Turn : EvidenceComes(turn)
         \/ SourceRewritten
         \/ SwitchProvider
  PROVE  NpShape'
<1>1. CASE WriteOther
  <2>1. npSource' \in [identity : 1..MaxIdentity, log : Seq(NpRecord), written : 0..MaxTurns]
        /\ Len(npSource.log)' <= npSource.written'
    BY <1>1, AppendTyped DEF WriteOther
  <2> QED  BY <1>1, <2>1 DEF WriteOther, NpShape
<1>2. ASSUME NEW evident \in BOOLEAN, TurnEnds(evident) PROVE NpShape'
  <2>1. npNow \in Nat
    BY DEF NpShape
  <2>2. npSource' \in [identity : 1..MaxIdentity, log : Seq(NpRecord), written : 0..MaxTurns]
        /\ Len(npSource.log)' <= npSource.written'
    BY <1>2, <2>1, AppendTyped DEF TurnEnds
  <2>3. npSource.written + 1 \in Turn
    BY <1>2 DEF TurnEnds, NpShape, Turn
  <2>4. npUnnoticed' \subseteq Turn /\ npUnwanted' \subseteq Turn
    BY <1>2, <2>3 DEF TurnEnds, Unasked, NpShape
  <2> QED  BY <1>2, <2>1, <2>2, <2>3, <2>4 DEF TurnEnds, NpShape
<1>3. ASSUME NEW turn \in Turn, EvidenceComes(turn) PROVE NpShape'
  BY <1>3 DEF EvidenceComes, Unasked, NpShape
<1>4. CASE SourceRewritten
  <2>1. npSource \in [identity : 1..MaxIdentity, log : Seq(NpRecord), written : 0..MaxTurns]
        /\ Len(npSource.log) <= npSource.written
    BY DEF NpShape
  <2>2. SubSeq(npSource.log, 1, Len(npSource.log) - 1) \in Seq(NpRecord)
        /\ Len(SubSeq(npSource.log, 1, Len(npSource.log) - 1)) <= Len(npSource.log)
    <3>1. npSource.log \in Seq(NpRecord) /\ npSource.log # <<>>
      BY <1>4, <2>1 DEF SourceRewritten
    <3> QED  BY <3>1
  <2>3. npSource' \in [identity : 1..MaxIdentity, log : Seq(NpRecord), written : 0..MaxTurns]
        /\ Len(npSource.log)' <= npSource.written'
    <3>1. CASE npSource' = [npSource EXCEPT !.identity = @ + 1] /\ npSource.identity < MaxIdentity
      BY <2>1, <3>1
    <3>2. CASE npSource' = [npSource EXCEPT !.log = SubSeq(@, 1, Len(@) - 1)]
      <4>1. npSource' = [npSource EXCEPT !.log = SubSeq(npSource.log, 1, Len(npSource.log) - 1)]
        BY <2>1, <3>2
      <4>2. PICK l \in Seq(NpRecord) : l = SubSeq(npSource.log, 1, Len(npSource.log) - 1)
        BY <2>2
      <4>3. npSource' = [npSource EXCEPT !.log = l] /\ Len(l) <= Len(npSource.log)
        BY <4>1, <4>2, <2>2
      <4> QED  BY <2>1, <4>3
    <3> QED  BY <1>4, <3>1, <3>2 DEF SourceRewritten
  <2> QED  BY <1>4, <2>3 DEF SourceRewritten, NpShape
<1>5. CASE SwitchProvider
  BY <1>5 DEF SwitchProvider, NpShape
<1> QED
  BY <1>1, <1>2, <1>3, <1>4, <1>5

\* What StageOn makes of the rows and of the stream, when the scan has the
\* source: the local names of its definition.
Activated == IF ~npProvider.enabled THEN npNow + 1 ELSE npProvider.activated
Resets(scan) == ~npProvider.enabled \/ Replaced(scan)
Looked(scan) ==
  IF Resets(scan) THEN (IF LocalOnly THEN scan.events ELSE {})
  ELSE {e \in scan.events : IsFresh(e, StartCursor(scan, Resets(scan)), Activated)}
Entered(scan, k) ==
  /\ k[1] = scan.identity /\ npRows[<<scan.identity, k[2]>>].status = "none"
  /\ \E e \in Looked(scan) : e.turn = k[2]

LEMMA StageOnIs ==
  ASSUME NEW p \in NpProcs, NEW scan \in Snapshot, StageOn(p, scan)
  PROVE  /\ npProvider' = [enabled |-> TRUE, activated |-> Activated]
         /\ npNow' = IF ~npProvider.enabled THEN npNow + 1 ELSE npNow
         /\ scan = NoSnapshot => npRows' = npRows /\ npStream' = npStream
         /\ scan # NoSnapshot =>
              /\ npStream' = [identity |-> scan.identity,
                              cursor |-> Max({StartCursor(scan, Resets(scan)), scan.settled})]
              /\ \E pos \in [NpKey -> 0..MaxTurns] :
                   /\ \A k \in NpKey : Entered(scan, k) =>
                        \E e \in Looked(scan) : e.turn = k[2] /\ pos[k] = e.pos
                   /\ npRows' = [k \in NpKey |->
                        IF Entered(scan, k)
                          THEN [status |-> IF Resets(scan) THEN "skipped" ELSE "pending",
                                pos |-> pos[k]]
                          ELSE npRows[k]]
<1> DEFINE inserted == {e \in Looked(scan) : npRows[<<scan.identity, e.turn>>].status = "none"}
           Pos(k) == (CHOOSE e \in inserted : e.turn = k[2]).pos
           status == IF Resets(scan) THEN "skipped" ELSE "pending"
<1>1. /\ npProvider' = [enabled |-> TRUE, activated |-> Activated]
      /\ npNow' = IF ~npProvider.enabled THEN npNow + 1 ELSE npNow
      /\ IF scan = NoSnapshot
           THEN UNCHANGED <<npRows, npStream>>
           ELSE /\ npRows' = [k \in NpKey |->
                     IF k[1] = scan.identity /\ \E e \in inserted : e.turn = k[2]
                       THEN [status |-> status, pos |-> Pos(k)]
                       ELSE npRows[k]]
                /\ npStream' = [identity |-> scan.identity,
                                cursor |-> Max({StartCursor(scan, Resets(scan)), scan.settled})]
  BY DEF StageOn, Resets, Activated, Looked
<1>2. Looked(scan) \subseteq scan.events /\ scan.events \subseteq NpEvent
  BY DEF Looked, Snapshot
<1>3. \A k \in NpKey : Entered(scan, k)
         <=> (k[1] = scan.identity /\ \E e \in inserted : e.turn = k[2])
  BY DEF Entered
<1>4. \A k \in NpKey : Entered(scan, k) =>
         \E e \in Looked(scan) : e.turn = k[2] /\ Pos(k) = e.pos /\ e.pos \in 0..MaxTurns
  <2>1. TAKE k \in NpKey
  <2>2. HAVE Entered(scan, k)
  <2>3. \E e \in inserted : e.turn = k[2]
    BY <1>3, <2>2
  <2>4. PICK e \in inserted : e.turn = k[2] /\ Pos(k) = e.pos
    BY <2>3
  <2>5. e \in Looked(scan) /\ e.pos \in 1..MaxTurns
    BY <1>2, <2>4 DEF NpEvent
  <2>6. e.pos \in 0..MaxTurns
    BY <2>5
  <2> HIDE DEF Pos, inserted
  <2> QED  BY <2>4, <2>5, <2>6
<1> DEFINE pos == [k \in NpKey |-> IF Entered(scan, k) THEN Pos(k) ELSE 0]
<1>5. ASSUME scan # NoSnapshot
      PROVE  npRows' = [k \in NpKey |->
                        IF Entered(scan, k) THEN [status |-> status, pos |-> pos[k]]
                        ELSE npRows[k]]
  <2>1. \A k \in NpKey :
          (IF k[1] = scan.identity /\ \E e \in inserted : e.turn = k[2]
             THEN [status |-> status, pos |-> Pos(k)] ELSE npRows[k])
          = IF Entered(scan, k) THEN [status |-> status, pos |-> pos[k]] ELSE npRows[k]
    BY <1>3
  <2> HIDE DEF inserted, Pos, pos, status
  <2> QED  BY <1>1, <1>5, <2>1
<1>6. pos \in [NpKey -> 0..MaxTurns]
      /\ \A k \in NpKey : Entered(scan, k) =>
           \E e \in Looked(scan) : e.turn = k[2] /\ pos[k] = e.pos
  <2> HIDE DEF Pos, inserted
  <2>1. \A k \in NpKey : (IF Entered(scan, k) THEN Pos(k) ELSE 0) \in 0..MaxTurns
    BY <1>4
  <2>2. \A k \in NpKey : Entered(scan, k) => pos[k] = Pos(k)
    OBVIOUS
  <2> QED  BY <1>4, <2>1, <2>2
<1> HIDE DEF inserted, Pos, pos
<1> QED
  BY <1>1, <1>5, <1>6

LEMMA RecoveredIs ==
  ASSUME NpShape, NEW keys
  PROVE  /\ Recovered(npRows, keys) \in [NpKey -> NpRowType]
         /\ \A k \in NpKey :
              /\ Recovered(npRows, keys)[k].pos = npRows[k].pos
              /\ \/ Recovered(npRows, keys)[k].status = npRows[k].status
                 \/ /\ npRows[k].status = "delivering"
                    /\ Recovered(npRows, keys)[k].status =
                         IF k \in npQueue THEN "queued" ELSE "unknown"
<1>1. npRows \in [NpKey -> NpRowType]
  BY DEF NpShape
<1>2. ASSUME NEW k \in NpKey, NEW row,
             row = IF k \in keys /\ npRows[k].status = "delivering"
                     THEN [npRows[k] EXCEPT !.status =
                             IF k \in npQueue THEN "queued" ELSE "unknown"]
                     ELSE npRows[k]
      PROVE  /\ row \in NpRowType /\ row.pos = npRows[k].pos
             /\ \/ row.status = npRows[k].status
                \/ /\ npRows[k].status = "delivering"
                   /\ row.status = IF k \in npQueue THEN "queued" ELSE "unknown"
  <2>1. npRows[k] \in NpRowType
    BY <1>1
  <2> QED  BY <1>2, <2>1 DEF NpRowType, NpStatus
<1> QED
  BY <1>2 DEF Recovered

\* What staging does to the turns that are not to be told.
LEMMA StageTurns ==
  ASSUME NpShape, NEW p \in NpProcs, Stage(p)
  PROVE  /\ npUnwanted' \subseteq npUnwanted \cup npUnnoticed /\ npUnnoticed' \subseteq npUnnoticed
         /\ npUnwanted' \subseteq npUnwanted \/ ~npProvider'.enabled
         /\ MutableSource /\ npProc[p].on /\ npProc[p].scan = NoSnapshot =>
              npUnwanted' = {} \/ npProvider.enabled
<1>1. CASE npProc[p].on
  BY <1>1 DEF Stage, StageOn
<1>2. CASE ~npProc[p].on
  BY <1>2 DEF Stage, StageOff, NpShape
<1> QED
  BY <1>1, <1>2

LEMMA StageTyped ==
  ASSUME NpShape, NEW p \in NpProcs, Stage(p)
  PROVE  NpShape'
<1>1. npProc \in [NpProcs -> NpProcType] /\ npProc[p].scan \in Snapshot
  BY DEF NpShape, NpProcType, NpProcRecord
<1>2. npProc' \in [NpProcs -> NpProcType]
  <2>1. NoSnapshot \in Snapshot
    BY DEF NoSnapshot, Snapshot
  <2>2. [npProc[p] EXCEPT !.pc = "list", !.scan = IF LocalOnly THEN NoSnapshot ELSE @]
          \in NpProcType
    BY <1>1, <2>1 DEF NpProcType, NpProcRecord
  <2>3. npProc' = [npProc EXCEPT ![p] = [npProc[p] EXCEPT !.pc = "list",
                                          !.scan = IF LocalOnly THEN NoSnapshot ELSE @]]
    BY <1>1 DEF Stage
  <2> QED  BY <1>1, <2>2, <2>3
<1>3. /\ npNow' \in Nat /\ npProvider' \in [enabled : BOOLEAN, activated : Nat]
      /\ npRows' \in [NpKey -> NpRowType]
      /\ npStream' \in [identity : 0..MaxIdentity, cursor : 0..MaxTurns]
  <2>1. CASE ~npProc[p].on
    <3>1. StageOff
      BY <2>1 DEF Stage
    <3>2. ASSUME NEW k \in NpKey
          PROVE  (IF npRows[k].status = "pending" THEN [npRows[k] EXCEPT !.status = "skipped"]
                  ELSE npRows[k]) \in NpRowType
      BY DEF NpShape, NpRowType, NpStatus
    <3>3. npRows' \in [NpKey -> NpRowType]
      BY <3>1, <3>2 DEF StageOff
    <3> QED  BY <3>1, <3>3 DEF NpShape, StageOff
  <2>2. CASE npProc[p].on
    <3> DEFINE scan == npProc[p].scan
    <3>1. StageOn(p, scan)
      BY <2>2 DEF Stage
    <3>2. npNow \in Nat /\ npProvider \in [enabled : BOOLEAN, activated : Nat]
      BY DEF NpShape
    <3>3. npNow' \in Nat /\ npProvider' \in [enabled : BOOLEAN, activated : Nat]
      <4>1. Activated \in Nat
        BY <3>2 DEF Activated
      <4>2. npProvider' = [enabled |-> TRUE, activated |-> Activated]
            /\ npNow' = IF ~npProvider.enabled THEN npNow + 1 ELSE npNow
        BY <1>1, <3>1, StageOnIs
      <4> QED  BY <3>2, <4>1, <4>2
    <3>4. CASE scan = NoSnapshot
      BY <1>1, <3>1, <3>3, <3>4, StageOnIs DEF NpShape
    <3>5. CASE scan # NoSnapshot
      <4>1. PICK pos \in [NpKey -> 0..MaxTurns] :
              npRows' = [k \in NpKey |->
                        IF Entered(scan, k)
                          THEN [status |-> IF Resets(scan) THEN "skipped" ELSE "pending",
                                pos |-> pos[k]]
                          ELSE npRows[k]]
        BY <1>1, <3>1, <3>5, StageOnIs
      <4>2. npRows \in [NpKey -> NpRowType]
        BY DEF NpShape
      <4>3. \A k \in NpKey : [status |-> IF Resets(scan) THEN "skipped" ELSE "pending",
                               pos |-> pos[k]] \in NpRowType
        BY <4>1 DEF NpRowType, NpStatus
      <4>4. npRows' \in [NpKey -> NpRowType]
        BY <4>1, <4>2, <4>3
      <4>5. StartCursor(scan, Resets(scan)) \in 0..MaxTurns /\ scan.settled \in 0..MaxTurns
            /\ scan.identity \in 0..MaxIdentity
        BY <1>1 DEF NpShape, StartCursor, Snapshot
      <4>6. Max({StartCursor(scan, Resets(scan)), scan.settled}) \in 0..MaxTurns
        <5>1. \A a, b \in 0..MaxTurns : Max({a, b}) = (IF a >= b THEN a ELSE b)
          BY MaxOfTwo
        <5>2. \A a, b \in 0..MaxTurns : Max({a, b}) \in 0..MaxTurns
          BY <5>1
        <5> QED  BY <4>5, <5>2
      <4>7. npStream' = [identity |-> scan.identity,
                        cursor |-> Max({StartCursor(scan, Resets(scan)), scan.settled})]
        BY <1>1, <3>1, <3>5, StageOnIs
      <4> QED  BY <3>3, <4>4, <4>5, <4>6, <4>7
    <3> QED  BY <3>4, <3>5
  <2> QED  BY <2>1, <2>2
<1>4. UNCHANGED <<npOn, npSource, npEvidence, npQueue, npAged, npFaults, npSent, npOwed>>
  BY DEF Stage
<1>5. npUnnoticed' \subseteq Turn /\ npUnwanted' \subseteq Turn
  BY StageTurns DEF NpShape
<1> QED
  BY <1>2, <1>3, <1>4, <1>5 DEF NpShape

LEMMA RoundTyped ==
  ASSUME NpShape, NEW p \in NpProcs,
         Begin(p) \/ NpStep(p) \/ ScanFailsFor(p) \/ RoundDies(p)
  PROVE  NpShape'
<1>1. /\ npProc \in [NpProcs -> NpProcType] /\ npProc[p] \in NpProcType
      /\ npRows \in [NpKey -> NpRowType]
  BY DEF NpShape
<1>2. NoSnapshot \in Snapshot /\ SnapshotNow \in Snapshot
  BY SnapshotTyped DEF NoSnapshot, Snapshot
<1>3. CASE Begin(p)
  <2>1. [npProc[p] EXCEPT !.pc = IF p \in NpForeign THEN "list" ELSE "scan", !.on = npOn]
        \in NpProcType
    BY <1>1 DEF NpProcType, NpProcRecord, NpShape
  <2>2. npProc' = [npProc EXCEPT ![p] = [npProc[p] EXCEPT
                    !.pc = IF p \in NpForeign THEN "list" ELSE "scan", !.on = npOn]]
    BY <1>1, <1>3 DEF Begin
  <2>3. npProc' \in [NpProcs -> NpProcType]
    BY <1>1, <2>1, <2>2
  <2>4. npRows' \in [NpKey -> NpRowType]
    BY <1>3, RecoveredIs DEF Begin
  <2> QED  BY <1>3, <2>3, <2>4 DEF Begin, NpShape
<1>4. CASE NpScan(p) \/ ScanFailsFor(p)
  <2>1. PICK scan \in Snapshot : npProc' = [npProc EXCEPT ![p].pc = "stage", ![p].scan = scan]
    <3>1. CASE NpScan(p)
      BY <1>2, <3>1 DEF NpScan
    <3>2. CASE ScanFailsFor(p)
      BY <1>2, <3>2 DEF ScanFailsFor
    <3> QED  BY <1>4, <3>1, <3>2
  <2>2. [npProc[p] EXCEPT !.pc = "stage", !.scan = scan] \in NpProcType
    BY <1>1 DEF NpProcType, NpProcRecord
  <2>3. npProc' = [npProc EXCEPT ![p] = [npProc[p] EXCEPT !.pc = "stage", !.scan = scan]]
    BY <1>1, <2>1
  <2>4. npProc' \in [NpProcs -> NpProcType]
    BY <1>1, <2>2, <2>3
  <2> QED  BY <1>4, <2>4 DEF NpScan, ScanFailsFor, NpFault, NpShape
<1>5. CASE Stage(p)
  BY <1>5, StageTyped
<1>6. CASE List(p)
  <2>1. npProc' = [npProc EXCEPT ![p] =
                     GoOn(npProc[p], {k \in NpKey : npRows[k].status = "pending"})]
    BY <1>1, <1>6 DEF List
  <2>2. GoOn(npProc[p], {k \in NpKey : npRows[k].status = "pending"}) \in NpProcType
    BY <1>1, GoOnTyped
  <2>3. npProc' \in [NpProcs -> NpProcType]
    BY <1>1, <2>1, <2>2
  <2> QED  BY <1>6, <2>3 DEF List, NpShape
<1>7. ASSUME NEW k \in NpKey, NpClaim(p, k) PROVE NpShape'
  <2>1. CASE npRows[k].status = "pending"
    <3>1. PICK pc \in {"finish", "send"} :
            npProc' = [npProc EXCEPT ![p].pc = pc, ![p].todo = @ \ {k}, ![p].key = k]
      BY <1>7, <2>1 DEF NpClaim
    <3>2. [npProc[p] EXCEPT !.pc = pc, !.todo = @ \ {k}, !.key = k] \in NpProcType
      BY <1>1 DEF NpProcType, NpProcRecord
    <3>3. npProc' = [npProc EXCEPT ![p] = [npProc[p] EXCEPT !.pc = pc, !.todo = @ \ {k}, !.key = k]]
      BY <1>1, <3>1
    <3>4. npProc' \in [NpProcs -> NpProcType]
      BY <1>1, <3>2, <3>3
    <3>5. [npRows[k] EXCEPT !.status = "delivering"] \in NpRowType
      BY <1>1 DEF NpRowType, NpStatus
    <3>6. npRows' = [npRows EXCEPT ![k] = [npRows[k] EXCEPT !.status = "delivering"]]
      BY <1>1, <1>7, <2>1 DEF NpClaim
    <3>7. npRows' \in [NpKey -> NpRowType]
      BY <1>1, <3>5, <3>6
    <3> QED  BY <1>7, <3>4, <3>7 DEF NpClaim, NpShape
  <2>2. CASE npRows[k].status # "pending"
    <3>1. npProc' = [npProc EXCEPT ![p] = GoOn(npProc[p], npProc[p].todo \ {k})] /\ npRows' = npRows
      BY <1>1, <1>7, <2>2 DEF NpClaim
    <3>2. npProc[p].todo \ {k} \in SUBSET NpKey
      BY <1>1 DEF NpProcType, NpProcRecord
    <3>3. npProc' \in [NpProcs -> NpProcType]
      BY <1>1, <3>1, <3>2, GoOnTyped
    <3> QED  BY <1>7, <3>1, <3>3 DEF NpClaim, NpShape
  <2> QED  BY <2>1, <2>2
<1>8. CASE Send(p) \/ NpFinish(p)
  <2> DEFINE k == npProc[p].key
  <2>1. k \in NpKey
    BY <1>1, <1>8 DEF NpProcType, NpProcRecord, Send, NpFinish
  <2>2. CASE Send(p)
    <3>1. npProc' = [npProc EXCEPT ![p] = [npProc[p] EXCEPT !.pc = "finish"]]
      BY <1>1, <2>2 DEF Send
    <3>2. [npProc[p] EXCEPT !.pc = "finish"] \in NpProcType
      BY <1>1, <2>1 DEF NpProcType, NpProcRecord
    <3>3. npProc' \in [NpProcs -> NpProcType]
      BY <1>1, <3>1, <3>2
    <3>4. npQueue' \subseteq NpKey /\ npSent' \in [NpKey -> Nat]
      <4>1. npQueue \subseteq NpKey /\ npSent \in [NpKey -> Nat]
        BY DEF NpShape
      <4>2. npQueue' = npQueue \cup {k}
            /\ npSent' = IF k \in npQueue THEN npSent ELSE [npSent EXCEPT ![k] = @ + 1]
        BY <2>2 DEF Send
      <4>3. [npSent EXCEPT ![k] = @ + 1] \in [NpKey -> Nat]
        BY <2>1, <4>1
      <4> QED  BY <2>1, <4>1, <4>2, <4>3
    <3> QED  BY <2>2, <3>3, <3>4 DEF Send, NpShape
  <2>3. CASE NpFinish(p)
    <3>1. npProc' = [npProc EXCEPT ![p] = GoOn(npProc[p], npProc[p].todo)]
      BY <1>1, <2>3 DEF NpFinish
    <3>2. npProc[p].todo \in SUBSET NpKey
      BY <1>1 DEF NpProcType, NpProcRecord
    <3>3. npProc' \in [NpProcs -> NpProcType]
      BY <1>1, <3>1, <3>2, GoOnTyped
    <3>4. \A status \in NpStatus : [npRows[k] EXCEPT !.status = status] \in NpRowType
      BY <1>1, <2>1 DEF NpRowType
    <3>5. npRows' = IF npRows[k].status = "delivering"
                     THEN [npRows EXCEPT ![k] = [npRows[k] EXCEPT
                             !.status = IF k \in npQueue THEN "queued" ELSE "skipped"]]
                     ELSE npRows
      BY <1>1, <2>1, <2>3 DEF NpFinish
    <3>6. npRows' \in [NpKey -> NpRowType]
      BY <1>1, <3>4, <3>5 DEF NpStatus
    <3> QED  BY <2>3, <3>3, <3>6 DEF NpFinish, NpShape
  <2> QED  BY <1>8, <2>2, <2>3
<1>9. CASE RoundDies(p)
  <2>1. NpIdle \in NpProcType
    BY <1>2 DEF NpProcType, NpProcRecord, NpIdle
  <2>2. npProc' \in [NpProcs -> NpProcType]
    BY <1>1, <1>9, <2>1 DEF RoundDies
  <2> QED  BY <1>9, <2>2 DEF RoundDies, NpFault, NpShape
<1> QED
  BY <1>3, <1>4, <1>5, <1>6, <1>7, <1>8, <1>9 DEF NpStep

LEMMA KeysTyped ==
  ASSUME NpShape, NEW k \in NpKey, Ages(k) \/ Forget(k)
  PROVE  NpShape'
<1>1. CASE Ages(k)
  BY <1>1 DEF Ages, NpFault, NpShape
<1>2. CASE Forget(k)
  <2>1. NoRow \in NpRowType
    BY DEF NoRow, NpRowType, NpStatus
  <2>2. npRows' \in [NpKey -> NpRowType]
    BY <1>2, <2>1 DEF Forget, NpShape
  <2> QED  BY <1>2, <2>2 DEF Forget, NpShape
<1> QED
  BY <1>1, <1>2

LEMMA NpStepTyped ==
  ASSUME NpShape, [NpNext]_npVars
  PROVE  NpShape'
<1>1. CASE NpNext
  BY <1>1, OutsideTyped, RoundTyped, KeysTyped DEF NpNext
<1>2. CASE UNCHANGED npVars
  BY <1>2 DEF npVars, NpShape
<1> QED
  BY <1>1, <1>2

\* Columns, files and local variables stay in their domains.
THEOREM NativeProbeHasType == NpSpec => []NpTypeOK
<1>1. NpInit => NpShape
  BY NpShapeInit
<1>2. NpShape /\ [NpNext]_npVars => NpShape'
  BY NpStepTyped
<1>3. NpShape => NpTypeOK
  BY ShapeHasType
<1> QED
  BY <1>1, <1>2, <1>3, PTL DEF NpSpec

(***************************************************************************)
(* What is told of a key.                                                  *)
(***************************************************************************)
NpLog == npSource.log

LEMMA ShapeNumbers ==
  ASSUME NpShape
  PROVE  /\ npSource.identity \in Nat /\ npSource.identity # 0 /\ npSource.written \in Nat
         /\ npStream.identity \in Nat /\ npStream.cursor \in Nat
         /\ npRows \in [NpKey -> NpRowType] /\ npEvidence \subseteq Nat
         /\ NpLog = npSource.log /\ NpLog \in Seq(NpRecord) /\ Len(NpLog) \in Nat
<1>1. npSource \in [identity : 1..MaxIdentity, log : Seq(NpRecord), written : 0..MaxTurns]
  BY DEF NpShape
<1>2. npSource.identity \in 1..MaxIdentity /\ npSource.written \in 0..MaxTurns
      /\ npSource.log \in Seq(NpRecord)
  BY <1>1
<1>3. npStream.identity \in 0..MaxIdentity /\ npStream.cursor \in 0..MaxTurns
  BY DEF NpShape
<1>4. npRows \in [NpKey -> NpRowType] /\ npEvidence \subseteq Nat
  BY DEF NpShape, Turn
<1>5. NpLog = npSource.log
  BY DEF NpLog
<1> QED
  BY <1>2, <1>3, <1>4, <1>5

\* What the parts of the store know of each other (see the head of this module).
InLog(t) == \E i \in 1..Len(NpLog) : NpLog[i].turn = t
Staging(p, i) == npProc[p].pc = "stage" /\ npProc[p].scan.identity = i
Shows(p, t) == \E e \in npProc[p].scan.events : e.turn = t
InHand(p, k) == npProc[p].pc \in {"send", "finish"} /\ npProc[p].key = k
PastCursor(t) ==
  \A i \in 1..Len(NpLog) : NpLog[i].turn = t =>
    i < npStream.cursor \/ (~MutableSource /\ i = npStream.cursor)
Forgotten(k) == npSent[k] > 0 /\ npRows[k].status = "none"

LogInv ==
  /\ \A i \in 1..Len(NpLog) :
       /\ NpLog[i].turn <= npSource.written
       /\ NpLog[i].turn \in npEvidence => NpLog[i].kind = "end"
  /\ \A i, j \in 1..Len(NpLog) : i < j => NpLog[i].turn < NpLog[j].turn
  /\ \A t \in npEvidence : t <= npSource.written
ScanInv ==
  \A p \in NpProcs : npProc[p].pc = "stage" =>
    /\ npProc[p].scan.identity <= npSource.identity
    /\ npProc[p].scan.count <= Len(NpLog)
    /\ npProc[p].scan # NoSnapshot => npProc[p].scan.identity # 0
    /\ \A e \in npProc[p].scan.events :
         /\ e.pos \in 1..npProc[p].scan.count
         /\ NpLog[e.pos].turn = e.turn /\ NpLog[e.pos].at = e.at
         /\ e.turn \in npEvidence
RowInv ==
  \A k \in NpKey :
    /\ npSent[k] > 0 \/ npRows[k].status # "none" =>
         k[1] <= npSource.identity /\ k[2] \in npEvidence /\ npStream # NoStream
    /\ npRows[k].status # "none" =>
         \A i \in 1..Len(NpLog) : NpLog[i].turn = k[2] => npRows[k].pos = i
HandInv ==
  \A k \in NpKey :
    /\ npSent[k] <= 1
    /\ k \in npQueue => npSent[k] > 0
    /\ npRows[k].status = "pending" => npSent[k] = 0
    /\ \A p \in NpProcs : InHand(p, k) =>
         /\ npRows[k].status \notin {"none", "pending"}
         /\ npProc[p].pc = "send" => npSent[k] = 0 /\ npRows[k].status \in {"delivering", "unknown"}
         /\ \A q \in NpProcs : InHand(q, k) => p = q
ForgottenInv ==
  \A k \in NpKey : Forgotten(k) =>
    /\ \A p \in NpProcs : Staging(p, k[1]) => Shows(p, k[2]) \/ ~InLog(k[2])
    /\ npStream.identity = k[1] => PastCursor(k[2])
StreamInv ==
  /\ npStream.identity <= npSource.identity
  /\ npStream # NoStream => npStream.identity # 0
NpKeyInv == LogInv /\ ScanInv /\ StreamInv /\ RowInv /\ HandInv /\ ForgottenInv

\* What a step of the provider's program, or of the user, does to the source.
Outside ==
  \/ WriteOther
  \/ \E evident \in BOOLEAN : TurnEnds(evident)
  \/ \E turn \in Turn : EvidenceComes(turn)
  \/ SourceRewritten
  \/ SwitchProvider
Grown(i) ==
  /\ i = Len(NpLog) + 1 /\ NpLog'[i].turn = npSource.written + 1
  /\ npSource.written' = npSource.written + 1
  /\ npSource.written + 1 \in npEvidence' => NpLog'[i].kind = "end"
  /\ NpLog'[i].at <= npNow'

LEMMA GrownBy ==
  ASSUME NpShape, NEW kind \in {"end", "other"}, NEW at \in Nat, Append1(kind, at)
  PROVE  /\ npSource'.identity = npSource.identity
         /\ npSource'.written = npSource.written + 1
         /\ Len(NpLog') = Len(NpLog) + 1
         /\ \A i \in 1..Len(NpLog) : NpLog'[i] = NpLog[i]
         /\ NpLog'[Len(NpLog) + 1] = [turn |-> npSource.written + 1, kind |-> kind, at |-> at]
<1> DEFINE r == [turn |-> npSource.written + 1, kind |-> kind, at |-> at]
<1>1. NpLog \in Seq(NpRecord)
  BY DEF NpShape, NpLog
<1>2. npSource' = [npSource EXCEPT !.written = @ + 1, !.log = Append(@, r)]
  BY DEF Append1
<1>3. npSource'.identity = npSource.identity /\ npSource'.written = npSource.written + 1
      /\ NpLog' = Append(NpLog, r)
  BY <1>2 DEF NpShape, NpLog
<1> HIDE DEF r
<1>4. Len(Append(NpLog, r)) = Len(NpLog) + 1
      /\ (\A i \in 1..Len(NpLog) : Append(NpLog, r)[i] = NpLog[i])
      /\ Append(NpLog, r)[Len(NpLog) + 1] = r
  BY <1>1
<1> QED
  BY <1>3, <1>4 DEF r

OutsideFacts ==
  /\ UNCHANGED <<npProvider, npStream, npRows, npQueue, npProc, npAged, npFaults, npSent>>
  /\ npSource.identity <= npSource'.identity
  /\ npSource.written <= npSource'.written
  /\ npNow <= npNow'
  /\ npEvidence \subseteq npEvidence'
  /\ \A i \in 1..Len(NpLog') : Grown(i) \/ (i \in 1..Len(NpLog) /\ NpLog'[i] = NpLog[i])
  /\ Len(NpLog) <= Len(NpLog') \/ \A p \in NpProcs : npProc[p].pc # "stage"
  /\ \A t \in npEvidence' \ npEvidence :
       /\ t <= npSource'.written
       /\ \A i \in 1..Len(NpLog') : NpLog'[i].turn = t => NpLog'[i].kind = "end"

LEMMA OutsideIs ==
  ASSUME NpShape, LogInv, Outside
  PROVE  OutsideFacts
<1>0. /\ NpLog \in Seq(NpRecord) /\ npNow \in Nat
      /\ npSource.written \in Nat /\ npSource.identity \in Nat
      /\ \A i \in 1..Len(NpLog) : NpLog[i].turn \in Nat
      /\ npSource = [identity |-> npSource.identity, log |-> NpLog, written |-> npSource.written]
  <2>1. NpLog \in Seq(NpRecord)
    BY DEF NpShape, NpLog
  <2>2. \A i \in 1..Len(NpLog) : NpLog[i] \in NpRecord
    BY <2>1
  <2>3. \A r \in NpRecord : r.turn \in Nat
    BY DEF NpRecord, Turn
  <2> QED  BY <2>1, <2>2, <2>3 DEF NpShape, NpLog
<1>1. CASE WriteOther
  <2>1. Append1("other", 0)
    BY <1>1 DEF WriteOther
  <2>2. /\ npSource'.identity = npSource.identity
        /\ npSource'.written = npSource.written + 1
        /\ Len(NpLog') = Len(NpLog) + 1
        /\ \A i \in 1..Len(NpLog) : NpLog'[i] = NpLog[i]
        /\ NpLog'[Len(NpLog) + 1] = [turn |-> npSource.written + 1, kind |-> "other", at |-> 0]
    BY <2>1, GrownBy
  <2>3. npSource.written + 1 \notin npEvidence
    BY <1>0 DEF LogInv
  <2>4. npEvidence' = npEvidence /\ npNow' = npNow
    BY <1>1 DEF WriteOther
  <2>5. Grown(Len(NpLog) + 1)
    BY <1>0, <2>2, <2>3, <2>4 DEF Grown
  <2>6. \A i \in 1..Len(NpLog') : i = Len(NpLog) + 1 \/ i \in 1..Len(NpLog)
    BY <1>0, <2>2
  <2>7. UNCHANGED <<npProvider, npStream, npRows, npQueue, npProc, npAged, npFaults, npSent>>
    BY <1>1 DEF WriteOther
  <2> QED  BY <1>0, <2>2, <2>4, <2>5, <2>6, <2>7 DEF OutsideFacts
<1>2. ASSUME NEW evident \in BOOLEAN, TurnEnds(evident) PROVE OutsideFacts
  <2>1. Append1("end", npNow + 1)
    BY <1>2 DEF TurnEnds
  <2>2. /\ npSource'.identity = npSource.identity
        /\ npSource'.written = npSource.written + 1
        /\ Len(NpLog') = Len(NpLog) + 1
        /\ \A i \in 1..Len(NpLog) : NpLog'[i] = NpLog[i]
        /\ NpLog'[Len(NpLog) + 1] =
             [turn |-> npSource.written + 1, kind |-> "end", at |-> npNow + 1]
    BY <1>0, <2>1, GrownBy
  <2>3. npNow' = npNow + 1
        /\ npEvidence' \in {npEvidence, npEvidence \cup {npSource.written + 1}}
    BY <1>2 DEF TurnEnds
  <2>4. Grown(Len(NpLog) + 1)
    BY <1>0, <2>2, <2>3 DEF Grown
  <2>5. \A i \in 1..Len(NpLog') : i = Len(NpLog) + 1 \/ i \in 1..Len(NpLog)
    BY <1>0, <2>2
  <2>6. UNCHANGED <<npProvider, npStream, npRows, npQueue, npProc, npAged, npFaults, npSent>>
    BY <1>2 DEF TurnEnds
  <2>7. \A t \in npEvidence' \ npEvidence : t = npSource.written + 1
    BY <2>3
  <2>8. ASSUME NEW i \in 1..Len(NpLog'), NpLog'[i].turn = npSource.written + 1
        PROVE  NpLog'[i].kind = "end"
    <3>1. CASE i = Len(NpLog) + 1
      BY <2>2, <3>1
    <3>2. CASE i \in 1..Len(NpLog)
      BY <1>0, <2>2, <2>8, <3>2 DEF LogInv
    <3> QED  BY <2>5, <3>1, <3>2
  <2> QED  BY <1>0, <2>2, <2>3, <2>4, <2>5, <2>6, <2>7, <2>8 DEF OutsideFacts
<1>3. ASSUME NEW turn \in Turn, EvidenceComes(turn) PROVE OutsideFacts
  <2>1. PICK n \in EndsOf(NpLog) : NpLog[n].turn = turn
    BY <1>3 DEF EvidenceComes, NpLog
  <2>2. n \in 1..Len(NpLog) /\ NpLog[n].kind = "end"
    BY <1>0, <2>1 DEF EndsOf
  <2>3. npSource' = npSource /\ npNow' = npNow /\ npEvidence' = npEvidence \cup {turn}
        /\ UNCHANGED <<npProvider, npStream, npRows, npQueue, npProc, npAged, npFaults, npSent>>
    BY <1>3 DEF EvidenceComes
  <2>4. NpLog' = NpLog
    BY <2>3 DEF NpLog
  <2>5. \A i \in 1..Len(NpLog) : NpLog[i].turn = turn => i = n
    <3>1. ASSUME NEW i \in 1..Len(NpLog), NpLog[i].turn = NpLog[n].turn PROVE i = n
      <4>1. CASE i < n
        BY <1>0, <2>2, <3>1, <4>1 DEF LogInv
      <4>2. CASE n < i
        BY <1>0, <2>2, <3>1, <4>2 DEF LogInv
      <4> QED  BY <1>0, <2>2, <4>1, <4>2
    <3> QED  BY <2>1, <3>1
  <2>6. turn <= npSource.written
    BY <2>1, <2>2 DEF LogInv
  <2> QED  BY <1>0, <2>2, <2>3, <2>4, <2>5, <2>6 DEF OutsideFacts
<1>4. CASE SourceRewritten
  <2>1. npNow' = npNow /\ npEvidence' = npEvidence
        /\ UNCHANGED <<npProvider, npStream, npRows, npQueue, npProc, npAged, npFaults, npSent>>
    BY <1>4 DEF SourceRewritten
  <2>2. CASE npSource' = [npSource EXCEPT !.identity = @ + 1]
    <3>1. NpLog' = NpLog /\ npSource'.written = npSource.written
          /\ npSource'.identity = npSource.identity + 1
      BY <1>0, <2>2 DEF NpLog
    <3> QED  BY <1>0, <2>1, <3>1 DEF OutsideFacts
  <2>3. CASE /\ \A p \in NpProcs : npProc[p].pc # "stage"
             /\ npSource' = [npSource EXCEPT !.log = SubSeq(@, 1, Len(@) - 1)]
    <3>1. NpLog' = SubSeq(NpLog, 1, Len(NpLog) - 1) /\ npSource'.written = npSource.written
          /\ npSource'.identity = npSource.identity
      BY <1>0, <2>3 DEF NpLog
    <3>2. NpLog # <<>>
      BY <1>4 DEF SourceRewritten, NpLog
    <3>3. \A i \in 1..Len(SubSeq(NpLog, 1, Len(NpLog) - 1)) :
            i \in 1..Len(NpLog) /\ SubSeq(NpLog, 1, Len(NpLog) - 1)[i] = NpLog[i]
      BY <1>0, <3>2
    <3> QED  BY <1>0, <2>1, <2>3, <3>1, <3>3 DEF OutsideFacts
  <2> QED  BY <1>4, <2>2, <2>3 DEF SourceRewritten
<1>5. CASE SwitchProvider
  <2>1. npSource' = npSource /\ npNow' = npNow + 1 /\ npEvidence' = npEvidence
        /\ UNCHANGED <<npProvider, npStream, npRows, npQueue, npProc, npAged, npFaults, npSent>>
    BY <1>5 DEF SwitchProvider
  <2>2. NpLog' = NpLog
    BY <2>1 DEF NpLog
  <2> QED  BY <1>0, <2>1, <2>2 DEF OutsideFacts
<1> QED
  BY <1>1, <1>2, <1>3, <1>4, <1>5 DEF Outside

\* The log stays a log of turns in their order.
LEMMA OutsideLog ==
  ASSUME NpShape, NpShape', LogInv, OutsideFacts
  PROVE  LogInv'
<1>0. /\ npSource.written \in Nat /\ npSource'.written \in Nat
      /\ NpLog \in Seq(NpRecord) /\ NpLog' \in Seq(NpRecord)
      /\ \A i \in 1..Len(NpLog) : NpLog[i].turn \in Nat
      /\ \A i \in 1..Len(NpLog') : NpLog'[i].turn \in Nat
      /\ npEvidence \subseteq Nat
  <2>1. NpLog \in Seq(NpRecord) /\ NpLog' \in Seq(NpRecord)
    BY DEF NpShape, NpLog
  <2>2. \A i \in 1..Len(NpLog) : NpLog[i] \in NpRecord
    BY <2>1
  <2>3. \A i \in 1..Len(NpLog') : NpLog'[i] \in NpRecord
    BY <2>1
  <2>4. \A r \in NpRecord : r.turn \in Nat
    BY DEF NpRecord, Turn
  <2>5. npSource'.written \in 0..MaxTurns
    BY DEF NpShape
  <2> QED  BY <2>1, <2>2, <2>3, <2>4, <2>5, ShapeNumbers
<1>1. ASSUME NEW i \in 1..Len(NpLog') PROVE NpLog'[i].turn <= npSource'.written
  <2>1. CASE Grown(i)
    BY <1>0, <1>1, <2>1 DEF Grown
  <2>2. CASE i \in 1..Len(NpLog) /\ NpLog'[i] = NpLog[i]
    <3>1. NpLog[i].turn <= npSource.written /\ npSource.written <= npSource'.written
      BY <2>2 DEF OutsideFacts, LogInv
    <3> QED  BY <1>0, <2>2, <3>1
  <2> QED  BY <1>1, <2>1, <2>2 DEF OutsideFacts
<1>2. ASSUME NEW i \in 1..Len(NpLog'), NpLog'[i].turn \in npEvidence'
      PROVE  NpLog'[i].kind = "end"
  <2>1. CASE Grown(i)
    BY <1>2, <2>1 DEF Grown
  <2>2. CASE i \in 1..Len(NpLog) /\ NpLog'[i] = NpLog[i]
    <3>1. CASE NpLog[i].turn \in npEvidence
      BY <2>2, <3>1 DEF LogInv
    <3>2. CASE NpLog[i].turn \notin npEvidence
      BY <1>2, <2>2, <3>2 DEF OutsideFacts
    <3> QED  BY <3>1, <3>2
  <2> QED  BY <1>2, <2>1, <2>2 DEF OutsideFacts
<1>3. ASSUME NEW i \in 1..Len(NpLog'), NEW j \in 1..Len(NpLog'), i < j
      PROVE  NpLog'[i].turn < NpLog'[j].turn
  <2>1. i \in 1..Len(NpLog) /\ NpLog'[i] = NpLog[i]
    <3>1. CASE Grown(i)
      BY <1>0, <1>3, <3>1 DEF OutsideFacts, Grown
    <3> QED  BY <3>1 DEF OutsideFacts
  <2>2. CASE Grown(j)
    BY <1>0, <2>1, <2>2 DEF Grown, LogInv
  <2>3. CASE j \in 1..Len(NpLog) /\ NpLog'[j] = NpLog[j]
    BY <1>3, <2>1, <2>3 DEF LogInv
  <2> QED  BY <2>2, <2>3 DEF OutsideFacts
<1>4. ASSUME NEW t \in npEvidence' PROVE t <= npSource'.written
  BY <1>0, <1>4 DEF OutsideFacts, LogInv
<1> QED
  BY <1>1, <1>2, <1>3, <1>4 DEF LogInv, NpLog

\* A turn whose evidence came is in the log where it was, or is not there.
LEMMA OldTurns ==
  ASSUME NpShape, LogInv, OutsideFacts, NEW t \in npEvidence
  PROVE  \A i \in 1..Len(NpLog') : NpLog'[i].turn = t => i \in 1..Len(NpLog) /\ NpLog[i].turn = t
<1>1. t <= npSource.written /\ t \in Nat /\ npSource.written \in Nat
  BY ShapeNumbers DEF LogInv
<1>2. ASSUME NEW i \in 1..Len(NpLog'), NpLog'[i].turn = t PROVE ~Grown(i)
  BY <1>1, <1>2 DEF Grown
<1> QED
  BY <1>2 DEF OutsideFacts

LEMMA OutsideKeepsKeys ==
  ASSUME NpShape, NpShape', NpKeyInv, OutsideFacts
  PROVE  NpKeyInv'
<1>0. /\ LogInv /\ ScanInv /\ StreamInv /\ RowInv /\ HandInv /\ ForgottenInv
      /\ UNCHANGED <<npProvider, npStream, npRows, npQueue, npProc, npAged, npFaults, npSent>>
      /\ Len(NpLog) \in Nat /\ Len(NpLog') \in Nat /\ NpLog' = npSource'.log
      /\ npSource.identity \in Nat /\ npSource'.identity \in Nat
  BY DEF NpKeyInv, OutsideFacts, NpShape, NpLog
<1>1. LogInv'
  BY <1>0, OutsideLog
<1>2. ScanInv'
  <2>1. SUFFICES ASSUME NEW p \in NpProcs, npProc[p].pc = "stage"
        PROVE  /\ npProc[p].scan.identity <= npSource'.identity
               /\ npProc[p].scan.count <= Len(NpLog')
               /\ npProc[p].scan # NoSnapshot => npProc[p].scan.identity # 0
               /\ \A e \in npProc[p].scan.events :
                    /\ e.pos \in 1..npProc[p].scan.count
                    /\ NpLog'[e.pos].turn = e.turn /\ NpLog'[e.pos].at = e.at
                    /\ e.turn \in npEvidence'
    BY <1>0 DEF ScanInv
  <2>2. npProc[p].scan \in Snapshot
    BY DEF NpShape, NpProcType, NpProcRecord
  <2>3. Len(NpLog) <= Len(NpLog')
    BY <2>1 DEF OutsideFacts
  <2>4. npProc[p].scan.identity <= npSource'.identity
    <3>1. npProc[p].scan.identity \in Nat
      BY <2>2 DEF Snapshot
    <3>2. npProc[p].scan.identity <= npSource.identity
      BY <1>0, <2>1 DEF ScanInv
    <3>3. npSource.identity <= npSource'.identity
      BY DEF OutsideFacts
    <3> QED  BY <1>0, <3>1, <3>2, <3>3
  <2>5. npProc[p].scan.count <= Len(NpLog')
    BY <1>0, <2>1, <2>2, <2>3 DEF ScanInv, Snapshot
  <2>6. ASSUME NEW e \in npProc[p].scan.events
        PROVE  /\ e.pos \in 1..npProc[p].scan.count
               /\ NpLog'[e.pos].turn = e.turn /\ NpLog'[e.pos].at = e.at
               /\ e.turn \in npEvidence'
    <3>1. /\ e.pos \in 1..npProc[p].scan.count /\ npProc[p].scan.count <= Len(NpLog)
          /\ NpLog[e.pos].turn = e.turn /\ NpLog[e.pos].at = e.at /\ e.turn \in npEvidence
      BY <1>0, <2>1 DEF ScanInv
    <3>2. e.pos \in 1..Len(NpLog') /\ e.pos <= Len(NpLog)
      BY <1>0, <2>2, <2>3, <3>1 DEF Snapshot
    <3>3. ~Grown(e.pos)
      BY <1>0, <3>2 DEF Grown
    <3> QED  BY <3>1, <3>2, <3>3 DEF OutsideFacts
  <2> QED  BY <1>0, <2>1, <2>4, <2>5, <2>6 DEF ScanInv
<1>3. StreamInv'
  BY <1>0 DEF StreamInv, OutsideFacts, NpShape
<1>4. RowInv'
  <2>1. SUFFICES ASSUME NEW k \in NpKey
        PROVE  /\ npSent[k] > 0 \/ npRows[k].status # "none" =>
                    k[1] <= npSource'.identity /\ k[2] \in npEvidence' /\ npStream # NoStream
               /\ npRows[k].status # "none" =>
                    \A i \in 1..Len(NpLog') : NpLog'[i].turn = k[2] => npRows[k].pos = i
    BY <1>0 DEF RowInv
  <2>2. k[1] \in Nat
    BY DEF NpKey
  <2>3. ASSUME npSent[k] > 0 \/ npRows[k].status # "none"
        PROVE  k[1] <= npSource'.identity /\ k[2] \in npEvidence' /\ npStream # NoStream
    BY <1>0, <2>2, <2>3 DEF RowInv, OutsideFacts
  <2>4. ASSUME npRows[k].status # "none", NEW i \in 1..Len(NpLog'), NpLog'[i].turn = k[2]
        PROVE  npRows[k].pos = i
    <3>1. k[2] \in npEvidence
      BY <1>0, <2>4 DEF RowInv
    <3>2. i \in 1..Len(NpLog) /\ NpLog[i].turn = k[2]
      BY <1>0, <2>4, <3>1, OldTurns
    <3> QED  BY <1>0, <2>4, <3>2 DEF RowInv
  <2> QED  BY <2>3, <2>4
<1>5. HandInv'
  BY <1>0 DEF HandInv, InHand
<1>6. ForgottenInv'
  <2>1. SUFFICES ASSUME NEW k \in NpKey, Forgotten(k)
        PROVE  /\ \A p \in NpProcs : Staging(p, k[1]) => Shows(p, k[2]) \/ ~InLog(k[2])'
               /\ npStream.identity = k[1] => PastCursor(k[2])'
    BY <1>0 DEF ForgottenInv, Forgotten, Staging, Shows
  <2>2. k[2] \in npEvidence
    BY <1>0, <2>1 DEF RowInv, Forgotten
  <2>3. \A i \in 1..Len(NpLog') : NpLog'[i].turn = k[2] =>
          i \in 1..Len(NpLog) /\ NpLog[i].turn = k[2]
    BY <1>0, <2>2, OldTurns
  <2>4. InLog(k[2])' => InLog(k[2])
    BY <2>3 DEF InLog
  <2>5. PastCursor(k[2]) => PastCursor(k[2])'
    BY <1>0, <2>3 DEF PastCursor
  <2> QED  BY <1>0, <2>1, <2>4, <2>5 DEF ForgottenInv
<1> QED
  BY <1>1, <1>2, <1>3, <1>4, <1>5, <1>6 DEF NpKeyInv

RoundStep(p) == Begin(p) \/ NpStep(p) \/ ScanFailsFor(p) \/ RoundDies(p)

LEMMA GoesOn ==
  ASSUME NEW c \in NpProcType, NEW todo
  PROVE  GoOn(c, todo).pc \in {"idle", "claim"} /\ GoOn(c, todo).on \in {FALSE, c.on}
BY DEF GoOn, NpIdle, NpProcType, NpProcRecord

\* What a step of a round does to the processes.
LEMMA RoundIs ==
  ASSUME NpShape, NEW p \in NpProcs, RoundStep(p)
  PROVE  /\ \A q \in NpProcs \ {p} : npProc'[q] = npProc[q]
         /\ UNCHANGED <<npOn, npSource, npEvidence>>
         /\ npProc'[p].pc = "stage" =>
              /\ NpScan(p) \/ ScanFailsFor(p)
              /\ npProc'[p].scan = NoSnapshot \/ (npProc'[p].scan = SnapshotNow /\ npProc'[p].on)
         /\ \A k : InHand(p, k)' =>
              \/ Send(p) /\ InHand(p, k) /\ npProc'[p].pc = "finish"
              \/ k \in NpKey /\ NpClaim(p, k) /\ npRows[k].status = "pending"
         /\ npProc'[p].on # npProc[p].on =>
              (Begin(p) /\ npProc'[p].on = npOn) \/ ~npProc'[p].on
         /\ npProc'[p].pc # "idle" =>
              npProc[p].pc # "idle" \/ (Begin(p) /\ npProc'[p].on = npOn)
<1>0. npProc \in [NpProcs -> NpProcType] /\ npProc[p] \in NpProcType
  BY DEF NpShape
<1>1. CASE Begin(p)
  <2>1. npProc' = [npProc EXCEPT ![p] = [npProc[p] EXCEPT
                    !.pc = IF p \in NpForeign THEN "list" ELSE "scan", !.on = npOn]]
    BY <1>0, <1>1 DEF Begin
  <2>2. npProc'[p] = [npProc[p] EXCEPT
                    !.pc = IF p \in NpForeign THEN "list" ELSE "scan", !.on = npOn]
    BY <1>0, <2>1
  <2>3. npProc'[p].pc \in {"list", "scan"} /\ npProc'[p].on = npOn
    BY <1>0, <2>2 DEF NpProcType, NpProcRecord
  <2> QED  BY <1>0, <1>1, <2>1, <2>3 DEF Begin, InHand
<1>2. CASE NpScan(p)
  <2>1. npProc' = [npProc EXCEPT ![p] = [npProc[p] EXCEPT !.pc = "stage",
                             !.scan = IF npProc[p].on THEN SnapshotNow ELSE NoSnapshot]]
    BY <1>0, <1>2 DEF NpScan
  <2>2. npProc'[p].pc = "stage" /\ npProc'[p].on = npProc[p].on
        /\ npProc'[p].scan = (IF npProc[p].on THEN SnapshotNow ELSE NoSnapshot)
    BY <1>0, <2>1 DEF NpProcType, NpProcRecord
  <2> QED  BY <1>0, <1>2, <2>1, <2>2 DEF NpScan, InHand
<1>3. CASE ScanFailsFor(p)
  <2>1. npProc' = [npProc EXCEPT ![p] = [npProc[p] EXCEPT !.pc = "stage", !.scan = NoSnapshot]]
    BY <1>0, <1>3 DEF ScanFailsFor
  <2>2. npProc'[p].pc = "stage" /\ npProc'[p].on = npProc[p].on /\ npProc'[p].scan = NoSnapshot
    BY <1>0, <2>1 DEF NpProcType, NpProcRecord
  <2> QED  BY <1>0, <1>3, <2>1, <2>2 DEF ScanFailsFor, InHand
<1>4. CASE Stage(p)
  <2>1. npProc' = [npProc EXCEPT ![p] = [npProc[p] EXCEPT !.pc = "list",
                                          !.scan = IF LocalOnly THEN NoSnapshot ELSE @]]
    BY <1>0, <1>4 DEF Stage
  <2>2. npProc'[p].pc = "list" /\ npProc'[p].on = npProc[p].on
    BY <1>0, <2>1 DEF NpProcType, NpProcRecord
  <2> QED  BY <1>0, <1>4, <2>1, <2>2 DEF Stage, InHand
<1>5. CASE List(p)
  <2>1. npProc' = [npProc EXCEPT ![p] =
                     GoOn(npProc[p], {k \in NpKey : npRows[k].status = "pending"})]
    BY <1>0, <1>5 DEF List
  <2>2. npProc'[p].pc \in {"idle", "claim"} /\ npProc'[p].on \in {FALSE, npProc[p].on}
    BY <1>0, <2>1, GoesOn
  <2> QED  BY <1>0, <1>5, <2>1, <2>2 DEF List, InHand, NpProcType, NpProcRecord
<1>6. ASSUME NEW k \in NpKey, NpClaim(p, k), npRows[k].status = "pending"
      PROVE  /\ \A q \in NpProcs \ {p} : npProc'[q] = npProc[q]
             /\ npProc'[p].key = k /\ npProc'[p].pc \in {"send", "finish"}
             /\ npProc'[p].on = npProc[p].on /\ npProc[p].pc = "claim"
  <2>1. PICK pc \in {"finish", "send"} :
          npProc' = [npProc EXCEPT ![p].pc = pc, ![p].todo = @ \ {k}, ![p].key = k]
    BY <1>6 DEF NpClaim
  <2>2. npProc' = [npProc EXCEPT ![p] = [npProc[p] EXCEPT !.pc = pc, !.todo = @ \ {k}, !.key = k]]
    BY <1>0, <2>1
  <2> QED  BY <1>0, <1>6, <2>2 DEF NpClaim, NpProcType, NpProcRecord
<1>7. ASSUME NEW k \in NpKey, NpClaim(p, k), npRows[k].status # "pending"
      PROVE  /\ \A q \in NpProcs \ {p} : npProc'[q] = npProc[q]
             /\ npProc'[p].pc \in {"idle", "claim"}
             /\ npProc'[p].on \in {FALSE, npProc[p].on} /\ npProc[p].pc = "claim"
  <2>1. npProc' = [npProc EXCEPT ![p] = GoOn(npProc[p], npProc[p].todo \ {k})]
    BY <1>0, <1>7 DEF NpClaim
  <2> QED  BY <1>0, <1>7, <2>1, GoesOn DEF NpClaim
<1>8. CASE Send(p)
  <2>1. npProc' = [npProc EXCEPT ![p] = [npProc[p] EXCEPT !.pc = "finish"]]
    BY <1>0, <1>8 DEF Send
  <2>2. npProc'[p].pc = "finish" /\ npProc'[p].on = npProc[p].on /\ npProc'[p].key = npProc[p].key
    BY <1>0, <2>1 DEF NpProcType, NpProcRecord
  <2> QED  BY <1>0, <1>8, <2>1, <2>2 DEF Send, InHand
<1>9. CASE NpFinish(p)
  <2>1. npProc' = [npProc EXCEPT ![p] = GoOn(npProc[p], npProc[p].todo)]
    BY <1>0, <1>9 DEF NpFinish
  <2>2. npProc'[p].pc \in {"idle", "claim"} /\ npProc'[p].on \in {FALSE, npProc[p].on}
    BY <1>0, <2>1, GoesOn
  <2> QED  BY <1>0, <1>9, <2>1, <2>2 DEF NpFinish, InHand, NpProcType, NpProcRecord
<1>10. CASE RoundDies(p)
  <2>1. npProc'[p] = NpIdle
    BY <1>0, <1>10 DEF RoundDies
  <2>2. npProc'[p].pc = "idle" /\ npProc'[p].on = FALSE
    BY <2>1 DEF NpIdle
  <2> QED  BY <1>0, <1>10, <2>2 DEF RoundDies, InHand
<1>11. CASE \E k \in NpKey : NpClaim(p, k)
  <2>1. PICK k \in NpKey : NpClaim(p, k)
    BY <1>11
  <2>2. UNCHANGED <<npOn, npSource, npEvidence>>
    BY <2>1 DEF NpClaim
  <2>3. CASE npRows[k].status = "pending"
    BY <1>6, <2>1, <2>2, <2>3 DEF InHand
  <2>4. CASE npRows[k].status # "pending"
    BY <1>0, <1>7, <2>1, <2>2, <2>4 DEF InHand, NpProcType, NpProcRecord
  <2> QED  BY <2>3, <2>4
<1> QED
  BY <1>1, <1>2, <1>3, <1>4, <1>5, <1>8, <1>9, <1>10, <1>11 DEF RoundStep, NpStep

\* The scan of the source is staged, and not only the setting.
StagesScan(p) == Stage(p) /\ npProc[p].on /\ npProc[p].scan # NoSnapshot

\* What a step of a round may do to a row.
Moved(p, k) ==
  LET old == npRows[k].status
      new == npRows'[k].status IN
  /\ npRows'[k].pos = npRows[k].pos
  /\ \/ new = old
     \/ old = "delivering" /\ new = IF k \in npQueue THEN "queued" ELSE "unknown"
     \/ old = "pending" /\ new = "skipped"
     \/ old = "pending" /\ NpClaim(p, k) /\ new = "delivering"
     \/ old = "delivering" /\ NpFinish(p) /\ InHand(p, k) /\ new \in {"queued", "skipped"}

LEMMA RowsMove ==
  ASSUME NpShape, NEW p \in NpProcs, RoundStep(p), ~StagesScan(p)
  PROVE  npStream' = npStream /\ \A k \in NpKey : Moved(p, k)
<1>0. npProc[p] \in NpProcType /\ npRows \in [NpKey -> NpRowType]
  BY DEF NpShape
<1>1. CASE Begin(p)
  BY <1>1, RecoveredIs DEF Begin, Moved
<1>2. CASE NpScan(p) \/ ScanFailsFor(p) \/ List(p) \/ Send(p) \/ RoundDies(p)
  BY <1>2 DEF NpScan, ScanFailsFor, List, Send, RoundDies, Moved
<1>3. CASE Stage(p)
  <2>1. CASE ~npProc[p].on
    <3>1. StageOff
      BY <1>3, <2>1 DEF Stage
    <3>2. ASSUME NEW k \in NpKey PROVE Moved(p, k)
      <4>1. npRows'[k] = IF npRows[k].status = "pending"
                         THEN [npRows[k] EXCEPT !.status = "skipped"] ELSE npRows[k]
        BY <3>1 DEF StageOff
      <4>2. npRows[k] \in NpRowType
        BY <1>0
      <4> QED  BY <4>1, <4>2 DEF Moved, NpRowType
    <3> QED  BY <3>1, <3>2 DEF StageOff
  <2>2. CASE npProc[p].on
    <3>1. npProc[p].scan = NoSnapshot /\ npProc[p].scan \in Snapshot
      BY <1>0, <1>3, <2>2 DEF StagesScan, NpProcType, NpProcRecord
    <3>2. StageOn(p, npProc[p].scan)
      BY <1>3, <2>2 DEF Stage
    <3>3. npRows' = npRows /\ npStream' = npStream
      BY <3>1, <3>2, StageOnIs
    <3> QED  BY <3>3 DEF Moved
  <2> QED  BY <2>1, <2>2
<1>4. ASSUME NEW c \in NpKey, NpClaim(p, c)
      PROVE  npStream' = npStream /\ \A k \in NpKey : Moved(p, k)
  <2>1. npStream' = npStream
    BY <1>4 DEF NpClaim
  <2>2. CASE npRows[c].status = "pending"
    <3>1. npRows' = [npRows EXCEPT ![c] = [npRows[c] EXCEPT !.status = "delivering"]]
      BY <1>0, <1>4, <2>2 DEF NpClaim
    <3>2. ASSUME NEW k \in NpKey PROVE Moved(p, k)
      <4>1. npRows[k] \in NpRowType
        BY <1>0
      <4>2. CASE k = c
        <5>1. npRows'[k] = [npRows[k] EXCEPT !.status = "delivering"]
          BY <1>0, <3>1, <4>2
        <5> QED  BY <1>4, <2>2, <4>1, <4>2, <5>1 DEF Moved, NpRowType
      <4>3. CASE k # c
        BY <1>0, <3>1, <4>3 DEF Moved
      <4> QED  BY <4>2, <4>3
    <3> QED  BY <2>1, <3>2
  <2>3. CASE npRows[c].status # "pending"
    BY <1>4, <2>1, <2>3 DEF NpClaim, Moved
  <2> QED  BY <2>2, <2>3
<1>5. CASE NpFinish(p)
  <2> DEFINE c == npProc[p].key
  <2>1. c \in NpKey /\ InHand(p, c)
    BY <1>0, <1>5 DEF NpProcType, NpProcRecord, NpFinish, InHand
  <2>2. npRows' = IF npRows[c].status = "delivering"
                 THEN [npRows EXCEPT ![c] = [npRows[c] EXCEPT
                         !.status = IF c \in npQueue THEN "queued" ELSE "skipped"]]
                 ELSE npRows
    BY <1>0, <1>5, <2>1 DEF NpFinish
  <2>3. ASSUME NEW k \in NpKey PROVE Moved(p, k)
    <3>1. npRows[k] \in NpRowType
      BY <1>0
    <3>2. CASE k = c /\ npRows[c].status = "delivering"
      <4>1. npRows'[k] = [npRows[k] EXCEPT !.status = IF k \in npQueue THEN "queued" ELSE "skipped"]
        BY <1>0, <2>2, <3>2
      <4> QED  BY <1>5, <2>1, <3>1, <3>2, <4>1 DEF Moved, NpRowType
    <3>3. CASE ~(k = c /\ npRows[c].status = "delivering")
      BY <1>0, <2>2, <3>3 DEF Moved
    <3> QED  BY <3>2, <3>3
  <2> QED  BY <1>5, <2>3 DEF NpFinish
<1> QED
  BY <1>1, <1>2, <1>3, <1>4, <1>5 DEF RoundStep, NpStep

LEMMA QueueMoves ==
  ASSUME NpShape, NEW p \in NpProcs, RoundStep(p)
  PROVE  \/ npQueue' = npQueue /\ npSent' = npSent
         \/ /\ Send(p) /\ npProc[p].key \in NpKey /\ InHand(p, npProc[p].key)
            /\ npQueue' = npQueue \cup {npProc[p].key}
            /\ npSent' = IF npProc[p].key \in npQueue THEN npSent
                         ELSE [npSent EXCEPT ![npProc[p].key] = @ + 1]
<1>1. CASE Send(p)
  BY <1>1 DEF Send, InHand, NpShape, NpProcType, NpProcRecord
<1>2. CASE ~Send(p)
  BY <1>2 DEF RoundStep, NpStep, Begin, NpScan, ScanFailsFor, Stage, List, NpClaim, NpFinish,
              RoundDies
<1> QED
  BY <1>1, <1>2

\* What a scan shows is what the log holds, with its evidence.
LEMMA SnapshotShows ==
  ASSUME NpShape, LogInv
  PROVE  /\ SnapshotNow.identity = npSource.identity /\ SnapshotNow.count = Len(NpLog)
         /\ SnapshotNow # NoSnapshot
         /\ \A e \in SnapshotNow.events :
              /\ e.pos \in 1..Len(NpLog) /\ NpLog[e.pos].turn = e.turn
              /\ NpLog[e.pos].at = e.at /\ e.turn \in npEvidence
         /\ \A t \in npEvidence : InLog(t) => \E e \in SnapshotNow.events : e.turn = t
<1>1. /\ SnapshotNow.identity = npSource.identity /\ SnapshotNow.count = Len(NpLog)
      /\ SnapshotNow.events = EventsOf(NpLog, npEvidence)
  BY DEF SnapshotNow, NpLog
<1>2. SnapshotNow # NoSnapshot
  BY <1>1 DEF NoSnapshot, NpShape
<1>3. NpLog \in Seq(NpRecord)
  BY DEF NpShape, NpLog
<1>4. ASSUME NEW e \in EventsOf(NpLog, npEvidence)
      PROVE  /\ e.pos \in 1..Len(NpLog) /\ NpLog[e.pos].turn = e.turn
             /\ NpLog[e.pos].at = e.at /\ e.turn \in npEvidence
  <2>1. PICK i \in {j \in EndsOf(NpLog) : NpLog[j].turn \in npEvidence} :
          e = [turn |-> NpLog[i].turn, pos |-> i, at |-> NpLog[i].at]
    BY <1>4 DEF EventsOf
  <2>2. i \in 1..Len(NpLog) /\ NpLog[i].turn \in npEvidence
    BY <1>3, <2>1 DEF EndsOf
  <2> QED  BY <2>1, <2>2
<1>5. ASSUME NEW t \in npEvidence, InLog(t)
      PROVE  \E e \in EventsOf(NpLog, npEvidence) : e.turn = t
  <2>1. PICK i \in 1..Len(NpLog) : NpLog[i].turn = t
    BY <1>5 DEF InLog
  <2>2. i \in EndsOf(NpLog)
    BY <1>3, <1>5, <2>1 DEF EndsOf, LogInv
  <2>3. [turn |-> NpLog[i].turn, pos |-> i, at |-> NpLog[i].at] \in EventsOf(NpLog, npEvidence)
    BY <1>5, <2>1, <2>2 DEF EventsOf
  <2> QED  BY <2>1, <2>3
<1> QED
  BY <1>1, <1>2, <1>4, <1>5

LEMMA RoundKeepsKeys ==
  ASSUME NpShape, NpShape', NpKeyInv, NEW p \in NpProcs, RoundStep(p), ~StagesScan(p)
  PROVE  NpKeyInv'
<1>0. /\ LogInv /\ ScanInv /\ StreamInv /\ RowInv /\ HandInv /\ ForgottenInv
      /\ Len(NpLog) \in Nat
      /\ \A k \in NpKey : npSent[k] \in Nat /\ npSent'[k] \in Nat
      /\ \A k \in NpKey : npRows[k].status \in NpStatus
  BY DEF NpKeyInv, NpShape, NpLog, NpRowType
<1>1. /\ \A q \in NpProcs \ {p} : npProc'[q] = npProc[q]
      /\ UNCHANGED <<npOn, npSource, npEvidence>>
      /\ npProc'[p].pc = "stage" =>
           npProc'[p].scan = NoSnapshot \/ npProc'[p].scan = SnapshotNow
      /\ \A k : InHand(p, k)' =>
           \/ Send(p) /\ InHand(p, k) /\ npProc'[p].pc = "finish"
           \/ k \in NpKey /\ NpClaim(p, k) /\ npRows[k].status = "pending"
  BY RoundIs
<1>2. npStream' = npStream /\ \A k \in NpKey : Moved(p, k)
  BY RowsMove
<1>3. /\ NpLog' = NpLog
      /\ npQueue \subseteq npQueue'
  BY <1>1, QueueMoves DEF NpLog
<1>4. ASSUME NEW k \in NpKey
      PROVE  \/ npSent'[k] = npSent[k] /\ (k \in npQueue' => k \in npQueue)
             \/ Send(p) /\ InHand(p, k) /\ npSent[k] = 0 /\ npSent'[k] = 1
  <2>1. CASE npQueue' = npQueue /\ npSent' = npSent
    BY <2>1
  <2>2. CASE /\ Send(p) /\ npProc[p].key \in NpKey /\ InHand(p, npProc[p].key)
             /\ npQueue' = npQueue \cup {npProc[p].key}
             /\ npSent' = IF npProc[p].key \in npQueue THEN npSent
                          ELSE [npSent EXCEPT ![npProc[p].key] = @ + 1]
    <3>1. CASE k # npProc[p].key
      BY <2>2, <3>1 DEF NpShape
    <3>2. CASE k = npProc[p].key
      <4>1. npProc[p].pc = "send"
        BY <2>2 DEF Send
      <4>2. npSent[k] = 0 /\ k \notin npQueue
        BY <1>0, <2>2, <3>2, <4>1 DEF HandInv
      <4>3. npSent'[k] = npSent[k] + 1
        BY <2>2, <3>2, <4>2 DEF NpShape
      <4> QED  BY <2>2, <3>2, <4>2, <4>3
    <3> QED  BY <3>1, <3>2
  <2> QED  BY <2>1, <2>2, QueueMoves
<1>5. ASSUME NEW k \in NpKey
      PROVE  /\ npRows'[k].status = "none" <=> npRows[k].status = "none"
             /\ npRows'[k].status = "pending" => npRows[k].status = "pending"
             /\ npRows'[k].pos = npRows[k].pos
  BY <1>2 DEF Moved
<1>6. LogInv'
  BY <1>0, <1>1, <1>3 DEF LogInv
<1>7. ASSUME npProc'[p].pc = "stage", npProc'[p].scan # NoSnapshot
      PROVE  /\ npProc'[p].scan.identity = npSource.identity
             /\ npProc'[p].scan.count = Len(NpLog)
             /\ \A e \in npProc'[p].scan.events :
                  /\ e.pos \in 1..Len(NpLog) /\ NpLog[e.pos].turn = e.turn
                  /\ NpLog[e.pos].at = e.at /\ e.turn \in npEvidence
             /\ \A t \in npEvidence : InLog(t) => \E e \in npProc'[p].scan.events : e.turn = t
  BY <1>0, <1>1, <1>7, SnapshotShows
<1>8. ScanInv'
  <2>1. SUFFICES ASSUME NEW q \in NpProcs, npProc'[q].pc = "stage"
        PROVE  /\ npProc'[q].scan.identity <= npSource.identity
               /\ npProc'[q].scan.count <= Len(NpLog)
               /\ npProc'[q].scan # NoSnapshot => npProc'[q].scan.identity # 0
               /\ \A e \in npProc'[q].scan.events :
                    /\ e.pos \in 1..npProc'[q].scan.count
                    /\ NpLog[e.pos].turn = e.turn /\ NpLog[e.pos].at = e.at
                    /\ e.turn \in npEvidence
    BY <1>1, <1>3 DEF ScanInv
  <2>2. CASE q # p
    BY <1>0, <1>1, <2>1, <2>2 DEF ScanInv
  <2>3. CASE q = p /\ npProc'[p].scan = NoSnapshot
    <3>1. npProc'[q].scan.identity = 0 /\ npProc'[q].scan.count = 0
          /\ npProc'[q].scan.events = {}
      BY <2>3 DEF NoSnapshot
    <3> QED  BY <2>3, <3>1, ShapeNumbers
  <2>4. CASE q = p /\ npProc'[p].scan # NoSnapshot
    <3>1. npProc'[q].scan.identity = npSource.identity /\ npProc'[q].scan.count = Len(NpLog)
          /\ \A e \in npProc'[q].scan.events :
                  /\ e.pos \in 1..Len(NpLog) /\ NpLog[e.pos].turn = e.turn
                  /\ NpLog[e.pos].at = e.at /\ e.turn \in npEvidence
      BY <1>7, <2>1, <2>4
    <3>2. npSource.identity \in Nat /\ npSource.identity # 0
      BY ShapeNumbers
    <3> QED  BY <1>0, <3>1, <3>2
  <2> QED  BY <2>2, <2>3, <2>4
<1>9. StreamInv'
  BY <1>0, <1>1, <1>2 DEF StreamInv
<1>10. RowInv'
  <2>1. SUFFICES ASSUME NEW k \in NpKey
        PROVE  /\ npSent'[k] > 0 \/ npRows'[k].status # "none" =>
                    k[1] <= npSource.identity /\ k[2] \in npEvidence /\ npStream # NoStream
               /\ npRows'[k].status # "none" =>
                    \A i \in 1..Len(NpLog) : NpLog[i].turn = k[2] => npRows'[k].pos = i
    BY <1>1, <1>2, <1>3 DEF RowInv
  <2>2. npSent'[k] > 0 => npSent[k] > 0 \/ npRows[k].status # "none"
    BY <1>0, <1>4 DEF HandInv
  <2> QED  BY <1>0, <1>5, <2>2 DEF RowInv
<1>11. HandInv'
  <2>1. SUFFICES ASSUME NEW k \in NpKey
        PROVE  /\ npSent'[k] <= 1
               /\ k \in npQueue' => npSent'[k] > 0
               /\ npRows'[k].status = "pending" => npSent'[k] = 0
               /\ \A q \in NpProcs : InHand(q, k)' =>
                    /\ npRows'[k].status \notin {"none", "pending"}
                    /\ npProc'[q].pc = "send" =>
                         npSent'[k] = 0 /\ npRows'[k].status \in {"delivering", "unknown"}
                    /\ \A r \in NpProcs : InHand(r, k)' => q = r
    BY DEF HandInv
  <2>2. npSent'[k] <= 1 /\ (k \in npQueue' => npSent'[k] > 0)
    BY <1>0, <1>4 DEF HandInv
  <2>3. npRows'[k].status = "pending" => npSent'[k] = 0
    BY <1>0, <1>4, <1>5 DEF HandInv
  <2>4. CASE NpClaim(p, k) /\ npRows[k].status = "pending"
    <3>1. npRows'[k].status = "delivering" /\ npSent'[k] = 0
      <4>1. npRows[k].status = "pending" /\ npSent[k] = 0 /\ npSent' = npSent
        BY <1>0, <2>4 DEF HandInv, NpClaim
      <4>2. npRows' = [npRows EXCEPT ![k].status = "delivering"]
        BY <2>4 DEF NpClaim
      <4> QED  BY <4>1, <4>2 DEF NpShape, NpRowType
    <3>2. \A q \in NpProcs : ~InHand(q, k)
      BY <1>0, <2>4 DEF HandInv
    <3>3. \A q \in NpProcs : InHand(q, k)' => q = p
      BY <1>1, <3>2 DEF InHand
    <3> QED  BY <2>2, <2>3, <3>1, <3>3
  <2>5. CASE ~(NpClaim(p, k) /\ npRows[k].status = "pending")
    <3>1. ASSUME NEW q \in NpProcs, InHand(q, k)'
          PROVE  InHand(q, k) /\ (npProc'[q].pc = "send" => npProc[q].pc = "send" /\ q # p)
      BY <1>1, <2>5, <3>1 DEF InHand
    <3>2. ASSUME NEW q \in NpProcs, InHand(q, k)'
          PROVE  /\ npRows'[k].status \notin {"none", "pending"}
                 /\ npProc'[q].pc = "send" =>
                      npSent'[k] = 0 /\ npRows'[k].status \in {"delivering", "unknown"}
      <4>1. InHand(q, k) /\ npRows[k].status \notin {"none", "pending"}
        BY <1>0, <3>1, <3>2 DEF HandInv
      <4>2. npRows'[k].status \notin {"none", "pending"}
        BY <1>5, <4>1
      <4>3. ASSUME npProc'[q].pc = "send"
            PROVE  npSent'[k] = 0 /\ npRows'[k].status \in {"delivering", "unknown"}
        <5>1. npProc[q].pc = "send" /\ q # p
          BY <3>1, <3>2, <4>3
        <5>2. /\ npSent[k] = 0 /\ npRows[k].status \in {"delivering", "unknown"}
              /\ ~InHand(p, k) /\ k \notin npQueue
          BY <1>0, <4>1, <5>1 DEF HandInv
        <5> QED  BY <1>2, <1>4, <5>2 DEF Moved
      <4> QED  BY <4>2, <4>3
    <3>3. \A q, r \in NpProcs : InHand(q, k)' /\ InHand(r, k)' => q = r
      BY <1>0, <3>1 DEF HandInv
    <3> QED  BY <2>2, <2>3, <3>2, <3>3
  <2> QED  BY <2>4, <2>5
<1>12. ForgottenInv'
  <2>1. SUFFICES ASSUME NEW k \in NpKey, Forgotten(k)'
        PROVE  /\ \A q \in NpProcs : Staging(q, k[1])' => Shows(q, k[2])' \/ ~InLog(k[2])
               /\ npStream.identity = k[1] => PastCursor(k[2])
    BY <1>1, <1>2, <1>3 DEF ForgottenInv, InLog, PastCursor
  <2>2. npRows[k].status = "none"
    BY <1>5, <2>1 DEF Forgotten
  <2>3. Forgotten(k)
    BY <1>0, <1>4, <2>1, <2>2 DEF Forgotten, HandInv
  <2>4. k[2] \in npEvidence /\ k[1] # 0
    BY <1>0, <2>3 DEF RowInv, Forgotten, NpKey
  <2>5. ASSUME NEW q \in NpProcs, Staging(q, k[1])', InLog(k[2]) PROVE Shows(q, k[2])'
    <3>1. CASE q # p
      <4>1. Staging(q, k[1]) /\ Shows(q, k[2])
        BY <1>0, <1>1, <2>3, <2>5, <3>1 DEF ForgottenInv, Staging
      <4> QED  BY <1>1, <3>1, <4>1 DEF Shows
    <3>2. CASE q = p
      <4>1. npProc'[p].pc = "stage" /\ npProc'[p].scan # NoSnapshot
        BY <2>4, <2>5, <3>2 DEF Staging, NoSnapshot
      <4> QED  BY <1>7, <2>4, <2>5, <3>2, <4>1 DEF Shows
    <3> QED  BY <3>1, <3>2
  <2> QED  BY <1>0, <2>3, <2>5 DEF ForgottenInv
<1> QED
  BY <1>6, <1>8, <1>9, <1>10, <1>11, <1>12 DEF NpKeyInv

\* A turn stands once in the log.
LEMMA OnePlace ==
  ASSUME NpShape, LogInv, NEW i \in 1..Len(NpLog), NEW j \in 1..Len(NpLog),
         NpLog[i].turn = NpLog[j].turn
  PROVE  i = j
<1>1. NpLog \in Seq(NpRecord)
  BY DEF NpShape, NpLog
<1>2. NpLog[i].turn \in Nat
  <2>1. NpLog[i] \in NpRecord
    BY <1>1
  <2> QED  BY <2>1 DEF NpRecord, Turn
<1>3. ~(i < j) /\ ~(j < i)
  BY <1>2 DEF LogInv
<1> QED
  BY <1>1, <1>3

\* What staging a scan does to the rows, the stream and the processes.
LEMMA StagingIs ==
  ASSUME NpShape, ScanInv, NEW p \in NpProcs, StagesScan(p)
  PROVE  LET scan == npProc[p].scan IN
         /\ scan \in Snapshot /\ Staging(p, scan.identity) /\ scan.identity # 0
         /\ npProc'[p].pc = "list" /\ npProc'[p].on
         /\ \A q \in NpProcs \ {p} : npProc'[q] = npProc[q]
         /\ UNCHANGED <<npOn, npSource, npEvidence, npQueue, npAged, npFaults, npSent>>
         /\ npProvider' = [enabled |-> TRUE, activated |-> Activated]
         /\ npNow' = IF ~npProvider.enabled THEN npNow + 1 ELSE npNow
         /\ StartCursor(scan, Resets(scan)) \in Nat
         /\ npStream'.identity = scan.identity /\ npStream' # NoStream
         /\ npStream'.cursor >= StartCursor(scan, Resets(scan))
         /\ Looked(scan) \subseteq scan.events
         /\ \A k \in NpKey :
              IF Entered(scan, k)
                THEN /\ npRows'[k].status = IF Resets(scan) THEN "skipped" ELSE "pending"
                     /\ \E e \in Looked(scan) : e.turn = k[2] /\ npRows'[k].pos = e.pos
                ELSE npRows'[k] = npRows[k]
<1> DEFINE scan == npProc[p].scan
<1>1. npProc \in [NpProcs -> NpProcType] /\ npProc[p] \in NpProcType /\ scan \in Snapshot
      /\ npStream.cursor \in Nat
  BY DEF NpShape, NpProcType, NpProcRecord
<1>2. Stage(p) /\ npProc[p].on /\ scan # NoSnapshot /\ npProc[p].pc = "stage"
  BY DEF StagesScan, Stage
<1>3. scan.identity # 0
  BY <1>2 DEF ScanInv
<1>4. npProc'[p].pc = "list" /\ npProc'[p].on /\ \A q \in NpProcs \ {p} : npProc'[q] = npProc[q]
  <2>1. npProc' = [npProc EXCEPT ![p] = [npProc[p] EXCEPT !.pc = "list",
                                          !.scan = IF LocalOnly THEN NoSnapshot ELSE @]]
    BY <1>1, <1>2 DEF Stage
  <2> QED  BY <1>1, <1>2, <2>1 DEF NpProcType, NpProcRecord
<1>5. UNCHANGED <<npOn, npSource, npEvidence, npQueue, npAged, npFaults, npSent>>
  BY <1>2 DEF Stage
<1>6. StageOn(p, scan)
  BY <1>2 DEF Stage
<1>7. scan.settled \in Nat /\ scan.count \in Nat
  BY <1>1 DEF Snapshot
<1>8. StartCursor(scan, Resets(scan)) \in Nat
  BY <1>1, <1>7 DEF StartCursor
<1>9. Looked(scan) \subseteq scan.events
  BY DEF Looked
<1> HIDE DEF scan
<1>10. /\ npProvider' = [enabled |-> TRUE, activated |-> Activated]
       /\ npNow' = IF ~npProvider.enabled THEN npNow + 1 ELSE npNow
       /\ npStream' = [identity |-> scan.identity,
                       cursor |-> Max({StartCursor(scan, Resets(scan)), scan.settled})]
       /\ \E pos \in [NpKey -> 0..MaxTurns] :
            /\ \A k \in NpKey : Entered(scan, k) =>
                 \E e \in Looked(scan) : e.turn = k[2] /\ pos[k] = e.pos
            /\ npRows' = [k \in NpKey |->
                 IF Entered(scan, k)
                   THEN [status |-> IF Resets(scan) THEN "skipped" ELSE "pending",
                         pos |-> pos[k]]
                   ELSE npRows[k]]
  BY <1>1, <1>2, <1>6, StageOnIs
<1>11. /\ npStream'.identity = scan.identity /\ npStream' # NoStream
       /\ npStream'.cursor >= StartCursor(scan, Resets(scan))
  <2>1. npStream'.identity = scan.identity
        /\ npStream'.cursor = Max({StartCursor(scan, Resets(scan)), scan.settled})
    BY <1>10
  <2>2. Max({StartCursor(scan, Resets(scan)), scan.settled}) >= StartCursor(scan, Resets(scan))
    BY <1>7, <1>8, MaxOfTwo
  <2> QED  BY <1>3, <2>1, <2>2 DEF NoStream
<1>12. ASSUME NEW k \in NpKey
       PROVE  IF Entered(scan, k)
                THEN /\ npRows'[k].status = IF Resets(scan) THEN "skipped" ELSE "pending"
                     /\ \E e \in Looked(scan) : e.turn = k[2] /\ npRows'[k].pos = e.pos
                ELSE npRows'[k] = npRows[k]
  <2>1. PICK pos \in [NpKey -> 0..MaxTurns] :
            /\ \A c \in NpKey : Entered(scan, c) =>
                 \E e \in Looked(scan) : e.turn = c[2] /\ pos[c] = e.pos
            /\ npRows' = [c \in NpKey |->
                 IF Entered(scan, c)
                   THEN [status |-> IF Resets(scan) THEN "skipped" ELSE "pending",
                         pos |-> pos[c]]
                   ELSE npRows[c]]
    BY <1>10
  <2>2. npRows'[k] = IF Entered(scan, k)
                   THEN [status |-> IF Resets(scan) THEN "skipped" ELSE "pending",
                         pos |-> pos[k]]
                   ELSE npRows[k]
    BY <2>1
  <2>3. CASE Entered(scan, k)
    <3>1. npRows'[k] = [status |-> IF Resets(scan) THEN "skipped" ELSE "pending", pos |-> pos[k]]
      BY <2>2, <2>3
    <3>2. npRows'[k].status = (IF Resets(scan) THEN "skipped" ELSE "pending")
          /\ npRows'[k].pos = pos[k]
      BY <3>1
    <3> QED  BY <2>1, <2>3, <3>2
  <2> QED  BY <2>2, <2>3
<1> QED
  BY <1>1, <1>2, <1>3, <1>4, <1>5, <1>8, <1>9, <1>10, <1>11, <1>12 DEF scan, Staging

LEMMA StageKeepsKeys ==
  ASSUME NpShape, NpShape', NpKeyInv, NEW p \in NpProcs, StagesScan(p)
  PROVE  NpKeyInv'
<1> DEFINE scan == npProc[p].scan
<1>0. /\ LogInv /\ ScanInv /\ StreamInv /\ RowInv /\ HandInv /\ ForgottenInv
      /\ Len(NpLog) \in Nat /\ NpLog' = npSource'.log /\ NpLog = npSource.log
      /\ \A k \in NpKey : npSent[k] \in Nat
      /\ npStream.cursor \in Nat /\ npStream'.cursor \in Nat
  BY DEF NpKeyInv, NpShape, NpLog
<1>1. /\ scan \in Snapshot /\ Staging(p, scan.identity) /\ scan.identity # 0
      /\ npProc'[p].pc = "list" /\ npProc'[p].on
      /\ \A q \in NpProcs \ {p} : npProc'[q] = npProc[q]
      /\ UNCHANGED <<npOn, npSource, npEvidence, npQueue, npSent>>
      /\ StartCursor(scan, Resets(scan)) \in Nat
      /\ npStream'.identity = scan.identity /\ npStream' # NoStream
      /\ npStream'.cursor >= StartCursor(scan, Resets(scan))
      /\ Looked(scan) \subseteq scan.events
      /\ \A k \in NpKey :
           IF Entered(scan, k)
             THEN /\ npRows'[k].status = IF Resets(scan) THEN "skipped" ELSE "pending"
                  /\ \E e \in Looked(scan) : e.turn = k[2] /\ npRows'[k].pos = e.pos
             ELSE npRows'[k] = npRows[k]
  BY <1>0, StagingIs
<1>2. /\ scan.identity <= npSource.identity /\ scan.count <= Len(NpLog)
      /\ \A e \in scan.events :
           /\ e.pos \in 1..scan.count /\ e.pos \in 1..Len(NpLog)
           /\ NpLog[e.pos].turn = e.turn
           /\ e.turn \in npEvidence
  <2>1. scan.count \in Nat
    BY <1>1 DEF Snapshot
  <2>2. /\ scan.identity <= npSource.identity /\ scan.count <= Len(NpLog)
        /\ \A e \in scan.events :
           /\ e.pos \in 1..scan.count
           /\ NpLog[e.pos].turn = e.turn
           /\ e.turn \in npEvidence
    BY <1>0, <1>1 DEF ScanInv, Staging
  <2> QED  BY <1>0, <2>1, <2>2
<1> HIDE DEF scan
<1>3. NpLog' = NpLog
  BY <1>0, <1>1
<1>4. LogInv'
  BY <1>0, <1>1, <1>3 DEF LogInv
<1>5. ScanInv'
  <2>1. ASSUME NEW q \in NpProcs, npProc'[q].pc = "stage" PROVE q # p /\ npProc'[q] = npProc[q]
    BY <1>1, <2>1
  <2> QED  BY <1>0, <1>1, <1>3, <2>1 DEF ScanInv
<1>6. StreamInv'
  BY <1>1, <1>2 DEF StreamInv
\* a row that appears is of the scan
<1>7. ASSUME NEW k \in NpKey, Entered(scan, k)
      PROVE  /\ k[1] = scan.identity /\ npRows[k].status = "none" /\ k[2] \in npEvidence
             /\ \E e \in Looked(scan) : e.turn = k[2] /\ npRows'[k].pos = e.pos
             /\ npRows'[k].status # "none" /\ npRows'[k].status # "queued"
  <2>1. k = <<scan.identity, k[2]>>
    BY <1>7 DEF Entered, NpKey
  <2> QED  BY <1>1, <1>2, <1>7, <2>1 DEF Entered
<1>8. RowInv'
  <2>1. SUFFICES ASSUME NEW k \in NpKey
        PROVE  /\ npSent[k] > 0 \/ npRows'[k].status # "none" =>
                    k[1] <= npSource.identity /\ k[2] \in npEvidence
               /\ npRows'[k].status # "none" =>
                    \A i \in 1..Len(NpLog) : NpLog[i].turn = k[2] => npRows'[k].pos = i
    BY <1>1, <1>3 DEF RowInv
  <2>2. CASE Entered(scan, k)
    <3>1. PICK e \in Looked(scan) : e.turn = k[2] /\ npRows'[k].pos = e.pos
      BY <1>7, <2>2
    <3>2. e.pos \in 1..Len(NpLog) /\ NpLog[e.pos].turn = k[2]
      BY <1>1, <1>2, <3>1
    <3>3. \A i \in 1..Len(NpLog) : NpLog[i].turn = k[2] => i = e.pos
      BY <1>0, <3>2, OnePlace
    <3> QED  BY <1>2, <1>7, <2>2, <3>1, <3>3
  <2>3. CASE ~Entered(scan, k)
    BY <1>0, <1>1, <2>3 DEF RowInv
  <2> QED  BY <2>2, <2>3
\* a turn already told is not in what is looked at, unless the stream is reset
<1>9. ASSUME NEW k \in NpKey, Entered(scan, k), ~Resets(scan) PROVE npSent[k] = 0
  <2>1. SUFFICES ASSUME npSent[k] > 0 PROVE FALSE
    BY <1>0
  <2>2. Forgotten(k) /\ npStream # NoStream /\ k[1] = scan.identity
    BY <1>0, <1>7, <1>9, <2>1 DEF Forgotten, RowInv
  <2>3. npStream.identity = k[1] /\ StartCursor(scan, Resets(scan)) = npStream.cursor
    BY <1>9, <2>2 DEF Resets, Replaced, StartCursor
  <2>4. PastCursor(k[2])
    BY <1>0, <2>2, <2>3 DEF ForgottenInv
  <2>5. PICK e \in Looked(scan) : e.turn = k[2]
    BY <1>7, <1>9
  <2>6. e \in scan.events /\ IsFresh(e, npStream.cursor, Activated)
    BY <1>9, <2>3, <2>5 DEF Looked
  <2>7. e.pos \in 1..Len(NpLog) /\ NpLog[e.pos].turn = k[2]
    BY <1>2, <2>5, <2>6
  <2>8. e.pos < npStream.cursor \/ (~MutableSource /\ e.pos = npStream.cursor)
    BY <2>4, <2>7 DEF PastCursor
  <2>9. e.pos > npStream.cursor \/ (MutableSource /\ e.pos = npStream.cursor)
    BY <2>6 DEF IsFresh
  <2> QED  BY <1>0, <2>7, <2>8, <2>9
<1>10. HandInv'
  <2>1. SUFFICES ASSUME NEW k \in NpKey
        PROVE  /\ npSent[k] <= 1
               /\ k \in npQueue => npSent[k] > 0
               /\ npRows'[k].status = "pending" => npSent[k] = 0
               /\ \A q \in NpProcs : InHand(q, k)' =>
                    /\ npRows'[k].status \notin {"none", "pending"}
                    /\ npProc'[q].pc = "send" =>
                         npSent[k] = 0 /\ npRows'[k].status \in {"delivering", "unknown"}
                    /\ \A r \in NpProcs : InHand(r, k)' => q = r
    BY <1>1 DEF HandInv
  <2>2. ASSUME NEW q \in NpProcs, InHand(q, k)' PROVE InHand(q, k) /\ npProc'[q] = npProc[q]
    BY <1>1, <2>2 DEF InHand
  <2>3. CASE Entered(scan, k)
    <3>1. /\ npRows[k].status = "none"
          /\ npRows'[k].status = (IF Resets(scan) THEN "skipped" ELSE "pending")
      BY <1>1, <1>7, <2>3
    <3>2. \A q \in NpProcs : ~InHand(q, k)
      BY <1>0, <3>1 DEF HandInv
    <3>3. npRows'[k].status = "pending" => npSent[k] = 0
      BY <1>9, <2>3, <3>1
    <3> QED  BY <1>0, <2>2, <3>2, <3>3 DEF HandInv
  <2>4. CASE ~Entered(scan, k)
    <3>1. npRows'[k] = npRows[k]
      BY <1>1, <2>4
    <3> QED  BY <1>0, <2>2, <3>1 DEF HandInv
  <2> QED  BY <2>3, <2>4
<1>11. ForgottenInv'
  <2>1. SUFFICES ASSUME NEW k \in NpKey, Forgotten(k)'
        PROVE  /\ \A q \in NpProcs : Staging(q, k[1])' => Shows(q, k[2])' \/ ~InLog(k[2])
               /\ npStream'.identity = k[1] => PastCursor(k[2])'
    BY <1>1, <1>3 DEF ForgottenInv, InLog
  <2>2. ~Entered(scan, k) /\ Forgotten(k)
    <3>1. ~Entered(scan, k)
      BY <1>7, <2>1 DEF Forgotten
    <3> QED  BY <1>1, <2>1, <3>1 DEF Forgotten
  <2>3. ASSUME NEW q \in NpProcs, Staging(q, k[1])' PROVE Shows(q, k[2])' \/ ~InLog(k[2])
    <3>1. q # p /\ npProc'[q] = npProc[q]
      BY <1>1, <2>3 DEF Staging
    <3> QED  BY <1>0, <2>2, <2>3, <3>1 DEF ForgottenInv, Staging, Shows
  <2>4. ASSUME npStream'.identity = k[1], NEW i \in 1..Len(NpLog), NpLog[i].turn = k[2]
        PROVE  i < npStream'.cursor \/ (~MutableSource /\ i = npStream'.cursor)
    <3>1. k[1] = scan.identity /\ npRows[k].status = "none" /\ k = <<scan.identity, k[2]>>
      BY <1>1, <2>2, <2>4 DEF Forgotten, NpKey
    <3>2. CASE ~Resets(scan)
      <4>1. npStream # NoStream
        BY <1>0, <2>2 DEF Forgotten, RowInv
      <4>2. npStream.identity = k[1] /\ StartCursor(scan, Resets(scan)) = npStream.cursor
        BY <3>1, <3>2, <4>1 DEF Resets, Replaced, StartCursor
      <4>3. i < npStream.cursor \/ (~MutableSource /\ i = npStream.cursor)
        BY <1>0, <2>2, <2>4, <4>2 DEF ForgottenInv, PastCursor
      <4> QED  BY <1>0, <1>1, <4>2, <4>3
    <3>3. CASE Resets(scan)
      <4>1. InLog(k[2])
        BY <2>4 DEF InLog
      <4>2. Shows(p, k[2])
        BY <1>0, <1>1, <2>2, <3>1, <4>1 DEF ForgottenInv
      <4>3. PICK e \in scan.events : e.turn = k[2]
        BY <4>2 DEF Shows, scan
      <4>4. ~LocalOnly
        <5>1. SUFFICES ASSUME LocalOnly PROVE Entered(scan, k)
          BY <2>2
        <5>2. e \in Looked(scan)
          BY <3>3, <4>3, <5>1 DEF Looked
        <5> QED  BY <3>1, <4>3, <5>2 DEF Entered
      <4>5. i = e.pos
        <5>1. e.pos \in 1..Len(NpLog) /\ NpLog[e.pos].turn = NpLog[i].turn
          BY <1>2, <2>4, <4>3
        <5> QED  BY <1>0, <5>1, OnePlace
      <4>6. i <= scan.count /\ scan.count = StartCursor(scan, Resets(scan)) /\ ~MutableSource
        BY <1>2, <3>3, <4>3, <4>4, <4>5 DEF StartCursor
      <4>7. scan.count \in Nat
        BY <1>1 DEF Snapshot
      <4> QED  BY <1>0, <1>1, <4>6, <4>7
    <3> QED  BY <3>2, <3>3
  <2> QED  BY <1>3, <2>3, <2>4 DEF PastCursor
<1> QED
  BY <1>4, <1>5, <1>6, <1>8, <1>10, <1>11 DEF NpKeyInv

\* A row that is forgotten lies behind the cursor, or in another file.
LEMMA ForgetKeepsKeys ==
  ASSUME NpShape, NpShape', NpKeyInv, NEW f \in NpKey, Forget(f)
  PROVE  NpKeyInv'
<1>0. /\ LogInv /\ ScanInv /\ StreamInv /\ RowInv /\ HandInv /\ ForgottenInv
      /\ npRows \in [NpKey -> NpRowType] /\ npStream.cursor \in Nat
      /\ NpLog' = npSource'.log /\ NpLog = npSource.log /\ Len(NpLog) \in Nat
  BY ShapeNumbers DEF NpKeyInv, NpLog
<1>1. /\ \A p \in NpProcs : npProc[p].pc = "idle"
      /\ npRows[f].status \in {"queued", "skipped", "unknown"}
      /\ npQueue' \subseteq npQueue
      /\ npRows' = IF Forgettable(f) THEN [npRows EXCEPT ![f] = NoRow] ELSE npRows
      /\ UNCHANGED <<npSource, npEvidence, npStream, npProc, npSent>>
  BY DEF Forget
<1>2. /\ NpLog' = NpLog
      /\ \A p \in NpProcs : npProc'[p].pc # "stage" /\ \A k : ~InHand(p, k)'
  BY <1>0, <1>1 DEF InHand
<1>3. ASSUME NEW k \in NpKey
      PROVE  npRows'[k] = npRows[k] \/ (k = f /\ Forgettable(f) /\ npRows'[k] = NoRow)
  BY <1>0, <1>1
<1>4. LogInv' /\ ScanInv' /\ StreamInv'
  BY <1>0, <1>1, <1>2 DEF LogInv, ScanInv, StreamInv
<1>5. RowInv'
  <2>1. ASSUME NEW k \in NpKey, npRows'[k].status # "none" PROVE npRows'[k] = npRows[k]
    BY <1>3, <2>1 DEF NoRow
  <2> QED  BY <1>0, <1>1, <1>2, <2>1 DEF RowInv
<1>6. HandInv'
  <2>1. ASSUME NEW k \in NpKey, npRows'[k].status = "pending" PROVE npRows[k].status = "pending"
    BY <1>3, <2>1 DEF NoRow
  <2> QED  BY <1>0, <1>1, <1>2, <2>1 DEF HandInv
<1>7. ForgottenInv'
  <2>1. SUFFICES ASSUME NEW k \in NpKey, Forgotten(k)', npStream.identity = k[1],
                        NEW i \in 1..Len(NpLog), NpLog[i].turn = k[2]
        PROVE  i < npStream.cursor \/ (~MutableSource /\ i = npStream.cursor)
    BY <1>1, <1>2 DEF ForgottenInv, Staging, PastCursor
  <2>2. CASE npRows'[k] = npRows[k]
    <3>1. Forgotten(k)
      BY <1>1, <2>1, <2>2 DEF Forgotten
    <3> QED  BY <1>0, <2>1, <3>1 DEF ForgottenInv, PastCursor
  <2>3. CASE k = f /\ Forgettable(f)
    <3>1. npRows[f].pos = i
      BY <1>0, <1>1, <2>1, <2>3 DEF RowInv
    <3>2. ~(npStream.cursor < i \/ (MutableSource /\ npStream.cursor = i))
      BY <2>1, <2>3, <3>1 DEF Forgettable
    <3> QED  BY <1>0, <3>2
  <2> QED  BY <1>3, <2>2, <2>3
<1> QED
  BY <1>4, <1>5, <1>6, <1>7 DEF NpKeyInv

LEMMA NpStepKeepsKeys ==
  ASSUME NpShape, NpShape', NpKeyInv, [NpNext]_npVars
  PROVE  NpKeyInv'
<1>1. CASE Outside
  BY <1>1, OutsideIs, OutsideKeepsKeys DEF NpKeyInv
<1>2. ASSUME NEW p \in NpProcs, RoundStep(p) PROVE NpKeyInv'
  <2>1. CASE StagesScan(p)
    BY <2>1, StageKeepsKeys
  <2>2. CASE ~StagesScan(p)
    BY <1>2, <2>2, RoundKeepsKeys
  <2> QED  BY <2>1, <2>2
<1>3. ASSUME NEW k \in NpKey, Forget(k) PROVE NpKeyInv'
  BY <1>3, ForgetKeepsKeys
<1>4. CASE UNCHANGED <<npSource, npEvidence, npStream, npRows, npQueue, npProc, npSent>>
  BY <1>4 DEF NpKeyInv, LogInv, ScanInv, StreamInv, RowInv, HandInv, ForgottenInv, NpLog,
              InHand, Forgotten, Staging, Shows, InLog, PastCursor
<1>5. ASSUME NEW k \in NpKey, Ages(k) PROVE NpKeyInv'
  BY <1>4, <1>5 DEF Ages
<1>6. CASE UNCHANGED npVars
  BY <1>4, <1>6 DEF npVars
<1> QED
  BY <1>1, <1>2, <1>3, <1>5, <1>6 DEF NpNext, Outside, RoundStep

LEMMA NpKeyInvInit ==
  ASSUME NpInit
  PROVE  NpKeyInv
<1>1. /\ npSource.log = <<>> /\ npEvidence = {} /\ npSource.identity = 1
      /\ npStream = NoStream /\ npQueue = {}
      /\ \A p \in NpProcs : npProc[p] = NpIdle
      /\ \A k \in NpKey : npRows[k] = NoRow /\ npSent[k] = 0
  BY DEF NpInit
<1>2. Len(NpLog) = 0
  BY <1>1 DEF NpLog
<1>3. LogInv /\ ScanInv /\ StreamInv
  BY <1>1, <1>2 DEF LogInv, ScanInv, StreamInv, NpIdle, NoStream
<1>4. RowInv /\ ForgottenInv
  BY <1>1 DEF RowInv, ForgottenInv, NoRow, Forgotten
<1>5. HandInv
  BY <1>1 DEF HandInv, InHand, NpIdle, NoRow
<1> QED
  BY <1>3, <1>4, <1>5 DEF NpKeyInv

LEMMA NpKeysHold == NpSpec => [](NpShape /\ NpKeyInv)
<1>1. NpInit => NpShape /\ NpKeyInv
  BY NpShapeInit, NpKeyInvInit
<1>2. NpShape /\ NpKeyInv /\ [NpNext]_npVars => (NpShape /\ NpKeyInv)'
  BY NpStepTyped, NpStepKeepsKeys
<1> QED
  BY <1>1, <1>2, PTL DEF NpSpec

\* Whatever the hooks and the monitor do at once, and whatever stops, is
\* suspended or is recovered: one turn of one file enters the queue once at
\* most (native_probe.rs, claim_native_delivery and finish_native_delivery).
THEOREM EachKeyToldOnce == NpSpec => [](\A k \in NpKey : npSent[k] <= 1)
<1>1. NpKeyInv => \A k \in NpKey : npSent[k] <= 1
  BY DEF NpKeyInv, HandInv
<1> QED
  BY <1>1, NpKeysHold, PTL

(***************************************************************************)
(* What is told of a turn, in whatever file.                               *)
(***************************************************************************)
\* A key that is on its way to the queue, or was in it.
Live(i, t) == npSent[<<i, t>>] > 0 \/ npRows[<<i, t>>].status \notin {"none", "skipped"}

\* The turns of two files of one stream are the same turns.  A scan of a newer
\* file shows what a scan of an older one shows (a); and of a key that is live,
\* a scan of a newer file shows its turn (b), the row of the stream as it is now
\* will not tell it again (c), and no other file's key is live (d).
ScansAgree ==
  \A p, q \in NpProcs, t \in Turn :
    /\ npProc[p].pc = "stage" /\ npProc[q].pc = "stage" /\ Shows(p, t)
    /\ npProc[p].scan.identity < npProc[q].scan.identity
    => Shows(q, t) \/ ~InLog(t)
NotAgain(i, t, j) ==
  \/ npRows[<<j, t>>].status = "skipped"
  \/ PastCursor(t)
  \/ j < i /\ \A p \in NpProcs : Staging(p, j) => ~Shows(p, t)
OfOneFile(i, t) ==
  /\ \A q \in NpProcs :
       npProc[q].pc = "stage" /\ i < npProc[q].scan.identity => Shows(q, t) \/ ~InLog(t)
  /\ \A j \in 1..MaxIdentity : j # i /\ npStream.identity = j => NotAgain(i, t, j)
  /\ \A j \in 1..MaxIdentity : j # i => ~Live(j, t)
NpFileInv ==
  /\ ScansAgree
  /\ \A i \in 1..MaxIdentity, t \in Turn : Live(i, t) => OfOneFile(i, t)

\* No two rounds hold a scan of one file that was replaced since, and whose
\* successor has something live.
OneStale ==
  \A p, q \in NpProcs, i \in 1..MaxIdentity :
    p # q /\ Staging(p, i) /\ Staging(q, i) =>
      \A j \in 1..MaxIdentity, t \in Turn : j > i => ~Live(j, t)

LEMMA LiveKnown ==
  ASSUME NpShape, NpKeyInv, NEW i \in 1..MaxIdentity, NEW t \in Turn, Live(i, t)
  PROVE  i <= npSource.identity /\ t \in npEvidence /\ npStream # NoStream
<1>1. <<i, t>> \in NpKey /\ <<i, t>>[1] = i /\ <<i, t>>[2] = t
  BY DEF NpKey
<1> QED
  BY <1>1 DEF NpKeyInv, RowInv, Live

LEMMA OutsideKeepsFiles ==
  ASSUME NpShape, NpShape', NpKeyInv, NpFileInv, OutsideFacts
  PROVE  NpFileInv'
<1>0. /\ LogInv /\ ScanInv
      /\ UNCHANGED <<npProvider, npStream, npRows, npQueue, npProc, npAged, npFaults, npSent>>
  BY DEF NpKeyInv, OutsideFacts
<1>1. ASSUME NEW t \in npEvidence
      PROVE  (InLog(t)' => InLog(t)) /\ (PastCursor(t) => PastCursor(t)')
  <2>1. \A i \in 1..Len(NpLog') : NpLog'[i].turn = t => i \in 1..Len(NpLog) /\ NpLog[i].turn = t
    BY <1>0, OldTurns
  <2>2. InLog(t)' => InLog(t)
    BY <2>1 DEF InLog
  <2>3. PastCursor(t) => PastCursor(t)'
    BY <1>0, <2>1 DEF PastCursor
  <2> QED  BY <2>2, <2>3
<1>2. ScansAgree'
  <2>1. SUFFICES ASSUME NEW p \in NpProcs, NEW q \in NpProcs, NEW t \in Turn,
                        npProc[p].pc = "stage", npProc[q].pc = "stage", Shows(p, t),
                        npProc[p].scan.identity < npProc[q].scan.identity
        PROVE  Shows(q, t) \/ ~InLog(t)'
    BY <1>0 DEF ScansAgree, Shows
  <2>2. t \in npEvidence
    BY <1>0, <2>1 DEF ScanInv, Shows
  <2>3. Shows(q, t) \/ ~InLog(t)
    BY <2>1 DEF NpFileInv, ScansAgree
  <2> QED  BY <1>1, <2>2, <2>3
<1>3. ASSUME NEW i \in 1..MaxIdentity, NEW t \in Turn, Live(i, t)' PROVE OfOneFile(i, t)'
  <2>1. Live(i, t) /\ OfOneFile(i, t)
    BY <1>0, <1>3 DEF Live, NpFileInv
  <2>2. t \in npEvidence
    BY <2>1, LiveKnown
  <2>3. (InLog(t)' => InLog(t)) /\ (PastCursor(t) => PastCursor(t)')
    BY <1>1, <2>2
  <2>4. \A j \in 1..MaxIdentity : NotAgain(i, t, j) => NotAgain(i, t, j)'
    BY <1>0, <2>3 DEF NotAgain, Staging, Shows
  <2> QED  BY <1>0, <2>1, <2>3, <2>4 DEF OfOneFile, Shows, Live
<1> QED
  BY <1>2, <1>3 DEF NpFileInv

\* Only staging makes a key live.
LEMMA RoundLive ==
  ASSUME NpShape, NpKeyInv, NEW p \in NpProcs, RoundStep(p), ~StagesScan(p),
         NEW i \in 1..MaxIdentity, NEW t \in Turn, Live(i, t)'
  PROVE  Live(i, t)
<1>a. HandInv
  BY DEF NpKeyInv
<1>b. \A k \in NpKey : Moved(p, k)
  BY RowsMove
<1>1. <<i, t>> \in NpKey
  BY DEF NpKey
<1>2. CASE npSent'[<<i, t>>] = npSent[<<i, t>>]
  <2>1. npRows[<<i, t>>].status \in {"none", "skipped"} =>
          npRows'[<<i, t>>].status \in {"none", "skipped"}
    BY <1>b, <1>1 DEF Moved
  <2> QED  BY <1>2, <2>1 DEF Live
<1>3. CASE npSent'[<<i, t>>] # npSent[<<i, t>>]
  <2>1. npProc[p].key = <<i, t>> /\ InHand(p, <<i, t>>) /\ Send(p)
    <3> DEFINE c == npProc[p].key
    <3>1. /\ Send(p) /\ c \in NpKey /\ InHand(p, c)
          /\ npSent' = IF c \in npQueue THEN npSent ELSE [npSent EXCEPT ![c] = @ + 1]
      BY <1>3, QueueMoves
    <3>2. npSent \in [NpKey -> Nat]
      BY DEF NpShape
    <3> HIDE DEF c
    <3>3. c = <<i, t>>
      BY <1>1, <1>3, <3>1, <3>2
    <3> QED  BY <3>1, <3>3 DEF c
  <2>2. npProc[p].pc = "send"
    BY <2>1 DEF Send
  <2>3. npRows[<<i, t>>].status \in {"delivering", "unknown"}
    BY <1>a, <1>1, <2>1, <2>2 DEF HandInv
  <2> QED  BY <2>3 DEF Live
<1> QED  BY <1>2, <1>3

LEMMA RoundKeepsFiles ==
  ASSUME NpShape, NpShape', NpKeyInv, NpFileInv, NEW p \in NpProcs, RoundStep(p), ~StagesScan(p)
  PROVE  NpFileInv'
<1>0. /\ LogInv /\ ScanInv /\ HandInv
      /\ npSource.identity \in Nat
      /\ \A q \in NpProcs : npProc[q].scan.identity \in Nat
      /\ \A k \in NpKey : npSent[k] \in Nat /\ npSent'[k] \in Nat
  <2>1. \A q \in NpProcs : npProc[q].scan \in Snapshot
    BY DEF NpShape, NpProcType, NpProcRecord
  <2> QED  BY <2>1 DEF NpKeyInv, NpShape, Snapshot
<1>1. /\ \A q \in NpProcs \ {p} : npProc'[q] = npProc[q]
      /\ UNCHANGED <<npSource, npEvidence>>
      /\ npProc'[p].pc = "stage" =>
           npProc'[p].scan = NoSnapshot \/ npProc'[p].scan = SnapshotNow
  BY RoundIs
<1>2. npStream' = npStream /\ \A k \in NpKey : Moved(p, k)
  BY RowsMove
<1>3. NpLog' = NpLog
  BY <1>1 DEF NpLog
<1>4. ASSUME NEW i \in 1..MaxIdentity, NEW t \in Turn, Live(i, t)' PROVE Live(i, t)
  BY <1>4, RoundLive
\* a scan just taken is of the newest file, and shows all that can be shown
<1>5. ASSUME npProc'[p].pc = "stage", NEW t \in Turn, Shows(p, t)'
      PROVE  npProc'[p].scan.identity = npSource.identity
  <2>1. npProc'[p].scan # NoSnapshot
    BY <1>5 DEF Shows, NoSnapshot
  <2> QED  BY <1>0, <1>1, <1>5, <2>1, SnapshotShows
<1>6. ASSUME npProc'[p].pc = "stage", NEW t \in npEvidence, InLog(t),
             npProc'[p].scan.identity # 0
      PROVE  Shows(p, t)'
  <2>1. npProc'[p].scan = SnapshotNow
    BY <1>1, <1>6 DEF NoSnapshot
  <2> QED  BY <1>0, <1>6, <2>1, SnapshotShows DEF Shows
<1>7. npProc'[p].pc = "stage" => npProc'[p].scan.identity \in {0, npSource.identity}
  BY <1>0, <1>1, SnapshotShows DEF NoSnapshot
<1>8. ScansAgree'
  <2>1. SUFFICES ASSUME NEW a \in NpProcs, NEW q \in NpProcs, NEW t \in Turn,
                        npProc'[a].pc = "stage", npProc'[q].pc = "stage", Shows(a, t)',
                        npProc'[a].scan.identity < npProc'[q].scan.identity, InLog(t)
        PROVE  Shows(q, t)'
    BY <1>3 DEF ScansAgree, InLog
  <2>2. CASE a # p /\ q # p
    BY <1>1, <2>1, <2>2 DEF NpFileInv, ScansAgree, Shows
  <2>3. CASE a # p /\ q = p
    <3>1. npProc'[a] = npProc[a] /\ t \in npEvidence
      BY <1>0, <1>1, <2>1, <2>3 DEF ScanInv, Shows
    <3>2. npProc'[p].scan.identity # 0
      BY <1>0, <2>1, <2>3, <3>1
    <3> QED  BY <1>6, <2>1, <2>3, <3>1, <3>2
  <2>4. CASE a = p
    <3>1. npProc'[p].scan.identity = npSource.identity
      BY <1>5, <2>1, <2>4
    <3>2. q # p
      BY <1>0, <2>1, <2>4, <3>1
    <3>3. npProc[q].scan.identity <= npSource.identity
      BY <1>0, <1>1, <2>1, <3>2 DEF ScanInv
    <3> QED  BY <1>0, <1>1, <2>1, <2>4, <3>1, <3>2, <3>3
  <2> QED  BY <2>2, <2>3, <2>4
<1>9. ASSUME NEW i \in 1..MaxIdentity, NEW t \in Turn, Live(i, t)' PROVE OfOneFile(i, t)'
  <2>1. Live(i, t) /\ OfOneFile(i, t)
    BY <1>4, <1>9 DEF NpFileInv
  <2>2. i <= npSource.identity /\ t \in npEvidence
    BY <2>1, LiveKnown
  <2>3. ASSUME NEW q \in NpProcs, npProc'[q].pc = "stage", i < npProc'[q].scan.identity, InLog(t)
        PROVE  Shows(q, t)'
    <3>1. CASE q = p
      <4>1. npProc'[p].scan.identity # 0
        BY <2>3, <3>1
      <4> QED  BY <1>6, <2>2, <2>3, <3>1, <4>1
    <3>2. CASE q # p
      BY <1>1, <2>1, <2>3, <3>2 DEF OfOneFile, Shows
    <3> QED  BY <3>1, <3>2
  <2>4. ASSUME NEW j \in 1..MaxIdentity, j # i, npStream.identity = j PROVE NotAgain(i, t, j)'
    <3>1. NotAgain(i, t, j) /\ <<j, t>> \in NpKey
      BY <2>1, <2>4 DEF OfOneFile, NpKey
    <3>2. CASE npRows[<<j, t>>].status = "skipped"
      BY <1>2, <3>1, <3>2 DEF Moved, NotAgain
    <3>3. CASE PastCursor(t)
      BY <1>2, <1>3, <3>3 DEF PastCursor, NotAgain
    <3>4. CASE j < i /\ \A q \in NpProcs : Staging(q, j) => ~Shows(q, t)
      <4>1. ASSUME NEW q \in NpProcs, Staging(q, j)' PROVE ~Shows(q, t)'
        <5>1. CASE q = p
          <6>1. npProc'[p].pc = "stage" /\ npProc'[p].scan.identity = j
            BY <4>1, <5>1 DEF Staging
          <6> QED  BY <1>0, <1>7, <2>2, <3>4, <6>1
        <5>2. CASE q # p
          BY <1>1, <3>4, <4>1, <5>2 DEF Staging, Shows
        <5> QED  BY <5>1, <5>2
      <4> QED  BY <3>4, <4>1 DEF NotAgain
    <3> QED  BY <3>1, <3>2, <3>3, <3>4 DEF NotAgain
  <2>5. \A j \in 1..MaxIdentity : j # i => ~Live(j, t)'
    BY <1>4, <2>1 DEF OfOneFile
  <2> QED  BY <1>2, <1>3, <2>3, <2>4, <2>5 DEF OfOneFile, InLog
<1> QED
  BY <1>8, <1>9 DEF NpFileInv

\* Staging a scan makes live what it enters as pending, and nothing else.
LEMMA StagedLive ==
  ASSUME NpShape, NpKeyInv, NEW p \in NpProcs, StagesScan(p),
         NEW i \in 1..MaxIdentity, NEW t \in Turn, Live(i, t)'
  PROVE  \/ Live(i, t)
         \/ /\ i = npProc[p].scan.identity /\ Entered(npProc[p].scan, <<i, t>>)
            /\ ~Resets(npProc[p].scan)
<1>1. <<i, t>> \in NpKey
  BY DEF NpKey
<1>2. /\ npSent' = npSent
      /\ IF Entered(npProc[p].scan, <<i, t>>)
           THEN npRows'[<<i, t>>].status = IF Resets(npProc[p].scan) THEN "skipped" ELSE "pending"
           ELSE npRows'[<<i, t>>] = npRows[<<i, t>>]
  BY <1>1, StagingIs DEF NpKeyInv
<1>3. Entered(npProc[p].scan, <<i, t>>) => i = npProc[p].scan.identity
  BY DEF Entered
<1> QED
  BY <1>2, <1>3 DEF Live

LEMMA StageKeepsFiles ==
  ASSUME NpShape, NpShape', NpKeyInv, NpFileInv, OneStale, NEW p \in NpProcs, StagesScan(p)
  PROVE  NpFileInv'
<1> DEFINE scan == npProc[p].scan
<1>s. PICK s \in 1..MaxIdentity : s = scan.identity
  <2>1. scan \in Snapshot /\ scan.identity # 0
    BY StagingIs DEF NpKeyInv
  <2>2. scan.identity \in 1..MaxIdentity
    BY <2>1 DEF Snapshot
  <2> QED  BY <2>2
<1>0. /\ LogInv /\ ScanInv /\ HandInv /\ RowInv
      /\ Len(NpLog) \in Nat /\ NpLog' = npSource'.log /\ NpLog = npSource.log
      /\ npStream.cursor \in Nat /\ npStream'.cursor \in Nat
  BY DEF NpKeyInv, NpShape, NpLog
<1>1. /\ scan \in Snapshot /\ Staging(p, s) /\ s # 0
      /\ npProc'[p].pc = "list"
      /\ \A q \in NpProcs \ {p} : npProc'[q] = npProc[q]
      /\ UNCHANGED <<npSource, npEvidence, npQueue, npSent>>
      /\ StartCursor(scan, Resets(scan)) \in Nat
      /\ npStream'.identity = s
      /\ npStream'.cursor >= StartCursor(scan, Resets(scan))
      /\ Looked(scan) \subseteq scan.events
      /\ \A k \in NpKey :
           IF Entered(scan, k)
             THEN npRows'[k].status = IF Resets(scan) THEN "skipped" ELSE "pending"
             ELSE npRows'[k] = npRows[k]
  BY <1>0, <1>s, StagingIs
<1>2. /\ scan.count <= Len(NpLog) /\ scan.count \in Nat /\ s \in 1..MaxIdentity
      /\ \A e \in scan.events :
           /\ e.pos <= scan.count /\ e.pos \in 1..Len(NpLog)
           /\ NpLog[e.pos].turn = e.turn
  <2>1. scan.count \in Nat
    BY <1>1 DEF Snapshot
  <2>2. /\ scan.count <= Len(NpLog)
        /\ \A e \in scan.events :
           /\ e.pos \in 1..scan.count
           /\ NpLog[e.pos].turn = e.turn
    BY <1>0, <1>1 DEF ScanInv, Staging
  <2> QED  BY <1>0, <1>1, <2>1, <2>2
<1>3. NpLog' = NpLog
  BY <1>0, <1>1
<1> HIDE DEF scan
<1>4. ASSUME NEW q \in NpProcs, npProc'[q].pc = "stage" PROVE q # p /\ npProc'[q] = npProc[q]
  BY <1>1, <1>4
<1>5. ScansAgree'
  <2>1. SUFFICES ASSUME NEW a \in NpProcs, NEW q \in NpProcs, NEW t \in Turn,
                        npProc'[a].pc = "stage", npProc'[q].pc = "stage", Shows(a, t)',
                        npProc'[a].scan.identity < npProc'[q].scan.identity
        PROVE  Shows(q, t)' \/ ~InLog(t)
    BY <1>3 DEF ScansAgree, InLog
  <2>2. npProc'[a] = npProc[a] /\ npProc'[q] = npProc[q]
    BY <1>4, <2>1
  <2> QED  BY <2>1, <2>2 DEF NpFileInv, ScansAgree, Shows
\* what a reset leaves behind the cursor, or skips
<1>6. ASSUME NEW t \in Turn, Shows(p, t), Resets(scan)
      PROVE  PastCursor(t)' \/ (LocalOnly /\ \E e \in Looked(scan) : e.turn = t)
  <2>1. PICK e \in scan.events : e.turn = t
    BY <1>6 DEF Shows, scan
  <2>2. CASE LocalOnly
    BY <1>6, <2>1, <2>2 DEF Looked
  <2>3. CASE ~LocalOnly
    <3>1. ~MutableSource /\ StartCursor(scan, Resets(scan)) = scan.count
      BY <1>6, <2>3 DEF StartCursor
    <3>2. ASSUME NEW n \in 1..Len(NpLog), NpLog[n].turn = t PROVE n <= npStream'.cursor
      <4>1. n = e.pos
        BY <1>0, <1>2, <2>1, <3>2, OnePlace
      <4> QED  BY <1>0, <1>1, <1>2, <2>1, <3>1, <4>1
    <3>3. \A n \in 1..Len(NpLog) : NpLog[n].turn = t =>
            n < npStream'.cursor \/ n = npStream'.cursor
      BY <1>0, <3>2
    <3> QED  BY <1>3, <3>1, <3>3 DEF PastCursor
  <2> QED  BY <2>2, <2>3
\* when nothing resets, the cursor only goes on
<1>7. ASSUME NEW t \in Turn, ~Resets(scan), PastCursor(t) PROVE PastCursor(t)'
  <2>1. npStream'.cursor >= npStream.cursor
    BY <1>1, <1>7 DEF StartCursor
  <2> QED  BY <1>0, <1>3, <1>7, <2>1 DEF PastCursor
\* a turn live in one file is not entered again as pending for another
<1>8. ASSUME NEW i \in 1..MaxIdentity, NEW t \in Turn, Live(i, t), i # s
      PROVE  Resets(scan) \/ ~Entered(scan, <<s, t>>)
  <2>1. SUFFICES ASSUME ~Resets(scan), Entered(scan, <<s, t>>) PROVE FALSE
    OBVIOUS
  <2>2. npStream # NoStream
    BY <1>8, LiveKnown
  <2>3. npStream.identity = s /\ StartCursor(scan, Resets(scan)) = npStream.cursor
    BY <1>s, <2>1, <2>2 DEF Resets, Replaced, StartCursor
  <2>4. NotAgain(i, t, s)
    BY <1>2, <1>8, <2>3 DEF NpFileInv, OfOneFile
  <2>5. PICK e \in Looked(scan) : e.turn = t
    BY <2>1 DEF Entered
  <2>6. e \in scan.events /\ IsFresh(e, npStream.cursor, Activated)
    BY <2>1, <2>3, <2>5 DEF Looked
  <2>7. Shows(p, t)
    BY <2>5, <2>6 DEF Shows, scan
  <2>8. CASE npRows[<<s, t>>].status = "skipped"
    BY <2>1, <2>8 DEF Entered
  <2>9. CASE PastCursor(t)
    <3>1. e.pos \in 1..Len(NpLog) /\ NpLog[e.pos].turn = t
      BY <1>2, <2>5, <2>6
    <3>2. e.pos < npStream.cursor \/ (~MutableSource /\ e.pos = npStream.cursor)
      BY <2>9, <3>1 DEF PastCursor
    <3>3. e.pos > npStream.cursor \/ (MutableSource /\ e.pos = npStream.cursor)
      BY <2>6 DEF IsFresh
    <3> QED  BY <1>0, <3>1, <3>2, <3>3
  <2> QED  BY <1>1, <2>4, <2>7, <2>8, <2>9 DEF NotAgain
\* what the row of the stream is after the step
<1>9. ASSUME NEW i \in 1..MaxIdentity, NEW t \in Turn, Live(i, t), i # s
      PROVE  NotAgain(i, t, s)'
  <2>0. OfOneFile(i, t) /\ npStream # NoStream /\ <<s, t>> \in NpKey
    BY <1>2, <1>9, LiveKnown DEF NpFileInv, NpKey
  <2>1. CASE s < i
    <3>1. ASSUME NEW q \in NpProcs, Staging(q, s)' PROVE FALSE
      <4>1. q # p /\ Staging(q, s)
        BY <1>4, <3>1 DEF Staging
      <4> QED  BY <1>1, <1>2, <1>9, <2>1, <4>1 DEF OneStale
    <3> QED  BY <2>1, <3>1 DEF NotAgain
  <2>2. CASE i < s
    <3>1. Shows(p, t) \/ ~InLog(t)
      BY <1>1, <2>0, <2>2 DEF OfOneFile, Staging
    <3>2. CASE ~InLog(t)
      <4>1. PastCursor(t)'
        BY <1>3, <3>2 DEF PastCursor, InLog
      <4> QED  BY <4>1 DEF NotAgain
    <3>3. CASE Shows(p, t) /\ Resets(scan)
      <4>1. CASE PastCursor(t)'
        BY <4>1 DEF NotAgain
      <4>2. CASE \E e \in Looked(scan) : e.turn = t
        <5>1. npRows[<<s, t>>].status \in {"none", "skipped"}
          BY <1>2, <1>9, <2>0 DEF OfOneFile, Live
        <5>2. npRows[<<s, t>>].status = "none" => Entered(scan, <<s, t>>)
          BY <1>s, <4>2 DEF Entered
        <5>3. npRows'[<<s, t>>].status = "skipped"
          BY <1>1, <2>0, <3>3, <5>1, <5>2
        <5> QED  BY <5>3 DEF NotAgain
      <4> QED  BY <1>6, <3>3, <4>1, <4>2
    <3>4. CASE ~Resets(scan)
      <4>1. npStream.identity = s
        BY <1>s, <2>0, <3>4 DEF Resets, Replaced
      <4>2. NotAgain(i, t, s)
        BY <1>2, <1>9, <2>0, <4>1 DEF OfOneFile
      <4>3. CASE npRows[<<s, t>>].status = "skipped"
        <5>1. ~Entered(scan, <<s, t>>)
          BY <4>3 DEF Entered
        <5> QED  BY <1>1, <2>0, <4>3, <5>1 DEF NotAgain
      <4>4. CASE PastCursor(t)
        BY <1>7, <3>4, <4>4 DEF NotAgain
      <4> QED  BY <1>2, <2>2, <4>2, <4>3, <4>4 DEF NotAgain
    <3> QED  BY <3>1, <3>2, <3>3, <3>4
  <2> QED  BY <1>2, <1>9, <2>1, <2>2
<1>10. ASSUME NEW i \in 1..MaxIdentity, NEW t \in Turn, Live(i, t)' PROVE OfOneFile(i, t)'
  <2>1. Live(i, t) \/ (i = s /\ Entered(scan, <<s, t>>) /\ ~Resets(scan))
    BY <1>s, <1>10, StagedLive DEF scan
  <2>2. ASSUME NEW q \in NpProcs, npProc'[q].pc = "stage", i < npProc'[q].scan.identity
        PROVE  Shows(q, t)' \/ ~InLog(t)
    <3>1. q # p /\ npProc'[q] = npProc[q]
      BY <1>4, <2>2
    <3>2. CASE Live(i, t)
      BY <2>2, <3>1, <3>2 DEF NpFileInv, OfOneFile, Shows
    <3>3. CASE i = s /\ Entered(scan, <<s, t>>)
      <4>1. Shows(p, t)
        BY <1>1, <3>3 DEF Entered, Shows, scan
      <4>2. npProc[p].pc = "stage" /\ npProc[p].scan.identity = i
        BY <1>1, <3>3 DEF Staging, scan
      <4> QED  BY <2>2, <3>1, <4>1, <4>2 DEF NpFileInv, ScansAgree, Shows
    <3> QED  BY <2>1, <3>2, <3>3
  <2>3. ASSUME NEW j \in 1..MaxIdentity, j # i, npStream'.identity = j PROVE NotAgain(i, t, j)'
    <3>1. j = s /\ Live(i, t)
      BY <1>1, <2>1, <2>3
    <3> QED  BY <1>9, <2>3, <3>1
  <2>4. ASSUME NEW j \in 1..MaxIdentity, j # i PROVE ~Live(j, t)'
    <3>1. SUFFICES ASSUME Live(j, t)' PROVE FALSE
      OBVIOUS
    <3>2. Live(j, t) \/ (j = s /\ Entered(scan, <<s, t>>) /\ ~Resets(scan))
      BY <1>s, <3>1, StagedLive DEF scan
    <3>3. CASE Live(i, t) /\ Live(j, t)
      BY <2>4, <3>3 DEF NpFileInv, OfOneFile
    <3>4. CASE Live(i, t) /\ j = s /\ Entered(scan, <<s, t>>) /\ ~Resets(scan)
      BY <1>8, <2>4, <3>4
    <3>5. CASE Live(j, t) /\ i = s /\ Entered(scan, <<s, t>>) /\ ~Resets(scan)
      BY <1>8, <2>4, <3>5
    <3> QED  BY <2>1, <2>4, <3>2, <3>3, <3>4, <3>5
  <2> QED  BY <1>3, <2>2, <2>3, <2>4 DEF OfOneFile, InLog
<1> QED
  BY <1>5, <1>10 DEF NpFileInv

LEMMA ForgetLive ==
  ASSUME NpShape, NEW f \in NpKey, Forget(f),
         NEW i \in 1..MaxIdentity, NEW t \in Turn, Live(i, t)'
  PROVE  Live(i, t)
<1>1. <<i, t>> \in NpKey /\ npRows \in [NpKey -> NpRowType]
  BY DEF NpKey, NpShape
<1>2. npRows'[<<i, t>>] = npRows[<<i, t>>] \/ npRows'[<<i, t>>] = NoRow
  BY <1>1 DEF Forget
<1>3. npSent' = npSent
  BY DEF Forget
<1> QED
  BY <1>2, <1>3 DEF Live, NoRow

LEMMA ForgetKeepsFiles ==
  ASSUME NpShape, NpShape', NpKeyInv, NpFileInv, NEW f \in NpKey, Forget(f)
  PROVE  NpFileInv'
<1>0. /\ RowInv
      /\ npRows \in [NpKey -> NpRowType] /\ npStream.cursor \in Nat
      /\ Len(NpLog) \in Nat
  BY ShapeNumbers DEF NpKeyInv
<1>1. /\ \A p \in NpProcs : npProc[p].pc = "idle"
      /\ npRows' = IF Forgettable(f) THEN [npRows EXCEPT ![f] = NoRow] ELSE npRows
      /\ UNCHANGED <<npSource, npEvidence, npStream, npProc, npSent>>
      /\ npRows[f].status # "none"
  BY DEF Forget
<1>2. NpLog' = NpLog
  BY <1>1 DEF NpLog
<1>3. ASSUME NEW k \in NpKey
      PROVE  npRows'[k] = npRows[k] \/ (k = f /\ Forgettable(f) /\ npRows'[k] = NoRow)
  BY <1>0, <1>1
<1>4. ASSUME NEW i \in 1..MaxIdentity, NEW t \in Turn, Live(i, t)' PROVE Live(i, t)
  BY <1>4, ForgetLive
<1>5. ScansAgree'
  BY <1>1 DEF ScansAgree
<1>6. ASSUME NEW i \in 1..MaxIdentity, NEW t \in Turn, Live(i, t)' PROVE OfOneFile(i, t)'
  <2>1. OfOneFile(i, t)
    BY <1>4, <1>6 DEF NpFileInv
  <2>2. ASSUME NEW j \in 1..MaxIdentity, j # i, npStream.identity = j PROVE NotAgain(i, t, j)'
    <3>0. <<j, t>> \in NpKey /\ <<j, t>>[1] = j /\ <<j, t>>[2] = t
      BY DEF NpKey
    <3>1. NotAgain(i, t, j)
      BY <2>1, <2>2 DEF OfOneFile
    <3>2. CASE npRows[<<j, t>>].status = "skipped"
      <4>1. CASE npRows'[<<j, t>>] = npRows[<<j, t>>]
        BY <3>2, <4>1 DEF NotAgain
      <4>2. CASE <<j, t>> = f /\ Forgettable(f)
        <5>1. \A n \in 1..Len(NpLog) : NpLog[n].turn = t => npRows[f].pos = n
          BY <1>0, <1>1, <3>0, <4>2 DEF RowInv
        <5>2. ~(\/ npStream.cursor < npRows[f].pos
                \/ MutableSource /\ npStream.cursor = npRows[f].pos)
          BY <2>2, <3>0, <4>2 DEF Forgettable
        <5>3. \A n \in 1..Len(NpLog) : NpLog[n].turn = t =>
                n < npStream.cursor \/ (~MutableSource /\ n = npStream.cursor)
          BY <1>0, <5>1, <5>2
        <5>4. PastCursor(t)'
          BY <1>1, <1>2, <5>3 DEF PastCursor
        <5> QED  BY <5>4 DEF NotAgain
      <4> QED  BY <1>3, <3>0, <4>1, <4>2
    <3>3. CASE PastCursor(t)
      <4>1. PastCursor(t)'
        BY <1>1, <1>2, <3>3 DEF PastCursor
      <4> QED  BY <4>1 DEF NotAgain
    <3>4. CASE j < i
      BY <1>1, <3>4 DEF NotAgain, Staging
    <3> QED  BY <3>1, <3>2, <3>3, <3>4 DEF NotAgain
  <2>3. \A j \in 1..MaxIdentity : j # i => ~Live(j, t)'
    BY <1>4, <2>1 DEF OfOneFile
  <2> QED  BY <1>1, <2>2, <2>3 DEF OfOneFile
<1> QED
  BY <1>5, <1>6 DEF NpFileInv

LEMMA NpStepKeepsFiles ==
  ASSUME NpShape, NpShape', NpKeyInv, NpFileInv, OneStale, [NpNext]_npVars
  PROVE  NpFileInv'
<1>1. CASE Outside
  BY <1>1, OutsideIs, OutsideKeepsFiles DEF NpKeyInv
<1>2. ASSUME NEW p \in NpProcs, RoundStep(p) PROVE NpFileInv'
  <2>1. CASE StagesScan(p)
    BY <2>1, StageKeepsFiles
  <2>2. CASE ~StagesScan(p)
    BY <1>2, <2>2, RoundKeepsFiles
  <2> QED  BY <2>1, <2>2
<1>3. ASSUME NEW k \in NpKey, Forget(k) PROVE NpFileInv'
  BY <1>3, ForgetKeepsFiles
<1>4. CASE UNCHANGED <<npSource, npEvidence, npStream, npRows, npQueue, npProc, npSent>>
  BY <1>4 DEF NpFileInv, ScansAgree, OfOneFile, NotAgain, NpLog, Live,
              Staging, Shows, InLog, PastCursor
<1>5. ASSUME NEW k \in NpKey, Ages(k) PROVE NpFileInv'
  BY <1>4, <1>5 DEF Ages
<1>6. CASE UNCHANGED npVars
  BY <1>4, <1>6 DEF npVars
<1> QED
  BY <1>1, <1>2, <1>3, <1>5, <1>6 DEF NpNext, Outside, RoundStep

LEMMA NpFileInvInit ==
  ASSUME NpInit
  PROVE  NpFileInv
<1>1. /\ \A p \in NpProcs : npProc[p].pc = "idle"
      /\ \A k \in NpKey : npRows[k].status = "none" /\ npSent[k] = 0
  BY DEF NpInit, NpIdle, NoRow
<1>2. \A i \in 1..MaxIdentity, t \in Turn : <<i, t>> \in NpKey
  BY DEF NpKey
<1> QED
  BY <1>1, <1>2 DEF NpFileInv, ScansAgree, Live

LEMMA TellsOnce ==
  ASSUME NpShape, NpKeyInv, NpFileInv
  PROVE  ToldOncePerTurn
<1>1. SUFFICES ASSUME NEW k \in NpKey, NEW other \in NpKey
      PROVE  /\ npSent[k] <= 1
             /\ k[2] = other[2] /\ npSent[k] > 0 /\ npSent[other] > 0 => k = other
  BY DEF ToldOncePerTurn
<1>2. npSent[k] <= 1
  BY DEF NpKeyInv, HandInv
<1>3. ASSUME k[2] = other[2], npSent[k] > 0, npSent[other] > 0 PROVE k = other
  <2>1. k = <<k[1], k[2]>> /\ other = <<other[1], k[2]>> /\ k[2] \in Turn
        /\ k[1] \in 1..MaxIdentity /\ other[1] \in 1..MaxIdentity
    BY <1>3 DEF NpKey
  <2>2. Live(k[1], k[2]) /\ Live(other[1], k[2])
    BY <1>3, <2>1 DEF Live
  <2>3. k[1] = other[1]
    BY <2>1, <2>2 DEF NpFileInv, OfOneFile
  <2> QED  BY <2>1, <2>3
<1> QED
  BY <1>2, <1>3

\* A turn enters the queue once, also when its file is written anew or the
\* session goes back, as long as no two rounds hold a stale scan of one file at
\* once (stage_native_notifications_with_hooks).
THEOREM TurnToldOnce == NpSpec /\ []OneStale => []ToldOncePerTurn
<1> DEFINE I == NpShape /\ NpKeyInv
<1>1. NpInit => NpFileInv
  BY NpFileInvInit
<1>2. I /\ I' /\ NpFileInv /\ OneStale /\ [NpNext]_npVars => NpFileInv'
  BY NpStepKeepsFiles
<1>3. I /\ NpFileInv => ToldOncePerTurn
  BY TellsOnce
<1>4. NpSpec => []I
  BY NpKeysHold
<1> HIDE DEF I
<1> QED
  BY <1>1, <1>2, <1>3, <1>4, PTL DEF NpSpec

\* For each live key some process holds no scan of an older file: the one that
\* staged it, which has taken no scan since but of the newest.
UpToDate(p, i) == npProc[p].pc = "stage" => npProc[p].scan.identity \notin 1..(i - 1)
SomeUpToDate ==
  \A i \in 1..MaxIdentity, t \in Turn : Live(i, t) => \E p \in NpProcs : UpToDate(p, i)

LEMMA StepKeepsUpToDate ==
  ASSUME NpShape, NpShape', NpKeyInv, NpFileInv, SomeUpToDate, [NpNext]_npVars
  PROVE  SomeUpToDate'
<1>1. CASE UNCHANGED <<npRows, npProc, npSent>>
  BY <1>1 DEF SomeUpToDate, UpToDate, Live
<1>2. CASE Outside
  BY <1>1, <1>2, OutsideIs DEF NpKeyInv, OutsideFacts
<1>3. ASSUME NEW p \in NpProcs, RoundStep(p), ~StagesScan(p),
             NEW i \in 1..MaxIdentity, NEW t \in Turn, Live(i, t)'
      PROVE  \E q \in NpProcs : UpToDate(q, i)'
  <2>1. Live(i, t)
    BY <1>3, RoundLive
  <2>2. PICK q \in NpProcs : UpToDate(q, i)
    BY <2>1 DEF SomeUpToDate
  <2>3. CASE q # p
    <3>1. npProc'[q] = npProc[q]
      BY <1>3, <2>3, RoundIs
    <3> QED  BY <2>2, <3>1 DEF UpToDate
  <2>4. CASE q = p
    <3>1. npProc'[p].pc = "stage" =>
            npProc'[p].scan = NoSnapshot \/ npProc'[p].scan = SnapshotNow
      BY <1>3, RoundIs
    <3>2. npProc'[p].pc = "stage" => npProc'[p].scan.identity \in {0, npSource.identity}
      BY <3>1, SnapshotShows DEF NoSnapshot, NpKeyInv
    <3>3. i <= npSource.identity /\ npSource.identity \in Nat
      BY <2>1, LiveKnown, ShapeNumbers
    <3> QED  BY <2>4, <3>2, <3>3 DEF UpToDate
  <2> QED  BY <2>3, <2>4
<1>4. ASSUME NEW p \in NpProcs, StagesScan(p) PROVE SomeUpToDate'
  <2>1. npProc'[p].pc = "list"
    BY <1>4, StagingIs DEF NpKeyInv
  <2> QED  BY <2>1 DEF SomeUpToDate, UpToDate
<1>5. ASSUME NEW f \in NpKey, Forget(f) PROVE SomeUpToDate'
  <2>1. \A i \in 1..MaxIdentity, t \in Turn : Live(i, t)' => Live(i, t)
    BY <1>5, ForgetLive
  <2>2. npProc' = npProc
    BY <1>5 DEF Forget
  <2> QED  BY <2>1, <2>2 DEF SomeUpToDate, UpToDate
<1>6. ASSUME NEW k \in NpKey, Ages(k) PROVE SomeUpToDate'
  BY <1>1, <1>6 DEF Ages
<1>7. CASE UNCHANGED npVars
  BY <1>1, <1>7 DEF npVars
<1>8. ASSUME NEW p \in NpProcs, RoundStep(p), ~StagesScan(p) PROVE SomeUpToDate'
  BY <1>3, <1>8 DEF SomeUpToDate
<1> QED
  BY <1>2, <1>4, <1>5, <1>6, <1>7, <1>8 DEF NpNext, Outside, RoundStep

LEMMA FewAreStale ==
  ASSUME MaxIdentity = 1 \/ \A p, q, r \in NpProcs : p = q \/ q = r \/ p = r,
         SomeUpToDate
  PROVE  OneStale
<1>1. SUFFICES ASSUME NEW p \in NpProcs, NEW q \in NpProcs, NEW i \in 1..MaxIdentity,
                      p # q, Staging(p, i), Staging(q, i),
                      NEW j \in 1..MaxIdentity, NEW t \in Turn, j > i, Live(j, t)
      PROVE  FALSE
  BY DEF OneStale
<1>2. MaxIdentity # 1
  BY <1>1
<1>3. PICK r \in NpProcs : UpToDate(r, j)
  BY <1>1 DEF SomeUpToDate
<1>4. r = p \/ r = q
  BY <1>1, <1>2
<1> QED
  BY <1>1, <1>3, <1>4 DEF UpToDate, Staging

\* With the monitor and one hook, or for a source that is never written anew,
\* a turn enters the queue once.
THEOREM TurnToldOnceByTwo ==
  ASSUME MaxIdentity = 1 \/ \A p, q, r \in NpProcs : p = q \/ q = r \/ p = r
  PROVE  NpSpec => []ToldOncePerTurn
<1> DEFINE I == NpShape /\ NpKeyInv
           J == NpFileInv /\ SomeUpToDate
<1>1. NpInit => J
  <2>1. NpInit => \A i \in 1..MaxIdentity, t \in Turn : ~Live(i, t)
    <3>1. NpInit => \A k \in NpKey : npRows[k].status = "none" /\ npSent[k] = 0
      BY DEF NpInit, NoRow
    <3>2. \A i \in 1..MaxIdentity, t \in Turn : <<i, t>> \in NpKey
      BY DEF NpKey
    <3>3. ~(0 > 0)
      OBVIOUS
    <3>4. ASSUME NpInit, NEW i \in 1..MaxIdentity, NEW t \in Turn PROVE ~Live(i, t)
      BY <3>1, <3>2, <3>3, <3>4 DEF Live
    <3> QED  BY <3>4
  <2> QED  BY <2>1, NpFileInvInit DEF SomeUpToDate
<1>2. I /\ I' /\ J /\ [NpNext]_npVars => J'
  <2>1. J => OneStale
    BY FewAreStale
  <2> QED  BY <2>1, NpStepKeepsFiles, StepKeepsUpToDate
<1>3. I /\ J => ToldOncePerTurn
  BY TellsOnce
<1>4. NpSpec => []I
  BY NpKeysHold
<1> HIDE DEF I, J
<1> QED
  BY <1>1, <1>2, <1>3, <1>4, PTL DEF NpSpec

(***************************************************************************)
(* What ended while nobody was to be told.                                 *)
(***************************************************************************)
\* The store knows of the turn of the file it follows: by a row or by its cursor.
Covered(t) ==
  InLog(t) =>
    /\ npStream.identity \in 1..MaxIdentity
    /\ npRows[<<npStream.identity, t>>].status # "none" \/ PastCursor(t)
Earlier(t) == \A i \in 1..Len(NpLog) : NpLog[i].turn = t => NpLog[i].at < npProvider.activated

\* A historic turn is kept back: there is no baseline yet, or it is later, or,
\* where the past may change, the baseline entered the turn.
KeptBack(t) ==
  \/ ~npProvider.enabled
  \/ ~MutableSource /\ Earlier(t)
  \/ MutableSource /\ Covered(t)

\* A scan in hand would enter it, if it makes a baseline.
InEveryScan(t) ==
  \A p \in NpProcs :
    npProc[p].pc = "stage" /\ npProc[p].on =>
      Shows(p, t) \/ ~InLog(t) \/ npProc[p].scan = NoSnapshot

NothingRunsOn == ~npOn /\ \A p \in NpProcs : npProc[p].pc = "idle" \/ ~npProc[p].on

HistoricInv ==
  /\ \A i \in 1..Len(NpLog) : NpLog[i].at <= npNow
  /\ npUnnoticed # {} => NothingRunsOn
  /\ \A t \in npUnwanted \cup npUnnoticed :
       t \in npEvidence /\ \A i \in 1..MaxIdentity : ~Live(i, t)
  /\ \A t \in npUnwanted : InEveryScan(t) /\ KeptBack(t)

LEMMA NotYetLive ==
  ASSUME NpShape, NpKeyInv, NEW t \in Turn, t \notin npEvidence
  PROVE  \A i \in 1..MaxIdentity : ~Live(i, t)
BY LiveKnown

\* What a step outside the rounds adds to the turns that are not to be told.
Quietly(t) == t \in Turn /\ t \in npEvidence' \ npEvidence /\ ~npOn /\ Agreed
OutsideTurns ==
  /\ \A t \in npUnwanted' \ npUnwanted : Quietly(t) /\ ~npProvider.enabled
  /\ \A t \in npUnnoticed' \ npUnnoticed : Quietly(t)
  /\ npUnnoticed' = {} \/ npOn' = npOn

LEMMA OutsideIsQuiet ==
  ASSUME NpShape, LogInv, Outside
  PROVE  OutsideTurns
<1>1. CASE WriteOther \/ SourceRewritten
  BY <1>1 DEF WriteOther, SourceRewritten, OutsideTurns
<1>2. ASSUME NEW evident \in BOOLEAN, TurnEnds(evident)
      PROVE  OutsideTurns
  <2>1. npSource.written + 1 \in Turn /\ npSource.written + 1 \notin npEvidence
    <3>1. npSource.written < MaxTurns /\ npSource.written \in Nat
      BY <1>2 DEF TurnEnds, NpShape
    <3>2. \A t \in npEvidence : t <= npSource.written
      BY DEF LogInv
    <3> QED  BY <3>1, <3>2 DEF Turn
  <2>2. /\ npOn' = npOn
        /\ npEvidence' = IF evident THEN npEvidence \cup {npSource.written + 1} ELSE npEvidence
        /\ IF evident THEN Unasked(npSource.written + 1)
           ELSE UNCHANGED <<npUnnoticed, npUnwanted>>
    BY <1>2 DEF TurnEnds
  <2> QED  BY <2>1, <2>2 DEF Unasked, OutsideTurns, Quietly
<1>3. ASSUME NEW turn \in Turn, EvidenceComes(turn)
      PROVE  OutsideTurns
  BY <1>3 DEF EvidenceComes, Unasked, OutsideTurns, Quietly
<1>4. CASE SwitchProvider
  BY <1>4 DEF SwitchProvider, OutsideTurns
<1> QED
  BY <1>1, <1>2, <1>3, <1>4 DEF Outside

LEMMA OutsideKeepsHistoric ==
  ASSUME NpShape, NpShape', NpKeyInv, HistoricInv, Outside
  PROVE  HistoricInv'
<1>0. LogInv /\ OutsideFacts /\ OutsideTurns /\ npNow \in Nat /\ npNow' \in Nat
      /\ \A i \in 1..Len(NpLog) : NpLog[i].at \in Nat
  <2>1. NpLog \in Seq(NpRecord)
    BY DEF NpShape, NpLog
  <2>2. \A i \in 1..Len(NpLog) : NpLog[i] \in NpRecord
    BY <2>1
  <2>3. LogInv
    BY DEF NpKeyInv
  <2> QED  BY <2>2, <2>3, OutsideIs, OutsideIsQuiet DEF NpShape, NpRecord, Instant
<1>1. /\ UNCHANGED <<npProvider, npStream, npRows, npQueue, npProc, npAged, npFaults, npSent>>
      /\ npEvidence \subseteq npEvidence'
  BY <1>0 DEF OutsideFacts
<1>2. ASSUME NEW i \in 1..Len(NpLog') PROVE NpLog'[i].at <= npNow'
  <2>1. CASE Grown(i)
    BY <2>1 DEF Grown
  <2>2. CASE i \in 1..Len(NpLog) /\ NpLog'[i] = NpLog[i]
    BY <1>0, <2>2 DEF HistoricInv, OutsideFacts
  <2> QED  BY <1>0, <2>1, <2>2 DEF OutsideFacts
<1>3. ASSUME npUnnoticed' # {} PROVE NothingRunsOn'
  <2>1. npOn' = npOn
    BY <1>0, <1>3 DEF OutsideTurns
  <2>2. NothingRunsOn
    <3>1. CASE npUnnoticed # {}
      BY <3>1 DEF HistoricInv
    <3>2. CASE npUnnoticed = {}
      BY <1>0, <1>3, <3>2 DEF OutsideTurns, Quietly, Agreed, NothingRunsOn
    <3> QED  BY <3>1, <3>2
  <2> QED  BY <1>1, <2>1, <2>2 DEF NothingRunsOn
<1>4. ASSUME NEW t \in npUnwanted' \cup npUnnoticed'
      PROVE  t \in npEvidence' /\ \A i \in 1..MaxIdentity : ~Live(i, t)'
  <2>1. CASE t \in npUnwanted \cup npUnnoticed
    BY <1>1, <2>1 DEF HistoricInv, Live
  <2>2. CASE Quietly(t)
    BY <1>1, <2>2, NotYetLive DEF Quietly, Live
  <2> QED  BY <1>0, <1>4, <2>1, <2>2 DEF OutsideTurns
<1>5. ASSUME NEW t \in npUnwanted' PROVE InEveryScan(t)' /\ KeptBack(t)'
  <2>1. CASE t \in npUnwanted
    <3>1. t \in npEvidence /\ InEveryScan(t) /\ KeptBack(t)
      BY <2>1 DEF HistoricInv
    <3>2. \A i \in 1..Len(NpLog') : NpLog'[i].turn = t =>
            i \in 1..Len(NpLog) /\ NpLog[i].turn = t
      BY <1>0, <3>1, OldTurns
    <3>3. Earlier(t) => Earlier(t)'
      <4>1. SUFFICES ASSUME Earlier(t), NEW i \in 1..Len(NpLog'), NpLog'[i].turn = t
            PROVE  NpLog'[i].at < npProvider'.activated
        BY DEF Earlier
      <4>2. i \in 1..Len(NpLog) /\ NpLog[i].turn = t
        BY <3>2, <4>1
      <4>3. NpLog'[i] = NpLog[i]
        <5>1. ~Grown(i)
          BY <4>2 DEF Grown, NpShape, NpLog
        <5> QED  BY <1>0, <5>1 DEF OutsideFacts
      <4> QED  BY <1>1, <4>1, <4>2, <4>3 DEF Earlier
    <3>4. InLog(t)' => InLog(t)
      BY <3>2 DEF InLog
    <3>5. PastCursor(t) => PastCursor(t)'
      BY <1>1, <3>2 DEF PastCursor
    <3>6. Covered(t) => Covered(t)'
      BY <1>1, <3>4, <3>5 DEF Covered
    <3>7. InEveryScan(t)'
      BY <1>1, <3>1, <3>4 DEF InEveryScan, Shows
    <3> QED  BY <1>1, <3>1, <3>3, <3>6, <3>7 DEF KeptBack
  <2>2. CASE t \notin npUnwanted
    <3>1. Quietly(t) /\ ~npProvider.enabled
      BY <1>0, <1>5, <2>2 DEF OutsideTurns
    <3>2. InEveryScan(t)'
      BY <1>1, <3>1 DEF InEveryScan, Quietly, Agreed
    <3> QED  BY <1>1, <3>1, <3>2 DEF KeptBack
  <2> QED  BY <2>1, <2>2
<1> QED
  BY <1>2, <1>3, <1>4, <1>5 DEF HistoricInv

\* What a step of a round does to the provider's row and to the clock.
LEMMA ProviderMoves ==
  ASSUME NpShape, NEW p \in NpProcs, RoundStep(p)
  PROVE  \/ npProvider' = npProvider /\ npNow' = npNow
         \/ ~npProvider'.enabled /\ npNow' = npNow
         \/ /\ Stage(p) /\ npProc[p].pc = "stage" /\ npProc[p].on
            /\ npProvider' = [enabled |-> TRUE, activated |-> Activated]
            /\ npNow' = IF ~npProvider.enabled THEN npNow + 1 ELSE npNow
<1>1. CASE Stage(p)
  <2>1. CASE npProc[p].on
    <3>1. StageOn(p, npProc[p].scan) /\ npProc[p].scan \in Snapshot /\ npProc[p].pc = "stage"
      BY <1>1, <2>1 DEF Stage, NpShape, NpProcType, NpProcRecord
    <3> QED  BY <1>1, <2>1, <3>1, StageOnIs
  <2>2. CASE ~npProc[p].on
    BY <1>1, <2>2 DEF Stage, StageOff, NpShape
  <2> QED  BY <2>1, <2>2
<1>2. CASE ~Stage(p)
  BY <1>2 DEF RoundStep, NpStep, Begin, NpScan, ScanFailsFor, List, NpClaim, Send, NpFinish,
              RoundDies
<1> QED
  BY <1>1, <1>2

\* And to the turns that are not to be told.
LEMMA RoundTurns ==
  ASSUME NpShape, NEW p \in NpProcs, RoundStep(p)
  PROVE  /\ npUnwanted' \subseteq npUnwanted \cup npUnnoticed /\ npUnnoticed' \subseteq npUnnoticed
         /\ npUnwanted' \subseteq npUnwanted \/ ~npProvider'.enabled
         /\ MutableSource /\ ~npProvider.enabled =>
              npUnwanted' = {} \/ ~npProvider'.enabled \/ StagesScan(p)
<1>1. CASE Stage(p)
  <2>1. ~npProc[p].on => ~npProvider'.enabled
    BY <1>1 DEF Stage, StageOff, NpShape
  <2> QED  BY <1>1, <2>1, StageTurns DEF StagesScan
<1>2. CASE ~Stage(p)
  BY <1>2 DEF RoundStep, NpStep, Begin, NpScan, ScanFailsFor, List, NpClaim, Send, NpFinish,
              RoundDies
<1> QED
  BY <1>1, <1>2

\* The store goes on knowing of a turn.
LEMMA StagingCovers ==
  ASSUME NpShape, NpKeyInv, MutableSource, NEW p \in NpProcs, StagesScan(p), NEW t \in Turn,
         Resets(npProc[p].scan) => Shows(p, t) \/ ~InLog(t),
         Resets(npProc[p].scan) \/ Covered(t)
  PROVE  Covered(t)'
<1> DEFINE scan == npProc[p].scan
<1>1. /\ ScanInv /\ StreamInv /\ Stage(p) /\ scan # NoSnapshot
      /\ npStream.cursor \in Nat /\ npStream'.cursor \in Nat /\ Len(NpLog) \in Nat
  <2>1. npStream' \in [identity : 0..MaxIdentity, cursor : 0..MaxTurns]
    BY StageTyped DEF StagesScan, NpShape
  <2> QED  BY <2>1, ShapeNumbers DEF StagesScan, NpKeyInv
<1>2. /\ scan \in Snapshot /\ scan.identity # 0
      /\ npSource' = npSource
      /\ npStream'.identity = scan.identity
      /\ npStream'.cursor >= StartCursor(scan, Resets(scan))
      /\ \A k \in NpKey :
              IF Entered(scan, k)
                THEN npRows'[k].status = IF Resets(scan) THEN "skipped" ELSE "pending"
                ELSE npRows'[k] = npRows[k]
  BY <1>1, StagingIs
<1>3. scan.identity \in 1..MaxIdentity /\ NpLog' = NpLog /\ <<scan.identity, t>> \in NpKey
  BY <1>2 DEF Snapshot, NpLog, NpKey
<1>4. SUFFICES ASSUME InLog(t)
      PROVE  npRows'[<<scan.identity, t>>].status # "none" \/ PastCursor(t)'
  BY <1>2, <1>3 DEF Covered, InLog
<1>5. CASE Resets(scan)
  <2>1. PICK e \in scan.events : e.turn = t
    BY <1>4, <1>5 DEF Shows
  <2>2. Looked(scan) = scan.events
    BY <1>5 DEF Looked
  <2>3. npRows[<<scan.identity, t>>].status = "none" => Entered(scan, <<scan.identity, t>>)
    BY <2>1, <2>2 DEF Entered
  <2> QED  BY <1>2, <1>3, <2>3
<1>6. CASE ~Resets(scan)
  <2>1. Covered(t) /\ npStream.identity \in 1..MaxIdentity
    BY <1>4, <1>6 DEF Covered
  <2>2. npStream # NoStream
    BY <2>1 DEF NoStream
  <2>3. npStream.identity = scan.identity
    BY <1>6, <2>2 DEF Resets, Replaced
  <2>4. npStream'.cursor >= npStream.cursor
    BY <1>2, <1>6 DEF StartCursor
  <2>5. PastCursor(t) => PastCursor(t)'
    <3>1. SUFFICES ASSUME PastCursor(t), NEW i \in 1..Len(NpLog), NpLog[i].turn = t
          PROVE  i < npStream'.cursor
      BY <1>3 DEF PastCursor
    <3>2. i < npStream.cursor
      BY <3>1 DEF PastCursor
    <3> QED  BY <1>1, <2>4, <3>2
  <2>6. npRows[<<scan.identity, t>>].status # "none" =>
          npRows'[<<scan.identity, t>>].status # "none"
    BY <1>2, <1>3 DEF Entered
  <2> QED  BY <1>4, <2>1, <2>3, <2>5, <2>6 DEF Covered
<1> QED
  BY <1>5, <1>6

LEMMA RoundCovers ==
  ASSUME NpShape, NpKeyInv, NEW p \in NpProcs, RoundStep(p), ~StagesScan(p), NEW t \in Turn,
         Covered(t)
  PROVE  Covered(t)'
<1>1. /\ npStream' = npStream /\ \A k \in NpKey : Moved(p, k)
      /\ npSource' = npSource
  BY RowsMove, RoundIs
<1>2. NpLog' = NpLog
  BY <1>1 DEF NpLog
<1>3. ASSUME NEW k \in NpKey, npRows[k].status # "none" PROVE npRows'[k].status # "none"
  BY <1>1, <1>3 DEF Moved
<1>4. \A i \in 1..MaxIdentity : <<i, t>> \in NpKey
  BY DEF NpKey
<1> QED
  BY <1>1, <1>2, <1>3, <1>4 DEF Covered, InLog, PastCursor

\* What a staged scan enters to be told is after the baseline and unknown to
\* the store.
LEMMA EnteredIsNew ==
  ASSUME NpShape, NpKeyInv, NEW p \in NpProcs, StagesScan(p),
         NEW i \in 1..MaxIdentity, NEW t \in Turn,
         Entered(npProc[p].scan, <<i, t>>), ~Resets(npProc[p].scan)
  PROVE  ~KeptBack(t)
<1> DEFINE scan == npProc[p].scan
<1>0. /\ ScanInv /\ npStream.cursor \in Nat /\ Len(NpLog) \in Nat
      /\ npProvider.activated \in Nat
      /\ \A j \in 1..Len(NpLog) : NpLog[j].at \in Nat
  <2>1. NpLog \in Seq(NpRecord)
    BY DEF NpShape, NpLog
  <2>2. \A j \in 1..Len(NpLog) : NpLog[j] \in NpRecord
    BY <2>1
  <2> QED  BY <2>2, ShapeNumbers DEF NpKeyInv, NpShape, NpRecord, Instant
<1>1. npProvider.enabled /\ npProc[p].pc = "stage" /\ scan # NoSnapshot /\ scan \in Snapshot
  BY DEF Resets, StagesScan, Stage, NpShape, NpProcType, NpProcRecord
<1>2. PICK e \in Looked(scan) : e.turn = t
  BY DEF Entered
<1>3. /\ e \in scan.events /\ IsFresh(e, npStream.cursor, npProvider.activated)
      /\ npRows[<<scan.identity, t>>].status = "none"
  BY <1>1, <1>2 DEF Looked, Activated, StartCursor, Entered
<1>4. e.pos \in 1..scan.count /\ scan.count <= Len(NpLog) /\ scan.count \in Nat
      /\ NpLog[e.pos].turn = t /\ NpLog[e.pos].at = e.at
  BY <1>0, <1>1, <1>2, <1>3 DEF ScanInv, Snapshot
<1>5. e.pos \in 1..Len(NpLog)
  BY <1>0, <1>4
<1>6. CASE ~MutableSource
  <2>1. e.at >= npProvider.activated
    BY <1>3, <1>6 DEF IsFresh
  <2>2. ~Earlier(t)
    BY <1>0, <1>4, <1>5, <2>1 DEF Earlier
  <2> QED  BY <1>1, <1>6, <2>2 DEF KeptBack
<1>7. CASE MutableSource
  <2>1. SUFFICES ASSUME Covered(t) PROVE FALSE
    BY <1>1, <1>7 DEF KeptBack
  <2>2. InLog(t)
    BY <1>4, <1>5 DEF InLog
  <2>3. npStream.identity \in 1..MaxIdentity /\ npStream # NoStream
    BY <2>1, <2>2 DEF Covered, NoStream
  <2>4. npStream.identity = scan.identity
    BY <2>3 DEF Resets, Replaced
  <2>5. PastCursor(t)
    BY <1>3, <2>1, <2>2, <2>4 DEF Covered
  <2>6. e.pos < npStream.cursor
    BY <1>4, <1>5, <1>7, <2>5 DEF PastCursor
  <2> QED  BY <1>0, <1>3, <1>5, <2>6 DEF IsFresh
<1> QED
  BY <1>6, <1>7

LEMMA RoundKeepsHistoric ==
  ASSUME NpShape, NpShape', NpKeyInv, HistoricInv, NEW p \in NpProcs, RoundStep(p)
  PROVE  HistoricInv'
<1>0. /\ LogInv /\ npNow \in Nat /\ npNow' \in Nat
      /\ \A i \in 1..Len(NpLog) : NpLog[i].at \in Nat
      /\ npUnwanted \subseteq Turn /\ npUnnoticed \subseteq Turn
  <2>1. NpLog \in Seq(NpRecord)
    BY DEF NpShape, NpLog
  <2>2. \A i \in 1..Len(NpLog) : NpLog[i] \in NpRecord
    BY <2>1
  <2> QED  BY <2>2 DEF NpKeyInv, NpShape, NpRecord, Instant
<1>1. /\ \A q \in NpProcs \ {p} : npProc'[q] = npProc[q]
      /\ UNCHANGED <<npOn, npSource, npEvidence>>
      /\ npProc'[p].pc = "stage" => npProc'[p].scan = NoSnapshot \/ npProc'[p].scan = SnapshotNow
      /\ npProc'[p].on # npProc[p].on =>
           (Begin(p) /\ npProc'[p].on = npOn) \/ ~npProc'[p].on
      /\ npProc'[p].pc # "idle" => npProc[p].pc # "idle" \/ (Begin(p) /\ npProc'[p].on = npOn)
  BY RoundIs
<1>2. NpLog' = NpLog
  BY <1>1 DEF NpLog
<1>3. /\ npUnwanted' \subseteq npUnwanted \cup npUnnoticed /\ npUnnoticed' \subseteq npUnnoticed
      /\ npUnwanted' \subseteq npUnwanted \/ ~npProvider'.enabled
      /\ MutableSource /\ ~npProvider.enabled =>
           npUnwanted' = {} \/ ~npProvider'.enabled \/ StagesScan(p)
  BY RoundTurns
<1>4. ASSUME NEW i \in 1..Len(NpLog) PROVE NpLog[i].at <= npNow'
  <2>1. npNow <= npNow'
    BY <1>0, ProviderMoves
  <2> QED  BY <1>0, <1>4, <2>1 DEF HistoricInv
<1>5. NothingRunsOn => NothingRunsOn'
  BY <1>1 DEF NothingRunsOn
<1>6. ASSUME NEW t \in npUnwanted' \cup npUnnoticed', NEW i \in 1..MaxIdentity PROVE ~Live(i, t)'
  <2>1. ~Live(i, t) /\ t \in Turn
    BY <1>0, <1>3, <1>6 DEF HistoricInv
  <2>2. SUFFICES ASSUME Live(i, t)' PROVE FALSE
    OBVIOUS
  <2>3. StagesScan(p) /\ Entered(npProc[p].scan, <<i, t>>) /\ ~Resets(npProc[p].scan)
    BY <2>1, <2>2, RoundLive, StagedLive
  <2>4. ~KeptBack(t)
    BY <2>1, <2>3, EnteredIsNew
  <2>5. t \in npUnnoticed
    BY <1>3, <1>6, <2>4 DEF HistoricInv
  <2>6. NothingRunsOn
    BY <2>5 DEF HistoricInv
  <2> QED  BY <2>3, <2>6 DEF NothingRunsOn, StagesScan, Stage
<1>7. ASSUME NEW t \in npUnwanted' PROVE InEveryScan(t)'
  <2>1. CASE t \in npUnwanted
    <3>1. t \in npEvidence /\ InEveryScan(t)
      BY <2>1 DEF HistoricInv
    <3>2. InLog(t) => \E e \in SnapshotNow.events : e.turn = t
      BY <1>0, <3>1, SnapshotShows
    <3>3. InLog(t)' => InLog(t)
      BY <1>2 DEF InLog
    <3>4. ASSUME NEW q \in NpProcs, npProc'[q].pc = "stage", npProc'[q].on
          PROVE  Shows(q, t)' \/ ~InLog(t)' \/ npProc'[q].scan = NoSnapshot
      <4>1. CASE q = p
        BY <1>1, <3>2, <3>3, <3>4, <4>1 DEF Shows
      <4>2. CASE q # p
        BY <1>1, <3>1, <3>3, <3>4, <4>2 DEF InEveryScan, Shows
      <4> QED  BY <4>1, <4>2
    <3> QED  BY <3>4 DEF InEveryScan
  <2>2. CASE t \notin npUnwanted
    <3>1. NothingRunsOn'
      BY <1>3, <1>5, <1>7, <2>2 DEF HistoricInv
    <3> QED  BY <3>1 DEF NothingRunsOn, InEveryScan
  <2> QED  BY <2>1, <2>2
<1>8. ASSUME NEW t \in npUnwanted', npProvider'.enabled PROVE KeptBack(t)'
  <2>1. t \in npUnwanted /\ t \in Turn /\ KeptBack(t) /\ InEveryScan(t)
    BY <1>0, <1>3, <1>8 DEF HistoricInv
  <2>2. CASE ~MutableSource
    <3>1. CASE npProvider' = npProvider
      BY <1>2, <1>8, <2>1, <2>2, <3>1 DEF KeptBack, Earlier
    <3>2. CASE npProvider' = [enabled |-> TRUE, activated |-> Activated] /\ npProvider.enabled
      BY <1>2, <2>1, <2>2, <3>2 DEF KeptBack, Earlier, Activated
    <3>3. CASE npProvider' = [enabled |-> TRUE, activated |-> Activated] /\ ~npProvider.enabled
      <4>1. npProvider'.activated = npNow + 1
        BY <3>3 DEF Activated
      <4>2. \A i \in 1..Len(NpLog) : NpLog[i].at < npNow + 1
        BY <1>0 DEF HistoricInv
      <4> QED  BY <1>2, <2>2, <4>1, <4>2 DEF KeptBack, Earlier
    <3> QED  BY <1>8, <3>1, <3>2, <3>3, ProviderMoves
  <2>3. CASE MutableSource /\ StagesScan(p)
    <3>1. Shows(p, t) \/ ~InLog(t)
      BY <2>1, <2>3 DEF InEveryScan, StagesScan, Stage
    <3>2. Resets(npProc[p].scan) \/ Covered(t)
      BY <2>1, <2>3 DEF KeptBack, Resets
    <3>3. Covered(t)'
      BY <2>1, <2>3, <3>1, <3>2, StagingCovers
    <3> QED  BY <2>3, <3>3 DEF KeptBack
  <2>4. CASE MutableSource /\ ~StagesScan(p)
    <3>1. npProvider.enabled
      BY <1>3, <1>8, <2>4
    <3>2. Covered(t)
      BY <2>1, <2>4, <3>1 DEF KeptBack
    <3>3. Covered(t)'
      BY <2>1, <2>4, <3>2, RoundCovers
    <3> QED  BY <2>4, <3>3 DEF KeptBack
  <2> QED  BY <2>2, <2>3, <2>4
<1>9. /\ npUnnoticed' # {} => NothingRunsOn'
      /\ \A t \in npUnwanted' \cup npUnnoticed' : t \in npEvidence'
  BY <1>1, <1>3, <1>5 DEF HistoricInv
<1>10. \A t \in npUnwanted' : KeptBack(t)'
  BY <1>8 DEF KeptBack
<1> QED
  BY <1>2, <1>4, <1>6, <1>7, <1>9, <1>10 DEF HistoricInv

LEMMA ForgetKeepsHistoric ==
  ASSUME NpShape, NpKeyInv, HistoricInv, NEW f \in NpKey, Forget(f)
  PROVE  HistoricInv'
<1>1. /\ UNCHANGED <<npNow, npOn, npSource, npEvidence, npProvider, npStream, npProc,
                     npUnnoticed, npUnwanted>>
      /\ npRows' = IF Forgettable(f) THEN [npRows EXCEPT ![f] = NoRow] ELSE npRows
      /\ npRows[f].status # "none"
  BY DEF Forget
<1>2. /\ npRows \in [NpKey -> NpRowType] /\ npStream.cursor \in Nat /\ Len(NpLog) \in Nat
      /\ npUnwanted \subseteq Turn /\ npUnnoticed \subseteq Turn /\ RowInv
      /\ NpLog' = NpLog
  BY <1>1, ShapeNumbers DEF NpShape, NpKeyInv, NpLog
<1>3. \A i \in 1..MaxIdentity, t \in Turn : Live(i, t)' => Live(i, t)
  BY ForgetLive
<1>4. ASSUME NEW t \in Turn, Covered(t) PROVE Covered(t)'
  <2>1. SUFFICES ASSUME InLog(t), ~PastCursor(t)
        PROVE  npRows'[<<npStream.identity, t>>].status # "none"
    BY <1>1, <1>2, <1>4 DEF Covered, InLog, PastCursor
  <2> DEFINE k == <<npStream.identity, t>>
  <2>2. npStream.identity \in 1..MaxIdentity /\ npRows[k].status # "none" /\ k \in NpKey
    BY <1>4, <2>1 DEF Covered, NpKey
  <2>3. PICK i \in 1..Len(NpLog) :
          NpLog[i].turn = t /\ ~(i < npStream.cursor \/ (~MutableSource /\ i = npStream.cursor))
    BY <2>1 DEF PastCursor
  <2>4. npRows[k].pos = i
    BY <1>2, <2>2, <2>3 DEF RowInv
  <2>5. ~(k = f /\ Forgettable(f))
    BY <1>2, <2>3, <2>4 DEF Forgettable
  <2> QED  BY <1>1, <1>2, <2>2, <2>5
<1>5. \A t \in Turn : KeptBack(t) => KeptBack(t)'
  BY <1>1, <1>2, <1>4 DEF KeptBack, Earlier
<1>6. \A t \in Turn : InEveryScan(t) => InEveryScan(t)'
  BY <1>1, <1>2 DEF InEveryScan, Shows, InLog
<1>7. NothingRunsOn => NothingRunsOn'
  BY <1>1 DEF NothingRunsOn
<1> QED
  BY <1>1, <1>2, <1>3, <1>5, <1>6, <1>7 DEF HistoricInv

LEMMA StepKeepsHistoric ==
  ASSUME NpShape, NpShape', NpKeyInv, HistoricInv, [NpNext]_npVars
  PROVE  HistoricInv'
<1>1. CASE Outside
  BY <1>1, OutsideKeepsHistoric
<1>2. ASSUME NEW p \in NpProcs, RoundStep(p) PROVE HistoricInv'
  BY <1>2, RoundKeepsHistoric
<1>3. ASSUME NEW f \in NpKey, Forget(f) PROVE HistoricInv'
  BY <1>3, ForgetKeepsHistoric
<1>4. CASE UNCHANGED <<npNow, npOn, npSource, npEvidence, npProvider, npStream, npRows, npProc,
                       npSent, npUnnoticed, npUnwanted>>
  BY <1>4 DEF HistoricInv, KeptBack, Covered, Earlier, InEveryScan, Shows, InLog, PastCursor,
              NothingRunsOn, NpLog, Live
<1>5. ASSUME NEW k \in NpKey, Ages(k) PROVE HistoricInv'
  BY <1>4, <1>5 DEF Ages
<1>6. CASE UNCHANGED npVars
  BY <1>4, <1>6 DEF npVars
<1> QED
  BY <1>1, <1>2, <1>3, <1>5, <1>6 DEF NpNext, Outside, RoundStep

\* A turn that ended while the provider was off, and a round saw it off, is never
\* told, of whatever source: by the comparison with activated_ms, or by the rows of
\* the baseline where that comparison is left out (db/native_probe.rs:93-113).
THEOREM HistoricNeverTold == NpSpec => []NothingHistoric
<1> DEFINE I == NpShape /\ NpKeyInv
<1>1. NpInit => HistoricInv
  <2>1. NpInit => Len(NpLog) = 0 /\ npUnwanted = {} /\ npUnnoticed = {}
    BY DEF NpInit, NpLog
  <2> QED  BY <2>1 DEF HistoricInv
<1>2. I /\ I' /\ HistoricInv /\ [NpNext]_npVars => HistoricInv'
  BY StepKeepsHistoric
<1>3. I /\ HistoricInv => NothingHistoric
  <2>1. SUFFICES ASSUME I, HistoricInv, NEW k \in NpKey, k[2] \in npUnwanted PROVE npSent[k] = 0
    BY DEF NothingHistoric
  <2>2. k = <<k[1], k[2]>> /\ k[1] \in 1..MaxIdentity
    BY DEF NpKey
  <2>3. ~Live(k[1], k[2])
    BY <2>1, <2>2 DEF HistoricInv
  <2>4. ~(npSent[k] > 0) /\ npSent[k] \in Nat
    BY <2>1, <2>2, <2>3 DEF Live, NpShape
  <2> QED  BY <2>4
<1>4. NpSpec => []I
  BY NpKeysHold
<1> HIDE DEF I
<1> QED
  BY <1>1, <1>2, <1>3, <1>4, PTL DEF NpSpec
=============================================================================
