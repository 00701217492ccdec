---------------------------- MODULE NativeProbe ----------------------------
(***************************************************************************)
(* Native probe: the notifications of one provider whose turns are read    *)
(* from its own files.  The monitor and the hooks are processes that run   *)
(* the same round at once on one database: load the configuration, recover *)
(* what was interrupted, scan the source, stage what is new, then hand     *)
(* every pending delivery to the queue (provider_monitor.rs and            *)
(* db/native_probe.rs).                                                    *)
(*                                                                         *)
(* The source is one stream, a log of records.  An "end" record ends a     *)
(* turn; its evidence (the prompt, the body, the end of its background     *)
(* work) is found elsewhere and may come later.  Every other record is     *)
(* "other".                                                                *)
(***************************************************************************)
EXTENDS Naturals, Sequences, FiniteSets, FiniteSetsExt

CONSTANTS
  NpProcs,       \* processes that run rounds
  NpMonitor,     \* the one that is the monitor: it runs with the provider off too
  NpForeign,     \* those that scan another provider only
  LocalOnly,     \* NativeProvider::local_only
  MutableSource, \* the provider is Antigravity
  MaxTurns,      \* bound on the records ever written
  MaxIdentity,   \* bound on the files the stream has been
  MaxNpNow,      \* bound on the clock when a turn ends or the user acts
  MaxNpFaults    \* bound on failed scans, stopped processes and suspended ones

ASSUME NpAssumption ==
  /\ IsFiniteSet(NpProcs) /\ NpMonitor \in NpProcs /\ NpForeign \subseteq NpProcs \ {NpMonitor}
  /\ LocalOnly \in BOOLEAN /\ MutableSource \in BOOLEAN /\ (MutableSource => LocalOnly)
  /\ MaxTurns \in Nat \ {0} /\ MaxIdentity \in Nat \ {0}
  /\ MaxNpNow \in Nat \ {0} /\ MaxNpFaults \in Nat

VARIABLES
  npNow,       \* the clock: end records, switches and baselines are ordered by it
  npOn,        \* the provider's switch, in the configuration file
  npSource,    \* the stream: identity, log, and the turns written so far
  npEvidence,  \* turns whose evidence can be read
  npProvider,  \* native_probe_providers: enabled, activated
  npStream,    \* native_probe_streams: the row's identity and cursor, or none
  npRows,      \* native_probe_deliveries: status and position by key
  npQueue,     \* keys in the delivery queue
  npProc,      \* the processes: where each waits and its local variables
  npAged,      \* deliveries claimed more than 120 seconds ago
  npFaults,    \* faults so far
  \* history
  npSent,      \* keys that entered the queue, with how often
  npUnnoticed, \* turns that ended, with their evidence, since the provider is off, as
               \* long as no round has seen it off
  npUnwanted,  \* the others that did while it was off
  npOwed       \* turns that ended while it was on and followed, and nothing changed since

npVars == <<npNow, npOn, npSource, npEvidence, npProvider, npStream, npRows, npQueue,
            npProc, npAged, npFaults, npSent, npUnnoticed, npUnwanted, npOwed>>

npTurns == <<npUnnoticed, npUnwanted, npOwed>>

(***************************************************************************)
(* Data                                                                    *)
(***************************************************************************)
Turn == 1..MaxTurns
Instant == Nat  \* milliseconds; only their order matters
NpRecord == [turn : Turn, kind : {"end", "other"}, at : Instant]
NpEvent == [turn : Turn, pos : 1..MaxTurns, at : Instant]
NpKey == (1..MaxIdentity) \X Turn
NpStatus == {"none", "pending", "delivering", "queued", "skipped", "unknown"}
NoRow == [status |-> "none", pos |-> 0]
NoStream == [identity |-> 0, cursor |-> 0]
Snapshot == [identity : 0..MaxIdentity, count : 0..MaxTurns, settled : 0..MaxTurns,
             events : SUBSET NpEvent]
NoSnapshot == [identity |-> 0, count |-> 0, settled |-> 0, events |-> {}]

\* grok_events: the turns of the log that can be told, and the settled count,
\* which stops below the first turn whose evidence has not come.
EndsOf(log) == {i \in DOMAIN log : log[i].kind = "end"}
EventsOf(log, known) ==
  {[turn |-> log[i].turn, pos |-> i, at |-> log[i].at] :
     i \in {j \in EndsOf(log) : log[j].turn \in known}}
SettledAtEnd(log, known) == Len(log)  \* mutant: evidence that has not come does not hold it back
SettledCount(log, known) ==
  Min({Len(log)} \cup {i - 1 : i \in {j \in EndsOf(log) : log[j].turn \notin known}})
SnapshotNow ==
  [identity |-> npSource.identity, count |-> Len(npSource.log),
   settled |-> SettledCount(npSource.log, npEvidence),
   events |-> EventsOf(npSource.log, npEvidence)]

NpIdle == [pc |-> "idle", on |-> FALSE, scan |-> NoSnapshot, todo |-> {}, key |-> <<0, 0>>]

NpInit ==
  /\ npNow = 1
  /\ npOn \in BOOLEAN
  /\ npSource = [identity |-> 1, log |-> <<>>, written |-> 0]
  /\ npEvidence = {}
  /\ npProvider = [enabled |-> FALSE, activated |-> 0]
  /\ npStream = NoStream
  /\ npRows = [k \in NpKey |-> NoRow]
  /\ npQueue = {}
  /\ npProc = [p \in NpProcs |-> NpIdle]
  /\ npAged = {}
  /\ npFaults = 0
  /\ npSent = [k \in NpKey |-> 0]
  /\ npUnnoticed = {} /\ npUnwanted = {} /\ npOwed = {}

NpFault == npFaults < MaxNpFaults /\ npFaults' = npFaults + 1

\* No process under way was started under the other setting of the switch.
Agreed == \A p \in NpProcs : npProc[p].pc = "idle" \/ npProc[p].on = npOn

\* The store and every scan under way are of the file as it is now, not of one
\* it replaced.
SameFile(identity, cursor) ==
  identity = 0 \/ (identity = npSource.identity /\ cursor <= Len(npSource.log))
Followed ==
  /\ SameFile(npStream.identity, npStream.cursor)
  /\ \A p \in NpProcs :
       npProc[p].pc = "stage" => SameFile(npProc[p].scan.identity, npProc[p].scan.count)

(***************************************************************************)
(* The provider's program, and the user                                    *)
(***************************************************************************)
Append1(kind, at) ==
  npSource' = [npSource EXCEPT !.written = @ + 1,
                               !.log = Append(@, [turn |-> npSource.written + 1,
                                                  kind |-> kind, at |-> at])]

WriteOther ==
  /\ npSource.written < MaxTurns
  /\ Append1("other", 0)
  /\ UNCHANGED <<npNow, npOn, npEvidence, npProvider, npStream, npRows, npQueue,
                 npProc, npAged, npFaults, npSent, npTurns>>

\* History: a turn can be read as ended from now on.
Unasked(turn) ==
  /\ npUnnoticed' = IF ~npOn /\ Agreed /\ npProvider.enabled THEN npUnnoticed \cup {turn}
                                                            ELSE npUnnoticed
  /\ npUnwanted' = IF ~npOn /\ Agreed /\ ~npProvider.enabled THEN npUnwanted \cup {turn}
                                                            ELSE npUnwanted

TurnEnds(evident) ==
  LET turn == npSource.written + 1 IN
  /\ npSource.written < MaxTurns /\ npNow < MaxNpNow
  /\ npNow' = npNow + 1
  /\ Append1("end", npNow + 1)
  /\ npEvidence' = IF evident THEN npEvidence \cup {turn} ELSE npEvidence
  /\ IF evident THEN Unasked(turn) ELSE UNCHANGED <<npUnnoticed, npUnwanted>>
  /\ npOwed' = IF npOn /\ npProvider.enabled /\ Agreed /\ Followed
               THEN npOwed \cup {turn} ELSE npOwed
  /\ UNCHANGED <<npOn, npProvider, npStream, npRows, npQueue, npProc, npAged, npFaults, npSent>>

EvidenceComes(turn) ==
  /\ \E i \in EndsOf(npSource.log) : npSource.log[i].turn = turn
  /\ turn \notin npEvidence
  /\ npEvidence' = npEvidence \cup {turn}
  /\ Unasked(turn)
  /\ UNCHANGED <<npNow, npOn, npSource, npProvider, npStream, npRows, npQueue,
                 npProc, npAged, npFaults, npSent, npOwed>>

\* The file is written anew, or the session goes back to an earlier record: not
\* while a process holds a scan it has not staged yet, as the older scan would
\* then be taken for the newer one.  The baseline of a new file covers all it
\* holds, so nothing is owed.
SourceRewritten ==
  /\ npSource.log # <<>>
  /\ \/ /\ npSource.identity < MaxIdentity
        /\ npSource' = [npSource EXCEPT !.identity = @ + 1]
     \/ /\ \A p \in NpProcs : npProc[p].pc # "stage"
        /\ npSource' = [npSource EXCEPT !.log = SubSeq(@, 1, Len(@) - 1)]
  /\ npOwed' = {}
  /\ UNCHANGED <<npNow, npOn, npEvidence, npProvider, npStream, npRows, npQueue,
                 npProc, npAged, npFaults, npSent, npUnnoticed, npUnwanted>>

\* The user switches the provider.  Rounds come as seldom as the user sets them
\* to, so that none may see it off before it is on again: there is no new
\* baseline then, and what ended meanwhile is told.
SwitchProvider ==
  /\ npNow < MaxNpNow
  /\ npOn' = ~npOn
  /\ npNow' = npNow + 1
  /\ npUnnoticed' = {} /\ npOwed' = {}
  /\ UNCHANGED <<npSource, npEvidence, npProvider, npStream, npRows, npQueue,
                 npProc, npAged, npFaults, npSent, npUnwanted>>

(***************************************************************************)
(* A round                                                                 *)
(***************************************************************************)
\* recover_interrupted_native_deliveries, of deliveries claimed long ago.
Recovered(rows, keys) ==
  [k \in NpKey |-> IF k \in keys /\ rows[k].status = "delivering"
                     THEN [rows[k] EXCEPT !.status = IF k \in npQueue THEN "queued" ELSE "unknown"]
                     ELSE rows[k]]

\* maintain_notification_history_if_due: a finished delivery is forgotten,
\* unless the cursor may still come to its record.
Forgettable(k) ==
  /\ npRows[k].status \in {"queued", "skipped", "unknown"}
  /\ ~ /\ npStream.identity = k[1]
       /\ npStream.cursor < npRows[k].pos \/ (MutableSource /\ npStream.cursor = npRows[k].pos)

\* The provider calls its hook when a turn ends; with the provider off the hook
\* returns at once.
Begin(p) ==
  /\ npProc[p].pc = "idle"
  /\ p # NpMonitor => npOn
  /\ p \in {NpMonitor} \cup NpForeign \/ EndsOf(npSource.log) # {}
  /\ npProc' = [npProc EXCEPT ![p].pc = IF p \in NpForeign THEN "list" ELSE "scan", ![p].on = npOn]
  /\ npRows' = Recovered(npRows, npAged)
  /\ npAged' = {}
  /\ UNCHANGED <<npNow, npOn, npSource, npEvidence, npProvider, npStream, npQueue,
                 npFaults, npSent, npTurns>>

\* The monitor forgets what ended seven days ago at least: no process is still
\* in a round that began before that.
Forget(k) ==
  /\ \A p \in NpProcs : npProc[p].pc = "idle"
  /\ npRows[k].status \in {"queued", "skipped", "unknown"}
  /\ k \in npQueue \/ Forgettable(k)
  /\ npQueue' = npQueue \ {k}
  /\ npRows' = IF Forgettable(k) THEN [npRows EXCEPT ![k] = NoRow] ELSE npRows
  /\ npOwed' = npOwed \ {k[2]}
  /\ UNCHANGED <<npNow, npOn, npSource, npEvidence, npProvider, npStream,
                 npProc, npAged, npFaults, npSent, npUnnoticed, npUnwanted>>

NpScan(p) ==
  /\ npProc[p].pc = "scan"
  /\ npProc' = [npProc EXCEPT ![p].pc = "stage",
                              ![p].scan = IF npProc[p].on THEN SnapshotNow ELSE NoSnapshot]
  /\ UNCHANGED <<npNow, npOn, npSource, npEvidence, npProvider, npStream, npRows, npQueue,
                 npAged, npFaults, npSent, npTurns>>

ScanFailsFor(p) ==
  /\ npProc[p].pc = "scan" /\ npProc[p].on
  /\ NpFault
  /\ npProc' = [npProc EXCEPT ![p].pc = "stage", ![p].scan = NoSnapshot]
  /\ UNCHANGED <<npNow, npOn, npSource, npEvidence, npProvider, npStream, npRows, npQueue,
                 npAged, npSent, npTurns>>

\* Mutant: the identity of the file is not compared.
ReplacedIgnoringIdentity(scan) == npStream # NoStream /\ npStream.cursor > scan.count

\* The identity of the file changed, or the log is shorter than the cursor.
Replaced(scan) ==
  npStream # NoStream /\ (npStream.identity # scan.identity \/ npStream.cursor > scan.count)

StartCursor(scan, reset) ==
  IF ~reset THEN npStream.cursor
  ELSE IF LocalOnly THEN scan.settled ELSE scan.count

\* Does the loop over the events reach its INSERT?
IsFresh(e, cursor, activated) ==
  LET known == MutableSource /\ npStream # NoStream IN
  /\ e.pos > cursor \/ (known /\ e.pos = cursor /\ e.at >= activated)
  /\ known \/ e.at >= activated

\* A baseline of a source whose past may change is its events.  When its scan
\* failed, the next one tells what ended before (history: it is not unwanted).
StageOn(p, scan) ==
  LET baseline == ~npProvider.enabled
      activated == IF baseline THEN npNow + 1 ELSE npProvider.activated
      reset == baseline \/ Replaced(scan)
      cursor == StartCursor(scan, reset)
      events == IF reset THEN (IF LocalOnly THEN scan.events ELSE {})
                         ELSE {e \in scan.events : IsFresh(e, cursor, activated)}
      inserted == {e \in events : npRows[<<scan.identity, e.turn>>].status = "none"}
      status == IF reset THEN "skipped" ELSE "pending" IN
  /\ npProvider' = [enabled |-> TRUE, activated |-> activated]
  /\ npNow' = IF baseline THEN npNow + 1 ELSE npNow
  /\ IF scan = NoSnapshot
       THEN UNCHANGED <<npRows, npStream>>
       ELSE /\ npRows' = [k \in NpKey |->
                            IF k[1] = scan.identity /\ \E e \in inserted : e.turn = k[2]
                              THEN [status |-> status,
                                    pos |-> (CHOOSE e \in inserted : e.turn = k[2]).pos]
                              ELSE npRows[k]]
            /\ npStream' = [identity |-> scan.identity, cursor |-> Max({cursor, scan.settled})]
  /\ npUnwanted' = IF baseline /\ scan = NoSnapshot /\ MutableSource THEN {} ELSE npUnwanted
  /\ UNCHANGED npUnnoticed

\* Mutant: the provider stays enabled, so that no baseline is set later.
StageOffKeepsBaseline ==
  /\ npRows' = [k \in NpKey |-> IF npRows[k].status = "pending"
                                  THEN [npRows[k] EXCEPT !.status = "skipped"] ELSE npRows[k]]
  /\ npUnwanted' = npUnwanted \cup npUnnoticed /\ npUnnoticed' = {}
  /\ UNCHANGED <<npNow, npProvider, npStream>>

StageOff ==
  /\ npProvider' = [npProvider EXCEPT !.enabled = FALSE]
  /\ npRows' = [k \in NpKey |-> IF npRows[k].status = "pending"
                                  THEN [npRows[k] EXCEPT !.status = "skipped"] ELSE npRows[k]]
  /\ npUnwanted' = npUnwanted \cup npUnnoticed /\ npUnnoticed' = {}
  /\ UNCHANGED <<npNow, npStream>>

\* stage_native_notifications_with_hooks, one transaction.  Only a provider
\* that is not local needs its scan after it.
Stage(p) ==
  /\ npProc[p].pc = "stage"
  /\ IF npProc[p].on THEN StageOn(p, npProc[p].scan) ELSE StageOff
  /\ npProc' = [npProc EXCEPT ![p].pc = "list", ![p].scan = IF LocalOnly THEN NoSnapshot ELSE @]
  /\ UNCHANGED <<npOn, npSource, npEvidence, npQueue, npAged, npFaults, npSent, npOwed>>

\* The process goes on with the rest of its list, or ends its round.
GoOn(proc, todo) ==
  IF todo = {} THEN NpIdle ELSE [proc EXCEPT !.pc = "claim", !.todo = todo, !.key = <<0, 0>>]

\* deliver_pending lists what is pending, whoever staged it.
List(p) ==
  /\ npProc[p].pc = "list"
  /\ npProc' = [npProc EXCEPT ![p] = GoOn(@, {k \in NpKey : npRows[k].status = "pending"})]
  /\ UNCHANGED <<npNow, npOn, npSource, npEvidence, npProvider, npStream, npRows, npQueue,
                 npAged, npFaults, npSent, npTurns>>

StillCurrent(p, k) ==
  npProc[p].scan.identity = k[1] /\ \E e \in npProc[p].scan.events : e.turn = k[2]

\* One delivery of the list: claimed when it is still pending, then sent
\* unless this round's own scan does not show it.
NpClaim(p, k) ==
  /\ npProc[p].pc = "claim" /\ k \in npProc[p].todo
  /\ IF npRows[k].status = "pending"
       THEN /\ npRows' = [npRows EXCEPT ![k].status = "delivering"]
            /\ npProc' = [npProc EXCEPT
                            ![p].pc = IF (~LocalOnly /\ ~StillCurrent(p, k)) \/ ~npProc[p].on
                                      THEN "finish" ELSE "send",
                            ![p].todo = @ \ {k}, ![p].key = k]
       ELSE /\ npProc' = [npProc EXCEPT ![p] = GoOn(@, @.todo \ {k})]
            /\ UNCHANGED npRows
  /\ UNCHANGED <<npNow, npOn, npSource, npEvidence, npProvider, npStream, npQueue,
                 npAged, npFaults, npSent, npTurns>>

\* notification_delivery::native, up to the entry in the queue.
Send(p) ==
  LET k == npProc[p].key IN
  /\ npProc[p].pc = "send"
  /\ npQueue' = npQueue \cup {k}
  /\ npSent' = IF k \in npQueue THEN npSent ELSE [npSent EXCEPT ![k] = @ + 1]
  /\ npProc' = [npProc EXCEPT ![p].pc = "finish"]
  /\ UNCHANGED <<npNow, npOn, npSource, npEvidence, npProvider, npStream, npRows,
                 npAged, npFaults, npTurns>>

\* finish_native_delivery: what the queue says goes before the caller's own.
NpFinish(p) ==
  LET k == npProc[p].key IN
  /\ npProc[p].pc = "finish"
  /\ npRows' = IF npRows[k].status = "delivering"
                 THEN [npRows EXCEPT ![k].status = IF k \in npQueue THEN "queued" ELSE "skipped"]
                 ELSE npRows
  /\ npAged' = npAged \ {k}
  /\ npProc' = [npProc EXCEPT ![p] = GoOn(@, @.todo)]
  /\ UNCHANGED <<npNow, npOn, npSource, npEvidence, npProvider, npStream, npQueue,
                 npFaults, npSent, npTurns>>

\* The watchdog of a hook (five seconds), an error of the database, a stop.
RoundDies(p) ==
  /\ npProc[p].pc # "idle"
  /\ NpFault
  /\ npProc' = [npProc EXCEPT ![p] = NpIdle]
  /\ UNCHANGED <<npNow, npOn, npSource, npEvidence, npProvider, npStream, npRows, npQueue,
                 npAged, npSent, npTurns>>

\* 120 seconds after the claim of a delivery nobody has in hand; or of one in
\* the hand of a process that was suspended.
Ages(k) ==
  /\ npRows[k].status = "delivering" /\ k \notin npAged
  /\ IF \E p \in NpProcs : npProc[p].key = k THEN NpFault ELSE UNCHANGED npFaults
  /\ npAged' = npAged \cup {k}
  /\ UNCHANGED <<npNow, npOn, npSource, npEvidence, npProvider, npStream, npRows, npQueue,
                 npProc, npSent, npTurns>>

(***************************************************************************)
(* Specification                                                           *)
(***************************************************************************)
NpStep(p) ==
  \/ NpScan(p) \/ Stage(p) \/ List(p) \/ Send(p) \/ NpFinish(p)
  \/ \E k \in NpKey : NpClaim(p, k)

NpNext ==
  \/ WriteOther
  \/ \E evident \in BOOLEAN : TurnEnds(evident)
  \/ \E turn \in Turn : EvidenceComes(turn)
  \/ SourceRewritten
  \/ SwitchProvider
  \/ \E p \in NpProcs : Begin(p) \/ NpStep(p) \/ ScanFailsFor(p) \/ RoundDies(p)
  \/ \E k \in NpKey : Ages(k) \/ Forget(k)

NpSpec == NpInit /\ [][NpNext]_npVars

\* The monitor's loop and the executors of the processes keep running, time
\* passes, and the evidence of a turn is written by the program that ended it.
\* Nothing is assumed of the hooks' being called.
NpFairness ==
  /\ WF_npVars(Begin(NpMonitor))
  /\ \A p \in NpProcs : WF_npVars(NpStep(p))
  /\ WF_npVars(\E k \in NpKey : Ages(k) /\ npFaults' = npFaults)
  /\ WF_npVars(\E turn \in Turn : EvidenceComes(turn))
NpFairSpec == NpSpec /\ NpFairness

(***************************************************************************)
(* Properties                                                              *)
(***************************************************************************)
NpTypeOK ==
  /\ npNow \in Instant /\ npOn \in BOOLEAN
  /\ npSource \in [identity : 1..MaxIdentity, log : Seq(NpRecord), written : 0..MaxTurns]
  /\ npEvidence \subseteq Turn
  /\ npProvider \in [enabled : BOOLEAN, activated : Instant]
  /\ npStream \in [identity : 0..MaxIdentity, cursor : 0..MaxTurns]
  /\ npRows \in [NpKey -> [status : NpStatus, pos : 0..MaxTurns]]
  /\ npQueue \subseteq NpKey
  /\ npProc \in [NpProcs -> [pc : {"idle", "scan", "stage", "list", "claim", "send", "finish"},
                             on : BOOLEAN, scan : Snapshot, todo : SUBSET NpKey,
                             key : NpKey \cup {<<0, 0>>}]]
  /\ npAged \subseteq NpKey
  /\ npFaults \in 0..MaxNpFaults
  /\ npSent \in [NpKey -> Nat]
  /\ npUnnoticed \subseteq Turn /\ npUnwanted \subseteq Turn /\ npOwed \subseteq Turn

\* A turn enters the queue at most once: not once for the hook and once for
\* the monitor, not again when its file is written anew under another
\* identity or the session goes back, not again when the queue has forgotten
\* it, and not again when its delivery was recovered.
ToldOncePerTurn ==
  \A k, other \in NpKey :
    /\ npSent[k] <= 1
    /\ k[2] = other[2] /\ npSent[k] > 0 /\ npSent[other] > 0 => k = other

\* A turn that ended, with its evidence, while the provider was off is never
\* told, however late its file is read, and whichever process reads it: once a
\* round has seen the provider off, and, for a source whose past may change, once
\* the round that sets the baseline could read it.
NothingHistoric ==
  \A k \in NpKey : k[2] \in npUnwanted => npSent[k] = 0

\* A turn that ended while the provider was on reaches the queue, unless the
\* user switches the provider off or the file is written anew; one whose
\* process was stopped between its claim and the queue is marked unknown.
OwedIsTold ==
  \A turn \in Turn :
    (turn \in npOwed) ~>
      (\/ turn \notin npOwed
       \/ \E i \in 1..MaxIdentity :
            npSent[<<i, turn>>] > 0 \/ npRows[<<i, turn>>].status = "unknown")
=============================================================================
