--------------------------- MODULE HistoryWindow ---------------------------
(***************************************************************************)
(* The history of one Codex thread as the user reads it.  The service      *)
(* parses the native file into rows and keeps a journal of which rows      *)
(* changed (jsonl_cache.rs, rollout_events/pagination.rs).  The interface  *)
(* polls the newest window, reads again the older rows the journal names,  *)
(* and loads earlier pages when the user scrolls up (usePagedHistory.ts,   *)
(* historyWindows.ts, threadMessageStore.ts).                              *)
(*                                                                         *)
(* A request is answered when it is made, and its reply is used later: the *)
(* file, the cache and the other request may change in between.            *)
(***************************************************************************)
EXTENDS Naturals, Sequences, FiniteSets, FiniteSetsExt, SequencesExt

CONSTANTS
  Window,       \* rows of a page (120)
  HwRevisions,  \* HISTORY_REVISIONS
  HwChangedIds, \* HISTORY_CHANGED_IDS
  DuringPoll,   \* what may happen while a poll reads: "append", "page"
  MaxRows,      \* bound on the rows ever written
  MaxEdits,     \* bound on changed, removed and rewritten rows
  MaxLost       \* bound on the caches evicted and the files replaced

ASSUME HwAssumption ==
  /\ Window \in Nat \ {0} /\ HwRevisions \in Nat \ {0} /\ HwChangedIds \in Nat
  /\ DuringPoll \subseteq {"append", "page"}
  /\ MaxRows \in Nat \ {0} /\ MaxEdits \in Nat /\ MaxLost \in Nat

VARIABLES
  hwFile,  \* the rows the native file stands for
  hwNext,  \* identity of the next row
  hwEdits, \* edits so far
  hwLost,  \* lost snapshots so far
  hwCache, \* DetailState and its snapshot: epoch, revision, rows, journal
  hwSlot,  \* ThreadMessageSlot
  hwPoll,  \* the query under way and its local variables
  hwPage,  \* the page of earlier rows under way
  hwDone   \* cursors of the pages loaded so far (historyScrollCoordinator)

hwVars == <<hwFile, hwNext, hwEdits, hwLost, hwCache, hwSlot, hwPoll, hwPage, hwDone>>

(***************************************************************************)
(* RowLists, cursors and pages                                                 *)
(***************************************************************************)
RowId == 1..MaxRows
Row == [id : RowId, ver : 0..MaxEdits]
RowLists == {rows \in Seq(Row) : Len(rows) <= MaxRows}
IdsOf(rows) == {rows[i].id : i \in DOMAIN rows}
PosOf(rows, id) == CHOOSE i \in DOMAIN rows : rows[i].id = id

\* "b:at:id" and "a:id"; a cursor that is absent is NoCursor.
NoCursor == [kind |-> "none"]
Before(at, id) == [kind |-> "b", at |-> at, id |-> id]
After(id) == [kind |-> "a", id |-> id]

NoRows == [reset |-> FALSE, epoch |-> 0, off |-> 0, changes |-> <<>>,
           rows |-> <<>>, total |-> 0, more |-> FALSE, before |-> NoCursor]

(***************************************************************************)
(* The service                                                             *)
(***************************************************************************)
\* HistoryJournal::record_changes: the oldest changes go when they are too many.
JournalFits(changes) ==
  /\ Len(changes) <= HwRevisions
  /\ MapThenSumSet(LAMBDA i : Cardinality(changes[i].ids), DOMAIN changes) <= HwChangedIds

Recorded(changes, off, ids, reset) ==
  LET over == reset \/ Cardinality(ids) > HwChangedIds
      all == Append(changes, [off |-> off, ids |-> IF over THEN {} ELSE ids, reset |-> over])
      From(n) == SubSeq(all, n + 1, Len(all))
  IN From(Min({n \in 0..Len(all) : JournalFits(From(n))}))

\* JsonlCache::read: a file that was appended to is parsed further, any other
\* change, and a snapshot that was evicted, start a new epoch.
Fresh ==
  LET old == hwCache.rows
      changed == {r.id : r \in {q \in ToSet(hwFile) :
                    \E o \in ToSet(old) : o.id = q.id /\ o.ver # q.ver}}
      removed == ~ (IdsOf(old) \subseteq IdsOf(hwFile))
  IN CASE ~hwCache.kept ->
            [kept |-> TRUE, epoch |-> hwCache.epoch + 1, off |-> 0, rows |-> hwFile,
             changes |-> Recorded(<<>>, 0, {}, FALSE)]
       [] hwCache.kept /\ old = hwFile -> hwCache
       [] hwCache.kept /\ old # hwFile ->
            [hwCache EXCEPT !.off = @ + 1, !.rows = hwFile,
                            !.changes = Recorded(@, hwCache.off + 1, changed, removed)]

\* thread_detail_page_from_summary and history_end: the page that ends at the
\* cursor, or at the newest row.
PageAt(cursor) ==
  LET rows == Fresh.rows
      end == CASE cursor.kind = "none" -> Len(rows)
               [] cursor.kind = "a" /\ cursor.id \in IdsOf(rows) -> PosOf(rows, cursor.id)
               [] cursor.kind = "b" /\ cursor.id \in IdsOf(rows) -> PosOf(rows, cursor.id) - 1
               [] OTHER -> 0
      start == IF end > Window THEN end - Window ELSE 0
  IN [reset |-> FALSE, epoch |-> Fresh.epoch, off |-> Fresh.off, changes |-> Fresh.changes,
      rows |-> SubSeq(rows, start + 1, end), total |-> Len(rows), more |-> start > 0,
      before |-> IF start > 0 THEN Before(start, rows[start + 1].id) ELSE NoCursor]

(***************************************************************************)
(* The interface                                                           *)
(***************************************************************************)
\* mergeBlocksPreservingHistory: the incoming window owns its order; rows that
\* only the current one has stay in front of the row they were in front of.
MergeRows(cur, inc) ==
  LET shared == {i \in DOMAIN cur : cur[i].id \in IdsOf(inc)}
      Held(id) ==
        IF id \notin IdsOf(cur) THEN <<>>
        ELSE LET p == PosOf(cur, id)
             IN SubSeq(cur, Max({i \in shared : i < p} \cup {Min(shared) - 1}) + 1, p - 1)
  IN CASE inc = <<>> -> cur
       [] inc # <<>> /\ shared = {} -> cur \o inc
       [] inc # <<>> /\ shared # {} ->
            SubSeq(cur, 1, Min(shared) - 1)
            \o FlattenSeq([i \in DOMAIN inc |-> Append(Held(inc[i].id), inc[i])])
            \o SubSeq(cur, Max(shared) + 1, Len(cur))

\* mergeMessageBlocks(..., "prepend")
Prepended(cur, page) ==
  SelectSeq(page, LAMBDA r : r.id \notin IdsOf(cur))
  \o [i \in DOMAIN cur |->
        IF cur[i].id \in IdsOf(page) THEN page[PosOf(page, cur[i].id)] ELSE cur[i]]

\* retainHistoryWindows with retainedBoundary, for single pages
Retained(prev, inc) ==
  IF inc.total < prev.total THEN inc
  ELSE [inc EXCEPT
          !.rows = MergeRows(prev.rows, inc.rows),
          !.more = prev.more /\ inc.more,
          !.before = IF ~prev.more \/ (inc.more /\ prev.before # NoCursor) THEN prev.before
                     ELSE inc.before]

\* stableHistoryCursor
Stable(page) ==
  IF page.before = NoCursor \/ page.rows = <<>> THEN page.before
  ELSE Before(page.before.at, page.rows[1].id)

\* What the journal says after the revision of the loaded window; all of it
\* when the revision is not in the journal any more.
ChangesSince(prev, head) ==
  LET known == {i \in DOMAIN head.changes : head.changes[i].off = prev.off}
  IN {head.changes[i] : i \in {j \in DOMAIN head.changes : \A k \in known : j > k}}

\* A revision that the journal does not have any more is taken for unchanged.
StaleForgetting(prev, head) ==
  IF \E c \in ToSet(head.changes) : c.off = prev.off
  THEN UNION {c.ids : c \in ChangesSince(prev, head)} ELSE {}

\* historicalChanges: the rows to read again
Stale(prev, head) ==
  CASE prev.off = head.off -> {}
    [] prev.off # head.off /\ \E c \in ToSet(head.changes) : c.off = prev.off ->
         UNION {c.ids : c \in ChangesSince(prev, head)}
    [] OTHER -> RowId

\* The loaded rows cannot be kept: another source, or rows that were removed.
Rewritten(prev, head) ==
  \/ prev.epoch # head.epoch
  \/ head.total < prev.total
  \/ /\ \E c \in ToSet(head.changes) : c.off = prev.off
     /\ \E c \in ChangesSince(prev, head) : c.reset

\* applyThreadDetailToSlot
ApplyDetail(slot, detail) ==
  LET reset == detail.reset \/ (slot.epoch # 0 /\ slot.epoch # detail.epoch)
      kept == IF reset THEN [slot EXCEPT !.rows = <<>>, !.before = NoCursor] ELSE slot
      rows == MergeRows(kept.rows, detail.rows)
      complete == Len(rows) >= detail.total
      earlier == /\ detail.before # NoCursor
                 /\ kept.before = NoCursor \/ detail.before.at < kept.before.at
  IN [reset |-> FALSE, epoch |-> detail.epoch, off |-> detail.off, changes |-> <<>>,
      rows |-> rows, total |-> detail.total,
      more |-> detail.more /\ ~complete,
      before |-> CASE complete -> NoCursor
                   [] ~complete /\ earlier -> Stable(detail)
                   [] OTHER -> kept.before]

\* applyThreadBlockPageToSlot
ApplyPage(slot, page, cursor) ==
  IF slot.epoch # page.epoch \/ (slot.before # NoCursor /\ slot.before # cursor) THEN slot
  ELSE [slot EXCEPT !.rows = Prepended(@, page.rows), !.total = page.total,
                    !.more = page.more, !.before = Stable(page)]

(***************************************************************************)
(* The native file and the cache                                           *)
(***************************************************************************)
NoPoll == [pc |-> "idle"]
NoPage == [pc |-> "idle"]
Reading == hwPoll.pc \notin {"idle", "apply"}

AppendRow ==
  /\ hwNext <= MaxRows
  /\ Reading => "append" \in DuringPoll
  /\ hwFile' = Append(hwFile, [id |-> hwNext, ver |-> 0])
  /\ hwNext' = hwNext + 1
  /\ UNCHANGED <<hwEdits, hwLost, hwCache, hwSlot, hwPoll, hwPage, hwDone>>

\* A record changes an earlier row: the result of a tool, or an activity.
ChangeRow(i) ==
  /\ hwEdits < MaxEdits /\ hwEdits' = hwEdits + 1
  /\ hwFile' = [hwFile EXCEPT ![i].ver = @ + 1]
  /\ UNCHANGED <<hwNext, hwLost, hwCache, hwSlot, hwPoll, hwPage, hwDone>>

\* A record takes an earlier row away: it is merged with another one.
RemoveRow(i) ==
  /\ hwEdits < MaxEdits /\ hwEdits' = hwEdits + 1
  /\ hwFile' = RemoveAt(hwFile, i)
  /\ UNCHANGED <<hwNext, hwLost, hwCache, hwSlot, hwPoll, hwPage, hwDone>>

\* The snapshot is evicted, or the file is not the one that was read: it was
\* replaced, with its last row or without it.
SnapshotLost(replaced) ==
  /\ hwCache.kept /\ hwLost < MaxLost /\ hwLost' = hwLost + 1
  /\ hwCache' = [hwCache EXCEPT !.kept = FALSE]
  /\ replaced => hwFile # <<>>
  /\ hwFile' = IF replaced THEN Front(hwFile) ELSE hwFile
  /\ UNCHANGED <<hwNext, hwEdits, hwSlot, hwPoll, hwPage, hwDone>>

(***************************************************************************)
(* A poll: refreshHistory                                                  *)
(***************************************************************************)
PollRequests ==
  /\ hwPoll.pc = "idle"
  /\ hwPage.pc # "idle" => "page" \in DuringPoll
  /\ hwCache' = Fresh
  /\ hwPoll' = [pc |-> "head", head |-> PageAt(NoCursor)]
  /\ UNCHANGED <<hwFile, hwNext, hwEdits, hwLost, hwSlot, hwPage, hwDone>>

\* The newest window arrives and is compared with what is loaded by then.
HeadArrives ==
  LET head == hwPoll.head
      same == /\ head.epoch = hwSlot.epoch /\ head.off = hwSlot.off
              /\ head.total = hwSlot.total
  IN /\ hwPoll.pc = "head"
     /\ hwPoll' =
          CASE hwSlot.rows = <<>> -> [pc |-> "apply", detail |-> head]
            [] hwSlot.rows # <<>> /\ same -> NoPoll
            [] hwSlot.rows # <<>> /\ ~same /\ Rewritten(hwSlot, head) ->
                 [pc |-> "apply", detail |-> [head EXCEPT !.reset = TRUE]]
            [] OTHER ->
                 [pc |-> "bridge", prev |-> hwSlot, combined |-> head, bridge |-> head]
     /\ UNCHANGED <<hwFile, hwNext, hwEdits, hwLost, hwCache, hwSlot, hwPage, hwDone>>

Bridged ==
  \/ hwPoll.bridge.rows = <<>>
  \/ IdsOf(hwPoll.bridge.rows) \cap IdsOf(hwPoll.prev.rows) # {}
  \/ ~hwPoll.bridge.more

\* Fast appends may move the head by more than one window between polls: the
\* windows in between are read, newest first.
ReadBridge ==
  LET page == PageAt(Stable(hwPoll.bridge))
  IN /\ hwPoll.pc = "bridge" /\ ~Bridged
     /\ hwCache' = Fresh
     /\ hwPoll' = IF page.epoch # hwPoll.combined.epoch THEN NoPoll
                  ELSE [hwPoll EXCEPT !.bridge = page, !.combined = Retained(page, @)]
     /\ UNCHANGED <<hwFile, hwNext, hwEdits, hwLost, hwSlot, hwPage, hwDone>>

BridgeEnds ==
  /\ hwPoll.pc = "bridge" /\ Bridged
  /\ hwPoll' = [pc |-> "rows", prev |-> hwPoll.prev, combined |-> hwPoll.combined,
                next |-> Retained(hwPoll.prev, hwPoll.combined), updated |-> FALSE,
                todo |-> (IdsOf(hwPoll.prev.rows) \ IdsOf(hwPoll.combined.rows))
                         \cap Stale(hwPoll.prev, hwPoll.combined)]
  /\ UNCHANGED <<hwFile, hwNext, hwEdits, hwLost, hwCache, hwSlot, hwPage, hwDone>>

\* The page that ends with the last of the changed rows is read.
ReadChanged ==
  LET prev == hwPoll.prev.rows
      id == prev[Max({i \in DOMAIN prev : prev[i].id \in hwPoll.todo})].id
      page == PageAt(After(id))
  IN /\ hwPoll.pc = "rows" /\ hwPoll.todo # {}
     /\ hwCache' = Fresh
     /\ hwPoll' =
          CASE page.epoch # hwPoll.combined.epoch -> NoPoll
            [] page.epoch = hwPoll.combined.epoch /\ id \notin IdsOf(page.rows) ->
                 [pc |-> "apply", detail |-> [hwPoll.combined EXCEPT !.reset = TRUE]]
            [] OTHER ->
                 [hwPoll EXCEPT !.next = Retained(@, page), !.updated = TRUE,
                                !.todo = @ \ IdsOf(page.rows)]
     /\ UNCHANGED <<hwFile, hwNext, hwEdits, hwLost, hwSlot, hwPage, hwDone>>

ReadEnds ==
  /\ hwPoll.pc = "rows" /\ hwPoll.todo = {}
  /\ hwPoll' = [pc |-> "apply",
                detail |-> IF hwPoll.updated THEN Retained(hwPoll.next, hwPoll.combined)
                           ELSE hwPoll.next]
  /\ UNCHANGED <<hwFile, hwNext, hwEdits, hwLost, hwCache, hwSlot, hwPage, hwDone>>

\* The result is shown (useHydrateThreadMessageStore).
PollApplies ==
  /\ hwPoll.pc = "apply"
  /\ hwSlot' = ApplyDetail(hwSlot, hwPoll.detail)
  /\ hwPoll' = NoPoll
  /\ UNCHANGED <<hwFile, hwNext, hwEdits, hwLost, hwCache, hwPage, hwDone>>

\* A request fails or is cancelled.
PollFails ==
  /\ Reading
  /\ hwPoll' = NoPoll
  /\ UNCHANGED <<hwFile, hwNext, hwEdits, hwLost, hwCache, hwSlot, hwPage, hwDone>>

(***************************************************************************)
(* Earlier pages: historyScrollCoordinator and Conversation                *)
(***************************************************************************)
LoadOlder ==
  /\ hwPage.pc = "idle"
  /\ hwPoll.pc # "idle" => "page" \in DuringPoll
  /\ hwSlot.more /\ hwSlot.before # NoCursor /\ hwSlot.before \notin hwDone
  /\ hwCache' = Fresh
  /\ hwPage' = [pc |-> "loaded", cursor |-> hwSlot.before, page |-> PageAt(hwSlot.before)]
  /\ UNCHANGED <<hwFile, hwNext, hwEdits, hwLost, hwSlot, hwPoll, hwDone>>

\* The page is shown; its cursor is done even when the store refuses the page.
PageArrives ==
  /\ hwPage.pc = "loaded"
  /\ hwSlot' = ApplyPage(hwSlot, hwPage.page, hwPage.cursor)
  /\ hwDone' = hwDone \cup {hwPage.cursor}
  /\ hwPage' = NoPage
  /\ UNCHANGED <<hwFile, hwNext, hwEdits, hwLost, hwCache, hwPoll>>

PageFails ==
  /\ hwPage.pc = "loaded"
  /\ hwPage' = NoPage
  /\ UNCHANGED <<hwFile, hwNext, hwEdits, hwLost, hwCache, hwSlot, hwPoll, hwDone>>

\* The user looks at another thread and comes back: what was loaded is kept.
Reopen ==
  /\ hwDone # {}
  /\ hwDone' = {} /\ hwPage' = NoPage /\ hwPoll' = NoPoll
  /\ UNCHANGED <<hwFile, hwNext, hwEdits, hwLost, hwCache, hwSlot>>

(***************************************************************************)
(* Specification                                                           *)
(***************************************************************************)
HistoryInit ==
  /\ hwFile = <<>> /\ hwNext = 1 /\ hwEdits = 0 /\ hwLost = 0
  /\ hwCache = [kept |-> FALSE, epoch |-> 0, off |-> 0, rows |-> <<>>, changes |-> <<>>]
  /\ hwSlot = NoRows /\ hwPoll = NoPoll /\ hwPage = NoPage /\ hwDone = {}

HistoryNext ==
  \/ AppendRow
  \/ \E i \in DOMAIN hwFile : ChangeRow(i) \/ RemoveRow(i)
  \/ \E replaced \in BOOLEAN : SnapshotLost(replaced)
  \/ PollRequests \/ HeadArrives \/ ReadBridge \/ BridgeEnds
  \/ ReadChanged \/ ReadEnds \/ PollApplies \/ PollFails
  \/ LoadOlder \/ PageArrives \/ PageFails \/ Reopen

HistorySpec == HistoryInit /\ [][HistoryNext]_hwVars

(***************************************************************************)
(* Properties                                                              *)
(***************************************************************************)
HwTypeOK ==
  /\ hwFile \in RowLists /\ hwNext \in 1..MaxRows + 1
  /\ hwEdits \in 0..MaxEdits /\ hwLost \in 0..MaxLost
  /\ hwSlot.rows \in RowLists /\ hwSlot.total \in 0..MaxRows
  /\ hwPoll.pc \in {"idle", "head", "bridge", "rows", "apply"}
  /\ hwPage.pc \in {"idle", "loaded"}

\* When the window stands at the newest revision, what it shows is the end of
\* the history, without a gap, a row twice, a row out of place or one whose
\* content is older than that revision.
\* (ARCHITECTURE.md, Provider reading: polls refresh the changed rows that are
\* loaded and fill in the windows that fast appends left out.)
ShownIsCurrent ==
  /\ hwSlot.epoch = hwCache.epoch /\ hwSlot.off = hwCache.off
  => IsSuffix(hwSlot.rows, hwCache.rows)

\* Then there is more to load exactly if the history is longer than what is
\* shown, and the next page joins what is shown: its cursor is at a row of it.
\* (A changed row that was read again may have brought older ones with it; the
\* cursor stays where it was and the next page overlaps them.)
EarlierIsOffered ==
  /\ hwSlot.epoch = hwCache.epoch /\ hwSlot.off = hwCache.off /\ hwCache.kept
  => /\ hwSlot.more <=> Len(hwSlot.rows) < Len(hwCache.rows)
     /\ hwSlot.more => hwSlot.before.id \in IdsOf(hwSlot.rows)

\* The window is the end of the history, and leads on to the rest of it.
WindowIsRight == ShownIsCurrent /\ EarlierIsOffered
=============================================================================
