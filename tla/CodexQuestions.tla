--------------------------- MODULE CodexQuestions ---------------------------
(***************************************************************************)
(* Questions a Codex turn asks without waiting (request_user_input_async)  *)
(* and the four entrances that tell the user of them: the monitor of       *)
(* questions, the passive scan of the server, the helper that the          *)
(* PreToolUse hook starts, and the Stop hook.  They run in processes of    *)
(* their own and share only the database: the marker of a delivery, the    *)
(* marker of a passive delivery, the row that suppresses duplicates, the   *)
(* delivery queue, and two lists of markers that maintenance must keep.    *)
(*                                                                         *)
(* Each thread asks one question.  Time is counted in whole days: what the *)
(* code repeats at most once a day is repeated on each new day, a duplicate*)
(* is suppressed for some hours of one day, and whatever an entrance has   *)
(* begun it ends on the same day.                                          *)
(***************************************************************************)
EXTENDS Naturals, FiniteSets

CONSTANTS
  CqThreads,      \* threads, each with its question
  CqUses,         \* the entrances that may be in use together: not every machine
                  \* runs the server or has the hooks installed
  CqMaxAge,       \* PASSIVE_ASYNC_QUESTION_MAX_AGE_MS, in days
  CqRetention,    \* event_retention_days, at least 7 there
  CqMaxDay,       \* bound on the days
  CqMaxSwitches,  \* bound on the changes of the settings
  CqMaxFaults     \* bound on processes that stop or fail half-way

Entrances == {"monitor", "scan", "hook", "stop"}

ASSUME CqAssumption ==
  /\ IsFiniteSet(CqThreads) /\ CqThreads # {} /\ CqUses \subseteq SUBSET Entrances
  /\ CqMaxAge \in Nat /\ CqRetention \in Nat /\ CqMaxAge < CqRetention
  /\ CqMaxDay \in Nat \ {0} /\ CqMaxSwitches \in Nat /\ CqMaxFaults \in Nat

VARIABLES
  cqDay,       \* the day
  cqOn,        \* the switches of these notifications, in the settings file
  cqSwitches,  \* changes of them so far
  cqAsked,     \* each question in its transcript
  cqAt,        \* the day it was asked, 0 before
  cqBaseline,  \* the setting probe_async_question_baseline: its "enabled"
  cqOld,       \* questions that are not after its "since_ms"
  cqMarker,    \* probe_async_question_delivery:*, the day of its updated_at, 0 for none
  cqPassive,   \* probe_passive_sent_marker:*, likewise
  cqListed,    \* probe_active_unresolved_markers:*, with the day of each list
  cqDedupe,    \* questions with an unexpired row in probe_dedupe
  cqRow,       \* the day a question's row entered the delivery queue, 0 for none
  cqProc,      \* each entrance: where it is and its local variables
  cqFaults,    \* faults so far
  \* history
  cqTold,      \* how often each question was put in the queue
  cqKept,      \* the last day it was, or an entrance saw it pending
  cqUnnoticed, \* questions asked since the notifications are off, as long as no
               \* entrance has seen them off
  cqQuiet      \* the others asked while they were off

cqVars == <<cqDay, cqOn, cqSwitches, cqAsked, cqAt, cqBaseline, cqOld, cqMarker, cqPassive,
            cqListed, cqDedupe, cqRow, cqProc, cqFaults, cqTold, cqKept, cqUnnoticed, cqQuiet>>

cqNative == <<cqDay, cqOn, cqSwitches, cqAsked, cqAt>>
cqSetting == <<cqBaseline, cqOld, cqUnnoticed, cqQuiet>>
cqTelling == <<cqTold, cqKept>>

(***************************************************************************)
(* Data                                                                    *)
(***************************************************************************)
Days == 0..CqMaxDay
Never == [t \in CqThreads |-> 0]

\* AsyncQuestionCall::pending: some of its items is unanswered, and neither a
\* rejection nor the end of its turn by another one has cancelled it.
PendingQuestion(t) == cqAsked[t] \in {"open", "turn over"}

CqIdle == [pc |-> "idle", on |-> FALSE, todo |-> {}, active |-> {},
           thread |-> CHOOSE t \in CqThreads : TRUE,
           mine |-> FALSE, send |-> FALSE]

CqInit ==
  /\ cqDay = 1 /\ cqOn \in BOOLEAN /\ cqSwitches = 0
  /\ cqAsked = [t \in CqThreads |-> "unasked"] /\ cqAt = Never
  /\ cqBaseline = "unset" /\ cqOld = {}
  /\ cqMarker = Never /\ cqPassive = Never
  /\ cqListed = [n \in {"monitor", "scan"} |-> [day |-> 0, threads |-> {}]]
  /\ cqDedupe = {} /\ cqRow = Never
  /\ \E used \in CqUses : cqProc = [p \in used |-> CqIdle]
  /\ cqFaults = 0
  /\ cqTold = Never /\ cqKept = Never /\ cqUnnoticed = {} /\ cqQuiet = {}

\* The entrances in use.
InUse == DOMAIN cqProc

Busy(p) == cqProc[p].pc # "idle"
InPipeline(t) ==
  \E p \in InUse : /\ cqProc[p].thread = t
                         /\ cqProc[p].pc \in {"prepare", "mark", "dedupe", "stage", "finish"}

CqGoes(p, r) == cqProc' = [cqProc EXCEPT ![p] = r]

\* History: an entrance found the marker of a question that nobody is about to
\* tell.
KeepsAlive(t) ==
  cqKept' = [cqKept EXCEPT ![t] =
    IF \E p \in InUse : cqProc[p].thread = t /\ cqProc[p].mine THEN @ ELSE cqDay]

\* record_probe_event_with_bark begins for the question of t ...
Enters(p, t, r) == CqGoes(p, [r EXCEPT !.pc = "prepare", !.thread = t])

\* ... and is over: a round goes on to its next thread, a hook ends.
AfterPipeline(p) ==
  IF p \in {"monitor", "scan"} THEN [cqProc[p] EXCEPT !.pc = "next", !.mine = FALSE, !.send = FALSE]
                               ELSE CqIdle

\* notification_baseline: its result, and the setting afterwards.
BaselineIs(on) == IF on THEN "on" ELSE "off"
AskedSoFar == {t \in CqThreads : cqAsked[t] # "unasked"}
\* Mutant: the old instant is kept when they are switched on again.
OldAfterKept(on) == cqOld
OldAfter(on) == IF on /\ cqBaseline # "on" THEN AskedSoFar ELSE cqOld
Baseline(on) ==
  /\ cqBaseline' = BaselineIs(on) /\ cqOld' = OldAfter(on)
  /\ cqUnnoticed' = IF on THEN cqUnnoticed ELSE {}
  /\ cqQuiet' = IF on THEN cqQuiet ELSE cqQuiet \cup cqUnnoticed

CqFault == cqFaults < CqMaxFaults /\ cqFaults' = cqFaults + 1

(***************************************************************************)
(* The native program, the user and time                                   *)
(***************************************************************************)
\* History: the notifications are off, and no entrance is at work that read the
\* settings before.
Silent == ~cqOn /\ \A p \in InUse : Busy(p) => ~cqProc[p].on

\* The PreToolUse hook starts a helper that waits before it looks.
AskQuestion(t, hooked) ==
  /\ cqAsked[t] = "unasked"
  /\ cqAsked' = [cqAsked EXCEPT ![t] = "open"]
  /\ cqAt' = [cqAt EXCEPT ![t] = cqDay]
  /\ cqUnnoticed' = IF Silent /\ cqBaseline = "on" THEN cqUnnoticed \cup {t} ELSE cqUnnoticed
  /\ cqQuiet' = IF Silent /\ cqBaseline # "on" THEN cqQuiet \cup {t} ELSE cqQuiet
  /\ IF hooked
     THEN /\ "hook" \in InUse /\ ~Busy("hook")
          /\ CqGoes("hook", [CqIdle EXCEPT !.pc = "confirm", !.on = cqOn, !.thread = t])
     ELSE UNCHANGED cqProc
  /\ UNCHANGED <<cqDay, cqOn, cqSwitches, cqBaseline, cqOld, cqMarker, cqPassive, cqListed,
                 cqDedupe, cqRow, cqFaults, cqTelling>>

\* The turn ends with its question unanswered, and the Stop hook may run.
TurnStops(t, hooked) ==
  /\ cqAsked[t] = "open"
  /\ cqAsked' = [cqAsked EXCEPT ![t] = "turn over"]
  /\ IF hooked
     THEN /\ "stop" \in InUse /\ ~Busy("stop")
          /\ Enters("stop", t, [CqIdle EXCEPT !.on = cqOn])
     ELSE UNCHANGED cqProc
  /\ UNCHANGED <<cqDay, cqOn, cqSwitches, cqAt, cqSetting, cqMarker,
                 cqPassive, cqListed, cqDedupe, cqRow, cqFaults, cqTelling>>

\* The last item is answered, the call is rejected or its turn aborted, or
\* another turn starts.
QuestionResolved(t) ==
  /\ PendingQuestion(t)
  /\ cqAsked' = [cqAsked EXCEPT ![t] = "resolved"]
  /\ UNCHANGED <<cqDay, cqOn, cqSwitches, cqAt, cqSetting, cqMarker,
                 cqPassive,
                 cqListed, cqDedupe, cqRow, cqProc, cqFaults, cqTelling>>

\* The user switches the notifications.  Rounds come as seldom as the user sets
\* them to, so that nobody may see them off before they are on again: the
\* baseline then stays, and what was asked meanwhile is told.
SwitchQuestions ==
  /\ cqSwitches < CqMaxSwitches
  /\ cqOn' = ~cqOn /\ cqSwitches' = cqSwitches + 1
  /\ cqUnnoticed' = {}
  /\ UNCHANGED <<cqDay, cqAsked, cqAt, cqBaseline, cqOld, cqQuiet, cqMarker, cqPassive,
                 cqListed, cqDedupe, cqRow, cqProc, cqFaults, cqTelling>>

DedupeExpires(t) ==
  /\ t \in cqDedupe /\ ~InPipeline(t)
  /\ cqDedupe' = cqDedupe \ {t}
  /\ UNCHANGED <<cqNative, cqSetting, cqMarker, cqPassive, cqListed, cqRow, cqProc,
                 cqFaults, cqTelling>>

DayPasses ==
  /\ cqDay < CqMaxDay /\ \A p \in InUse : ~Busy(p)
  /\ cqDay' = cqDay + 1 /\ cqDedupe' = {}
  /\ UNCHANGED <<cqOn, cqSwitches, cqAsked, cqAt, cqSetting, cqMarker,
                 cqPassive, cqListed, cqRow, cqProc, cqFaults, cqTelling>>

(***************************************************************************)
(* The rounds of the monitor and of the passive scan, and the hooks        *)
(***************************************************************************)
\* A round looks at the threads it may notify of, whose list entry and
\* transcript can be read at that moment: seen.
MonitorBegins(seen) ==
  /\ ~Busy("monitor")
  /\ Baseline(cqOn)
  /\ CqGoes("monitor", [CqIdle EXCEPT !.on = cqOn, !.pc = IF cqOn THEN "next" ELSE "maintain",
                                    !.todo = IF cqOn THEN seen ELSE {}])
  /\ UNCHANGED <<cqNative, cqMarker, cqPassive, cqListed, cqDedupe, cqRow, cqFaults,
                 cqTelling>>

TooOld(t) == cqDay - cqAt[t] > CqMaxAge
\* One question: a marker is only kept alive, a question without one is told
\* unless it was asked too long ago.
MonitorLooks(t) ==
  LET p == cqProc["monitor"]
      left == [p EXCEPT !.todo = @ \ {t}]
      noted == [left EXCEPT !.active = @ \cup {t}] IN
  /\ p.pc = "next" /\ t \in p.todo
  /\ \/ /\ ~PendingQuestion(t) \/ t \in cqOld
        /\ CqGoes("monitor", left)
        /\ UNCHANGED <<cqMarker, cqKept>>
     \/ /\ PendingQuestion(t) /\ t \notin cqOld /\ cqMarker[t] # 0
        /\ cqMarker' = [cqMarker EXCEPT ![t] = cqDay]
        /\ KeepsAlive(t)
        /\ CqGoes("monitor", noted)
     \/ /\ PendingQuestion(t) /\ t \notin cqOld /\ cqMarker[t] = 0
        /\ IF TooOld(t) THEN CqGoes("monitor", noted) ELSE Enters("monitor", t, noted)
        /\ UNCHANGED <<cqMarker, cqKept>>
  /\ UNCHANGED <<cqNative, cqSetting, cqPassive, cqListed, cqDedupe, cqRow,
                 cqFaults,
                 cqTold>>

\* retain_active_unresolved_markers at the end of a round.
Retains(p) == cqListed' = [cqListed EXCEPT ![p] = [day |-> cqDay, threads |-> cqProc[p].active]]

MonitorEnds ==
  /\ cqProc["monitor"].pc = "next" /\ cqProc["monitor"].todo = {}
  /\ Retains("monitor")
  /\ CqGoes("monitor", [CqIdle EXCEPT !.pc = "maintain"])
  /\ UNCHANGED <<cqNative, cqSetting, cqMarker, cqPassive, cqDedupe, cqRow,
                 cqFaults, cqTelling>>

\* maintain_probe_events, an hour or more after the last time; otherwise the
\* round ends without it.  A marker in a list that is recent enough stays.
\* Mutant: off by one.
OutdatedEarly(day) == cqDay - day >= CqRetention
Outdated(day) == cqDay - day > CqRetention
Listed(n) == IF Outdated(cqListed[n].day) THEN {} ELSE cqListed[n].threads
Swept(markers, kept) ==
  [t \in CqThreads |-> IF Outdated(markers[t]) /\ t \notin kept THEN 0 ELSE markers[t]]
MonitorMaintains(due) ==
  /\ cqProc["monitor"].pc = "maintain"
  /\ IF due
     THEN /\ cqMarker' = Swept(cqMarker, Listed("monitor"))
          /\ cqPassive' = Swept(cqPassive, Listed("scan"))
          /\ cqRow' = Swept(cqRow, {})
     ELSE UNCHANGED <<cqMarker, cqPassive, cqRow>>
  /\ CqGoes("monitor", CqIdle)
  /\ UNCHANGED <<cqNative, cqSetting, cqListed, cqDedupe, cqFaults, cqTelling>>

\* The passive scan takes the threads that wait for a reply and were updated in
\* the last ten minutes, however old the question is.
ScanBegins(fresh) ==
  /\ ~Busy("scan") /\ cqOn
  /\ \A t \in fresh : PendingQuestion(t)
  /\ CqGoes("scan", [CqIdle EXCEPT !.pc = "next", !.on = TRUE, !.todo = fresh])
  /\ UNCHANGED <<cqNative, cqSetting, cqMarker, cqPassive, cqListed, cqDedupe,
                 cqRow,
                 cqFaults, cqTelling>>

ScanLooks(t) ==
  /\ cqProc["scan"].pc = "next" /\ t \in cqProc["scan"].todo
  /\ Enters("scan", t, [cqProc["scan"] EXCEPT !.todo = @ \ {t}, !.active = @ \cup {t}])
  /\ UNCHANGED <<cqNative, cqSetting, cqMarker, cqPassive, cqListed, cqDedupe,
                 cqRow,
                 cqFaults, cqTelling>>

ScanEnds ==
  /\ cqProc["scan"].pc = "next" /\ cqProc["scan"].todo = {}
  /\ Retains("scan")
  /\ CqGoes("scan", CqIdle)
  /\ UNCHANGED <<cqNative, cqSetting, cqMarker, cqPassive, cqDedupe, cqRow,
                 cqFaults, cqTelling>>

HookConfirms ==
  LET p == cqProc["hook"] IN
  /\ p.pc = "confirm"
  /\ IF PendingQuestion(p.thread) THEN Enters("hook", p.thread, p) ELSE CqGoes("hook", CqIdle)
  /\ UNCHANGED <<cqNative, cqSetting, cqMarker, cqPassive, cqListed, cqDedupe,
                 cqRow,
                 cqFaults, cqTelling>>

(***************************************************************************)
(* record_probe_event_with_bark_timeout, statement by statement on the     *)
(* database                                                                *)
(***************************************************************************)
\* prepare_event reads the transcript again; readable is whether it can, and
\* still finds the thread under its identity.
Prepare(p, readable) ==
  LET t == cqProc[p].thread IN
  /\ cqProc[p].pc = "prepare"
  /\ IF readable THEN Baseline(cqProc[p].on) ELSE UNCHANGED cqSetting
  /\ IF readable /\ cqProc[p].on /\ t \notin OldAfter(TRUE) /\ PendingQuestion(t)
     THEN CqGoes(p, [cqProc[p] EXCEPT !.pc = "mark"])
     ELSE CqGoes(p, AfterPipeline(p))
  /\ UNCHANGED <<cqNative, cqMarker, cqPassive, cqListed, cqDedupe, cqRow, cqFaults,
                 cqTelling>>

\* claim_feedback_delivery; a marker that is there is kept alive.
ClaimMarker(p) ==
  LET t == cqProc[p].thread IN
  /\ cqProc[p].pc = "mark"
  /\ cqMarker' = [cqMarker EXCEPT ![t] = cqDay]
  /\ IF cqMarker[t] = 0 THEN UNCHANGED cqKept ELSE KeepsAlive(t)
  /\ CqGoes(p, [cqProc[p] EXCEPT !.pc = "dedupe", !.mine = cqMarker[t] = 0])
  /\ UNCHANGED <<cqNative, cqSetting, cqPassive, cqListed, cqDedupe, cqRow,
                 cqFaults,
                 cqTold>>

\* passive_unresolved_action_sent and claim_probe_dedupe, whatever became of
\* the marker.  The passive marker cannot appear in between: who writes it
\* holds the claim.
IsPassive(p) == p # "stop"
ClaimDedupe(p) ==
  LET t == cqProc[p].thread
      sent == IsPassive(p) /\ cqPassive[t] # 0 IN
  /\ cqProc[p].pc = "dedupe"
  /\ cqDedupe' = cqDedupe \cup {t}
  /\ cqPassive' = IF sent THEN [cqPassive EXCEPT ![t] = cqDay] ELSE cqPassive
  /\ CqGoes(p, [cqProc[p] EXCEPT !.pc = "stage",
                               !.send = t \notin cqDedupe /\ cqProc[p].mine /\ ~sent])
  /\ UNCHANGED <<cqNative, cqSetting, cqMarker, cqListed, cqRow, cqFaults,
                 cqTelling>>

\* notification_delivery::codex: the row enters the queue unless one is there.
StageQuestion(p) ==
  LET t == cqProc[p].thread IN
  /\ cqProc[p].pc = "stage"
  /\ IF cqProc[p].send /\ cqRow[t] = 0
     THEN /\ cqRow' = [cqRow EXCEPT ![t] = cqDay]
          /\ cqTold' = [cqTold EXCEPT ![t] = @ + 1]
          /\ cqKept' = [cqKept EXCEPT ![t] = cqDay]
     ELSE UNCHANGED <<cqRow, cqTold, cqKept>>
  /\ CqGoes(p, [cqProc[p] EXCEPT !.pc = "finish"])
  /\ UNCHANGED <<cqNative, cqSetting, cqMarker, cqPassive, cqListed, cqDedupe,
                 cqFaults>>

\* The outcome is written to the marker and, if this entrance was to send, to
\* the passive marker.
FinishQuestion(p) ==
  LET t == cqProc[p].thread IN
  /\ cqProc[p].pc = "finish"
  /\ cqMarker' = IF cqProc[p].mine THEN [cqMarker EXCEPT ![t] = cqDay] ELSE cqMarker
  /\ cqPassive' = IF cqProc[p].send /\ IsPassive(p) THEN [cqPassive EXCEPT ![t] = cqDay]
                                                    ELSE cqPassive
  /\ CqGoes(p, AfterPipeline(p))
  /\ UNCHANGED <<cqNative, cqSetting, cqListed, cqDedupe, cqRow, cqFaults,
                 cqTelling>>

\* A process is stopped, or a statement of it fails, which ends the round or
\* the hook.
EntranceStops(p) ==
  /\ Busy(p) /\ CqFault
  /\ CqGoes(p, CqIdle)
  /\ UNCHANGED <<cqNative, cqSetting, cqMarker, cqPassive, cqListed, cqDedupe,
                 cqRow, cqTelling>>

CqPipeline(p) ==
  \/ \E readable \in BOOLEAN : Prepare(p, readable)
  \/ ClaimMarker(p) \/ ClaimDedupe(p) \/ StageQuestion(p) \/ FinishQuestion(p)

CqNext ==
  \/ \E t \in CqThreads, hooked \in BOOLEAN : AskQuestion(t, hooked) \/ TurnStops(t, hooked)
  \/ \E t \in CqThreads : QuestionResolved(t) \/ DedupeExpires(t)
  \/ SwitchQuestions \/ DayPasses
  \/ /\ "monitor" \in InUse
     /\ \/ \E seen \in SUBSET CqThreads : MonitorBegins(seen)
        \/ \E t \in CqThreads : MonitorLooks(t)
        \/ MonitorEnds
        \/ \E due \in BOOLEAN : MonitorMaintains(due)
  \/ /\ "scan" \in InUse
     /\ \/ \E fresh \in SUBSET CqThreads : ScanBegins(fresh)
        \/ \E t \in CqThreads : ScanLooks(t)
        \/ ScanEnds
  \/ "hook" \in InUse /\ HookConfirms
  \/ \E p \in InUse : CqPipeline(p) \/ EntranceStops(p)

CqSpec == CqInit /\ [][CqNext]_cqVars

(***************************************************************************)
(* Properties                                                              *)
(***************************************************************************)
CqTypeOK ==
  /\ cqDay \in Days /\ cqOn \in BOOLEAN /\ cqSwitches \in 0..CqMaxSwitches
  /\ cqAsked \in [CqThreads -> {"unasked", "open", "turn over", "resolved"}]
  /\ cqAt \in [CqThreads -> Days]
  /\ cqBaseline \in {"unset", "on", "off"} /\ cqOld \subseteq CqThreads
  /\ cqMarker \in [CqThreads -> Days] /\ cqPassive \in [CqThreads -> Days]
  /\ cqListed \in [{"monitor", "scan"} -> [day : Days, threads : SUBSET CqThreads]]
  /\ cqDedupe \subseteq CqThreads /\ cqRow \in [CqThreads -> Days]
  /\ InUse \in CqUses /\ cqProc \in [InUse ->
       [pc : {"idle", "next", "maintain", "confirm", "prepare", "mark", "dedupe", "stage", "finish"},
        on : BOOLEAN, todo : SUBSET CqThreads, active : SUBSET CqThreads, thread : CqThreads,
        mine : BOOLEAN, send : BOOLEAN]]
  /\ cqFaults \in 0..CqMaxFaults
  /\ cqTold \in [CqThreads -> Nat] /\ cqKept \in [CqThreads -> Days]
  /\ cqUnnoticed \subseteq CqThreads /\ cqQuiet \subseteq CqThreads

\* A question is told again only if no entrance has come across it for longer
\* than the retention, and never by the monitor, which looks at every question
\* in every round: neither a restart, nor the expiry of the row that suppresses
\* duplicates, nor maintenance between two rounds repeats it.
NotToldAgainWhileKept ==
  [][\A t \in CqThreads : cqTold'[t] > cqTold[t] /\ cqTold[t] > 0
       => /\ cqDay - cqKept[t] > CqRetention
          /\ ~("monitor" \in InUse /\ cqProc["monitor"].pc = "stage"
                 /\ cqProc'["monitor"].pc = "finish")]_cqVars

\* A question that was asked while the notifications were off is never told,
\* although the entrances judge by settings they read at different times, each
\* writes the baseline, and the user switches again and again.  It takes one
\* entrance that sees them off: a question of an interval that nobody noticed
\* is told.
AskedWhileOffStaysQuiet == \A t \in cqQuiet : cqTold[t] = 0

\* A question whose delivery was claimed has been told once nobody is at work
\* on it.
ClaimedWasTold ==
  \A t \in CqThreads : cqMarker[t] # 0 /\ ~InPipeline(t) => cqTold[t] > 0
=============================================================================
