------------------------------ MODULE GithubCi ------------------------------
(***************************************************************************)
(* The GitHub CI monitor: Monitor::tick and deliver_events of the server   *)
(* or the monitor daemon, settings_changed of the process that saves the   *)
(* settings, and the Observer of the App.  The three share one record of   *)
(* the database, github_ci_state, which each of them loads, changes and    *)
(* saves; a scan waits for GitHub between its load and its save.           *)
(*                                                                         *)
(* Instants are values of ciNow, which advances with every run that ends,  *)
(* every account switched and every save of the settings: only their order *)
(* matters.  Each run is the one run of a repository of its own.           *)
(***************************************************************************)
EXTENDS Naturals, FiniteSets

CONSTANTS
  Runs,          \* workflow runs
  Accounts,      \* accounts of the GitHub CLI
  NoAccount,     \* Snapshot::account before the first scan
  OwnerOf,       \* the account that owns a run's repository
  Attempts,      \* bound on the attempts of each run
  MaxAttempt,    \* the largest of them
  MaxNow,        \* bound on the clock when a run ends or the user acts
  MaxCiFaults    \* bound on failures, crashes and lost updates together

ASSUME CiAssumption ==
  /\ IsFiniteSet(Runs) /\ IsFiniteSet(Accounts) /\ NoAccount \notin Accounts
  /\ OwnerOf \in [Runs -> Accounts]
  /\ MaxAttempt \in Nat \ {0} /\ Attempts \in [Runs -> 1..MaxAttempt]
  /\ MaxNow \in Nat \ {0} /\ MaxCiFaults \in Nat

VARIABLES
  ciNow,       \* the clock
  ciOn,        \* probe.enabled and notify_github_ci, in the file
  ciAccount,   \* the account gh is logged in with
  ciNative,    \* the runs as GitHub knows them
  ciStored,    \* the record github_ci_state
  ciMon,       \* the monitor task: where it waits and its local variables
  ciStaged,    \* keys in the delivery queue
  ciObserver,  \* the App's Observer
  ciFaults,    \* faults so far
  \* history
  ciUnwanted,  \* attempts that ended while the switch was off, but for those that
               \* a baseline set at that moment missed
  ciReported,  \* attempts the monitor ever put in pending
  ciShown      \* attempts the App showed

ciVars == <<ciNow, ciOn, ciAccount, ciNative, ciStored, ciMon,
            ciStaged, ciObserver, ciFaults, ciUnwanted, ciReported, ciShown>>

(***************************************************************************)
(* Data                                                                    *)
(***************************************************************************)
Unseen == [attempt |-> 0, status |-> "absent", at |-> 0]
RunRecord == [attempt : 0..MaxAttempt, at : 0..MaxNow + 1,
              status : {"absent", "busy", "done", "cancelled"}]
CiCompleted == {"done", "cancelled"}

\* Run::notification_kind: success, failure and timed_out are told, the other
\* conclusions are not.
Notifiable(run) == run.status = "done"

\* Event, by the parts of its key.
CiEvent == [run : Runs, attempt : 1..MaxAttempt, account : Accounts, seen : 0..MaxNow + 1]
KeyOf(e) == <<e.account, e.run, e.attempt>>

\* Stored, with the parts of Snapshot the monitor decides by.
StoredRecord == [account : Accounts \cup {NoAccount}, enabled : BOOLEAN,
                 baseline : 0..MaxNow + 1, scanned : 0..MaxNow + 1, runs : [Runs -> RunRecord],
                 pending : SUBSET CiEvent]
CiDefault == [account |-> NoAccount, enabled |-> FALSE, baseline |-> 0, scanned |-> 0,
              runs |-> [r \in Runs |-> Unseen], pending |-> {}]
CiReset(s) == [s EXCEPT !.enabled = FALSE, !.baseline = 0, !.pending = {}]

MonitorIdle == [pc |-> "idle", account |-> NoAccount, time |-> 0,
                before |-> CiDefault, state |-> CiDefault, todo |-> {}, acked |-> {}]
ObserverDefault == [source |-> <<NoAccount, 0>>, since |-> 0, fresh |-> TRUE,
                    runs |-> [r \in Runs |-> Unseen]]

CiInit ==
  /\ ciNow = 1
  /\ ciOn \in BOOLEAN
  /\ ciAccount \in {OwnerOf[r] : r \in Runs}
  /\ ciNative = [r \in Runs |-> Unseen]
  /\ ciStored = CiDefault
  /\ ciMon = MonitorIdle
  /\ ciStaged = {}
  /\ ciObserver = ObserverDefault
  /\ ciFaults = 0
  /\ ciUnwanted = {} /\ ciReported = {} /\ ciShown = {}

NewlyFinished(s, read, r) ==
  /\ Notifiable(read[r])
  /\ IF s.runs[r].status = "absent"
     THEN read[r].at > s.baseline
     ELSE s.runs[r].attempt # read[r].attempt \/ s.runs[r].status \notin CiCompleted

\* History: the attempts that have ended and that s, a record with a baseline,
\* shows as not ended yet.
Missed(s) ==
  {<<r, ciNative[r].attempt>> : r \in {x \in Runs :
     s.enabled /\ OwnerOf[x] = s.account /\ NewlyFinished(s, ciNative, x)}}

CiFault == ciFaults < MaxCiFaults /\ ciFaults' = ciFaults + 1

(***************************************************************************)
(* GitHub, and the user                                                    *)
(***************************************************************************)
RunStarts(r) ==
  /\ ciNative[r].status # "busy" /\ ciNative[r].attempt < Attempts[r]
  /\ ciNative' = [ciNative EXCEPT ![r] = [attempt |-> @.attempt + 1,
                                          status |-> "busy", at |-> 0]]
  /\ UNCHANGED <<ciNow, ciOn, ciAccount, ciStored, ciMon, ciStaged,
                 ciObserver, ciFaults, ciUnwanted, ciReported, ciShown>>

RunEnds(r, status) ==
  /\ ciNative[r].status = "busy" /\ ciNow < MaxNow
  /\ ciNow' = ciNow + 1
  /\ ciNative' = [ciNative EXCEPT ![r].status = status, ![r].at = ciNow + 1]
  /\ ciUnwanted' = IF ciOn THEN ciUnwanted
                           ELSE ciUnwanted \cup {<<r, ciNative[r].attempt>>}
  /\ UNCHANGED <<ciOn, ciAccount, ciStored, ciMon, ciStaged,
                 ciObserver, ciFaults, ciReported, ciShown>>

SwitchAccount(a) ==
  /\ a # ciAccount /\ ciNow < MaxNow
  /\ ciAccount' = a
  /\ ciNow' = ciNow + 1
  /\ UNCHANGED <<ciOn, ciNative, ciStored, ciMon, ciStaged,
                 ciObserver, ciFaults, ciUnwanted, ciReported, ciShown>>

\* apply_probe_settings_save_plan writes the file, then settings_changed loads
\* the record, resets it and saves it.  A save that falls between the load and
\* the save of another task is lost, and counts as a fault: off and on again
\* within one such moment, both lost, is what MaxCiFaults = 1 leaves out.
SaveSettings ==
  /\ ciNow <= MaxNow
  /\ IF ciMon.pc \in {"save", "acksave"} THEN CiFault ELSE UNCHANGED ciFaults
  /\ ciOn' = ~ciOn
  /\ ciNow' = ciNow + 1
  /\ ciStored' = CiReset(ciStored)
  /\ UNCHANGED <<ciAccount, ciNative, ciMon, ciStaged, ciObserver,
                 ciUnwanted, ciReported, ciShown>>

\* The process ends, or the database fails, after the file was written: the
\* record stays as it was.
SaveSettingsDies ==
  /\ ciNow <= MaxNow
  /\ CiFault
  /\ ciOn' = ~ciOn
  /\ ciNow' = ciNow + 1
  /\ ciUnwanted' = ciUnwanted \ Missed(ciStored)
  /\ UNCHANGED <<ciAccount, ciNative, ciStored, ciMon, ciStaged, ciObserver,
                 ciReported, ciShown>>

(***************************************************************************)
(* One tick.  When a tick polls (the 60 seconds, a refresh, a rate limit   *)
(* that ends) is left to chance.                                           *)
(***************************************************************************)
OtherThanMonitor == <<ciNow, ciOn, ciAccount, ciNative, ciObserver,
                      ciUnwanted, ciShown>>

\* The configuration, the record and the token are read.
TickOff ==
  /\ ciMon.pc = "idle" /\ ~ciOn
  /\ ciStored # CiReset(ciStored)
  /\ ciStored' = CiReset(ciStored)
  /\ UNCHANGED <<OtherThanMonitor, ciMon, ciStaged, ciFaults, ciReported>>

TickStart ==
  /\ ciMon.pc = "idle" /\ ciOn
  /\ ciMon' = [ciMon EXCEPT !.pc = "scan", !.account = ciAccount, !.time = ciNow,
                            !.before = ciStored, !.state = ciStored]
  /\ UNCHANGED <<OtherThanMonitor, ciStored, ciStaged, ciFaults, ciReported>>

\* scan starts from an empty record when the account is another one.
ForAccount(s, a) == IF s.account = a THEN s ELSE [CiDefault EXCEPT !.account = a]

\* What repository_runs reads: the runs of the account's repositories, and the
\* former summary of those that could not be read.
ReadRuns(s, a, unread) ==
  [r \in Runs |-> IF OwnerOf[r] # a THEN Unseen
                  ELSE IF r \in unread THEN s.runs[r]
                  ELSE ciNative[r]]

ReconcileRuns(s, a, read, time) ==
  LET baseline == ~s.enabled \/ s.baseline = 0
      known(r) == \E e \in s.pending : e.run = r /\ e.attempt = read[r].attempt
      new == {[run |-> r, attempt |-> read[r].attempt, account |-> a, seen |-> time]
               : r \in {x \in Runs : ~baseline /\ NewlyFinished(s, read, x) /\ ~known(x)}}
  IN  [s EXCEPT !.pending = {e \in @ \cup new : /\ read[e.run].attempt = e.attempt
                                                /\ Notifiable(read[e.run])},
                !.runs = read, !.enabled = TRUE,
                !.baseline = IF baseline THEN time ELSE @]

\* scan; unread are the repositories GitHub refuses to list the runs of.
CiScan(unread) ==
  /\ ciMon.pc = "scan"
  /\ IF unread = {} THEN UNCHANGED ciFaults ELSE CiFault
  /\ LET s == ForAccount(ciMon.state, ciMon.account)
     IN  ciMon' = [ciMon EXCEPT !.pc = "check",
                     !.state = ReconcileRuns(s, ciMon.account,
                                         ReadRuns(s, ciMon.account, unread), ciMon.time)]
  /\ UNCHANGED <<OtherThanMonitor, ciStored, ciStaged, ciReported>>

\* The token, the account or the list of repositories cannot be read.
ScanFails ==
  /\ ciMon.pc = "scan"
  /\ CiFault
  /\ \E s \in {ciMon.state, ForAccount(ciMon.state, ciMon.account)} :
       ciMon' = [ciMon EXCEPT !.pc = "check", !.state = s]
  /\ UNCHANGED <<OtherThanMonitor, ciStored, ciStaged, ciReported>>

\* Mutant: results are kept whatever the settings did meanwhile.
SettingsMovedNever == FALSE
SettingsMoved ==
  \/ ciStored.baseline # ciMon.before.baseline
  \/ ciStored.enabled # ciMon.before.enabled

TickCheck ==
  /\ ciMon.pc = "check"
  /\ ciMon' = IF SettingsMoved THEN MonitorIdle ELSE [ciMon EXCEPT !.pc = "save"]
  /\ UNCHANGED <<OtherThanMonitor, ciStored, ciStaged, ciFaults, ciReported>>

\* Mutant: only what this scan found is delivered.
ToDeliverNew == ciMon.state.pending \ ciMon.before.pending
ToDeliver == ciMon.state.pending

\* The tick's load found no baseline and its scan set one: the check at its end
\* cannot tell a record that settings_changed reset meanwhile.
SetsBaseline == ciMon.before.baseline = 0 /\ ciMon.state.baseline # 0

\* Nothing is written when the scan changed nothing.  A save of the settings
\* after the check is lost (SaveSettings counts it).
TickSave ==
  /\ ciMon.pc = "save"
  /\ ciStored' = IF ciMon.state = ciMon.before THEN ciStored
                 ELSE [ciMon.state EXCEPT !.scanned = ciMon.time]
  /\ ciReported' = ciReported \cup {<<e.run, e.attempt>> : e \in ciMon.state.pending}
  /\ ciObserver' = [ciObserver EXCEPT !.fresh = @ \/ ciMon.state # ciMon.before]
  /\ ciMon' = IF ToDeliver = {} THEN MonitorIdle
              ELSE [ciMon EXCEPT !.pc = "deliver", !.todo = ToDeliver]
  /\ ciUnwanted' = IF SetsBaseline THEN ciUnwanted \ Missed(ciMon.state) ELSE ciUnwanted
  /\ UNCHANGED <<ciNow, ciOn, ciAccount, ciNative, ciStaged, ciFaults, ciShown>>

(***************************************************************************)
(* deliver_events, acknowledge                                             *)
(***************************************************************************)
\* event_current, with the configuration read for this event.
EventCurrent(e) ==
  /\ ciOn /\ ciStored.enabled
  /\ e.seen >= ciStored.baseline
  /\ ciStored.account = e.account
  /\ ciStored.runs[e.run].attempt = e.attempt
  /\ Notifiable(ciStored.runs[e.run])

Deliver(e) ==
  /\ ciMon.pc = "deliver" /\ e \in ciMon.todo
  /\ ciStaged' = IF EventCurrent(e) THEN ciStaged \cup {KeyOf(e)} ELSE ciStaged
  /\ ciMon' = [ciMon EXCEPT !.todo = @ \ {e}, !.acked = @ \cup {e}]
  /\ UNCHANGED <<OtherThanMonitor, ciStored, ciFaults, ciReported>>

\* An event that cannot be staged ends the loop; those before it are acknowledged.
DeliverFails ==
  /\ ciMon.pc = "deliver" /\ ciMon.todo # {}
  /\ CiFault
  /\ ciMon' = IF ciMon.acked = {} THEN MonitorIdle ELSE [ciMon EXCEPT !.todo = {}]
  /\ UNCHANGED <<OtherThanMonitor, ciStored, ciStaged, ciReported>>

AckLoad ==
  /\ ciMon.pc = "deliver" /\ ciMon.todo = {}
  /\ ciMon' = [ciMon EXCEPT !.pc = "acksave",
                 !.state = [ciStored EXCEPT !.pending =
                   {e \in @ : \A a \in ciMon.acked : KeyOf(a) # KeyOf(e)}]]
  /\ UNCHANGED <<OtherThanMonitor, ciStored, ciStaged, ciFaults, ciReported>>

AckSave ==
  /\ ciMon.pc = "acksave"
  /\ ciStored' = ciMon.state
  /\ ciMon' = MonitorIdle
  /\ UNCHANGED <<OtherThanMonitor, ciStaged, ciFaults, ciReported>>

\* The process of the monitor ends anywhere and is started again.
MonitorDies ==
  /\ ciMon.pc # "idle"
  /\ CiFault
  /\ ciMon' = MonitorIdle
  /\ UNCHANGED <<OtherThanMonitor, ciStored, ciStaged, ciReported>>

(***************************************************************************)
(* The Observer of the App                                                 *)
(***************************************************************************)
\* Mutant: a new account or baseline does not make the observer start anew.
SourceChangedNever == ciObserver.source[2] = 0
SourceChanged == ciObserver.source # <<ciStored.account, ciStored.baseline>>

ObserverNews ==
  {r \in Runs :
     /\ Notifiable(ciStored.runs[r])
     /\ IF ciObserver.runs[r].status = "absent"
        THEN ciStored.runs[r].at > ciObserver.since
        ELSE \/ ciObserver.runs[r].attempt # ciStored.runs[r].attempt
             \/ ~Notifiable(ciObserver.runs[r])}

ObserverResets ==
  /\ ~(ciOn /\ ciStored.enabled /\ ciStored.baseline > 0)
  /\ ciObserver # ObserverDefault
  /\ ciObserver' = ObserverDefault
  /\ UNCHANGED <<ciNow, ciOn, ciAccount, ciNative, ciStored, ciMon,
                 ciStaged, ciFaults, ciUnwanted, ciReported, ciShown>>

\* fresh stands for a later last_scan_ms: a scan was saved since the last look.
Observe ==
  /\ ciOn /\ ciStored.enabled /\ ciStored.baseline > 0
  /\ SourceChanged \/ ciObserver.fresh
  /\ ciShown' = IF SourceChanged THEN ciShown
                ELSE ciShown \cup {<<r, ciStored.runs[r].attempt>> : r \in ObserverNews}
  /\ ciObserver' = [source |-> <<ciStored.account, ciStored.baseline>>, fresh |-> FALSE,
                    since |-> IF SourceChanged THEN ciStored.scanned ELSE ciObserver.since,
                    runs |-> ciStored.runs]
  /\ UNCHANGED <<ciNow, ciOn, ciAccount, ciNative, ciStored, ciMon,
                 ciStaged, ciFaults, ciUnwanted, ciReported>>

(***************************************************************************)
(* Specification                                                           *)
(***************************************************************************)
CiEnvironment ==
  \/ \E r \in Runs : RunStarts(r) \/ \E status \in CiCompleted : RunEnds(r, status)
  \/ \E a \in Accounts : SwitchAccount(a)
  \/ SaveSettings

CiMonitor ==
  \/ TickOff \/ TickStart \/ CiScan({}) \/ TickCheck \/ TickSave
  \/ (\E e \in ciMon.todo : Deliver(e)) \/ AckLoad \/ AckSave

CiBreaks ==
  \/ SaveSettingsDies \/ ScanFails \/ DeliverFails \/ MonitorDies
  \/ \E unread \in SUBSET Runs \ {{}} : CiScan(unread)

CiNext ==
  \/ CiEnvironment \/ CiMonitor \/ CiBreaks
  \/ ObserverResets \/ Observe

CiSpec == CiInit /\ [][CiNext]_ciVars
\* The loop of the monitor runs every two seconds.
CiFairSpec == CiSpec /\ WF_ciVars(CiMonitor)

(***************************************************************************)
(* Properties                                                              *)
(***************************************************************************)
CiTypeOK ==
  /\ ciNow \in 1..MaxNow + 1 /\ ciOn \in BOOLEAN /\ ciAccount \in Accounts
  /\ ciNative \in [Runs -> RunRecord]
  /\ ciStored \in StoredRecord
  /\ ciMon \in [pc : {"idle", "scan", "check", "save", "deliver", "acksave"},
                 account : Accounts \cup {NoAccount}, time : 0..MaxNow + 1,
                 before : StoredRecord, state : StoredRecord,
                 todo : SUBSET CiEvent, acked : SUBSET CiEvent]
  /\ ciStaged \subseteq Accounts \X Runs \X (1..MaxAttempt)
  /\ ciFaults \in 0..MaxCiFaults
  /\ ciUnwanted \cup ciReported \cup ciShown \subseteq Runs \X (0..MaxAttempt)

\* A run that ended while the notifications were switched off is never put in
\* the delivery queue, however the switch, the scan under way, the
\* acknowledgement of earlier events and a crash fall together: each of the
\* tasks writes back a record it loaded earlier.  What the record that sets the
\* baseline shows as unfinished, although it ended by then, is not promised:
\* the settings may change during that scan, and it may fail to read a
\* repository whose earlier summary it then carries over; nor is it when a save
\* of the settings dies before it resets the record.
QuietWhileOff == \A k \in ciStaged : <<k[2], k[3]>> \notin ciUnwanted

\* What the App shows is what the monitor reported: the two judge newness
\* separately, from the summaries, and the App looks less often.
ShownWasReported == ciShown \subseteq ciReported

\* A run the monitor saw unfinished is in the delivery queue once it ended,
\* unless the user switches the notifications or the account, or the run is
\* started again, first: failed scans, failed deliveries and restarts only
\* delay it.
InFlight(r) ==
  /\ ciOn /\ ciStored.enabled /\ ciStored.account = ciAccount
  /\ ciMon.account \in {ciAccount, NoAccount}
  /\ OwnerOf[r] = ciAccount
  /\ ciStored.runs[r].status = "busy"
  /\ Notifiable(ciNative[r]) /\ ciNative[r].attempt = ciStored.runs[r].attempt
FinishedIsStaged ==
  \A r \in Runs : \A n \in 1..MaxAttempt :
    (InFlight(r) /\ ciNative[r].attempt = n)
      ~> \/ <<OwnerOf[r], r, n>> \in ciStaged
         \/ ~ciOn \/ ~ciStored.enabled
         \/ ciAccount # OwnerOf[r] \/ ciNative[r].attempt # n
=============================================================================
