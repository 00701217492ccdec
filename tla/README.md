# Verification of AgentHub

AgentHub shows, on one screen, the sessions that several coding assistants
(Codex, Claude Code, Grok Build, Antigravity, DeepSeek Harness) keep on a
machine, manages them, watches them and sends notifications about them. On macOS
it also writes to one of them: the user may compose messages in AgentHub which a
worker inside the App hands to the native Codex desktop application.

This directory holds TLA+ specifications of the parts of AgentHub whose
correctness depends on the order of events, the TLC configurations that check
them, and proofs of the central theorems. Source paths below are relative to the
root of the repository; `core` stands for `crates/agenthub-core/src`, `webd` for
`crates/agenthub-webd/src`, `tauri` for `src-tauri/src`.

## 1. Inventory

There are three processes that matter: the **App** (Tauri, user interface and
desktop collaboration), the **server** `agenthub-webd` in its modes `serve`,
`monitor` and `hook` (monitors and notification delivery, on Linux also the
remote API), and the **native programs** AgentHub observes. They share one
SQLite database, some lock files, and the files of the native programs.

| Component | Where | State | Operations |
|---|---|---|---|
| Desktop submission ledger | `core/db/desktop_submissions.rs` | one encrypted row per message: thread, kind, status, rowid | enqueue, claim, claim_immediate, accepted, outcome_unknown, not_sent, cancel, hold, hold_queued, resume, resume_selected, dismiss_unknown, recover |
| Desktop worker and session | `core/codex/desktop/{worker,session,state,native,protocol}.rs` | pending listing, connection phase, confirmed owner, retry counters, request channel, replica of the native state | requests of the user, native events, one native command at a time, recovery and reconnection |
| Desktop bridge of the App | `tauri/codex_desktop.rs`, `codex_desktop/selection.rs` | registry of workers (at most four), process lock, grants | runtime, attach, detach, action, shutdown |
| Attachments, references, catalogs, helper | `core/codex/desktop/{attachments,references,helper}.rs`, `tauri/codex_desktop/catalogs.rs` | private files with an encrypted index, caches of catalogs | stage, retain, release, read a catalog |
| Notification delivery queue | `core/db/notification_channels.rs`, `webd/notification_delivery.rs`, `webd/bark.rs` | encrypted rows with status, lease, attempts and deadline | stage, claim due rows, send in chunks, acknowledge, retry, expire |
| Native probe store | `core/db/native_probe.rs`, `core/native_probe.rs` | cursors, baselines, seen events, deliveries | advance a cursor, claim a delivery, recover interrupted ones, prune |
| Monitors | `webd/{provider,question,async_question}_monitor.rs`, `webd/claude_hook.rs`, `webd/hooks.rs` | positions in the histories of the providers | scan, ingest a hook, stage events |
| GitHub CI monitor | `core/github_ci.rs`, `webd/github_ci_monitor.rs`, `tauri/ci_notifications.rs` | account, baseline, summaries of runs, pending events | tick, acknowledge, change settings |
| Jobs | `core/jobs.rs`, `core/services/jobs.rs` | job rows, exclusive groups, output | start, run, finish, prune |
| Remote channel | `tauri/remote.rs`, `tauri/remote/ssh.rs`, `webd/ssh_server.rs` | waiting calls by id, the current machine and its revision | call, read replies, time out, close, switch machines |
| Read model and caches | `core/{jsonl_cache,read_cache,read_tasks,history_navigation}.rs` | snapshots keyed by file identity and anchors | cold read, append, invalidate, page |
| Hidden scan and cleanup | `core/archive/hidden_scan.rs`, `core/services/cleanup.rs`, `core/session_delete.rs` | running scans and their leases | start, poll, cancel, preview, execute |
| Provider adapters | `core/codex/`, `core/{claude,grok,grokbot,antigravity,dsh}.rs` | none of their own | list, detail, rename, archive, delete |
| Database, configuration, credentials | `core/{db,config,crypto}.rs` | SQLite file, TOML settings, key store | migrations, atomic saves |
| Probe rules | `core/probe.rs`, `core/probe_error_monitor.rs` | none | classify, redact, format |
| Updates and system | `core/update.rs`, `tauri/services/updates.rs`, `core/system.rs` | an installer job | check, install |
| Web user interface | `webui/` | stores of windows, pages, subscriptions and scans | React views |
| Contracts, deployment, packaging | `contracts/`, `deploy/`, `scripts/` | none | generation and installation |

### How they interact

* User interface -> bridge -> worker: an action is queued on the channel of the
  worker together with the `session_id` of the view the user acted in; the
  worker compares it again before it acts.
* Worker -> ledger: every step of a message is written before it is acted on.
* Worker <-> native desktop: length-prefixed frames on a Unix socket; state
  snapshots and patches arrive at any time, also between a request and its
  answer.
* Monitors -> probe store -> delivery queue -> HTTP: each arrow is a commit of
  its own; several processes run them on the same database.
* App <-> server of a remote machine: one SSH process, request and reply matched
  by number.

### Behaviours that are hard, and what makes each component correct

* **Ledger.** Crash at any statement; retries of the same identity; workers of
  several threads on one table. Correct: one submission in doubt per thread,
  follow-ups in order, closed rows stay closed, the table is bounded.
* **Worker.** The replica is stale while a request is awaited; answers are lost
  or late; the owner of the thread changes; the App crashes; the ledger fails.
  Correct: no message is given to the model twice, "not sent" is true,
  "accepted" is true, an interruption pauses the queue, nothing is written to a
  client the user has not accepted, the queue advances.
* **Requests of the desktop.** They are revised, withdrawn and asked again under
  the same number while the user reads them. Correct: what the user allows is
  what the user saw.
* **Bridge.** Eviction against a request in flight, initialisation cancelled
  while it holds the process lock, attaches whose answers come after the user
  moved on. Correct: one dispatching process, one key, recovery before the first
  worker, the selected subscription is the one the interface shows.
* **Attachments.** Any file system call may be the last. Correct: the image of a
  message that was handed over stays, and the index never names what is not there.
* **Delivery queue.** Leases that expire during a request, several processes,
  retries against a deadline, crash between staging and finishing. Correct: an
  event is acknowledged by the holder of its lease only, what was sent is not
  sent again, nothing is sent after its deadline, nothing stays leased forever.
* **Probe store.** Replaced sources, activation baselines, interrupted
  deliveries. Correct: nothing from before the activation is reported, nothing
  after it is swallowed, one delivery per event.
* **Questions and errors of Codex.** Several entrances tell of one question, two
  processes read one log. Correct: told once, never what was asked while the
  notifications were off, no error behind the cursor is lost.
* **GitHub CI.** A scan reads its record, waits for the network and writes the
  record back. Correct: an acknowledgement or a change of settings in between
  survives; the first scan of an account reports nothing.
* **Jobs.** Two starts in one exclusive group, output after the end. Correct:
  one running job per group, a finished job has all of its output.
* **Remote channel.** A call races with the closing of the channel; an answer
  comes after the user switched machines. Correct: every call returns, no answer
  of another machine is shown.
* **Caches and windows.** Files grow, shrink or are replaced while they are read
  page by page. Correct: the window shows the end of the history, without a gap.
* **Hidden scan, cleanup.** Cancel against completion, one run of the interface
  against the next. Correct: a complete scan is complete, nobody scans for
  nobody.

Components, their status and the complete list of hazards, each with its line
and the property that covers it, are in `PROJECT.json`.

## 2. Plan

The most delicate promise comes first: AgentHub sends text to an agent that acts
on the user's machine, and says "nothing is resent automatically".

1. `DesktopLedger`, `DesktopLedgerProofs` - done.
2. `DesktopWorker`, `MessageOutbox` (the abstract promise) - done for messages,
   turns, owners and recovery.
3. `NotificationQueue`, `NotificationQueueProofs` - done for the queue itself.
4. `NativeProbe`, `GithubCi`, `CodexQuestions`, `CodexErrors`: the monitors that
   feed the queue - done.
5. `RemoteChannel`, `DesktopAttachments`, `DesktopKey`, `HistoryWindow`: the
   App's connection, files, start-up and windows - done.
6. `DesktopApproval`, `DesktopRuntime`, `HiddenScan`, `Jobs`: decisions,
   subscriptions, scans and commands - done.
7. Proofs - done: `DesktopLedgerProofs`, `NotificationQueueProofs`,
   `DesktopWorkerProofs` (safety and the refinement of `MessageOutbox`),
   `JobsProofs`, `RemoteChannelProofs`, `NativeProbeProofs`, `MonitorsProofs` (errors and
   questions of Codex, GitHub CI), `DesktopAppProofs` (attachments, hidden scans,
   subscriptions, approvals and key). Windows stay with TLC (section 7).
Left: the hand-over of Claude hook rows, the feedback monitor, grants and
catalogs.

Each module takes its limits as CONSTANTS with a named assumption, has one
action per operation and no RECURSIVE operator, so that it can be proved about.

## 3. Modules

| Module | What it is |
|---|---|
| `DesktopLedger` | the table `codex_desktop_submissions` and every method of `DesktopLedger` that changes it |
| `DesktopWorker` | one `WorkerLoop` with its session, its replica and the ledger; extends `DesktopLedger` |
| `MessageOutbox` | the abstract promise for each message; implemented by `DesktopWorker` |
| `DesktopApproval` | requests that wait for the user, and the decisions on them |
| `DesktopRuntime` | subscriptions of the interface to threads: attach, action, detach, the registry of workers |
| `DesktopKey` | the lock of the database, the key and the recovery when the App first needs them |
| `DesktopAttachments` | the private store of pasted images |
| `NotificationQueue` | the table `probe_notification_deliveries` and the tasks of `notification_delivery.rs` that work on it |
| `NativeProbe` | notifications of a provider whose turns are read from its own files |
| `CodexQuestions` | four entrances that tell of the questions of a Codex turn |
| `CodexErrors` | the monitor of errors that end a Codex turn |
| `GithubCi` | the CI monitor, the settings and the observer in the App |
| `RemoteChannel` | the connection to the machine the user chose |
| `HistoryWindow` | the history of a Codex thread as the interface shows it |
| `HiddenScan` | the preview of hidden threads |
| `Jobs` | commands a process runs for the user |
| `MCParts`, `MCLoops`, `MCDesktopWorker`, `MCNotificationQueue`, `MCNativeProbe`, `MCCodexQuestions`, `MCHistoryWindow` | instances for TLC |
| `DesktopLedgerProofs`, `NotificationQueueProofs`, `DesktopWorkerProofs`, `JobsProofs`, `RemoteChannelProofs`, `NativeProbeProofs` | proofs about the module of that name |
| `MonitorsProofs` | proofs about `CodexErrors`, `CodexQuestions` and `GithubCi` |
| `DesktopAppProofs` | proofs about `DesktopAttachments`, `HiddenScan`, `DesktopRuntime`, `DesktopApproval` and `DesktopKey` |

### DesktopLedger

A row is `status`, `thread`, `kind` and `rowid` of its identity; `"absent"` is no
row. Statuses have the names of the column, and `Open` is exactly the set of
statuses in which the row has a ciphertext: every statement that leaves `Open`
sets `ciphertext` and `nonce` to NULL, and queries that test
`ciphertext IS NOT NULL` are written as tests of `Open`.
Every method is one statement or one IMMEDIATE transaction, hence one action.
`Enqueue` has the two successful outcomes of `enqueue` (a retry of the same
message, an insertion with deletion of surplus closed rows), `EnqueueRefused` its
errors. A body is reduced to its kind, since two enqueues of one identity differ
for the code only in being equal or not. Rowids are given as SQLite gives them
without AUTOINCREMENT. The largest row always survives an insertion because the
row just inserted is open and newest, so `lastRow` is the largest rowid whenever
the next one is chosen. `forgotten` is a history variable.

Left out: encryption, byte limits (they only refuse more), and the process lock
of `acquire_worker`, which is in `DesktopKey`.

### DesktopWorker

`pc` is the await in which the handler is suspended. Everything between two
awaits is one action, and native events, requests of the user, answers, lost
connections and crashes may come at every await.

| Code | Model |
|---|---|
| `WorkerLoop::run`, `select!` | `pc = "loop"`: `Handle` (a request), `Event`, `EventLost` |
| `act_in_session` | `UserRequest`; the comparison of session and owner in `Take`, `RefuseRequest` |
| the arms of `action()` | `TakeSend`, `TakeSteer` + `ClaimSteer`, `TakeStop`, `TakeCancel`, `TakeDismiss`, `TakeResume`, `TakeConfirm`; their errors in `FruitlessRequest`, `ConfirmFails` |
| `execute`, `execute_observing`, `exchange` | `RecheckRefused`, `RecheckBreaks`, `RecheckSends`, then `Answered`, `AnswerLost`, `EventWhileWaiting`, `UnreadableEvent` |
| `submit` | `Settle`: accepted, outcome_unknown or not_sent by the class of the error |
| `reconcile`, `dispatch_queued` | `Reconcile`, `Dispatch`, `NothingToDispatch` |
| `recover` and its retry loop | `StartRecovery`, `GiveUpRecovery`, `Attempt*`, `RecoveryFails` |
| `BridgeRuntime::attach`, `CodexDesktopBridge::runtime` | `Attach`, `Restart` |
| the App stops | `Crash` |

The errors of the code are merged into the four classes the worker tells apart
(`lost`, `owner`, `sync`, `other`); the comment on `Errors` says which are which.

The **native desktop is external**. It is modelled by what the code relies on: a
request is run at most once, possibly long after the worker stopped waiting, or
dropped; an answer may be a success, a rejection that proves nothing, a refusal
before the handler ran, or never come; a state event makes the replica equal to
the native state. Messages that run while a turn is active join it. The constant
`Env` switches on what the environment may do beyond that: a failing ledger
(`storage`), an unreadable state event during a request (`event`), another owner
(`owner`), queued messages of the native desktop's own (`followups`).

History variables (`runs`, `started`, `asked`, `vouched`) are written by the
actions and read by properties only.

Abstractions: events between two reads are merged into the latest state (the
code applies every patch, and acts only on the result); one identity always has
the same text; a process that is not the App never holds the process lock;
a worker that ends because it is evicted is not distinguished from one that ends
otherwise. Approvals, answers and elicitations, which do not touch the ledger,
are in `DesktopApproval`; settings are not modelled.

### MessageOutbox

For every message: submitted, taken, returned, delivered, removed, abandoned,
forgotten, and whether the model got it. Returning requires that the message was
not run and is not run in that step; delivering requires that it was; it is run
only in flight or after it was abandoned, and once. Several messages may move in
one step (a recovery holds all of them).

### NotificationQueue

A row is a record with the columns `status`, `chunk_index` (`confirmed`),
`chunk_attempts` (`tries`), `chunk_uncertain` (`doubt`), `lease_owner`, the
instants `lease_until_ms`, `next_ms` and the deadline `first_attempt_ms` +
`NOTIFICATION_LIFETIME_MS`. Instants are kept as the time that is left, and
`Tick` takes a unit from all of them: only comparisons with the present occur in
the statements, so nothing is lost and the state space stays finite. `created`
is the rank of `created_ms`, by which a round takes the oldest rows first.

Tasks are of two kinds. A *monitor* is the background round
(`retry_pending_with_config`): it synchronises the channel, takes at most
`Batch` due rows, and processes them one by one. An *entrance* is a caller of
`deliver`: hooks, provider scans, CI runs. It stages one event and processes it.
`process` reads the configuration, synchronises, claims, checks the source,
reads and synchronises again, and only then sends; each of these is a step of
its own, and other tasks, the user and the clock act between any two.

| Code | Model |
|---|---|
| `sync_notification_channels` | `SyncChannels`, in `Sync` and `Resync` |
| `due_notification_deliveries` | `DueUpdate`, `DueKeys`, in `Due` |
| `deliver`, `stage_notification_delivery` | `Enter`, `Stage` |
| `claim_notification_delivery` | `Claimable`, `Claimed`, in `Claim` |
| source checks of `process` | `Source`: current, obsolete or not ready yet |
| lease, deadline and switch before the request | `MaySend`, `Remaining`, in `Decide` |
| `send`, `classify` | `Answer` |
| `finish_notification_delivery` | `HoldsLease`, `Confirm`, `Refuse`, in `Finish` |
| an error of the database, the end of a process | `Abandon` |

`Live` are the monitors whose loader returns the present configuration each
time, as that of the server does (`monitor_start.rs:8`); the others, and all
entrances, hold the copy they started with, as the monitor daemon and the hooks
do. `Abandon` lets a monitor stop
anywhere between its claim and the end of `Finish`; a monitor that stops before
it has claimed leaves nothing behind. `SwitchUsed` and `TlsCuts` turn two parts
of the environment on: the user switching the notifications, and a TLS
connection that is cut while the answer is read.

Bark is external: a request that was written is acted on or not, and the answer
comes, is lost, or cannot be read. `accepted` and `requests` are history, and
`offSince` remembers that the switch has been off since the check of the source.

### DesktopApproval

A request of the native desktop is a number with a body; the body stands for
everything the digest `state_request_key` covers, the changes to files a request
refers to included. `DaOpaque` are bodies that were cut or that the App does not
understand (`can_accept`). The worker is in its loop, in the check of the owner,
waiting for an answer, or reconnecting; the view the interface has is `daUi`.

| Code | Model |
|---|---|
| `make_view`, `publish`, `receive` | `View`, `DaShows` |
| buttons of `DesktopRequests.tsx`, `act` | `DaPicks` |
| `run`, `action`, `reply` | `DaTakes` with `Accepts` |
| `recheck_owner`, then `prepare` | `DaAnswersOwner`, `DaOtherOwner`, `DaWrites` |
| `recover`, `project_after_recovery`, `confirm` | `DaRecover`, `DaRefuses`, `DaReconnects`, `DaConfirms` |

Left out: the check that a thread is not archived, settings, resynchronisation
(for this property the same as a reconnection), the limit of 32 requests and the
checks of forms and answers, which only refuse more.

### DesktopRuntime

The interface (`duPage`, `duShown`), the machine it works on (`duMachine`), the
bridge (`duBridge`: intent, selection, workers) and what is between them
(`duSent`). A run of the effect of `useCodexDesktop.ts` makes at most one attach,
whose number names the subscription. Commands start in the order they were made;
what they await, and their answers, come in any order.

`SubscriptionFollowsView` is about rest: once nothing is under way, what is shown
is what is selected. It exempts a subscription made under an earlier revision,
whose answer `runtimeRpc` drops: it stays selected until the next attach.

Left out: grants and catalogs, `confirm_owner = None`, and the eviction of a
worker while another attach holds its handle, with which a thread can have a
second worker and the registry more than the four of `docs/ARCHITECTURE.md:58`;
and a connect that is refused because the detach of the view before counts the
intent on, which costs the user one more click.

### DesktopKey

`CodexDesktopBridge::runtime`, call by call: the lock of the database, the gate
around the key store with its time limit, the key that is made on first use, the
store of attachments, the recovery. `CallerDropped` is a caller that goes away at
an await while the blocking call it started runs on.

### DesktopAttachments

Each operation of `AttachmentStore` is a sequence of file system calls that is
fixed when the operation begins (`Persist`, `Unlink`, `RemoveReleased`); calls
are made one by one, may fail, and the process may end between any two. Power
failures are not modelled. An interrupted paste or index write leaves a file that
makes every later open refuse the store; that is meant (`docs/ARCHITECTURE.md:78`),
and `atLitter` records it.

### NativeProbe

One stream of one provider: a log of records, some of which end turns, whose
evidence may come later. The monitor and the hooks run the same round as
processes of their own, `NpStep` being one statement of it. `LocalOnly` and
`MutableSource` are the two settings by which providers differ. A turn is owed
(`npOwed`) if it ended while the provider was on and no process is under way with
the other setting; retention is reduced to forgetting a row that is finished.
The user switches the provider at any moment. A turn that ended while it is off
is in `npUnnoticed` until a round has seen it off, and in `npUnwanted` from then
on; when it is switched on before that it is in neither, since the code takes no
baseline then and tells it (section 4). A file is not rewound while a process
holds a scan it has not staged. A turn of Antigravity that ended while the provider was
off and whose evidence comes after it was switched on is told; that is how the
code defines the end of such a turn, and `npUnwanted` excludes it.

Two limits of the code showed up while the properties were proved; the runs are
too small to meet them. With *three* processes a turn can be told under two
identities: p1 fails its scan, which enables the provider without a row of the
stream; p2 scans the file before a turn ends, p3 after it; the file is replaced
and p1 scans and stages the new one, which tells the turn. p2 stages its old scan,
the stream goes back to the old file with cursor 0, and when p3 stages its own the
turn is new (`db/native_probe.rs:93-113`). Two scans of one replaced file are
needed, so two processes never do it. And for `MutableSource` a historic turn can be
told, which `StageOn` takes out of `npUnwanted`: when the scan that is staged as the provider is switched on lacks the stream,
a stream the store knows from before keeps its cursor, and what a later scan shows
behind it is not compared with `activated_ms` (`db/native_probe.rs:93-113`), although
the comment on line 37 says that the first enable baselines every existing stream.

### CodexQuestions

Four entrances (`monitor`, `scan`, `hook`, `stop`) each work through one question
at a time: the marker, for some the passive marker, the row that suppresses
duplicates, the queue, and the end. `cqListed` are the lists of markers that
maintenance keeps. Time is counted in days, and an
entrance ends on the day it began: its waits are of seconds and minutes.

The user switches the notifications at any moment, and `cqUnnoticed` and `cqQuiet`
are to questions what `npUnnoticed` and `npUnwanted` are to turns.

A question is told again by design when it was in no list for longer than the
retention. A stop between the claim and the queue loses the question, and the
Stop hook has no passive key; the properties allow both.

### CodexErrors

The log is a sequence of rows behind a cursor, with an identity; a process scans
a batch, claims each error as an incident, lists the pending ones, tells each of
them (duplicate check, queue, event, delivery), and saves the cursor. `ceLost`
and `ceUnread` are what the code passes over by design: a baseline that is taken
anew when the row of the cursor was removed or the log replaced, and a thread
that cannot be identified at that moment, whose error is skipped for good. Rows
that are committed behind the cursor are never seen (`CeLate` FALSE). An error
that a process was telling when it stopped, met again within 300 s, is marked as
a duplicate and not told; a monitor that is switched off keeps its cursor, so it
tells old errors when it is switched on.

### GithubCi

One record, `github_ci_state`, which the monitor, the process that saves the
settings and the acknowledgement load, change and save; a scan waits for GitHub
between its load and its save. The observer in the App judges newness separately.
Left out: refresh requests, rate limits, archived repositories, clock skew, the
death of the process that saves the settings, observers of a remote machine.
The settings change, and repositories cannot be read, during any scan. What a
record that sets the baseline shows as unfinished although it ended is left out of
`ciUnwanted` (`Missed`): the code tells it (section 4). Two lost saves in one window
overwrite a reset, which is why `MaxCiFaults` is 1.

### RemoteChannel

Each action is a critical section of the mutex of `RemoteConnections` or of the
SSH client, or an await between two. Commands carry the revision of the view they
come from; a machine is changed by a command too.

### HistoryWindow

The file, the cached snapshot with its journal, the poll of the newest window
with bridging and re-reading, and the page of earlier rows. A request is answered
when it is made and its reply is used later. `DuringPoll` says what happens while
a poll reads its pages: nothing in `parts`, appends in `history_gap`. Left out:
jumps in time, sub-agents, realtime blocks, compaction markers, changes of order
and cached summaries. Met, and not a run: the same guard drops changed rows that
were read again when a row is appended between the two reads, and a page that is
loaded during a poll (`Conversation.tsx:221`) is merged after it although it is
older.

`EarlierIsOffered` asks that the next page joins what is shown, not that its cursor
is at the first row: larger bounds than those of `parts` (a window of two or three
rows, seven rows, four edits; random behaviours of TLC) show why. A changed row that is read
again comes with older rows of its page, and `retainedBoundary` keeps the cursor of
what was loaded before (`historyWindows.ts:15`, "the earliest boundary already
loaded"), which now is behind the first row. The next page overlaps what is shown and
the merge drops the repeats.

### HiddenScan

The scans a process keeps (`hsJob`, slots, the lease of the source), the worker of
each, and the runs of the interface with their requests. Numbers of candidates
stand for the candidates. The lease and the job are returned in one step, although
the code drops the one before the other (`hidden_scan.rs:236-276`): a start that is
refused for lack of a slot in between is not in the model. Cancel
reads `finished` under the lock of the state, but the worker stores it after it
has set the phase (`hidden_scan.rs:275` and 316-324): a cancel in between leaves
the phase `stopping` for ever. The model has that; it is harmless since a runner
that cancelled does not poll.

### Jobs

A job's row, its task, its command with two streams and their readers. Every
statement may fail and the process may die. Two readers of the code may hold
output in memory; `AllRead` is the awaiting of both. What the model shows and no
property claims: exclusivity is of the process, so after its death the command of
the group may still run; a row is left `running` if its last statement fails, and
nothing repairs it; a command that exits with success is recorded as failed when
its row could not be finished at first; the group is freed after the status is
written, so a client that starts at once may be refused.

### MCParts, MCLoops

`MCParts` checks the safety of twelve modules that share no state in one run: a
behaviour is one of theirs, the others stay where they begin. `MCLoops` does the
same for the liveness of the worker, `GithubCi` and `NativeProbe`, with the
fairness of each.

## 4. Runs

| Run | Question | Result |
|---|---|---|
| `parts` | twelve modules, each under every order of its own events | 19 invariants and `NotToldAgainWhileKept` hold |
| `desktop_delivery` | every request of the user, two messages, crashes, lost and late answers | `UnsentIsUnsent`, `AtMostOnce`, `NoStartDuringOwnTurn`, `PausedUntilAsked` hold |
| `desktop_owner` | two native clients take the thread from each other, one message | `OnlyToVouchedOwner` and the refinement of `MessageOutbox` hold |
| `desktop_faults` | failing ledger, unreadable events, turns the user starts in the native desktop | `AcceptedWasRun`, `SteerIsNeverStarted` hold |
| `loops` | worker, CI monitor and native probe, each with fair scheduling | `SubmissionSettles`, `OnlyMissedWakeUp`, `FinishedIsStaged`, `OwedIsTold` and three invariants hold |
| `queue_delivery` | a round and a first delivery on one message of two chunks; lost requests, tasks that die, expired leases, the switch, Retry-After | `ConfirmedWasAccepted`, `FailedIsCertain`, `NoRequestWhileOff`, `OneRequestAtATime` and, under fairness, `Settles` hold |
| `queue_daemon` | the loader of the monitor daemon, a copy of the configuration | `NoRequestWhileOff` is violated |
| `queue_tls_cut` | a TLS connection cut while the answer is read | `FailedIsCertain` is violated |
| `desktop_unreadable_event` | an event of another version while a request is awaited | `UnsentIsUnsent` is violated |
| `native_swallowed` | a process that scans another provider lists what this one staged | `OwedIsTold` is violated |
| `question_lost` | hook and monitor tell of one question | `ClaimedWasTold` is violated |
| `history_gap` | rows are appended while a poll reads its pages | `ShownIsCurrent` is violated |

What `parts` checks, by module: `OneAtATimeInOrder` (ledger), `SentStays`,
`IndexMatchesFiles` (attachments), `KeyIsStable`, `RecoversAlone` (key),
`AnswerOfItsMachine`, `WrittenOnce`, `NoneLeftOpen` (remote), `ToldOncePerTurn`,
`NothingHistoric` (native probe), `WindowIsRight` (history), `AskedWhileOffStaysQuiet`,
`NotToldAgainWhileKept` (questions), `CursorCoversIncidents`, `IncidentIsTrue`
(errors), `DecidedAsShown` (approval), `SubscriptionFollowsView` (runtime),
`ScanIsWholeOrStopped` (hidden scan), `JobsRunWhole` (jobs), and the types of all
of them (`PartsTypeOK`).

### What the violations show

* **`desktop_unreadable_event`.** `execute_observing` (`session.rs:89`) returns
  `UnsupportedProtocol` unchanged. It may come from the answer, which is a
  refusal before anything ran, but also from a state event of another version
  read while the answer was awaited, after the request had been written. The
  worker then calls `not_sent`; the row is held, may be resumed, and the message
  runs twice if the desktop ran the first request. The comment at
  `desktop_submissions.rs:283` says only a definite refusal before sending may
  put the message back.
* **`queue_daemon`.** `monitor_start.rs:76` passes the round a loader that
  returns a copy of the configuration read before the round. Both reads inside
  `process` see the old switch, and the synchronisation with the copy turns the
  channel on again, so a round of up to ten rows keeps sending after the user
  turned the notifications off, although `docs/ARCHITECTURE.md:264` says that
  the current configuration is checked before and after the validation of the
  source. With a loader that reads the file the property holds
  (`queue_delivery`).
* **`queue_tls_cut`.** `classify` (`bark.rs:70`) looks for "tls" in the chain of
  errors before it asks whether the request had been written, and calls the
  outcome certain. A TLS connection that ends without `close_notify` while the
  answer is read names TLS too: a message Bark accepted ends as `failed` instead
  of `unknown`. `queue_delivery` therefore runs with `TlsCuts = FALSE`.
* **`native_swallowed`.** `deliver_pending` (`provider_monitor.rs:106-123`) lists
  the pending deliveries of all processes and judges them by the scan of its own
  round. A delivery that another process staged after that scan, or of a provider
  this one did not scan, is claimed, not found, and finished as skipped: a turn
  that is owed is never told, although `README.md:60` promises the poll as the
  fallback of the hooks.
* **`question_lost`.** The marker of a question and the row that suppresses
  duplicates are claimed in two statements (`main.rs:1184`), and only who wins
  both sends. When the hook wins the first and the monitor the second, neither
  does, against `docs/ARCHITECTURE.md:246` and the test at
  `async_question_monitor/tests.rs:145`.
* **`history_gap`.** `refreshHistory` (`historyWindows.ts:32`) merges each window
  it read to bridge a gap as the older page. If rows were appended since the
  newest window was read, that page has the larger total, is taken for a
  shortened stream and dropped; the gap stays, against `docs/ARCHITECTURE.md:180`.

Disagreements that were met and are not runs:

* `dispatch_queued` runs once after each event or request (`worker.rs:222`). The
  event that ends a turn may be read inside the exchange of that turn's own
  start; afterwards nothing runs the queue until the desktop sends something
  else, while `docs/ARCHITECTURE.md:60` says that the next item is sent when the
  turn has ended. Any later event repairs it, but nothing in the code makes one
  come. `OnlyMissedWakeUp` shows that this is the only way in which the next
  follow-up stays queued while the worker lives: it either leaves the queue, or the
  worker comes to wait with all events read and nothing to wait for (`MissedWakeUp`).
  Without that disjunct `loops` reports the trace just described.
* A notification source that is off and on again between two rounds gets no new
  baseline: `stage_native_notifications_with_hooks` (`db/native_probe.rs:70`) and
  `notification_baseline` (`db.rs:319`) compare with the switch the last round
  saw, saving the settings touches neither, and rounds are
  `poll_seconds.clamp(5, 3600)` apart (`monitor_start.rs:17`, `:84`). What
  happened meanwhile is told, although `docs/ARCHITECTURE.md:314` says that a new
  baseline is taken on every change from off to on. `NothingHistoric` and
  `AskedWhileOffStaysQuiet` promise silence once a round has seen the source off.
* For Antigravity, a baseline whose scan failed keeps no row of the stream, and a
  stream known from before is not compared with `activated_ms`
  (`db/native_probe.rs:93-113`), although the comment on line 37 says that the
  first enable baselines every existing stream: a turn that ended before is told.
* The check at the end of a CI scan (`github_ci.rs:313`) compares the baseline and
  the switch with those the scan began with. While the record has no baseline yet,
  off and on again during the scan leave both as they were, and the scan writes
  its record over the reset one. And a repository that cannot be read in the
  round that sets the baseline keeps its earlier summary (`github_ci.rs:464-473`).
  Either way a run that ended while CI was off is told when a later scan finds it
  finished, although `docs/ARCHITECTURE.md:11` and `:13` say that history and what
  happened while it was off are not. `QuietWhileOff` leaves out the runs which
  the record of the baseline shows as unfinished (`Missed`), and no others.
* When the ledger itself cannot be written, `recover` (`worker.rs:271`) ends the
  worker with the rows still queued, and the worker of the next Connect
  dispatches them although `docs/ARCHITECTURE.md:62` says what was not sent is
  paused after a disconnection. `PausedUntilAsked` is claimed for a ledger that
  can be written.
* `filter_jsonl` of `session_delete.rs` (about line 150) rewrites an index: rows
  the native program appends between its read and its rename are lost.
* Removing the Claude hooks within a poll interval after a hook told of a
  completion makes the poll tell of it again (`docs/ARCHITECTURE.md:254`); hook
  and poll may both write a visible event (`docs/ARCHITECTURE.md:264`).
* The feedback monitor saves the fingerprint of a source even if it could not
  judge one of its threads (`question_monitor.rs`, from line 131), which is then
  not looked at again until the source changes.

The violations are the reason why `desktop_delivery` runs without `storage` and
`event`, why `queue_delivery` runs with live loaders and without cut TLS
connections, why `loops` has no process of another provider, and why
`ClaimedWasTold` and an appending `DuringPoll` are not in `parts`.

### Bounds, and why they are enough

* Two identities in the worker's runs: every property relates at most two
  messages (an older and a newer follow-up, a steer and a follow-up). One
  suffices in `desktop_faults` and `desktop_owner`, whose properties speak of one.
* `MaxRow` bounds the insertions: in `parts` four for three identities of two
  threads, so that a deleted identity is inserted again; in the worker's runs as
  many as identities. `MaxPending` 2 instead of 1,000, `MaxThreadPending` 2
  instead of 50, `MaxTerminal` 0 to 2 instead of 1,000: the limits are reached,
  refusals and deletions happen. The theorems hold for all values.
* `ChanCap` 1 instead of 16: a request made in one session and handled in the
  next needs one place. `MaxAttempts` 1 instead of 5: an attempt fails, or the
  last one does. `runs` counts to two, which is the violation.
* `queue_delivery`: one event, since no property relates two, of two chunks, so
  that there is a first and a last one; one round and one first delivery, since a
  lease is contested by two. `MaxTries` is the code's 3. `Lease` 2, `Lifetime` 5
  and delays 1, 2 and 3 (a Retry-After) keep the order the code's constants have
  (delay before a lease, lease before the lifetime) and still let every deadline
  pass before, at and after every other.
* Attachments: three images with room for two, two faults (a failed call, then an
  end). Key: two calls in each of two Apps, three keys, four faults. Remote: two
  machines, one change, two connections, one lost; a read, a write and a local
  write. History: window of two rows, four rows, one edit, one lost cache.
* Native probe: `parts` has one turn in two identities of the file and a mutable
  source, with a clock that lets it go off, on and off again, `loops` two turns in one
  identity of an append-only one; one fault. Up to six instants and two faults,
  with either kind of source, were checked by hand.
* Questions: one thread, three pairs of entrances, retention of one day, two
  switches, so on, off and on again, one fault. All four entrances without switches
  (6.2 million states) and three switches with these pairs were checked by hand. Errors: one error, two processes, two rows, two logs, one fault.
* CI: one run of two attempts, two accounts, one fault.
* Approval: two clients, one number with a body that can be reviewed and one that
  cannot, three requests or revisions, one lost connection, one place in the
  channel. Runtime: two threads, one worker kept, two attaches, one change of the
  machine; three attaches (4 million states) were checked by hand. Hidden scan:
  one slot, pages of two, three candidates, two runs, one fault; two slots, three
  runs and other totals by hand. Jobs: two jobs of the group, one line on each
  stream, one fault; jobs without a group (3.3 million states) by hand.

Symmetry is used in runs of safety properties only, over identities, owners or
machines that specification and properties treat alike.

## 5. Fairness

* `WF(Proceed)`: every await inside a handler has a timeout (10 s, 30 s for a
  steer, 90 s for a start, per attempt of a reconnection), so a suspended handler
  goes on.
* `SF(Handle)` and `SF(Event)` when the replica is behind: `tokio::select!`
  chooses among its ready branches at random, so neither requests nor events
  starve the other.
* `WF(EventLost)` when the stream is gone: reading a closed socket returns.
* `WF(Finish)`: turns of the native desktop end.
* Nothing is assumed of the user, of crashes, of answers or of `Run`, nor that the
  desktop sends an event when nothing changed: the code does not guarantee it, and
  `OnlyMissedWakeUp` says what comes of that (section 4).
* Queue: `WF(Work)` for every task, since each await ends (source checks and
  requests have time-outs) and the executor runs ready tasks; `WF(Begin)` for
  every monitor, since the loops of the server and of the daemon start round
  after round; `WF(Tick)`, time passes. `Abandon` has no fairness and is
  always possible: `Settles` holds even if every round dies after its claim,
  because the attempts are counted at the claim and the deadline runs from it.

* CI: `WF(CiMonitor)`, the loop of the monitor runs every two seconds; failures
  and lost saves are bounded by `MaxCiFaults`.
* Native probe: `WF(Begin)` of the monitor and `WF(NpStep)` of every process,
  since the loop and the executors keep running; time passes (`Ages`); the
  program that ended a turn writes its evidence. Nothing is assumed of hooks.
* `MCLoops` restricts each of these to the behaviours of its own loop.

`SubmissionSettles` is claimed without failures of the ledger: when the write of
an outcome itself fails, the row stays in `dispatching` until an event confirms it
or the App restarts, and the user cannot dismiss it.

## 6. What is proved

`DesktopLedgerProofs` proves, for any number of identities and threads and any
values of the limits (`LedgerAssumption` only: finitely many identities, limits
in the naturals, at least one open row allowed):

* `LedgerTypeCorrect`: `LedgerTypeOK`.
* `LedgerLane`: `OneInDoubtPerThread`. It is inductive with the type invariant:
  a status enters `dispatching` by `claim` and `claim_immediate` only, and
  recovery and hold only shrink the set of rows in doubt together with
  `outcome_unknown` (lemmas `Claims`, `MovesShrinkLane`, `InsertShrinksLane`).
* `LedgerOrder`: `NoFollowUpOvertakes`. It is not inductive: without a bound on
  rowids a new row could be older than one in doubt. `OrderInv` adds
  `rowid[m] <= lastRow` and the lane.
* `LedgerOneAtATimeInOrder`: the two together, which is what `parts` checks.
* `LedgerClosedIsFinal`: the action property `ClosedIsFinal`.
* `LedgerSize`: `TableBounded`. Rows are deleted by insertions only, so between
  two insertions closed rows pile up; the bound holds because each closed row was
  open at the last insertion. `SizeInv` adds that at most `MaxPending` rows are
  open and that rowids are distinct. The latter is what makes `Surplus` leave at
  most `MaxTerminal` closed rows: lemma `SurplusKeepsFew` takes the oldest
  survivor, and all others are newer.

The argument is arranged around a decomposition of the next-state relation,
`LedgerForm`: every step is an insertion, a claim or a *move*, which changes
statuses only and only along the arrows of `May` (lemmas `MethodsMove`,
`RecoverMoves`, `LedgerSteps`). `LedgerClosedIsFinal`, `LedgerSize`, and of the queue
`QueueSettledIsFinal` and `QueueRequestsBounded` are proved and no run repeats
them.

`NotificationQueueProofs` proves seven properties of the queue for any number of
events, rounds and first deliveries and any limits and delays
(`QueueAssumption`: finitely many events, limits and delays of at least one; that
a delay is never zero is what `OneRequestAtATime` rests on). Lemma `StepKinds`
reduces the sixteen actions of the module to nine kinds: housekeeping, which may
skip, take back, give up or stage rows, the claim, the request, its answer, the
death of a sender during a request, an acknowledged and any other finish, the
passing of time, and steps that change none of this.

* `QueueTypeCorrect`: `TypeOK`, with `HasJob` (a sender past its synchronisation
  knows its row).
* `QueueSettledIsFinal`: the action property `SettledIsFinal`, from `Quiet`: a
  finished row has no instant left that could pass.
* `QueueConfirmedWasAccepted`: from `LeaseIsForNext` (whoever holds the lease
  holds it for the first chunk that is not confirmed) and `Acknowledged` (an
  acknowledgement in hand is one Bark gave). Lemma `LeaseFrom` is the core: a
  sender that holds the lease of its row has just claimed it, or held it before
  and nobody has touched the row since.
* `QueueRequestsBounded`: from `Counted`, attempts are counted before requests.
* `QueueOneRequestAtATime`: not inductive, since a lease may expire while its
  request is under way. `Apart` says what covers a request then: the lease
  outlasts it, or both are over and the row cannot be claimed before more time
  passes, or the row is finished with.
* `QueueFailedIsCertain`: under `~TlsCuts`, from `Apart` and `Certain`: if Bark
  has the chunk after the confirmed ones, the row is in doubt, or its sender has
  the answer in hand, or nothing will call it failed. Without the assumption the
  run `queue_tls_cut` shows the violation.
* `QueueNoRequestWhileOff`: `NoRequestWhileOff` under `Live = Monitors`, that is if every
  round reads the configuration anew each time, action by action from `HeardOff`:
  a round that checked its source after the switch went off is not past its second
  reading with the answer "on". Without the assumption the run `queue_daemon`
  shows the violation.

`DesktopWorkerProofs` proves safety of the worker for any number of messages,
owners, turns, requests, reconnections and restarts, from `WorkerAssumption`. It
builds on `DesktopLedgerProofs`: `ShapeInv` (the types, the message the handler
works on and its row, requests that name messages, what an answer and a request
on the wire look like) shows that each step is a `LedgerForm`, so what was proved
of the ledger under calls in any order holds under the worker's.

* `WorkerHasType`: `TypeOK`, a part of `ShapeInv`.
* `WorkerOneAtATimeInOrder`, `WorkerClosedIsFinal`: the ledger's promises.
* `WorkerAcceptedWasRun`: `AcceptedWasRun`, whatever the environment does. The
  ledger is told of an acceptance from two places, the answer to the worker's own
  request and the native state. `RunInv` says of both, and of the replica and an
  answer not yet read, that they speak of messages that were run.
* `WorkerUnsentIsUnsent`, `WorkerAtMostOnce`: for `"event" \notin Env`, that is if
  every state event can be read; without it the run `desktop_unreadable_event`
  shows the violation. `SentInv` is about every place from which a message can
  still be sent or put back: a row that is waiting or gone, a handler between
  claim and write, an answer that refuses, a handler about to settle a refusal; in
  all of them the message was neither run nor written. A message on the wire was
  not run and is there once.
* `WorkerImplementsOutbox`: `ImplementsOutbox`, under the same hypothesis, from
  `RunInv` and `SentInv`. `RowMoves` says which arrows the row of a message can
  take, `RunsInDoubt` that a run hits a row in doubt or dismissed and is the first;
  `OutboxStep` maps each to a step of the outbox.
* `WorkerSteerIsNeverStarted`: `StartInv` follows the kind of a message from the
  row (which keeps it until it is deleted) to the command, the wire and the run.
* `WorkerOnlyToVouchedOwner`: `VouchInv`. The owner is compared when a request is
  taken and before a dispatch, and cannot change before the write except together
  with the command. A confirmation that waits in the channel confirms whoever is
  owner when it is taken: it must be of this session, and then the user made it
  while that owner was shown or accepted any.
* `WorkerPausedUntilAsked`: for `"storage" \notin Env`, since a ledger that cannot
  be written leaves its rows queued (section 4). `PauseInv`: what is queued while
  there is a stream was asked for since it came; no stream comes while something
  is queued; and a queued steer is in the hands of the request that made it.
* `WorkerNoStartDuringOwnTurn`: `NoStartDuringOwnTurn`, for `"event" \notin Env` and
  under `[]ForgottenRunOnce`: no identity the ledger has deleted is run again. (The
  native state still shows the first run of such an identity, which would confirm a
  second that the replica has not seen; with `MaxTerminal = 0` TLC finds it. In
  `desktop_delivery` nothing is deleted.) `TurnInv` and `ReplicaInv` say that ended
  turns stay ended, messages keep their turn and replicas are earlier native states;
  so a running turn of an accepted message was one before (`OwnTurnWas`). `AwaitInv`:
  the replica shows that turn, or the worker waits for it; and as the next accepted
  answer can only be of a message that joined it, what is waited for is not
  overwritten too early.

`JobsProofs`: `JobsHaveType`, `JobsAreRunWhole` (`JobsRunWhole`) from `JobsInv`: where
a task is tells what its command, its readers and its row may be (`TaskInv`), a
reader holds what it read and did not store (`ReaderInv`), and the group is taken
from before the row exists until the task is over (`GroupInv`).

`MonitorsProofs`, of errors: `ErrorsHaveType`; `IncidentsAreTrue` (`IncidentIsTrue`) from
`DeliveryInv`, which explains each claim, row and skipped incident by a process
that is still telling, an event, or a process that stopped while it told; and
`CursorsCover` (`CursorCoversIncidents`) from `CursorInv`, for `~CeLate`: the rows of
a log are committed in the order of their numbers. With late rows the property is
about fewer rows (`cePassed`) and stays with TLC.

Of questions: `QuestionsHaveType`; `QuestionsAskedWhileOffStayQuiet`
(`AskedWhileOffStaysQuiet`) and `QuestionsNotToldAgain` (`NotToldAgainWhileKept`)
from `QuestionsInv`, which says who can still tell of a question asked in silence
(`Judged`, and `Unnoticed` as long as no round saw the switch off), how old the marker of a told question can be (`Remembered`), and what an
entrance knows between two of its statements while the others go on (`OnItsWay`,
`OneClaims`).

Of GitHub CI:

* `GithubCiHasType`: `CiTypeOK`.
* `AppShowsReported`: `ShownWasReported`, with no hypothesis. The App judges newness by
  comparing two records it read; what lies between them is any number of saves,
  resets and changes of account. `RecordInv`: the record on the disk, the one a tick
  loaded and the one it made tell of each run what GitHub says or said; `CiClockInv`:
  baselines and the instants of ticks are past. `ShownInv`: while the App follows the
  record it saw or was told of whatever the record has as finished (`Seen`), and what
  a tick adds it judged by the record it loaded (`Grew`).
* `QuietWithOneFault`: `QuietWhileOff`, for `MaxCiFaults <= 1`, under which the code
  keeps it (section 3). `QuietInv`: what is on its way
  to be told has ended and not while the notifications were off (`EndedInv`,
  `CleanInv`); whoever may judge a scan holds such a run as finished, has no baseline,
  or what comes of the scan is dropped (`HeldInv`, `OffInv`).

`NativeProbeProofs`, for any number of turns, files, rounds that overlap, faults and
instants:

* `NativeProbeHasType`: `NpTypeOK`.
* `EachKeyToldOnce`: a key, one turn of one file, enters the queue once, whatever is
  done at once, stops, is recovered or forgotten. A row, or the cursor past its
  record, or a scan in hand that shows it keeps a forgotten key from coming back
  (`NpKeyInv`).
* `TurnToldOnce`: `ToldOncePerTurn`, under `[]OneStale`: no two rounds hold a scan of one
  file that was replaced since and whose successor has something live. `NpFileInv`:
  a turn live of one file is live of no other, and nothing that a round holds or the
  stream will go back to enters it again. Without the hypothesis it fails with three
  processes (section 3).
* `TurnToldOnceByTwo`: `ToldOncePerTurn` with at most two processes, the monitor and a
  hook, or when files are never written anew. That is what `parts` checks:
  whoever staged the live turn holds no older scan (`SomeUpToDate`), so of two
  rounds one at most is stale.
* `HistoricNeverTold`: `NothingHistoric`, with no hypothesis. While no round has seen
  the provider off, nothing runs that could tell the turn (`NothingRunsOn`); then it
  is kept back by the lack of a baseline, then by the baseline (`KeptBack`): by its
  instant, or, for a source whose past may change, by a row or a cursor behind its
  record (`Covered`), which no scan in hand undoes since each shows the turn
  (`InEveryScan`).


`RemoteChannelProofs`, from `RemoteInv` (checked with TLC on three commands, two
changes and three connections before it was proved):

* `RemoteAnswersOfItsMachine`: `AnswerOfItsMachine`. The counter of the guards is
  the number of commands that write (`CountOK`), a change begins at zero and none
  is admitted during it; and a connection never changes its machine, so a command
  keeps one to the machine of its revision (`CallsOK`).
* `RemoteWrittenOnce`: `WrittenOnce`, from `OnceOK`: before it was written a request
  is nowhere, afterwards on one connection at most, and not run while it is there.
* `RemoteNoneLeftOpen`: `NoneLeftOpen` is not inductive. `OwnedOK` includes
  connections still being made, and `JoinOK` says that who takes one over does not
  push out another that is open: commands of the present revision wait for the
  shared attempt or the client, and there is no client while there is an attempt.
* `RemoteHasType`: `RemoteTypeOK`. `RemoteAssumption` takes the commands to be
  finitely many, which counting the guards needs.

`DesktopAppProofs`:

* `AttachmentsHaveType`, `SentImagesStay` (`SentStays`) and `IndexKeepsWithFiles`
  (`IndexMatchesFiles`) from `AttachmentsInv`. An operation is the list of calls
  that are left of it, and it may fail or the App end after any of them, so the
  invariant speaks of positions in that list: an image is written before an index
  names it, named only when whole, deleted only while the index in force calls it
  released, forgotten only when deleted (`Planned`). `RestIsPlan` keeps that when the
  first call is made; `RemovalIsPlan` and `ImportIsPlan` show it of the plans.
* `ScansHaveType` and `ScansAreWholeOrStopped` (`ScanIsWholeOrStopped`) from
  `HiddenInv`. A run concludes from an answer made earlier: `PageOK` says that a page
  on its way can still be taken and `ErrorOK` that an error leaves no scan at work for
  nobody, whatever the worker, a stop or the next run did meanwhile. That a start
  always finds a slot is counted (`MakesRoom`): without a worker whatever holds a slot
  is finished, and the oldest of them goes.
* `SubscriptionsHaveType` and `SubscriptionsFollowViews` (`SubscriptionFollowsView`)
  from `RuntimeInv`. The property is about rest; the invariant says why rest is
  reached right: intents are in the order of the attaches (`CallsOrdered`), the
  current run is the last attach (`RunOK`), so nobody can take the selection from it
  but its own detach, which is sent when it is left (`ShownOK`); and a selected
  subscription that is not held has its detach on its way, its answer yet to come, or
  an older revision (`SelectedOK`). `RuntimeAssumption` takes the bounds on attaches and
  changes to be naturals.
* `ApprovalsHaveType` and `ApprovalsDecidedAsShown` (`DecidedAsShown`) from
  `ApprovalInv`, which says that an answer carrying the number of the present session,
  in the channel or in hand, was decided on a view of the present link, and that none
  waits while the worker reconnects.
* `KeysHaveType`, `KeyStaysStable` (`KeyIsStable`) and `RecoveryIsAlone`
  (`RecoversAlone`) from `KeyInv`: one call is past the lock; who found no key also
  found nothing stored, and still is alone when it makes one.

## 7. What is only model-checked

* Liveness and `ENABLED` are beyond the proof system: `Settles`,
  `SubmissionSettles`, `OnlyMissedWakeUp`, `FinishedIsStaged`, `OwedIsTold`.
* `WindowIsRight` and `HwTypeOK` of `HistoryWindow`: what the interface shows is made
  of merged, flattened and filtered sequences, folds whose results for every
  sequence are facts by induction over data.
* `PartsTypeOK` and `LoopsTypeOK` as such: they join the type invariants of the
  modules of a run, which are proved one by one but for `HwTypeOK`.
* Properties outside the hypotheses of their theorems: `CursorCoversIncidents` with
  rows committed late (`CeLate`). `ToldOncePerTurn` with three processes does not
  hold there (section 3), nor does `QuietWhileOff` with two faults.

## 8. What is not modelled, and why

The definitions stand for about a tenth of the implementation's lines. The rest
is for the most part code without protocol state:

* Parsers, projections, formatting and redaction (provider adapters, probe
  rules, the navigation of histories): functions from file contents to views;
  they are covered by fixtures and unit tests. They are the bulk of the code.
* Of the notification queue: the hand-over from Claude hook rows, the record of
  visible events, rows whose payload cannot be read (claimed and settled as
  skipped at once) and the pruning of old rows. That newer messages are not
  starved by a full batch would need more messages under fairness than TLC can
  hold.
* The feedback monitor, grants and catalogs of the bridge, deletions of sessions
  and threads, updates: planned or listed in section 4.
* Rendering of the web interface, packaging and deployment.
* SQLite, the key store, sockets and the native desktop: external, taken as the
  code uses them.
