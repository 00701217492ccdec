---------------------------- MODULE DesktopRuntime ----------------------------
(***************************************************************************)
(* How the interface subscribes to a thread of the native desktop and      *)
(* leaves it: the effect of useCodexDesktop.ts, attachDesktopThread and    *)
(* detachDesktopThread of lib/api/desktop.ts, and the commands attach,     *)
(* action and detach of the bridge (src-tauri/src/codex_desktop.rs) with   *)
(* its counter of intents, its one selection and its registry of workers.  *)
(*                                                                         *)
(* Commands start in the order in which they are made and then run         *)
(* concurrently: an attach waits for the desktop for up to twenty seconds  *)
(* while the user opens other threads, connects again, hides the window or *)
(* switches machines, and its answer, or the detach that follows, may come *)
(* after those of a later one.  A subscription is named here by the attach *)
(* that asks for it; its token is a random name.                           *)
(*                                                                         *)
(* What workers do is in DesktopWorker; one that may be evicted (idle and  *)
(* without a queue) is any that is not selected.  The 100 ms a listener    *)
(* waits before it sends a view are taken to cover the wait for the lock   *)
(* of the selection, so views come from selected subscriptions only.       *)
(***************************************************************************)
EXTENDS Integers, FiniteSets

CONSTANTS
    DuThreads,
    DuMaxWorkers,   \* MAX_WORKERS
    DuMaxCalls,     \* bound: attaches
    DuMaxRevision   \* bound: changes of the machine

ASSUME RuntimeAssumption ==
  DuMaxWorkers \in Nat \ {0} /\ DuMaxCalls \in Nat /\ DuMaxRevision \in Nat

VARIABLES
    duThread,    \* the thread the interface shows
    duAsked,     \* attempt > 0: the user connected to it
    duVisible,
    duRun,       \* the attach of the current run of the effect, 0: none
    duChanging,  \* a change of the machine: cleanups, request, answer
    duUiRev,     \* the revision the interface knows
    duHeld,      \* the subscription it would release, 0: none
    duView,      \* the subscription whose view it shows, 0: none
    duRevision,  \* the revision of the bridge
    duLocalAt,   \* the revisions whose target is this machine
    duIntent,    \* CodexDesktopBridge.intent
    duSelection, \* BridgeRuntime.selection, 0: none
    duWorkers,   \* BridgeRuntime.workers
    duCalls,     \* the attaches made so far
    duReleases,  \* detaches on their way
    duActions,   \* actions on their way
    duGiven      \* history: the thread shown, the thread whose worker was given it

duPage == <<duThread, duAsked, duVisible>>
duShown == <<duRun, duHeld, duView>>
duMachine == <<duChanging, duUiRev, duRevision, duLocalAt>>
duBridge == <<duIntent, duSelection, duWorkers>>
duSent == <<duCalls, duReleases, duActions, duGiven>>
duVars == <<duPage, duShown, duMachine, duBridge, duSent>>

Subscriptions == 1..DuMaxCalls
NoSubscription == [stage |-> "none"]
AttachCall == [stage : {"sent", "connecting", "checked", "accepted", "refused", "over"},
               thread : DuThreads, confirm : BOOLEAN, rev : 0..DuMaxRevision, intent : Nat]

DuTypeOK ==
  /\ duThread \in DuThreads /\ duAsked \in BOOLEAN /\ duVisible \in BOOLEAN
  /\ {duRun, duHeld, duView, duSelection} \subseteq {0} \cup Subscriptions
  /\ duChanging \in {"no", "cleaning", "requested", "changed", "failed"}
  /\ duRevision \in 0..DuMaxRevision /\ duUiRev \in 0..duRevision
  /\ duLocalAt \subseteq 0..DuMaxRevision
  /\ duIntent \in Nat /\ duWorkers \in [DuThreads -> {"none", "live", "closed"}]
  /\ duCalls \in [Subscriptions -> AttachCall \cup {NoSubscription}]
  /\ duReleases \subseteq Subscriptions
  /\ duActions \subseteq [of : Subscriptions, shown : DuThreads]
  /\ duGiven \subseteq DuThreads \X DuThreads

RuntimeInit ==
  /\ duThread \in DuThreads /\ duAsked = FALSE /\ duVisible = TRUE
  /\ duRun = 0 /\ duHeld = 0 /\ duView = 0
  /\ duChanging = "no" /\ duUiRev = 0 /\ duRevision = 0 /\ duLocalAt = {0}
  /\ duIntent = 0 /\ duSelection = 0
  /\ duWorkers = [t \in DuThreads |-> "none"]
  /\ duCalls = [s \in Subscriptions |-> NoSubscription]
  /\ duReleases = {} /\ duActions = {} /\ duGiven = {}
-----------------------------------------------------------------------------
RequireLocal(rev) == rev = duRevision /\ rev \in duLocalAt
\* valid: the run of the effect that made the attach is the current one.
Valid(s) == duRun = s /\ duVisible /\ duCalls[s].rev = duUiRev

\* The clean-up of the run before.
Unmounting == duReleases \cup ({duHeld} \ {0})
\* The effect runs: it attaches if the user connected to this thread.
Effect(asked, visible, confirm, rev, may) ==
  LET made == {s \in Subscriptions : duCalls[s] # NoSubscription}
      s == Cardinality(made) + 1
      attach == asked /\ visible /\ may /\ rev \in duLocalAt IN
  /\ attach => s <= DuMaxCalls
  /\ duRun' = IF attach THEN s ELSE 0
  /\ duCalls' = IF ~attach THEN duCalls
                ELSE [duCalls EXCEPT ![s] = [stage |-> "sent", thread |-> duThread,
                                             confirm |-> confirm, rev |-> rev,
                                             intent |-> 0]]
  /\ duHeld' = 0 /\ duView' = 0
  /\ duReleases' = Unmounting

\* localRevision
MayAsk == duChanging \in {"no", "cleaning"}

DuOpens(t) ==
  /\ t # duThread
  /\ duThread' = t /\ duAsked' = FALSE
  /\ duRun' = 0 /\ duHeld' = 0 /\ duView' = 0
  /\ duReleases' = Unmounting
  /\ UNCHANGED <<duVisible, duMachine, duBridge, duCalls, duActions, duGiven>>
DuConnects ==
  /\ duVisible
  /\ duAsked' = TRUE
  /\ Effect(TRUE, TRUE, TRUE, duUiRev, MayAsk)
  /\ UNCHANGED <<duThread, duVisible, duMachine, duBridge, duActions, duGiven>>
DuHidesOrShows ==
  /\ duVisible' = ~duVisible
  /\ Effect(duAsked, ~duVisible, FALSE, duUiRev, MayAsk)
  /\ UNCHANGED <<duThread, duAsked, duMachine, duBridge, duActions, duGiven>>

\* changeConnection: the clean-ups, the request, its answer.
DuChangeBegins ==
  /\ duChanging = "no" /\ duActions = {} /\ duRevision < DuMaxRevision
  /\ duChanging' = "cleaning"
  /\ duAsked' = FALSE
  /\ duRun' = 0 /\ duHeld' = 0 /\ duView' = 0
  /\ duReleases' = Unmounting
  /\ UNCHANGED <<duThread, duVisible, duUiRev, duRevision, duLocalAt, duBridge, duCalls,
                 duActions, duGiven>>
DuChangeSent ==
  /\ duChanging = "cleaning"
  /\ duChanging' = IF duActions = {} THEN "requested" ELSE "no"
  /\ UNCHANGED <<duPage, duShown, duUiRev, duRevision, duLocalAt, duBridge, duSent>>
DuMachineChanges ==
  /\ duChanging = "requested"
  /\ \/ /\ duChanging' = "changed" /\ duRevision' = duRevision + 1
        /\ \E local \in SUBSET {duRevision + 1} : duLocalAt' = duLocalAt \cup local
     \/ duChanging' = "failed" /\ UNCHANGED <<duRevision, duLocalAt>>
  /\ UNCHANGED <<duPage, duShown, duUiRev, duBridge, duSent>>
DuChangeKnown ==
  /\ duChanging \in {"changed", "failed"}
  /\ duChanging' = "no" /\ duUiRev' = duRevision
  /\ IF duUiRev = duRevision
       THEN UNCHANGED <<duShown, duCalls, duReleases>>
       ELSE Effect(duAsked, duVisible, FALSE, duRevision, TRUE)
  /\ UNCHANGED <<duPage, duRevision, duLocalAt, duBridge, duActions, duGiven>>
-----------------------------------------------------------------------------
\* attach: the intent is taken before anything is checked.
DuAttachBegins(s) ==
  LET c == duCalls[s] IN
  /\ c.stage = "sent" /\ \A r \in 1..(s - 1) : duCalls[r].stage # "sent"
  /\ duIntent' = duIntent + 1
  /\ duCalls' = [duCalls EXCEPT ![s].intent = duIntent + 1,
                                ![s].stage = IF RequireLocal(c.rev) THEN "connecting"
                                             ELSE "refused"]
  /\ UNCHANGED <<duPage, duShown, duMachine, duSelection, duWorkers, duReleases, duActions,
                 duGiven>>

SelectedThread(t) == duSelection # 0 /\ duCalls[duSelection].thread = t
\* BridgeRuntime::attach: a worker is found, or made in the place of one that
\* is neither selected nor busy.
WorkersWith(t, confirm) ==
  LET live == [u \in DuThreads |-> IF duWorkers[u] = "closed" THEN "none" ELSE duWorkers[u]]
      count == Cardinality({u \in DuThreads : live[u] = "live"}) IN
  CASE duWorkers[t] = "live" -> {live}
    [] duWorkers[t] # "live" /\ ~confirm -> {}
    [] duWorkers[t] # "live" /\ confirm /\ count < DuMaxWorkers -> {[live EXCEPT ![t] = "live"]}
    [] OTHER -> {[live EXCEPT ![t] = "live", ![u] = "none"] :
                   u \in {u \in DuThreads : live[u] = "live" /\ ~SelectedThread(u)}}

\* Is it still the newest intent? Mutant: the answer of an older attach is as good.
NewestOrNot(c) == TRUE
Newest(c) == duIntent = c.intent

DuAttached(s) ==
  LET c == duCalls[s] IN
  /\ c.stage = "connecting"
  /\ duWorkers' \in WorkersWith(c.thread, c.confirm)
  /\ duCalls' = [duCalls EXCEPT ![s].stage =
                   IF RequireLocal(c.rev) /\ Newest(c) THEN "checked" ELSE "refused"]
  /\ UNCHANGED <<duPage, duShown, duMachine, duIntent, duSelection, duReleases, duActions,
                 duGiven>>
\* The desktop does not answer, the owner is not accepted, nobody may be evicted.
DuAttachFails(s) ==
  /\ duCalls[s].stage = "connecting"
  /\ duCalls' = [duCalls EXCEPT ![s].stage = "refused"]
  /\ UNCHANGED <<duPage, duShown, duMachine, duBridge, duReleases, duActions, duGiven>>

\* Under the lock of the selection; the former one loses its listener.
DuSelects(s) ==
  LET c == duCalls[s] IN
  /\ c.stage = "checked"
  /\ duSelection' = IF Newest(c) THEN s ELSE duSelection
  /\ duCalls' = [duCalls EXCEPT ![s].stage = IF Newest(c) THEN "accepted" ELSE "refused"]
  /\ UNCHANGED <<duPage, duShown, duMachine, duIntent, duWorkers, duReleases, duActions,
                 duGiven>>

DuWorkerEnds(t) ==
  /\ duWorkers[t] = "live"
  /\ duWorkers' = [duWorkers EXCEPT ![t] = "closed"]
  /\ UNCHANGED <<duPage, duShown, duMachine, duIntent, duSelection, duSent>>

\* detach: the matching subscription only.
Revokes(s) == duSelection = s
DuReleased(s) ==
  /\ s \in duReleases
  /\ duReleases' = duReleases \ {s}
  /\ IF Revokes(s) THEN duSelection' = 0 /\ duIntent' = duIntent + 1
                   ELSE UNCHANGED <<duSelection, duIntent>>
  /\ UNCHANGED <<duPage, duShown, duMachine, duWorkers, duCalls, duActions, duGiven>>
-----------------------------------------------------------------------------
\* A view of the listener arrives, also before the answer of its attach.
DuPushed(s) ==
  /\ duSelection = s /\ RequireLocal(duCalls[s].rev)
  /\ Valid(s) /\ duView # s
  /\ duView' = s
  /\ UNCHANGED <<duPage, duRun, duHeld, duMachine, duBridge, duSent>>

\* The answer: runtimeRpc drops one of another revision; what nobody waits for
\* any more is released at once.
DuAnswered(s) ==
  LET c == duCalls[s]
      old == c.rev # duUiRev
      kept == c.stage = "accepted" /\ ~old /\ Valid(s) IN
  /\ c.stage \in {"accepted", "refused"}
  /\ duCalls' = [duCalls EXCEPT ![s].stage = "over"]
  /\ IF kept THEN duHeld' = s /\ duView' = s ELSE UNCHANGED <<duHeld, duView>>
  /\ duReleases' = IF c.stage = "accepted" /\ ~old /\ ~Valid(s) THEN duReleases \cup {s}
                   ELSE duReleases
  /\ UNCHANGED <<duPage, duRun, duMachine, duBridge, duActions, duGiven>>

\* act, and the command action: the subscription is looked up at both ends.
DuActs ==
  /\ duView # 0 /\ MayAsk
  /\ duActions' = duActions \cup {[of |-> duView, shown |-> duThread]}
  /\ UNCHANGED <<duPage, duShown, duMachine, duBridge, duCalls, duReleases, duGiven>>
DuActionGiven(a) ==
  /\ a \in duActions
  /\ duActions' = duActions \ {a}
  /\ duGiven' = IF duSelection = a.of /\ RequireLocal(duCalls[a.of].rev)
                  THEN duGiven \cup {<<a.shown, duCalls[duSelection].thread>>}
                  ELSE duGiven
  /\ UNCHANGED <<duPage, duShown, duMachine, duBridge, duCalls, duReleases>>

RuntimeNext ==
  \/ \E t \in DuThreads : DuOpens(t) \/ DuWorkerEnds(t)
  \/ DuConnects \/ DuHidesOrShows
  \/ DuChangeBegins \/ DuChangeSent \/ DuMachineChanges \/ DuChangeKnown
  \/ \E s \in Subscriptions :
       \/ DuAttachBegins(s) \/ DuAttached(s) \/ DuAttachFails(s) \/ DuSelects(s)
       \/ DuReleased(s) \/ DuPushed(s) \/ DuAnswered(s)
  \/ DuActs
  \/ \E a \in duActions : DuActionGiven(a)
RuntimeSpec == RuntimeInit /\ [][RuntimeNext]_duVars
-----------------------------------------------------------------------------
\* Nothing is under way between the interface and the bridge.
AtRest ==
  /\ duReleases = {} /\ duChanging = "no"
  /\ \A s \in Subscriptions : duCalls[s].stage \in {"none", "over"}

\* In whatever order attaches, their answers, views and detaches arrive: once
\* they have, a view that is shown is that of the selected subscription, to the
\* thread that is shown, and a subscription made under the current revision is
\* selected only if the interface shows it and will release it (a view without a
\* subscription never changes again; a subscription without a view holds its
\* worker for ever).  And no action reaches the worker of another thread than
\* the one the user looked at (codex_desktop.rs 355-407, 283-297, 503-530,
\* useCodexDesktop.ts 31-81).
SubscriptionFollowsView ==
  /\ AtRest =>
       /\ duView = duHeld
       /\ duView # 0 => duSelection = duView /\ duCalls[duView].thread = duThread
       /\ duSelection # 0 /\ duCalls[duSelection].rev = duRevision => duSelection = duHeld
  /\ \A g \in duGiven : g[1] = g[2]
=============================================================================
