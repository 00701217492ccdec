---------------------------- MODULE DesktopWorker ----------------------------
(***************************************************************************)
(* One worker of the Codex desktop collaboration: the actor WorkerLoop     *)
(* (codex/desktop/worker.rs) that owns the live session to one thread of   *)
(* the native desktop (session.rs), its replica of the native state        *)
(* (state.rs), and the ledger of the messages the user asked it to send.   *)
(*                                                                         *)
(* The worker handles one request or event at a time.  `pc' says which     *)
(* await of the handler it is suspended in; between two awaits the native  *)
(* desktop, the user, a lost connection and a crash may intervene:         *)
(*                                                                         *)
(*   loop --request--> [steer] -> recheck -> wait -> settle -> reconcile   *)
(*        --event----> reconcile -> dispatch -> recheck -> ... -> loop     *)
(*        --error----> recover -> reconnect -> reconcile | none            *)
(*                                                                         *)
(* The native desktop is external: it is modelled by what the code assumes *)
(* of it.  A state event makes the replica equal to the native state at    *)
(* the time it is read; events between two reads are merged.               *)
(***************************************************************************)
EXTENDS DesktopLedger, Sequences

CONSTANTS
    Own,            \* the thread this worker serves
    Foreign,        \* turns the user starts in the native desktop itself
    Owners,         \* native clients that can own the thread
    NoId, NoTurn, NoOwner, NoReplica,
    ChanCap,        \* capacity of the action channel (16)
    MaxAttempts,    \* reconnection attempts (5)
    UserOps,        \* bound: the requests the user makes
    Env             \* what the environment may do beyond the protocol

EnvKinds ==
    {"storage",     \* a ledger call fails
     "event",       \* a state event of another protocol version mid-request
     "owner",       \* another native client takes the thread over
     "followups"}   \* the native desktop has queued messages of its own

Turns == Ids \cup Foreign

Ops == {"send", "steer", "stop", "cancel", "resume", "dismiss", "confirm"}

ASSUME WorkerAssumption ==
    /\ Own \in Threads
    /\ Owners # {} /\ NoOwner \notin Owners
    /\ NoId \notin Ids
    /\ Ids \cap Foreign = {} /\ NoTurn \notin Turns
    /\ NoReplica \notin [turn : Turns \cup {NoTurn}, queued : BOOLEAN,
                         done : SUBSET Turns, has : [Ids -> Turns \cup {NoTurn}]]
    /\ ChanCap \in Nat \ {0}
    /\ MaxAttempts \in Nat
    /\ UserOps \subseteq Ops
    /\ Env \subseteq EnvKinds

VARIABLES
    pc,         \* where the handler is suspended; "none": no worker, "down": no App
    cmd,        \* the native command being executed
    err,        \* how it, or the last event, failed: a class of DesktopError
    pending,    \* WorkerLoop.pending: the listing of open rows it last read
    waitTurn,   \* WorkerLoop.wait_for_turn
    phase,      \* WorkerLoop.connection_phase
    confirmed,  \* WorkerLoop.confirmed_owner
    resyncUsed, \* WorkerLoop.resync_used
    attempts,   \* WorkerLoop.reconnect_attempts
    chan,       \* action channel; `live': made in the current session_id
    conn,       \* the session has a stream
    owner,      \* the owner the session was attached to
    replica,    \* NativeState of the session, NoReplica when invalidated
    native,     \* the thread in the native desktop
    nativeOwner,
    wire,       \* requests on their way to the native desktop
    reply,      \* its answer to the request the worker waits for
    runs,       \* history: a message was given to the model never, once, more often
    started,    \* history: messages that were run as a turn of their own
    asked,      \* history: messages the user asked for since the last interruption
    vouched     \* history: owners the user accepted by a Connect in this session

task == <<pc, cmd, err>>
link == <<conn, owner, replica>>
session == <<phase, confirmed, resyncUsed, attempts>>
desktop == <<native, nativeOwner, wire, reply>>
history == <<runs, started, asked, vouched>>
vars == <<ledger, task, pending, waitTurn, session, chan, link, desktop, history>>

NativeStates == [turn : Turns \cup {NoTurn}, queued : BOOLEAN,
                 done : SUBSET Turns, has : [Ids -> Turns \cup {NoTurn}]]

\* The classes of DesktopError that the worker tells apart:
\*   lost   Disconnected, Timeout, OutcomeUnknown: reconnect; a submission is in doubt
\*   owner  OwnerUnavailable: reconnect; a submission was not sent
\*   sync   OutOfSync: resynchronise once; not sent
\*   other  everything else: the worker ends; not sent
Errors == {"lost", "owner", "sync", "other"}
Commands == {"start", "steer", "stop"}
Requests == [op : Ops, id : Ids \cup {NoId}, turn : Turns \cup {NoTurn},
             live : BOOLEAN]
Answers == {"none", "ok", "rejected", "no_client", "unsupported"}
NoReply == [is |-> "none", turn |-> NoTurn]
Idling == [op |-> "none", id |-> NoId, turn |-> NoTurn, auto |-> FALSE]

TypeOK ==
    /\ LedgerTypeOK
    /\ pc \in {"down", "none", "boot", "loop", "steer", "recheck", "wait", "settle",
               "reconcile", "dispatch", "recover", "reconnect"}
    /\ cmd \in [op : Commands \cup {"none"}, id : Ids \cup {NoId},
                turn : Turns \cup {NoTurn}, auto : BOOLEAN]
    /\ err \in Errors \cup {"none"}
    /\ pending \in [Ids -> Open \cup {"absent"}]
    /\ waitTurn \in Turns \cup {NoTurn}
    /\ phase \in {"connected", "owner_confirmation_required", "resyncing",
                  "reconnecting", "disconnected"}
    /\ confirmed \in Owners \cup {NoOwner}
    /\ resyncUsed \in BOOLEAN
    /\ attempts \in 0..MaxAttempts
    /\ chan \in Seq(Requests)
    /\ conn \in BOOLEAN
    /\ owner \in Owners \cup {NoOwner}
    /\ replica \in NativeStates \cup {NoReplica}
    /\ native \in NativeStates
    /\ nativeOwner \in Owners
    /\ wire \subseteq [op : Commands, id : Ids \cup {NoId}, turn : Turns \cup {NoTurn},
                       to : Owners]
    /\ reply \in [is : Answers, turn : Turns \cup {NoTurn}]
    /\ runs \in [Ids -> 0..2]
    /\ started \subseteq Ids
    /\ asked \subseteq Ids
    /\ vouched \subseteq Owners

Init ==
    /\ LedgerInit
    /\ pc = "down" /\ cmd = Idling /\ err = "none"
    /\ pending = [m \in Ids |-> "absent"]
    /\ waitTurn = NoTurn
    /\ phase = "disconnected" /\ confirmed = NoOwner
    /\ resyncUsed = FALSE /\ attempts = 0
    /\ chan = <<>>
    /\ conn = FALSE /\ owner = NoOwner /\ replica = NoReplica
    /\ native = [turn |-> NoTurn, queued |-> FALSE, done |-> {},
                 has |-> [m \in Ids |-> NoTurn]]
    /\ nativeOwner \in Owners
    /\ wire = {} /\ reply = NoReply
    /\ runs = [m \in Ids |-> 0] /\ started = {} /\ asked = {} /\ vouched = {}

(***************************************************************************)
(* The ledger as the worker calls it                                       *)
(***************************************************************************)
\* DesktopLedger::list for the worker's thread.
Listing == [m \in Ids |-> IF m \in Rows(Own, Open) THEN status[m] ELSE "absent"]

\* refresh_queue.  When the read fails the worker keeps the old listing.
Refresh ==
    \/ pending' = Listing'
    \/ "storage" \in Env /\ pending' = pending

\* A ledger call that fails changes nothing.
StorageFails == "storage" \in Env /\ UNCHANGED <<ledger, pending>>

(***************************************************************************)
(* Predicates on the session                                               *)
(***************************************************************************)
Confirmed == phase = "connected" /\ owner = confirmed

\* NativeState::check_idle
Idle(r) == r # NoReplica /\ r.turn = NoTurn /\ ~r.queued

\* DesktopCommand::prepare: the state a command needs, or the error.
PrepareError(c, r) ==
    CASE r = NoReplica -> "sync"
      [] c.op = "start" /\ r # NoReplica /\ ~Idle(r) -> "other"
      [] c.op # "start" /\ r # NoReplica /\ r.turn # c.turn -> "other"
      [] OTHER -> "none"

\* The end of a user's request: with the stream gone the worker recovers.
EndRequest(e) ==
    /\ cmd' = Idling
    /\ IF conn' THEN pc' = "reconcile" /\ err' = "none"
                ELSE pc' = "recover" /\ err' = IF e = "none" THEN "lost" ELSE e

\* execute has failed: submit settles a message in the ledger, Stop just ends.
Failed(e) ==
    IF cmd.op = "stop"
    THEN EndRequest(e)
    ELSE pc' = "settle" /\ err' = e /\ UNCHANGED cmd

(***************************************************************************)
(* The user.  act_in_session compares the session and writability of the   *)
(* view before it queues a request; confirm_owner needs no writable view.  *)
(* Connect accepts the owner of the session, and while the worker is       *)
(* reconnecting whichever owner it finds.                                  *)
(***************************************************************************)
Alive == pc \notin {"down", "none"}

Request(op, m, t) ==
    /\ Alive
    /\ op \in UserOps
    /\ op # "confirm" => Confirmed /\ replica # NoReplica
    /\ Len(chan) < ChanCap
    /\ chan' = Append(chan, [op |-> op, id |-> m, turn |-> t, live |-> TRUE])
    /\ vouched' = IF op # "confirm" THEN vouched
                  ELSE IF pc = "reconnect" THEN Owners ELSE vouched \cup {owner}
    /\ UNCHANGED <<ledger, task, pending, waitTurn, session, link, desktop,
                   runs, started, asked>>

UserRequest ==
    \/ \E m \in Ids, op \in {"send", "cancel", "dismiss"} : Request(op, m, NoTurn)
    \/ \E t \in Turns :
        /\ replica # NoReplica /\ t = replica.turn
        /\ \/ \E m \in Ids : Request("steer", m, t)
           \/ Request("stop", NoId, t)
    \/ \E op \in {"resume", "confirm"} : Request(op, NoId, NoTurn)

(***************************************************************************)
(* Handling a request.  Take(op) is the start of every arm of action().    *)
(***************************************************************************)
\* Mutant: the request's session is not compared.
TakeAnySession(op) ==
    /\ pc = "loop"
    /\ chan # <<>>
    /\ Head(chan).op = op
    /\ op # "confirm" => Confirmed /\ replica # NoReplica
    /\ chan' = Tail(chan)

Take(op) ==
    /\ pc = "loop"
    /\ chan # <<>>
    /\ Head(chan).live
    /\ Head(chan).op = op
    /\ op # "confirm" => Confirmed /\ replica # NoReplica
    /\ chan' = Tail(chan)

\* Another session_id, or a session that may not be written to.
RefuseRequest ==
    /\ pc = "loop"
    /\ chan # <<>>
    /\ \/ ~Head(chan).live
       \/ Head(chan).op # "confirm" /\ ~(Confirmed /\ replica # NoReplica)
    /\ chan' = Tail(chan)
    /\ UNCHANGED <<ledger, pending, waitTurn, session, link, desktop, history>>
    /\ EndRequest(IF Head(chan).live /\ Confirmed THEN "sync" ELSE "other")

\* A ledger call of the handler fails, or finds nothing to change.
FruitlessRequest ==
    \E op \in {"send", "steer", "stop", "cancel", "resume", "dismiss"} :
        /\ Take(op)
        /\ LET m == Head(chan).id
           IN  \/ "storage" \in Env
               \/ op = "send" /\ EnqueueRefused(Own, m, "queue")
               \/ op = "steer" /\ replica.turn # Head(chan).turn
               \/ op = "steer" /\ EnqueueRefused(Own, m, "steer")
               \/ op = "cancel" /\ m \notin Rows(Own, Waiting)
               \/ op = "dismiss" /\ m \notin Rows(Own, {"outcome_unknown"})
        /\ UNCHANGED <<ledger, pending, waitTurn, session, link, desktop, history>>
        /\ EndRequest("other")

\* The user asks for a message that had no row, or resumes it.
Ask(S) ==
    /\ asked' = asked \cup S
    /\ UNCHANGED <<runs, started, vouched>>

TakeSend ==
    /\ Take("send")
    /\ LET m == Head(chan).id
       IN  /\ Enqueue(Own, m, "queue")
           /\ Ask({m} \ {i \in Ids : status[i] # "absent"})
    /\ Refresh
    /\ UNCHANGED <<waitTurn, session, link, desktop>>
    /\ EndRequest(IF pending' = Listing' THEN "none" ELSE "other")

TakeSteer ==
    /\ Take("steer")
    /\ replica.turn = Head(chan).turn
    /\ LET m == Head(chan).id
       IN  /\ Enqueue(Own, m, "steer")
           /\ Ask({m} \ {i \in Ids : status[i] # "absent"})
           /\ Refresh
           /\ UNCHANGED <<waitTurn, session, link, desktop>>
           /\ IF pending' = Listing'
              THEN /\ pc' = "steer" /\ UNCHANGED err
                   /\ cmd' = [op |-> "steer", id |-> m, turn |-> Head(chan).turn,
                              auto |-> FALSE]
              ELSE EndRequest("other")

\* A steer that cannot claim the lane at once is held, and never retried.
ClaimSteer ==
    /\ pc = "steer"
    /\ UNCHANGED <<waitTurn, session, chan, link, desktop, history>>
    /\ \/ /\ ClaimImmediate(Own, cmd.id)
          /\ Refresh
          /\ IF pending' = Listing'
             THEN pc' = "recheck" /\ UNCHANGED <<cmd, err>>
             ELSE EndRequest("other")
       \/ /\ ~CanClaimImmediate(Own, cmd.id)
          /\ HoldQueued(Own, cmd.id)
          /\ Refresh
          /\ EndRequest("other")
       \/ StorageFails /\ EndRequest("other")

\* Stop holds the queue before it interrupts the turn.
TakeStop ==
    /\ Take("stop")
    /\ Hold(Own)
    /\ Refresh
    /\ UNCHANGED <<waitTurn, session, link, desktop, history>>
    /\ IF pending' = Listing'
       THEN /\ pc' = "recheck" /\ UNCHANGED err
            /\ cmd' = [op |-> "stop", id |-> NoId, turn |-> Head(chan).turn, auto |-> FALSE]
       ELSE EndRequest("other")

TakeCancel ==
    /\ Take("cancel")
    /\ Cancel(Own, Head(chan).id)
    /\ Refresh
    /\ UNCHANGED <<waitTurn, session, link, desktop, history>>
    /\ EndRequest(IF pending' = Listing' THEN "none" ELSE "other")

TakeDismiss ==
    /\ Take("dismiss")
    /\ DismissUnknown(Own, Head(chan).id)
    /\ Refresh
    /\ UNCHANGED <<waitTurn, session, link, desktop, history>>
    /\ EndRequest(IF pending' = Listing' THEN "none" ELSE "other")

\* The rows to resume are selected from the listing, by their decoded kind.
Resumable == {m \in Ids : pending[m] = "held" /\ kind[m] = "queue"}

TakeResume ==
    /\ Take("resume")
    /\ ResumeSelected(Own, Resumable)
    /\ Ask(Resumable)
    /\ Refresh
    /\ UNCHANGED <<waitTurn, session, link, desktop>>
    /\ EndRequest(IF pending' = Listing' THEN "none" ELSE "other")

\* confirm: the owner of the session becomes the confirmed one, if it still is
\* the owner and the thread may be written to.
TakeConfirm ==
    /\ Take("confirm")
    /\ conn /\ nativeOwner = owner
    /\ replica' \in {replica, native}
    /\ UNCHANGED <<ledger, pending, waitTurn, conn, owner, desktop, attempts>>
    /\ IF replica' = NoReplica
       THEN UNCHANGED <<session, history>> /\ EndRequest("sync")
       ELSE /\ confirmed' = owner /\ phase' = "connected" /\ resyncUsed' = FALSE
            /\ UNCHANGED history
            /\ EndRequest("none")

ConfirmFails ==
    /\ Take("confirm")
    /\ conn' = FALSE
    /\ asked' = {}
    /\ UNCHANGED <<ledger, pending, waitTurn, session, owner, replica, desktop,
                   runs, started, vouched>>
    /\ \E e \in Errors : (~conn => e = "lost") /\ EndRequest(e)

(***************************************************************************)
(* Executing a command: execute, execute_observing and exchange            *)
(***************************************************************************)
Submission == [op |-> cmd.op, id |-> cmd.id, turn |-> cmd.turn, to |-> owner]

\* The local thread is archived or unreadable, or a reference has changed.
RecheckRefused ==
    /\ pc = "recheck"
    /\ UNCHANGED <<ledger, pending, waitTurn, session, chan, link, desktop, history>>
    /\ Failed("other")

\* Owner discovery fails or finds another owner: the stream is dropped.
RecheckBreaks ==
    /\ pc = "recheck"
    /\ conn' = FALSE
    /\ replica' \in {replica, NoReplica}
    /\ asked' = {}
    /\ UNCHANGED <<ledger, pending, waitTurn, session, chan, owner, desktop,
                   runs, started, vouched>>
    /\ \E e \in Errors : (~conn => e = "lost") /\ Failed(e)

\* The owner answers; prepare judges the replica with every event that came in
\* between, and the request is written without another await in between.
RecheckSends ==
    /\ pc = "recheck"
    /\ conn /\ nativeOwner = owner
    /\ replica' \in {replica, native}
    /\ UNCHANGED <<ledger, pending, waitTurn, session, chan, conn, owner, native,
                   nativeOwner, history>>
    /\ LET e == PrepareError(cmd, replica')
       IN  IF e # "none"
           THEN UNCHANGED <<wire, reply>> /\ Failed(e)
           ELSE /\ wire' = wire \cup {Submission}
                /\ reply' = NoReply
                /\ pc' = "wait"
                /\ UNCHANGED <<cmd, err>>

\* State events are applied while the answer is outstanding.
EventWhileWaiting ==
    /\ pc = "wait"
    /\ conn /\ replica' = native
    /\ UNCHANGED <<ledger, task, pending, waitTurn, session, chan, conn, owner, desktop,
                   history>>

Answered ==
    /\ pc = "wait"
    /\ conn /\ reply # NoReply
    /\ reply' = NoReply
    /\ UNCHANGED <<ledger, pending, waitTurn, session, chan, link, native, nativeOwner,
                   wire, history>>
    /\ CASE reply.is = "ok" ->
              IF cmd.op = "stop" THEN EndRequest("none")
              ELSE /\ pc' = "settle"
                   /\ cmd' = [cmd EXCEPT !.turn = reply.turn]
                   /\ err' = IF cmd.op = "steer" /\ reply.turn # cmd.turn
                             THEN "lost" ELSE "none"
         [] reply.is = "rejected" ->
              \* an error of the handler does not show that nothing was run
              Failed(IF cmd.op = "stop" THEN "other" ELSE "lost")
         [] reply.is = "no_client" -> Failed("owner")
         [] reply.is = "unsupported" -> Failed("other")

\* Timeout, disconnection, a bad frame, an event out of sync.
AnswerLost ==
    /\ pc = "wait"
    /\ conn' = FALSE
    /\ replica' \in {replica, NoReplica}
    /\ asked' = {}
    /\ reply' = NoReply
    /\ UNCHANGED <<ledger, pending, waitTurn, session, chan, owner, native, nativeOwner,
                   wire, runs, started, vouched>>
    /\ \E e \in Errors : (cmd.op # "stop" => e = "lost") /\ Failed(e)

\* A state event of a version this build does not know ends the exchange with
\* UnsupportedProtocol, which is returned as it is and keeps the stream.
UnreadableEvent ==
    /\ "event" \in Env
    /\ pc = "wait" /\ conn
    /\ replica' \in {replica, NoReplica}
    /\ reply' = NoReply
    /\ UNCHANGED <<ledger, pending, waitTurn, session, chan, conn, owner, native,
                   nativeOwner, wire, history>>
    /\ Failed("other")

\* dispatch_queued only publishes its error; a request returns it.
Submitted(e) ==
    IF cmd.auto THEN pc' = "loop" /\ err' = "none" /\ cmd' = Idling
                ELSE EndRequest(e)

\* submit, after execute: the outcome is written to the ledger.
Settle ==
    /\ pc = "settle"
    /\ waitTurn' = IF err = "none" THEN cmd.turn ELSE waitTurn
    /\ UNCHANGED <<session, chan, link, desktop, history>>
    /\ \/ /\ CASE err = "none" -> Accepted(Own, {cmd.id})
               [] err = "lost" -> OutcomeUnknown(Own, cmd.id)
               [] OTHER -> NotSent(Own, cmd.id)
          /\ Refresh
          /\ Submitted(IF pending' = Listing' THEN err ELSE "other")
       \/ StorageFails /\ Submitted("other")

(***************************************************************************)
(* After a request or an event: reconcile, then dispatch_queued            *)
(***************************************************************************)
\* Mutant: an idle desktop is taken for a confirmation.
ConfirmableWhenIdle ==
    {m \in Ids : pending[m] \in InDoubt /\ Idle(replica)}

\* Only the exact client message id in the native state clears up a doubt.
Confirmable ==
    {m \in Ids : pending[m] \in InDoubt /\ replica # NoReplica /\ replica.has[m] # NoTurn}

Reconcile ==
    /\ pc \in {"boot", "reconcile"}
    /\ pc' = IF pc = "boot" THEN "loop" ELSE "dispatch"
    /\ \/ Confirmable = {} /\ UNCHANGED <<ledger, pending>>
       \/ Confirmable # {} /\ Accepted(Own, Confirmable) /\ Refresh
       \/ StorageFails
    /\ UNCHANGED <<cmd, err, waitTurn, session, chan, link, desktop, history>>

\* Mutants: the turn of the last start is not waited for, or waited for forever.
DispatchUnawaited ==
    /\ Confirmed
    /\ Idle(replica)
DispatchAwaitsForever ==
    /\ Confirmed
    /\ Idle(replica)
    /\ waitTurn = NoTurn

MayDispatch ==
    /\ Confirmed
    /\ Idle(replica)
    /\ waitTurn # NoTurn => waitTurn \in replica.done

\* Mutant: whatever comes first is started.
HeadOfAnyKind(m) ==
    /\ IsFirst(m, {i \in Ids : pending[i] # "absent"})
    /\ pending[m] = "queued"

\* pending.first(), if it is a queued follow-up that can be claimed.
HeadOfQueue(m) ==
    /\ IsFirst(m, {i \in Ids : pending[i] # "absent"})
    /\ pending[m] = "queued"
    /\ kind[m] = "queue"

Dispatch ==
    /\ pc = "dispatch"
    /\ MayDispatch
    /\ waitTurn' = NoTurn
    /\ \E m \in Ids :
        /\ HeadOfQueue(m)
        /\ Claim(Own, m)
        /\ Refresh
        /\ IF pending' = Listing'
           THEN pc' = "recheck" /\ cmd' = [op |-> "start", id |-> m, turn |-> NoTurn, auto |-> TRUE]
           ELSE pc' = "loop" /\ UNCHANGED cmd
    /\ UNCHANGED <<err, session, chan, link, desktop, history>>

NothingToDispatch ==
    /\ pc = "dispatch"
    /\ pc' = "loop"
    /\ waitTurn' = IF MayDispatch THEN NoTurn ELSE waitTurn
    /\ \/ "storage" \in Env
       \/ ~MayDispatch
       \/ ~\E m \in Ids : HeadOfQueue(m) /\ CanClaim(Own, m)
    /\ UNCHANGED <<ledger, cmd, err, pending, session, chan, link, desktop, history>>

(***************************************************************************)
(* Events and recovery                                                     *)
(***************************************************************************)
Event ==
    /\ pc = "loop" /\ conn
    /\ replica' = native
    /\ attempts' = 0
    /\ pc' = "reconcile"
    /\ UNCHANGED <<ledger, cmd, err, pending, waitTurn, phase, confirmed, resyncUsed, chan,
                   conn, owner, desktop, history>>

\* next_change fails: the stream is gone, or an event cannot be applied.
EventLost ==
    /\ pc = "loop"
    /\ conn' = FALSE
    /\ replica' \in {replica, NoReplica}
    /\ err' \in (IF conn THEN Errors ELSE {"lost"})
    /\ asked' = {}
    /\ pc' = "recover"
    /\ UNCHANGED <<ledger, cmd, pending, waitTurn, session, chan, owner, desktop,
                   runs, started, vouched>>

\* The worker ends; its pending requests are answered with an error.
Ends ==
    /\ pc' = "none"
    /\ cmd' = Idling /\ err' = "none"
    /\ phase' = "disconnected"
    /\ chan' = <<>>
    /\ conn' = FALSE /\ replica' = NoReplica
    /\ waitTurn' = NoTurn
    /\ resyncUsed' = FALSE /\ attempts' = 0
    /\ UNCHANGED <<confirmed, owner, desktop, history>>

Resyncs == err = "sync" /\ ~resyncUsed
Reconnects == err \in {"lost", "owner"}

\* recover, up to its retry loop: hold the queue, then rotate session_id.
StartRecovery ==
    /\ pc = "recover"
    /\ Resyncs \/ Reconnects
    /\ Hold(Own)
    /\ pending' = Listing'
    /\ phase' = IF Resyncs THEN "resyncing" ELSE "reconnecting"
    /\ resyncUsed' = (resyncUsed \/ Resyncs)
    /\ chan' = [i \in DOMAIN chan |-> [chan[i] EXCEPT !.live = FALSE]]
    /\ vouched' = {confirmed}
    /\ pc' = "reconnect"
    /\ UNCHANGED <<cmd, err, waitTurn, confirmed, attempts, link, desktop,
                   runs, started, asked>>

GiveUpRecovery ==
    /\ pc = "recover"
    /\ \/ ~(Resyncs \/ Reconnects) /\ Hold(Own) /\ pending' = Listing'
       \/ StorageFails
       \/ "storage" \in Env /\ Hold(Own) /\ pending' = pending
    /\ Ends

\* Requests are answered ReadOnly while an attempt is under way.
RefuseWhileReconnecting ==
    /\ pc = "reconnect"
    /\ chan # <<>>
    /\ chan' = Tail(chan)
    /\ UNCHANGED <<ledger, task, pending, waitTurn, session, link, desktop, history>>

\* Mutant: attempts are counted but not limited.
AttemptUnlimited ==
    /\ pc = "reconnect"
    /\ IF phase = "resyncing" THEN UNCHANGED attempts ELSE attempts' = attempts + 1

\* Resynchronising takes one attempt, reconnecting takes the attempts left.
Attempt ==
    /\ pc = "reconnect"
    /\ IF phase = "resyncing" THEN UNCHANGED attempts
       ELSE attempts < MaxAttempts /\ attempts' = attempts + 1

AttemptSucceeds ==
    /\ Attempt
    /\ conn' = TRUE /\ owner' = nativeOwner /\ replica' = native
    /\ phase' = IF nativeOwner = confirmed THEN "connected"
                ELSE "owner_confirmation_required"
    /\ pc' = "reconcile" /\ err' = "none"
    /\ UNCHANGED <<ledger, cmd, pending, waitTurn, confirmed, resyncUsed, chan, desktop,
                   history>>

AttemptFails ==
    /\ Attempt
    /\ phase # "resyncing"
    /\ UNCHANGED <<ledger, task, pending, waitTurn, phase, confirmed, resyncUsed, chan, link,
                   desktop, history>>

\* A failed resynchronisation, a refusal or the last attempt ends the worker.
RecoveryFails ==
    /\ pc = "reconnect"
    /\ UNCHANGED <<ledger, pending>>
    /\ Ends

(***************************************************************************)
(* The App                                                                 *)
(***************************************************************************)
\* BridgeRuntime::attach: the user connects and a new worker starts.
Attach ==
    /\ pc = "none"
    /\ conn' = TRUE /\ owner' = nativeOwner /\ replica' = native
    /\ confirmed' = nativeOwner /\ vouched' = {nativeOwner}
    /\ phase' = "connected"
    /\ pending' = Listing
    /\ pc' = "boot"
    /\ UNCHANGED <<ledger, cmd, err, waitTurn, resyncUsed, attempts, chan, desktop,
                   runs, started, asked>>

Crash ==
    /\ pc # "down"
    /\ pc' = "down"
    /\ cmd' = Idling /\ err' = "none"
    /\ pending' = [m \in Ids |-> "absent"]
    /\ waitTurn' = NoTurn
    /\ phase' = "disconnected" /\ confirmed' = NoOwner
    /\ resyncUsed' = FALSE /\ attempts' = 0
    /\ chan' = <<>>
    /\ conn' = FALSE /\ owner' = NoOwner /\ replica' = NoReplica
    /\ reply' = NoReply
    /\ asked' = {} /\ vouched' = {}
    /\ UNCHANGED <<ledger, native, nativeOwner, wire, runs, started>>

\* CodexDesktopBridge::runtime recovers the ledger before any worker starts.
Restart ==
    /\ pc = "down"
    /\ Recover
    /\ pc' = "none"
    /\ UNCHANGED <<cmd, err, pending, waitTurn, session, chan, link, desktop, history>>

(***************************************************************************)
(* The native desktop (external).  A request is run at most once, possibly *)
(* long after the worker stopped waiting for it, or is dropped.            *)
(***************************************************************************)
Awaited(w) == pc = "wait" /\ w = Submission /\ reply = NoReply

Answer(w, is, t) ==
    reply' = IF Awaited(w) THEN [is |-> is, turn |-> t] ELSE reply

\* The message becomes part of turn t.
Give(m, t) ==
    /\ runs' = [runs EXCEPT ![m] = IF @ = 0 THEN 1 ELSE 2]
    /\ native' = [native EXCEPT !.turn = t, !.has = [@ EXCEPT ![m] = t]]

RunStart(w) ==
    /\ w.op = "start"
    /\ LET t == IF native.turn = NoTurn THEN w.id ELSE native.turn
       IN  Give(w.id, t) /\ (Answer(w, "ok", t) \/ Answer(w, "rejected", NoTurn))
    /\ started' = started \cup {w.id}

\* The wire format of a steer does not name the turn the user meant.
RunSteer(w) ==
    /\ w.op = "steer"
    /\ native.turn # NoTurn
    /\ Give(w.id, native.turn)
    /\ Answer(w, "ok", native.turn) \/ Answer(w, "rejected", NoTurn)
    /\ UNCHANGED started

RunStop(w) ==
    /\ w.op = "stop"
    /\ native.turn # NoTurn /\ native.turn = w.turn
    /\ native' = [native EXCEPT !.turn = NoTurn, !.done = @ \cup {w.turn}]
    /\ Answer(w, "ok", NoTurn)
    /\ UNCHANGED <<runs, started>>

Run(w) ==
    /\ w \in wire
    /\ w.to = nativeOwner
    /\ wire' = wire \ {w}
    /\ RunStart(w) \/ RunSteer(w) \/ RunStop(w)
    /\ UNCHANGED <<ledger, task, pending, waitTurn, session, chan, link, nativeOwner,
                   asked, vouched>>

\* Refused without being run, or lost with the connection.
Refuse(w) ==
    /\ w \in wire
    /\ wire' = wire \ {w}
    /\ \/ \E is \in {"rejected", "no_client", "unsupported"} : Answer(w, is, NoTurn)
       \/ UNCHANGED reply
    /\ UNCHANGED <<ledger, task, pending, waitTurn, session, chan, link, native, nativeOwner,
                   history>>

Finish ==
    /\ native.turn # NoTurn
    /\ native' = [native EXCEPT !.turn = NoTurn, !.done = @ \cup {native.turn}]

ForeignStart ==
    /\ native.turn = NoTurn
    /\ \E f \in Foreign \ native.done : native' = [native EXCEPT !.turn = f]

ForeignQueue ==
    /\ "followups" \in Env
    /\ native' = [native EXCEPT !.queued = ~@]

NativeTurns ==
    /\ Finish \/ ForeignStart \/ ForeignQueue
    /\ UNCHANGED <<ledger, task, pending, waitTurn, session, chan, link, nativeOwner, wire,
                   reply, history>>

OwnerChanges ==
    /\ "owner" \in Env
    /\ nativeOwner' \in Owners \ {nativeOwner}
    /\ UNCHANGED <<ledger, task, pending, waitTurn, session, chan, link, native, wire, reply,
                   history>>

(***************************************************************************)
(* Specification                                                           *)
(***************************************************************************)
Handle ==
    \/ RefuseRequest \/ FruitlessRequest
    \/ TakeSend \/ TakeSteer \/ TakeStop \/ TakeCancel \/ TakeDismiss \/ TakeResume
    \/ TakeConfirm \/ ConfirmFails

Proceed ==
    \/ ClaimSteer
    \/ RecheckRefused \/ RecheckBreaks \/ RecheckSends
    \/ Answered \/ AnswerLost \/ UnreadableEvent
    \/ Settle \/ Reconcile \/ Dispatch \/ NothingToDispatch
    \/ StartRecovery \/ GiveUpRecovery
    \/ AttemptSucceeds \/ AttemptFails \/ RecoveryFails

Worker ==
    \/ Handle \/ Proceed
    \/ EventWhileWaiting \/ Event \/ EventLost \/ RefuseWhileReconnecting

Desktop ==
    \/ \E w \in wire : Run(w) \/ Refuse(w)
    \/ NativeTurns \/ OwnerChanges

Next == UserRequest \/ Worker \/ Attach \/ Crash \/ Restart \/ Desktop

Spec == Init /\ [][Next]_vars

\* The runtime resumes a suspended handler (every native wait has a timeout),
\* select! picks its ready branches at random, so neither a stream of requests
\* nor one of events starves the other, and turns end.
Fairness ==
    /\ WF_vars(Proceed)
    /\ SF_vars(Handle)
    /\ SF_vars(replica # native /\ Event)
    /\ WF_vars(EventLost /\ ~conn)
    /\ WF_vars(Finish /\ NativeTurns)

FairSpec == Spec /\ Fairness

(***************************************************************************)
(* Properties                                                              *)
(***************************************************************************)
OnWire(m) == \E w \in wire : w.id = m
Remembered == Ids \ forgotten

\* What the ledger calls waiting or cancelled has never been given to the
\* model and is not on its way there: only then may it be resent or be called
\* removed.  (not_sent: "Only a definite pre-send rejection may put the message
\* back on hold".)
UnsentIsUnsent ==
    \A m \in Remembered :
        status[m] \in Waiting \cup {"cancelled"} => runs[m] = 0 /\ ~OnWire(m)

\* No message is given to the model twice, over lost answers, reconnections,
\* restarts, retries of the same identity and dismissals.
AtMostOnce == \A m \in Remembered : runs[m] <= 1

\* What the ledger calls accepted, deleting its text, the model has received.
AcceptedWasRun == \A m \in Remembered : status[m] = "accepted" => runs[m] >= 1

\* The stage of a message whose row has status a, and of each message; the
\* messages given to the model.  What happens to a deleted identity is nobody's
\* promise.
StageOf(a) ==
    CASE a = "absent" -> "none"
      [] a \in Waiting -> "pending"
      [] a \in InDoubt -> "inflight"
      [] a = "accepted" -> "delivered"
      [] a = "cancelled" -> "removed"
      [] a = "dismissed" -> "abandoned"

MessageStage == [m \in Ids |-> IF m \in forgotten THEN "forgotten" ELSE StageOf(status[m])]
Given == [m \in Ids |-> m \notin forgotten /\ runs[m] > 0]

\* Together, and with the order of the steps: the worker implements the abstract
\* outbox.
Outbox == INSTANCE MessageOutbox WITH stage <- MessageStage, ran <- Given

ImplementsOutbox == Outbox!Spec

\* A message sent to steer a turn never becomes a turn of its own.
SteerIsNeverStarted ==
    \A m \in Remembered : kind[m] = "steer" => m \notin started

\* A follow-up is written to the desktop only after every turn the desktop has
\* accepted from the ledger has ended, although the replica may lag behind.
NoStartDuringOwnTurn ==
    [][\A m, k \in Ids :
        /\ \E w \in wire' \ wire : w.op = "start" /\ w.id = m
        /\ status[k] = "accepted" /\ k \in started
        => native.turn # native.has[k]]_vars

\* Nothing is written to an owner the user has not connected to or confirmed.
OnlyToVouchedOwner ==
    [][\A w \in wire' \ wire : w.to \in vouched]_vars

\* After a lost connection or a restart no queued message is claimed before the
\* user has sent or resumed it anew.
PausedUntilAsked ==
    [][\A m \in Ids :
        status[m] = "queued" /\ status'[m] = "dispatching" => m \in asked]_vars

\* A submission does not stay in dispatching while the App runs: it is settled
\* as accepted, unknown or held, or recovered at the next start.
SubmissionSettles ==
    \A m \in Ids :
        status[m] = "dispatching" ~> status[m] # "dispatching" \/ pc = "down"

\* Nothing is left to wait for, and the worker waits: the event that ended the
\* awaited turn was consumed while the answer to the turn's own start was read,
\* and dispatch_queued does not run again after its own submission.
MissedWakeUp ==
    pc = "loop" /\ chan = <<>> /\ replica = native /\ MayDispatch

\* The oldest open message of the thread, if it is a queued follow-up, leaves
\* the queue as long as the worker lives; or the worker has missed the event
\* that should have woken it, and waits for the next, which may never come.
OnlyMissedWakeUp ==
    \A m \in Ids :
        status[m] = "queued" /\ kind[m] = "queue" /\ IsFirst(m, Rows(Own, Open))
            ~> status[m] # "queued" \/ ~Alive \/ MissedWakeUp
=============================================================================
