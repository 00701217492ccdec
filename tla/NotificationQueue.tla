-------------------------- MODULE NotificationQueue --------------------------
(***************************************************************************)
(* The durable queue of Bark notifications: the rows of                    *)
(* probe_notification_deliveries (core db/notification_channels.rs) and    *)
(* the tasks that work on them (webd notification_delivery.rs).            *)
(*                                                                         *)
(* Two kinds of task run side by side, in one process or in several:       *)
(*                                                                         *)
(*   monitor   Begin -> sync -> due -> process every due row -> idle       *)
(*   entrance  Enter -> sync -> stage one event -> process it -> idle      *)
(*                                                                         *)
(* and both process a row by the same loop:                                *)
(*                                                                         *)
(*   load1 -> sync1 -> claim -> source -> load2 -> sync2 -> decide         *)
(*         -> [post] -> finish -> (next chunk | next row)                  *)
(*                                                                         *)
(* Every arrow is a point where another task, the user or the clock may    *)
(* act; every database call is one transaction and one action.  Instants   *)
(* are kept as the time left to them, and Tick lets one unit of time pass: *)
(* lease_until_ms > now is lease > 0, next_ms <= now is next = 0, and      *)
(* first_attempt_ms + LIFETIME > now is life > 0.                          *)
(***************************************************************************)
EXTENDS Integers, FiniteSets

CONSTANTS
    Keys,           \* notification events
    Monitors,       \* background rounds (retry_pending_with_config)
    Entrances,      \* first deliveries: hooks, provider scans, CI runs
    Live,           \* monitors whose ConfigLoader reads the file each time
    Nobody,         \* lease_owner IS NULL
    NoKey,          \* a task without a row
    Chunks,         \* segments of each event's message
    Batch,          \* rows a round takes (10)
    MaxTries,       \* requests for a chunk (3)
    Lease,          \* LEASE_MS
    Lifetime,       \* NOTIFICATION_LIFETIME_MS
    FirstDelays,    \* notification_retry_delay_ms(1), with its jitter
    LaterDelays,    \* notification_retry_delay_ms(2..)
    RetryAfters,    \* what a Retry-After header may ask for; 0: no header
    SwitchUsed,     \* bound: the user turns the notifications on and off
    TlsCuts         \* a TLS connection may be cut while the answer is awaited

Senders == Monitors \cup Entrances

ASSUME QueueAssumption ==
    /\ Monitors \cap Entrances = {} /\ Live \subseteq Monitors
    /\ Nobody \notin Senders /\ NoKey \notin Keys /\ IsFiniteSet(Keys)
    /\ Chunks \in [Keys -> Nat \ {0}]
    /\ Batch \in Nat \ {0} /\ MaxTries \in Nat \ {0}
    /\ Lease \in Nat \ {0} /\ Lifetime \in Nat \ {0}
    /\ FirstDelays \subseteq Nat \ {0} /\ FirstDelays # {}
    /\ LaterDelays \subseteq Nat \ {0} /\ LaterDelays # {}
    /\ RetryAfters \subseteq Nat /\ 0 \in RetryAfters
    /\ SwitchUsed \in BOOLEAN /\ TlsCuts \in BOOLEAN

VARIABLES
    config,     \* the configuration file: notifications enabled
    channel,    \* probe_notification_channels: "none" before the first sync
    happened,   \* events that have occurred
    old,        \* those with event_ms < activated_ms
    row,        \* probe_notification_deliveries
    created,    \* created_ms of the rows, as their rank; 0: not staged
    task,       \* the senders
    accepted,   \* history: the chunks Bark has accepted
    requests    \* history: requests made for the chunk at hand

vars == <<config, channel, happened, old, row, created, task, accepted, requests>>
bark == <<accepted, requests>>
table == <<channel, old, row, created>>

Settled == {"sent", "failed", "unknown", "skipped"}
Open == {"pending", "delivering"}

Rows == [status : Open \cup Settled \cup {"absent"},
         confirmed : Nat,                   \* chunk_index
         tries : 0..MaxTries,               \* chunk_attempts
         doubt : BOOLEAN,                   \* chunk_uncertain
         owner : Senders \cup {Nobody},     \* lease_owner
         lease : 0..Lease, next : Nat,
         begun : BOOLEAN,                   \* first_attempt_ms IS NOT NULL
         life : 0..Lifetime]
NoRow == [status |-> "absent", confirmed |-> 0, tries |-> 0, doubt |-> FALSE,
          owner |-> Nobody, lease |-> 0, next |-> 0, begun |-> FALSE, life |-> 0]

\* `out' is what the source check, and then the request, came to:
\*   current, obsolete, unready            the source
\*   accepted                              an acknowledged chunk
\*   skipped, wait, rejected, busy, lost, cut   see Finish
Tasks == [pc : {"idle", "sync", "due", "stage", "load1", "sync1", "claim", "source",
                "load2", "sync2", "decide", "post", "finish"},
          on : BOOLEAN,             \* the switch in the configuration it holds
          job : Keys \cup {NoKey},   \* the row it works on
          rest : SUBSET Keys,       \* the rows it was given, still to do
          out : {"", "current", "obsolete", "unready", "skipped", "wait",
                 "accepted", "rejected", "busy", "lost", "cut"},
          chunk : Nat,              \* chunk_index of its lease
          left : 0..Lease,          \* before the request times out
          offSince : BOOLEAN]     \* history: the switch is off since `source'
Idle == [pc |-> "idle", on |-> FALSE, job |-> NoKey, rest |-> {}, out |-> "", chunk |-> 0,
         left |-> 0, offSince |-> FALSE]

Job(s) == task[s].job

TypeOK ==
    /\ config \in BOOLEAN
    /\ channel \in {"none", "on", "off"}
    /\ old \subseteq happened /\ happened \subseteq Keys
    /\ row \in [Keys -> Rows]
    /\ created \in [Keys -> Nat]
    /\ task \in [Senders -> Tasks]
    /\ accepted \in [Keys -> SUBSET Nat]
    /\ requests \in [Keys -> Nat]

Init ==
    /\ config \in (IF SwitchUsed THEN BOOLEAN ELSE {TRUE})
    /\ channel = "none"
    /\ happened = {} /\ old = {}
    /\ row = [k \in Keys |-> NoRow]
    /\ created = [k \in Keys |-> 0]
    /\ task = [s \in Senders |-> Idle]
    /\ accepted = [k \in Keys |-> {}]
    /\ requests = [k \in Keys |-> 0]

-----------------------------------------------------------------------------
(* Statements of the queue (notification_channels.rs).                     *)

\* A row that is finished with: its encrypted payload is cleared, so its
\* instants are never read again.
Settle(r, status) ==
    [r EXCEPT !.status = status, !.owner = Nobody, !.lease = 0, !.next = 0, !.life = 0]

\* Back in the queue, to be claimed after `delay'.
Requeue(r, delay) ==
    [r EXCEPT !.status = "pending", !.owner = Nobody, !.lease = 0, !.next = delay]

\* Out of attempts or of time: failed only when no attempt is in doubt.
GiveUp(r) == Settle(r, IF r.doubt THEN "unknown" ELSE "failed")

\* notification_retry_delay_ms
Delays(tries) == IF tries <= 1 THEN FirstDelays ELSE LaterDelays

\* Whether another attempt, `delay' from now, is within the budget.
CanRetry(r, delay) == r.tries < MaxTries /\ delay < r.life

\* sync_notification_channels: a channel that is switched on again starts
\* from now, one that is off skips everything queued.
SyncChannels(on) ==
    /\ channel' = IF on THEN "on" ELSE "off"
    /\ old' = IF on /\ channel = "off" THEN happened ELSE old
    /\ row' = [k \in Keys |->
                  IF ~on /\ row[k].status \in Open THEN Settle(row[k], "skipped")
                                                   ELSE row[k]]
    /\ UNCHANGED created

\* An expired attempt may already have reached Bark.
Recover(r, delay) ==
    LET doubtful == [r EXCEPT !.doubt = TRUE]
    IN IF CanRetry(r, delay) THEN Requeue(doubtful, delay) ELSE GiveUp(doubtful)

\* Mutant: nobody takes an expired lease back.
DueWithoutRecovery(r, delay) ==
    IF r.status = "pending" /\ r.begun /\ r.life = 0 THEN GiveUp(r) ELSE r

\* due_notification_deliveries, its two updates
DueUpdate(r, delay) ==
    CASE r.status = "delivering" /\ r.lease = 0 -> Recover(r, delay)
      [] r.status = "pending" /\ r.begun /\ r.life = 0 -> GiveUp(r)
      [] OTHER -> r

IsDue(r) == r.status = "pending" /\ r.next = 0 /\ r.tries < MaxTries

\* due_notification_deliveries, the rows it returns: the oldest that are due
DueKeys(rows) ==
    LET due == {k \in Keys : IsDue(rows[k])}
    IN {k \in due : Cardinality({j \in due : created[j] < created[k]}) < Batch}

Claimable(r) == IsDue(r) /\ (r.begun => r.life > 0)

\* claim_notification_delivery
Claimed(r, s) ==
    [r EXCEPT !.status = "delivering", !.tries = @ + 1, !.begun = TRUE,
              !.life = IF r.begun THEN @ ELSE Lifetime, !.owner = s, !.lease = Lease]

\* The fence of finish_notification_delivery.
HoldsLease(s, k) ==
    row[k].status = "delivering" /\ row[k].owner = s /\ row[k].lease > 0

\* Mutant: the request may take as long as the message has, past its lease.
RemainingOfLifetime(k) == row[k].life

\* notification_delivery_lease_remaining_ms
Remaining(k) == IF row[k].lease < row[k].life THEN row[k].lease ELSE row[k].life
MaySend(s, k) == HoldsLease(s, k) /\ row[k].life > 0 /\ channel = "on"

\* Mutant: the last chunk is left out.
ConfirmOneShort(r, chunk, chunks) ==
    LET next == [r EXCEPT !.confirmed = chunk + 1, !.tries = 0, !.doubt = FALSE]
    IN IF next.confirmed + 1 >= chunks THEN Settle(next, "sent")
       ELSE IF r.life > 0 THEN Requeue(next, 0) ELSE Settle(next, "failed")

\* finish_notification_delivery after a request for the chunk was accepted.
Confirm(r, chunk, chunks) ==
    LET next == [r EXCEPT !.confirmed = chunk + 1, !.tries = 0, !.doubt = FALSE]
    IN IF next.confirmed = chunks THEN Settle(next, "sent")
       ELSE IF r.life > 0 THEN Requeue(next, 0) ELSE Settle(next, "failed")

\* Mutant: only the last attempt decides between failed and unknown.
RefuseForgetful(r, out, delay) ==
    LET seen == [r EXCEPT !.doubt = out = "lost"]
    IN IF out = "skipped" THEN Settle(seen, "skipped")
       ELSE IF out # "rejected" /\ CanRetry(r, delay) THEN Requeue(seen, delay)
       ELSE GiveUp(seen)

\* finish_notification_delivery after any other outcome.
Refuse(r, out, delay) ==
    LET seen == [r EXCEPT !.doubt = @ \/ out = "lost"]
    IN IF out = "skipped" THEN Settle(seen, "skipped")
       ELSE IF out # "rejected" /\ CanRetry(r, delay) THEN Requeue(seen, delay)
       ELSE GiveUp(seen)

-----------------------------------------------------------------------------
(* The steps of a task (notification_delivery.rs).                         *)

At(s, pc) == task[s].pc = pc

Become(s, t) == task' = [task EXCEPT ![s] = t]
Goto(s, pc) == Become(s, [task[s] EXCEPT !.pc = pc])
Outcome(s, out) == Become(s, [task[s] EXCEPT !.pc = "finish", !.out = out, !.left = 0])

\* process is called for row k, with further rows to do after it.
Processing(on, k, rest) ==
    [Idle EXCEPT !.pc = "load1", !.on = on, !.job = k, !.rest = rest]

\* On to the oldest of the rows a round was given, or the round is over.
TakeOldest(s, given) ==
    \/ given = {} /\ Become(s, Idle)
    \/ \E k \in given :
           /\ \A j \in given : created[k] <= created[j]
           /\ Become(s, Processing(task[s].on, k, given \ {k}))

\* process returns.
NextJob(s) == TakeOldest(s, task[s].rest)

\* retry_pending_with_config: a round loads the configuration ...
Begin(s) ==
    /\ s \in Monitors /\ At(s, "idle")
    /\ Become(s, [Idle EXCEPT !.pc = "sync", !.on = config])
    /\ UNCHANGED <<config, table, happened, bark>>

\* ... synchronises the channel ...
Sync(s) ==
    /\ At(s, "sync")
    /\ SyncChannels(task[s].on)
    /\ Goto(s, IF s \in Monitors THEN "due" ELSE "stage")
    /\ UNCHANGED <<config, happened, bark>>

\* ... and takes the rows that are due.
Due(s) ==
    /\ At(s, "due")
    /\ \E delay \in [Keys -> FirstDelays \cup LaterDelays] :
           /\ \A k \in Keys : delay[k] \in Delays(row[k].tries)
           /\ row' = [k \in Keys |-> DueUpdate(row[k], delay[k])]
    /\ TakeOldest(s, DueKeys(row'))
    /\ UNCHANGED <<config, channel, old, created, happened, bark>>

\* claude_hook, codex, native, github_ci: an entrance comes with an event
\* and the configuration its caller loaded.
Enter(s, k) ==
    /\ s \in Entrances /\ At(s, "idle")
    /\ k \in happened
    /\ Become(s, [Idle EXCEPT !.pc = "sync", !.on = config, !.job = k])
    /\ UNCHANGED <<config, table, happened, bark>>

\* deliver and stage_notification_delivery: a row that exists is left alone.
Stage(s) ==
    /\ At(s, "stage")
    /\ LET k == Job(s)
           eligible == task[s].on /\ channel = "on" /\ k \notin old
       IN IF eligible /\ row[k].status = "absent"
          THEN /\ row' = [row EXCEPT ![k].status = "pending"]
               /\ created' = [created EXCEPT ![k] =
                                1 + Cardinality({j \in Keys : created[j] > 0})]
               /\ Goto(s, "load1")
          ELSE Become(s, Idle) /\ UNCHANGED <<row, created>>
    /\ UNCHANGED <<config, channel, old, happened, bark>>

\* Mutant: the configuration is read once, before the claim.
LoadOnce(s) ==
    /\ \E from \in {"load1", "load2"} :
           /\ At(s, from)
           /\ Become(s, [task[s] EXCEPT !.pc = IF from = "load1" THEN "sync1" ELSE "sync2",
                            !.on = IF s \in Live /\ from = "load1" THEN config ELSE @])
    /\ UNCHANGED <<config, table, happened, bark>>

\* latest_config(load_config), before the claim and after the source check.
Load(s) ==
    /\ \E from \in {"load1", "load2"} :
           /\ At(s, from)
           /\ Become(s, [task[s] EXCEPT !.pc = IF from = "load1" THEN "sync1" ELSE "sync2",
                                        !.on = IF s \in Live THEN config ELSE @])
    /\ UNCHANGED <<config, table, happened, bark>>

\* sync_notification_channels with what Load returned.
Resync(s) ==
    /\ \E from \in {"sync1", "sync2"} :
           /\ At(s, from)
           /\ Goto(s, IF from = "sync1" THEN "claim" ELSE "decide")
    /\ SyncChannels(task[s].on)
    /\ UNCHANGED <<config, happened, bark>>

Claim(s) ==
    /\ At(s, "claim")
    /\ LET k == Job(s)
       IN IF Claimable(row[k])
          THEN /\ row' = [row EXCEPT ![k] = Claimed(@, s)]
               /\ Become(s, [task[s] EXCEPT !.pc = "source", !.chunk = row[k].confirmed])
          ELSE NextJob(s) /\ UNCHANGED row
    /\ UNCHANGED <<config, channel, old, created, happened, bark>>

\* claude_source_state, local_native_source_state, current: whether the event
\* still stands in the provider's records, its target and its own switch.
Source(s) ==
    /\ At(s, "source")
    /\ \E found \in {"current", "obsolete", "unready"} :
           Become(s, [task[s] EXCEPT !.pc = "load2", !.out = found, !.offSince = ~config])
    /\ UNCHANGED <<config, table, happened, bark>>

\* The branch of process that chooses what to do with the claimed chunk.
Decide(s) ==
    /\ At(s, "decide")
    /\ \/ /\ ~task[s].on \/ task[s].out = "obsolete"
          /\ Outcome(s, "skipped")
          /\ UNCHANGED requests
       \/ /\ task[s].on /\ task[s].out = "unready"
          /\ Outcome(s, "wait")
          /\ UNCHANGED requests
       \/ /\ task[s].on /\ task[s].out = "current" /\ ~MaySend(s, Job(s))
          /\ NextJob(s)
          /\ UNCHANGED requests
       \/ /\ task[s].on /\ task[s].out = "current" /\ MaySend(s, Job(s))
          /\ Become(s, [task[s] EXCEPT !.pc = "post", !.left = Remaining(Job(s))])
          /\ requests' = [requests EXCEPT ![Job(s)] = @ + 1]
    /\ UNCHANGED <<config, table, happened, accepted>>

\* Bark acts on the request for the chunk at hand.
Deliver(s) ==
    accepted' = [accepted EXCEPT ![Job(s)] = @ \cup {task[s].chunk}]

\* send and classify: what the transport makes of the request.
\*   accepted  status 2xx and code 200
\*   rejected  a permanent refusal, or an unusable configuration
\*   busy      a temporary refusal, or no connection: certainly not delivered
\*   lost      a time-out, a broken or unreadable answer: delivered or not
\*   cut       the same, but the error chain names TLS: taken for a failed
\*             handshake
Answer(s) ==
    /\ At(s, "post")
    /\ \/ Outcome(s, "accepted") /\ Deliver(s)
       \/ Outcome(s, "rejected") /\ UNCHANGED accepted
       \/ Outcome(s, "busy") /\ UNCHANGED accepted
       \/ Outcome(s, "lost") /\ Deliver(s)
       \/ Outcome(s, "lost") /\ UNCHANGED accepted
       \/ TlsCuts /\ Outcome(s, "cut") /\ Deliver(s)
    /\ UNCHANGED <<config, table, happened, requests>>

\* finish_notification_delivery.  An accepted chunk with another to follow is
\* continued unless the caller's own time is up.
Finish(s) ==
    /\ At(s, "finish")
    /\ LET k == Job(s)
           out == task[s].out
       IN \/ /\ ~HoldsLease(s, k)
             /\ NextJob(s)
             /\ UNCHANGED <<row, requests>>
          \/ /\ HoldsLease(s, k) /\ out = "accepted"
             /\ row' = [row EXCEPT ![k] = Confirm(@, task[s].chunk, Chunks[k])]
             /\ requests' = [requests EXCEPT ![k] = 0]
             /\ \/ NextJob(s)
                \/ row'[k].status = "pending"
                   /\ Become(s, Processing(task[s].on, k, task[s].rest))
          \/ /\ HoldsLease(s, k) /\ out # "accepted"
             /\ \E delay \in Delays(row[k].tries), after \in RetryAfters :
                    /\ after > 0 => out # "wait"
                    /\ row' = [row EXCEPT ![k] =
                                  Refuse(@, out, IF after > delay THEN after ELSE delay)]
             /\ NextJob(s)
             /\ UNCHANGED requests
    /\ UNCHANGED <<config, channel, old, created, happened, accepted>>

\* A call of process fails, or its process dies: the round ends where it is
\* and its lease is left to expire.  Bark may still receive the request.
Abandon(s) ==
    /\ \/ task[s].pc \in {"source", "load2", "sync2", "decide", "post", "finish"}
       \/ s \in Entrances /\ task[s].pc # "idle"
    /\ Become(s, Idle)
    /\ IF At(s, "post") THEN Deliver(s) \/ UNCHANGED accepted ELSE UNCHANGED accepted
    /\ UNCHANGED <<config, table, happened, requests>>

-----------------------------------------------------------------------------
\* The user turns the notifications on or off.
Toggle ==
    /\ SwitchUsed
    /\ config' = ~config
    /\ task' = [s \in Senders |-> [task[s] EXCEPT !.offSince = @ /\ config]]
    /\ UNCHANGED <<table, happened, bark>>

\* A thread finishes, fails, or waits for the user.
Happen(k) ==
    /\ k \notin happened
    /\ happened' = happened \cup {k}
    /\ UNCHANGED <<config, table, task, bark>>

Less(n) == IF n > 0 THEN n - 1 ELSE 0

\* One unit of time.  A request whose time-out has come has ended.
Tick ==
    /\ \A s \in Senders : At(s, "post") => task[s].left > 0
    /\ row' = [k \in Keys |->
                  [row[k] EXCEPT !.lease = Less(@), !.next = Less(@), !.life = Less(@)]]
    /\ task' = [s \in Senders |-> [task[s] EXCEPT !.left = Less(@)]]
    /\ UNCHANGED <<config, channel, happened, old, created, bark>>

Work(s) ==
    \/ Sync(s) \/ Due(s) \/ Stage(s) \/ Load(s) \/ Resync(s) \/ Claim(s)
    \/ Source(s) \/ Decide(s) \/ Answer(s) \/ Finish(s)

Next ==
    \/ \E s \in Senders : Begin(s) \/ Work(s) \/ Abandon(s)
    \/ \E s \in Senders, k \in Keys : Enter(s, k)
    \/ \E k \in Keys : Happen(k)
    \/ Toggle
    \/ Tick

Spec == Init /\ [][Next]_vars

\* The executor runs every task, the daemon starts round after round, and
\* time passes.  Nobody promises an entrance or a change of the switch.
Fairness ==
    /\ \A s \in Senders : WF_vars(Work(s))
    /\ \A s \in Monitors : WF_vars(Begin(s))
    /\ WF_vars(Tick)

FairSpec == Spec /\ Fairness

-----------------------------------------------------------------------------
\* A chunk the queue counts as confirmed was accepted by Bark, whoever sent
\* it, and `sent' means all of them were: an acknowledgement is never taken
\* for another chunk, or from a sender whose lease has passed to another.
ConfirmedWasAccepted ==
    \A k \in Keys :
        /\ 0..(row[k].confirmed - 1) \subseteq accepted[k]
        /\ row[k].status = "sent" => row[k].confirmed = Chunks[k]

\* At most one request for an event is under way, and it is for the first
\* chunk that is not confirmed: leases, time-outs and the delay before a
\* recovered row is claimed keep two senders apart, and a chunk that was
\* confirmed is not sent again.
OneRequestAtATime ==
    \A s \in Senders : At(s, "post") =>
        /\ task[s].chunk = row[Job(s)].confirmed
        /\ \A other \in Senders \ {s} : At(other, "post") => Job(other) # Job(s)

\* No chunk costs more than three requests, whoever makes them and however
\* many of them end in a crash, a lost answer or an expired lease.
RequestsBounded == \A k \in Keys : requests[k] <= MaxTries

\* An event reported as failed has not reached the user beyond the chunks
\* reported as confirmed: a request whose outcome is not known ends as
\* unknown, never as failed, whatever the later attempts came to.
FailedIsCertain ==
    \A k \in Keys : row[k].status = "failed" => row[k].confirmed \notin accepted[k]

\* A row that is finished with stays so: no late answer, recovery or second
\* event with the same key replays it.
SettledIsFinal ==
    [][\A k \in Keys : row[k].status \in Settled => row'[k] = row[k]]_vars

\* A background round that checks the source of an event while the
\* notifications are off does not send it before they are on again.
NoRequestWhileOff ==
    \A s \in Monitors : At(s, "post") => ~task[s].offSince

\* Every queued event is settled within its budget, whatever fails: rounds
\* that die, requests that are lost, leases nobody returns.
Settles == \A k \in Keys : row[k].status \in Open ~> row[k].status \in Settled
=============================================================================
