----------------------- MODULE NotificationQueueProofs -----------------------
(***************************************************************************)
(* Theorems about NotificationQueue, for any events, tasks, chunks,        *)
(* delays and limits.                                                      *)
(*                                                                         *)
(* First what each statement makes of a row, then what each step makes of  *)
(* the tasks; both are summarised by StepKinds: every step is one of nine  *)
(* kinds.  Each theorem then has an invariant, shown kind by kind:         *)
(*                                                                         *)
(*   QueueSettledIsFinal        Quiet                                      *)
(*   QueueConfirmedWasAccepted  LeaseIsForNext, Acknowledged               *)
(*   QueueRequestsBounded       Counted                                    *)
(*   QueueOneRequestAtATime     LeaseIsForNext, Apart                      *)
(*   QueueFailedIsCertain       the same and Certain                       *)
(*                                                                         *)
(* The history of the switch is no part of those kinds: the last theorem,  *)
(* QueueNoRequestWhileOff, has HeardOff shown action by action.            *)
(***************************************************************************)
EXTENDS NotificationQueue, FiniteSetTheorems, TLAPS

USE QueueAssumption DEF Senders

(***************************************************************************)
(* What the statements of the queue make of a row.  A type is shown one    *)
(* column at a time.                                                       *)
(***************************************************************************)
LEMMA SettleRow ==
    ASSUME NEW r \in Rows, NEW status \in Settled
    PROVE  LET q == Settle(r, status)
           IN /\ q \in Rows
              /\ q.status = status /\ q.owner = Nobody
              /\ q.lease = 0 /\ q.next = 0 /\ q.life = 0
              /\ q.confirmed = r.confirmed /\ q.tries = r.tries /\ q.doubt = r.doubt
<1> DEFINE r1 == [r EXCEPT !.status = status]
           r2 == [r1 EXCEPT !.owner = Nobody]
           r3 == [r2 EXCEPT !.lease = 0]
           r4 == [r3 EXCEPT !.next = 0]
           r5 == [r4 EXCEPT !.life = 0]
<1>1. r1 \in Rows
  BY DEF Rows, Settled
<1>2. r2 \in Rows
  <2> HIDE DEF r1
  <2> QED  BY <1>1 DEF Rows
<1>3. r3 \in Rows
  <2> HIDE DEF r2
  <2> QED  BY <1>2 DEF Rows
<1>4. r4 \in Rows
  <2> HIDE DEF r3
  <2> QED  BY <1>3 DEF Rows
<1>5. r5 \in Rows
  <2> HIDE DEF r4
  <2> QED  BY <1>4 DEF Rows
<1>6. Settle(r, status) \in Rows
  BY <1>5, Zenon DEF Settle
<1> QED
  BY <1>6 DEF Settle, Rows

LEMMA RequeueRow ==
    ASSUME NEW r \in Rows, NEW delay \in Nat
    PROVE  LET q == Requeue(r, delay)
           IN /\ q \in Rows
              /\ q.status = "pending" /\ q.owner = Nobody
              /\ q.lease = 0 /\ q.next = delay /\ q.life = r.life
              /\ q.confirmed = r.confirmed /\ q.tries = r.tries /\ q.doubt = r.doubt
<1> DEFINE r1 == [r EXCEPT !.status = "pending"]
           r2 == [r1 EXCEPT !.owner = Nobody]
           r3 == [r2 EXCEPT !.lease = 0]
           r4 == [r3 EXCEPT !.next = delay]
<1>1. r1 \in Rows
  BY DEF Rows, Open
<1>2. r2 \in Rows
  <2> HIDE DEF r1
  <2> QED  BY <1>1 DEF Rows
<1>3. r3 \in Rows
  <2> HIDE DEF r2
  <2> QED  BY <1>2 DEF Rows
<1>4. r4 \in Rows
  <2> HIDE DEF r3
  <2> QED  BY <1>3 DEF Rows
<1>5. Requeue(r, delay) \in Rows
  BY <1>4, Zenon DEF Requeue
<1> QED
  BY <1>5 DEF Requeue, Rows

LEMMA DelaysPositive ==
    ASSUME NEW tries
    PROVE  Delays(tries) \subseteq Nat \ {0}
  BY DEF Delays

\* GiveUp calls a row failed exactly when no attempt is in doubt.
LEMMA GiveUpRow ==
    ASSUME NEW r \in Rows
    PROVE  LET q == GiveUp(r)
           IN /\ q \in Rows
              /\ q.status = (IF r.doubt THEN "unknown" ELSE "failed")
              /\ q.lease = 0 /\ q.next = 0 /\ q.life = 0
              /\ q.confirmed = r.confirmed /\ q.tries = r.tries /\ q.doubt = r.doubt
<1>1. (IF r.doubt THEN "unknown" ELSE "failed") \in Settled
  BY DEF Settled
<1> QED
  BY <1>1, SettleRow DEF GiveUp

LEMMA RecoverRow ==
    ASSUME NEW r \in Rows, NEW delay \in Nat \ {0}
    PROVE  LET q == Recover(r, delay)
           IN /\ q \in Rows /\ q.doubt
              /\ \/ q.status = "pending" /\ q.next > 0
                 \/ q.status = "unknown" /\ q.next = 0 /\ q.life = 0
              /\ q.lease = 0
              /\ q.confirmed = r.confirmed /\ q.tries = r.tries
<1> DEFINE doubtful == [r EXCEPT !.doubt = TRUE]
<1>1. doubtful \in Rows /\ doubtful.doubt
      /\ doubtful.confirmed = r.confirmed /\ doubtful.tries = r.tries
  BY DEF Rows
<1>2. Recover(r, delay) = IF CanRetry(r, delay) THEN Requeue(doubtful, delay)
                                                       ELSE GiveUp(doubtful)
  BY DEF Recover
<1> HIDE DEF doubtful
<1> QED
  BY <1>1, <1>2, RequeueRow, GiveUpRow

LEMMA ClaimedRow ==
    ASSUME NEW r \in Rows, NEW s \in Senders, r.tries < MaxTries
    PROVE  LET q == Claimed(r, s)
           IN /\ q \in Rows
              /\ q.status = "delivering" /\ q.owner = s /\ q.lease = Lease
              /\ q.tries = r.tries + 1
              /\ q.confirmed = r.confirmed /\ q.doubt = r.doubt
<1> DEFINE r1 == [r EXCEPT !.status = "delivering"]
           r2 == [r1 EXCEPT !.tries = @ + 1]
           r3 == [r2 EXCEPT !.begun = TRUE]
           r4 == [r3 EXCEPT !.life = IF r.begun THEN @ ELSE Lifetime]
           r5 == [r4 EXCEPT !.owner = s]
           r6 == [r5 EXCEPT !.lease = Lease]
<1>1. r1 \in Rows /\ r1.tries < MaxTries
  BY DEF Rows, Open
<1>2. r2 \in Rows
  <2> HIDE DEF r1
  <2> QED  BY <1>1 DEF Rows
<1>3. r3 \in Rows
  <2> HIDE DEF r2
  <2> QED  BY <1>2 DEF Rows
<1>4. r4 \in Rows
  <2> HIDE DEF r3
  <2> QED  BY <1>3 DEF Rows
<1>5. r5 \in Rows
  <2> HIDE DEF r4
  <2> QED  BY <1>4 DEF Rows
<1>6. r6 \in Rows
  <2> HIDE DEF r5
  <2> QED  BY <1>5 DEF Rows
<1>7. Claimed(r, s) \in Rows
  BY <1>6, Zenon DEF Claimed
<1> QED
  BY <1>7 DEF Claimed, Rows

LEMMA ConfirmRow ==
    ASSUME NEW r \in Rows, NEW chunk \in Nat, NEW chunks
    PROVE  LET q == Confirm(r, chunk, chunks)
           IN /\ q \in Rows
              /\ q.confirmed = chunk + 1 /\ q.tries = 0 /\ ~q.doubt /\ q.lease = 0
              /\ \/ q.status = "pending"
                 \/ q.status \in {"sent", "failed"} /\ q.next = 0 /\ q.life = 0
              /\ q.status = "sent" => q.confirmed = chunks
<1> DEFINE r1 == [r EXCEPT !.confirmed = chunk + 1]
           r2 == [r1 EXCEPT !.tries = 0]
           r3 == [r2 EXCEPT !.doubt = FALSE]
           next == [r EXCEPT !.confirmed = chunk + 1, !.tries = 0, !.doubt = FALSE]
<1>1. r1 \in Rows
  BY DEF Rows
<1>2. r2 \in Rows
  <2> HIDE DEF r1
  <2> QED  BY <1>1 DEF Rows
<1>3. r3 \in Rows
  <2> HIDE DEF r2
  <2> QED  BY <1>2 DEF Rows
<1>4. next \in Rows
  BY <1>3, Zenon
<1>5. next.confirmed = chunk + 1 /\ next.tries = 0 /\ next.doubt = FALSE
  BY DEF Rows
<1>6. Confirm(r, chunk, chunks) =
        IF next.confirmed = chunks THEN Settle(next, "sent")
        ELSE IF r.life > 0 THEN Requeue(next, 0) ELSE Settle(next, "failed")
  BY DEF Confirm
<1>7. "sent" \in Settled /\ "failed" \in Settled
  BY DEF Settled
<1> HIDE DEF next
<1>8. CASE next.confirmed = chunks
  <2>1. Confirm(r, chunk, chunks) = Settle(next, "sent")
    BY <1>6, <1>8
  <2> QED
    BY <1>4, <1>5, <1>7, <1>8, <2>1, SettleRow
<1>9. CASE next.confirmed # chunks /\ r.life > 0
  <2>1. Confirm(r, chunk, chunks) = Requeue(next, 0)
    BY <1>6, <1>9
  <2> QED
    BY <1>4, <1>5, <2>1, RequeueRow
<1>10. CASE next.confirmed # chunks /\ ~(r.life > 0)
  <2>1. Confirm(r, chunk, chunks) = Settle(next, "failed")
    BY <1>6, <1>10
  <2> QED
    BY <1>4, <1>5, <1>7, <2>1, SettleRow
<1> QED
  BY <1>8, <1>9, <1>10

LEMMA RefuseRow ==
    ASSUME NEW r \in Rows, NEW out, NEW delay \in Nat
    PROVE  LET q == Refuse(r, out, delay)
           IN /\ q \in Rows
              /\ q.confirmed = r.confirmed /\ q.tries = r.tries /\ q.lease = 0
              /\ q.doubt = (r.doubt \/ out = "lost")
              /\ \/ q.status = "pending"
                 \/ q.status \in {"skipped", "unknown"} /\ q.next = 0 /\ q.life = 0
                 \/ q.status = "failed" /\ ~q.doubt /\ q.next = 0 /\ q.life = 0
<1> DEFINE seen == [r EXCEPT !.doubt = @ \/ out = "lost"]
<1>1. r.doubt \in BOOLEAN
  BY DEF Rows
<1>2. seen \in Rows /\ seen.doubt = (r.doubt \/ out = "lost")
      /\ seen.confirmed = r.confirmed /\ seen.tries = r.tries
  BY <1>1 DEF Rows
<1>3. Refuse(r, out, delay) =
        IF out = "skipped" THEN Settle(seen, "skipped")
        ELSE IF out # "rejected" /\ CanRetry(r, delay) THEN Requeue(seen, delay)
        ELSE GiveUp(seen)
  BY DEF Refuse
<1>4. "skipped" \in Settled
  BY DEF Settled
<1> HIDE DEF seen
<1>5. CASE out = "skipped"
  <2>1. Refuse(r, out, delay) = Settle(seen, "skipped")
    BY <1>3, <1>5
  <2> QED
    BY <1>2, <1>4, <2>1, SettleRow
<1>6. CASE out # "skipped" /\ out # "rejected" /\ CanRetry(r, delay)
  <2>1. Refuse(r, out, delay) = Requeue(seen, delay)
    BY <1>3, <1>6
  <2> QED
    BY <1>2, <2>1, RequeueRow
<1>7. CASE out # "skipped" /\ ~(out # "rejected" /\ CanRetry(r, delay))
  <2>1. Refuse(r, out, delay) = GiveUp(seen)
    BY <1>3, <1>7
  <2> QED
    BY <1>2, <2>1, GiveUpRow
<1> QED
  BY <1>5, <1>6, <1>7

\* The two updates with which a round begins: an expired attempt goes back
\* into the queue in doubt, a row that is out of time is given up.
LEMMA DueUpdateRow ==
    ASSUME NEW r \in Rows, NEW delay \in Nat \ {0}
    PROVE  LET q == DueUpdate(r, delay)
           IN /\ q \in Rows
              /\ q.confirmed = r.confirmed /\ q.tries = r.tries
              /\ \/ q = r
                 \/ /\ r.status = "delivering" /\ r.lease = 0
                    /\ q.doubt = TRUE /\ q.lease = 0
                    /\ \/ q.status = "pending" /\ q.next > 0
                       \/ q.status = "unknown" /\ q.next = 0 /\ q.life = 0
                 \/ /\ r.status = "pending"
                    /\ q.status = (IF r.doubt THEN "unknown" ELSE "failed")
                    /\ q.lease = 0 /\ q.next = 0 /\ q.life = 0
<1>1. CASE r.status = "delivering" /\ r.lease = 0
  <2>1. DueUpdate(r, delay) = Recover(r, delay)
    BY <1>1 DEF DueUpdate
  <2> QED
    BY <1>1, <2>1, RecoverRow
<1>2. CASE r.status = "pending" /\ r.begun /\ r.life = 0
  BY <1>2, GiveUpRow DEF DueUpdate
<1>3. CASE ~(r.status = "delivering" /\ r.lease = 0) /\ ~(r.status = "pending" /\ r.begun /\ r.life = 0)
  BY <1>3 DEF DueUpdate
<1> QED
  BY <1>1, <1>2, <1>3

\* A unit of time leaves a row without instants as it is.
LEMMA TickRow ==
    ASSUME NEW r \in Rows,
           NEW q, q = [r EXCEPT !.lease = Less(@), !.next = Less(@), !.life = Less(@)]
    PROVE  /\ q \in Rows
           /\ q.lease = Less(r.lease) /\ q.next = Less(r.next) /\ q.life = Less(r.life)
           /\ q.status = r.status /\ q.owner = r.owner /\ q.doubt = r.doubt
           /\ q.confirmed = r.confirmed /\ q.tries = r.tries
           /\ r.lease = 0 /\ r.next = 0 /\ r.life = 0 => q = r
<1> DEFINE r1 == [r EXCEPT !.lease = Less(@)]
           r2 == [r1 EXCEPT !.next = Less(@)]
           r3 == [r2 EXCEPT !.life = Less(@)]
<1>1. r1 \in Rows /\ (r.lease = 0 => r1 = r)
  BY DEF Rows, Less
<1>2. r2 \in Rows /\ (r1.next = 0 => r2 = r1)
  <2> HIDE DEF r1
  <2> QED  BY <1>1 DEF Rows, Less
<1>3. r3 \in Rows /\ (r2.life = 0 => r3 = r2)
  <2> HIDE DEF r2
  <2> QED  BY <1>2 DEF Rows, Less
<1>4. q = r3
  BY Zenon DEF Rows
<1>5. r1.next = r.next /\ r2.life = r.life
  BY DEF Rows
<1>6. q \in Rows /\ (r.lease = 0 /\ r.next = 0 /\ r.life = 0 => q = r)
  <2> HIDE DEF r1, r2, r3
  <2> QED  BY <1>1, <1>2, <1>3, <1>4, <1>5
<1> QED
  BY <1>6 DEF Rows, Less

(***************************************************************************)
(* What the steps do to the tasks.  A sender is at work on a chunk between *)
(* its claim and the end of its finish; everywhere else it has none.       *)
(***************************************************************************)
Working == {"source", "load2", "sync2", "decide", "post", "finish"}
AtWork(s) == task[s].pc \in Working

\* A sender that has a row to work on knows which.
HasJob ==
    \A s \in Senders :
        /\ task[s].pc \notin {"idle", "sync", "due"} => Job(s) \in Keys
        /\ s \in Entrances /\ task[s].pc = "sync" => Job(s) \in Keys

Typed == TypeOK /\ HasJob

\* Only the task of s changes, ...
Alone(s) ==
    /\ task' \in [Senders -> Tasks]
    /\ \A t \in Senders \ {s} : task'[t] = task[t]
\* ... it has no chunk afterwards, ...
Rests(s) == Alone(s) /\ task'[s].pc \notin Working
\* ... or it is at work on the same chunk before and after.
Proceeds(s) ==
    /\ Alone(s) /\ AtWork(s)
    /\ task'[s].pc \in Working
    /\ task'[s].job = task[s].job /\ task'[s].chunk = task[s].chunk

LEMMA IdleTask == Idle \in Tasks /\ Idle.pc = "idle"
  BY DEF Idle, Tasks

LEMMA ProcessingTask ==
    ASSUME NEW on \in BOOLEAN, NEW k \in Keys, NEW rest \in SUBSET Keys
    PROVE  LET t == Processing(on, k, rest)
           IN t \in Tasks /\ t.pc = "load1" /\ t.job = k
<1> DEFINE t1 == [Idle EXCEPT !.pc = "load1"]
           t2 == [t1 EXCEPT !.on = on]
           t3 == [t2 EXCEPT !.job = k]
           t4 == [t3 EXCEPT !.rest = rest]
<1>1. t1 \in Tasks /\ t1.pc = "load1"
  BY IdleTask DEF Tasks
<1>2. t2 \in Tasks /\ t2.pc = "load1"
  <2> HIDE DEF t1
  <2> QED  BY <1>1 DEF Tasks
<1>3. t3 \in Tasks /\ t3.pc = "load1" /\ t3.job = k
  <2> HIDE DEF t2
  <2> QED  BY <1>2 DEF Tasks
<1>4. t4 \in Tasks /\ t4.pc = "load1" /\ t4.job = k
  <2> HIDE DEF t3
  <2> QED  BY <1>3 DEF Tasks
<1>5. Processing(on, k, rest) = t4
  BY Zenon DEF Processing
<1> QED
  <2> HIDE DEF t4
  <2> QED  BY <1>4, <1>5

LEMMA BecomeAlone ==
    ASSUME TypeOK, NEW s \in Senders, NEW t \in Tasks, Become(s, t)
    PROVE  Alone(s) /\ task'[s] = t
  BY DEF TypeOK, Become, Alone

LEMMA BecomeIdle ==
    ASSUME TypeOK, NEW s \in Senders, Become(s, Idle)
    PROVE  Rests(s) /\ task'[s].pc = "idle"
  BY IdleTask, BecomeAlone DEF Rests, Working

LEMMA TakeOldestRests ==
    ASSUME TypeOK, NEW s \in Senders, NEW given \in SUBSET Keys, TakeOldest(s, given)
    PROVE  /\ Rests(s)
           /\ task'[s].pc \in {"idle", "load1"}
           /\ task'[s].pc = "load1" => task'[s].job \in Keys
<1>1. CASE Become(s, Idle)
  BY <1>1, BecomeIdle
<1>2. ASSUME NEW k \in given, Become(s, Processing(task[s].on, k, given \ {k}))
      PROVE  Rests(s) /\ task'[s].pc = "load1" /\ task'[s].job \in Keys
  <2>1. task[s].on \in BOOLEAN
    BY DEF TypeOK, Tasks
  <2> DEFINE t == Processing(task[s].on, k, given \ {k})
  <2>2. t \in Tasks /\ t.pc = "load1" /\ t.job = k
    BY <2>1, ProcessingTask
  <2>3. Alone(s) /\ task'[s] = t
    BY <1>2, <2>2, BecomeAlone
  <2> HIDE DEF t
  <2> QED
    BY <2>2, <2>3 DEF Rests, Working
<1> QED
  BY <1>1, <1>2 DEF TakeOldest

LEMMA NextJobRests ==
    ASSUME TypeOK, NEW s \in Senders, NextJob(s)
    PROVE  /\ Rests(s)
           /\ task'[s].pc \in {"idle", "load1"}
           /\ task'[s].pc = "load1" => task'[s].job \in Keys
<1>1. task[s].rest \in SUBSET Keys
  BY DEF TypeOK, Tasks
<1> QED
  BY <1>1, TakeOldestRests DEF NextJob

LEMMA GotoAlone ==
    ASSUME TypeOK, NEW s \in Senders, NEW pc, Goto(s, pc),
           pc \in {"due", "stage", "load1", "claim", "decide"}
    PROVE  /\ Alone(s)
           /\ task'[s].pc = pc
           /\ task'[s].job = task[s].job /\ task'[s].chunk = task[s].chunk
           /\ task'[s].on = task[s].on /\ task'[s].out = task[s].out
<1> DEFINE t == [task[s] EXCEPT !.pc = pc]
<1>1. task \in [Senders -> Tasks] /\ task[s] \in Tasks
  BY DEF TypeOK
<1>2. t \in Tasks
  BY <1>1 DEF Tasks
<1>3. /\ t.pc = pc
      /\ t.job = task[s].job /\ t.chunk = task[s].chunk
      /\ t.on = task[s].on /\ t.out = task[s].out
  BY <1>1 DEF Tasks
<1>4. Become(s, t)
  BY DEF Goto
<1> HIDE DEF t
<1> QED
  BY <1>2, <1>3, <1>4, BecomeAlone

LEMMA NowIsInLease == 0 \in 0..Lease
  BY DEF QueueAssumption

LEMMA OutcomeAlone ==
    ASSUME TypeOK, NEW s \in Senders, NEW out, Outcome(s, out),
           out \in {"skipped", "wait", "accepted", "rejected", "busy", "lost", "cut"}
    PROVE  /\ Alone(s)
           /\ task'[s].pc = "finish" /\ task'[s].out = out
           /\ task'[s].job = task[s].job /\ task'[s].chunk = task[s].chunk
<1> DEFINE t1 == [task[s] EXCEPT !.pc = "finish"]
           t2 == [t1 EXCEPT !.out = out]
           t3 == [t2 EXCEPT !.left = 0]
<1>1. task[s] \in Tasks
  BY DEF TypeOK
<1>2. t1 \in Tasks
  BY <1>1 DEF Tasks
<1>3. t2 \in Tasks
  <2> HIDE DEF t1
  <2> QED  BY <1>2 DEF Tasks
<1>4. t3 \in Tasks
  <2> HIDE DEF t2
  <2> QED  BY <1>3, NowIsInLease DEF Tasks
<1>5. t3.pc = "finish" /\ t3.out = out /\ t3.job = task[s].job /\ t3.chunk = task[s].chunk
  BY <1>1 DEF Tasks
<1>6. Become(s, t3)
  BY Zenon DEF Outcome
<1> HIDE DEF t3
<1> QED
  BY <1>4, <1>5, <1>6, BecomeAlone

(***************************************************************************)
(* The kinds of step.  What housekeeping may do to a row r, leaving q:     *)
(* nothing, skip it, take an expired attempt back, give up what is out of  *)
(* time, or stage it.                                                      *)
(***************************************************************************)
Kept(r, q) ==
    /\ q \in Rows
    /\ q.confirmed = r.confirmed /\ q.tries = r.tries
    /\ \/ q = r
       \/ /\ r.status \in Open /\ q.status = "skipped"
          /\ q.lease = 0 /\ q.next = 0 /\ q.life = 0
       \/ /\ r.status = "delivering" /\ r.lease = 0
          /\ q.doubt = TRUE /\ q.lease = 0
          /\ \/ q.status = "pending" /\ q.next > 0
             \/ q.status = "unknown" /\ q.next = 0 /\ q.life = 0
       \/ /\ r.status = "pending"
          /\ q.status = (IF r.doubt THEN "unknown" ELSE "failed")
          /\ q.lease = 0 /\ q.next = 0 /\ q.life = 0
       \/ r.status = "absent" /\ q.status = "pending" /\ q.doubt = r.doubt

Tidies == \A k \in Keys : Kept(row[k], row'[k])

\* Nothing is sent, claimed or finished.
Housekeeping(s) ==
    /\ Tidies /\ UNCHANGED bark
    /\ \/ Rests(s)
       \/ /\ Proceeds(s) /\ task[s].pc \in {"source", "load2", "sync2", "decide"}
          /\ \/ task'[s].pc \in {"load2", "sync2", "decide"}
             \/ task'[s].pc = "finish" /\ task'[s].out \in {"skipped", "wait"}

Claims(s) ==
    /\ Alone(s) /\ At(s, "claim") /\ Claimable(row[Job(s)])
    /\ task'[s].pc = "source" /\ task'[s].job = task[s].job
    /\ task'[s].chunk = row[Job(s)].confirmed
    /\ row' = [row EXCEPT ![Job(s)] = Claimed(@, s)]
    /\ UNCHANGED bark

Posts(s) ==
    /\ Proceeds(s) /\ At(s, "decide") /\ MaySend(s, Job(s))
    /\ task'[s].pc = "post" /\ task'[s].left = Remaining(Job(s))
    /\ requests' = [requests EXCEPT ![Job(s)] = @ + 1]
    /\ UNCHANGED <<row, accepted>>

Answers(s) ==
    /\ Proceeds(s) /\ At(s, "post") /\ task'[s].pc = "finish"
    /\ \/ /\ Deliver(s)
          /\ \/ task'[s].out \in {"accepted", "lost"}
             \/ TlsCuts /\ task'[s].out = "cut"
       \/ UNCHANGED accepted /\ task'[s].out \in {"rejected", "busy", "lost"}
    /\ UNCHANGED <<row, requests>>

Dies(s) ==
    /\ Rests(s) /\ At(s, "post") /\ Deliver(s)
    /\ UNCHANGED <<row, requests>>

Confirms(s) ==
    /\ Rests(s) /\ At(s, "finish") /\ HoldsLease(s, Job(s))
    /\ task[s].out = "accepted"
    /\ row' = [row EXCEPT ![Job(s)] = Confirm(@, task[s].chunk, Chunks[Job(s)])]
    /\ requests' = [requests EXCEPT ![Job(s)] = 0]
    /\ UNCHANGED accepted

Refuses(s) ==
    /\ Rests(s) /\ At(s, "finish") /\ HoldsLease(s, Job(s))
    /\ task[s].out # "accepted"
    /\ \E delay \in Nat :
           row' = [row EXCEPT ![Job(s)] = Refuse(@, task[s].out, delay)]
    /\ UNCHANGED bark

\* The tasks differ in what they remember of the switch only.
Stands ==
    /\ \A s \in Senders : /\ task'[s].pc = task[s].pc /\ task'[s].job = task[s].job
                          /\ task'[s].chunk = task[s].chunk /\ task'[s].out = task[s].out
                          /\ task'[s].left = task[s].left
    /\ UNCHANGED <<row, bark>>

Ages ==
    /\ \A s \in Senders : /\ task'[s].pc = task[s].pc /\ task'[s].job = task[s].job
                          /\ task'[s].chunk = task[s].chunk /\ task'[s].out = task[s].out
                          /\ task'[s].left = Less(task[s].left)
                          /\ At(s, "post") => task[s].left > 0
    /\ \A k \in Keys :
           /\ row'[k].lease = Less(row[k].lease) /\ row'[k].next = Less(row[k].next)
           /\ row'[k].life = Less(row[k].life)
           /\ row'[k].status = row[k].status /\ row'[k].owner = row[k].owner
           /\ row'[k].doubt = row[k].doubt
           /\ row'[k].confirmed = row[k].confirmed /\ row'[k].tries = row[k].tries
           /\ row[k].lease = 0 /\ row[k].next = 0 /\ row[k].life = 0 => row'[k] = row[k]
    /\ UNCHANGED bark

Kinds ==
    \/ Stands \/ Ages
    \/ \E s \in Senders : \/ Housekeeping(s) \/ Claims(s) \/ Posts(s) \/ Answers(s)
                          \/ Dies(s) \/ Confirms(s) \/ Refuses(s)

LEMMA KeptItself ==
    ASSUME TypeOK, UNCHANGED row
    PROVE  Tidies
  BY DEF TypeOK, Tidies, Kept

LEMMA SyncTidies ==
    ASSUME TypeOK, NEW on \in BOOLEAN, SyncChannels(on)
    PROVE  /\ Tidies /\ row' \in [Keys -> Rows]
           /\ channel' \in {"none", "on", "off"} /\ created' = created
           /\ old' \in {old, happened}
<1>1. ASSUME NEW k \in Keys
      PROVE  Kept(row[k], row'[k]) /\ row'[k] \in Rows
  <2>1. row[k] \in Rows
    BY DEF TypeOK
  <2>2. row'[k] \in {row[k], Settle(row[k], "skipped")}
        /\ (row'[k] # row[k] => row[k].status \in Open)
    BY DEF SyncChannels
  <2>3. "skipped" \in Settled
    BY DEF Settled
  <2>4. CASE row'[k] = row[k]
    BY <2>1, <2>4 DEF Kept
  <2>5. CASE row'[k] # row[k]
    BY <2>1, <2>2, <2>3, <2>5, SettleRow DEF Kept
  <2> QED
    BY <2>4, <2>5
<1> QED
  BY <1>1 DEF Tidies, SyncChannels

LEMMA BeginKind ==
    ASSUME Typed, NEW s \in Senders, Begin(s)
    PROVE  Housekeeping(s) /\ Typed'
<1> DEFINE t == [Idle EXCEPT !.pc = "sync", !.on = config]
<1>1. t \in Tasks /\ t.pc = "sync"
  BY IdleTask DEF Typed, TypeOK, Tasks
<1>2. Alone(s) /\ task'[s] = t
  <2> HIDE DEF t
  <2> QED  BY <1>1, BecomeAlone DEF Begin, Typed, t
<1> HIDE DEF t
<1>3. Rests(s)
  BY <1>1, <1>2 DEF Rests, Working
<1>4. UNCHANGED <<config, channel, old, row, created, happened, accepted, requests>>
  BY DEF Begin, table, bark
<1>5. Tidies
  BY <1>4, KeptItself DEF Typed
<1>6. TypeOK'
  BY <1>2, <1>4 DEF Typed, TypeOK, Alone
<1>7. HasJob'
  BY <1>1, <1>2 DEF Typed, HasJob, Job, Alone, Begin, QueueAssumption
<1> QED
  BY <1>3, <1>4, <1>5, <1>6, <1>7 DEF Housekeeping, Typed, bark

LEMMA EnterKind ==
    ASSUME Typed, NEW s \in Senders, NEW k \in Keys, Enter(s, k)
    PROVE  Housekeeping(s) /\ Typed'
<1> DEFINE t1 == [Idle EXCEPT !.pc = "sync"]
           t2 == [t1 EXCEPT !.on = config]
           t3 == [t2 EXCEPT !.job = k]
<1>1. t1 \in Tasks /\ t1.pc = "sync"
  BY IdleTask DEF Tasks
<1>2. t2 \in Tasks /\ t2.pc = "sync"
  <2> HIDE DEF t1
  <2> QED  BY <1>1 DEF Tasks, Typed, TypeOK
<1>3. t3 \in Tasks /\ t3.pc = "sync" /\ t3.job = k
  <2> HIDE DEF t2
  <2> QED  BY <1>2 DEF Tasks
<1>4. Become(s, t3)
  BY DEF Enter
<1> HIDE DEF t3
<1>5. Alone(s) /\ task'[s] = t3
  BY <1>3, <1>4, BecomeAlone DEF Typed
<1>6. Rests(s)
  BY <1>3, <1>5 DEF Rests, Working
<1>7. UNCHANGED <<config, channel, old, row, created, happened, accepted, requests>>
  BY DEF Enter, table, bark
<1>8. Tidies
  BY <1>7, KeptItself DEF Typed
<1>9. TypeOK'
  BY <1>5, <1>7 DEF Typed, TypeOK, Alone
<1>10. HasJob'
  BY <1>3, <1>5 DEF Typed, HasJob, Job, Alone
<1> QED
  BY <1>6, <1>7, <1>8, <1>9, <1>10 DEF Housekeeping, Typed, bark

LEMMA SyncKind ==
    ASSUME Typed, NEW s \in Senders, Sync(s)
    PROVE  Housekeeping(s) /\ Typed'
<1>1. task[s].on \in BOOLEAN /\ task[s].pc = "sync"
  BY DEF Typed, TypeOK, Tasks, Sync, At
<1>2. /\ Tidies /\ row' \in [Keys -> Rows]
      /\ channel' \in {"none", "on", "off"} /\ created' = created /\ old' \in {old, happened}
  BY <1>1, SyncTidies DEF Sync, Typed
<1>3. /\ Alone(s) /\ task'[s].job = task[s].job
      /\ task'[s].pc = (IF s \in Monitors THEN "due" ELSE "stage")
  BY GotoAlone DEF Sync, Typed
<1>4. Rests(s)
  BY <1>3 DEF Rests, Working
<1>5. UNCHANGED <<config, happened, accepted, requests>>
  BY DEF Sync, bark
<1>6. TypeOK'
  BY <1>2, <1>3, <1>5 DEF Typed, TypeOK, Alone
<1>7. HasJob'
  BY <1>1, <1>3 DEF Typed, HasJob, Job, Alone
<1> QED
  BY <1>2, <1>4, <1>5, <1>6, <1>7 DEF Housekeeping, Typed, bark

\* A step of s that leaves the columns in their domains.
LEMMA StaysTyped ==
    ASSUME Typed, NEW s \in Senders, Alone(s),
           task'[s].pc \notin {"idle", "due"} => task'[s].job \in Keys,
           row' \in [Keys -> Rows], created' \in [Keys -> Nat],
           accepted' \in [Keys -> SUBSET Nat], requests' \in [Keys -> Nat],
           channel' \in {"none", "on", "off"}, old' \in {old, happened},
           UNCHANGED <<config, happened>>
    PROVE  Typed'
<1>1. TypeOK'
  BY DEF Typed, TypeOK, Alone
<1>2. HasJob'
  BY DEF Typed, HasJob, Job, Alone
<1> QED
  BY <1>1, <1>2 DEF Typed

LEMMA KeepsTyped ==
    ASSUME Typed, NEW s \in Senders, Alone(s),
           task'[s].pc \notin {"idle", "due"} => task'[s].job \in Keys,
           UNCHANGED <<row, created, channel, old, config, happened, bark>>
    PROVE  Typed' /\ Tidies /\ UNCHANGED bark
<1>1. Typed'
  BY StaysTyped DEF Typed, TypeOK, bark
<1> QED
  BY <1>1, KeptItself DEF Typed

LEMMA DueUpdateKept ==
    ASSUME NEW r \in Rows, NEW delay \in Nat \ {0}
    PROVE  Kept(r, DueUpdate(r, delay)) /\ DueUpdate(r, delay) \in Rows
<1> DEFINE q == DueUpdate(r, delay)
<1>1. /\ q \in Rows
      /\ q.confirmed = r.confirmed /\ q.tries = r.tries
      /\ \/ q = r
         \/ /\ r.status = "delivering" /\ r.lease = 0
            /\ q.doubt = TRUE /\ q.lease = 0
            /\ \/ q.status = "pending" /\ q.next > 0
               \/ q.status = "unknown" /\ q.next = 0 /\ q.life = 0
         \/ /\ r.status = "pending"
            /\ q.status = (IF r.doubt THEN "unknown" ELSE "failed")
            /\ q.lease = 0 /\ q.next = 0 /\ q.life = 0
  BY DueUpdateRow
<1> HIDE DEF q
<1>2. Kept(r, q)
  BY <1>1 DEF Kept
<1> QED
  BY <1>1, <1>2 DEF q

LEMMA DueKind ==
    ASSUME Typed, NEW s \in Senders, Due(s)
    PROVE  Housekeeping(s) /\ Typed'
<1>1. PICK delay \in [Keys -> FirstDelays \cup LaterDelays] :
         row' = [k \in Keys |-> DueUpdate(row[k], delay[k])]
  BY DEF Due
<1>2. ASSUME NEW k \in Keys
      PROVE  Kept(row[k], row'[k]) /\ row'[k] \in Rows
  <2>1. row[k] \in Rows /\ row'[k] = DueUpdate(row[k], delay[k])
    BY <1>1 DEF Typed, TypeOK
  <2>2. delay[k] \in Nat \ {0}
    BY QueueAssumption DEF QueueAssumption
  <2> QED
    BY <2>1, <2>2, DueUpdateKept
<1>3. Tidies /\ row' \in [Keys -> Rows]
  BY <1>1, <1>2 DEF Tidies
<1>4. DueKeys(row') \in SUBSET Keys
  BY DEF DueKeys
<1>5. /\ Rests(s)
      /\ task'[s].pc \in {"idle", "load1"}
      /\ task'[s].pc = "load1" => task'[s].job \in Keys
  BY <1>4, TakeOldestRests DEF Due, Typed
<1>6. UNCHANGED <<config, channel, old, created, happened, bark>>
  BY DEF Due
<1>7. Typed'
  BY <1>3, <1>5, <1>6, StaysTyped DEF Rests, Typed, TypeOK, bark
<1> QED
  BY <1>3, <1>5, <1>6, <1>7 DEF Housekeeping

LEMMA StageKind ==
    ASSUME Typed, NEW s \in Senders, Stage(s)
    PROVE  Housekeeping(s) /\ Typed'
<1> DEFINE k == Job(s)
<1>1. k \in Keys
  BY DEF Stage, At, Typed, HasJob
<1>2. UNCHANGED <<config, channel, old, happened, bark>>
  BY DEF Stage
<1>3. CASE /\ row[k].status = "absent"
           /\ row' = [row EXCEPT ![k].status = "pending"]
           /\ created' = [created EXCEPT ![k] =
                            1 + Cardinality({j \in Keys : created[j] > 0})]
           /\ Goto(s, "load1")
  <2>1. Alone(s) /\ task'[s].pc = "load1" /\ task'[s].job = k
    BY <1>3, GotoAlone DEF Typed, Job
  <2>2. ASSUME NEW j \in Keys
        PROVE  Kept(row[j], row'[j]) /\ row'[j] \in Rows
    <3>1. row[j] \in Rows
      BY DEF Typed, TypeOK
    <3>2. row'[j] = IF j = k THEN [row[j] EXCEPT !.status = "pending"] ELSE row[j]
      BY <1>1, <1>3 DEF Typed, TypeOK
    <3> QED
      BY <1>3, <3>1, <3>2 DEF Kept, Rows, Open
  <2>3. Tidies /\ row' \in [Keys -> Rows]
    BY <1>3, <2>2 DEF Tidies, Typed, TypeOK
  <2>4. created' \in [Keys -> Nat]
    <3> DEFINE staged == {j \in Keys : created[j] > 0}
    <3>1. staged \subseteq Keys
      OBVIOUS
    <3> HIDE DEF staged
    <3>2. Cardinality(staged) \in Nat
      BY <3>1, FS_Subset, FS_CardinalityType DEF QueueAssumption
    <3> DEFINE n == 1 + Cardinality(staged)
    <3>3. created' = [created EXCEPT ![k] = n]
      BY <1>3, Zenon DEF staged
    <3>4. n \in Nat
      BY <3>2
    <3> HIDE DEF n, k
    <3> QED
      BY <3>3, <3>4 DEF Typed, TypeOK
  <2>5. Typed'
    BY <1>1, <1>2, <2>1, <2>3, <2>4, StaysTyped DEF Typed, TypeOK, bark
  <2> QED
    BY <1>2, <2>1, <2>3, <2>5 DEF Housekeeping, Rests, Working
<1>4. CASE Become(s, Idle) /\ UNCHANGED <<row, created>>
  <2>1. Rests(s) /\ task'[s].pc = "idle"
    BY <1>4, BecomeIdle DEF Typed
  <2> QED
    BY <1>2, <1>4, <2>1, KeepsTyped DEF Housekeeping, Rests
<1> QED
  BY <1>3, <1>4 DEF Stage

LEMMA LoadKind ==
    ASSUME Typed, NEW s \in Senders, Load(s)
    PROVE  Housekeeping(s) /\ Typed'
<1>1. PICK from \in {"load1", "load2"} :
        /\ At(s, from)
        /\ Become(s, [task[s] EXCEPT !.pc = IF from = "load1" THEN "sync1" ELSE "sync2",
                                     !.on = IF s \in Live THEN config ELSE @])
  BY DEF Load
<1> DEFINE pc == IF from = "load1" THEN "sync1" ELSE "sync2"
           t1 == [task[s] EXCEPT !.pc = pc]
           t2 == [t1 EXCEPT !.on = IF s \in Live THEN config ELSE @]
<1>2. task[s] \in Tasks
  BY DEF Typed, TypeOK
<1>3. t1 \in Tasks /\ t1.job = task[s].job /\ t1.chunk = task[s].chunk
      /\ t1.pc = pc
  BY <1>2 DEF Tasks
<1>4. t2 \in Tasks /\ t2.job = task[s].job /\ t2.chunk = task[s].chunk
      /\ t2.pc = pc
  <2> HIDE DEF t1
  <2> QED  BY <1>3 DEF Tasks, Typed, TypeOK
<1>5. Become(s, t2)
  BY <1>1
<1> HIDE DEF t2
<1>6. /\ Alone(s) /\ task'[s].job = task[s].job /\ task'[s].chunk = task[s].chunk
      /\ task'[s].pc = pc
  BY <1>4, <1>5, BecomeAlone DEF Typed
<1>7. task[s].pc \in {"load1", "load2"} /\ task[s].pc = from
  BY <1>1 DEF At
<1>8. \/ Rests(s)
      \/ Proceeds(s) /\ task[s].pc = "load2" /\ task'[s].pc = "sync2"
  BY <1>6, <1>7 DEF Rests, Proceeds, AtWork, Working
<1>9. task'[s].job \in Keys
  BY <1>6, <1>7 DEF Typed, HasJob, Job
<1>10. Typed' /\ Tidies /\ UNCHANGED bark
  BY <1>6, <1>9, KeepsTyped DEF Load, table
<1> QED
  BY <1>8, <1>10 DEF Housekeeping

LEMMA ResyncKind ==
    ASSUME Typed, NEW s \in Senders, Resync(s)
    PROVE  Housekeeping(s) /\ Typed'
<1>1. PICK from \in {"sync1", "sync2"} :
        At(s, from) /\ Goto(s, IF from = "sync1" THEN "claim" ELSE "decide")
  BY DEF Resync
<1>2. task[s].pc = from /\ task[s].on \in BOOLEAN
  BY <1>1 DEF At, Typed, TypeOK, Tasks
<1>3. /\ Tidies /\ row' \in [Keys -> Rows]
      /\ channel' \in {"none", "on", "off"} /\ created' = created /\ old' \in {old, happened}
  BY <1>2, SyncTidies DEF Resync, Typed
<1>4. /\ Alone(s) /\ task'[s].job = task[s].job /\ task'[s].chunk = task[s].chunk
      /\ task'[s].pc = (IF from = "sync1" THEN "claim" ELSE "decide")
  BY <1>1, GotoAlone DEF Typed
<1>5. \/ Rests(s)
      \/ Proceeds(s) /\ task[s].pc = "sync2" /\ task'[s].pc = "decide"
  BY <1>2, <1>4 DEF Rests, Proceeds, AtWork, Working
<1>6. task'[s].job \in Keys
  BY <1>2, <1>4 DEF Typed, HasJob, Job
<1>7. UNCHANGED <<config, happened, bark>>
  BY DEF Resync
<1>8. Typed'
  BY <1>3, <1>4, <1>6, <1>7, StaysTyped DEF Typed, TypeOK, bark
<1> QED
  BY <1>3, <1>5, <1>7, <1>8 DEF Housekeeping

LEMMA ClaimKind ==
    ASSUME Typed, NEW s \in Senders, Claim(s)
    PROVE  (Housekeeping(s) \/ Claims(s)) /\ Typed'
<1> DEFINE k == Job(s)
<1>1. k \in Keys /\ row[k] \in Rows /\ task[s] \in Tasks
  BY DEF Claim, At, Typed, HasJob, TypeOK
<1>2. UNCHANGED <<config, channel, old, created, happened, bark>>
  BY DEF Claim
<1>3. CASE /\ Claimable(row[k])
           /\ row' = [row EXCEPT ![k] = Claimed(@, s)]
           /\ Become(s, [task[s] EXCEPT !.pc = "source", !.chunk = row[k].confirmed])
  <2> DEFINE t1 == [task[s] EXCEPT !.pc = "source"]
             t2 == [t1 EXCEPT !.chunk = row[k].confirmed]
  <2>1. t1 \in Tasks /\ t1.pc = "source" /\ t1.job = k
    BY <1>1 DEF Tasks, Job
  <2>2. /\ t2 \in Tasks /\ t2.pc = "source" /\ t2.job = k
        /\ t2.chunk = row[k].confirmed
    <3>1. row[k].confirmed \in Nat
      BY <1>1 DEF Rows
    <3> HIDE DEF t1
    <3> QED  BY <2>1, <3>1 DEF Tasks
  <2>3. Become(s, t2)
    BY <1>3
  <2> HIDE DEF t2
  <2>4. /\ Alone(s) /\ task'[s].pc = "source" /\ task'[s].job = k
        /\ task'[s].chunk = row[k].confirmed
    BY <2>2, <2>3, BecomeAlone DEF Typed
  <2>5. Claimed(row[k], s) \in Rows
    BY <1>1, <1>3, ClaimedRow DEF Claimable, IsDue
  <2>6. row' \in [Keys -> Rows]
    BY <1>3, <2>5 DEF Typed, TypeOK
  <2>7. Typed'
    BY <1>1, <1>2, <2>4, <2>6, StaysTyped DEF Typed, TypeOK, bark
  <2> QED
    BY <1>2, <1>3, <2>4, <2>7 DEF Claims, Claim, Job
<1>4. CASE NextJob(s) /\ UNCHANGED row
  <2>1. /\ Rests(s) /\ task'[s].pc \in {"idle", "load1"}
        /\ task'[s].pc = "load1" => task'[s].job \in Keys
    BY <1>4, NextJobRests DEF Typed
  <2> QED
    BY <1>2, <1>4, <2>1, KeepsTyped DEF Housekeeping, Rests
<1> QED
  BY <1>3, <1>4 DEF Claim

LEMMA SourceKind ==
    ASSUME Typed, NEW s \in Senders, Source(s)
    PROVE  Housekeeping(s) /\ Typed'
<1>1. PICK found \in {"current", "obsolete", "unready"} :
        Become(s, [task[s] EXCEPT !.pc = "load2", !.out = found, !.offSince = ~config])
  BY DEF Source
<1> DEFINE t1 == [task[s] EXCEPT !.pc = "load2"]
           t2 == [t1 EXCEPT !.out = found]
           t3 == [t2 EXCEPT !.offSince = ~config]
<1>2. task[s] \in Tasks
  BY DEF Typed, TypeOK
<1>3. t1 \in Tasks /\ t1.pc = "load2" /\ t1.job = task[s].job /\ t1.chunk = task[s].chunk
  BY <1>2 DEF Tasks
<1>4. t2 \in Tasks /\ t2.pc = "load2" /\ t2.job = task[s].job /\ t2.chunk = task[s].chunk
  <2> HIDE DEF t1
  <2> QED  BY <1>3 DEF Tasks
<1>5. t3 \in Tasks /\ t3.pc = "load2" /\ t3.job = task[s].job /\ t3.chunk = task[s].chunk
  <2> HIDE DEF t2
  <2> QED  BY <1>4 DEF Tasks
<1>6. Become(s, t3)
  BY <1>1
<1> HIDE DEF t3
<1>7. /\ Alone(s) /\ task'[s].pc = "load2"
      /\ task'[s].job = task[s].job /\ task'[s].chunk = task[s].chunk
  BY <1>5, <1>6, BecomeAlone DEF Typed
<1>8. task[s].pc = "source"
  BY DEF Source, At
<1>9. Proceeds(s)
  BY <1>7, <1>8 DEF Proceeds, AtWork, Working
<1>10. task'[s].job \in Keys
  BY <1>7, <1>8 DEF Typed, HasJob, Job
<1>11. Typed' /\ Tidies /\ UNCHANGED bark
  BY <1>7, <1>10, KeepsTyped DEF Source, table
<1> QED
  BY <1>7, <1>8, <1>9, <1>11 DEF Housekeeping

LEMMA DecideKind ==
    ASSUME Typed, NEW s \in Senders, Decide(s)
    PROVE  (Housekeeping(s) \/ Posts(s)) /\ Typed'
<1>1. /\ task[s].pc = "decide" /\ task[s] \in Tasks
      /\ Job(s) \in Keys /\ row[Job(s)] \in Rows
  BY DEF Decide, At, Typed, HasJob, TypeOK
<1>2. UNCHANGED <<config, channel, old, row, created, happened, accepted>>
  BY DEF Decide, table
<1>3. ASSUME NEW out \in {"skipped", "wait"}, Outcome(s, out), UNCHANGED requests
      PROVE  Housekeeping(s) /\ Typed'
  <2>1. /\ Alone(s) /\ task'[s].pc = "finish" /\ task'[s].out = out
        /\ task'[s].job = task[s].job /\ task'[s].chunk = task[s].chunk
    BY <1>3, OutcomeAlone DEF Typed
  <2>2. Proceeds(s)
    BY <1>1, <2>1 DEF Proceeds, AtWork, Working
  <2>3. Typed' /\ Tidies /\ UNCHANGED bark
    BY <1>1, <1>2, <1>3, <2>1, KeepsTyped DEF Job, bark
  <2> QED
    BY <1>1, <2>1, <2>2, <2>3 DEF Housekeeping
<1>4. CASE NextJob(s) /\ UNCHANGED requests
  <2>1. /\ Rests(s) /\ task'[s].pc \in {"idle", "load1"}
        /\ task'[s].pc = "load1" => task'[s].job \in Keys
    BY <1>4, NextJobRests DEF Typed
  <2> QED
    BY <1>2, <1>4, <2>1, KeepsTyped DEF Housekeeping, Rests, bark
<1>5. CASE /\ MaySend(s, Job(s))
           /\ Become(s, [task[s] EXCEPT !.pc = "post", !.left = Remaining(Job(s))])
           /\ requests' = [requests EXCEPT ![Job(s)] = @ + 1]
  <2> DEFINE t1 == [task[s] EXCEPT !.pc = "post"]
             left == Remaining(Job(s))
             t2 == [t1 EXCEPT !.left = left]
  <2>1. t1 \in Tasks /\ t1.pc = "post"
        /\ t1.job = task[s].job /\ t1.chunk = task[s].chunk
    BY <1>1 DEF Tasks
  <2>2. left \in 0..Lease
    BY <1>1, QueueAssumption DEF Remaining, Rows, QueueAssumption
  <2>3. t2 \in Tasks /\ t2.pc = "post" /\ t2.left = left
        /\ t2.job = task[s].job /\ t2.chunk = task[s].chunk
    <3> HIDE DEF t1, left
    <3> QED  BY <2>1, <2>2 DEF Tasks
  <2>4. Become(s, t2)
    BY <1>5
  <2> HIDE DEF t2
  <2>5. /\ Alone(s) /\ task'[s].pc = "post" /\ task'[s].left = left
        /\ task'[s].job = task[s].job /\ task'[s].chunk = task[s].chunk
    BY <2>3, <2>4, BecomeAlone DEF Typed
  <2>6. Proceeds(s)
    BY <1>1, <2>5 DEF Proceeds, AtWork, Working
  <2>7. requests' \in [Keys -> Nat]
    BY <1>1, <1>5 DEF Typed, TypeOK
  <2>8. Typed'
    BY <1>1, <1>2, <2>5, <2>7, StaysTyped DEF Typed, TypeOK, Job
  <2> QED
    BY <1>2, <1>5, <2>5, <2>6, <2>8 DEF Posts, Decide
<1> QED
  BY <1>3, <1>4, <1>5 DEF Decide

LEMMA DeliverTyped ==
    ASSUME Typed, NEW s \in Senders, At(s, "post"), Deliver(s) \/ UNCHANGED accepted
    PROVE  accepted' \in [Keys -> SUBSET Nat]
<1>1. Job(s) \in Keys /\ task[s].chunk \in Nat
  BY DEF At, Typed, HasJob, TypeOK, Tasks
<1> QED
  BY <1>1 DEF Deliver, Typed, TypeOK

LEMMA AnswerKind ==
    ASSUME Typed, NEW s \in Senders, Answer(s)
    PROVE  Answers(s) /\ Typed'
<1>1. task[s].pc = "post" /\ Job(s) \in Keys
  BY DEF Answer, At, Typed, HasJob
<1>2. UNCHANGED <<config, channel, old, row, created, happened, requests>>
  BY DEF Answer, table
<1>3. PICK out \in {"accepted", "rejected", "busy", "lost", "cut"} :
        /\ Outcome(s, out)
        /\ \/ /\ Deliver(s)
              /\ out \in {"accepted", "lost"} \/ (TlsCuts /\ out = "cut")
           \/ UNCHANGED accepted /\ out \in {"rejected", "busy", "lost"}
  BY DEF Answer
<1>4. /\ Alone(s) /\ task'[s].pc = "finish" /\ task'[s].out = out
      /\ task'[s].job = task[s].job /\ task'[s].chunk = task[s].chunk
  BY <1>3, OutcomeAlone DEF Typed
<1>5. Proceeds(s)
  BY <1>1, <1>4 DEF Proceeds, AtWork, Working
<1>6. accepted' \in [Keys -> SUBSET Nat]
  BY <1>3, DeliverTyped DEF Answer
<1>7. Typed'
  BY <1>1, <1>2, <1>4, <1>6, StaysTyped DEF Typed, TypeOK, Job
<1> QED
  BY <1>2, <1>3, <1>4, <1>5, <1>7 DEF Answers, Answer

LEMMA FinishKind ==
    ASSUME Typed, NEW s \in Senders, Finish(s)
    PROVE  (Housekeeping(s) \/ Confirms(s) \/ Refuses(s)) /\ Typed'
<1> DEFINE k == Job(s)
           out == task[s].out
           NextRests == /\ Rests(s) /\ task'[s].pc \in {"idle", "load1"}
                        /\ task'[s].pc = "load1" => task'[s].job \in Keys
<1>1. /\ k \in Keys /\ row[k] \in Rows
      /\ task[s].chunk \in Nat /\ task[s].on \in BOOLEAN /\ task[s].rest \in SUBSET Keys
  BY DEF Finish, At, Typed, HasJob, TypeOK, Tasks
<1>2. UNCHANGED <<config, channel, old, created, happened, accepted>>
  BY DEF Finish
<1>3. NextJob(s) => NextRests
  BY NextJobRests DEF Typed
<1>4. CASE NextJob(s) /\ UNCHANGED <<row, requests>>
  BY <1>2, <1>3, <1>4, KeepsTyped DEF Housekeeping, Rests, bark
<1>5. CASE /\ HoldsLease(s, k) /\ out = "accepted"
           /\ row' = [row EXCEPT ![k] = Confirm(@, task[s].chunk, Chunks[k])]
           /\ requests' = [requests EXCEPT ![k] = 0]
           /\ \/ NextJob(s)
              \/ Become(s, Processing(task[s].on, k, task[s].rest))
  <2> DEFINE t == Processing(task[s].on, k, task[s].rest)
  <2>1. t \in Tasks /\ t.pc = "load1" /\ t.job = k
    BY <1>1, ProcessingTask
  <2>2. ASSUME Become(s, t)
        PROVE  NextRests
    <3>1. Alone(s) /\ task'[s] = t
      BY <2>1, <2>2, BecomeAlone DEF Typed
    <3> HIDE DEF t
    <3> QED
      BY <1>1, <2>1, <3>1 DEF Rests, Working
  <2>3. NextRests
    BY <1>3, <1>5, <2>2
  <2>4. Confirm(row[k], task[s].chunk, Chunks[k]) \in Rows
    BY <1>1, ConfirmRow
  <2>5. row' \in [Keys -> Rows] /\ requests' \in [Keys -> Nat]
    BY <1>1, <1>5, <2>4 DEF Typed, TypeOK
  <2>6. Typed'
    BY <1>2, <2>3, <2>5, StaysTyped DEF Typed, TypeOK, Rests
  <2> QED
    BY <1>2, <1>5, <2>3, <2>6 DEF Confirms, Finish
<1>6. CASE /\ HoldsLease(s, k) /\ out # "accepted"
           /\ \E delay \in Delays(row[k].tries), after \in RetryAfters :
                  row' = [row EXCEPT ![k] =
                             Refuse(@, out, IF after > delay THEN after ELSE delay)]
           /\ NextJob(s)
           /\ UNCHANGED requests
  <2>1. PICK delay \in Delays(row[k].tries), after \in RetryAfters :
          row' = [row EXCEPT ![k] = Refuse(@, out, IF after > delay THEN after ELSE delay)]
    BY <1>6
  <2> DEFINE d == IF after > delay THEN after ELSE delay
  <2>2. d \in Nat
    BY DelaysPositive, QueueAssumption DEF QueueAssumption
  <2>3. row' = [row EXCEPT ![k] = Refuse(@, out, d)]
    BY <2>1
  <2> HIDE DEF d
  <2>4. Refuse(row[k], out, d) \in Rows
    BY <1>1, <2>2, RefuseRow
  <2>5. row' \in [Keys -> Rows]
    BY <1>1, <2>3, <2>4 DEF Typed, TypeOK
  <2>6. Typed'
    BY <1>2, <1>3, <1>6, <2>5, StaysTyped DEF Typed, TypeOK, Rests
  <2> QED
    BY <1>2, <1>3, <1>6, <2>2, <2>3, <2>6 DEF Refuses, Finish, bark
<1> QED
  BY <1>4, <1>5, <1>6 DEF Finish

LEMMA AbandonKind ==
    ASSUME Typed, NEW s \in Senders, Abandon(s)
    PROVE  (Housekeeping(s) \/ Dies(s)) /\ Typed'
<1>1. Rests(s) /\ task'[s].pc = "idle"
  BY BecomeIdle DEF Abandon, Typed
<1>2. UNCHANGED <<config, channel, old, row, created, happened, requests>>
  BY DEF Abandon, table
<1>3. CASE At(s, "post") /\ Deliver(s)
  <2>1. accepted' \in [Keys -> SUBSET Nat]
    BY <1>3, DeliverTyped
  <2>2. Typed'
    BY <1>1, <1>2, <2>1, StaysTyped DEF Typed, TypeOK, Rests
  <2> QED
    BY <1>1, <1>2, <1>3, <2>2 DEF Dies
<1>4. CASE UNCHANGED accepted
  BY <1>1, <1>2, <1>4, KeepsTyped DEF Housekeeping, Rests, bark
<1> QED
  BY <1>3, <1>4 DEF Abandon

LEMMA ToggleKind ==
    ASSUME Typed, Toggle
    PROVE  Stands /\ Typed'
<1>1. ASSUME NEW s \in Senders
      PROVE  /\ task'[s] \in Tasks
             /\ task'[s].pc = task[s].pc /\ task'[s].job = task[s].job
             /\ task'[s].chunk = task[s].chunk /\ task'[s].out = task[s].out
             /\ task'[s].left = task[s].left
  <2>1. task[s] \in Tasks /\ config \in BOOLEAN
    BY DEF Typed, TypeOK
  <2>2. task'[s] = [task[s] EXCEPT !.offSince = @ /\ config]
    BY DEF Toggle
  <2>3. (task[s].offSince /\ config) \in BOOLEAN
    OBVIOUS
  <2> DEFINE b == task[s].offSince /\ config
  <2>4. task'[s] = [task[s] EXCEPT !.offSince = b]
    BY <2>2
  <2> HIDE DEF b
  <2> QED
    BY <2>1, <2>3, <2>4 DEF Tasks, b
<1>2. task' \in [Senders -> Tasks]
  BY <1>1 DEF Toggle
<1>3. TypeOK'
  BY <1>2 DEF Typed, TypeOK, Toggle, table, bark
<1>4. HasJob'
  BY <1>1 DEF Typed, HasJob, Job
<1> QED
  BY <1>1, <1>3, <1>4 DEF Stands, Typed, Toggle, table

LEMMA HappenKind ==
    ASSUME Typed, NEW k \in Keys, Happen(k)
    PROVE  Stands /\ Typed'
<1>1. TypeOK'
  BY DEF Typed, TypeOK, Happen, table, bark
<1>2. HasJob'
  BY DEF Typed, HasJob, Job, Happen
<1> QED
  BY <1>1, <1>2 DEF Stands, Typed, Happen, table

LEMMA TickKind ==
    ASSUME Typed, Tick
    PROVE  Ages /\ Typed'
<1>1. ASSUME NEW s \in Senders
      PROVE  /\ task'[s] \in Tasks
             /\ task'[s].pc = task[s].pc /\ task'[s].job = task[s].job
             /\ task'[s].chunk = task[s].chunk /\ task'[s].out = task[s].out
             /\ task'[s].left = Less(task[s].left)
  <2>1. task[s] \in Tasks
    BY DEF Typed, TypeOK
  <2>2. task'[s] = [task[s] EXCEPT !.left = Less(task[s].left)]
    BY DEF Tick
  <2>3. task[s].left \in 0..Lease
    BY <2>1 DEF Tasks
  <2>4. Less(task[s].left) \in 0..Lease
    BY <2>3 DEF Less, QueueAssumption
  <2> QED
    BY <2>1, <2>2, <2>4 DEF Tasks
<1>2. ASSUME NEW k \in Keys
      PROVE  /\ row'[k] \in Rows
             /\ row'[k].lease = Less(row[k].lease) /\ row'[k].next = Less(row[k].next)
             /\ row'[k].life = Less(row[k].life)
             /\ row'[k].status = row[k].status /\ row'[k].owner = row[k].owner
             /\ row'[k].doubt = row[k].doubt
             /\ row'[k].confirmed = row[k].confirmed /\ row'[k].tries = row[k].tries
             /\ row[k].lease = 0 /\ row[k].next = 0 /\ row[k].life = 0 => row'[k] = row[k]
  <2>1. row[k] \in Rows
    BY DEF Typed, TypeOK
  <2>2. row'[k] = [row[k] EXCEPT !.lease = Less(@), !.next = Less(@), !.life = Less(@)]
    BY DEF Tick
  <2>3. PICK r \in Rows : r = row[k]
    BY <2>1
  <2>4. row'[k] = [r EXCEPT !.lease = Less(@), !.next = Less(@), !.life = Less(@)]
    BY <2>2, <2>3
  <2>5. PICK q : q = row'[k]
    OBVIOUS
  <2>6. q = [r EXCEPT !.lease = Less(@), !.next = Less(@), !.life = Less(@)]
    BY <2>4, <2>5
  <2>7. /\ q \in Rows
        /\ q.lease = Less(r.lease) /\ q.next = Less(r.next) /\ q.life = Less(r.life)
        /\ q.status = r.status /\ q.owner = r.owner /\ q.doubt = r.doubt
        /\ q.confirmed = r.confirmed /\ q.tries = r.tries
        /\ r.lease = 0 /\ r.next = 0 /\ r.life = 0 => q = r
    BY <2>6, TickRow, Zenon
  <2> QED
    BY <2>3, <2>5, <2>7
<1>3. task' \in [Senders -> Tasks] /\ row' \in [Keys -> Rows]
  BY <1>1, <1>2 DEF Tick
<1>4. TypeOK'
  BY <1>3 DEF Typed, TypeOK, Tick, bark
<1>5. HasJob'
  BY <1>1 DEF Typed, HasJob, Job
<1> QED
  BY <1>1, <1>2, <1>4, <1>5 DEF Ages, Typed, Tick

LEMMA StutterKind ==
    ASSUME Typed, UNCHANGED vars
    PROVE  Stands /\ Typed'
  BY DEF Typed, TypeOK, HasJob, Job, Stands, vars, bark

\* Every step is of one of the kinds.
LEMMA StepKinds ==
    ASSUME Typed, [Next]_vars
    PROVE  Kinds /\ Typed'
<1>1. ASSUME NEW s \in Senders, Begin(s) \/ Work(s) \/ Abandon(s)
      PROVE  Kinds /\ Typed'
  BY <1>1, BeginKind, SyncKind, DueKind, StageKind, LoadKind, ResyncKind, ClaimKind,
     SourceKind, DecideKind, AnswerKind, FinishKind, AbandonKind DEF Work, Kinds
<1>2. ASSUME NEW s \in Senders, NEW k \in Keys, Enter(s, k)
      PROVE  Kinds /\ Typed'
  BY <1>2, EnterKind DEF Kinds
<1>3. ASSUME NEW k \in Keys, Happen(k)
      PROVE  Kinds /\ Typed'
  BY <1>3, HappenKind DEF Kinds
<1>4. CASE Toggle
  BY <1>4, ToggleKind DEF Kinds
<1>5. CASE Tick
  BY <1>5, TickKind DEF Kinds
<1>6. CASE UNCHANGED vars
  BY <1>6, StutterKind DEF Kinds
<1> QED
  BY <1>1, <1>2, <1>3, <1>4, <1>5, <1>6 DEF Next

LEMMA InitTyped ==
    ASSUME Init
    PROVE  Typed
<1>1. NoRow \in Rows
  BY QueueAssumption DEF NoRow, Rows, QueueAssumption
<1>2. TypeOK
  BY <1>1, IdleTask DEF Init, TypeOK
<1>3. HasJob
  BY IdleTask DEF Init, HasJob
<1> QED
  BY <1>2, <1>3 DEF Typed

LEMMA AlwaysTyped == Spec => []Typed
  BY InitTyped, StepKinds, PTL DEF Spec

\* The columns and the tasks stay in their domains, for any number of events
\* and senders and any limits.
THEOREM QueueTypeCorrect == Spec => []TypeOK
<1>1. Typed => TypeOK
  BY DEF Typed
<1> QED
  BY <1>1, AlwaysTyped, PTL

\* What a step is to one sender.
LEMMA OwnStep ==
    ASSUME Kinds, NEW s \in Senders
    PROVE  \/ Stands \/ Ages \/ task'[s] = task[s]
           \/ Housekeeping(s) \/ Claims(s) \/ Posts(s) \/ Answers(s)
           \/ Dies(s) \/ Confirms(s) \/ Refuses(s)
<1>1. ASSUME NEW t \in Senders, t # s,
             \/ Housekeeping(t) \/ Claims(t) \/ Posts(t) \/ Answers(t)
             \/ Dies(t) \/ Confirms(t) \/ Refuses(t)
      PROVE  task'[s] = task[s]
  BY <1>1 DEF Housekeeping, Claims, Posts, Answers, Dies, Confirms, Refuses, Rests,
              Proceeds, Alone
<1> QED
  BY <1>1 DEF Kinds

(***************************************************************************)
(* Finished rows.                                                          *)
(***************************************************************************)
\* A row that is finished with has no instants that could pass.
Quiet ==
    \A k \in Keys : row[k].status \in Settled =>
        row[k].lease = 0 /\ row[k].next = 0 /\ row[k].life = 0

LEMMA SettledRowStays ==
    ASSUME Typed, Quiet, Kinds, NEW k \in Keys, row[k].status \in Settled
    PROVE  row'[k] = row[k]
<1>1. CASE Stands
  BY <1>1 DEF Stands
<1>2. CASE Ages
  BY <1>2 DEF Ages, Quiet
<1>3. ASSUME NEW s \in Senders, Housekeeping(s)
      PROVE  row'[k] = row[k]
  BY <1>3 DEF Housekeeping, Tidies, Kept, Settled, Open
<1>4. ASSUME NEW s \in Senders, Claims(s)
      PROVE  row'[k] = row[k]
  <2>1. row[Job(s)].status = "pending"
    BY <1>4 DEF Claims, Claimable, IsDue
  <2>2. k # Job(s)
    BY <2>1 DEF Settled
  <2> QED
    BY <1>4, <2>2 DEF Claims, Typed, TypeOK
<1>5. ASSUME NEW s \in Senders, Posts(s) \/ Answers(s) \/ Dies(s)
      PROVE  row'[k] = row[k]
  BY <1>5 DEF Posts, Answers, Dies
<1>6. ASSUME NEW s \in Senders, Confirms(s) \/ Refuses(s)
      PROVE  row'[k] = row[k]
  <2>1. row[Job(s)].status = "delivering"
    BY <1>6 DEF Confirms, Refuses, HoldsLease
  <2>2. k # Job(s)
    BY <2>1 DEF Settled
  <2> QED
    BY <1>6, <2>2 DEF Confirms, Refuses, Typed, TypeOK
<1> QED
  BY <1>1, <1>2, <1>3, <1>4, <1>5, <1>6 DEF Kinds

\* What a finish makes of the row, and of no other.
LEMMA FinishedRow ==
    ASSUME Typed, NEW s \in Senders, Confirms(s) \/ Refuses(s)
    PROVE  LET k == Job(s)
           IN /\ k \in Keys /\ row[k].status = "delivering" /\ row[k].owner = s
              /\ \A j \in Keys \ {k} : row'[j] = row[j]
              /\ row'[k].lease = 0
              /\ \/ row'[k].status = "pending"
                 \/ /\ row'[k].status \in Settled
                    /\ row'[k].next = 0 /\ row'[k].life = 0
<1> DEFINE k == Job(s)
<1>1. /\ task[s].pc = "finish" /\ k \in Keys
      /\ row[k].status = "delivering" /\ row[k].owner = s
      /\ row[k] \in Rows /\ task[s].chunk \in Nat
  BY DEF Confirms, Refuses, At, HoldsLease, Typed, HasJob, TypeOK, Tasks
<1>2. CASE Confirms(s)
  <2>1. row'[k] = Confirm(row[k], task[s].chunk, Chunks[k])
        /\ \A j \in Keys \ {k} : row'[j] = row[j]
    BY <1>1, <1>2 DEF Confirms, Typed, TypeOK
  <2> QED
    BY <1>1, <2>1, ConfirmRow DEF Settled
<1>3. CASE Refuses(s)
  <2>1. PICK delay \in Nat : row' = [row EXCEPT ![k] = Refuse(@, task[s].out, delay)]
    BY <1>3 DEF Refuses
  <2>2. row'[k] = Refuse(row[k], task[s].out, delay)
        /\ \A j \in Keys \ {k} : row'[j] = row[j]
    BY <1>1, <2>1 DEF Typed, TypeOK
  <2> QED
    BY <1>1, <2>2, RefuseRow DEF Settled
<1> QED
  BY <1>2, <1>3

LEMMA QuietStep ==
    ASSUME Typed, Quiet, Kinds
    PROVE  Quiet'
<1> SUFFICES ASSUME NEW k \in Keys, row'[k].status \in Settled
             PROVE  row'[k].lease = 0 /\ row'[k].next = 0 /\ row'[k].life = 0
  BY DEF Quiet
<1>0. row[k] \in Rows
  BY DEF Typed, TypeOK
<1>1. CASE row'[k] = row[k]
  BY <1>1 DEF Quiet
<1>2. CASE Ages
  BY <1>0, <1>2 DEF Ages, Quiet, Less
<1>3. ASSUME NEW s \in Senders, Housekeeping(s)
      PROVE  row'[k].lease = 0 /\ row'[k].next = 0 /\ row'[k].life = 0
  BY <1>3 DEF Housekeeping, Tidies, Kept, Settled, Open, Quiet
<1>4. ASSUME NEW s \in Senders, Claims(s), k = Job(s)
      PROVE  FALSE
  <2>1. row'[k] = Claimed(row[k], s) /\ row[k].tries < MaxTries
    BY <1>4 DEF Claims, Claimable, IsDue, Typed, TypeOK
  <2>2. row'[k].status = "delivering"
    BY <1>0, <2>1, ClaimedRow
  <2> QED
    BY <2>2 DEF Settled
<1>5. ASSUME NEW s \in Senders, Claims(s), k # Job(s)
      PROVE  row'[k] = row[k]
  BY <1>5 DEF Claims, Typed, TypeOK
<1>6. ASSUME NEW s \in Senders, Confirms(s) \/ Refuses(s), row'[k] # row[k]
      PROVE  row'[k].lease = 0 /\ row'[k].next = 0 /\ row'[k].life = 0
  BY <1>6, FinishedRow DEF Settled
<1>7. ASSUME NEW s \in Senders, Posts(s) \/ Answers(s) \/ Dies(s)
      PROVE  row'[k] = row[k]
  BY <1>7 DEF Posts, Answers, Dies
<1>8. CASE Stands
  BY <1>1, <1>8 DEF Stands
<1> QED
  BY <1>1, <1>2, <1>3, <1>4, <1>5, <1>6, <1>7, <1>8 DEF Kinds

\* A finished row is never touched again: neither a late answer, nor the
\* recovery of a lease, nor a second event with the same key replays it.
THEOREM QueueSettledIsFinal == Spec => SettledIsFinal
<1>1. Init => Quiet
  BY DEF Init, Quiet, NoRow
<1>2. Typed /\ Quiet /\ [Next]_vars => Quiet'
  BY StepKinds, QuietStep
<1>3. Typed /\ Quiet /\ [Next]_vars =>
        [\A k \in Keys : row[k].status \in Settled => row'[k] = row[k]]_vars
  BY StepKinds, SettledRowStays
<1> QED
  BY <1>1, <1>2, <1>3, AlwaysTyped, PTL DEF Spec, SettledIsFinal

(***************************************************************************)
(* Leases.                                                                 *)
(***************************************************************************)
LEMMA LessPositive ==
    ASSUME NEW n, Less(n) > 0
    PROVE  n > 0
  BY DEF Less

Holds(s) == AtWork(s) /\ HoldsLease(s, Job(s))

\* A sender at work on a row it has the lease of has just claimed it, or had
\* the lease before; nobody else has touched the row since.
LEMMA LeaseFrom ==
    ASSUME Typed, Kinds, NEW s \in Senders, Holds(s)'
    PROVE  \/ Claims(s)
           \/ /\ Holds(s)
              /\ task'[s].job = task[s].job /\ task'[s].chunk = task[s].chunk
              /\ row'[Job(s)].confirmed = row[Job(s)].confirmed
              /\ row'[Job(s)].tries = row[Job(s)].tries
              /\ row'[Job(s)].doubt = row[Job(s)].doubt
<1> DEFINE k == task'[s].job
<1>1. /\ task'[s].pc \in Working
      /\ row'[k].status = "delivering" /\ row'[k].owner = s /\ row'[k].lease > 0
  BY DEF Holds, AtWork, HoldsLease, Job
<1>2. CASE Stands
  BY <1>1, <1>2 DEF Stands, Holds, AtWork, HoldsLease, Job
<1>3. CASE Ages
  <2>1. task[s].pc \in Working /\ k = task[s].job /\ task'[s].chunk = task[s].chunk
    BY <1>1, <1>3 DEF Ages
  <2>2. k \in Keys /\ row[k] \in Rows
    BY <2>1 DEF Working, Typed, HasJob, Job, TypeOK
  <2>3. /\ row'[k].lease = Less(row[k].lease)
        /\ row'[k].status = row[k].status /\ row'[k].owner = row[k].owner
        /\ row'[k].doubt = row[k].doubt
        /\ row'[k].confirmed = row[k].confirmed /\ row'[k].tries = row[k].tries
    BY <1>3, <2>2 DEF Ages
  <2>4. row[k].lease > 0
    BY <1>1, <2>3, LessPositive
  <2> QED
    BY <1>1, <2>1, <2>3, <2>4 DEF Holds, AtWork, HoldsLease, Job
<1>4. ASSUME NEW t \in Senders, Housekeeping(t)
      PROVE  /\ Holds(s)
             /\ task'[s].job = task[s].job /\ task'[s].chunk = task[s].chunk
             /\ row'[k] = row[k]
  <2>1. /\ task[s].pc \in Working
        /\ k = task[s].job /\ task'[s].chunk = task[s].chunk
    BY <1>1, <1>4 DEF Housekeeping, Rests, Proceeds, Alone, AtWork
  <2>2. k \in Keys
    BY <2>1 DEF Working, Typed, HasJob, Job
  <2>3. row'[k] = row[k]
    BY <1>1, <1>4, <2>2 DEF Housekeeping, Tidies, Kept
  <2> QED
    BY <1>1, <2>1, <2>3 DEF Holds, AtWork, HoldsLease, Job
<1>5. ASSUME NEW t \in Senders, Claims(t), t # s
      PROVE  /\ Holds(s)
             /\ task'[s].job = task[s].job /\ task'[s].chunk = task[s].chunk
             /\ row'[k] = row[k]
  <2>1. task'[s] = task[s]
    BY <1>5 DEF Claims, Alone
  <2>2. k \in Keys
    BY <1>1, <2>1 DEF Working, Typed, HasJob, Job
  <2>3. row[Job(t)].tries < MaxTries /\ row' = [row EXCEPT ![Job(t)] = Claimed(@, t)]
    BY <1>5 DEF Claims, Claimable, IsDue
  <2>4. k # Job(t)
    <3>1. ASSUME k = Job(t)
          PROVE  FALSE
      <4>1. row'[k] = Claimed(row[k], t) /\ row[k] \in Rows /\ row[k].tries < MaxTries
        BY <2>2, <2>3, <3>1 DEF Typed, TypeOK
      <4>2. row'[k].owner = t
        BY <4>1, ClaimedRow
      <4> QED
        BY <1>1, <1>5, <4>2
    <3> QED
      BY <3>1
  <2>5. row'[k] = row[k]
    BY <2>2, <2>3, <2>4 DEF Typed, TypeOK
  <2> QED
    BY <1>1, <2>1, <2>5 DEF Holds, AtWork, HoldsLease, Job
<1>6. ASSUME NEW t \in Senders, Posts(t) \/ Answers(t) \/ Dies(t)
      PROVE  /\ Holds(s)
             /\ task'[s].job = task[s].job /\ task'[s].chunk = task[s].chunk
             /\ row'[k] = row[k]
  <2>1. row' = row
    BY <1>6 DEF Posts, Answers, Dies
  <2>2. /\ task[s].pc \in Working
        /\ k = task[s].job /\ task'[s].chunk = task[s].chunk
    BY <1>1, <1>6 DEF Posts, Answers, Dies, Rests, Proceeds, Alone, AtWork
  <2> QED
    BY <1>1, <2>1, <2>2 DEF Holds, AtWork, HoldsLease, Job
<1>7. ASSUME NEW t \in Senders, Confirms(t) \/ Refuses(t)
      PROVE  /\ Holds(s)
             /\ task'[s].job = task[s].job /\ task'[s].chunk = task[s].chunk
             /\ row'[k] = row[k]
  <2>1. t # s /\ task'[s] = task[s]
    BY <1>1, <1>7 DEF Confirms, Refuses, Rests, Alone
  <2>2. k \in Keys
    BY <1>1, <2>1 DEF Working, Typed, HasJob, Job
  <2>3. row'[Job(t)].lease = 0 /\ \A j \in Keys \ {Job(t)} : row'[j] = row[j]
    BY <1>7, FinishedRow
  <2>4. row'[k] = row[k]
    BY <1>1, <2>2, <2>3
  <2> QED
    BY <1>1, <2>1, <2>4 DEF Holds, AtWork, HoldsLease, Job
<1> HIDE DEF k
<1>8. ASSUME Holds(s), task'[s].job = task[s].job, task'[s].chunk = task[s].chunk,
             row'[k] = row[k]
      PROVE  /\ Holds(s)
             /\ task'[s].job = task[s].job /\ task'[s].chunk = task[s].chunk
             /\ row'[Job(s)].confirmed = row[Job(s)].confirmed
             /\ row'[Job(s)].tries = row[Job(s)].tries
             /\ row'[Job(s)].doubt = row[Job(s)].doubt
  BY <1>8 DEF k, Job
<1> QED
  BY <1>2, <1>3, <1>4, <1>5, <1>6, <1>7, <1>8 DEF Kinds

LEMMA ClaimsRow ==
    ASSUME Typed, NEW s \in Senders, Claims(s)
    PROVE  LET k == Job(s)
           IN /\ k \in Keys /\ row[k].status = "pending" /\ row[k].next = 0
              /\ \A j \in Keys \ {k} : row'[j] = row[j]
              /\ row'[k].status = "delivering" /\ row'[k].owner = s
              /\ row'[k].tries = row[k].tries + 1
              /\ row'[k].confirmed = row[k].confirmed /\ row'[k].doubt = row[k].doubt
<1> DEFINE k == Job(s)
<1>1. /\ k \in Keys /\ row[k] \in Rows
      /\ row[k].status = "pending" /\ row[k].next = 0 /\ row[k].tries < MaxTries
  BY DEF Claims, At, Claimable, IsDue, Typed, HasJob, TypeOK
<1>2. row'[k] = Claimed(row[k], s) /\ \A j \in Keys \ {k} : row'[j] = row[j]
  BY <1>1 DEF Claims, Typed, TypeOK
<1> QED
  BY <1>1, <1>2, ClaimedRow

\* The lease is for the first chunk that is not confirmed.
LeaseIsForNext == \A s \in Senders : Holds(s) => task[s].chunk = row[Job(s)].confirmed

LEMMA LeaseIsForNextStep ==
    ASSUME Typed, LeaseIsForNext, Kinds
    PROVE  LeaseIsForNext'
<1> SUFFICES ASSUME NEW s \in Senders, Holds(s)'
             PROVE  task'[s].chunk = row'[task'[s].job].confirmed
  BY DEF LeaseIsForNext, Job
<1>1. CASE Claims(s)
  <2>1. task'[s].chunk = row[Job(s)].confirmed /\ task'[s].job = Job(s)
    BY <1>1 DEF Claims, Job
  <2> QED
    BY <1>1, <2>1, ClaimsRow
<1>2. CASE ~Claims(s)
  BY <1>2, LeaseFrom DEF LeaseIsForNext, Job
<1> QED
  BY <1>1, <1>2

(***************************************************************************)
(* Acknowledgements.                                                       *)
(***************************************************************************)
LEMMA AcceptedGrows ==
    ASSUME Typed, Kinds, NEW k \in Keys
    PROVE  accepted[k] \subseteq accepted'[k]
<1>1. \/ accepted' = accepted
      \/ \E s \in Senders : Deliver(s)
  BY DEF Kinds, Stands, Ages, Housekeeping, Claims, Posts, Answers, Dies, Confirms,
         Refuses, bark
<1> QED
  BY <1>1 DEF Deliver, Typed, TypeOK

\* Only an acknowledgement moves the count of a row or calls it sent.
LEMMA ConfirmedMoves ==
    ASSUME Typed, Kinds, NEW k \in Keys
    PROVE  \/ /\ row'[k].confirmed = row[k].confirmed
              /\ row'[k].status = "sent" => row[k].status = "sent"
           \/ \E s \in Senders : Confirms(s) /\ k = Job(s)
<1> DEFINE Same == /\ row'[k].confirmed = row[k].confirmed
                   /\ row'[k].status = "sent" => row[k].status = "sent"
<1>1. CASE Stands
  BY <1>1 DEF Stands
<1>2. CASE Ages
  BY <1>2 DEF Ages
<1>3. ASSUME NEW s \in Senders, Housekeeping(s)
      PROVE  Same
  <2>1. Kept(row[k], row'[k])
    BY <1>3 DEF Housekeeping, Tidies
  <2> QED
    BY <2>1 DEF Kept
<1>4. ASSUME NEW s \in Senders, Claims(s)
      PROVE  Same
  BY <1>4, ClaimsRow
<1>5. ASSUME NEW s \in Senders, Posts(s) \/ Answers(s) \/ Dies(s)
      PROVE  Same
  BY <1>5 DEF Posts, Answers, Dies
<1>6. ASSUME NEW s \in Senders, Confirms(s) \/ Refuses(s), k # Job(s)
      PROVE  Same
  BY <1>6, FinishedRow
<1>7. ASSUME NEW s \in Senders, Refuses(s), k = Job(s)
      PROVE  Same
  <2>1. PICK delay \in Nat : row' = [row EXCEPT ![k] = Refuse(@, task[s].out, delay)]
    BY <1>7 DEF Refuses
  <2>2. row'[k] = Refuse(row[k], task[s].out, delay) /\ row[k] \in Rows
    BY <2>1 DEF Typed, TypeOK
  <2> QED
    BY <2>2, RefuseRow
<1> QED
  BY <1>1, <1>2, <1>3, <1>4, <1>5, <1>6, <1>7 DEF Kinds

LEMMA ConfirmsRow ==
    ASSUME Typed, NEW s \in Senders, Confirms(s)
    PROVE  LET k == Job(s)
           IN /\ k \in Keys /\ Holds(s) /\ task[s].chunk \in Nat
              /\ \A j \in Keys \ {k} : row'[j] = row[j]
              /\ row'[k].confirmed = task[s].chunk + 1
              /\ row'[k].tries = 0 /\ ~row'[k].doubt /\ row'[k].lease = 0
              /\ row'[k].status \in {"pending", "sent", "failed"}
              /\ row'[k].status = "sent" => row'[k].confirmed = Chunks[k]
<1> DEFINE k == Job(s)
<1>1. /\ task[s].pc = "finish" /\ k \in Keys /\ HoldsLease(s, k)
      /\ row[k] \in Rows /\ task[s].chunk \in Nat
  BY DEF Confirms, At, Typed, HasJob, TypeOK, Tasks
<1>2. /\ row'[k] = Confirm(row[k], task[s].chunk, Chunks[k])
      /\ \A j \in Keys \ {k} : row'[j] = row[j]
  BY <1>1 DEF Confirms, Typed, TypeOK
<1>3. Holds(s)
  BY <1>1 DEF Holds, AtWork, Working
<1> QED
  BY <1>1, <1>2, <1>3, ConfirmRow

\* An acknowledgement in hand is one Bark gave.
Acknowledged ==
    \A s \in Senders : At(s, "finish") /\ task[s].out = "accepted" =>
        task[s].chunk \in accepted[Job(s)]

LEMMA AcknowledgedStep ==
    ASSUME Typed, Acknowledged, Kinds
    PROVE  Acknowledged'
<1> SUFFICES ASSUME NEW s \in Senders, task'[s].pc = "finish", task'[s].out = "accepted"
             PROVE  task'[s].chunk \in accepted'[task'[s].job]
  BY DEF Acknowledged, At, Job
<1>1. CASE Answers(s)
  <2>1. /\ task'[s].job = Job(s) /\ task'[s].chunk = task[s].chunk
        /\ task[s].pc = "post" /\ Deliver(s)
    BY <1>1 DEF Answers, Proceeds, Job, At
  <2>2. Job(s) \in Keys
    BY <2>1 DEF Typed, HasJob
  <2> QED
    BY <2>1, <2>2 DEF Deliver, Typed, TypeOK
<1>2. CASE ~Answers(s)
  <2>1. /\ task[s].pc = "finish" /\ task[s].out = "accepted"
        /\ task'[s].job = Job(s) /\ task'[s].chunk = task[s].chunk
    <3>1. CASE Stands \/ Ages
      BY <3>1 DEF Stands, Ages, Job
    <3>2. ~(Housekeeping(s) \/ Claims(s) \/ Posts(s) \/ Dies(s) \/ Confirms(s) \/ Refuses(s))
      BY DEF Housekeeping, Claims, Posts, Dies, Confirms, Refuses, Rests, Working
    <3> QED
      BY <1>2, <3>1, <3>2, OwnStep DEF Job
  <2>2. Job(s) \in Keys /\ task[s].chunk \in accepted[Job(s)]
    BY <2>1 DEF Typed, HasJob, Acknowledged, At
  <2> QED
    BY <2>1, <2>2, AcceptedGrows
<1> QED
  BY <1>1, <1>2

LEMMA ConfirmedWasAcceptedStep ==
    ASSUME Typed, LeaseIsForNext, Acknowledged, ConfirmedWasAccepted, Kinds
    PROVE  ConfirmedWasAccepted'
<1> SUFFICES ASSUME NEW k \in Keys
             PROVE  /\ 0..(row'[k].confirmed - 1) \subseteq accepted'[k]
                    /\ row'[k].status = "sent" => row'[k].confirmed = Chunks[k]
  BY DEF ConfirmedWasAccepted
<1>1. accepted[k] \subseteq accepted'[k]
  BY AcceptedGrows
<1>2. CASE /\ row'[k].confirmed = row[k].confirmed
           /\ row'[k].status = "sent" => row[k].status = "sent"
  BY <1>1, <1>2 DEF ConfirmedWasAccepted
<1>3. ASSUME NEW s \in Senders, Confirms(s), k = Job(s)
      PROVE  /\ 0..(row'[k].confirmed - 1) \subseteq accepted'[k]
             /\ row'[k].status = "sent" => row'[k].confirmed = Chunks[k]
  <2> DEFINE c == task[s].chunk
  <2>1. /\ row'[k].confirmed = c + 1 /\ c \in Nat /\ Holds(s)
        /\ row'[k].status = "sent" => row'[k].confirmed = Chunks[k]
    BY <1>3, ConfirmsRow
  <2>2. c = row[k].confirmed
    BY <1>3, <2>1 DEF LeaseIsForNext
  <2>3. c \in accepted[k]
    BY <1>3 DEF Acknowledged, Confirms
  <2>4. 0..(c - 1) \subseteq accepted[k]
    BY <2>2 DEF ConfirmedWasAccepted
  <2> HIDE DEF c
  <2>5. 0..c \subseteq accepted[k]
    BY <2>1, <2>3, <2>4
  <2>6. (c + 1) - 1 = c
    BY <2>1
  <2> QED
    BY <1>1, <2>1, <2>5, <2>6
<1> QED
  BY <1>2, <1>3, ConfirmedMoves

\* A chunk is confirmed only if Bark accepted it, and a message is sent only
\* if all of its chunks are confirmed, however many senders work on a row.
THEOREM QueueConfirmedWasAccepted == Spec => []ConfirmedWasAccepted
<1> DEFINE Inv == LeaseIsForNext /\ Acknowledged /\ ConfirmedWasAccepted
<1>1. Init => Inv
  BY IdleTask DEF Init, NoRow, LeaseIsForNext, Acknowledged, ConfirmedWasAccepted, Holds,
                  AtWork, Working, At
<1>2. Typed /\ Inv /\ [Next]_vars => Inv'
  BY StepKinds, LeaseIsForNextStep, AcknowledgedStep, ConfirmedWasAcceptedStep
<1>3. Inv => ConfirmedWasAccepted
  OBVIOUS
<1> HIDE DEF Inv
<1> QED
  BY <1>1, <1>2, <1>3, AlwaysTyped, PTL DEF Spec

(***************************************************************************)
(* Requests are counted.                                                   *)
(***************************************************************************)
BeforePost == {"source", "load2", "sync2", "decide"}

\* A request is counted when it is made, an attempt when it is claimed; the
\* sender that holds the lease has one attempt for the request it may make.
Counted ==
    /\ \A k \in Keys : requests[k] <= row[k].tries
    /\ \A s \in Senders : Holds(s) /\ task[s].pc \in BeforePost =>
           requests[Job(s)] < row[Job(s)].tries

\* The attempts of a row go down only when its count of requests does.
LEMMA TriesMove ==
    ASSUME Typed, Kinds, NEW k \in Keys, ~\E s \in Senders : Confirms(s) /\ k = Job(s)
    PROVE  row'[k].tries >= row[k].tries
<1>0. row[k].tries \in Nat
  BY QueueAssumption DEF Typed, TypeOK, Rows, QueueAssumption
<1>1. CASE Stands
  BY <1>0, <1>1 DEF Stands
<1>2. CASE Ages
  BY <1>0, <1>2 DEF Ages
<1>3. ASSUME NEW s \in Senders, Housekeeping(s)
      PROVE  row'[k].tries >= row[k].tries
  BY <1>0, <1>3 DEF Housekeeping, Tidies, Kept
<1>4. ASSUME NEW s \in Senders, Claims(s)
      PROVE  row'[k].tries >= row[k].tries
  BY <1>0, <1>4, ClaimsRow
<1>5. ASSUME NEW s \in Senders, Posts(s) \/ Answers(s) \/ Dies(s)
      PROVE  row'[k].tries >= row[k].tries
  BY <1>0, <1>5 DEF Posts, Answers, Dies
<1>6. ASSUME NEW s \in Senders, Confirms(s) \/ Refuses(s), k # Job(s)
      PROVE  row'[k].tries >= row[k].tries
  BY <1>0, <1>6, FinishedRow
<1>7. ASSUME NEW s \in Senders, Refuses(s), k = Job(s)
      PROVE  row'[k].tries >= row[k].tries
  <2>1. PICK delay \in Nat : row' = [row EXCEPT ![k] = Refuse(@, task[s].out, delay)]
    BY <1>7 DEF Refuses
  <2>2. row'[k] = Refuse(row[k], task[s].out, delay) /\ row[k] \in Rows
    BY <2>1 DEF Typed, TypeOK
  <2>3. row'[k].tries = row[k].tries
    BY <2>2, RefuseRow
  <2> QED
    BY <1>0, <2>3
<1> QED
  BY <1>1, <1>2, <1>3, <1>4, <1>5, <1>6, <1>7 DEF Kinds

\* Only a request and an acknowledgement change the count of requests.
LEMMA RequestsMove ==
    ASSUME Typed, Kinds, NEW k \in Keys
    PROVE  \/ requests'[k] = requests[k]
           \/ \E s \in Senders : Posts(s) /\ k = Job(s) /\ requests'[k] = requests[k] + 1
           \/ \E s \in Senders : Confirms(s) /\ k = Job(s) /\ requests'[k] = 0
<1>1. CASE UNCHANGED requests
  BY <1>1
<1>2. ASSUME NEW s \in Senders, Posts(s)
      PROVE  requests'[k] = IF k = Job(s) THEN requests[k] + 1 ELSE requests[k]
  BY <1>2 DEF Posts, Typed, TypeOK
<1>3. ASSUME NEW s \in Senders, Confirms(s)
      PROVE  requests'[k] = IF k = Job(s) THEN 0 ELSE requests[k]
  BY <1>3 DEF Confirms, Typed, TypeOK
<1>4. \/ UNCHANGED requests
      \/ \E s \in Senders : Posts(s) \/ Confirms(s)
  BY DEF Kinds, Stands, Ages, Housekeeping, Claims, Answers, Dies, Refuses, bark
<1> QED
  BY <1>1, <1>2, <1>3, <1>4

LEMMA CountedStep ==
    ASSUME Typed, Typed', Counted, Kinds
    PROVE  Counted'
<1>0. ASSUME NEW k \in Keys
      PROVE  /\ requests[k] \in Nat /\ row[k].tries \in Nat
             /\ requests'[k] \in Nat /\ row'[k].tries \in Nat
  BY QueueAssumption DEF Typed, TypeOK, Rows, QueueAssumption
<1>1. ASSUME NEW k \in Keys
      PROVE  requests'[k] <= row'[k].tries
  <2>1. ASSUME NEW s \in Senders, Confirms(s), k = Job(s)
        PROVE  requests'[k] <= row'[k].tries
    BY <1>0, <2>1 DEF Confirms, Typed, TypeOK
  <2>2. ASSUME NEW s \in Senders, Posts(s), k = Job(s), requests'[k] = requests[k] + 1
        PROVE  requests'[k] <= row'[k].tries
    <3>1. Holds(s) /\ task[s].pc \in BeforePost
      BY <2>2 DEF Posts, At, MaySend, Holds, AtWork, Working, BeforePost
    <3>2. requests[k] < row[k].tries /\ row' = row
      BY <2>2, <3>1 DEF Counted, Posts
    <3> QED
      BY <1>0, <2>2, <3>2
  <2>3. CASE requests'[k] = requests[k] /\ ~\E s \in Senders : Confirms(s) /\ k = Job(s)
    <3>1. row'[k].tries >= row[k].tries
      BY <2>3, TriesMove
    <3> QED
      BY <1>0, <2>3, <3>1 DEF Counted
  <2> QED
    BY <2>1, <2>2, <2>3, RequestsMove
<1>2. ASSUME NEW s \in Senders, Holds(s)', task'[s].pc \in BeforePost
      PROVE  requests'[task'[s].job] < row'[task'[s].job].tries
  <2>1. CASE Claims(s)
    <3>1. task'[s].job = Job(s) /\ requests' = requests
      BY <2>1 DEF Claims, Job, bark
    <3>2. Job(s) \in Keys /\ row'[Job(s)].tries = row[Job(s)].tries + 1
      BY <2>1, ClaimsRow
    <3>3. requests[Job(s)] <= row[Job(s)].tries
      BY <3>2 DEF Counted
    <3> QED
      BY <1>0, <3>1, <3>2, <3>3
  <2>2. CASE ~Claims(s)
    <3> DEFINE k == Job(s)
    <3>1. /\ Holds(s) /\ task'[s].job = k
          /\ row'[k].tries = row[k].tries
      BY <1>2, <2>2, LeaseFrom DEF Job
    <3>2. k \in Keys
      BY <3>1 DEF Holds, AtWork, Working, Typed, HasJob
    <3>3. task[s].pc \in BeforePost
      <4>1. CASE Stands \/ Ages
        BY <1>2, <4>1 DEF Stands, Ages
      <4>2. Housekeeping(s) => task[s].pc \in BeforePost
        BY <1>2 DEF Housekeeping, Rests, BeforePost, Working
      <4>3. ~(Posts(s) \/ Answers(s) \/ Dies(s) \/ Confirms(s) \/ Refuses(s))
        BY <1>2 DEF Posts, Answers, Dies, Confirms, Refuses, Rests, Working, BeforePost
      <4> QED
        BY <1>2, <2>2, <4>1, <4>2, <4>3, OwnStep
    <3>4. requests[k] < row[k].tries
      BY <3>1, <3>3 DEF Counted
    <3>5. ~\E t \in Senders : Posts(t) /\ k = Job(t)
      <4>1. ASSUME NEW t \in Senders, Posts(t), k = Job(t)
            PROVE  FALSE
        <5>1. row[k].owner = t /\ task'[t].pc = "post"
          BY <4>1 DEF Posts, MaySend, HoldsLease
        <5>2. row[k].owner = s
          BY <3>1 DEF Holds, HoldsLease
        <5> QED
          BY <1>2, <5>1, <5>2 DEF BeforePost
      <4> QED
        BY <4>1
    <3>6. requests'[k] = requests[k] \/ requests'[k] = 0
      BY <3>2, <3>5, RequestsMove
    <3> HIDE DEF k
    <3> QED
      BY <1>0, <3>1, <3>2, <3>4, <3>6
  <2> QED
    BY <2>1, <2>2
<1> QED
  BY <1>1, <1>2 DEF Counted, Job

\* A chunk never costs more than MaxTries requests, whichever senders make
\* them and however their attempts end.
THEOREM QueueRequestsBounded == Spec => []RequestsBounded
<1>1. Init => Counted
  BY IdleTask DEF Init, NoRow, Counted, Holds, AtWork, Working
<1>2. Typed /\ Counted /\ [Next]_vars => Counted'
  BY StepKinds, CountedStep
<1>3. Typed /\ Counted => RequestsBounded
  <2> SUFFICES ASSUME Typed, Counted, NEW k \in Keys
               PROVE  requests[k] <= MaxTries
    BY DEF RequestsBounded
  <2>1. /\ requests[k] \in Nat /\ row[k].tries \in 0..MaxTries
        /\ requests[k] <= row[k].tries
    BY DEF Typed, TypeOK, Rows, Counted
  <2> QED
    BY <2>1, QueueAssumption DEF QueueAssumption
<1> QED
  BY <1>1, <1>2, <1>3, AlwaysTyped, PTL DEF Spec

(***************************************************************************)
(* Requests do not overlap.                                                *)
(***************************************************************************)
\* The row of a request under way: its sender's lease outlasts the request,
\* or the time of both is up and the row cannot be claimed before more time
\* passes, or the row is finished with.
Covered(s) ==
    LET r == row[Job(s)]
    IN /\ task[s].chunk = r.confirmed
       /\ \/ r.status = "delivering" /\ r.owner = s /\ task[s].left <= r.lease
          \/ r.status = "pending" /\ r.next > 0 /\ task[s].left = 0 /\ r.doubt = TRUE
          \/ r.status \in {"skipped", "unknown"}

Apart ==
    /\ \A s \in Senders : At(s, "post") => Covered(s)
    /\ \A s \in Senders : \A t \in Senders \ {s} :
           At(s, "post") /\ At(t, "post") => Job(s) # Job(t)

LEMMA PostFrom ==
    ASSUME Kinds, NEW s \in Senders, task'[s].pc = "post"
    PROVE  \/ Posts(s)
           \/ /\ At(s, "post")
              /\ task'[s].job = task[s].job /\ task'[s].chunk = task[s].chunk
              /\ Ages \/ task'[s].left = task[s].left
<1>1. CASE Stands \/ Ages \/ task'[s] = task[s]
  BY <1>1 DEF Stands, Ages, At
<1>2. ~(\/ Housekeeping(s) \/ Claims(s) \/ Answers(s)
        \/ Dies(s) \/ Confirms(s) \/ Refuses(s))
  BY DEF Housekeeping, Claims, Answers, Dies, Confirms, Refuses, Rests, Working
<1> QED
  BY <1>1, <1>2, OwnStep

LEMMA PostsCovered ==
    ASSUME Typed, LeaseIsForNext, NEW s \in Senders, Posts(s)
    PROVE  Covered(s)'
<1> DEFINE k == Job(s)
<1>1. /\ row' = row /\ task'[s].job = k /\ task'[s].chunk = task[s].chunk
      /\ task'[s].left = Remaining(k)
      /\ row[k].status = "delivering" /\ row[k].owner = s
      /\ task[s].pc = "decide" /\ HoldsLease(s, k)
  BY DEF Posts, Proceeds, MaySend, HoldsLease, At, Job
<1>2. task[s].chunk = row[k].confirmed
  BY <1>1 DEF LeaseIsForNext, Holds, AtWork, Working
<1>3. k \in Keys
  BY <1>1 DEF Typed, HasJob
<1>4. row[k].lease \in 0..Lease /\ row[k].life \in 0..Lifetime
  BY <1>3 DEF Typed, TypeOK, Rows
<1>5. Remaining(k) <= row[k].lease
  BY <1>4, QueueAssumption DEF Remaining, QueueAssumption
<1> HIDE DEF k
<1> QED
  BY <1>1, <1>2, <1>5 DEF Covered, Job

LEMMA StaysCovered ==
    ASSUME Typed, Kinds, NEW s \in Senders, At(s, "post"), task'[s].pc = "post", Covered(s)
    PROVE  Covered(s)'
<1> DEFINE k == Job(s)
<1>1. k \in Keys /\ row[k] \in Rows /\ task[s].left \in 0..Lease /\ task[s].pc = "post"
  BY DEF At, Typed, HasJob, TypeOK, Tasks
<1>2. ~Posts(s)
  BY <1>1 DEF Posts, At
<1>3. /\ task'[s].job = k /\ task'[s].chunk = task[s].chunk
      /\ Ages \/ task'[s].left = task[s].left
  BY <1>2, PostFrom DEF Job
<1>4. /\ task[s].chunk = row[k].confirmed
      /\ \/ /\ row[k].status = "delivering" /\ row[k].owner = s
            /\ task[s].left <= row[k].lease
         \/ /\ row[k].status = "pending" /\ row[k].next > 0
            /\ task[s].left = 0 /\ row[k].doubt = TRUE
         \/ row[k].status \in {"skipped", "unknown"}
  BY DEF Covered
<1>5. SUFFICES
        /\ task[s].chunk = row'[k].confirmed
        /\ \/ /\ row'[k].status = "delivering" /\ row'[k].owner = s
              /\ task'[s].left <= row'[k].lease
           \/ /\ row'[k].status = "pending" /\ row'[k].next > 0
              /\ task'[s].left = 0 /\ row'[k].doubt = TRUE
           \/ row'[k].status \in {"skipped", "unknown"}
  BY <1>3 DEF Covered, Job
<1>6. row[k].lease \in 0..Lease
  BY <1>1 DEF Rows
<1> HIDE DEF k
<1>7. CASE row'[k] = row[k] /\ ~Ages
  BY <1>3, <1>4, <1>7
<1>8. CASE Ages
  <2>1. /\ task'[s].left = Less(task[s].left) /\ task[s].left > 0
        /\ row'[k].lease = Less(row[k].lease)
        /\ row'[k].status = row[k].status /\ row'[k].owner = row[k].owner
        /\ row'[k].confirmed = row[k].confirmed
    BY <1>1, <1>8 DEF Ages
  <2>2. task[s].left <= row[k].lease => task'[s].left <= row'[k].lease
    BY <1>1, <1>6, <2>1, QueueAssumption DEF Less, QueueAssumption
  <2> QED
    BY <1>4, <2>1, <2>2
<1>9. ASSUME NEW t \in Senders, Housekeeping(t), ~Ages
      PROVE  /\ row'[k].confirmed = row[k].confirmed
             /\ \/ /\ row'[k].status = "delivering" /\ row'[k].owner = s
                   /\ task'[s].left <= row'[k].lease
                \/ /\ row'[k].status = "pending" /\ row'[k].next > 0
                   /\ task'[s].left = 0 /\ row'[k].doubt = TRUE
                \/ row'[k].status \in {"skipped", "unknown"}
  <2>1. Kept(row[k], row'[k]) /\ task'[s].left = task[s].left
    BY <1>1, <1>3, <1>9 DEF Housekeeping, Tidies
  <2>2. row[k].lease = 0 /\ task[s].left <= row[k].lease => task[s].left = 0
    BY <1>1, QueueAssumption DEF QueueAssumption
  <2> QED
    BY <1>4, <2>1, <2>2 DEF Kept, Open
<1>10. ASSUME NEW t \in Senders, Claims(t)
       PROVE  row'[k] = row[k]
  <2>1. k # Job(t)
    BY <1>4, <1>10, ClaimsRow
  <2> QED
    BY <1>1, <1>10, <2>1, ClaimsRow
<1>11. ASSUME NEW t \in Senders, Posts(t) \/ Answers(t) \/ Dies(t)
       PROVE  row'[k] = row[k]
  BY <1>11 DEF Posts, Answers, Dies
<1>12. ASSUME NEW t \in Senders, Confirms(t) \/ Refuses(t)
       PROVE  row'[k] = row[k]
  <2>1. t # s
    BY <1>1, <1>12 DEF Confirms, Refuses, At
  <2>2. k # Job(t)
    BY <1>4, <1>12, <2>1, FinishedRow
  <2> QED
    BY <1>1, <1>12, <2>2, FinishedRow
<1>13. CASE Stands
  <2>1. row'[k] = row[k] /\ task'[s].left = task[s].left
    BY <1>13 DEF Stands
  <2> QED
    BY <1>4, <2>1
<1> QED
  BY <1>4, <1>7, <1>8, <1>9, <1>10, <1>11, <1>12, <1>13 DEF Kinds

LEMMA ApartStep ==
    ASSUME Typed, LeaseIsForNext, Apart, Kinds
    PROVE  Apart'
<1>1. ASSUME NEW s \in Senders, task'[s].pc = "post"
      PROVE  Covered(s)'
  <2>1. CASE Posts(s)
    BY <2>1, PostsCovered
  <2>2. CASE At(s, "post")
    BY <1>1, <2>2, StaysCovered DEF Apart
  <2> QED
    BY <1>1, <2>1, <2>2, PostFrom
<1>2. ASSUME NEW s \in Senders, NEW t \in Senders \ {s}, Posts(s), task'[t].pc = "post"
      PROVE  task'[s].job # task'[t].job
  <2>1. task'[t] = task[t] /\ task[t].pc = "post"
    BY <1>2 DEF Posts, Proceeds, Alone
  <2>2. Covered(t)
    BY <2>1 DEF Apart, At
  <2>3. /\ row[Job(s)].status = "delivering" /\ row[Job(s)].owner = s
        /\ task'[s].job = Job(s)
    BY <1>2 DEF Posts, Proceeds, MaySend, HoldsLease, Job
  <2> QED
    BY <2>1, <2>2, <2>3 DEF Covered, Job
<1>3. ASSUME NEW s \in Senders, NEW t \in Senders \ {s},
             task'[s].pc = "post", task'[t].pc = "post"
      PROVE  task'[s].job # task'[t].job
  <2>1. CASE Posts(s)
    BY <1>2, <1>3, <2>1
  <2>2. CASE Posts(t)
    BY <1>2, <1>3, <2>2
  <2>3. CASE ~Posts(s) /\ ~Posts(t)
    <3>1. /\ At(s, "post") /\ task'[s].job = Job(s)
          /\ At(t, "post") /\ task'[t].job = Job(t)
      BY <1>3, <2>3, PostFrom DEF Job
    <3> QED
      BY <3>1 DEF Apart
  <2> QED
    BY <2>1, <2>2, <2>3
<1> QED
  BY <1>1, <1>3 DEF Apart, At, Job

LEMMA InitApart ==
    ASSUME Init
    PROVE  LeaseIsForNext /\ Apart
  BY IdleTask DEF Init, LeaseIsForNext, Holds, AtWork, Working, Apart, At

\* At most one request for an event is under way, for the first chunk that
\* is not confirmed, although leases expire while requests are made.
THEOREM QueueOneRequestAtATime == Spec => []OneRequestAtATime
<1> DEFINE Inv == LeaseIsForNext /\ Apart
<1>1. Init => Inv
  BY InitApart
<1>2. Typed /\ Inv /\ [Next]_vars => Inv'
  BY StepKinds, LeaseIsForNextStep, ApartStep
<1>3. Inv => OneRequestAtATime
  BY DEF Apart, OneRequestAtATime, Covered
<1> HIDE DEF Inv
<1> QED
  BY <1>1, <1>2, <1>3, AlwaysTyped, PTL DEF Spec

(***************************************************************************)
(* What failed means.                                                      *)
(***************************************************************************)
\* Bark has accepted the chunks that are confirmed and at most the next one;
\* if it has that one, the row says so: it is in doubt, or the answer is in
\* the hands of the sender, or nobody will call it failed.
Certain ==
    /\ \A k \in Keys :
           /\ accepted[k] \subseteq 0..row[k].confirmed
           /\ row[k].confirmed \in accepted[k] =>
                  \/ row[k].status \in {"delivering", "sent", "skipped", "unknown"}
                  \/ row[k].status = "pending" /\ row[k].doubt = TRUE
    /\ \A s \in Senders : Holds(s) /\ row[Job(s)].confirmed \in accepted[Job(s)] =>
           \/ row[Job(s)].doubt = TRUE
           \/ At(s, "finish") /\ task[s].out \in {"accepted", "lost"}

\* Bark accepts a chunk only while its request is made.
LEMMA AcceptedMoves ==
    ASSUME Typed, Apart, Kinds, NEW k \in Keys
    PROVE  \/ accepted'[k] = accepted[k]
           \/ \E s \in Senders :
                  /\ Answers(s) \/ Dies(s)
                  /\ At(s, "post") /\ Deliver(s) /\ Job(s) = k /\ Covered(s)
                  /\ accepted'[k] = accepted[k] \cup {row[k].confirmed}
                  /\ row' = row
<1>1. CASE UNCHANGED accepted
  BY <1>1
<1>2. ASSUME NEW s \in Senders, Answers(s) \/ Dies(s), At(s, "post"), Deliver(s)
      PROVE  \/ accepted'[k] = accepted[k]
             \/ /\ Job(s) = k /\ Covered(s)
                /\ accepted'[k] = accepted[k] \cup {row[k].confirmed}
                /\ row' = row
  <2>1. Covered(s) /\ row' = row
    BY <1>2 DEF Apart, Answers, Dies
  <2>2. task[s].chunk = row[Job(s)].confirmed
    BY <2>1 DEF Covered
  <2>3. accepted'[k] = IF Job(s) = k THEN accepted[k] \cup {row[k].confirmed} ELSE accepted[k]
    BY <1>2, <2>2 DEF Deliver, Typed, TypeOK
  <2> QED
    BY <2>1, <2>3
<1>3. \/ UNCHANGED accepted
      \/ \E s \in Senders : (Answers(s) \/ Dies(s)) /\ At(s, "post") /\ Deliver(s)
  BY DEF Kinds, Stands, Ages, Housekeeping, Claims, Posts, Answers, Dies, Confirms,
         Refuses, bark
<1> QED
  BY <1>1, <1>2, <1>3

\* The status of a row whose next chunk Bark has.
NotCalledFailed(r) ==
    \/ r.status \in {"delivering", "sent", "skipped", "unknown"}
    \/ r.status = "pending" /\ r.doubt = TRUE

LEMMA RowStaysCertain ==
    ASSUME Typed, LeaseIsForNext, Certain, Kinds, NEW k \in Keys,
           row[k].confirmed \in accepted[k],
           ~\E s \in Senders : Confirms(s) /\ k = Job(s)
    PROVE  NotCalledFailed(row'[k])
<1>0. NotCalledFailed(row[k]) /\ row[k] \in Rows
  BY DEF Certain, NotCalledFailed, Typed, TypeOK
<1>1. CASE Stands
  BY <1>0, <1>1 DEF Stands
<1>2. CASE Ages
  BY <1>0, <1>2 DEF Ages, NotCalledFailed
<1>3. ASSUME NEW s \in Senders, Housekeeping(s)
      PROVE  NotCalledFailed(row'[k])
  <2>1. Kept(row[k], row'[k])
    BY <1>3 DEF Housekeeping, Tidies
  <2> QED
    BY <1>0, <2>1 DEF Kept, NotCalledFailed
<1>4. ASSUME NEW s \in Senders, Claims(s)
      PROVE  NotCalledFailed(row'[k])
  BY <1>0, <1>4, ClaimsRow DEF NotCalledFailed
<1>5. ASSUME NEW s \in Senders, Posts(s) \/ Answers(s) \/ Dies(s)
      PROVE  NotCalledFailed(row'[k])
  BY <1>0, <1>5 DEF Posts, Answers, Dies
<1>6. ASSUME NEW s \in Senders, Confirms(s) \/ Refuses(s), k # Job(s)
      PROVE  NotCalledFailed(row'[k])
  BY <1>0, <1>6, FinishedRow
<1>7. ASSUME NEW s \in Senders, Refuses(s), k = Job(s)
      PROVE  NotCalledFailed(row'[k])
  <2>1. PICK delay \in Nat : row' = [row EXCEPT ![k] = Refuse(@, task[s].out, delay)]
    BY <1>7 DEF Refuses
  <2>2. row'[k] = Refuse(row[k], task[s].out, delay)
    BY <2>1 DEF Typed, TypeOK
  <2>3. Holds(s) /\ task[s].out # "accepted"
    BY <1>7 DEF Refuses, Holds, AtWork, Working, At
  <2>4. row[k].doubt = TRUE \/ task[s].out = "lost"
    BY <1>7, <2>3 DEF Certain
  <2>5. /\ row'[k].doubt = (row[k].doubt \/ task[s].out = "lost")
        /\ \/ row'[k].status \in {"pending", "skipped", "unknown"}
           \/ row'[k].status = "failed" /\ ~row'[k].doubt
    BY <1>0, <2>2, RefuseRow
  <2>6. row'[k].doubt = TRUE
    BY <2>4, <2>5
  <2> QED
    BY <2>5, <2>6 DEF NotCalledFailed
<1> QED
  BY <1>1, <1>2, <1>3, <1>4, <1>5, <1>6, <1>7 DEF Kinds

LEMMA LeaseStaysCertain ==
    ASSUME ~TlsCuts, Typed, Apart, Certain, Kinds, NEW s \in Senders, Holds(s)',
           row'[task'[s].job].confirmed \in accepted'[task'[s].job]
    PROVE  \/ row'[task'[s].job].doubt = TRUE
           \/ task'[s].pc = "finish" /\ task'[s].out \in {"accepted", "lost"}
<1> DEFINE k == Job(s)
<1>1. CASE Claims(s)
  <2>1. /\ task'[s].job = k /\ k \in Keys /\ accepted' = accepted
        /\ row[k].status = "pending"
        /\ row'[k].confirmed = row[k].confirmed /\ row'[k].doubt = row[k].doubt
    BY <1>1, ClaimsRow DEF Claims, bark, Job
  <2>2. row[k].doubt = TRUE
    BY <2>1 DEF Certain
  <2> QED
    BY <2>1, <2>2
<1>2. CASE ~Claims(s)
  <2>1. /\ Holds(s) /\ task'[s].job = k
        /\ row'[k].confirmed = row[k].confirmed /\ row'[k].doubt = row[k].doubt
    BY <1>2, LeaseFrom DEF Job
  <2>2. k \in Keys /\ row[k].status = "delivering" /\ row[k].owner = s
    BY <2>1 DEF Holds, AtWork, Working, HoldsLease, Typed, HasJob
  <2>3. CASE row[k].confirmed \in accepted[k]
    <3>1. CASE row[k].doubt = TRUE
      BY <2>1, <3>1
    <3>2. CASE At(s, "finish") /\ task[s].out \in {"accepted", "lost"}
      <4>1. task'[s].pc \in Working
        BY DEF Holds, AtWork
      <4>2. ~(\/ Housekeeping(s) \/ Posts(s) \/ Answers(s)
              \/ Dies(s) \/ Confirms(s) \/ Refuses(s))
        BY <3>2, <4>1 DEF Housekeeping, Posts, Answers, Dies, Confirms, Refuses, Rests,
                          Proceeds, At
      <4>3. task'[s].pc = task[s].pc /\ task'[s].out = task[s].out
        BY <1>2, <4>2, OwnStep DEF Stands, Ages
      <4> QED
        BY <3>2, <4>3 DEF At
    <3> QED
      BY <2>1, <2>3, <3>1, <3>2 DEF Certain
  <2>4. CASE row[k].confirmed \notin accepted[k]
    <3>1. accepted'[k] # accepted[k]
      BY <2>1, <2>4
    <3>2. PICK t \in Senders : /\ Answers(t) \/ Dies(t)
                               /\ At(t, "post") /\ Deliver(t) /\ Job(t) = k /\ Covered(t)
      BY <2>2, <3>1, AcceptedMoves
    <3>3. t = s
      BY <2>2, <3>2 DEF Covered
    <3>4. Answers(s) /\ ~Dies(s)
      BY <3>2, <3>3 DEF Dies, Rests, Holds, AtWork
    <3>5. accepted' # accepted
      BY <3>1
    <3> QED
      BY <3>4, <3>5 DEF Answers
  <2> QED
    BY <2>3, <2>4
<1> QED
  BY <1>1, <1>2

LEMMA CertainStep ==
    ASSUME ~TlsCuts, Typed, LeaseIsForNext, Apart, Certain, Kinds
    PROVE  Certain'
<1>1. ASSUME NEW k \in Keys
      PROVE  /\ accepted'[k] \subseteq 0..row'[k].confirmed
             /\ row'[k].confirmed \in accepted'[k] => NotCalledFailed(row'[k])
  <2>0. row[k].confirmed \in Nat /\ accepted[k] \subseteq 0..row[k].confirmed
    BY DEF Typed, TypeOK, Rows, Certain
  <2>1. ASSUME NEW s \in Senders, Confirms(s), k = Job(s)
        PROVE  /\ accepted'[k] \subseteq 0..row'[k].confirmed
               /\ row'[k].confirmed \notin accepted'[k]
    <3>1. row'[k].confirmed = row[k].confirmed + 1
      BY <2>1, ConfirmsRow DEF LeaseIsForNext
    <3>2. accepted' = accepted
      BY <2>1 DEF Confirms
    <3> QED
      BY <2>0, <3>1, <3>2
  <2>2. CASE ~\E s \in Senders : Confirms(s) /\ k = Job(s)
    <3>1. row'[k].confirmed = row[k].confirmed
      BY <2>2, ConfirmedMoves
    <3>2. CASE accepted'[k] = accepted[k]
      BY <2>0, <2>2, <3>1, <3>2, RowStaysCertain
    <3>3. ASSUME NEW s \in Senders, Job(s) = k, Covered(s), row' = row,
                 accepted'[k] = accepted[k] \cup {row[k].confirmed}
          PROVE  /\ accepted'[k] \subseteq 0..row'[k].confirmed
                 /\ NotCalledFailed(row'[k])
      <4>1. row[k].confirmed \in 0..row[k].confirmed
        BY <2>0
      <4>2. NotCalledFailed(row[k])
        BY <3>3 DEF Covered, NotCalledFailed
      <4> QED
        BY <2>0, <3>3, <4>1, <4>2
    <3> QED
      BY <3>2, <3>3, AcceptedMoves
  <2> QED
    BY <2>1, <2>2
<1>2. ASSUME NEW s \in Senders, Holds(s)',
             row'[task'[s].job].confirmed \in accepted'[task'[s].job]
      PROVE  \/ row'[task'[s].job].doubt = TRUE
             \/ task'[s].pc = "finish" /\ task'[s].out \in {"accepted", "lost"}
  BY <1>2, LeaseStaysCertain
<1> QED
  BY <1>1, <1>2 DEF Certain, NotCalledFailed, At, Job

\* If errors that leave the outcome open are recognised as such, an event is
\* reported as failed only when Bark has none of its chunks beyond those
\* reported as confirmed.
THEOREM QueueFailedIsCertain == ~TlsCuts => (Spec => []FailedIsCertain)
<1> SUFFICES ASSUME ~TlsCuts
             PROVE  Spec => []FailedIsCertain
  OBVIOUS
<1> DEFINE Inv == LeaseIsForNext /\ Apart /\ Certain
<1>1. Init => Inv
  <2>1. Init => Certain
    BY IdleTask DEF Init, NoRow, Certain, Holds, AtWork, Working
  <2> QED
    BY <2>1, InitApart
<1>2. Typed /\ Inv /\ [Next]_vars => Inv'
  BY StepKinds, LeaseIsForNextStep, ApartStep, CertainStep
<1>3. Inv => FailedIsCertain
  BY DEF Certain, FailedIsCertain
<1> HIDE DEF Inv
<1> QED
  BY <1>1, <1>2, <1>3, AlwaysTyped, PTL DEF Spec
(***************************************************************************)
(* The switch.  A round that looks at the configuration each time learns   *)
(* between the source check and the request that the switch is off, unless *)
(* it has been on in between.  Only its own steps change its task; so      *)
(* does the user, whose change of the switch changes what it has to know.  *)
(***************************************************************************)
\* What task t knows under configuration cfg.
Heard(t, cfg) ==
    t.offSince = TRUE =>
        /\ cfg = FALSE
        /\ t.pc \in {"sync2", "decide"} => t.on = FALSE
        /\ t.pc # "post"

HeardOff == \A s \in Live : Heard(task[s], config)

LEMMA HeardStays ==
    ASSUME Typed, HeardOff, NEW s \in Senders, NEW t, Become(s, t), config' = config,
           s \in Live => Heard(t, config)
    PROVE  HeardOff'
<1> SUFFICES ASSUME NEW l \in Live PROVE Heard(task'[l], config)
  BY DEF HeardOff
<1>1. task \in [Senders -> Tasks] /\ l \in Senders
  BY DEF Typed, TypeOK
<1>2. CASE l = s
  BY <1>1, <1>2 DEF Become
<1>3. CASE l # s
  BY <1>1, <1>3 DEF Become, HeardOff
<1> QED
  BY <1>2, <1>3

LEMMA HeardNew ==
    ASSUME NEW t, t.offSince = FALSE
    PROVE  Heard(t, config)
  BY DEF Heard

LEMMA HeardIdle == Idle.offSince = FALSE
  BY DEF Idle

LEMMA HeardNext ==
    ASSUME NEW on, NEW k, NEW rest
    PROVE  Processing(on, k, rest).offSince = FALSE
  BY DEF Processing, Idle

LEMMA HeardTakesOldest ==
    ASSUME Typed, HeardOff, NEW s \in Senders, NEW given, TakeOldest(s, given),
           config' = config
    PROVE  HeardOff'
<1>1. CASE Become(s, Idle)
  BY <1>1, HeardIdle, HeardNew, HeardStays
<1>2. ASSUME NEW k \in given, Become(s, Processing(task[s].on, k, given \ {k}))
      PROVE  HeardOff'
  <2>1. PICK t : t = Processing(task[s].on, k, given \ {k})
    OBVIOUS
  <2>2. Heard(t, config)
    BY <2>1, HeardNext, HeardNew
  <2> QED
    BY <1>2, <2>1, <2>2, HeardStays
<1> QED
  BY <1>1, <1>2 DEF TakeOldest

\* The task goes where it need know no more than it does.
LEMMA HeardGoes ==
    ASSUME Typed, HeardOff, NEW s \in Senders, NEW pc, Goto(s, pc), config' = config,
           \/ pc \notin {"sync2", "decide", "post"}
           \/ pc = "decide" /\ At(s, "sync2")
    PROVE  HeardOff'
<1>1. PICK t : t = [task[s] EXCEPT !.pc = pc]
  OBVIOUS
<1>2. task[s] \in Tasks
  BY DEF Typed, TypeOK
<1>3. t.offSince = task[s].offSince /\ t.on = task[s].on /\ t.pc = pc
  BY <1>1, <1>2 DEF Tasks
<1>4. s \in Live => Heard(t, config)
  BY <1>3 DEF Heard, HeardOff, At
<1> QED
  BY <1>1, <1>4, HeardStays DEF Goto

LEMMA HeardOutcome ==
    ASSUME Typed, HeardOff, NEW s \in Senders, NEW out, Outcome(s, out), config' = config
    PROVE  HeardOff'
<1>1. PICK t : t = [task[s] EXCEPT !.pc = "finish", !.out = out, !.left = 0]
  OBVIOUS
<1>2. task[s] \in Tasks
  BY DEF Typed, TypeOK
<1>3. t.offSince = task[s].offSince /\ t.pc = "finish"
  BY <1>1, <1>2 DEF Tasks
<1>4. s \in Live => Heard(t, config)
  BY <1>3 DEF Heard, HeardOff
<1> QED
  BY <1>1, <1>4, HeardStays DEF Outcome

LEMMA HeardBegins ==
    ASSUME Typed, HeardOff, NEW s \in Senders,
           Begin(s) \/ \E k \in Keys : Enter(s, k)
    PROVE  HeardOff'
<1>1. CASE Begin(s)
  <2>1. PICK t : t = [Idle EXCEPT !.pc = "sync", !.on = config]
    OBVIOUS
  <2>2. t.offSince = FALSE
    BY <2>1 DEF Idle
  <2> QED
    BY <1>1, <2>1, <2>2, HeardNew, HeardStays DEF Begin
<1>2. ASSUME NEW k \in Keys, Enter(s, k)
      PROVE  HeardOff'
  <2>1. PICK t : t = [Idle EXCEPT !.pc = "sync", !.on = config, !.job = k]
    OBVIOUS
  <2>2. t.offSince = FALSE
    BY <2>1 DEF Idle
  <2> QED
    BY <1>2, <2>1, <2>2, HeardNew, HeardStays DEF Enter
<1> QED
  BY <1>1, <1>2

LEMMA HeardLoads ==
    ASSUME Typed, HeardOff, NEW s \in Senders, Load(s)
    PROVE  HeardOff'
<1>1. PICK from \in {"load1", "load2"} :
        /\ At(s, from)
        /\ Become(s, [task[s] EXCEPT !.pc = IF from = "load1" THEN "sync1" ELSE "sync2",
                                     !.on = IF s \in Live THEN config ELSE @])
        /\ config' = config
  BY DEF Load
<1>2. PICK t : t = [task[s] EXCEPT !.pc = IF from = "load1" THEN "sync1" ELSE "sync2",
                                   !.on = IF s \in Live THEN config ELSE @]
  OBVIOUS
<1>3. task[s] \in Tasks
  BY DEF Typed, TypeOK
<1>4. /\ t.offSince = task[s].offSince /\ t.pc \in {"sync1", "sync2"}
      /\ s \in Live => t.on = config
  BY <1>2, <1>3 DEF Tasks
<1>5. s \in Live => Heard(t, config)
  BY <1>4 DEF Heard, HeardOff
<1> QED
  BY <1>1, <1>2, <1>5, HeardStays

LEMMA HeardClaims ==
    ASSUME Typed, HeardOff, NEW s \in Senders, Claim(s) \/ Source(s)
    PROVE  HeardOff'
<1>0. task[s] \in Tasks
  BY DEF Typed, TypeOK
<1>1. CASE NextJob(s) /\ config' = config
  BY <1>1, HeardTakesOldest DEF NextJob
<1>2. ASSUME config' = config, NEW chunk,
             Become(s, [task[s] EXCEPT !.pc = "source", !.chunk = chunk])
      PROVE  HeardOff'
  <2>1. PICK t : t = [task[s] EXCEPT !.pc = "source", !.chunk = chunk]
    OBVIOUS
  <2>2. t.offSince = task[s].offSince /\ t.pc = "source"
    BY <1>0, <2>1 DEF Tasks
  <2>3. s \in Live => Heard(t, config)
    BY <2>2 DEF Heard, HeardOff
  <2> QED
    BY <1>2, <2>1, <2>3, HeardStays
<1>3. ASSUME config' = config, NEW found, NEW off, off = ~config,
             Become(s, [task[s] EXCEPT !.pc = "load2", !.out = found, !.offSince = off])
      PROVE  HeardOff'
  <2>1. PICK t : t = [task[s] EXCEPT !.pc = "load2", !.out = found, !.offSince = off]
    OBVIOUS
  <2>2. t.offSince = off /\ t.pc = "load2"
    BY <1>0, <2>1 DEF Tasks
  <2>3. off = TRUE => config = FALSE
    BY <1>3 DEF Typed, TypeOK
  <2>4. Heard(t, config)
    BY <2>2, <2>3 DEF Heard
  <2> QED
    BY <1>3, <2>1, <2>4, HeardStays
<1>4. CASE Claim(s)
  <2>1. \/ Become(s, [task[s] EXCEPT !.pc = "source", !.chunk = row[Job(s)].confirmed])
        \/ NextJob(s)
    BY <1>4 DEF Claim
  <2>2. config' = config
    BY <1>4 DEF Claim
  <2> QED
    BY <2>1, <2>2, <1>1, <1>2
<1>5. CASE Source(s)
  <2>1. PICK off : off = ~config
    OBVIOUS
  <2>2. \E found \in {"current", "obsolete", "unready"} :
           Become(s, [task[s] EXCEPT !.pc = "load2", !.out = found, !.offSince = off])
    BY <1>5, <2>1 DEF Source
  <2>3. config' = config
    BY <1>5 DEF Source
  <2> QED
    BY <2>1, <2>2, <2>3, <1>3
<1> QED
  BY <1>4, <1>5

LEMMA HeardDecides ==
    ASSUME Typed, HeardOff, NEW s \in Senders, Decide(s)
    PROVE  HeardOff'
<1>0. task[s] \in Tasks
  BY DEF Typed, TypeOK
<1>1. config' = config /\ At(s, "decide")
  BY DEF Decide
<1>2. CASE task[s].on /\ Become(s, [task[s] EXCEPT !.pc = "post", !.left = Remaining(Job(s))])
  <2>1. PICK t : t = [task[s] EXCEPT !.pc = "post", !.left = Remaining(Job(s))]
    OBVIOUS
  <2>2. t.offSince = task[s].offSince /\ task[s].on # FALSE
    BY <1>0, <1>2, <2>1 DEF Tasks
  <2>3. s \in Live => t.offSince # TRUE
    BY <1>1, <2>2 DEF HeardOff, Heard, At
  <2>4. s \in Live => Heard(t, config)
    BY <2>3 DEF Heard
  <2> QED
    BY <1>1, <1>2, <2>1, <2>4, HeardStays
<1>3. CASE \E out \in {"skipped", "wait"} : Outcome(s, out)
  BY <1>1, <1>3, HeardOutcome
<1>4. CASE NextJob(s)
  BY <1>1, <1>4, HeardTakesOldest DEF NextJob
<1> QED
  BY <1>2, <1>3, <1>4 DEF Decide

LEMMA HeardEnds ==
    ASSUME Typed, HeardOff, NEW s \in Senders, Answer(s) \/ Finish(s) \/ Abandon(s)
    PROVE  HeardOff'
<1>0. config' = config
  BY DEF Answer, Finish, Abandon
<1>1. CASE Answer(s)
  BY <1>0, <1>1, HeardOutcome DEF Answer
<1>2. CASE Finish(s)
  <2>1. \/ NextJob(s)
        \/ Become(s, Processing(task[s].on, Job(s), task[s].rest))
    BY <1>2 DEF Finish
  <2>2. CASE NextJob(s)
    BY <1>0, <2>2, HeardTakesOldest DEF NextJob
  <2>3. CASE Become(s, Processing(task[s].on, Job(s), task[s].rest))
    <3>1. PICK t : t = Processing(task[s].on, Job(s), task[s].rest)
      OBVIOUS
    <3>2. Heard(t, config)
      BY <3>1, HeardNext, HeardNew
    <3> QED
      BY <1>0, <2>3, <3>1, <3>2, HeardStays
  <2> QED
    BY <2>1, <2>2, <2>3
<1>3. CASE Abandon(s)
  <2>1. Become(s, Idle)
    BY <1>3 DEF Abandon
  <2> QED
    BY <1>0, <2>1, HeardIdle, HeardNew, HeardStays
<1> QED
  BY <1>1, <1>2, <1>3

LEMMA HeardWorks ==
    ASSUME Typed, HeardOff, NEW s \in Senders, Work(s)
    PROVE  HeardOff'
<1>1. CASE Sync(s)
  <2>1. config' = config /\ \E pc \in {"due", "stage"} : Goto(s, pc)
    BY <1>1 DEF Sync
  <2> QED
    BY <2>1, HeardGoes
<1>2. CASE Due(s)
  <2>1. config' = config /\ \E given : TakeOldest(s, given)
    BY <1>2 DEF Due
  <2> QED
    BY <2>1, HeardTakesOldest
<1>3. CASE Stage(s)
  <2>1. config' = config /\ (Goto(s, "load1") \/ Become(s, Idle))
    BY <1>3 DEF Stage
  <2> QED
    BY <2>1, HeardGoes, HeardIdle, HeardNew, HeardStays
<1>4. CASE Resync(s)
  <2>1. config' = config /\ (Goto(s, "claim") \/ (At(s, "sync2") /\ Goto(s, "decide")))
    BY <1>4 DEF Resync
  <2> QED
    BY <2>1, HeardGoes
<1> QED
  BY <1>1, <1>2, <1>3, <1>4, HeardLoads, HeardClaims, HeardDecides, HeardEnds DEF Work

LEMMA HeardToggles ==
    ASSUME Typed, HeardOff, Toggle
    PROVE  HeardOff'
<1> SUFFICES ASSUME NEW l \in Live PROVE Heard(task'[l], config')
  BY DEF HeardOff
<1>1. config \in BOOLEAN /\ l \in Senders /\ task[l] \in Tasks /\ Heard(task[l], config)
  BY DEF Typed, TypeOK, HeardOff
<1>2. PICK b : b = (task[l].offSince /\ config)
  OBVIOUS
<1>3. task'[l] = [task[l] EXCEPT !.offSince = b]
  BY <1>1, <1>2 DEF Toggle
<1>4. task'[l].offSince = b
  BY <1>1, <1>3 DEF Tasks
<1>5. b # TRUE
  BY <1>1, <1>2 DEF Heard, Tasks
<1> QED
  BY <1>4, <1>5 DEF Heard

LEMMA HeardTicks ==
    ASSUME Typed, HeardOff, Tick
    PROVE  HeardOff'
<1> SUFFICES ASSUME NEW l \in Live PROVE Heard(task'[l], config)
  BY DEF HeardOff, Tick
<1>1. l \in Senders /\ task[l] \in Tasks /\ Heard(task[l], config)
  BY DEF Typed, TypeOK, HeardOff
<1>2. task'[l] = [task[l] EXCEPT !.left = Less(@)]
  BY <1>1 DEF Tick
<1>3. /\ task'[l].offSince = task[l].offSince
      /\ task'[l].pc = task[l].pc /\ task'[l].on = task[l].on
  BY <1>1, <1>2 DEF Tasks
<1> QED
  BY <1>1, <1>3 DEF Heard

\* If every round's loader reads the configuration each time, a background
\* round makes no request while the notifications are off, for any number of
\* rounds, entrances and changes of the switch.
THEOREM QueueNoRequestWhileOff == Live = Monitors => (Spec => []NoRequestWhileOff)
<1> SUFFICES ASSUME Live = Monitors
             PROVE  Spec => []NoRequestWhileOff
  OBVIOUS
<1>1. Init => HeardOff
  BY HeardIdle DEF Init, HeardOff, Heard
<1>2. ASSUME Typed, HeardOff, [Next]_vars
      PROVE  HeardOff'
  <2>1. CASE UNCHANGED vars
    BY <1>2, <2>1 DEF vars, HeardOff
  <2>2. CASE \E k \in Keys : Happen(k)
    BY <1>2, <2>2 DEF Happen, HeardOff
  <2> QED
    BY <1>2, <2>1, <2>2, HeardBegins, HeardWorks, HeardEnds, HeardToggles, HeardTicks DEF Next
<1>3. Typed /\ HeardOff => NoRequestWhileOff
  <2> SUFFICES ASSUME Typed, HeardOff, NEW s \in Monitors, At(s, "post")
               PROVE  ~task[s].offSince
    BY DEF NoRequestWhileOff
  <2>1. task[s].offSince # TRUE
    BY DEF HeardOff, Heard, At
  <2>2. task[s].offSince \in BOOLEAN
    BY DEF Typed, TypeOK, Tasks
  <2> QED
    BY <2>1, <2>2
<1> QED
  BY <1>1, <1>2, <1>3, AlwaysTyped, PTL DEF Spec
=============================================================================
