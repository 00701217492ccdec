-------------------------- MODULE DesktopWorkerProofs --------------------------
(***************************************************************************)
(* The worker of DesktopWorker, for any number of messages, owners, turns, *)
(* requests, reconnections and restarts.                                   *)
(*                                                                         *)
(* ShapeInv is what every other proof starts from: the types, the message  *)
(* the handler works on and its row (TaskInv), requests that name messages *)
(* (ChanInv), answers and requests on the wire.  With it every step is one *)
(* of the forms of a ledger step, so that what DesktopLedgerProofs proves  *)
(* of the ledger under calls in any order holds under the worker's calls.  *)
(*                                                                         *)
(* Each property has an invariant of its own on top of it:                 *)
(*   RunInv    what the native state, the replica, an answer "ok" or the   *)
(*             ledger call received was given to the model;                *)
(*   SentInv   what the ledger calls unsent, and what the handler may yet  *)
(*             send or put back, was neither run nor written; one request  *)
(*             of a message is on the wire at a time, and only before its  *)
(*             run;                                                        *)
(*   StartInv  only follow-ups are started, on the wire or in hand;        *)
(*   VouchInv  the owner a request would go to is one the user accepted,   *)
(*             also by a confirmation that still waits in the channel;     *)
(*   PauseInv  what is queued while there is a stream was asked for since  *)
(*             it came, and nothing is queued when it comes;               *)
(*   AwaitInv  the running turn of an accepted message is in the replica   *)
(*             or waited for, and meanwhile no start is in hand; with      *)
(*             TurnInv and ReplicaInv, that turns and replicas only grow.  *)
(*                                                                         *)
(* A lemma `XBy' or `XForms' lists the steps that can change a variable,   *)
(* so that the step lemma of an invariant looks at those only.             *)
(***************************************************************************)
EXTENDS DesktopWorker, DesktopLedgerProofs, SequenceTheorems

USE WorkerAssumption

(***************************************************************************)
(* How a handler goes on                                                   *)
(***************************************************************************)
Active == {"recheck", "wait", "settle"}

LEMMA EndRequestIs ==
    ASSUME NEW e, EndRequest(e)
    PROVE  /\ cmd' = Idling
           /\ pc' \in {"reconcile", "recover"}
           /\ err' \in {"none", "lost", e}
  BY DEF EndRequest

LEMMA SubmittedIs ==
    ASSUME NEW e, Submitted(e)
    PROVE  /\ cmd' = Idling
           /\ pc' \in {"loop", "reconcile", "recover"}
           /\ err' \in {"none", "lost", e}
  BY EndRequestIs DEF Submitted

LEMMA FailedIs ==
    ASSUME NEW e, Failed(e)
    PROVE  \/ /\ cmd.op = "stop" /\ cmd' = Idling
              /\ pc' \in {"reconcile", "recover"}
              /\ err' \in {"none", "lost", e}
           \/ cmd.op # "stop" /\ pc' = "settle" /\ err' = e /\ cmd' = cmd
  BY EndRequestIs DEF Failed

(***************************************************************************)
(* What the handler works on                                               *)
(***************************************************************************)
Submits == pc \in Active /\ cmd.op # "stop"

TaskInv ==
    /\ pc \notin Active \cup {"steer"} => cmd = Idling
    /\ pc \in Active => cmd.op # "none"
    /\ pc = "settle" => cmd.op # "stop"
    /\ Submits => cmd.id \in Ids /\ status[cmd.id] = "dispatching"
    /\ pc \in Active /\ cmd.op = "stop" => cmd.id = NoId
    /\ pc = "steer" => /\ cmd.op = "steer"
                       /\ cmd.id \in Ids /\ status[cmd.id] \in Open => kind[cmd.id] = "steer"

\* The steps that call the ledger.
LEMMA LedgerCallers ==
    ASSUME [Next]_vars
    PROVE  \/ TakeSend \/ TakeSteer \/ TakeStop \/ TakeCancel \/ TakeDismiss \/ TakeResume
           \/ ClaimSteer \/ Settle \/ Reconcile \/ Dispatch
           \/ StartRecovery \/ GiveUpRecovery \/ Restart
           \/ UNCHANGED ledger
<1>1. CASE UNCHANGED vars
  BY <1>1 DEF vars
<1>2. CASE UserRequest
  BY <1>2 DEF UserRequest, Request
<1>3. CASE Handle
  BY <1>3 DEF Handle, RefuseRequest, FruitlessRequest, TakeConfirm, ConfirmFails
<1>4. CASE Proceed
  BY <1>4 DEF Proceed, RecheckRefused, RecheckBreaks, RecheckSends, Answered,
     AnswerLost, UnreadableEvent, NothingToDispatch, AttemptSucceeds, AttemptFails, RecoveryFails
<1>5. CASE Worker
  BY <1>3, <1>4, <1>5 DEF Worker, EventWhileWaiting, Event, EventLost, RefuseWhileReconnecting
<1>6. CASE Attach \/ Crash
  BY <1>6 DEF Attach, Crash
<1>7. CASE Desktop
  BY <1>7 DEF Desktop, Run, Refuse, NativeTurns, OwnerChanges
<1> QED
  BY <1>1, <1>2, <1>5, <1>6, <1>7 DEF Next

(***************************************************************************)
(* The requests                                                            *)
(***************************************************************************)
\* Who names a message names one of Ids.
ProperRequests ==
    {r \in Requests : r.op \in {"send", "steer", "cancel", "dismiss"} => r.id \in Ids}

ChanInv == chan \in Seq(ProperRequests)

LEMMA ChanHead ==
    ASSUME ChanInv, chan # <<>>
    PROVE  Head(chan) \in ProperRequests /\ Tail(chan) \in Seq(ProperRequests)
  BY HeadTailProperties DEF ChanInv

\* The steps that take the head of the channel.
Takes ==
    \/ RefuseRequest \/ FruitlessRequest
    \/ TakeSend \/ TakeSteer \/ TakeStop \/ TakeCancel \/ TakeDismiss \/ TakeResume
    \/ TakeConfirm \/ ConfirmFails \/ RefuseWhileReconnecting

LEMMA TakesHead == ASSUME Takes PROVE chan # <<>> /\ chan' = Tail(chan)
  BY DEF Takes, RefuseRequest, FruitlessRequest, TakeSend, TakeSteer, TakeStop, TakeCancel,
         TakeDismiss, TakeResume, TakeConfirm, ConfirmFails, RefuseWhileReconnecting, Take

(***************************************************************************)
(* The steps                                                               *)
(***************************************************************************)
\* The steps that make a handler go on.
LEMMA StepForms ==
    ASSUME [Next]_vars
    PROVE  \/ UserRequest \/ Takes \/ StartRecovery
           \/ GiveUpRecovery \/ RecoveryFails \/ Crash
           \/ UNCHANGED chan
<1> USE DEF Takes, Handle
<1>1. CASE UNCHANGED vars
  BY <1>1 DEF vars
<1>2. CASE Proceed
  BY <1>2 DEF Proceed, ClaimSteer, RecheckRefused, RecheckBreaks, RecheckSends, Answered,
     AnswerLost, UnreadableEvent, Settle, Reconcile, Dispatch, NothingToDispatch,
     AttemptSucceeds, AttemptFails
<1>3. CASE Worker
  BY <1>2, <1>3 DEF Worker, EventWhileWaiting, Event, EventLost
<1>4. CASE Attach \/ Restart
  BY <1>4 DEF Attach, Restart
<1>5. CASE Desktop
  BY <1>5 DEF Desktop, Run, Refuse, NativeTurns, OwnerChanges
<1> QED
  BY <1>1, <1>3, <1>4, <1>5 DEF Next

LEMMA ChanStep ==
    ASSUME TypeOK, ChanInv, [Next]_vars
    PROVE  ChanInv'
<1>1. CASE UserRequest
  <2>1. PICK op \in Ops, m \in Ids \cup {NoId}, t \in Turns \cup {NoTurn} :
          /\ Request(op, m, t)
          /\ op \in {"send", "steer", "cancel", "dismiss"} => m \in Ids
    BY <1>1 DEF UserRequest, Ops
  <2> DEFINE r == [op |-> op, id |-> m, turn |-> t, live |-> TRUE]
  <2>2. r \in ProperRequests
    BY <2>1 DEF ProperRequests, Requests
  <2>3. chan' = Append(chan, r)
    BY <2>1 DEF Request
  <2> QED
    BY <2>2, <2>3, AppendProperties DEF ChanInv
<1>2. CASE Takes
  BY <1>2, TakesHead, ChanHead DEF ChanInv
<1>3. CASE GiveUpRecovery \/ RecoveryFails \/ Crash
  BY <1>3, EmptySeq DEF GiveUpRecovery, RecoveryFails, Crash, Ends, ChanInv
<1>4. CASE StartRecovery
  <2>1. chan' = [i \in 1..Len(chan) |-> [chan[i] EXCEPT !.live = FALSE]] /\ Len(chan) \in Nat
    BY <1>4, LenProperties DEF StartRecovery, ChanInv
  <2>2. ASSUME NEW i \in 1..Len(chan)
        PROVE  [chan[i] EXCEPT !.live = FALSE] \in ProperRequests
    <3>1. chan[i] \in ProperRequests
      BY ElementOfSeq DEF ChanInv
    <3> QED
      BY <3>1 DEF ProperRequests, Requests
  <2> QED
    BY <2>1, <2>2, SeqDef DEF ChanInv
<1>5. CASE UNCHANGED chan
  BY <1>5 DEF ChanInv
<1> QED
  BY <1>1, <1>2, <1>3, <1>4, <1>5, StepForms

(***************************************************************************)
(* The ledger under the worker                                             *)
(***************************************************************************)
\* Every step calls the ledger at most once.
LEMMA WorkerLedgerSteps ==
    ASSUME TypeOK, ChanInv, TaskInv, [Next]_vars
    PROVE  LedgerForm
<1>1. ASSUME NEW m, NEW S, \/ Accepted(Own, S) \/ OutcomeUnknown(Own, m) \/ NotSent(Own, m)
                           \/ Cancel(Own, m) \/ DismissUnknown(Own, m)
                           \/ Hold(Own) \/ HoldQueued(Own, m) \/ ResumeSelected(Own, S)
      PROVE  LedgerForm
  BY <1>1, MethodsMove DEF LedgerForm
<1>2. ASSUME NEW m \in Ids, NEW k \in Kinds, Enqueue(Own, m, k)
      PROVE  LedgerForm
  BY <1>2 DEF Enqueue, LedgerForm
<1>3. CASE TakeSend \/ TakeSteer
  <2>1. chan # <<>> /\ Head(chan).op \in {"send", "steer"}
    BY <1>3 DEF TakeSend, TakeSteer, Take
  <2>2. Head(chan).id \in Ids
    BY <2>1, ChanHead DEF ProperRequests
  <2>3. \E k \in Kinds : Enqueue(Own, Head(chan).id, k)
    BY <1>3 DEF TakeSend, TakeSteer, Kinds
  <2> QED
    BY <1>2, <2>2, <2>3
<1>4. CASE TakeStop \/ TakeCancel \/ TakeDismiss \/ TakeResume
  BY <1>1, <1>4 DEF TakeStop, TakeCancel, TakeDismiss, TakeResume
<1>5. CASE ClaimSteer
  <2>1. pc = "steer"
    BY <1>5 DEF ClaimSteer
  <2>2. CASE ClaimImmediate(Own, cmd.id)
    <3>1. Claims(Own, cmd.id) /\ cmd.id \in Ids
      BY <2>1, <2>2 DEF ClaimImmediate, CanClaimImmediate, Claims, TaskInv, Rows, Open, Waiting
    <3> QED
      BY <3>1 DEF LedgerForm
  <2>3. CASE HoldQueued(Own, cmd.id)
    BY <1>1, <2>3
  <2>4. CASE StorageFails
    BY <2>4 DEF StorageFails, LedgerForm
  <2> QED
    BY <1>5, <2>2, <2>3, <2>4 DEF ClaimSteer
<1>6. CASE Settle
  BY <1>1, <1>6 DEF Settle, StorageFails, LedgerForm
<1>7. CASE Reconcile
  BY <1>1, <1>7 DEF Reconcile, StorageFails, LedgerForm
<1>8. CASE Dispatch
  <2>1. PICK m \in Ids : Claim(Own, m)
    BY <1>8 DEF Dispatch
  <2>2. Claims(Own, m)
    BY <2>1 DEF Claim, CanClaim, IsFirst, Rows, Waiting, Claims
  <2> QED
    BY <2>2 DEF LedgerForm
<1>9. CASE StartRecovery \/ GiveUpRecovery
  BY <1>1, <1>9 DEF StartRecovery, GiveUpRecovery, StorageFails, LedgerForm
<1>10. CASE Restart
  BY <1>10, RecoverMoves DEF Restart, LedgerForm
<1>11. CASE UNCHANGED ledger
  BY <1>11 DEF LedgerForm
<1>12. \/ TakeSend \/ TakeSteer \/ TakeStop \/ TakeCancel \/ TakeDismiss \/ TakeResume
       \/ ClaimSteer \/ Settle \/ Reconcile \/ Dispatch
       \/ StartRecovery \/ GiveUpRecovery \/ Restart
       \/ UNCHANGED ledger
  BY LedgerCallers
<1> QED
  BY <1>3, <1>4, <1>5, <1>6, <1>7, <1>8, <1>9, <1>10, <1>11, <1>12

(***************************************************************************)
(* The task                                                                *)
(***************************************************************************)
Tasks == [op : Commands \cup {"none"}, id : Ids \cup {NoId}, turn : Turns \cup {NoTurn},
          auto : BOOLEAN]
Outcomes == Errors \cup {"none"}
Between == {"down", "none", "boot", "loop", "reconcile", "dispatch", "recover", "reconnect"}

\* What a step makes of the task of the handler.
TaskRests == cmd' = Idling /\ pc' \in Between /\ err' \in Outcomes
TaskStarts ==
    /\ pc' \in {"steer", "recheck"} /\ err' = err /\ cmd' \in Tasks
    /\ \/ /\ pc' = "steer" /\ cmd'.op = "steer"
          /\ cmd'.id \in Ids /\ Enqueue(Own, cmd'.id, "steer")
       \/ pc' = "recheck" /\ cmd'.op = "stop" /\ cmd'.id = NoId
       \/ pc' = "recheck" /\ cmd'.op = "start" /\ cmd'.id \in Ids /\ Claim(Own, cmd'.id)
       \/ /\ pc = "steer" /\ pc' = "recheck" /\ cmd' = cmd
          /\ ClaimImmediate(Own, cmd.id)
TaskGoesOn ==
    /\ pc \in Active /\ UNCHANGED ledger
    /\ pc' = "wait" \/ (pc' = "settle" /\ cmd.op # "stop")
    /\ cmd' \in Tasks /\ cmd'.op = cmd.op /\ cmd'.id = cmd.id /\ err' \in Outcomes

ReplyInv == reply.is = "none" => reply = NoReply

LEMMA ReplyStep ==
    ASSUME ReplyInv, [Next]_vars
    PROVE  ReplyInv'
<1>1. CASE UNCHANGED reply
  BY <1>1 DEF ReplyInv, NoReply
<1>2. CASE reply' = NoReply
  BY <1>2 DEF ReplyInv, NoReply
<1>3. CASE Desktop
  <2>1. ASSUME NEW w, NEW is, NEW t, is # "none", Answer(w, is, t)
        PROVE  ReplyInv'
    BY <2>1 DEF Answer, ReplyInv, NoReply
  <2>2. ASSUME NEW w \in wire, Run(w)
        PROVE  ReplyInv'
    BY <2>1, <2>2 DEF Run, RunStart, RunSteer, RunStop
  <2>3. ASSUME NEW w \in wire, Refuse(w)
        PROVE  ReplyInv'
    BY <1>1, <2>1, <2>3 DEF Refuse
  <2> QED
    BY <1>1, <1>3, <2>2, <2>3 DEF Desktop, NativeTurns, OwnerChanges
<1>4. CASE UNCHANGED vars
  BY <1>4 DEF vars, desktop, ReplyInv, NoReply
<1>5. CASE UserRequest
  BY <1>1, <1>5 DEF UserRequest, Request, desktop
<1>6. CASE Handle
  BY <1>1, <1>6 DEF Handle, RefuseRequest, FruitlessRequest, TakeSend, TakeSteer, TakeStop,
     TakeCancel,
     TakeDismiss, TakeResume, TakeConfirm, ConfirmFails, desktop
<1>7. CASE Proceed
  BY <1>1, <1>2, <1>7 DEF Proceed, ClaimSteer, RecheckRefused, RecheckBreaks, RecheckSends,
     Answered,
     AnswerLost, UnreadableEvent, Settle, Reconcile, Dispatch, NothingToDispatch, StartRecovery,
     GiveUpRecovery, AttemptSucceeds, AttemptFails, RecoveryFails, Ends, desktop
<1>8. CASE EventWhileWaiting \/ Event \/ EventLost \/ RefuseWhileReconnecting \/ Attach
           \/ Crash \/ Restart
  BY <1>1, <1>2, <1>8 DEF EventWhileWaiting, Event, EventLost, RefuseWhileReconnecting, Attach,
     Crash, Restart, desktop
<1> QED
  BY <1>3, <1>4, <1>5, <1>6, <1>7, <1>8 DEF Next, Worker

LEMMA IdlingIsTask == Idling \in Tasks
  BY DEF Idling, Tasks

LEMMA HandleTask ==
    ASSUME TypeOK, ChanInv, TaskInv, Handle
    PROVE  TaskRests \/ TaskStarts
<1>1. ASSUME NEW e \in Outcomes, EndRequest(e) PROVE TaskRests
  BY <1>1, EndRequestIs DEF TaskRests, Between, Outcomes, Errors
<1>2. CASE RefuseRequest \/ FruitlessRequest \/ TakeSend \/ TakeCancel \/ TakeDismiss \/ TakeResume
  BY <1>1, <1>2 DEF RefuseRequest, FruitlessRequest, TakeSend, TakeCancel, TakeDismiss, TakeResume,
     Outcomes, Errors
<1>3. CASE TakeConfirm \/ ConfirmFails
  BY <1>1, <1>3 DEF TakeConfirm, ConfirmFails, Outcomes, Errors
<1>4. CASE TakeSteer
  <2>1. chan # <<>> /\ Head(chan).op = "steer"
    BY <1>4 DEF TakeSteer, Take
  <2>2. Head(chan).id \in Ids /\ Head(chan).turn \in Turns \cup {NoTurn}
    BY <2>1, ChanHead DEF ProperRequests, Requests
  <2> DEFINE c == [op |-> "steer", id |-> Head(chan).id, turn |-> Head(chan).turn, auto |-> FALSE]
  <2>3. c \in Tasks /\ c.op = "steer" /\ c.id = Head(chan).id
    BY <2>2 DEF Tasks, Commands
  <2>4. CASE pc' = "steer" /\ cmd' = c /\ err' = err
    BY <1>4, <2>2, <2>3, <2>4 DEF TakeSteer, TaskStarts
  <2>5. CASE EndRequest("other")
    BY <1>1, <2>5 DEF Outcomes, Errors
  <2> QED
    BY <1>4, <2>4, <2>5 DEF TakeSteer
<1>5. CASE TakeStop
  <2>1. chan # <<>>
    BY <1>5 DEF TakeStop, Take
  <2>2. Head(chan).turn \in Turns \cup {NoTurn}
    BY <2>1, ChanHead DEF ProperRequests, Requests
  <2> DEFINE c == [op |-> "stop", id |-> NoId, turn |-> Head(chan).turn, auto |-> FALSE]
  <2>3. c \in Tasks /\ c.op = "stop" /\ c.id = NoId
    BY <2>2 DEF Tasks, Commands
  <2>4. CASE pc' = "recheck" /\ cmd' = c /\ err' = err
    BY <2>3, <2>4 DEF TaskStarts
  <2>5. CASE EndRequest("other")
    BY <1>1, <2>5 DEF Outcomes, Errors
  <2> QED
    BY <1>5, <2>4, <2>5 DEF TakeStop
<1> QED
  BY <1>2, <1>3, <1>4, <1>5 DEF Handle

LEMMA FailedTask ==
    ASSUME TypeOK, TaskInv, NEW e \in Errors, Failed(e), pc \in Active, UNCHANGED ledger
    PROVE  TaskRests \/ TaskGoesOn
  BY FailedIs DEF TaskRests, TaskGoesOn, Between, Outcomes, Errors, TypeOK, Tasks

LEMMA ProceedTask ==
    ASSUME TypeOK, ChanInv, TaskInv, ReplyInv, Proceed
    PROVE  UNCHANGED <<task, ledger>> \/ TaskRests \/ TaskStarts \/ TaskGoesOn
<1>1. cmd \in Tasks /\ (pc \in Between => cmd = Idling)
  BY DEF TypeOK, Tasks, TaskInv, Between, Active
<1>2. ASSUME NEW e \in Outcomes, EndRequest(e) PROVE TaskRests
  BY <1>2, EndRequestIs DEF TaskRests, Between, Outcomes, Errors
<1>3. CASE ClaimSteer
  <2>1. CASE EndRequest("other")
    BY <1>2, <2>1 DEF Outcomes, Errors
  <2>2. CASE ClaimImmediate(Own, cmd.id) /\ pc' = "recheck" /\ cmd' = cmd /\ err' = err
    BY <1>1, <1>3, <2>2 DEF ClaimSteer, TaskStarts
  <2> QED
    BY <1>3, <2>1, <2>2 DEF ClaimSteer
<1>4. CASE RecheckRefused \/ RecheckBreaks \/ AnswerLost \/ UnreadableEvent
  <2>1. PICK e \in Errors : Failed(e)
    BY <1>4 DEF RecheckRefused, RecheckBreaks, AnswerLost, UnreadableEvent, Errors
  <2>2. pc \in Active /\ UNCHANGED ledger
    BY <1>4 DEF RecheckRefused, RecheckBreaks, AnswerLost, UnreadableEvent, Active
  <2> QED
    BY <2>1, <2>2, FailedTask
<1>5. CASE RecheckSends
  <2>1. pc \in Active /\ UNCHANGED ledger
    BY <1>5 DEF RecheckSends, Active
  <2>2. CASE \E e \in Errors : Failed(e)
    BY <2>1, <2>2, FailedTask
  <2>3. CASE pc' = "wait" /\ cmd' = cmd /\ err' = err
    BY <1>1, <2>1, <2>3 DEF TaskGoesOn, TypeOK, Outcomes
  <2>4. PrepareError(cmd, replica') # "none" => PrepareError(cmd, replica') \in Errors
    BY DEF PrepareError, Errors
  <2> QED
    BY <1>5, <2>2, <2>3, <2>4 DEF RecheckSends
<1>6. CASE Answered
  <2>1. /\ pc \in Active /\ UNCHANGED ledger
        /\ reply.is \in Answers /\ reply.turn \in Turns \cup {NoTurn}
    BY <1>6 DEF Answered, Active, TypeOK
  <2>2. CASE \E e \in Errors : Failed(e)
    BY <2>1, <2>2, FailedTask
  <2>3. CASE EndRequest("none")
    BY <1>2, <2>3 DEF Outcomes
  <2>4. CASE /\ pc' = "settle" /\ cmd.op # "stop" /\ cmd' = [cmd EXCEPT !.turn = reply.turn]
             /\ err' \in {"none", "lost"}
    <3>1. [cmd EXCEPT !.turn = reply.turn] \in Tasks
      BY <1>1, <2>1 DEF Tasks
    <3>2. cmd'.op = cmd.op /\ cmd'.id = cmd.id
      BY <1>1, <2>4 DEF Tasks
    <3> QED
      BY <2>1, <2>4, <3>1, <3>2 DEF TaskGoesOn, Outcomes, Errors
  <2>5. reply.is # "none"
    BY <1>6 DEF Answered, TypeOK, ReplyInv, NoReply
  <2> QED
    BY <1>6, <2>1, <2>2, <2>3, <2>4, <2>5 DEF Answered, Answers, Errors
<1>7. CASE Settle
  <2>1. PICK e \in Outcomes : Submitted(e)
    BY <1>7 DEF Settle, TypeOK, Outcomes, Errors
  <2> QED
    BY <2>1, SubmittedIs DEF TaskRests, Between, Outcomes, Errors
<1>8. CASE Reconcile \/ NothingToDispatch \/ StartRecovery \/ AttemptSucceeds
  BY <1>1, <1>8 DEF Reconcile, NothingToDispatch, StartRecovery, AttemptSucceeds, Attempt,
     TaskRests, Between, TypeOK, Outcomes
<1>9. CASE Dispatch
  <2>1. pc = "dispatch" /\ cmd = Idling /\ err' = err /\ err \in Outcomes
    BY <1>1, <1>9 DEF Dispatch, Between, TypeOK, Outcomes
  <2>2. CASE pc' = "loop" /\ cmd' = cmd
    BY <2>1, <2>2 DEF TaskRests, Between
  <2>3. ASSUME NEW m \in Ids, Claim(Own, m), pc' = "recheck",
               cmd' = [op |-> "start", id |-> m, turn |-> NoTurn, auto |-> TRUE]
        PROVE  TaskStarts
    BY <2>1, <2>3 DEF TaskStarts, Tasks, Commands
  <2> QED
    BY <1>9, <2>2, <2>3 DEF Dispatch
<1>10. CASE GiveUpRecovery \/ RecoveryFails
  BY <1>10 DEF GiveUpRecovery, RecoveryFails, Ends, TaskRests, Between, Outcomes
<1>11. CASE AttemptFails
  BY <1>11 DEF AttemptFails
<1> QED
  BY <1>3, <1>4, <1>5, <1>6, <1>7, <1>8, <1>9, <1>10, <1>11 DEF Proceed

LEMMA TaskForms ==
    ASSUME TypeOK, ChanInv, TaskInv, ReplyInv, [Next]_vars
    PROVE  UNCHANGED <<task, ledger>> \/ TaskRests \/ TaskStarts \/ TaskGoesOn
<1>1. pc \in Between => cmd = Idling
  BY DEF TaskInv, Between, Active
<1>2. CASE UNCHANGED vars
  BY <1>2 DEF vars
<1>3. CASE UserRequest
  BY <1>3 DEF UserRequest, Request
<1>4. CASE EventWhileWaiting \/ RefuseWhileReconnecting
  BY <1>4 DEF EventWhileWaiting, RefuseWhileReconnecting
<1>5. CASE Event \/ EventLost \/ Attach \/ Restart \/ Crash
  BY <1>1, <1>5 DEF Event, EventLost, Attach, Restart, Crash, TaskRests, Between, TypeOK,
     Outcomes, Errors
<1>6. CASE Desktop
  BY <1>6 DEF Desktop, Run, Refuse, NativeTurns, OwnerChanges
<1> QED
  BY <1>2, <1>3, <1>4, <1>5, <1>6, HandleTask, ProceedTask DEF Next, Worker

LEMMA TaskStep ==
    ASSUME TypeOK, ChanInv, TaskInv, ReplyInv, [Next]_vars
    PROVE  TaskInv' /\ cmd' \in Tasks /\ pc' \in Between \cup Active \cup {"steer"}
           /\ err' \in Outcomes
<1>1. CASE UNCHANGED <<task, ledger>>
  BY <1>1 DEF task, ledger, TaskInv, Submits, TypeOK, Tasks, Outcomes, Between, Active
<1>2. CASE TaskRests
  BY <1>2, IdlingIsTask DEF TaskRests, TaskInv, Submits, Between, Active
<1>3. CASE TaskGoesOn
  BY <1>3 DEF TaskGoesOn, TaskInv, Submits, Active, ledger
<1>4. CASE TaskStarts
  <2>1. err' \in Outcomes
    BY <1>4 DEF TaskStarts, TypeOK, Outcomes
  <2>2. ASSUME NEW m \in Ids, Claim(Own, m) \/ ClaimImmediate(Own, m)
        PROVE  status'[m] = "dispatching"
    BY <2>2 DEF Claim, ClaimImmediate, SetStatus, TypeOK, LedgerTypeOK
  <2>3. ASSUME NEW m \in Ids, Enqueue(Own, m, "steer")
        PROVE  status'[m] \in Open => kind'[m] = "steer"
    BY <2>3 DEF Enqueue, IsRetry, Insert, TypeOK, LedgerTypeOK, ledger
  <2> QED
    BY <1>4, <2>1, <2>2, <2>3 DEF TaskStarts, TaskInv, Submits, Active, ClaimImmediate,
       CanClaimImmediate, Rows
<1> QED
  BY <1>1, <1>2, <1>3, <1>4, TaskForms

(***************************************************************************)
(* Types                                                                   *)
(***************************************************************************)
LEMMA ListingType == LedgerTypeOK => Listing \in [Ids -> Open \cup {"absent"}]
  BY DEF Listing, Rows

LEMMA PendingType ==
    ASSUME TypeOK, LedgerTypeOK', [Next]_vars
    PROVE  pending' \in [Ids -> Open \cup {"absent"}]
<1>1. /\ Listing \in [Ids -> Open \cup {"absent"}]
      /\ Listing' \in [Ids -> Open \cup {"absent"}]
      /\ pending \in [Ids -> Open \cup {"absent"}]
  BY ListingType DEF TypeOK, Listing, Rows
<1>2. CASE pending' = pending \/ pending' = Listing \/ pending' = Listing'
  BY <1>1, <1>2, Zenon
<1>3. CASE UNCHANGED vars
  BY <1>2, <1>3 DEF vars
<1>4. CASE UserRequest
  BY <1>2, <1>4 DEF UserRequest, Request
<1>5. CASE Handle
  BY <1>2, <1>5 DEF Handle, RefuseRequest, FruitlessRequest, TakeSend, TakeSteer, TakeStop,
     TakeCancel,
     TakeDismiss, TakeResume, TakeConfirm, ConfirmFails, Refresh
<1>6. CASE Proceed
  BY <1>2, <1>6 DEF Proceed, ClaimSteer, RecheckRefused, RecheckBreaks, RecheckSends, Answered,
     AnswerLost, UnreadableEvent, Settle, Reconcile, Dispatch, NothingToDispatch, StartRecovery,
     GiveUpRecovery, AttemptSucceeds, AttemptFails, RecoveryFails, Refresh, StorageFails
<1>7. CASE EventWhileWaiting \/ Event \/ EventLost \/ RefuseWhileReconnecting \/ Attach \/ Restart
  BY <1>2, <1>7 DEF EventWhileWaiting, Event, EventLost, RefuseWhileReconnecting, Attach, Restart
<1>8. CASE Crash
  BY <1>8 DEF Crash
<1>9. CASE Desktop
  BY <1>2, <1>9 DEF Desktop, Run, Refuse, NativeTurns, OwnerChanges
<1> QED
  BY <1>3, <1>4, <1>5, <1>6, <1>7, <1>8, <1>9 DEF Next, Worker

SessionOK ==
    /\ waitTurn \in Turns \cup {NoTurn}
    /\ phase \in {"connected", "owner_confirmation_required", "resyncing",
                  "reconnecting", "disconnected"}
    /\ confirmed \in Owners \cup {NoOwner}
    /\ resyncUsed \in BOOLEAN
    /\ attempts \in 0..MaxAttempts
    /\ conn \in BOOLEAN
    /\ owner \in Owners \cup {NoOwner}
    /\ replica \in NativeStates \cup {NoReplica}

LEMMA SessionType ==
    ASSUME TypeOK, [Next]_vars
    PROVE  SessionOK'
<1>1. SessionOK /\ native \in NativeStates /\ nativeOwner \in Owners
      /\ cmd.turn \in Turns \cup {NoTurn}
  BY DEF TypeOK, SessionOK
<1>2. CASE UNCHANGED <<waitTurn, session, link>>
  BY <1>1, <1>2 DEF SessionOK, session, link
<1>3. CASE UNCHANGED vars
  BY <1>2, <1>3 DEF vars
<1>4. CASE UserRequest
  BY <1>2, <1>4 DEF UserRequest, Request
<1>5. CASE RefuseRequest \/ FruitlessRequest \/ TakeSend \/ TakeSteer \/ TakeStop \/ TakeCancel
           \/ TakeDismiss \/ TakeResume \/ ClaimSteer \/ RecheckRefused \/ Answered \/ Reconcile
           \/ Restart \/ RefuseWhileReconnecting
  BY <1>2, <1>5 DEF RefuseRequest, FruitlessRequest, TakeSend, TakeSteer, TakeStop, TakeCancel,
     TakeDismiss, TakeResume, ClaimSteer, RecheckRefused, Answered, Reconcile, Restart,
     RefuseWhileReconnecting
<1>6. CASE TakeConfirm
  BY <1>1, <1>6 DEF TakeConfirm, SessionOK, session
<1>7. CASE ConfirmFails \/ RecheckBreaks \/ RecheckSends \/ EventWhileWaiting \/ AnswerLost
           \/ UnreadableEvent
  BY <1>1, <1>7 DEF ConfirmFails, RecheckBreaks, RecheckSends, EventWhileWaiting, AnswerLost,
     UnreadableEvent, SessionOK, session, link
<1>8. CASE Settle \/ Dispatch \/ NothingToDispatch
  BY <1>1, <1>8 DEF Settle, Dispatch, NothingToDispatch, SessionOK, session, link
<1>9. MaxAttempts \in Nat /\ attempts \in Nat /\ 0 \in 0..MaxAttempts
  BY <1>1 DEF SessionOK, WorkerAssumption
<1>10. CASE Event \/ EventLost
  BY <1>1, <1>9, <1>10 DEF Event, EventLost, SessionOK, session, link
<1>11. CASE StartRecovery
  <2>1. resyncUsed' \in BOOLEAN
    BY <1>11 DEF StartRecovery
  <2> QED
    BY <1>1, <1>11, <2>1 DEF StartRecovery, SessionOK, link
<1>12. CASE GiveUpRecovery \/ RecoveryFails
  <2>1. Ends
    BY <1>12 DEF GiveUpRecovery, RecoveryFails
  <2> QED
    BY <1>1, <1>9, <2>1 DEF Ends, SessionOK
<1>13. CASE Attach
  BY <1>1, <1>13 DEF Attach, SessionOK
<1>14. CASE Crash
  BY <1>9, <1>14 DEF Crash, SessionOK
<1>15. CASE AttemptSucceeds \/ AttemptFails
  <2>1. attempts' \in 0..MaxAttempts
    BY <1>1, <1>9, <1>15 DEF AttemptSucceeds, AttemptFails, Attempt, SessionOK
  <2>2. CASE AttemptSucceeds
    BY <1>1, <2>1, <2>2 DEF AttemptSucceeds, SessionOK
  <2>3. CASE AttemptFails
    BY <1>1, <2>1, <2>3 DEF AttemptFails, SessionOK, link
  <2> QED
    BY <1>15, <2>2, <2>3
<1>16. CASE Desktop
  BY <1>2, <1>16 DEF Desktop, Run, Refuse, NativeTurns, OwnerChanges
<1> QED
  BY <1>3, <1>4, <1>5, <1>6, <1>7, <1>8, <1>10, <1>11, <1>12, <1>13, <1>14, <1>15, <1>16
     DEF Next, Worker, Handle, Proceed

(***************************************************************************)
(* The native desktop                                                      *)
(***************************************************************************)
WireRequests == [op : Commands, id : Ids \cup {NoId}, turn : Turns \cup {NoTurn}, to : Owners]

\* A message names itself on the wire; an interruption names none.
WireInv == \A w \in wire : w.op # "stop" <=> w.id \in Ids

DesktopOK ==
    /\ native \in NativeStates
    /\ nativeOwner \in Owners
    /\ wire \subseteq WireRequests
    /\ reply \in [is : Answers, turn : Turns \cup {NoTurn}]
    /\ runs \in [Ids -> 0..2]
    /\ started \subseteq Ids

\* The steps that change the native desktop or what is on its way to it.
LEMMA DesktopForms ==
    ASSUME [Next]_vars
    PROVE  \/ UNCHANGED <<native, nativeOwner, wire, runs, started>> /\ reply' \in {reply, NoReply}
           \/ RecheckSends \/ Desktop
<1>1. CASE UNCHANGED vars
  BY <1>1 DEF vars, desktop, history
<1>2. CASE UserRequest
  BY <1>2 DEF UserRequest, Request, desktop
<1>3. CASE Handle
  BY <1>3 DEF Handle, RefuseRequest, FruitlessRequest, TakeSend, TakeSteer, TakeStop, TakeCancel,
     TakeDismiss, TakeResume, TakeConfirm, ConfirmFails, Ask, desktop, history
<1>4. CASE Proceed
  BY <1>4 DEF Proceed, ClaimSteer, RecheckRefused, RecheckBreaks, Answered,
     AnswerLost, UnreadableEvent, Settle, Reconcile, Dispatch, NothingToDispatch, StartRecovery,
     GiveUpRecovery, AttemptSucceeds, AttemptFails, RecoveryFails, Ends, desktop, history
<1>5. CASE EventWhileWaiting \/ Event \/ EventLost \/ RefuseWhileReconnecting \/ Attach
           \/ Crash \/ Restart
  BY <1>5 DEF EventWhileWaiting, Event, EventLost, RefuseWhileReconnecting, Attach,
     Crash, Restart, desktop, history
<1> QED
  BY <1>1, <1>2, <1>3, <1>4, <1>5 DEF Next, Worker

LEMMA WireStep ==
    ASSUME TypeOK, TaskInv, WireInv, [Next]_vars
    PROVE  WireInv' /\ wire' \subseteq WireRequests
<1>1. wire \subseteq WireRequests
  BY DEF TypeOK, WireRequests
<1>2. CASE wire' \subseteq wire
  BY <1>1, <1>2 DEF WireInv
<1>3. CASE RecheckSends
  <2>1. pc \in Active /\ cmd.op # "none" /\ nativeOwner = owner /\ pc = "recheck"
    BY <1>3 DEF RecheckSends, Active, TaskInv
  <2>2. Submission \in WireRequests
    BY <2>1 DEF Submission, WireRequests, TypeOK
  <2>3. Submission.op # "stop" <=> Submission.id \in Ids
    BY <2>1 DEF Submission, TaskInv, Submits, WorkerAssumption
  <2>4. wire' = wire \/ wire' = wire \cup {Submission}
    BY <1>3 DEF RecheckSends
  <2> QED
    BY <1>1, <2>2, <2>3, <2>4 DEF WireInv
<1>4. CASE Desktop
  BY <1>2, <1>4 DEF Desktop, Run, Refuse, NativeTurns, OwnerChanges
<1> QED
  BY <1>2, <1>3, <1>4, DesktopForms

\* What the native desktop makes of a request to run a message.
LEMMA GiveType ==
    ASSUME TypeOK, NEW m \in Ids, NEW t \in Turns, Give(m, t)
    PROVE  /\ runs' \in [Ids -> 0..2] /\ native' \in NativeStates
           /\ native'.has[m] = t /\ runs'[m] = IF runs[m] = 0 THEN 1 ELSE 2
           /\ \A i \in Ids \ {m} : runs'[i] = runs[i] /\ native'.has[i] = native.has[i]
<1>1. native \in NativeStates /\ runs \in [Ids -> 0..2]
  BY DEF TypeOK
<1> DEFINE has == [native.has EXCEPT ![m] = t]
<1>2. /\ native' = [native EXCEPT !.turn = t, !.has = has]
      /\ runs' = [runs EXCEPT ![m] = IF @ = 0 THEN 1 ELSE 2]
  BY DEF Give
<1>3. /\ has \in [Ids -> Turns \cup {NoTurn}] /\ has[m] = t
      /\ \A i \in Ids \ {m} : has[i] = native.has[i]
  BY <1>1 DEF NativeStates
<1> HIDE DEF has
<1>4. native' \in NativeStates /\ native'.has = has
  BY <1>1, <1>2, <1>3 DEF NativeStates
<1> QED
  BY <1>1, <1>2, <1>3, <1>4

LEMMA AnswerType ==
    ASSUME TypeOK, NEW w, NEW is \in Answers, NEW t \in Turns \cup {NoTurn}, Answer(w, is, t)
    PROVE  reply' \in [is : Answers, turn : Turns \cup {NoTurn}]
  BY DEF Answer, TypeOK

\* Who is run, and what is answered.
LEMMA RunForms ==
    ASSUME TypeOK, WireInv, NEW w \in wire, Run(w)
    PROVE  /\ wire' = wire \ {w}
           /\ \/ /\ w.op # "stop" /\ w.id \in Ids
                 /\ \E t \in Turns : /\ Give(w.id, t)
                                     /\ Answer(w, "ok", t) \/ Answer(w, "rejected", NoTurn)
                 /\ started' = IF w.op = "start" THEN started \cup {w.id} ELSE started
              \/ /\ w.op = "stop" /\ Answer(w, "ok", NoTurn) /\ UNCHANGED <<runs, started>>
                 /\ native' \in NativeStates /\ native'.has = native.has
<1>1. w \in WireRequests /\ native \in NativeStates
  BY DEF TypeOK, WireRequests
<1>2. wire' = wire \ {w} /\ (RunStart(w) \/ RunSteer(w) \/ RunStop(w))
  BY DEF Run
<1>3. CASE RunStart(w)
  <2>1. w.op = "start" /\ w.id \in Ids
    BY <1>3 DEF RunStart, WireInv
  <2>2. PICK t \in Turns : Give(w.id, t) /\ (Answer(w, "ok", t) \/ Answer(w, "rejected", NoTurn))
    BY <1>1, <1>3, <2>1 DEF RunStart, NativeStates, Turns
  <2> QED
    BY <1>2, <1>3, <2>1, <2>2 DEF RunStart
<1>4. CASE RunSteer(w)
  <2>1. w.op = "steer" /\ w.id \in Ids /\ native.turn \in Turns
    BY <1>1, <1>4 DEF RunSteer, WireInv, NativeStates
  <2> QED
    BY <1>2, <1>4, <2>1 DEF RunSteer
<1>5. CASE RunStop(w)
  <2>1. native.turn \in Turns /\ native' = [native EXCEPT !.turn = NoTurn, !.done = @ \cup {w.turn}]
        /\ w.turn = native.turn
    BY <1>1, <1>5 DEF RunStop, NativeStates
  <2>2. native' \in NativeStates /\ native'.has = native.has
    BY <1>1, <2>1 DEF NativeStates
  <2> QED
    BY <1>2, <1>5, <2>2 DEF RunStop
<1> QED
  BY <1>2, <1>3, <1>4, <1>5

\* The turns of the native desktop.
LEMMA TurnsType ==
    ASSUME TypeOK, NativeTurns
    PROVE  native' \in NativeStates /\ native'.has = native.has
<1>1. native \in NativeStates
  BY DEF TypeOK
<1>2. CASE Finish
  BY <1>1, <1>2 DEF Finish, NativeStates
<1>3. CASE ForeignStart
  BY <1>1, <1>3 DEF ForeignStart, NativeStates, Turns
<1>4. CASE ForeignQueue
  BY <1>1, <1>4 DEF ForeignQueue, NativeStates
<1> QED
  BY <1>2, <1>3, <1>4 DEF NativeTurns

LEMMA DesktopType ==
    ASSUME TypeOK, TaskInv, WireInv, [Next]_vars
    PROVE  DesktopOK'
<1>1. DesktopOK
  BY DEF TypeOK, DesktopOK, WireRequests
<1>2. wire' \subseteq WireRequests
  BY WireStep
<1>3. NoReply \in [is : Answers, turn : Turns \cup {NoTurn}]
  BY DEF NoReply, Answers
<1>4. CASE UNCHANGED <<native, nativeOwner, wire, runs, started>> /\ reply' \in {reply, NoReply}
  BY <1>1, <1>3, <1>4 DEF DesktopOK
<1>5. CASE RecheckSends
  BY <1>1, <1>2, <1>3, <1>5 DEF RecheckSends, DesktopOK, history
<1>6. ASSUME NEW w \in wire, Run(w)
      PROVE  DesktopOK'
  <2>1. nativeOwner' = nativeOwner
    BY <1>6 DEF Run
  <2>2. CASE w.op = "stop"
    <3>1. Answer(w, "ok", NoTurn) /\ UNCHANGED <<runs, started>> /\ native' \in NativeStates
      BY <1>6, <2>2, RunForms
    <3> QED
      BY <1>1, <1>2, <2>1, <3>1, AnswerType DEF DesktopOK, Answers
  <2>3. CASE w.op # "stop"
    <3>1. PICK t \in Turns : /\ Give(w.id, t)
                             /\ Answer(w, "ok", t) \/ Answer(w, "rejected", NoTurn)
      BY <1>6, <2>3, RunForms
    <3>2. w.id \in Ids /\ started' \subseteq Ids
      BY <1>1, <1>6, <2>3, RunForms DEF DesktopOK
    <3>3. runs' \in [Ids -> 0..2] /\ native' \in NativeStates
      BY <3>1, <3>2, GiveType
    <3>4. reply' \in [is : Answers, turn : Turns \cup {NoTurn}]
      BY <3>1, AnswerType DEF Answers
    <3> QED
      BY <1>1, <1>2, <2>1, <3>2, <3>3, <3>4 DEF DesktopOK
  <2> QED
    BY <2>2, <2>3
<1>7. ASSUME NEW w \in wire, Refuse(w)
      PROVE  DesktopOK'
  <2>1. reply' \in [is : Answers, turn : Turns \cup {NoTurn}]
    BY <1>1, <1>7, AnswerType DEF Refuse, Answers, DesktopOK
  <2> QED
    BY <1>1, <1>2, <1>7, <2>1 DEF Refuse, DesktopOK, history
<1>8. CASE NativeTurns \/ OwnerChanges
  BY <1>1, <1>8, TurnsType DEF NativeTurns, OwnerChanges, DesktopOK, history
<1> QED
  BY <1>4, <1>5, <1>6, <1>7, <1>8, DesktopForms DEF Desktop

\* A worker has an owner, and one its user has connected to.
AliveInv == Alive => owner \in Owners /\ confirmed \in Owners

LEMMA AliveStep ==
    ASSUME TypeOK, AliveInv, [Next]_vars
    PROVE  AliveInv'
<1>1. nativeOwner \in Owners
  BY DEF TypeOK
<1>2. CASE UNCHANGED <<owner, confirmed>> /\ (Alive' => Alive)
  BY <1>2 DEF AliveInv
<1>3. CASE UNCHANGED vars
  BY <1>2, <1>3 DEF vars, task, session, link, Alive
<1>4. CASE UserRequest
  BY <1>2, <1>4 DEF UserRequest, Request, task, session, link, Alive
<1>5. CASE Handle
  <2>1. Alive
    BY <1>5 DEF Handle, RefuseRequest, FruitlessRequest, TakeSend, TakeSteer, TakeStop, TakeCancel,
       TakeDismiss, TakeResume, TakeConfirm, ConfirmFails, Take, Alive
  <2>2. owner' = owner /\ confirmed' \in {confirmed, owner}
    BY <1>5 DEF Handle, RefuseRequest, FruitlessRequest, TakeSend, TakeSteer, TakeStop, TakeCancel,
       TakeDismiss, TakeResume, TakeConfirm, ConfirmFails, session, link
  <2> QED
    BY <2>1, <2>2 DEF AliveInv
<1>6. CASE Proceed
  <2>1. Alive
    BY <1>6 DEF Proceed, ClaimSteer, RecheckRefused, RecheckBreaks, RecheckSends, Answered,
       AnswerLost, UnreadableEvent, Settle, Reconcile, Dispatch, NothingToDispatch, StartRecovery,
       GiveUpRecovery, AttemptSucceeds, AttemptFails, Attempt, RecoveryFails, Alive
  <2>2. owner' \in {owner, nativeOwner} /\ confirmed' = confirmed
    BY <1>6 DEF Proceed, ClaimSteer, RecheckRefused, RecheckBreaks, RecheckSends, Answered,
       AnswerLost, UnreadableEvent, Settle, Reconcile, Dispatch, NothingToDispatch, StartRecovery,
       GiveUpRecovery, AttemptSucceeds, AttemptFails, RecoveryFails, Ends, session, link
  <2> QED
    BY <1>1, <2>1, <2>2 DEF AliveInv
<1>7. CASE EventWhileWaiting \/ Event \/ EventLost \/ RefuseWhileReconnecting \/ Restart
  BY <1>2, <1>7 DEF EventWhileWaiting, Event, EventLost, RefuseWhileReconnecting, Restart,
     task, session, link, Alive
<1>8. CASE Attach \/ Crash
  BY <1>1, <1>8 DEF Attach, Crash, AliveInv, Alive
<1>9. CASE Desktop
  BY <1>2, <1>9 DEF Desktop, Run, Refuse, NativeTurns, OwnerChanges, task, session, link, Alive
<1> QED
  BY <1>3, <1>4, <1>5, <1>6, <1>7, <1>8, <1>9 DEF Next, Worker

LEMMA HistoryType ==
    ASSUME TypeOK, ChanInv, AliveInv, [Next]_vars
    PROVE  asked' \subseteq Ids /\ vouched' \subseteq Owners
<1>1. asked \subseteq Ids /\ vouched \subseteq Owners /\ nativeOwner \in Owners
  BY DEF TypeOK
<1>2. CASE asked' \subseteq asked /\ vouched' \subseteq vouched
  BY <1>1, <1>2
<1>3. CASE UNCHANGED vars
  BY <1>2, <1>3 DEF vars, history
<1>4. CASE UserRequest
  BY <1>1, <1>4 DEF UserRequest, Request, AliveInv
<1>5. CASE TakeSend \/ TakeSteer
  <2>1. chan # <<>> /\ Head(chan).op \in {"send", "steer"}
    BY <1>5 DEF TakeSend, TakeSteer, Take
  <2>2. Head(chan).id \in Ids
    BY <2>1, ChanHead DEF ProperRequests
  <2> QED
    BY <1>1, <1>5, <2>2 DEF TakeSend, TakeSteer, Ask
<1>6. CASE TakeResume
  BY <1>1, <1>6 DEF TakeResume, Ask, Resumable
<1>7. CASE RefuseRequest \/ FruitlessRequest \/ TakeStop \/ TakeCancel \/ TakeDismiss \/ TakeConfirm
           \/ ConfirmFails
  BY <1>2, <1>7 DEF RefuseRequest, FruitlessRequest, TakeStop, TakeCancel, TakeDismiss, TakeConfirm,
     ConfirmFails, history
<1>8. CASE StartRecovery
  <2>1. vouched' = {confirmed} /\ asked' = asked /\ Alive
    BY <1>8 DEF StartRecovery, Alive
  <2> QED
    BY <1>1, <2>1 DEF AliveInv
<1>9. CASE ClaimSteer \/ RecheckRefused \/ RecheckBreaks \/ RecheckSends \/ Answered
           \/ AnswerLost \/ UnreadableEvent \/ Settle \/ Reconcile \/ Dispatch \/ NothingToDispatch
           \/ GiveUpRecovery \/ AttemptSucceeds \/ AttemptFails \/ RecoveryFails
  BY <1>2, <1>9 DEF ClaimSteer, RecheckRefused, RecheckBreaks, RecheckSends, Answered,
     AnswerLost, UnreadableEvent, Settle, Reconcile, Dispatch, NothingToDispatch,
     GiveUpRecovery, AttemptSucceeds, AttemptFails, RecoveryFails, Ends, history
<1>10. CASE EventWhileWaiting \/ Event \/ EventLost \/ RefuseWhileReconnecting \/ Attach
           \/ Crash \/ Restart
  BY <1>1, <1>10 DEF EventWhileWaiting, Event, EventLost, RefuseWhileReconnecting, Attach,
     Crash, Restart, history
<1>11. CASE Desktop
  BY <1>2, <1>11 DEF Desktop, Run, Refuse, NativeTurns, OwnerChanges, history
<1> QED
  BY <1>3, <1>4, <1>5, <1>6, <1>7, <1>8, <1>9, <1>10, <1>11 DEF Next, Worker, Handle, Proceed

(***************************************************************************)
(* The invariant of the worker's shape, and its types                      *)
(***************************************************************************)
ShapeInv == TypeOK /\ ChanInv /\ TaskInv /\ ReplyInv /\ WireInv /\ AliveInv

LEMMA ShapeStep ==
    ASSUME ShapeInv, [Next]_vars
    PROVE  ShapeInv' /\ LedgerForm
<1>1. LedgerForm
  BY WorkerLedgerSteps DEF ShapeInv
<1>2. LedgerTypeOK'
  BY <1>1, LedgerTypeStep DEF ShapeInv, TypeOK
<1>3. /\ TaskInv' /\ cmd' \in Tasks /\ pc' \in Between \cup Active \cup {"steer"}
      /\ err' \in Outcomes
  BY TaskStep DEF ShapeInv
<1>4. ChanInv' /\ ReplyInv' /\ WireInv' /\ AliveInv'
  BY ChanStep, ReplyStep, WireStep, AliveStep DEF ShapeInv
<1>5. pending' \in [Ids -> Open \cup {"absent"}]
  BY <1>2, PendingType DEF ShapeInv
<1>6. SessionOK' /\ DesktopOK' /\ asked' \subseteq Ids /\ vouched' \subseteq Owners
  BY SessionType, DesktopType, HistoryType DEF ShapeInv
<1>7. chan' \in Seq(Requests)
  <2>1. ProperRequests \subseteq Requests
    BY DEF ProperRequests
  <2> QED
    BY <1>4, <2>1, SeqDef DEF ChanInv
<1>8. TypeOK'
  BY <1>2, <1>3, <1>5, <1>6, <1>7 DEF TypeOK, SessionOK, DesktopOK, Tasks, Between, Active,
     Outcomes,
     WireRequests
<1> QED
  BY <1>1, <1>3, <1>4, <1>8 DEF ShapeInv

LEMMA ShapeInit == Init => ShapeInv
<1> SUFFICES ASSUME Init PROVE ShapeInv
  OBVIOUS
<1>1. LedgerTypeOK
  BY DEF Init, LedgerInit, LedgerTypeOK
<1>2. SessionOK
  <2>1. 0 \in 0..MaxAttempts
    BY DEF WorkerAssumption
  <2> QED
    BY <2>1 DEF Init, SessionOK
<1>3. DesktopOK
  BY DEF Init, DesktopOK, NativeStates, NoReply, Answers
<1>4. Idling \in Tasks /\ chan \in Seq(Requests) /\ ChanInv
  BY IdlingIsTask, EmptySeq DEF Init, ChanInv
<1>5. TypeOK
  BY <1>1, <1>2, <1>3, <1>4 DEF Init, TypeOK, SessionOK, DesktopOK, Tasks, WireRequests
<1> QED
  BY <1>4, <1>5 DEF Init, ShapeInv, TaskInv, Submits, Active, ReplyInv, WireInv, AliveInv, Alive

\* The variables of the worker, its session, the native desktop and the ledger stay in their
\* types, for any number of messages, owners and requests and whatever the environment does.
THEOREM WorkerHasType == Spec => []TypeOK
<1>1. ShapeInv => TypeOK
  BY DEF ShapeInv
<1> QED
  BY <1>1, ShapeInit, ShapeStep, PTL DEF Spec

(***************************************************************************)
(* What a step makes of a row, and of the outcome of a submission          *)
(***************************************************************************)
LEMMA EnqueueRow ==
    ASSUME LedgerTypeOK, NEW m \in Ids, NEW k \in Kinds, Enqueue(Own, m, k), NEW i \in Ids
    PROVE  /\ forgotten \subseteq forgotten'
           /\ \/ status'[i] = status[i] /\ kind'[i] = kind[i]
              \/ i = m /\ status[i] = "absent" /\ status'[i] = "queued" /\ kind'[i] = k
              \/ i \in forgotten' /\ status'[i] = "absent"
<1>1. CASE UNCHANGED ledger
  BY <1>1 DEF ledger
<1>2. CASE Insert(Own, m, k)
  BY <1>2 DEF Insert, LedgerTypeOK
<1> QED
  BY <1>1, <1>2 DEF Enqueue

LEMMA TakenId ==
    ASSUME ShapeInv, TakeSend \/ TakeSteer
    PROVE  Head(chan).id \in Ids /\ \E k \in Kinds : Enqueue(Own, Head(chan).id, k)
<1>1. chan # <<>> /\ Head(chan).op \in {"send", "steer"}
  BY DEF TakeSend, TakeSteer, Take
<1>2. Head(chan).id \in Ids
  BY <1>1, ChanHead DEF ProperRequests, ShapeInv
<1> QED
  BY <1>2 DEF TakeSend, TakeSteer, Kinds

\* A message is called accepted only by the answer to it, or because the native state has it.
LEMMA AcceptedBy ==
    ASSUME ShapeInv, [Next]_vars, NEW m \in Ids, status'[m] = "accepted"
    PROVE  \/ status[m] = "accepted"
           \/ Settle /\ err = "none" /\ m = cmd.id
           \/ Reconcile /\ m \in Confirmable
<1>1. LedgerTypeOK
  BY DEF ShapeInv, TypeOK
<1>2. CASE TakeSend \/ TakeSteer
  BY <1>1, <1>2, TakenId, EnqueueRow
<1>3. CASE TakeStop \/ TakeCancel \/ TakeDismiss \/ TakeResume \/ StartRecovery \/ GiveUpRecovery
  BY <1>3 DEF TakeStop, TakeCancel, TakeDismiss, TakeResume, StartRecovery, GiveUpRecovery,
     StorageFails, Hold, Cancel, DismissUnknown, ResumeSelected, SetStatus, ledger
<1>4. CASE ClaimSteer \/ Dispatch
  BY <1>4 DEF ClaimSteer, Dispatch, Claim, ClaimImmediate, HoldQueued, StorageFails, SetStatus,
     ledger
<1>5. CASE Settle
  BY <1>5 DEF Settle, Accepted, OutcomeUnknown, NotSent, StorageFails, SetStatus, ledger
<1>6. CASE Reconcile
  BY <1>6 DEF Reconcile, Accepted, StorageFails, SetStatus, ledger
<1>7. CASE Restart
  BY <1>7 DEF Restart, Recover
<1>8. CASE UNCHANGED ledger
  BY <1>8 DEF ledger
<1> QED
  BY <1>2, <1>3, <1>4, <1>5, <1>6, <1>7, <1>8, LedgerCallers

\* A row that says that its message was not sent did so before, or the message was refused.
Unsent == Waiting \cup {"cancelled", "absent"}

LEMMA UnsentBy ==
    ASSUME ShapeInv, [Next]_vars, NEW m \in Ids \ forgotten', status'[m] \in Unsent
    PROVE  /\ m \notin forgotten
           /\ \/ status[m] \in Unsent
              \/ Settle /\ err \notin {"none", "lost"} /\ m = cmd.id
<1> USE DEF Unsent, Waiting
<1>1. LedgerTypeOK
  BY DEF ShapeInv, TypeOK
<1>2. CASE TakeSend \/ TakeSteer
  BY <1>1, <1>2, TakenId, EnqueueRow
<1>3. CASE TakeStop \/ TakeCancel \/ TakeDismiss \/ TakeResume \/ StartRecovery \/ GiveUpRecovery
  BY <1>3 DEF TakeStop, TakeCancel, TakeDismiss, TakeResume, StartRecovery, GiveUpRecovery,
     StorageFails, Hold, Cancel, DismissUnknown, ResumeSelected, SetStatus, Rows, ledger
<1>4. CASE ClaimSteer \/ Dispatch
  BY <1>4 DEF ClaimSteer, Dispatch, Claim, ClaimImmediate, HoldQueued, StorageFails, SetStatus,
     Rows,
     ledger
<1>5. CASE Settle
  BY <1>5 DEF Settle, Accepted, OutcomeUnknown, NotSent, StorageFails, SetStatus, ledger
<1>6. CASE Reconcile
  BY <1>6 DEF Reconcile, Accepted, StorageFails, SetStatus, ledger
<1>7. CASE Restart
  BY <1>1, <1>7 DEF Restart, Recover, LedgerTypeOK
<1>8. CASE UNCHANGED ledger
  BY <1>8 DEF ledger
<1> QED
  BY <1>2, <1>3, <1>4, <1>5, <1>6, <1>7, <1>8, LedgerCallers

\* The steps after which an answer or the outcome of a submission is awaited.
LEMMA AwaitedBy ==
    ASSUME ShapeInv, [Next]_vars, pc' \in {"wait", "settle"}
    PROVE  \/ UNCHANGED task
           \/ RecheckRefused \/ RecheckBreaks \/ RecheckSends \/ Answered \/ AnswerLost
           \/ UnreadableEvent
<1>1. ASSUME NEW e, EndRequest(e) \/ Submitted(e) PROVE FALSE
  BY <1>1, EndRequestIs, SubmittedIs
<1>2. CASE Handle
  BY <1>2, HandleTask DEF ShapeInv, TaskRests, TaskStarts, Between
<1>3. CASE ClaimSteer \/ Settle
  BY <1>1, <1>3 DEF ClaimSteer, Settle
<1>4. CASE Reconcile \/ Dispatch \/ NothingToDispatch \/ StartRecovery \/ GiveUpRecovery
           \/ AttemptSucceeds \/ AttemptFails \/ RecoveryFails
  BY <1>4 DEF Reconcile, Dispatch, NothingToDispatch, StartRecovery, GiveUpRecovery,
     AttemptSucceeds,
     AttemptFails, RecoveryFails, Ends
<1>5. CASE Event \/ EventLost \/ Attach \/ Crash \/ Restart
  BY <1>5 DEF Event, EventLost, Attach, Crash, Restart
<1>6. CASE UserRequest \/ EventWhileWaiting \/ RefuseWhileReconnecting
  BY <1>6 DEF UserRequest, Request, EventWhileWaiting, RefuseWhileReconnecting
<1>7. CASE Desktop
  BY <1>7 DEF Desktop, Run, Refuse, NativeTurns, OwnerChanges
<1>8. CASE UNCHANGED vars
  BY <1>8 DEF vars
<1> QED
  BY <1>2, <1>3, <1>4, <1>5, <1>6, <1>7, <1>8 DEF Next, Worker, Proceed

\* Who waits for an answer has just written the request, or waited before.
LEMMA WaitsFor ==
    ASSUME ShapeInv, [Next]_vars, pc' = "wait"
    PROVE  /\ cmd' = cmd
           /\ \/ pc = "wait"
              \/ /\ RecheckSends /\ pc = "recheck" /\ reply' = NoReply
                 /\ wire' = wire \cup {Submission}
<1>1. ASSUME NEW e, Failed(e) PROVE FALSE
  BY <1>1, FailedIs
<1>2. CASE UNCHANGED task
  BY <1>2 DEF task
<1>3. CASE RecheckRefused \/ RecheckBreaks \/ AnswerLost \/ UnreadableEvent
  BY <1>1, <1>3 DEF RecheckRefused, RecheckBreaks, AnswerLost, UnreadableEvent
<1>4. CASE RecheckSends
  BY <1>1, <1>4 DEF RecheckSends
<1>5. CASE Answered
  <2>1. reply.is \in {"ok", "rejected", "no_client", "unsupported"}
    BY <1>5 DEF Answered, ShapeInv, TypeOK, ReplyInv, NoReply, Answers
  <2>2. CASE reply.is = "ok"
    BY <1>5, <2>2, EndRequestIs DEF Answered
  <2>3. CASE reply.is = "rejected"
    BY <1>1, <1>5, <2>3 DEF Answered
  <2>4. CASE reply.is = "no_client"
    BY <1>1, <1>5, <2>4 DEF Answered
  <2>5. CASE reply.is = "unsupported"
    BY <1>1, <1>5, <2>5 DEF Answered
  <2> QED
    BY <2>1, <2>2, <2>3, <2>4, <2>5
<1> QED
  BY <1>2, <1>3, <1>4, <1>5, AwaitedBy

\* How the outcome of a submission was decided.
LEMMA SettledBy ==
    ASSUME ShapeInv, [Next]_vars, pc' = "settle"
    PROVE  /\ cmd'.id = cmd.id
           /\ \/ pc = "settle" /\ err' = err
              \/ pc = "recheck" /\ err' # "none" /\ wire' = wire
              \/ pc = "wait" /\ err' = "lost"
              \/ pc = "wait" /\ err' = "none" /\ reply.is = "ok"
              \/ /\ pc = "wait" /\ err' # "none"
                 /\ reply.is \in {"no_client", "unsupported"} /\ wire' = wire
              \/ UnreadableEvent /\ err' # "none"
<1>1. ASSUME NEW e, Failed(e) PROVE err' = e /\ cmd' = cmd /\ cmd.op # "stop"
  BY <1>1, FailedIs
<1>2. CASE UNCHANGED task
  BY <1>2 DEF task
<1>3. CASE RecheckRefused \/ RecheckBreaks
  BY <1>1, <1>3 DEF RecheckRefused, RecheckBreaks, Errors, desktop
<1>4. CASE RecheckSends
  <2>1. PICK e : e # "none" /\ Failed(e) /\ wire' = wire
    BY <1>4 DEF RecheckSends
  <2> QED
    BY <1>1, <1>4, <2>1 DEF RecheckSends
<1>5. CASE Answered
  <2>1. reply.is # "none" /\ reply.is \in Answers /\ pc = "wait" /\ wire' = wire
    BY <1>5 DEF Answered, ShapeInv, TypeOK, ReplyInv, NoReply
  <2>2. cmd'.id = cmd.id
    <3>1. cmd' = cmd \/ cmd' = [cmd EXCEPT !.turn = reply.turn]
      BY <1>1, <1>5, <2>1 DEF Answered, Answers, EndRequest
    <3> QED
      BY <3>1 DEF ShapeInv, TypeOK
  <2>3. CASE reply.is = "ok"
    BY <1>1, <1>5, <2>1, <2>2, <2>3 DEF Answered, EndRequest
  <2>4. CASE reply.is = "rejected"
    BY <1>1, <1>5, <2>1, <2>2, <2>4 DEF Answered
  <2>5. CASE reply.is = "no_client"
    BY <1>1, <1>5, <2>1, <2>2, <2>5 DEF Answered
  <2>6. CASE reply.is = "unsupported"
    BY <1>1, <1>5, <2>1, <2>2, <2>6 DEF Answered
  <2> QED
    BY <2>1, <2>3, <2>4, <2>5, <2>6 DEF Answers
<1>6. CASE AnswerLost
  BY <1>1, <1>6 DEF AnswerLost
<1>7. CASE UnreadableEvent
  BY <1>1, <1>7 DEF UnreadableEvent
<1> QED
  BY <1>2, <1>3, <1>4, <1>5, <1>6, <1>7, AwaitedBy

(***************************************************************************)
(* What is called accepted was received                                    *)
(***************************************************************************)
Ran(m) == runs[m] # 0

RunInv ==
    /\ \A m \in Ids : native.has[m] # NoTurn => Ran(m)
    /\ replica # NoReplica => \A m \in Ids : replica.has[m] # NoTurn => Ran(m)
    /\ pc = "wait" /\ cmd.op # "stop" /\ reply.is = "ok" => Ran(cmd.id)
    /\ pc = "settle" /\ err = "none" => Ran(cmd.id)
    /\ \A m \in Ids : status[m] = "accepted" => Ran(m)

LEMMA RunsGrow ==
    ASSUME ShapeInv, [Next]_vars, NEW m \in Ids
    PROVE  /\ Ran(m) => Ran(m)'
           /\ native'.has[m] # NoTurn => native.has[m] # NoTurn \/ Ran(m)'
<1>1. TypeOK /\ WireInv
  BY DEF ShapeInv
<1>2. CASE UNCHANGED <<native, runs>>
  BY <1>2 DEF Ran
<1>3. ASSUME NEW w \in wire, Run(w)
      PROVE  /\ Ran(m) => Ran(m)'
             /\ native'.has[m] # NoTurn => native.has[m] # NoTurn \/ Ran(m)'
  <2>1. CASE w.op = "stop"
    BY <1>1, <1>3, <2>1, RunForms DEF Ran
  <2>2. CASE w.op # "stop"
    <3>1. PICK t \in Turns : Give(w.id, t) /\ w.id \in Ids
      BY <1>1, <1>3, <2>2, RunForms
    <3> QED
      BY <1>1, <3>1, GiveType DEF Ran
  <2> QED
    BY <2>1, <2>2
<1>4. CASE NativeTurns
  BY <1>1, <1>4, TurnsType DEF NativeTurns, history, Ran
<1>5. CASE RecheckSends \/ OwnerChanges \/ \E w \in wire : Refuse(w)
  BY <1>2, <1>5 DEF RecheckSends, OwnerChanges, Refuse, history
<1> QED
  BY <1>2, <1>3, <1>4, <1>5, DesktopForms DEF Desktop

LEMMA ReplicaForms ==
    ASSUME [Next]_vars
    PROVE  replica' \in {replica, native, NoReplica}
<1>1. CASE UNCHANGED vars
  BY <1>1 DEF vars, link
<1>2. CASE UserRequest
  BY <1>2 DEF UserRequest, Request, link
<1>3. CASE Handle
  BY <1>3 DEF Handle, RefuseRequest, FruitlessRequest, TakeSend, TakeSteer, TakeStop, TakeCancel,
     TakeDismiss, TakeResume, TakeConfirm, ConfirmFails, link
<1>4. CASE Proceed
  BY <1>4 DEF Proceed, ClaimSteer, RecheckRefused, RecheckBreaks, RecheckSends, Answered,
     AnswerLost, UnreadableEvent, Settle, Reconcile, Dispatch, NothingToDispatch, StartRecovery,
     GiveUpRecovery, AttemptSucceeds, AttemptFails, RecoveryFails, Ends, link
<1>5. CASE EventWhileWaiting \/ Event \/ EventLost \/ RefuseWhileReconnecting \/ Attach
           \/ Crash \/ Restart
  BY <1>5 DEF EventWhileWaiting, Event, EventLost, RefuseWhileReconnecting, Attach,
     Crash, Restart, link
<1>6. CASE Desktop
  BY <1>6 DEF Desktop, Run, Refuse, NativeTurns, OwnerChanges, link
<1> QED
  BY <1>1, <1>2, <1>3, <1>4, <1>5, <1>6 DEF Next, Worker

\* An answer is that of the request the worker waits for, and "ok" means that it was run.
LEMMA AnsweredOk ==
    ASSUME ShapeInv, [Next]_vars, pc = "wait", cmd.op # "stop", reply'.is = "ok", reply.is # "ok"
    PROVE  Ran(cmd.id)'
<1>1. TypeOK /\ WireInv
  BY DEF ShapeInv
<1>2. CASE reply' \in {reply, NoReply}
  BY <1>2 DEF NoReply
<1>3. ASSUME NEW w, NEW is, NEW t, Answer(w, is, t)
      PROVE  reply' = reply \/ (w = Submission /\ reply' = [is |-> is, turn |-> t])
  BY <1>3 DEF Answer, Awaited
<1>4. ASSUME NEW w \in wire, Run(w)
      PROVE  Ran(cmd.id)'
  <2>1. CASE w.op = "stop"
    <3>1. Answer(w, "ok", NoTurn)
      BY <1>1, <1>4, <2>1, RunForms
    <3>2. w # Submission
      BY <2>1 DEF Submission
    <3> QED
      BY <1>3, <3>1, <3>2
  <2>2. CASE w.op # "stop"
    <3>1. PICK t \in Turns : /\ Give(w.id, t) /\ w.id \in Ids
                             /\ Answer(w, "ok", t) \/ Answer(w, "rejected", NoTurn)
      BY <1>1, <1>4, <2>2, RunForms
    <3>2. w = Submission
      BY <1>3, <3>1
    <3>3. Ran(w.id)'
      BY <1>1, <3>1, GiveType DEF Ran
    <3>4. w.id = cmd.id /\ cmd' = cmd
      BY <1>4, <3>2 DEF Submission, Run, task
    <3> QED
      BY <3>3, <3>4 DEF Ran
  <2> QED
    BY <2>1, <2>2
<1>5. ASSUME NEW w \in wire, Refuse(w)
      PROVE  FALSE
  BY <1>2, <1>3, <1>5 DEF Refuse
<1>6. CASE RecheckSends \/ NativeTurns \/ OwnerChanges
  BY <1>2, <1>6 DEF RecheckSends, NativeTurns, OwnerChanges
<1> QED
  BY <1>2, <1>4, <1>5, <1>6, DesktopForms DEF Desktop

LEMMA RunStep ==
    ASSUME ShapeInv, RunInv, [Next]_vars
    PROVE  RunInv'
<1>1. TypeOK /\ TaskInv
  BY DEF ShapeInv
<1>2. \A m \in Ids : native'.has[m] # NoTurn => Ran(m)'
  BY RunsGrow DEF RunInv
<1>3. replica' # NoReplica => \A m \in Ids : replica'.has[m] # NoTurn => Ran(m)'
  BY RunsGrow, ReplicaForms DEF RunInv
<1>4. ASSUME pc' = "wait", cmd'.op # "stop", reply'.is = "ok"
      PROVE  runs'[cmd'.id] # 0
  <2>1. PICK m : m = cmd.id /\ m = cmd'.id
    BY <1>4, WaitsFor
  <2>2. cmd' = cmd
    BY <1>4, WaitsFor
  <2>3. pc = "wait"
    BY <1>4, WaitsFor DEF NoReply
  <2>4. m \in Ids
    BY <1>1, <1>4, <2>1, <2>2, <2>3 DEF TaskInv, Submits, Active
  <2>5. CASE reply.is = "ok"
    BY <1>4, <2>1, <2>2, <2>3, <2>4, <2>5, RunsGrow DEF RunInv, Ran
  <2>6. CASE reply.is # "ok"
    BY <1>4, <2>1, <2>2, <2>3, <2>6, AnsweredOk DEF Ran
  <2> QED
    BY <2>5, <2>6
<1>5. ASSUME pc' = "settle", err' = "none"
      PROVE  runs'[cmd'.id] # 0
  <2>1. PICK m : m = cmd.id /\ m = cmd'.id
    BY <1>5, SettledBy
  <2>2. \/ pc = "settle" /\ err = "none"
        \/ pc = "wait" /\ reply.is = "ok"
    BY <1>5, SettledBy
  <2>3. cmd.op # "stop"
    <3>1. CASE pc = "settle"
      BY <1>1, <3>1 DEF TaskInv
    <3>2. CASE pc = "wait"
      BY <1>1, <1>5, <3>2, TaskForms DEF ShapeInv, task, TaskRests, TaskStarts, TaskGoesOn, Between
    <3> QED
      BY <2>2, <3>1, <3>2
  <2>4. m \in Ids
    BY <1>1, <2>1, <2>2, <2>3 DEF TaskInv, Submits, Active
  <2>5. Ran(m)
    BY <2>1, <2>2, <2>3 DEF RunInv, Ran
  <2> QED
    BY <2>1, <2>4, <2>5, RunsGrow DEF Ran
<1>6. ASSUME NEW m \in Ids, status'[m] = "accepted"
      PROVE  Ran(m)'
  <2>1. CASE status[m] = "accepted"
    BY <2>1, RunsGrow DEF RunInv
  <2>2. CASE Settle /\ err = "none" /\ m = cmd.id
    BY <2>2, RunsGrow DEF RunInv, Settle
  <2>3. CASE Reconcile /\ m \in Confirmable
    BY <2>3, RunsGrow DEF RunInv, Confirmable
  <2> QED
    BY <1>6, <2>1, <2>2, <2>3, AcceptedBy
<1> QED
  BY <1>2, <1>3, <1>4, <1>5, <1>6 DEF RunInv, Ran

(***************************************************************************)
(* What is called unsent is unsent, and nothing is sent twice              *)
(***************************************************************************)
Fresh(m) == runs[m] = 0 /\ ~OnWire(m)

SentInv ==
    /\ \A m \in Remembered :
        /\ status[m] \in Unsent => Fresh(m)
        /\ OnWire(m) => runs[m] = 0
        /\ runs[m] <= 1
        /\ \A v, w \in wire : v.id = m /\ w.id = m => v = w
    /\ pc = "recheck" /\ cmd.op # "stop" /\ cmd.id \in Remembered => Fresh(cmd.id)
    /\ /\ pc = "wait" /\ cmd.op # "stop" /\ cmd.id \in Remembered
       /\ reply.is \in {"no_client", "unsupported"}
       => Fresh(cmd.id)
    /\ /\ pc = "settle" /\ err \notin {"none", "lost"} /\ cmd.id \in Remembered
       => Fresh(cmd.id)

LEMMA ForgottenGrows == ASSUME LedgerForm PROVE forgotten \subseteq forgotten'
  BY DEF LedgerForm, ledger, Moves, Insert, Claims, SetStatus

LEMMA SendsFrom ==
    ASSUME RecheckSends
    PROVE  /\ pc = "recheck" /\ pc' # "recheck" /\ UNCHANGED <<ledger, runs>>
           /\ \/ wire' = wire
              \/ wire' = wire \cup {Submission} /\ pc' = "wait"
<1>1. ASSUME NEW e, Failed(e) PROVE pc' # "recheck"
  BY <1>1, FailedIs
<1> QED
  BY <1>1 DEF RecheckSends, history

\* A message that was not sent is still so after every step that does not send it.
LEMMA FreshStays ==
    ASSUME ShapeInv, [Next]_vars, NEW m \in Ids, Fresh(m),
           wire' \subseteq wire \/ pc # "recheck" \/ cmd.id # m
    PROVE  Fresh(m)'
<1>1. TypeOK /\ WireInv
  BY DEF ShapeInv
<1>2. CASE UNCHANGED runs /\ (wire' \subseteq wire \/ RecheckSends)
  BY <1>2, SendsFrom DEF Fresh, OnWire, Submission
<1>3. ASSUME NEW w \in wire, Run(w)
      PROVE  Fresh(m)'
  <2>1. w.id # m
    BY DEF Fresh, OnWire
  <2>2. runs'[m] = runs[m] /\ wire' \subseteq wire
    BY <1>1, <1>3, <2>1, RunForms, GiveType
  <2> QED
    BY <2>2 DEF Fresh, OnWire
<1>4. CASE RecheckSends
  BY <1>2, <1>4, SendsFrom
<1>5. CASE NativeTurns \/ OwnerChanges \/ \E w \in wire : Refuse(w)
  BY <1>2, <1>5 DEF NativeTurns, OwnerChanges, Refuse, history
<1> QED
  BY <1>2, <1>3, <1>4, <1>5, DesktopForms DEF Desktop

\* The wire and the runs of one message.
LEMMA SentOnce ==
    ASSUME ShapeInv, SentInv, [Next]_vars, NEW m \in Remembered
    PROVE  /\ OnWire(m)' => runs'[m] = 0
           /\ runs'[m] <= 1
           /\ \A v, w \in wire' : v.id = m /\ w.id = m => v = w
<1> DEFINE Goal == /\ OnWire(m)' => runs'[m] = 0
                   /\ runs'[m] <= 1
                   /\ \A v, w \in wire' : v.id = m /\ w.id = m => v = w
<1>1. TypeOK /\ WireInv /\ TaskInv /\ m \in Ids
  BY DEF ShapeInv, Remembered
<1>2. /\ OnWire(m) => runs[m] = 0
      /\ runs[m] <= 1
      /\ \A v, w \in wire : v.id = m /\ w.id = m => v = w
  BY DEF SentInv
<1>3. CASE runs'[m] = runs[m] /\ wire' \subseteq wire
  BY <1>2, <1>3 DEF OnWire
<1>4. CASE RecheckSends
  <2>1. CASE wire' = wire
    BY <1>3, <1>4, <2>1, SendsFrom
  <2>2. CASE wire' = wire \cup {Submission} /\ Submission.id # m
    BY <1>2, <1>4, <2>2, SendsFrom DEF OnWire
  <2>3. CASE wire' = wire \cup {Submission} /\ Submission.id = m
    <3>1. cmd.id = m /\ pc = "recheck" /\ runs' = runs
      BY <1>4, <2>3, SendsFrom DEF Submission
    <3>2. cmd.op # "stop"
      BY <1>1, <3>1 DEF TaskInv, Active, WorkerAssumption
    <3>3. Fresh(m)
      BY <3>1, <3>2 DEF SentInv
    <3> QED
      BY <2>3, <3>1, <3>3 DEF Fresh, OnWire
  <2> QED
    BY <1>4, <2>1, <2>2, <2>3, SendsFrom
<1>5. ASSUME NEW w \in wire, Run(w)
      PROVE  Goal
  <2>1. wire' = wire \ {w}
    BY <1>1, <1>5, RunForms
  <2>2. CASE w.id = m
    <3>1. OnWire(m)
      BY <2>2 DEF OnWire
    <3>2. runs[m] = 0 /\ \A v \in wire' : v.id # m
      BY <1>2, <2>1, <2>2, <3>1
    <3>3. w.op # "stop"
      BY <1>1, <2>2 DEF WireInv
    <3>4. runs'[m] = 1
      BY <1>1, <1>5, <2>2, <3>2, <3>3, RunForms, GiveType
    <3> QED
      BY <3>2, <3>4 DEF OnWire
  <2>3. CASE w.id # m
    <3>1. runs'[m] = runs[m]
      BY <1>1, <1>5, <2>3, RunForms, GiveType
    <3> QED
      BY <1>3, <2>1, <3>1
  <2> QED
    BY <2>2, <2>3
<1>6. CASE NativeTurns \/ OwnerChanges \/ \E w \in wire : Refuse(w)
  BY <1>3, <1>6 DEF NativeTurns, OwnerChanges, Refuse, history
<1>7. CASE UNCHANGED <<wire, runs>>
  BY <1>3, <1>7
<1> QED
  BY <1>4, <1>5, <1>6, <1>7, DesktopForms DEF Desktop

\* A refusal without a run takes the request from the wire.
LEMMA RefusedUnsent ==
    ASSUME ShapeInv, SentInv, [Next]_vars, pc = "wait", cmd.id \in Remembered,
           reply'.is \in {"no_client", "unsupported"},
           reply.is \notin {"no_client", "unsupported"}
    PROVE  runs'[cmd.id] = 0 /\ \A w \in wire' : w.id # cmd.id
<1>1. TypeOK /\ WireInv
  BY DEF ShapeInv
<1>2. CASE reply' \in {reply, NoReply}
  BY <1>2 DEF NoReply
<1>3. ASSUME NEW w, NEW is, NEW t, Answer(w, is, t)
      PROVE  reply' = reply \/ (w = Submission /\ reply' = [is |-> is, turn |-> t])
  BY <1>3 DEF Answer, Awaited
<1>4. ASSUME NEW w \in wire, Run(w)
      PROVE  FALSE
  <2>1. \E t : Answer(w, "ok", t) \/ Answer(w, "rejected", t)
    BY <1>1, <1>4, RunForms
  <2> QED
    BY <1>2, <1>3, <2>1
<1>5. ASSUME NEW w \in wire, Refuse(w)
      PROVE  runs'[cmd.id] = 0 /\ \A v \in wire' : v.id # cmd.id
  <2>1. w = Submission /\ wire' = wire \ {w} /\ runs' = runs
    BY <1>2, <1>3, <1>5 DEF Refuse, history
  <2>2. w.id = cmd.id
    BY <2>1 DEF Submission
  <2>3. OnWire(cmd.id)
    BY <2>2 DEF OnWire
  <2> QED
    BY <2>1, <2>2, <2>3 DEF SentInv
<1>6. CASE RecheckSends \/ NativeTurns \/ OwnerChanges
  BY <1>2, <1>6 DEF RecheckSends, NativeTurns, OwnerChanges
<1> QED
  BY <1>2, <1>4, <1>5, <1>6, DesktopForms DEF Desktop

LEMMA SentStep ==
    ASSUME "event" \notin Env, ShapeInv, SentInv, [Next]_vars
    PROVE  SentInv'
<1>1. TypeOK /\ TaskInv /\ TaskInv' /\ forgotten \subseteq forgotten' /\ ReplyInv
  BY ShapeStep, ForgottenGrows DEF ShapeInv
<1>2. \A m \in Ids : m \notin forgotten' => m \in Remembered
  BY <1>1 DEF Remembered
<1>3. ASSUME NEW m \in Ids, m \notin forgotten'
      PROVE  /\ status'[m] \in Unsent => Fresh(m)'
             /\ OnWire(m)' => runs'[m] = 0
             /\ runs'[m] <= 1
             /\ \A v, w \in wire' : v.id = m /\ w.id = m => v = w
  <2>1. ASSUME status'[m] \in Unsent
        PROVE  Fresh(m)'
    <3>1. CASE status[m] \in Unsent
      <4>1. pc = "recheck" /\ cmd.op # "stop" => cmd.id # m
        BY <1>1, <3>1 DEF TaskInv, Submits, Active, Unsent, Waiting
      <4>2. pc = "recheck" => cmd.id # m
        BY <1>1, <4>1 DEF TaskInv, Active, WorkerAssumption
      <4> QED
        BY <1>2, <1>3, <3>1, <4>2, FreshStays DEF SentInv
    <3>2. CASE Settle /\ err \notin {"none", "lost"} /\ m = cmd.id
      <4>1. pc = "settle" /\ Fresh(m)
        BY <1>2, <1>3, <3>2 DEF SentInv, Settle
      <4> QED
        BY <1>3, <4>1, FreshStays
    <3> QED
      BY <1>3, <2>1, <3>1, <3>2, UnsentBy
  <2> QED
    BY <1>2, <1>3, <2>1, SentOnce
<1>4. ASSUME pc' = "recheck", cmd'.op # "stop", NEW m \in Ids, m \notin forgotten', m = cmd'.id
      PROVE  Fresh(m)'
  <2>1. ~RecheckSends /\ m \in Remembered
    BY <1>2, <1>4, SendsFrom
  <2>2. wire' \subseteq wire
    BY <2>1, DesktopForms DEF Desktop, Run, Refuse, NativeTurns, OwnerChanges
  <2>3. Fresh(m)
    <3>1. CASE UNCHANGED <<task, ledger>>
      BY <1>4, <2>1, <3>1 DEF SentInv, task
    <3>2. CASE TaskStarts
      <4>1. status[m] = "queued"
        BY <1>1, <1>4, <3>2 DEF TaskStarts, Claim, CanClaim, ClaimImmediate, CanClaimImmediate, Rows
      <4> QED
        BY <2>1, <4>1 DEF SentInv, Unsent, Waiting
    <3>3. ~TaskRests /\ ~TaskGoesOn
      BY <1>4 DEF TaskRests, TaskGoesOn, Between
    <3> QED
      BY <3>1, <3>2, <3>3, TaskForms DEF ShapeInv
  <2> QED
    BY <2>2, <2>3, FreshStays
<1>5. ASSUME pc' = "wait", cmd'.op # "stop", NEW m \in Ids, m \notin forgotten', m = cmd'.id,
             reply'.is \in {"no_client", "unsupported"}
      PROVE  Fresh(m)'
  <2>1. pc = "wait" /\ cmd' = cmd /\ m \in Remembered
    BY <1>2, <1>5, WaitsFor DEF NoReply
  <2>2. CASE reply.is \in {"no_client", "unsupported"}
    <3>1. Fresh(m)
      BY <1>5, <2>1, <2>2 DEF SentInv
    <3> QED
      BY <2>1, <3>1, FreshStays
  <2>3. CASE reply.is \notin {"no_client", "unsupported"}
    BY <1>5, <2>1, <2>3, RefusedUnsent DEF Fresh, OnWire
  <2> QED
    BY <2>2, <2>3
<1>6. ASSUME pc' = "settle", err' \notin {"none", "lost"},
             NEW m \in Ids, m \notin forgotten', m = cmd'.id
      PROVE  Fresh(m)'
  <2>1. cmd.id = m /\ m \in Remembered /\ ~UnreadableEvent
    BY <1>2, <1>6, SettledBy DEF UnreadableEvent
  <2>2. CASE pc = "settle" /\ err' = err
    <3>1. Fresh(m)
      BY <1>6, <2>1, <2>2 DEF SentInv
    <3> QED
      BY <2>2, <3>1, FreshStays
  <2>3. CASE pc # "settle"
    <3>1. wire' = wire
      BY <1>6, <2>1, <2>3, SettledBy
    <3>2. cmd.op # "stop"
      BY <1>6, <2>3, TaskForms DEF ShapeInv, task, TaskRests, TaskStarts, TaskGoesOn, Between
    <3>3. Fresh(m)
      BY <1>6, <2>1, <2>3, <3>2, SettledBy DEF SentInv
    <3> QED
      BY <3>1, <3>3, FreshStays
  <2> QED
    BY <1>6, <2>1, <2>2, <2>3, SettledBy
<1>7. \A m \in Remembered' : m \in Ids /\ m \notin forgotten'
  BY DEF Remembered
<1>8. pc' = "recheck" /\ cmd'.op # "stop" /\ cmd'.id \in Remembered' => Fresh(cmd.id)'
  <2>1. PICK m : m = cmd'.id
    OBVIOUS
  <2> QED
    BY <1>4, <1>7, <2>1 DEF Fresh, OnWire
<1>9. pc' = "wait" /\ cmd'.op # "stop" /\ cmd'.id \in Remembered'
        /\ reply'.is \in {"no_client", "unsupported"} => Fresh(cmd.id)'
  <2>1. PICK m : m = cmd'.id
    OBVIOUS
  <2> QED
    BY <1>5, <1>7, <2>1 DEF Fresh, OnWire
<1>10. pc' = "settle" /\ err' \notin {"none", "lost"} /\ cmd'.id \in Remembered' => Fresh(cmd.id)'
  <2>1. PICK m : m = cmd'.id
    OBVIOUS
  <2> QED
    BY <1>6, <1>7, <2>1 DEF Fresh, OnWire
<1> QED
  BY <1>3, <1>7, <1>8, <1>9, <1>10 DEF SentInv

\* With events it can read, the worker puts a message back on hold only if it was not sent, and
\* what the ledger calls waiting or cancelled is unsent until it is claimed again.
THEOREM WorkerUnsentIsUnsent == ASSUME "event" \notin Env PROVE Spec => []UnsentIsUnsent
<1>1. Init => SentInv
  BY DEF Init, LedgerInit, SentInv, Remembered, Fresh, OnWire, NoReply
<1>2. SentInv => UnsentIsUnsent
  BY DEF SentInv, UnsentIsUnsent, Unsent, Fresh
<1> QED
  BY <1>1, <1>2, ShapeInit, ShapeStep, SentStep, PTL DEF Spec

\* Over lost answers, reconnections, restarts, retries and dismissals no message that the ledger
\* still has is given to the model twice.
THEOREM WorkerAtMostOnce == ASSUME "event" \notin Env PROVE Spec => []AtMostOnce
<1>1. Init => SentInv
  BY DEF Init, LedgerInit, SentInv, Remembered, Fresh, OnWire, NoReply
<1>2. SentInv => AtMostOnce
  BY DEF SentInv, AtMostOnce
<1> QED
  BY <1>1, <1>2, ShapeInit, ShapeStep, SentStep, PTL DEF Spec

\* What the ledger calls accepted, and has deleted the text of, the model has received: whether
\* the answer or the native state confirmed it, and whatever the environment does.
THEOREM WorkerAcceptedWasRun == Spec => []AcceptedWasRun
<1>1. Init => RunInv
  BY DEF Init, LedgerInit, RunInv, NoReply
<1>2. ShapeInv /\ RunInv => AcceptedWasRun
  <2> SUFFICES ASSUME ShapeInv, RunInv PROVE AcceptedWasRun
    OBVIOUS
  <2>1. ASSUME NEW m \in Remembered, status[m] = "accepted"
        PROVE  runs[m] >= 1
    <3>1. m \in Ids /\ runs[m] \in 0..2
      BY DEF Remembered, ShapeInv, TypeOK
    <3>2. runs[m] # 0
      BY <2>1, <3>1 DEF RunInv, Ran
    <3> QED
      BY <3>1, <3>2
  <2> QED
    BY <2>1 DEF AcceptedWasRun
<1> QED
  BY <1>1, <1>2, ShapeInit, ShapeStep, RunStep, PTL DEF Spec

(***************************************************************************)
(* The ledger keeps its promises under the worker                          *)
(***************************************************************************)
\* The worker calls the ledger so that its thread is served one submission at a time, and its
\* follow-ups in their order.
THEOREM WorkerOneAtATimeInOrder == Spec => []OneAtATimeInOrder
<1>1. Init => OneInDoubtPerThread /\ NoFollowUpOvertakes /\ \A m \in Ids : rowid[m] <= lastRow
  BY DEF Init, LedgerInit, OneInDoubtPerThread, NoFollowUpOvertakes, InDoubt
<1>2. ShapeInv /\ OneInDoubtPerThread /\ NoFollowUpOvertakes /\ (\A m \in Ids : rowid[m] <= lastRow)
        => OrderInv
  BY DEF OrderInv, ShapeInv, TypeOK
<1>3. OneInDoubtPerThread /\ NoFollowUpOvertakes => OneAtATimeInOrder
  BY DEF OneAtATimeInOrder
<1> QED
  BY <1>1, <1>2, <1>3, ShapeInit, ShapeStep, OneInDoubtStep, OrderStep, PTL DEF Spec

\* No retry, late answer, resume or restart opens a closed submission again.
THEOREM WorkerClosedIsFinal == Spec => ClosedIsFinal
<1>1. ASSUME ShapeInv, [Next]_vars
      PROVE  [\A m \in Ids :
                status[m] \in Closed => status'[m] \in {status[m], "absent"}]_ledger
  BY <1>1, ShapeStep, ClosedStay DEF ShapeInv, TypeOK
<1> QED
  BY <1>1, ShapeInit, ShapeStep, PTL DEF Spec, ClosedIsFinal

(***************************************************************************)
(* A steer is never started                                                *)
(***************************************************************************)
StartInv ==
    /\ \A m \in Remembered : status[m] = "absent" => kind[m] = "none"
    /\ \A m \in Remembered : m \in started => kind[m] = "queue"
    /\ \A w \in wire : w.op = "start" /\ w.id \in Remembered => kind[w.id] = "queue"
    /\ pc \in Active /\ cmd.op = "start" => kind[cmd.id] = "queue"

\* A row keeps its kind until it is deleted.
LEMMA KindStays ==
    ASSUME LedgerTypeOK, LedgerForm, NEW m \in Ids \ forgotten'
    PROVE  /\ m \notin forgotten
           /\ kind'[m] = kind[m] \/ (status[m] = "absent" /\ status'[m] # "absent")
           /\ status'[m] = "absent" => status[m] = "absent"
<1>1. CASE UNCHANGED ledger
  BY <1>1 DEF ledger
<1>2. CASE Moves
  BY <1>2 DEF Moves, May
<1>3. CASE \E t \in Threads, i \in Ids, k \in Kinds : Insert(t, i, k)
  BY <1>3 DEF Insert, LedgerTypeOK
<1>4. CASE \E t \in Threads, i \in Ids : Claims(t, i)
  BY <1>4 DEF Claims, SetStatus
<1> QED
  BY <1>1, <1>2, <1>3, <1>4 DEF LedgerForm

\* The steps that make a command, or pass it on to be checked.
LEMMA MadeBy ==
    ASSUME ShapeInv, [Next]_vars, pc' \in {"steer", "recheck"}
    PROVE  UNCHANGED task \/ TakeSteer \/ TakeStop \/ ClaimSteer \/ Dispatch
<1>1. ASSUME NEW e, EndRequest(e) \/ Submitted(e) \/ Failed(e) PROVE FALSE
  BY <1>1, EndRequestIs, SubmittedIs, FailedIs
<1>2. ~(RefuseRequest \/ FruitlessRequest \/ TakeSend \/ TakeCancel \/ TakeDismiss \/ TakeResume)
  BY <1>1 DEF RefuseRequest, FruitlessRequest, TakeSend, TakeCancel, TakeDismiss, TakeResume
<1>3. ~(TakeConfirm \/ ConfirmFails)
  BY <1>1 DEF TakeConfirm, ConfirmFails
<1>4. ~(RecheckRefused \/ RecheckBreaks \/ RecheckSends \/ AnswerLost \/ UnreadableEvent \/ Settle)
  BY <1>1 DEF RecheckRefused, RecheckBreaks, RecheckSends, AnswerLost, UnreadableEvent, Settle
<1>5. ~Answered
  <2>1. ASSUME Answered PROVE reply.is \in {"ok", "rejected", "no_client", "unsupported"}
    BY <2>1 DEF Answered, ShapeInv, TypeOK, ReplyInv, NoReply, Answers
  <2> QED
    BY <1>1, <2>1 DEF Answered
<1>6. ~(Reconcile \/ NothingToDispatch \/ StartRecovery \/ GiveUpRecovery \/ AttemptSucceeds
         \/ RecoveryFails)
  BY DEF Reconcile, NothingToDispatch, StartRecovery, GiveUpRecovery, AttemptSucceeds,
     RecoveryFails, Ends
<1>7. ~(Event \/ EventLost \/ Attach \/ Crash \/ Restart)
  BY DEF Event, EventLost, Attach, Crash, Restart
<1>8. CASE AttemptFails \/ UserRequest \/ EventWhileWaiting \/ RefuseWhileReconnecting
  BY <1>8 DEF AttemptFails, UserRequest, Request, EventWhileWaiting, RefuseWhileReconnecting
<1>9. CASE Desktop
  BY <1>9 DEF Desktop, Run, Refuse, NativeTurns, OwnerChanges
<1>10. CASE UNCHANGED vars
  BY <1>10 DEF vars
<1> QED
  BY <1>2, <1>3, <1>4, <1>5, <1>6, <1>7, <1>8, <1>9, <1>10 DEF Next, Worker, Handle, Proceed

\* Only dispatch_queued makes a start, and only of a follow-up.
LEMMA StartBy ==
    ASSUME ShapeInv, [Next]_vars, pc' \in Active, cmd'.op = "start"
    PROVE  \/ pc \in Active /\ cmd.op = "start" /\ cmd'.id = cmd.id /\ UNCHANGED ledger
           \/ kind[cmd'.id] = "queue" /\ UNCHANGED kind
<1>1. CASE UNCHANGED <<task, ledger>>
  BY <1>1 DEF task
<1>2. CASE TaskGoesOn
  BY <1>2 DEF TaskGoesOn
<1>3. CASE TaskRests
  BY <1>3 DEF TaskRests, Between, Active
<1>4. CASE TaskStarts
  <2>1. pc' = "recheck"
    BY <1>4 DEF TaskStarts, Active
  <2>2. CASE Dispatch
    BY <2>1, <2>2 DEF Dispatch, HeadOfQueue, Claim, SetStatus
  <2>3. ASSUME NEW e, EndRequest(e) PROVE FALSE
    BY <2>1, <2>3, EndRequestIs
  <2>4. ~(TakeSteer \/ TakeStop)
    BY <2>1, <2>3 DEF TakeSteer, TakeStop
  <2>5. ~ClaimSteer
    BY <2>3 DEF ClaimSteer, ShapeInv, TaskInv
  <2>6. CASE UNCHANGED task
    BY <1>4, <2>1, <2>6 DEF TaskStarts, task, Claim, CanClaim, Active, ShapeInv, TaskInv, Submits
  <2> QED
    BY <2>1, <2>2, <2>4, <2>5, <2>6, MadeBy
<1> QED
  BY <1>1, <1>2, <1>3, <1>4, TaskForms DEF ShapeInv

LEMMA StartStep ==
    ASSUME ShapeInv, StartInv, [Next]_vars
    PROVE  StartInv'
<1>1. TypeOK /\ LedgerTypeOK /\ TaskInv /\ TaskInv' /\ WireInv /\ WireInv' /\ LedgerForm
  BY ShapeStep DEF ShapeInv, TypeOK
<1>2. ASSUME NEW m \in Ids, m \notin forgotten'
      PROVE  m \in Remembered
  BY <1>1, <1>2, KindStays DEF Remembered
<1>3. ASSUME NEW m \in Remembered', status'[m] = "absent"
      PROVE  kind'[m] = "none"
  BY <1>1, <1>2, <1>3, KindStays DEF Remembered, StartInv
<1>4. ASSUME NEW m \in Remembered, m \notin forgotten', kind[m] = "queue"
      PROVE  kind'[m] = "queue"
  BY <1>1, <1>4, KindStays DEF Remembered, StartInv
<1>5. pc' \in Active /\ cmd'.op = "start" => kind'[cmd'.id] = "queue"
  BY StartBy DEF StartInv, ledger
<1>6. ASSUME NEW w \in wire', w.op = "start", w.id \in Remembered'
      PROVE  kind'[w.id] = "queue"
  <2>1. w.id \in Ids /\ w.id \notin forgotten' /\ w.id \in Remembered
    BY <1>2, <1>6 DEF Remembered
  <2>2. CASE w \in wire
    BY <1>4, <1>6, <2>1, <2>2 DEF StartInv
  <2>3. CASE w \notin wire
    <3>1. RecheckSends
      BY <1>6, <2>3, DesktopForms DEF Desktop, Run, Refuse, NativeTurns, OwnerChanges
    <3>2. w.op = cmd.op /\ w.id = cmd.id /\ pc = "recheck" /\ kind' = kind
      BY <1>6, <2>3, <3>1, SendsFrom DEF Submission, ledger
    <3> QED
      BY <1>6, <3>2 DEF StartInv, Active
  <2> QED
    BY <2>2, <2>3
<1>7. ASSUME NEW m \in Remembered', m \in started'
      PROVE  kind'[m] = "queue"
  <2>1. m \in Ids /\ m \notin forgotten' /\ m \in Remembered
    BY <1>2, <1>7 DEF Remembered
  <2>2. CASE m \in started
    BY <1>4, <2>1, <2>2 DEF StartInv
  <2>3. CASE m \notin started
    <3>1. PICK w \in wire : Run(w)
      BY <1>7, <2>3, DesktopForms DEF Desktop, RecheckSends, Refuse, NativeTurns, OwnerChanges,
         history
    <3>2. w.op = "start" /\ w.id = m
      BY <1>1, <1>7, <2>3, <3>1, RunForms
    <3> QED
      BY <1>4, <2>1, <3>2 DEF StartInv
  <2> QED
    BY <2>2, <2>3
<1> QED
  BY <1>3, <1>5, <1>6, <1>7 DEF StartInv

\* A message sent to steer a turn is never made a turn of its own, whatever fails on its way.
THEOREM WorkerSteerIsNeverStarted == Spec => []SteerIsNeverStarted
<1>1. Init => StartInv
  BY DEF Init, LedgerInit, StartInv, Remembered, Active
<1>2. StartInv => SteerIsNeverStarted
  BY DEF StartInv, SteerIsNeverStarted
<1> QED
  BY <1>1, <1>2, ShapeInit, ShapeStep, StartStep, PTL DEF Spec

(***************************************************************************)
(* Only to an owner the user accepted                                      *)
(***************************************************************************)
\* Requests that are no confirmation that can still be taken.
Unconfirming == {r \in Requests : r.live => r.op # "confirm"}

VouchInv ==
    /\ pc \in {"steer", "recheck"} => owner = confirmed
    /\ Alive => confirmed \in vouched
    /\ \/ vouched = Owners
       \/ owner \in vouched /\ pc # "reconnect"
       \/ chan \in Seq(Unconfirming)

LEMMA OwnerForms ==
    ASSUME [Next]_vars
    PROVE  UNCHANGED <<owner, confirmed>> \/ TakeConfirm \/ AttemptSucceeds \/ Attach \/ Crash
<1>1. CASE UNCHANGED vars
  BY <1>1 DEF vars, link, session
<1>2. CASE UserRequest
  BY <1>2 DEF UserRequest, Request, link, session
<1>3. CASE Handle
  BY <1>3 DEF Handle, RefuseRequest, FruitlessRequest, TakeSend, TakeSteer, TakeStop, TakeCancel,
     TakeDismiss, TakeResume, ConfirmFails, link, session
<1>4. CASE Proceed
  BY <1>4 DEF Proceed, ClaimSteer, RecheckRefused, RecheckBreaks, RecheckSends, Answered,
     AnswerLost, UnreadableEvent, Settle, Reconcile, Dispatch, NothingToDispatch, StartRecovery,
     GiveUpRecovery, AttemptFails, RecoveryFails, Ends, link, session
<1>5. CASE EventWhileWaiting \/ Event \/ EventLost \/ RefuseWhileReconnecting \/ Restart
  BY <1>5 DEF EventWhileWaiting, Event, EventLost, RefuseWhileReconnecting, Restart, link, session
<1>6. CASE Desktop
  BY <1>6 DEF Desktop, Run, Refuse, NativeTurns, OwnerChanges, link, session
<1> QED
  BY <1>1, <1>2, <1>3, <1>4, <1>5, <1>6 DEF Next, Worker

LEMMA VouchForms ==
    ASSUME ShapeInv, [Next]_vars
    PROVE  /\ UserRequest \/ StartRecovery \/ Attach \/ Crash \/ UNCHANGED vouched
           /\ pc' = "reconnect" => pc = "reconnect" \/ StartRecovery
           /\ Alive' => Alive \/ Attach
<1>1. CASE UNCHANGED vars
  BY <1>1 DEF vars, task, history, Alive
<1>2. CASE UserRequest
  BY <1>2 DEF UserRequest, Request, task, Alive
<1>3. CASE Handle
  <2>1. UNCHANGED vouched
    BY <1>3 DEF Handle, RefuseRequest, FruitlessRequest, TakeSend, TakeSteer, TakeStop, TakeCancel,
       TakeDismiss, TakeResume, TakeConfirm, ConfirmFails, history, Ask
  <2>2. pc = "loop"
    BY <1>3 DEF Handle, RefuseRequest, FruitlessRequest, TakeSend, TakeSteer, TakeStop, TakeCancel,
       TakeDismiss, TakeResume, TakeConfirm, ConfirmFails, Take
  <2>3. pc' # "reconnect"
    BY <1>3, EndRequestIs DEF Handle, RefuseRequest, FruitlessRequest, TakeSend, TakeSteer,
       TakeStop,
       TakeCancel, TakeDismiss, TakeResume, TakeConfirm, ConfirmFails
  <2> QED
    BY <2>1, <2>2, <2>3 DEF Alive
<1>4. CASE ClaimSteer \/ RecheckRefused \/ RecheckBreaks \/ RecheckSends \/ AnswerLost
           \/ UnreadableEvent \/ Settle
  BY <1>4, EndRequestIs, FailedIs, SubmittedIs DEF ClaimSteer, RecheckRefused, RecheckBreaks,
     RecheckSends, AnswerLost, UnreadableEvent, Settle, history, Alive
<1>5. CASE Reconcile \/ Dispatch \/ NothingToDispatch \/ GiveUpRecovery \/ AttemptSucceeds
           \/ AttemptFails \/ RecoveryFails
  BY <1>5 DEF Reconcile, Dispatch, NothingToDispatch, GiveUpRecovery, AttemptSucceeds, Attempt,
     AttemptFails, RecoveryFails, Ends, history, task, Alive
<1>6. CASE StartRecovery
  BY <1>6 DEF StartRecovery, Alive
<1>7. CASE EventWhileWaiting \/ Event \/ EventLost \/ RefuseWhileReconnecting \/ Attach
           \/ Crash \/ Restart
  BY <1>7 DEF EventWhileWaiting, Event, EventLost, RefuseWhileReconnecting, Attach, Crash, Restart,
     history, task, Alive
<1>8. CASE Desktop
  BY <1>8 DEF Desktop, Run, Refuse, NativeTurns, OwnerChanges, history, task, Alive
<1>9. CASE Answered
  <2>1. reply.is \in {"ok", "rejected", "no_client", "unsupported"}
    BY <1>9 DEF Answered, ShapeInv, TypeOK, ReplyInv, NoReply, Answers
  <2>2. pc' # "reconnect"
    BY <1>9, <2>1, EndRequestIs, FailedIs DEF Answered
  <2> QED
    BY <1>9, <2>2 DEF Answered, history, Alive
<1> QED
  BY <1>1, <1>2, <1>3, <1>4, <1>5, <1>6, <1>7, <1>8, <1>9 DEF Next, Worker, Proceed

\* A confirmation that can still be taken is one of the owner the session has.
LEMMA ConfirmsOwner ==
    ASSUME ShapeInv, VouchInv, chan # <<>>, Head(chan).live, Head(chan).op = "confirm", Alive
    PROVE  owner \in vouched
<1>1. chan \notin Seq(Unconfirming)
  <2>1. ASSUME chan \in Seq(Unconfirming) PROVE FALSE
    <3>1. Head(chan) \in Unconfirming
      BY <2>1, HeadTailProperties
    <3> QED
      BY <3>1 DEF Unconfirming
  <2> QED
    BY <2>1
<1> QED
  BY <1>1 DEF VouchInv, ShapeInv, AliveInv

\* The requests in the channel and the owners the user accepted.
LEMMA VouchChan ==
    ASSUME ShapeInv, VouchInv, [Next]_vars
    PROVE  \/ vouched' = Owners
           \/ owner' \in vouched' /\ pc' # "reconnect"
           \/ chan' \in Seq(Unconfirming)
<1> DEFINE Goal == \/ vouched' = Owners
                   \/ owner' \in vouched' /\ pc' # "reconnect"
                   \/ chan' \in Seq(Unconfirming)
<1>1. TypeOK /\ ChanInv
  BY DEF ShapeInv
<1>2. CASE UserRequest
  <2>1. PICK op \in Ops, m \in Ids \cup {NoId}, t \in Turns \cup {NoTurn} : Request(op, m, t)
    BY <1>2 DEF UserRequest, Ops
  <2>2. UNCHANGED <<pc, owner>> /\ Alive
    BY <2>1 DEF Request, task, link
  <2>3. CASE op = "confirm"
    BY <2>1, <2>2, <2>3 DEF Request
  <2>4. CASE op # "confirm"
    <3> DEFINE r == [op |-> op, id |-> m, turn |-> t, live |-> TRUE]
    <3>1. r \in Unconfirming
      BY <2>4 DEF Unconfirming, Requests
    <3>2. chan' = Append(chan, r) /\ vouched' = vouched
      BY <2>1, <2>4 DEF Request
    <3>3. chan \in Seq(Unconfirming) => chan' \in Seq(Unconfirming)
      BY <3>1, <3>2, AppendProperties
    <3> QED
      BY <2>2, <3>2, <3>3 DEF VouchInv
  <2> QED
    BY <2>3, <2>4
<1>3. CASE StartRecovery
  <2>1. chan' = [i \in 1..Len(chan) |-> [chan[i] EXCEPT !.live = FALSE]] /\ Len(chan) \in Nat
    BY <1>3, LenProperties DEF StartRecovery, ChanInv, ShapeInv
  <2>2. ASSUME NEW i \in 1..Len(chan)
        PROVE  [chan[i] EXCEPT !.live = FALSE] \in Unconfirming
    <3>1. chan[i] \in Requests
      BY <1>1, ElementOfSeq DEF TypeOK
    <3> QED
      BY <3>1 DEF Unconfirming, Requests
  <2> QED
    BY <2>1, <2>2, SeqDef
<1>4. CASE GiveUpRecovery \/ RecoveryFails \/ Crash
  BY <1>4, EmptySeq DEF GiveUpRecovery, RecoveryFails, Crash, Ends
<1>5. CASE Attach
  BY <1>5 DEF Attach
<1>6. CASE TakeConfirm
  <2>1. owner' = owner /\ vouched' = vouched
    BY <1>6 DEF TakeConfirm, history
  <2>2. owner \in vouched
    BY <1>6, ConfirmsOwner DEF TakeConfirm, Take, Alive
  <2>3. pc' # "reconnect"
    BY <1>6, EndRequestIs DEF TakeConfirm
  <2> QED
    BY <2>1, <2>2, <2>3
<1>7. CASE AttemptSucceeds
  BY <1>7 DEF AttemptSucceeds, Attempt, VouchInv, history
<1>8. CASE UNCHANGED <<owner, vouched>> /\ (pc' = "reconnect" => pc = "reconnect")
           /\ (Takes \/ UNCHANGED chan)
  <2>1. chan \in Seq(Unconfirming) => chan' \in Seq(Unconfirming)
    BY <1>8, TakesHead, HeadTailProperties
  <2> QED
    BY <1>8, <2>1 DEF VouchInv
<1> QED
  BY <1>2, <1>3, <1>4, <1>5, <1>6, <1>7, <1>8, OwnerForms, VouchForms, StepForms

LEMMA VouchStep ==
    ASSUME ShapeInv, VouchInv, [Next]_vars
    PROVE  VouchInv'
<1>1. ASSUME pc' \in {"steer", "recheck"}
      PROVE  owner' = confirmed'
  <2>1. UNCHANGED <<owner, confirmed>>
    BY <1>1, OwnerForms, EndRequestIs DEF TakeConfirm, AttemptSucceeds, Attach, Crash
  <2>2. CASE UNCHANGED task \/ ClaimSteer
    BY <1>1, <2>1, <2>2 DEF task, ClaimSteer, VouchInv
  <2>3. CASE TakeSteer \/ TakeStop \/ Dispatch
    BY <1>1, <2>1, <2>3 DEF TakeSteer, TakeStop, Dispatch, Take, MayDispatch, Confirmed
  <2> QED
    BY <1>1, <2>2, <2>3, MadeBy
<1>2. ASSUME Alive'
      PROVE  confirmed' \in vouched'
  <2>1. CASE Attach
    BY <2>1 DEF Attach
  <2>2. CASE TakeConfirm
    <3>1. owner \in vouched
      BY <2>2, ConfirmsOwner DEF TakeConfirm, Take, Alive
    <3>2. confirmed' \in {confirmed, owner} /\ vouched' = vouched
      BY <2>2 DEF TakeConfirm, session, history
    <3> QED
      BY <1>2, <2>2, <3>1, <3>2, VouchForms DEF VouchInv, TakeConfirm, Take, Alive
  <2>3. CASE UserRequest
    <3>1. PICK op \in Ops, m \in Ids \cup {NoId}, t \in Turns \cup {NoTurn} : Request(op, m, t)
      BY <2>3 DEF UserRequest, Ops
    <3>2. confirmed' = confirmed /\ Alive /\ (vouched' = Owners \/ vouched \subseteq vouched')
      BY <3>1 DEF Request, session
    <3> QED
      BY <3>2 DEF VouchInv, ShapeInv, AliveInv
  <2>4. CASE StartRecovery
    BY <2>4 DEF StartRecovery
  <2>5. CASE AttemptSucceeds
    BY <2>5 DEF AttemptSucceeds, Attempt, VouchInv, Alive, history
  <2>6. ~Crash
    BY <1>2 DEF Crash, Alive
  <2>7. CASE UNCHANGED <<owner, confirmed, vouched>> /\ Alive
    BY <2>7 DEF VouchInv
  <2> QED
    BY <1>2, <2>1, <2>2, <2>3, <2>4, <2>5, <2>6, <2>7, OwnerForms, VouchForms
<1> QED
  BY <1>1, <1>2, VouchChan DEF VouchInv

\* Nothing is written to a native client that the user has not connected to or confirmed, over
\* every change of the owner, reconnection and late confirmation.
THEOREM WorkerOnlyToVouchedOwner == Spec => OnlyToVouchedOwner
<1>1. Init => VouchInv
  BY EmptySeq DEF Init, VouchInv, Alive
<1>2. ASSUME ShapeInv, VouchInv, [Next]_vars
      PROVE  [\A w \in wire' \ wire : w.to \in vouched]_vars
  <2>1. ASSUME NEW w \in wire' \ wire
        PROVE  w.to \in vouched
    <3>1. RecheckSends
      BY <1>2, <2>1, DesktopForms DEF Desktop, Run, Refuse, NativeTurns, OwnerChanges
    <3>2. w.to = owner /\ pc = "recheck"
      BY <2>1, <3>1, SendsFrom DEF Submission
    <3> QED
      BY <1>2, <3>2 DEF VouchInv, Alive
  <2> QED
    BY <2>1
<1> QED
  BY <1>1, <1>2, ShapeInit, ShapeStep, VouchStep, PTL DEF Spec, OnlyToVouchedOwner

(***************************************************************************)
(* The abstract outbox                                                     *)
(***************************************************************************)
\* One message of the mapping.
StageIs(m) == IF m \in forgotten THEN "forgotten" ELSE StageOf(status[m])
RanIs(m) == m \notin forgotten /\ runs[m] > 0

\* How a row moves, as the outbox sees it.
LEMMA RowMoves ==
    ASSUME LedgerTypeOK, LedgerForm, NEW m \in Ids \ forgotten
    PROVE  \/ m \in forgotten' /\ status[m] \in Closed
           \/ /\ m \notin forgotten'
              /\ \/ status'[m] = status[m] \/ May(status[m], status'[m])
                 \/ status[m] = "absent" /\ status'[m] = "queued"
                 \/ status[m] = "queued" /\ status'[m] = "dispatching"
<1>1. CASE UNCHANGED ledger
  BY <1>1 DEF ledger
<1>2. CASE Moves
  BY <1>2 DEF Moves
<1>3. CASE \E t \in Threads, i \in Ids, k \in Kinds : Insert(t, i, k)
  BY <1>3 DEF Insert, Surplus, LedgerTypeOK
<1>4. CASE \E t \in Threads, i \in Ids : Claims(t, i)
  BY <1>4 DEF Claims, SetStatus, Rows, LedgerTypeOK
<1> QED
  BY <1>1, <1>2, <1>3, <1>4 DEF LedgerForm

\* What is run is in doubt, or was given up in doubt.
LEMMA RunsInDoubt ==
    ASSUME ShapeInv, RunInv, SentInv, [Next]_vars, NEW m \in Remembered, runs'[m] # runs[m]
    PROVE  /\ UNCHANGED ledger
           /\ status[m] \in InDoubt \cup {"dismissed"}
           /\ runs[m] = 0 /\ runs'[m] # 0
<1>1. TypeOK /\ LedgerTypeOK /\ WireInv /\ m \in Ids
  BY DEF ShapeInv, TypeOK, Remembered
<1>2. PICK w \in wire : Run(w)
  BY DesktopForms DEF Desktop, RecheckSends, Refuse, NativeTurns, OwnerChanges, history
<1>3. w.id = m /\ w.op # "stop"
  BY <1>1, <1>2, RunForms, GiveType
<1>4. runs[m] = 0 /\ OnWire(m)
  BY <1>2, <1>3 DEF OnWire, SentInv
<1>5. status[m] \notin Unsent \cup {"accepted"}
  BY <1>1, <1>4 DEF SentInv, RunInv, Fresh, Ran
<1>6. status[m] \in Open \cup Closed \cup {"absent"}
  BY <1>1 DEF LedgerTypeOK
<1>7. runs'[m] # 0
  BY <1>1, <1>2, <1>3, <1>4, RunForms, GiveType
<1> QED
  BY <1>2, <1>4, <1>5, <1>6, <1>7 DEF Run, Unsent, Open, Closed, Waiting, InDoubt

\* Every step of the worker, the user, the desktop and the App is for each message a step of the
\* outbox, or none.
LEMMA OutboxStep ==
    ASSUME ShapeInv, RunInv, SentInv, ShapeInv', RunInv', SentInv', LedgerForm, [Next]_vars,
           NEW m \in Ids
    PROVE  \/ StageIs(m)' = StageIs(m) /\ RanIs(m)' = RanIs(m)
           \/ StageIs(m) = "none" /\ StageIs(m)' = "pending" /\ RanIs(m)' = RanIs(m)
           \/ StageIs(m) = "pending" /\ StageIs(m)' = "inflight" /\ RanIs(m)' = RanIs(m)
           \/ StageIs(m) = "inflight" /\ StageIs(m)' = "pending" /\ ~RanIs(m) /\ ~RanIs(m)'
           \/ StageIs(m) = "inflight" /\ StageIs(m)' = "delivered" /\ RanIs(m) /\ RanIs(m)'
           \/ StageIs(m) = "pending" /\ StageIs(m)' = "removed" /\ RanIs(m)' = RanIs(m)
           \/ StageIs(m) = "inflight" /\ StageIs(m)' = "abandoned" /\ RanIs(m)' = RanIs(m)
           \/ /\ StageIs(m) \in {"inflight", "abandoned"} /\ StageIs(m)' = StageIs(m)
              /\ ~RanIs(m) /\ RanIs(m)'
           \/ /\ StageIs(m) \in {"delivered", "removed", "abandoned"}
              /\ StageIs(m)' = "forgotten" /\ ~RanIs(m)'
<1>1. /\ TypeOK /\ LedgerTypeOK /\ LedgerTypeOK'
      /\ runs[m] \in 0..2 /\ runs'[m] \in 0..2
      /\ status[m] \in Open \cup Closed \cup {"absent"}
      /\ status'[m] \in Open \cup Closed \cup {"absent"}
  BY DEF ShapeInv, TypeOK, LedgerTypeOK
<1>2. CASE m \in forgotten
  BY <1>2, ForgottenGrows DEF StageIs, RanIs
<1>3. CASE m \notin forgotten /\ m \in forgotten'
  BY <1>1, <1>3, RowMoves DEF StageIs, StageOf, RanIs, Closed, Waiting, InDoubt
<1>4. CASE m \notin forgotten /\ m \notin forgotten' /\ runs'[m] # runs[m]
  <2>1. /\ UNCHANGED ledger /\ status[m] \in InDoubt \cup {"dismissed"}
        /\ runs[m] = 0 /\ runs'[m] # 0
    BY <1>4, RunsInDoubt DEF Remembered
  <2>2. ~RanIs(m) /\ RanIs(m)'
    BY <1>1, <1>4, <2>1 DEF RanIs
  <2>3. StageIs(m) \in {"inflight", "abandoned"} /\ StageIs(m)' = StageIs(m)
    BY <1>4, <2>1 DEF StageIs, StageOf, ledger, InDoubt, Waiting
  <2> QED
    BY <2>2, <2>3
<1>5. CASE m \notin forgotten /\ m \notin forgotten' /\ runs'[m] = runs[m]
  <2>1. m \in Remembered /\ m \in Remembered'
    BY <1>5 DEF Remembered
  <2>2. RanIs(m)' = RanIs(m) /\ (RanIs(m) <=> Ran(m))
    BY <1>1, <1>5 DEF RanIs, Ran
  <2>3. StageIs(m) = StageOf(status[m]) /\ StageIs(m)' = StageOf(status'[m])
    BY <1>5 DEF StageIs, StageOf
  <2>4. status'[m] \in Unsent => ~RanIs(m)
    BY <1>5, <2>1, <2>2 DEF SentInv, Fresh, Ran
  <2>5. status'[m] = "accepted" => RanIs(m)
    BY <1>5, <2>2 DEF RunInv, Ran
  <2>6. \/ status'[m] = status[m] \/ May(status[m], status'[m])
        \/ status[m] = "absent" /\ status'[m] = "queued"
        \/ status[m] = "queued" /\ status'[m] = "dispatching"
    BY <1>1, <1>5, RowMoves
  <2> QED
    BY <2>2, <2>3, <2>4, <2>5, <2>6 DEF May, StageOf, Unsent, Waiting, InDoubt
<1> QED
  BY <1>2, <1>3, <1>4, <1>5

\* The worker implements the outbox: whatever is lost, fails, reconnects or restarts, a message is
\* given to the model at most once and only while it is in doubt or given up, it goes back to the
\* queue only if it was not, and it is called delivered only after it was.
THEOREM WorkerImplementsOutbox == ASSUME "event" \notin Env PROVE Spec => ImplementsOutbox
<1> DEFINE Inv == ShapeInv /\ RunInv /\ SentInv
<1>1. Init => Inv /\ Outbox!Init
  <2> SUFFICES ASSUME Init PROVE Inv /\ Outbox!Init
    OBVIOUS
  <2>1. RunInv /\ SentInv
    BY DEF Init, LedgerInit, RunInv, SentInv, Remembered, Fresh, OnWire, NoReply
  <2>2. MessageStage = [m \in Ids |-> "none"] /\ Given = [m \in Ids |-> FALSE]
    <3>1. StageOf("absent") = "none"
      BY DEF StageOf, Waiting, InDoubt
    <3>2. status = [m \in Ids |-> "absent"] /\ forgotten = {} /\ runs = [m \in Ids |-> 0]
      BY DEF Init, LedgerInit
    <3>3. MessageStage = [m \in Ids |-> "none"]
      BY <3>1, <3>2 DEF MessageStage
    <3>4. Given = [m \in Ids |-> FALSE]
      <4>1. ASSUME NEW m \in Ids
            PROVE  (m \notin forgotten /\ runs[m] > 0) = FALSE
        BY <3>2
      <4> QED
        BY <4>1, Zenon DEF Given
    <3> QED
      BY <3>3, <3>4
  <2>3. Outbox!Init
    BY <2>2 DEF Outbox!Init
  <2> QED
    BY <2>1, <2>3, ShapeInit
<1>2. Inv /\ [Next]_vars => Inv'
  BY ShapeStep, RunStep, SentStep
<1>3. Inv /\ [Next]_vars => Outbox!Next
  <2> SUFFICES ASSUME Inv, [Next]_vars PROVE Outbox!Next
    OBVIOUS
  <2>1. LedgerForm /\ LedgerTypeOK /\ LedgerTypeOK' /\ ShapeInv' /\ RunInv' /\ SentInv'
    BY <1>2, ShapeStep DEF ShapeInv, TypeOK
  <2>2. ASSUME NEW m \in Ids
        PROVE  /\ MessageStage[m] = StageIs(m) /\ MessageStage'[m] = StageIs(m)'
               /\ Given[m] = RanIs(m) /\ Given'[m] = RanIs(m)'
    BY DEF MessageStage, StageIs, Given, RanIs
  <2>3. MessageStage' \in [Ids -> Outbox!Stages]
    BY <2>1 DEF MessageStage, StageOf, Outbox!Stages, LedgerTypeOK, Open, Closed, Waiting, InDoubt
  <2>4. Given' \in [Ids -> BOOLEAN]
    BY DEF Given
  <2>5. ASSUME NEW m \in Ids
        PROVE  Outbox!Step(m) \/ Outbox!Rest(m)
    BY <2>1, <2>2, <2>5, OutboxStep DEF Outbox!Step, Outbox!Rest, Outbox!To, Outbox!Submit,
       Outbox!Take, Outbox!Return, Outbox!Confirm, Outbox!Remove, Outbox!Abandon, Outbox!RunOnce,
       Outbox!Forget
  <2> QED
    BY <2>3, <2>4, <2>5 DEF Outbox!Next
<1> QED
  BY <1>1, <1>2, <1>3, PTL DEF Spec, ImplementsOutbox, Outbox!Spec

(***************************************************************************)
(* Paused until the user asks                                              *)
(***************************************************************************)
Queued(m) == status[m] = "queued"

PauseInv ==
    /\ \A m \in Ids : status[m] = "absent" \/ thread[m] = Own
    /\ pc \in {"reconcile", "dispatch"} => conn
    /\ conn => \A m \in Ids : Queued(m) => m \in asked
    /\ pc \in {"none", "reconnect"} => \A m \in Ids : ~Queued(m)
    /\ \A m \in Ids : Queued(m) /\ kind[m] = "steer" =>
         pc = "down" \/ (pc = "steer" /\ cmd.id = m /\ m \in asked)

\* All rows are of the worker's thread: no other is inserted here.
LEMMA OwnRows ==
    ASSUME ShapeInv, [Next]_vars, \A m \in Ids : status[m] = "absent" \/ thread[m] = Own
    PROVE  \A m \in Ids : status'[m] = "absent" \/ thread'[m] = Own
<1>1. LedgerTypeOK /\ LedgerForm
  BY ShapeStep DEF ShapeInv, TypeOK
<1>2. CASE UNCHANGED ledger
  BY <1>2 DEF ledger
<1>3. CASE TakeSend \/ TakeSteer
  <2>1. PICK k \in Kinds : Enqueue(Own, Head(chan).id, k) /\ Head(chan).id \in Ids
    BY <1>3, TakenId
  <2>2. CASE Insert(Own, Head(chan).id, k)
    BY <1>1, <2>1, <2>2 DEF Insert, LedgerTypeOK
  <2> QED
    BY <1>2, <2>1, <2>2 DEF Enqueue
<1>4. CASE ~(TakeSend \/ TakeSteer)
  <2>1. CASE TakeStop \/ TakeCancel \/ TakeDismiss \/ TakeResume \/ StartRecovery \/ GiveUpRecovery
    BY <1>2, <2>1 DEF TakeStop, TakeCancel, TakeDismiss, TakeResume, StartRecovery, GiveUpRecovery,
       StorageFails, Hold, Cancel, DismissUnknown, ResumeSelected, SetStatus, Rows
  <2>2. CASE ClaimSteer \/ Dispatch
    BY <1>2, <2>2 DEF ClaimSteer, Dispatch, Claim, ClaimImmediate, CanClaim, CanClaimImmediate,
       HoldQueued, StorageFails, SetStatus, Rows
  <2>3. CASE Settle
    BY <1>2, <2>3 DEF Settle, Accepted, OutcomeUnknown, NotSent, StorageFails, SetStatus, Rows
  <2>4. CASE Reconcile
    BY <1>2, <2>4 DEF Reconcile, Accepted, StorageFails, SetStatus, Rows
  <2>5. CASE Restart
    BY <1>1, <2>5 DEF Restart, Recover
  <2> QED
    BY <1>2, <1>4, <2>1, <2>2, <2>3, <2>4, <2>5, LedgerCallers
<1> QED
  BY <1>3, <1>4

\* A message is queued by the request that asks for it, or was before.
LEMMA QueuedBy ==
    ASSUME ShapeInv, [Next]_vars, NEW m \in Ids, Queued(m)'
    PROVE  \/ Queued(m) /\ kind'[m] = kind[m]
           \/ TakeSend /\ m \in asked' /\ kind'[m] = "queue"
           \/ TakeSteer /\ m \in asked' /\ m = Head(chan).id
           \/ TakeResume /\ m \in asked' /\ kind'[m] = "queue"
<1>1. LedgerTypeOK
  BY DEF ShapeInv, TypeOK
<1>2. CASE UNCHANGED ledger
  BY <1>2 DEF ledger, Queued
<1>3. CASE TakeSend
  <2>1. Head(chan).id \in Ids /\ Enqueue(Own, Head(chan).id, "queue")
    BY <1>3, TakenId DEF TakeSend
  <2>2. CASE m = Head(chan).id /\ status[m] = "absent"
    BY <1>1, <1>3, <2>1, <2>2 DEF TakeSend, Ask, Enqueue, IsRetry, Insert, LedgerTypeOK
  <2>3. CASE ~(m = Head(chan).id /\ status[m] = "absent")
    BY <1>1, <2>1, <2>3, EnqueueRow DEF Queued, Kinds
  <2> QED
    BY <2>2, <2>3
<1>4. CASE TakeSteer
  <2>1. Head(chan).id \in Ids /\ Enqueue(Own, Head(chan).id, "steer")
    BY <1>4, TakenId DEF TakeSteer
  <2>2. CASE m = Head(chan).id /\ status[m] = "absent"
    BY <1>4, <2>2 DEF TakeSteer, Ask
  <2>3. CASE ~(m = Head(chan).id /\ status[m] = "absent")
    BY <1>1, <2>1, <2>3, EnqueueRow DEF Queued, Kinds
  <2> QED
    BY <2>2, <2>3
<1>5. CASE TakeResume
  BY <1>1, <1>5 DEF TakeResume, ResumeSelected, Resumable, Ask, SetStatus, Rows, Queued,
     LedgerTypeOK
<1>6. CASE TakeStop \/ TakeCancel \/ TakeDismiss \/ StartRecovery \/ GiveUpRecovery
  BY <1>2, <1>6 DEF TakeStop, TakeCancel, TakeDismiss, StartRecovery, GiveUpRecovery,
     StorageFails, Hold, Cancel, DismissUnknown, SetStatus, Queued
<1>7. CASE ClaimSteer \/ Dispatch
  BY <1>2, <1>7 DEF ClaimSteer, Dispatch, Claim, ClaimImmediate, HoldQueued, StorageFails,
     SetStatus,
     Queued
<1>8. CASE Settle
  BY <1>2, <1>8 DEF Settle, Accepted, OutcomeUnknown, NotSent, StorageFails, SetStatus, Queued
<1>9. CASE Reconcile
  BY <1>2, <1>9 DEF Reconcile, Accepted, StorageFails, SetStatus, Queued
<1>10. CASE Restart
  BY <1>10 DEF Restart, Recover, Queued
<1> QED
  BY <1>2, <1>3, <1>4, <1>5, <1>6, <1>7, <1>8, <1>9, <1>10, LedgerCallers

\* What the user asked for is forgotten when the stream is lost, and a stream comes back when
\* nothing is queued.
LEMMA AskedForms ==
    ASSUME [Next]_vars
    PROVE  /\ asked \subseteq asked' \/ (~conn' /\ asked' = {})
           /\ conn' => conn \/ AttemptSucceeds \/ Attach
<1>1. CASE UNCHANGED vars
  BY <1>1 DEF vars, link, history
<1>2. CASE UserRequest
  <2>1. PICK op \in Ops, m \in Ids \cup {NoId}, t \in Turns \cup {NoTurn} : Request(op, m, t)
    BY <1>2 DEF UserRequest, Ops
  <2>2. asked' = asked /\ conn' = conn
    BY <2>1 DEF Request, link
  <2> QED
    BY <2>2
<1>3. CASE Handle
  BY <1>3 DEF Handle, RefuseRequest, FruitlessRequest, TakeSend, TakeSteer, TakeStop, TakeCancel,
     TakeDismiss, TakeResume, TakeConfirm, ConfirmFails, Ask, link, history
<1>4. CASE ClaimSteer \/ RecheckRefused \/ Answered
  <2>1. UNCHANGED link /\ UNCHANGED history
    BY <1>4 DEF ClaimSteer, RecheckRefused, Answered
  <2> QED
    BY <2>1 DEF link, history
<1>5. CASE RecheckSends \/ UnreadableEvent
  BY <1>5 DEF RecheckSends, UnreadableEvent, history
<1>6. CASE RecheckBreaks \/ AnswerLost
  <2>1. ~conn' /\ asked' = {}
    BY <1>6 DEF RecheckBreaks, AnswerLost
  <2> QED
    BY <2>1
<1>7. CASE Settle \/ Reconcile \/ Dispatch \/ NothingToDispatch \/ StartRecovery
           \/ GiveUpRecovery \/ AttemptFails \/ AttemptSucceeds \/ RecoveryFails
  BY <1>7 DEF Settle, Reconcile, Dispatch, NothingToDispatch, StartRecovery,
     GiveUpRecovery, AttemptFails, AttemptSucceeds, RecoveryFails, Ends, link, history
<1>8. CASE EventWhileWaiting \/ Event \/ EventLost \/ RefuseWhileReconnecting \/ Attach
           \/ Crash \/ Restart
  BY <1>8 DEF EventWhileWaiting, Event, EventLost, RefuseWhileReconnecting, Attach, Crash, Restart,
     link, history
<1>9. CASE Desktop
  BY <1>9 DEF Desktop, Run, Refuse, NativeTurns, OwnerChanges, link, history
<1> QED
  BY <1>1, <1>2, <1>3, <1>4, <1>5, <1>6, <1>7, <1>8, <1>9 DEF Next, Worker, Proceed

\* The steps to and from the states between two requests.
LEMMA RestForms ==
    ASSUME ShapeInv, [Next]_vars
    PROVE  /\ pc' = "reconcile" => conn' \/ (pc = "reconcile" /\ UNCHANGED conn)
           /\ pc' = "dispatch" => pc \in {"reconcile", "dispatch"} /\ UNCHANGED conn
           /\ pc' = "none" => GiveUpRecovery \/ Restart
                               \/ (pc \in {"none", "reconnect"} /\ UNCHANGED ledger)
           /\ pc' = "reconnect" => StartRecovery \/ (pc = "reconnect" /\ UNCHANGED ledger)
           /\ pc \in {"steer", "down"} =>
                ClaimSteer \/ Crash \/ Restart \/ UNCHANGED <<task, ledger, asked>>
<1> DEFINE Goal == /\ pc' = "reconcile" => conn' \/ (pc = "reconcile" /\ UNCHANGED conn)
                   /\ pc' = "dispatch" => pc \in {"reconcile", "dispatch"} /\ UNCHANGED conn
                   /\ pc' = "none" => GiveUpRecovery \/ Restart
                                       \/ (pc \in {"none", "reconnect"} /\ UNCHANGED ledger)
                   /\ pc' = "reconnect" => StartRecovery \/ (pc = "reconnect" /\ UNCHANGED ledger)
                   /\ pc \in {"steer", "down"} =>
                        ClaimSteer \/ Crash \/ Restart \/ UNCHANGED <<task, ledger, asked>>
<1>1. ASSUME NEW e, pc \notin {"steer", "down"}, EndRequest(e) PROVE Goal
  BY <1>1 DEF EndRequest
<1>2. ASSUME NEW e, pc \notin {"steer", "down"}, Failed(e) PROVE Goal
  BY <1>1, <1>2 DEF Failed
<1>3. CASE UNCHANGED <<task, ledger, conn, asked>>
  BY <1>3 DEF task
<1>4. CASE UserRequest
  <2>1. PICK op \in Ops, m \in Ids \cup {NoId}, t \in Turns \cup {NoTurn} : Request(op, m, t)
    BY <1>4 DEF UserRequest, Ops
  <2> QED
    BY <1>3, <2>1 DEF Request, link
<1>5. CASE Desktop \/ UNCHANGED vars
  BY <1>3, <1>5 DEF Desktop, Run, Refuse, NativeTurns, OwnerChanges, link, history, vars
<1>6. CASE Handle
  <2>1. pc = "loop"
    BY <1>6 DEF Handle, RefuseRequest, FruitlessRequest, TakeSend, TakeSteer, TakeStop, TakeCancel,
       TakeDismiss, TakeResume, TakeConfirm, ConfirmFails, Take
  <2>2. CASE TakeSteer \/ TakeStop
    BY <1>1, <2>1, <2>2 DEF TakeSteer, TakeStop
  <2>3. CASE RefuseRequest \/ FruitlessRequest \/ TakeSend \/ TakeCancel \/ TakeDismiss
             \/ TakeResume
    BY <1>1, <2>1, <2>3 DEF RefuseRequest, FruitlessRequest, TakeSend, TakeCancel, TakeDismiss,
       TakeResume
  <2>4. CASE TakeConfirm \/ ConfirmFails
    BY <1>1, <2>1, <2>4 DEF TakeConfirm, ConfirmFails
  <2> QED
    BY <1>6, <2>2, <2>3, <2>4 DEF Handle
<1>7. CASE ClaimSteer
  BY <1>7 DEF ClaimSteer, EndRequest
<1>8. CASE RecheckRefused \/ RecheckBreaks \/ RecheckSends \/ AnswerLost \/ UnreadableEvent
  <2>1. pc \notin {"steer", "down"}
    BY <1>8 DEF RecheckRefused, RecheckBreaks, RecheckSends, AnswerLost, UnreadableEvent
  <2>2. pc' = "wait" \/ \E e : Failed(e)
    BY <1>8 DEF RecheckRefused, RecheckBreaks, RecheckSends, AnswerLost, UnreadableEvent
  <2> QED
    BY <1>2, <2>1, <2>2
<1>9. CASE Answered
  <2>1. reply.is \in {"ok", "rejected", "no_client", "unsupported"} /\ pc = "wait"
    BY <1>9 DEF Answered, ShapeInv, TypeOK, ReplyInv, NoReply, Answers
  <2>2. pc' = "settle" \/ (\E e : Failed(e)) \/ EndRequest("none")
    BY <1>9, <2>1 DEF Answered
  <2> QED
    BY <1>1, <1>2, <2>1, <2>2
<1>10. CASE Settle
  <2>1. pc = "settle" /\ (pc' = "loop" \/ \E e : EndRequest(e))
    BY <1>10 DEF Settle, Submitted
  <2> QED
    BY <1>1, <2>1
<1>11. CASE Reconcile \/ Dispatch \/ NothingToDispatch
  BY <1>11 DEF Reconcile, Dispatch, NothingToDispatch, link
<1>12. CASE StartRecovery \/ GiveUpRecovery \/ AttemptSucceeds \/ AttemptFails \/ RecoveryFails
  BY <1>12 DEF StartRecovery, GiveUpRecovery, AttemptSucceeds, Attempt, AttemptFails, RecoveryFails,
     Ends, link, task, ledger
<1>13. CASE Event \/ EventLost \/ EventWhileWaiting \/ RefuseWhileReconnecting
  BY <1>3, <1>13 DEF Event, EventLost, EventWhileWaiting, RefuseWhileReconnecting, link, history
<1>14. CASE Attach \/ Crash \/ Restart
  BY <1>14 DEF Attach, Crash, Restart
<1> QED
  BY <1>4, <1>5, <1>6, <1>7, <1>8, <1>9, <1>10, <1>11, <1>12, <1>13, <1>14 DEF Next, Worker, Proceed

\* A message is claimed by a steer's own request, or by dispatch_queued.
LEMMA DispatchedBy ==
    ASSUME ShapeInv, [Next]_vars, NEW m \in Ids, Queued(m), status'[m] = "dispatching"
    PROVE  (ClaimSteer /\ m = cmd.id) \/ Dispatch
<1>1. LedgerTypeOK
  BY DEF ShapeInv, TypeOK
<1> USE DEF Queued
<1>2. CASE TakeSend \/ TakeSteer
  BY <1>1, <1>2, TakenId, EnqueueRow
<1>3. CASE TakeStop \/ TakeCancel \/ TakeDismiss \/ TakeResume \/ StartRecovery \/ GiveUpRecovery
  BY <1>3 DEF TakeStop, TakeCancel, TakeDismiss, TakeResume, StartRecovery, GiveUpRecovery,
     StorageFails, Hold, Cancel, DismissUnknown, ResumeSelected, SetStatus, ledger
<1>4. CASE ClaimSteer
  BY <1>4 DEF ClaimSteer, ClaimImmediate, HoldQueued, StorageFails, SetStatus, ledger
<1>5. CASE Settle
  BY <1>5 DEF Settle, Accepted, OutcomeUnknown, NotSent, StorageFails, SetStatus, ledger
<1>6. CASE Reconcile
  BY <1>6 DEF Reconcile, Accepted, StorageFails, SetStatus, ledger
<1>7. CASE Restart
  BY <1>7 DEF Restart, Recover
<1>8. CASE UNCHANGED ledger
  BY <1>8 DEF ledger
<1> QED
  BY <1>2, <1>3, <1>4, <1>5, <1>6, <1>7, <1>8, LedgerCallers

LEMMA PauseStep ==
    ASSUME "storage" \notin Env, ShapeInv, PauseInv, [Next]_vars
    PROVE  PauseInv'
<1>1. TypeOK /\ LedgerTypeOK /\ LedgerTypeOK' /\ TaskInv
  BY ShapeStep DEF ShapeInv, TypeOK
<1>2. \A m \in Ids : status'[m] = "absent" \/ thread'[m] = Own
  BY OwnRows DEF PauseInv
<1>3. pc' \in {"reconcile", "dispatch"} => conn'
  BY RestForms DEF PauseInv
<1>4. ASSUME NEW m \in Ids, Queued(m)', pc' \in {"none", "reconnect"}
      PROVE  FALSE
  <2>1. CASE UNCHANGED ledger /\ pc \in {"none", "reconnect"}
    BY <1>4, <2>1 DEF PauseInv, Queued, ledger
  <2>2. CASE StartRecovery \/ GiveUpRecovery
    <3>1. Hold(Own)
      BY <2>2 DEF StartRecovery, GiveUpRecovery, StorageFails
    <3>2. status[m] = "queued" /\ m \notin Rows(Own, {"queued"})
      BY <1>4, <3>1 DEF Hold, SetStatus, Queued
    <3> QED
      BY <3>2 DEF Rows, PauseInv
  <2>3. CASE Restart
    BY <1>4, <2>3 DEF Restart, Recover, Queued
  <2> QED
    BY <1>4, <2>1, <2>2, <2>3, RestForms
<1>5. ASSUME NEW m \in Ids, Queued(m)', conn'
      PROVE  m \in asked'
  <2>1. CASE TakeSend \/ TakeSteer \/ TakeResume
    <3>1. conn
      BY <1>5, <2>1 DEF TakeSend, TakeSteer, TakeResume, link
    <3> QED
      BY <1>5, <3>1, AskedForms, QueuedBy DEF PauseInv
  <2>2. CASE Queued(m)
    <3>1. conn
      BY <1>5, <2>2, AskedForms DEF AttemptSucceeds, Attempt, Attach, PauseInv
    <3> QED
      BY <1>5, <2>2, <3>1, AskedForms DEF PauseInv
  <2> QED
    BY <1>5, <2>1, <2>2, QueuedBy
<1>6. ASSUME NEW m \in Ids, Queued(m)', kind'[m] = "steer"
      PROVE  pc' = "down" \/ (pc' = "steer" /\ cmd'.id = m /\ m \in asked')
  <2>1. CASE Queued(m) /\ kind[m] = "steer"
    <3>1. pc = "down" \/ (pc = "steer" /\ cmd.id = m /\ m \in asked)
      BY <2>1 DEF PauseInv
    <3>2. CASE ClaimSteer
      <4>1. ClaimImmediate(Own, m) \/ HoldQueued(Own, m)
        BY <3>1, <3>2 DEF ClaimSteer, StorageFails
      <4>2. m \in Rows(Own, {"queued"})
        BY <2>1 DEF Rows, PauseInv, Queued
      <4> QED
        BY <1>6, <4>1, <4>2 DEF ClaimImmediate, HoldQueued, SetStatus, Queued
    <3>3. CASE Restart
      BY <1>6, <3>3 DEF Restart, Recover, Queued
    <3>4. CASE Crash
      BY <3>4 DEF Crash
    <3>5. CASE UNCHANGED <<task, ledger, asked>>
      BY <3>1, <3>5 DEF task
    <3> QED
      BY <3>1, <3>2, <3>3, <3>4, <3>5, RestForms
  <2>2. CASE TakeSteer /\ m \in asked' /\ m = Head(chan).id
    <3>1. pending' = Listing'
      BY <2>2 DEF TakeSteer, Refresh
    <3> QED
      BY <2>2, <3>1 DEF TakeSteer
  <2> QED
    BY <1>6, <2>1, <2>2, QueuedBy
<1> QED
  BY <1>2, <1>3, <1>4, <1>5, <1>6 DEF PauseInv

\* After a lost connection or a restart the queue stands still until the user asks: with a ledger
\* that can be written, no message is claimed that was not sent or resumed since.
THEOREM WorkerPausedUntilAsked == ASSUME "storage" \notin Env PROVE Spec => PausedUntilAsked
<1>1. Init => PauseInv
  BY DEF Init, LedgerInit, PauseInv, Queued
<1>2. ASSUME ShapeInv, PauseInv, [Next]_vars
      PROVE  [\A m \in Ids :
                status[m] = "queued" /\ status'[m] = "dispatching" => m \in asked]_vars
  <2>1. ASSUME NEW m \in Ids, status[m] = "queued", status'[m] = "dispatching"
        PROVE  m \in asked
    <3>1. CASE ClaimSteer /\ m = cmd.id
      <4>1. pc = "steer" /\ kind[m] = "steer"
        BY <1>2, <2>1, <3>1 DEF ClaimSteer, ShapeInv, TaskInv, Open, Waiting
      <4> QED
        BY <1>2, <2>1, <4>1 DEF PauseInv, Queued
    <3>2. CASE Dispatch
      BY <1>2, <2>1, <3>2 DEF Dispatch, PauseInv, Queued
    <3> QED
      BY <1>2, <2>1, <3>1, <3>2, DispatchedBy DEF Queued
  <2> QED
    BY <2>1
<1> QED
  BY <1>1, <1>2, ShapeInit, ShapeStep, PauseStep, PTL DEF Spec, PausedUntilAsked

(***************************************************************************)
(* No start during a turn the worker knows to be its own                   *)
(***************************************************************************)
\* Turns end once and are not started again; a message has its turn from the run that gave it
\* to the model.
TurnInv ==
    /\ native.turn \notin native.done
    /\ \A k \in Ids : native.has[k] \in native.done \cup {native.turn, NoTurn}
    /\ \A k \in Ids : ~Ran(k) => k \notin native.done /\ native.turn # k
    /\ \A k \in started : native.has[k] # NoTurn

\* The replica is a state the native desktop was in.
ReplicaInv ==
    replica # NoReplica =>
        /\ replica.done \subseteq native.done
        /\ \A k \in Ids : replica.has[k] # NoTurn =>
             /\ native.has[k] = replica.has[k]
             /\ replica.has[k] \in replica.done \cup {replica.turn}

\* A turn of a message the ledger calls accepted, while it runs.
OwnTurn(k) == status[k] = "accepted" /\ native.has[k] # NoTurn /\ native.has[k] = native.turn
NoOtherTurn(t) == \A k \in Ids : OwnTurn(k) => native.turn = t

\* A replica that knows nothing of such a turn lags, and the worker waits for the turn to end.
AwaitInv ==
    /\ \A k \in Ids : OwnTurn(k) =>
         /\ replica = NoReplica \/ replica.turn # NoTurn \/ waitTurn = native.turn
         /\ ~(pc \in Active /\ cmd.op = "start")
    /\ pc = "wait" /\ cmd.op # "stop" /\ reply.is = "ok" =>
         native.has[cmd.id] = reply.turn /\ NoOtherTurn(reply.turn)
    /\ pc = "settle" /\ err = "none" =>
         native.has[cmd.id] = cmd.turn /\ NoOtherTurn(cmd.turn)

OnceEach == \A m \in Ids : runs[m] <= 1

\* How the native desktop runs a message.
LEMMA RunTurn ==
    ASSUME TypeOK, WireInv, NEW w \in wire, Run(w), w.op # "stop"
    PROVE  \E t \in Turns :
             /\ w.id \in Ids /\ t = IF native.turn = NoTurn THEN w.id ELSE native.turn
             /\ Give(w.id, t) /\ native'.turn = t /\ native'.done = native.done
             /\ Answer(w, "ok", t) \/ Answer(w, "rejected", NoTurn)
             /\ native'.turn # NoTurn
<1>1. w \in WireRequests /\ native \in NativeStates /\ w.id \in Ids
  BY DEF TypeOK, WireRequests, WireInv
<1>2. PICK t : /\ t = IF native.turn = NoTurn THEN w.id ELSE native.turn
               /\ Give(w.id, t)
               /\ Answer(w, "ok", t) \/ Answer(w, "rejected", NoTurn)
  BY DEF Run, RunStart, RunSteer, RunStop
<1>3. t \in Turns
  BY <1>1, <1>2 DEF NativeStates, Turns
<1>4. native'.turn = t /\ native'.done = native.done
  BY <1>1, <1>2 DEF Give, NativeStates
<1> QED
  BY <1>1, <1>2, <1>3, <1>4 DEF WorkerAssumption

\* How a turn that runs no new message begins or ends.
TurnEnds ==
    native.turn # NoTurn /\ native'.turn = NoTurn /\ native'.done = native.done \cup {native.turn}
TurnBegins ==
    /\ native.turn = NoTurn /\ native'.turn \in Foreign \ native.done
    /\ native'.done = native.done
TurnRests == native'.turn = native.turn /\ native'.done = native.done

LEMMA TurnForms ==
    ASSUME ShapeInv, [Next]_vars
    PROVE  \/ (\E w \in wire : Run(w) /\ w.op # "stop")
           \/ /\ native'.has = native.has /\ UNCHANGED <<runs, started>>
              /\ TurnEnds \/ TurnBegins \/ TurnRests
<1>1. TypeOK /\ WireInv /\ native \in NativeStates
  BY DEF ShapeInv, TypeOK
<1>2. CASE UNCHANGED <<native, runs, started>>
  BY <1>2 DEF TurnRests
<1>3. ASSUME NEW w \in wire, Run(w), w.op = "stop"
      PROVE  /\ native'.has = native.has /\ UNCHANGED <<runs, started>>
             /\ TurnEnds
  <2>1. RunStop(w)
    BY <1>3 DEF Run, RunStart, RunSteer
  <2> QED
    BY <1>1, <2>1 DEF RunStop, NativeStates, TurnEnds
<1>4. CASE NativeTurns
  <2>1. CASE Finish
    BY <1>1, <1>4, <2>1 DEF NativeTurns, Finish, NativeStates, TurnEnds, history
  <2>2. CASE ForeignStart
    BY <1>1, <1>4, <2>2 DEF NativeTurns, ForeignStart, NativeStates, TurnBegins, history
  <2>3. CASE ForeignQueue
    BY <1>1, <1>4, <2>3 DEF NativeTurns, ForeignQueue, NativeStates, TurnRests, history
  <2> QED
    BY <1>4, <2>1, <2>2, <2>3 DEF NativeTurns
<1>5. CASE RecheckSends \/ OwnerChanges \/ \E w \in wire : Refuse(w)
  BY <1>2, <1>5 DEF RecheckSends, OwnerChanges, Refuse, history
<1> QED
  BY <1>2, <1>3, <1>4, <1>5, DesktopForms DEF Desktop

\* A message keeps the turn it was run in, and a turn that has ended has ended.
LEMMA TurnsGrow ==
    ASSUME ShapeInv, RunInv, OnceEach', [Next]_vars
    PROVE  /\ native.done \subseteq native'.done
           /\ \A k \in Ids : Ran(k) => native'.has[k] = native.has[k]
<1>1. TypeOK /\ WireInv
  BY DEF ShapeInv
<1>2. ASSUME NEW w \in wire, Run(w), w.op # "stop"
      PROVE  /\ native.done \subseteq native'.done
             /\ \A k \in Ids : Ran(k) => native'.has[k] = native.has[k]
  <2>1. PICK t \in Turns : w.id \in Ids /\ Give(w.id, t) /\ native'.done = native.done
    BY <1>1, <1>2, RunTurn
  <2>2. ~Ran(w.id)
    <3>1. runs'[w.id] <= 1 /\ runs'[w.id] = IF runs[w.id] = 0 THEN 1 ELSE 2
      BY <1>1, <2>1, GiveType DEF OnceEach
    <3> QED
      BY <3>1 DEF Ran
  <2> QED
    BY <1>1, <2>1, <2>2, GiveType
<1>3. CASE native'.has = native.has /\ (TurnEnds \/ TurnBegins \/ TurnRests)
  BY <1>3 DEF TurnEnds, TurnBegins, TurnRests
<1> QED
  BY <1>2, <1>3, TurnForms

LEMMA TurnStep ==
    ASSUME ShapeInv, RunInv, TurnInv, OnceEach', [Next]_vars
    PROVE  TurnInv'
<1>1. TypeOK /\ WireInv /\ native \in NativeStates /\ native' \in NativeStates
  BY ShapeStep DEF ShapeInv, TypeOK
<1>2. ASSUME NEW w \in wire, Run(w), w.op # "stop"
      PROVE  TurnInv'
  <2>1. PICK t \in Turns : /\ w.id \in Ids
                           /\ t = IF native.turn = NoTurn THEN w.id ELSE native.turn
                           /\ Give(w.id, t) /\ native'.turn = t /\ native'.done = native.done
                           /\ native'.turn # NoTurn
    BY <1>1, <1>2, RunTurn
  <2>2. /\ native'.has[w.id] = t /\ runs'[w.id] = IF runs[w.id] = 0 THEN 1 ELSE 2
        /\ \A i \in Ids \ {w.id} : runs'[i] = runs[i] /\ native'.has[i] = native.has[i]
    BY <1>1, <2>1, GiveType
  <2>3. ~Ran(w.id) /\ Ran(w.id)'
    BY <2>1, <2>2 DEF OnceEach, Ran
  <2>4. native'.turn \notin native'.done
    BY <2>1, <2>3 DEF TurnInv
  <2>5. ASSUME NEW k \in Ids
        PROVE  native'.has[k] \in native'.done \cup {native'.turn, NoTurn}
    BY <2>1, <2>2 DEF TurnInv
  <2>6. ASSUME NEW k \in Ids, ~Ran(k)'
        PROVE  k \notin native'.done /\ native'.turn # k
    BY <2>1, <2>2, <2>3, <2>6 DEF TurnInv, Ran
  <2>7. ASSUME NEW k \in started'
        PROVE  native'.has[k] # NoTurn
    <3>1. started' \subseteq started \cup {w.id} /\ started \subseteq Ids
      BY <1>1, <1>2, RunForms DEF TypeOK
    <3> QED
      BY <2>1, <2>2, <3>1 DEF TurnInv
  <2> QED
    BY <2>4, <2>5, <2>6, <2>7 DEF TurnInv
<1>3. CASE native'.has = native.has /\ UNCHANGED <<runs, started>> /\ TurnEnds
  <2>1. NoTurn \notin native'.done /\ NoTurn \notin Ids
    BY <1>1 DEF NativeStates, WorkerAssumption, Turns
  <2>2. /\ native'.turn = NoTurn /\ native'.done = native.done \cup {native.turn}
        /\ \A k \in Ids : Ran(k)' <=> Ran(k)
    BY <1>3 DEF TurnEnds, Ran
  <2> QED
    BY <1>3, <2>1, <2>2 DEF TurnInv
<1>4. CASE native'.has = native.has /\ UNCHANGED <<runs, started>> /\ TurnBegins
  <2>1. Foreign \cap Ids = {}
    BY DEF WorkerAssumption
  <2>2. /\ native.turn = NoTurn /\ native'.turn \in Foreign \ native.done
        /\ native'.done = native.done
        /\ \A k \in Ids : Ran(k)' <=> Ran(k)
    BY <1>4 DEF TurnBegins, Ran
  <2> QED
    BY <1>4, <2>1, <2>2 DEF TurnInv
<1>5. CASE native'.has = native.has /\ UNCHANGED <<runs, started>> /\ TurnRests
  BY <1>5 DEF TurnRests, TurnInv, Ran
<1> QED
  BY <1>2, <1>3, <1>4, <1>5, TurnForms

LEMMA ReplicaStep ==
    ASSUME ShapeInv, RunInv, TurnInv, ReplicaInv, OnceEach', [Next]_vars
    PROVE  ReplicaInv'
<1>1. /\ native.done \subseteq native'.done
      /\ \A k \in Ids : native.has[k] # NoTurn => native'.has[k] = native.has[k]
  BY TurnsGrow DEF RunInv
<1>2. CASE replica' = NoReplica
  BY <1>2 DEF ReplicaInv
<1>3. CASE replica' = replica
  BY <1>1, <1>3 DEF ReplicaInv
<1>4. CASE replica' = native
  BY <1>1, <1>4 DEF ReplicaInv, TurnInv
<1> QED
  BY <1>2, <1>3, <1>4, ReplicaForms

\* A turn that is an accepted message's own after a step was so before: turns are not reused.
LEMMA OwnTurnWas ==
    ASSUME ShapeInv, RunInv, TurnInv, TurnInv', OnceEach', [Next]_vars,
           NEW k \in Ids, OwnTurn(k)', status[k] = "accepted"
    PROVE  OwnTurn(k) /\ native'.turn = native.turn
<1>1. Ran(k)
  BY DEF RunInv
<1>2. native'.has[k] = native.has[k] /\ native.done \subseteq native'.done
  BY <1>1, TurnsGrow
<1>3. native.has[k] # NoTurn /\ native.has[k] = native'.turn
  BY <1>2 DEF OwnTurn
<1>4. native.has[k] \notin native.done
  BY <1>2, <1>3 DEF TurnInv
<1> QED
  BY <1>3, <1>4 DEF TurnInv, OwnTurn

\* What is waited for changes when a message is accepted, when it may be claimed, and when the
\* worker ends.
LEMMA WaitTurnBy ==
    ASSUME [Next]_vars
    PROVE  \/ waitTurn' = waitTurn
           \/ Settle /\ err = "none" /\ waitTurn' = cmd.turn
           \/ MayDispatch
           \/ replica' = NoReplica
<1>1. CASE UNCHANGED vars
  BY <1>1 DEF vars
<1>2. CASE UserRequest
  BY <1>2 DEF UserRequest, Request
<1>3. CASE Handle
  BY <1>3 DEF Handle, RefuseRequest, FruitlessRequest, TakeSend, TakeSteer, TakeStop, TakeCancel,
     TakeDismiss, TakeResume, TakeConfirm, ConfirmFails
<1>4. CASE Proceed
  BY <1>4 DEF Proceed, ClaimSteer, RecheckRefused, RecheckBreaks, RecheckSends, Answered,
     AnswerLost, UnreadableEvent, Settle, Reconcile, Dispatch, NothingToDispatch, StartRecovery,
     GiveUpRecovery, AttemptSucceeds, AttemptFails, RecoveryFails, Ends
<1>5. CASE EventWhileWaiting \/ Event \/ EventLost \/ RefuseWhileReconnecting \/ Attach
           \/ Crash \/ Restart
  BY <1>5 DEF EventWhileWaiting, Event, EventLost, RefuseWhileReconnecting, Attach,
     Crash, Restart
<1>6. CASE Desktop
  BY <1>6 DEF Desktop, Run, Refuse, NativeTurns, OwnerChanges
<1> QED
  BY <1>1, <1>2, <1>3, <1>4, <1>5, <1>6 DEF Next, Worker

\* The guard of dispatch_queued holds only when no accepted message's turn runs.
LEMMA DispatchIsSafe ==
    ASSUME TurnInv, ReplicaInv, AwaitInv, MayDispatch, NEW k \in Ids
    PROVE  ~OwnTurn(k)
<1> SUFFICES ASSUME OwnTurn(k) PROVE FALSE
  OBVIOUS
<1>1. replica # NoReplica /\ replica.turn = NoTurn
  BY DEF MayDispatch, Idle
<1>2. waitTurn = native.turn /\ native.turn # NoTurn
  BY <1>1 DEF AwaitInv, OwnTurn
<1>3. native.turn \in native.done
  BY <1>1, <1>2 DEF MayDispatch, ReplicaInv
<1> QED
  BY <1>3 DEF TurnInv

\* What an answer "ok" says of the request the worker waits for.
LEMMA AnsweredTurn ==
    ASSUME ShapeInv, [Next]_vars, pc = "wait", cmd.op # "stop", reply'.is = "ok", reply.is # "ok"
    PROVE  native'.has[cmd.id] = reply'.turn /\ native'.turn = reply'.turn
<1>1. TypeOK /\ WireInv
  BY DEF ShapeInv
<1>2. CASE reply' \in {reply, NoReply}
  BY <1>2 DEF NoReply
<1>3. ASSUME NEW w, NEW is, NEW t, Answer(w, is, t)
      PROVE  reply' = reply \/ (w = Submission /\ reply' = [is |-> is, turn |-> t])
  BY <1>3 DEF Answer, Awaited
<1>4. ASSUME NEW w \in wire, Run(w)
      PROVE  native'.has[cmd.id] = reply'.turn /\ native'.turn = reply'.turn
  <2>1. CASE w.op = "stop"
    <3>1. Answer(w, "ok", NoTurn)
      BY <1>1, <1>4, <2>1, RunForms
    <3>2. w # Submission
      BY <2>1 DEF Submission
    <3> QED
      BY <1>3, <3>1, <3>2
  <2>2. CASE w.op # "stop"
    <3>1. PICK t \in Turns : /\ Give(w.id, t) /\ w.id \in Ids /\ native'.turn = t
                             /\ Answer(w, "ok", t) \/ Answer(w, "rejected", NoTurn)
      BY <1>1, <1>4, <2>2, RunTurn
    <3>2. w = Submission /\ reply'.turn = t
      BY <1>3, <3>1
    <3>3. native'.has[w.id] = t
      BY <1>1, <3>1, GiveType
    <3> QED
      BY <3>1, <3>2, <3>3 DEF Submission
  <2> QED
    BY <2>1, <2>2
<1>5. ASSUME NEW w \in wire, Refuse(w)
      PROVE  FALSE
  BY <1>2, <1>3, <1>5 DEF Refuse
<1>6. CASE RecheckSends \/ NativeTurns \/ OwnerChanges
  BY <1>2, <1>6 DEF RecheckSends, NativeTurns, OwnerChanges
<1> QED
  BY <1>2, <1>4, <1>5, <1>6, DesktopForms DEF Desktop

\* The answer of the message the worker waits for names the turn it was run in, and no other
\* accepted message's turn runs.
LEMMA AnswerStep ==
    ASSUME ShapeInv, RunInv, TurnInv, TurnInv', AwaitInv, OnceEach', [Next]_vars,
           pc' = "wait", cmd'.op # "stop", reply'.is = "ok"
    PROVE  native'.has[cmd'.id] = reply'.turn /\ NoOtherTurn(reply.turn)'
<1>1. pc = "wait" /\ cmd' = cmd
  BY WaitsFor DEF NoReply
<1>2. cmd.id \in Ids
  BY <1>1 DEF ShapeInv, TaskInv, Submits, Active
<1>3. CASE reply.is # "ok"
  BY <1>1, <1>3, AnsweredTurn DEF NoOtherTurn
<1>4. CASE reply.is = "ok"
  <2>1. reply' = reply
    <3>1. CASE reply' \in {reply, NoReply}
      BY <3>1 DEF NoReply
    <3>2. CASE RecheckSends
      BY <1>1, <3>2, SendsFrom
    <3>3. CASE Desktop
      <4>1. reply # NoReply
        BY <1>4 DEF NoReply
      <4>2. ASSUME NEW w, NEW is, NEW t, Answer(w, is, t) PROVE reply' = reply
        BY <4>1, <4>2 DEF Answer, Awaited
      <4> QED
        BY <3>3, <4>2 DEF Desktop, Run, RunStart, RunSteer, RunStop, Refuse, NativeTurns,
           OwnerChanges
    <3> QED
      BY <3>1, <3>2, <3>3, DesktopForms
  <2>2. Ran(cmd.id) /\ native.has[cmd.id] = reply.turn /\ NoOtherTurn(reply.turn)
    BY <1>1, <1>4 DEF RunInv, AwaitInv
  <2>3. native'.has[cmd.id] = native.has[cmd.id]
    BY <1>2, <2>2, TurnsGrow
  <2>4. ASSUME NEW k \in Ids, OwnTurn(k)'
        PROVE  native'.turn = reply'.turn
    <3>1. status[k] = "accepted"
      BY <1>1, <2>4, AcceptedBy DEF OwnTurn, Settle, Reconcile
    <3> QED
      BY <2>1, <2>2, <2>4, <3>1, OwnTurnWas DEF NoOtherTurn
  <2> QED
    BY <1>1, <2>1, <2>2, <2>3, <2>4 DEF NoOtherTurn
<1> QED
  BY <1>3, <1>4

LEMMA OutcomeStep ==
    ASSUME ShapeInv, RunInv, TurnInv, TurnInv', AwaitInv, OnceEach', [Next]_vars,
           pc' = "settle", err' = "none"
    PROVE  native'.has[cmd'.id] = cmd'.turn /\ NoOtherTurn(cmd.turn)'
<1>1. ASSUME NEW k \in Ids, OwnTurn(k)'
      PROVE  OwnTurn(k) /\ native'.turn = native.turn
  <2>1. ~Settle /\ ~Reconcile
    <3>1. ASSUME NEW e, EndRequest(e) \/ Submitted(e) PROVE FALSE
      BY <3>1, EndRequestIs, SubmittedIs
    <3> QED
      BY <3>1 DEF Settle, Reconcile
  <2> QED
    BY <1>1, <2>1, AcceptedBy, OwnTurnWas DEF OwnTurn
<1>2. CASE UNCHANGED task
  <2>1. pc = "settle" /\ err = "none" /\ cmd' = cmd
    BY <1>2 DEF task
  <2>2. cmd.id \in Ids /\ Ran(cmd.id)
    BY <2>1 DEF ShapeInv, TaskInv, Submits, Active, RunInv
  <2>3. native'.has[cmd.id] = native.has[cmd.id]
    BY <2>2, TurnsGrow
  <2> QED
    BY <1>1, <2>1, <2>3 DEF AwaitInv, NoOtherTurn
<1>3. CASE pc = "wait" /\ reply.is = "ok"
  <2>1. Answered
    <3>1. ASSUME NEW e \in Errors, Failed(e) PROVE FALSE
      BY <3>1, FailedIs DEF Errors
    <3>2. ~AnswerLost /\ ~UnreadableEvent
      BY <3>1 DEF AnswerLost, UnreadableEvent, Errors
    <3> QED
      BY <1>3, <3>2, AwaitedBy DEF task, RecheckRefused, RecheckBreaks, RecheckSends
  <2>2. /\ cmd.op # "stop" /\ cmd' = [cmd EXCEPT !.turn = reply.turn] /\ UNCHANGED native
    BY <1>3, <2>1, EndRequestIs DEF Answered
  <2>3. cmd'.id = cmd.id /\ cmd'.turn = reply.turn
    BY <2>2 DEF ShapeInv, TypeOK
  <2> QED
    BY <1>1, <1>3, <2>2, <2>3 DEF AwaitInv, NoOtherTurn
<1>4. ~(pc = "settle" /\ ~UNCHANGED task)
  BY AwaitedBy DEF RecheckRefused, RecheckBreaks, RecheckSends, Answered, AnswerLost,
     UnreadableEvent
<1> QED
  BY <1>2, <1>3, <1>4, SettledBy

\* Only dispatch_queued makes a start.
LEMMA StartsAfter ==
    ASSUME ShapeInv, [Next]_vars, pc' \in Active, cmd'.op = "start"
    PROVE  (pc \in Active /\ cmd.op = "start") \/ Dispatch
<1>1. CASE UNCHANGED task
  BY <1>1 DEF task
<1>2. CASE pc' = "recheck" /\ ~UNCHANGED task
  <2>1. ASSUME NEW e, EndRequest(e) PROVE FALSE
    BY <1>2, <2>1, EndRequestIs
  <2>2. ~(TakeSteer \/ TakeStop)
    BY <1>2, <2>1 DEF TakeSteer, TakeStop
  <2>3. ~ClaimSteer
    BY <2>1 DEF ClaimSteer, ShapeInv, TaskInv
  <2> QED
    BY <1>2, <2>2, <2>3, MadeBy
<1>3. CASE pc' \in {"wait", "settle"} /\ ~UNCHANGED task
  BY <1>3, TaskForms DEF ShapeInv, TaskRests, TaskStarts, TaskGoesOn, Between, task
<1> QED
  BY <1>1, <1>2, <1>3 DEF Active

LEMMA AwaitStep ==
    ASSUME ShapeInv, RunInv, TurnInv, TurnInv', ReplicaInv, AwaitInv, OnceEach', [Next]_vars
    PROVE  AwaitInv'
<1>1. ASSUME NEW k \in Ids, OwnTurn(k)'
      PROVE  replica' = NoReplica \/ replica'.turn # NoTurn \/ waitTurn' = native'.turn
  <2>1. CASE status[k] = "accepted"
    <3>1. OwnTurn(k) /\ native'.turn = native.turn /\ ~MayDispatch
      BY <1>1, <2>1, OwnTurnWas, DispatchIsSafe
    <3>2. native.turn # NoTurn
      BY <3>1 DEF OwnTurn
    <3>3. CASE Settle /\ err = "none" /\ waitTurn' = cmd.turn
      BY <3>1, <3>3 DEF Settle, AwaitInv, NoOtherTurn
    <3>4. CASE waitTurn' = waitTurn
      BY <3>1, <3>2, <3>4, ReplicaForms DEF AwaitInv
    <3> QED
      BY <3>1, <3>3, <3>4, WaitTurnBy
  <2>2. CASE Settle /\ err = "none" /\ k = cmd.id
    BY <1>1, <2>2 DEF Settle, AwaitInv, desktop, OwnTurn
  <2>3. CASE Reconcile /\ k \in Confirmable
    <3>1. replica # NoReplica /\ replica.has[k] # NoTurn /\ native' = native /\ replica' = replica
      BY <2>3 DEF Reconcile, Confirmable, link, desktop
    <3>2. replica.has[k] = native.turn /\ native.turn # NoTurn
      BY <1>1, <3>1 DEF ReplicaInv, OwnTurn
    <3>3. native.turn \notin replica.done
      BY <3>1 DEF ReplicaInv, TurnInv
    <3> QED
      BY <3>1, <3>2, <3>3 DEF ReplicaInv
  <2> QED
    BY <1>1, <2>1, <2>2, <2>3, AcceptedBy DEF OwnTurn
<1>2. ASSUME NEW k \in Ids, OwnTurn(k)', pc' \in Active, cmd'.op = "start"
      PROVE  FALSE
  <2>1. ~Settle /\ ~Reconcile
    <3>1. ASSUME NEW e, EndRequest(e) \/ Submitted(e) PROVE FALSE
      BY <1>2, <3>1, EndRequestIs, SubmittedIs DEF Active
    <3> QED
      BY <1>2, <3>1 DEF Settle, Reconcile, Active
  <2>2. OwnTurn(k)
    BY <1>2, <2>1, AcceptedBy, OwnTurnWas DEF OwnTurn
  <2>3. ~Dispatch
    BY <2>2, DispatchIsSafe DEF Dispatch
  <2> QED
    BY <1>2, <2>2, <2>3, StartsAfter DEF AwaitInv
<1>3. pc' = "wait" /\ cmd'.op # "stop" /\ reply'.is = "ok" =>
        native'.has[cmd'.id] = reply'.turn /\ NoOtherTurn(reply.turn)'
  BY AnswerStep
<1>4. pc' = "settle" /\ err' = "none" =>
        native'.has[cmd'.id] = cmd'.turn /\ NoOtherTurn(cmd.turn)'
  BY OutcomeStep
<1> QED
  BY <1>1, <1>2, <1>3, <1>4 DEF AwaitInv

\* An identity that was deleted from the ledger is new to it when it is sent anew, but not to the
\* native state: its first run there would confirm a second one that the replica has not seen.  The
\* hypothesis is that no deleted identity is run a second time.
ForgottenRunOnce == \A m \in forgotten : runs[m] <= 1

\* No follow-up is written while a turn runs that the ledger's own accepted message started, however
\* far the replica lags behind the desktop and whichever answer or event accepted the message.
THEOREM WorkerNoStartDuringOwnTurn ==
    ASSUME "event" \notin Env
    PROVE  Spec /\ []ForgottenRunOnce => NoStartDuringOwnTurn
<1>1. Init => RunInv /\ SentInv /\ TurnInv /\ ReplicaInv /\ AwaitInv
  <2> SUFFICES ASSUME Init PROVE RunInv /\ SentInv /\ TurnInv /\ ReplicaInv /\ AwaitInv
    OBVIOUS
  <2>1. RunInv /\ SentInv
    BY DEF Init, LedgerInit, RunInv, SentInv, Remembered, Fresh, OnWire, NoReply
  <2>2. TurnInv /\ ReplicaInv /\ AwaitInv
    BY DEF Init, LedgerInit, TurnInv, ReplicaInv, AwaitInv, OwnTurn, NoReply, Turns,
       WorkerAssumption
  <2> QED
    BY <2>1, <2>2
<1>2. ShapeInv /\ SentInv /\ ForgottenRunOnce => OnceEach
  BY DEF SentInv, ForgottenRunOnce, OnceEach, Remembered, ShapeInv, TypeOK, LedgerTypeOK
<1>3. ASSUME ShapeInv, RunInv, TurnInv, ReplicaInv, AwaitInv, OnceEach', [Next]_vars
      PROVE  TurnInv' /\ ReplicaInv' /\ AwaitInv'
  BY <1>3, TurnStep, ReplicaStep, AwaitStep
<1>4. ASSUME ShapeInv, TurnInv, AwaitInv, [Next]_vars
      PROVE  [\A m, k \in Ids :
                /\ \E w \in wire' \ wire : w.op = "start" /\ w.id = m
                /\ status[k] = "accepted" /\ k \in started
                => native.turn # native.has[k]]_vars
  <2>1. ASSUME NEW k \in Ids, NEW w \in wire' \ wire, w.op = "start",
               status[k] = "accepted", k \in started, native.turn = native.has[k]
        PROVE  FALSE
    <3>1. RecheckSends
      BY <1>4, <2>1, DesktopForms DEF Desktop, Run, Refuse, NativeTurns, OwnerChanges
    <3>2. pc = "recheck" /\ cmd.op = "start"
      BY <2>1, <3>1, SendsFrom DEF Submission
    <3>3. OwnTurn(k)
      BY <1>4, <2>1 DEF TurnInv, OwnTurn
    <3> QED
      BY <1>4, <3>2, <3>3 DEF AwaitInv, Active
  <2> QED
    BY <2>1
<1> QED
  BY <1>1, <1>2, <1>3, <1>4, ShapeInit, ShapeStep, RunStep, SentStep, PTL
     DEF Spec, NoStartDuringOwnTurn
=============================================================================
