--------------------------- MODULE DesktopApproval ---------------------------
(***************************************************************************)
(* Requests of the native desktop that wait for the user (approvals,       *)
(* questions, forms) and the decisions the user takes on them in the App:  *)
(* the interface (DesktopRequests.tsx), the channel of the worker, its     *)
(* look for the request in its replica, the check of the owner, and the    *)
(* last look at the request before the answer is written (worker.rs        *)
(* `reply', session.rs `execute_observing', commands.rs `prepare').        *)
(*                                                                         *)
(* The native desktop numbers its requests, and names them by that number  *)
(* in what it accepts; everything else about a request, with the changes   *)
(* to files it refers to, is its body here.  The body of a request can be  *)
(* revised while it is pending.  The stream of the desktop is in order, so *)
(* the answer to the check of the owner comes after every change of the    *)
(* requests before it.  Queue, steers and stops are in DesktopWorker.      *)
(***************************************************************************)
EXTENDS Integers, Sequences, FiniteSets

CONSTANTS
    DaOwners,       \* native clients that can own the thread
    DaIds,          \* numbers of requests
    DaBodies,       \* what requests can say
    DaOpaque,       \* bodies that are not shown in full, or not understood
    NoBody,
    DaChanCap,      \* capacity of the channel of the worker (16)
    DaMaxAsked,     \* bound: requests that are made or revised
    DaMaxSession    \* bound: lost connections

ASSUME ApprovalAssumption ==
  /\ DaOpaque \subseteq DaBodies /\ NoBody \notin DaBodies
  /\ DaOwners # {} /\ DaChanCap \in Nat \ {0} /\ DaMaxAsked \in Nat /\ DaMaxSession \in Nat

VARIABLES
    daOwner,     \* the native client that owns the thread
    daAsked,     \* its pending requests: body by number
    daMade,      \* bound: requests made or revised
    daPc,        \* where the worker is: "loop", "check", "wait", "reconnect"
    daCmd,       \* the decision it works on
    daSession,   \* WorkerLoop.session_id
    daPhase,     \* WorkerLoop.connection_phase
    daLink,      \* the owner its session was attached to
    daConfirmed, \* WorkerLoop.confirmed_owner
    daReplica,   \* the requests in its NativeState
    daFound,     \* answer of the desktop to the check: owner, and its requests then
    daUi,        \* the last view the interface received
    daChan,      \* decisions on their way to the worker
    daWire,      \* answers on their way to the desktop
    daDone       \* the desktop answered the answer

daNative == <<daOwner, daAsked, daMade>>
daWorker == <<daPc, daCmd, daFound>>
daLinked == <<daSession, daPhase, daLink, daConfirmed, daReplica>>
daVars == <<daNative, daWorker, daLinked, daUi, daChan, daWire, daDone>>

Pending == [DaIds -> DaBodies \cup {NoBody}]
NothingAsked == [i \in DaIds |-> NoBody]
\* A decision; of: history, the client whose request the user saw.
Decision == [id : DaIds, body : DaBodies, allow : BOOLEAN, session : Nat, of : DaOwners]
NoCommand == [id |-> 0]
NotFound == [owner |-> NoBody]

DaTypeOK ==
  /\ daOwner \in DaOwners /\ daAsked \in Pending /\ daMade \in 0..DaMaxAsked
  /\ daPc \in {"loop", "check", "wait", "reconnect"}
  /\ daCmd \in Decision \cup {NoCommand}
  /\ daSession \in 0..DaMaxSession
  /\ daPhase \in {"connected", "owner_confirmation_required", "reconnecting"}
  /\ daLink \in DaOwners /\ daConfirmed \in DaOwners /\ daReplica \in Pending
  /\ daFound = NotFound \/ daFound \in [owner : DaOwners, asked : Pending]
  /\ daUi \in [session : Nat, writable : BOOLEAN, asked : Pending, of : DaOwners]
  /\ daChan \in Seq(Decision) /\ Len(daChan) <= DaChanCap
  /\ \A w \in daWire : w.of \in DaOwners /\ w.owner \in DaOwners
  /\ daDone \in BOOLEAN
-----------------------------------------------------------------------------
\* make_view
Writable == daPhase = "connected" /\ daLink = daConfirmed
View == [session |-> daSession, writable |-> Writable, of |-> daLink,
         asked |-> IF daPhase = "reconnecting" THEN NothingAsked ELSE daReplica]

\* The user connected to the thread.
ApprovalInit ==
  /\ daOwner \in DaOwners /\ daAsked = NothingAsked /\ daMade = 0
  /\ daPc = "loop" /\ daCmd = NoCommand /\ daFound = NotFound
  /\ daSession = 0 /\ daPhase = "connected"
  /\ daLink = daOwner /\ daConfirmed = daOwner /\ daReplica = NothingAsked
  /\ daUi = View /\ daChan = <<>> /\ daWire = {} /\ daDone = FALSE
-----------------------------------------------------------------------------
\* The native desktop makes a request, revises one, or the user answers there.
DaAsks(i, body) ==
  /\ daMade < DaMaxAsked /\ body # daAsked[i]
  /\ daAsked' = [daAsked EXCEPT ![i] = body]
  /\ daMade' = daMade + 1
  /\ UNCHANGED <<daOwner, daWorker, daLinked, daUi, daChan, daWire, daDone>>
DaSettledThere(i) ==
  /\ daAsked[i] # NoBody
  /\ daAsked' = [daAsked EXCEPT ![i] = NoBody]
  /\ UNCHANGED <<daOwner, daMade, daWorker, daLinked, daUi, daChan, daWire, daDone>>

\* Another client takes the thread over; the requests of the former one end.
DaOwnerMoves(o) ==
  /\ o # daOwner
  /\ daOwner' = o /\ daAsked' = NothingAsked
  /\ UNCHANGED <<daMade, daWorker, daLinked, daUi, daChan, daWire, daDone>>

\* An answer arrives: it is for a number, at one client.
DaReceives(w) ==
  LET hit == w.owner = daOwner /\ daAsked[w.id] # NoBody IN
  /\ w \in daWire
  /\ daWire' = daWire \ {w}
  /\ daAsked' = IF hit THEN [daAsked EXCEPT ![w.id] = NoBody] ELSE daAsked
  /\ daDone' = (daPc = "wait" /\ w.session = daSession)
  /\ UNCHANGED <<daOwner, daMade, daWorker, daLinked, daUi, daChan>>
-----------------------------------------------------------------------------
\* A state event of the owner the session is attached to is read, between
\* handlers or while one waits.
DaReadsEvent ==
  /\ daPc # "reconnect" /\ daFound = NotFound /\ daLink = daOwner
  /\ daReplica # daAsked
  /\ daReplica' = daAsked
  /\ UNCHANGED <<daNative, daWorker, daSession, daPhase, daLink, daConfirmed, daUi, daChan,
                 daWire, daDone>>

\* receive of useCodexDesktop.ts: views arrive in order.
DaShows ==
  /\ daUi # View
  /\ daUi' = View
  /\ UNCHANGED <<daNative, daWorker, daLinked, daChan, daWire, daDone>>

\* A button of DesktopRequests.tsx: what cannot be reviewed can only be declined.
DaPicks(i, allow) ==
  /\ daUi.writable /\ daUi.asked[i] # NoBody
  /\ allow => daUi.asked[i] \notin DaOpaque
  /\ Len(daChan) < DaChanCap
  /\ daChan' = Append(daChan, [id |-> i, body |-> daUi.asked[i], allow |-> allow,
                               session |-> daUi.session, of |-> daUi.of])
  /\ UNCHANGED <<daNative, daWorker, daLinked, daUi, daWire, daDone>>

\* The key of a request is a digest of all of it. Mutant: the number alone.
SameNumber(asked, decision) == asked[decision.id] # NoBody
SameKey(asked, decision) == asked[decision.id] = decision.body

\* The session, the guard of `action' and the look of `reply'.
Accepts(decision) ==
  /\ decision.session = daSession
  /\ Writable
  /\ SameKey(daReplica, decision)

\* A decision is taken from the channel; it is refused, or the owner is asked for.
DaTakes ==
  LET decision == Head(daChan) IN
  /\ daPc = "loop" /\ daChan # <<>>
  /\ daChan' = Tail(daChan)
  /\ IF Accepts(decision)
       THEN daPc' = "check" /\ daCmd' = decision
       ELSE UNCHANGED <<daPc, daCmd>>
  /\ UNCHANGED <<daNative, daFound, daLinked, daUi, daWire, daDone>>

\* The desktop answers who owns the thread.
DaAnswersOwner ==
  /\ daPc = "check" /\ daFound = NotFound
  /\ daFound' = [owner |-> daOwner, asked |-> daAsked]
  /\ UNCHANGED <<daNative, daPc, daCmd, daLinked, daUi, daChan, daWire, daDone>>

\* can_approve of `prepare'
Reviewable(asked, decision) == decision.allow => asked[decision.id] \notin DaOpaque

\* recheck_owner returned the owner of the session, and what came before its
\* answer was applied: the request is looked at again, and answered.
DaWrites ==
  LET seen == daFound.asked
      send == SameKey(seen, daCmd) /\ Reviewable(seen, daCmd) IN
  /\ daPc = "check" /\ daFound # NotFound /\ daFound.owner = daLink
  /\ daReplica' = seen
  /\ daFound' = NotFound
  /\ daPc' = IF send THEN "wait" ELSE "loop"
  /\ daCmd' = IF send THEN daCmd ELSE NoCommand
  /\ daWire' = IF send THEN daWire \cup {[owner |-> daLink, id |-> daCmd.id, body |-> daCmd.body,
                                          allow |-> daCmd.allow, session |-> daSession,
                                          of |-> daCmd.of, seen |-> seen]}
               ELSE daWire
  /\ UNCHANGED <<daNative, daSession, daPhase, daLink, daConfirmed, daUi, daChan, daDone>>

\* The desktop's answer is read, whatever it says.
DaEnds ==
  /\ daPc = "wait" /\ daDone
  /\ daPc' = "loop" /\ daCmd' = NoCommand /\ daDone' = FALSE
  /\ UNCHANGED <<daNative, daFound, daLinked, daUi, daChan, daWire>>
-----------------------------------------------------------------------------
\* recover: the session is rotated before anything is waited for.
DaRecover ==
  /\ daPc' = "reconnect" /\ daCmd' = NoCommand /\ daFound' = NotFound /\ daDone' = FALSE
  /\ daPhase' = "reconnecting" /\ daSession' = daSession + 1
  /\ UNCHANGED <<daNative, daLink, daConfirmed, daReplica, daUi, daChan, daWire>>

\* The stream ends, or an exchange times out and drops it.
DaLost == daPc # "reconnect" /\ daSession < DaMaxSession /\ DaRecover
\* recheck_owner found another owner.
DaOtherOwner ==
  /\ daPc = "check" /\ daFound # NotFound /\ daFound.owner # daLink
  /\ daSession < DaMaxSession
  /\ DaRecover

\* While it reconnects the worker refuses what comes.
DaRefuses ==
  /\ daPc = "reconnect" /\ daChan # <<>>
  /\ daChan' = Tail(daChan)
  /\ UNCHANGED <<daNative, daWorker, daLinked, daUi, daWire, daDone>>

\* project_after_recovery
DaReconnects ==
  /\ daPc = "reconnect"
  /\ daPc' = "loop"
  /\ daLink' = daOwner /\ daReplica' = daAsked
  /\ daPhase' = IF daOwner = daConfirmed THEN "connected" ELSE "owner_confirmation_required"
  /\ UNCHANGED <<daNative, daCmd, daFound, daSession, daConfirmed, daUi, daChan, daWire, daDone>>

\* confirm: the user connects again and accepts the owner.
DaConfirms ==
  /\ daPc = "loop" /\ daPhase = "owner_confirmation_required" /\ daLink = daOwner
  /\ daConfirmed' = daLink /\ daPhase' = "connected"
  /\ UNCHANGED <<daNative, daWorker, daSession, daLink, daReplica, daUi, daChan, daWire, daDone>>

ApprovalNext ==
  \/ \E i \in DaIds, body \in DaBodies : DaAsks(i, body)
  \/ \E i \in DaIds : DaSettledThere(i)
  \/ \E o \in DaOwners : DaOwnerMoves(o)
  \/ \E w \in daWire : DaReceives(w)
  \/ DaReadsEvent \/ DaShows
  \/ \E i \in DaIds, allow \in BOOLEAN : DaPicks(i, allow)
  \/ DaTakes \/ DaAnswersOwner \/ DaWrites \/ DaEnds
  \/ DaLost \/ DaOtherOwner \/ DaRefuses \/ DaReconnects \/ DaConfirms

ApprovalSpec == ApprovalInit /\ [][ApprovalNext]_daVars
-----------------------------------------------------------------------------
\* A decision on its way to the desktop is for the client whose request the user
\* saw, and when that client answered the check of the owner the request said
\* what the user saw and, if it is allowed, could be reviewed in full.  Between
\* the click and the check it may have been revised, withdrawn or asked again by
\* another client, and the session lost and made anew (commands.rs 298-318,
\* worker.rs 615-634 and 204).
DecidedAsShown ==
  \A w \in daWire :
    /\ w.owner = w.of
    /\ w.seen[w.id] = w.body
    /\ w.allow => w.seen[w.id] \notin DaOpaque
=============================================================================
