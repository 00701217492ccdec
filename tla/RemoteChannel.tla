--------------------------- MODULE RemoteChannel ---------------------------
(***************************************************************************)
(* The App's connection to the machine the user chose: RemoteConnections   *)
(* (remote.rs) and its SSH client (remote/ssh.rs).  A command carries the  *)
(* revision its view was drawn from.  A command for the remote machine     *)
(* takes the shared client, or joins the attempt to connect one; a command *)
(* that writes, there or here, keeps the machine from being changed while  *)
(* it runs.  The state is behind one mutex: each action below is one of    *)
(* its critical sections, or an await between two of them.                 *)
(***************************************************************************)
EXTENDS Naturals, FiniteSets

CONSTANTS
  Machines,     \* remote machines
  Local,        \* the target that is not one of them
  RemoteCalls,  \* commands for the remote machine
  LocalCalls,   \* commands that write on this one
  Mutating,     \* is_mutating_rpc_command
  Changers,     \* commands that change the machine
  MaxRevision,  \* bound on changes
  MaxClients,   \* bound on connections ever started
  MaxCuts       \* bound on connections that fail or are lost, and calls that time out

ASSUME RemoteAssumption ==
  /\ Local \notin Machines
  /\ Mutating \subseteq RemoteCalls /\ RemoteCalls \cap LocalCalls = {}
  /\ IsFiniteSet(RemoteCalls) /\ IsFiniteSet(LocalCalls)
  /\ MaxRevision \in Nat /\ MaxClients \in Nat \ {0} /\ MaxCuts \in Nat

VARIABLES
  rcTarget,    \* Preferences: the target, or the active machine
  rcRevision,  \* Preferences::revision
  rcWrites,    \* ConnectionState::writes
  rcChanging,  \* ConnectionState::changing
  rcClosed,    \* ConnectionState::closed
  rcClient,    \* ConnectionState::client, 0 for none
  rcAttempt,   \* ConnectionState::connecting, 0 for none
  rcLinks,     \* connections: machine and state
  rcCall,      \* commands: where each waits and its local variables
  rcChange,    \* changes of machine: likewise
  rcInFlight,  \* requests written to an SSH channel and not run yet
  rcCuts,      \* connections lost so far
  \* history
  rcRan,       \* how often a command that writes was run, by machine
  rcChosen     \* the target of each revision

rcVars == <<rcTarget, rcRevision, rcWrites, rcChanging, rcClosed, rcClient, rcAttempt,
            rcLinks, rcCall, rcChange, rcInFlight, rcCuts, rcRan, rcChosen>>
rcPrefs == <<rcTarget, rcRevision, rcChosen>>

(***************************************************************************)
(* Data                                                                    *)
(***************************************************************************)
RcCalls == RemoteCalls \cup LocalCalls
Targets == Machines \cup {Local}
Link == 1..MaxClients
LinkRecord == [machine : Targets, state : {"none", "connecting", "failed", "open", "closed"}]
CallRecord == [pc : {"idle", "asked", "ensure", "connect", "call", "sent", "answered", "released",
                     "write", "ok", "refused", "error"},
               revision : 0..MaxRevision, link : 0..MaxClients, retried : BOOLEAN, by : Targets]
ChangeRecord == [pc : {"idle", "connect", "commit"}, target : Targets, link : 0..MaxClients]

CallIdle == [pc |-> "idle", revision |-> 0, link |-> 0, retried |-> FALSE, by |-> Local]
ChangeIdle == [pc |-> "idle", target |-> Local, link |-> 0]

RemoteInit ==
  /\ rcTarget \in Targets
  /\ rcRevision = 0 /\ rcWrites = 0 /\ rcChanging = FALSE /\ rcClosed = FALSE
  /\ rcClient = 0 /\ rcAttempt = 0
  /\ rcLinks = [k \in Link |-> [machine |-> Local, state |-> "none"]]
  /\ rcCall = [c \in RcCalls |-> CallIdle]
  /\ rcChange = [x \in Changers |-> ChangeIdle]
  /\ rcInFlight = {} /\ rcCuts = 0
  /\ rcRan = [c \in Mutating |-> [m \in Machines |-> 0]]
  /\ rcChosen = [r \in 0..MaxRevision |-> IF r = 0 THEN rcTarget ELSE Local]

\* Client::close, of a set of connections.
ClosedLinks(links, ks) == [k \in Link |-> IF k \in ks /\ links[k].state = "open"
                                       THEN [links[k] EXCEPT !.state = "closed"] ELSE links[k]]
NewLink == CHOOSE k \in Link : rcLinks[k].state = "none"
CanConnect == \E k \in Link : rcLinks[k].state = "none"
IsOpen(k) == k \in Link /\ rcLinks[k].state = "open"

\* The check at the head of every command.
Current(revision) == ~rcChanging /\ rcRevision = revision
Cut == rcCuts < MaxCuts /\ rcCuts' = rcCuts + 1

(***************************************************************************)
(* Commands                                                                *)
(***************************************************************************)
\* The view the user acts on shows the revision.
AskFor(c) ==
  /\ rcCall[c].pc = "idle"
  /\ rcCall' = [rcCall EXCEPT ![c].pc = "asked", ![c].revision = rcRevision]
  /\ UNCHANGED <<rcPrefs, rcWrites, rcChanging, rcClosed, rcClient, rcAttempt, rcLinks,
                 rcChange, rcInFlight, rcCuts, rcRan>>

Guarded(c) == c \in Mutating \cup LocalCalls

\* A command that is over; one that read, or wrote here, may be given again.
Over(c, outcome) == IF c \in Mutating THEN [CallIdle EXCEPT !.pc = outcome] ELSE CallIdle

\* remoteInvoke up to its guard, and begin_local_write.
Enter(c) ==
  LET here == c \in LocalCalls
      admitted == Current(rcCall[c].revision) /\ (rcTarget = Local) = here IN
  /\ rcCall[c].pc = "asked"
  /\ rcCall' = IF admitted THEN [rcCall EXCEPT ![c].pc = IF here THEN "write" ELSE "ensure"]
                           ELSE [rcCall EXCEPT ![c] = Over(c, "refused")]
  /\ rcWrites' = IF admitted /\ Guarded(c) THEN rcWrites + 1 ELSE rcWrites
  /\ UNCHANGED <<rcPrefs, rcChanging, rcClosed, rcClient, rcAttempt, rcLinks,
                 rcChange, rcInFlight, rcCuts, rcRan>>

\* Mutant: the guard of a command that never took one is dropped.
CallEndsUnguarded(c, outcome) ==
  /\ rcCall' = [rcCall EXCEPT ![c] = Over(c, outcome)]
  /\ rcWrites' = rcWrites - 1

\* The command ends without an answer, and its guard is dropped.
CallEnds(c, outcome) ==
  /\ rcCall' = [rcCall EXCEPT ![c] = Over(c, outcome)]
  /\ rcWrites' = IF Guarded(c) THEN rcWrites - 1 ELSE rcWrites

LocalWriteEnds(c) ==
  /\ rcCall[c].pc = "write"
  /\ CallEnds(c, "ok")
  /\ UNCHANGED <<rcPrefs, rcChanging, rcClosed, rcClient, rcAttempt, rcLinks,
                 rcChange, rcInFlight, rcCuts, rcRan>>

UsableAtAnyRevision(c) == ~rcClosed /\ ~rcChanging /\ rcTarget # Local
Usable(c) == ~rcClosed /\ Current(rcCall[c].revision) /\ rcTarget # Local

\* ensure_client_with, before its await.
Ensure(c) ==
  /\ rcCall[c].pc = "ensure"
  /\ \/ /\ ~Usable(c)
        /\ CallEnds(c, "refused")
        /\ UNCHANGED <<rcClient, rcAttempt, rcLinks>>
     \/ /\ Usable(c) /\ IsOpen(rcClient)
        /\ rcCall' = [rcCall EXCEPT ![c].pc = "call", ![c].link = rcClient]
        /\ UNCHANGED <<rcWrites, rcClient, rcAttempt, rcLinks>>
     \/ /\ Usable(c) /\ ~IsOpen(rcClient)
        /\ rcAttempt = 0 => CanConnect
        /\ LET k == IF rcAttempt # 0 THEN rcAttempt ELSE NewLink IN
           /\ rcAttempt' = k
           /\ rcClient' = 0
           /\ rcLinks' = IF rcAttempt # 0 THEN rcLinks
                         ELSE [rcLinks EXCEPT ![k] = [machine |-> rcTarget, state |-> "connecting"]]
           /\ rcCall' = [rcCall EXCEPT ![c].pc = "connect", ![c].link = k]
        /\ UNCHANGED rcWrites
  /\ UNCHANGED <<rcPrefs, rcChanging, rcClosed, rcChange, rcInFlight, rcCuts, rcRan>>

\* RemoteConnections::connect comes to its end.
Connects(k) ==
  /\ rcLinks[k].state = "connecting"
  /\ \/ rcLinks' = [rcLinks EXCEPT ![k].state = "open"] /\ UNCHANGED rcCuts
     \/ rcLinks' = [rcLinks EXCEPT ![k].state = "failed"] /\ Cut
  /\ UNCHANGED <<rcPrefs, rcWrites, rcChanging, rcClosed, rcClient, rcAttempt, rcCall,
                 rcChange, rcInFlight, rcRan>>

EnsuredLeavesOpen(c) ==
  LET k == rcCall[c].link IN
  /\ rcCall[c].pc = "connect" /\ rcLinks[k].state # "connecting"
  /\ rcAttempt' = IF rcAttempt = k THEN 0 ELSE rcAttempt
  /\ \/ /\ ~Usable(c) \/ ~IsOpen(k)
        /\ CallEnds(c, "refused")
        /\ UNCHANGED rcClient
     \/ /\ Usable(c) /\ IsOpen(k)
        /\ rcClient' = k
        /\ rcCall' = [rcCall EXCEPT ![c].pc = "call"]
        /\ UNCHANGED rcWrites
  /\ UNCHANGED <<rcPrefs, rcLinks, rcChanging, rcClosed, rcChange, rcInFlight, rcCuts, rcRan>>

\* ensure_client_with, after its await.
Ensured(c) ==
  LET k == rcCall[c].link IN
  /\ rcCall[c].pc = "connect" /\ rcLinks[k].state # "connecting"
  /\ rcAttempt' = IF rcAttempt = k THEN 0 ELSE rcAttempt
  /\ \/ /\ ~Usable(c)
        /\ rcLinks' = ClosedLinks(rcLinks, {k})
        /\ CallEnds(c, "refused")
        /\ UNCHANGED rcClient
     \/ /\ Usable(c) /\ ~IsOpen(k)
        /\ CallEnds(c, "error")
        /\ UNCHANGED <<rcLinks, rcClient>>
     \/ /\ Usable(c) /\ IsOpen(k)
        /\ rcClient' = k
        /\ rcCall' = [rcCall EXCEPT ![c].pc = "call"]
        /\ UNCHANGED <<rcLinks, rcWrites>>
  /\ UNCHANGED <<rcPrefs, rcChanging, rcClosed, rcChange, rcInFlight, rcCuts, rcRan>>

\* Client::call writes the request, unless the client is closed by now.
Call(c) ==
  /\ rcCall[c].pc = "call" /\ IsOpen(rcCall[c].link)
  /\ rcInFlight' = rcInFlight \cup {<<c, rcCall[c].link>>}
  /\ rcCall' = [rcCall EXCEPT ![c].pc = "sent"]
  /\ UNCHANGED <<rcPrefs, rcWrites, rcChanging, rcClosed, rcClient, rcAttempt, rcLinks,
                 rcChange, rcCuts, rcRan>>

\* The service runs a request that reached it, also when the channel is gone.
Serve(c, k) ==
  LET m == rcLinks[k].machine IN
  /\ <<c, k>> \in rcInFlight
  /\ rcInFlight' = rcInFlight \ {<<c, k>>}
  /\ rcRan' = IF c \in Mutating THEN [rcRan EXCEPT ![c][m] = @ + 1] ELSE rcRan
  /\ rcCall' = IF rcCall[c].pc = "sent" /\ rcCall[c].link = k /\ IsOpen(k)
                 THEN [rcCall EXCEPT ![c].pc = "answered", ![c].by = m] ELSE rcCall
  /\ UNCHANGED <<rcPrefs, rcWrites, rcChanging, rcClosed, rcClient, rcAttempt, rcLinks,
                 rcChange, rcCuts>>

\* A request is lost with the channel it was written to.
Lose(c, k) ==
  /\ <<c, k>> \in rcInFlight /\ ~IsOpen(k)
  /\ rcInFlight' = rcInFlight \ {<<c, k>>}
  /\ UNCHANGED <<rcPrefs, rcWrites, rcChanging, rcClosed, rcClient, rcAttempt, rcLinks,
                 rcCall, rcChange, rcCuts, rcRan>>

\* The end of remoteInvoke: the guard first, then the answer, dropped when the
\* machine was changed meanwhile.
Release(c) ==
  /\ rcCall[c].pc = "answered"
  /\ rcCall' = [rcCall EXCEPT ![c] = [@ EXCEPT !.pc = "released", !.link = 0, !.retried = FALSE]]
  /\ rcWrites' = IF Guarded(c) THEN rcWrites - 1 ELSE rcWrites
  /\ UNCHANGED <<rcPrefs, rcChanging, rcClosed, rcClient, rcAttempt, rcLinks,
                 rcChange, rcInFlight, rcCuts, rcRan>>

Return(c) ==
  /\ rcCall[c].pc = "released"
  /\ rcCall' = [rcCall EXCEPT ![c] = IF rcRevision = @.revision THEN [@ EXCEPT !.pc = "ok"]
                                     ELSE Over(c, "refused")]
  /\ UNCHANGED <<rcPrefs, rcWrites, rcChanging, rcClosed, rcClient, rcAttempt, rcLinks,
                 rcChange, rcInFlight, rcCuts, rcRan>>

\* invoke_with, of a transport error: the client is forgotten and closed; a
\* command that writes ends, another tries once more.
MayRetryAny(c) == ~rcCall[c].retried
MayRetry(c) == c \notin Mutating /\ ~rcCall[c].retried

TransportFails(c) ==
  LET k == rcCall[c].link IN
  /\ rcCall[c].pc \in {"call", "sent"}
  /\ IF IsOpen(k) THEN rcCall[c].pc = "sent" /\ Cut ELSE UNCHANGED rcCuts
  /\ rcLinks' = ClosedLinks(rcLinks, {k})
  /\ rcClient' = IF rcClient = k THEN 0 ELSE rcClient
  /\ IF MayRetry(c)
       THEN rcCall' = [rcCall EXCEPT ![c].pc = "ensure", ![c].retried = TRUE] /\ UNCHANGED rcWrites
       ELSE CallEnds(c, "error")
  /\ UNCHANGED <<rcPrefs, rcChanging, rcClosed, rcAttempt, rcChange, rcInFlight, rcRan>>

\* The reader of the client sees the end of the stream.
LinkLost(k) ==
  /\ IsOpen(k)
  /\ Cut
  /\ rcLinks' = ClosedLinks(rcLinks, {k})
  /\ UNCHANGED <<rcPrefs, rcWrites, rcChanging, rcClosed, rcClient, rcAttempt, rcCall,
                 rcChange, rcInFlight, rcRan>>

(***************************************************************************)
(* Changes of the machine                                                  *)
(***************************************************************************)
\* begin_change, of the current revision.
MayChange == ~rcChanging /\ rcWrites = 0

\* remoteSelect, remoteSave, remoteInstall and the removal of the active machine:
\* another target, over a connection of its own.
BeginSelect(x, target) ==
  /\ rcChange[x].pc = "idle" /\ MayChange /\ rcRevision < MaxRevision
  /\ target # Local => CanConnect
  /\ rcChanging' = TRUE
  /\ IF target = Local
       THEN /\ rcChange' = [rcChange EXCEPT ![x] = [pc |-> "commit", target |-> Local, link |-> 0]]
            /\ UNCHANGED rcLinks
       ELSE /\ rcChange' = [rcChange EXCEPT ![x] =
                           [pc |-> "connect", target |-> target, link |-> NewLink]]
            /\ rcLinks' = [rcLinks EXCEPT ![NewLink] = [machine |-> target, state |-> "connecting"]]
  /\ UNCHANGED <<rcPrefs, rcWrites, rcClosed, rcClient, rcAttempt, rcCall, rcInFlight, rcCuts,
                 rcRan>>

\* remoteRemove and remoteSshDelete of another machine: the client stays.
BeginRemove(x) ==
  /\ rcChange[x].pc = "idle" /\ MayChange /\ rcRevision < MaxRevision
  /\ rcChanging' = TRUE
  /\ rcChange' = [rcChange EXCEPT ![x] = [pc |-> "commit", target |-> rcTarget,
                                          link |-> IF rcTarget = Local THEN 0 ELSE rcClient]]
  /\ UNCHANGED <<rcPrefs, rcWrites, rcClosed, rcClient, rcAttempt, rcLinks, rcCall, rcInFlight,
                 rcCuts, rcRan>>

ChangeConnected(x) ==
  LET k == rcChange[x].link IN
  /\ rcChange[x].pc = "connect" /\ rcLinks[k].state # "connecting"
  /\ IF rcLinks[k].state = "failed"
       THEN rcChange' = [rcChange EXCEPT ![x] = ChangeIdle] /\ rcChanging' = FALSE
       ELSE rcChange' = [rcChange EXCEPT ![x].pc = "commit"] /\ UNCHANGED rcChanging
  /\ UNCHANGED <<rcPrefs, rcWrites, rcClosed, rcClient, rcAttempt, rcLinks, rcCall, rcInFlight,
                 rcCuts, rcRan>>

\* commit; the ChangeGuard is dropped after it.
Commit(x) ==
  LET k == rcChange[x].link IN
  /\ rcChange[x].pc = "commit"
  /\ rcChange' = [rcChange EXCEPT ![x] = ChangeIdle]
  /\ rcChanging' = FALSE
  /\ \/ /\ ~rcClosed
        /\ rcRevision' = rcRevision + 1
        /\ rcTarget' = rcChange[x].target
        /\ rcChosen' = [rcChosen EXCEPT ![rcRevision + 1] = rcChange[x].target]
        /\ rcLinks' = ClosedLinks(rcLinks, {rcClient} \ {k})
        /\ rcAttempt' = 0 /\ rcClient' = k
     \/ \* the App is closing, the preferences cannot be written, or it was
        \* remoteVerify, which only tries the connection
        /\ rcLinks' = ClosedLinks(rcLinks, {k} \ {rcClient})
        /\ UNCHANGED <<rcPrefs, rcAttempt, rcClient>>
  /\ UNCHANGED <<rcWrites, rcClosed, rcCall, rcInFlight, rcCuts, rcRan>>

\* The App is closing.
Disconnect ==
  /\ ~rcClosed
  /\ rcClosed' = TRUE
  /\ rcAttempt' = 0 /\ rcClient' = 0
  /\ rcLinks' = ClosedLinks(rcLinks, {rcClient})
  /\ UNCHANGED <<rcPrefs, rcWrites, rcChanging, rcCall, rcChange, rcInFlight, rcCuts, rcRan>>

(***************************************************************************)
(* Specification                                                           *)
(***************************************************************************)
CallStep(c) ==
  \/ Enter(c)
  \/ LocalWriteEnds(c)
  \/ Ensure(c)
  \/ Ensured(c)
  \/ Call(c)
  \/ Release(c)
  \/ Return(c)
  \/ TransportFails(c)

RemoteNext ==
  \/ \E c \in RcCalls : AskFor(c) \/ CallStep(c)
  \/ \E k \in Link : Connects(k) \/ LinkLost(k)
  \/ \E c \in RemoteCalls, k \in Link : Serve(c, k) \/ Lose(c, k)
  \/ \E x \in Changers : \/ \E t \in Targets : BeginSelect(x, t)
                         \/ BeginRemove(x) \/ ChangeConnected(x) \/ Commit(x)
  \/ Disconnect

RemoteSpec == RemoteInit /\ [][RemoteNext]_rcVars

(***************************************************************************)
(* Properties                                                              *)
(***************************************************************************)
RemoteTypeOK ==
  /\ rcTarget \in Targets /\ rcRevision \in 0..MaxRevision /\ rcWrites \in 0..Cardinality(RcCalls)
  /\ rcChanging \in BOOLEAN /\ rcClosed \in BOOLEAN
  /\ rcClient \in 0..MaxClients /\ rcAttempt \in 0..MaxClients
  /\ rcLinks \in [Link -> LinkRecord]
  /\ rcCall \in [RcCalls -> CallRecord] /\ rcChange \in [Changers -> ChangeRecord]
  /\ rcInFlight \subseteq RemoteCalls \X Link /\ rcCuts \in 0..MaxCuts
  /\ rcRan \in [Mutating -> [Machines -> Nat]]
  /\ rcChosen \in [0..MaxRevision -> Targets]

\* An answer the user sees comes from the machine of the revision the user
\* acted on, although clients are shared, attempts are joined and machines are
\* changed while commands wait; and while a command that writes waits for
\* anything, its machine stays.
AnswerOfItsMachine ==
  /\ \A c \in RemoteCalls : rcCall[c].pc = "ok" => rcCall[c].by = rcChosen[rcCall[c].revision]
  /\ \A c \in RcCalls :
       Guarded(c) /\ rcCall[c].pc \in {"ensure", "connect", "call", "sent", "answered", "write"}
         => rcTarget = rcChosen[rcCall[c].revision] /\ rcRevision = rcCall[c].revision

\* A command that writes is run at most once, on one machine: neither a lost
\* connection nor a timeout sends it again.
WrittenOnce ==
  \A c \in Mutating :
    /\ \A m \in Machines : rcRan[c][m] <= 1
    /\ \A m, n \in Machines : rcRan[c][m] > 0 /\ rcRan[c][n] > 0 => m = n

\* No SSH process is left behind: a connection that is open is the current
\* one, or a command or a change still waits to take it over.
NoneLeftOpen ==
  \A k \in Link : IsOpen(k) =>
    \/ k = rcClient
    \/ \E c \in RemoteCalls : rcCall[c].pc = "connect" /\ rcCall[c].link = k
    \/ \E x \in Changers : rcChange[x].link = k
=============================================================================
