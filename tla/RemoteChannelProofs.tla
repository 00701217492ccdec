------------------------ MODULE RemoteChannelProofs ------------------------
(***************************************************************************)
(* The connection to the machine the user chose, for any number of         *)
(* machines, commands, changes and connections.                            *)
(*                                                                         *)
(* Two facts carry the rest.  A change of the machine begins when no       *)
(* command that writes is at work and none begins before it is over        *)
(* (CountOK: the counter of the guards is the number of those commands).   *)
(* And a connection never changes its machine: a command keeps the number  *)
(* of one that leads to the machine of its revision, however often the     *)
(* client is replaced or shared (CallsOK).                                 *)
(*                                                                         *)
(* NoneLeftOpen needs more than it says.  A connection still being made    *)
(* has someone who waits for it too (OwnedOK); and whoever takes one over  *)
(* must not push out another that is open: a command of the present        *)
(* revision waits for the shared attempt or for the client itself, and     *)
(* while there is an attempt there is no client (JoinOK).                  *)
(***************************************************************************)
EXTENDS RemoteChannel, FiniteSetTheorems, TLAPS

USE RemoteAssumption DEF RemoteAssumption, rcPrefs

(***************************************************************************)
(* The invariant.                                                          *)
(***************************************************************************)
Busy == {"ensure", "connect", "call", "sent", "answered", "write"}
Before == {"idle", "asked", "ensure", "connect", "call"}

\* The commands that hold a guard.
Working == {c \in RcCalls : Guarded(c) /\ rcCall[c].pc \in Busy}
\* Connections that are open or may still become so.
Alive(k) == rcLinks[k].state \in {"connecting", "open"}
LeadsTo(k, m) == k \in Link /\ rcLinks[k].state # "none" /\ rcLinks[k].machine = m

Typed ==
  /\ rcTarget \in Targets /\ rcRevision \in 0..MaxRevision /\ rcWrites \in Nat
  /\ rcChanging \in BOOLEAN /\ rcClosed \in BOOLEAN
  /\ rcClient \in 0..MaxClients /\ rcAttempt \in 0..MaxClients
  /\ rcLinks \in [Link -> LinkRecord]
  /\ rcCall \in [RcCalls -> CallRecord] /\ rcChange \in [Changers -> ChangeRecord]
  /\ rcInFlight \subseteq RemoteCalls \X Link /\ rcCuts \in 0..MaxCuts
  /\ rcRan \in [Mutating -> [Machines -> Nat]]
  /\ rcChosen \in [0..MaxRevision -> Targets]

\* The client and the attempt lead to the target, which is that of the revision.
LinksOK ==
  /\ rcChosen[rcRevision] = rcTarget
  /\ \A k \in Link : rcLinks[k].state # "none" => rcLinks[k].machine \in Machines
  /\ rcClient # 0 => LeadsTo(rcClient, rcTarget) /\ rcLinks[rcClient].state \in {"open", "closed"}
  /\ rcAttempt # 0 => LeadsTo(rcAttempt, rcTarget) /\ rcClient = 0
  /\ \A c \in RemoteCalls, k \in Link : <<c, k>> \in rcInFlight => rcLinks[k].state # "none"

ChangeOK(x) ==
  LET k == rcChange[x].link IN
  /\ rcChange[x].pc = "idle" => k = 0
  /\ rcChange[x].pc # "idle" => rcChanging /\ rcRevision < MaxRevision
  /\ rcChange[x].pc = "connect" => k # 0
  /\ rcChange[x].pc = "commit" /\ k # 0 => rcLinks[k].state \in {"open", "closed"}
  /\ k # 0 => LeadsTo(k, rcChange[x].target)

\* One change at a time.
ChangesOK ==
  /\ \A x \in Changers : ChangeOK(x)
  /\ \A x, y \in Changers : rcChange[x].pc # "idle" /\ rcChange[y].pc # "idle" => x = y

\* The counter counts the guards, and there is none during a change.
CountOK == rcWrites = Cardinality(Working) /\ (rcChanging => Working = {})

\* A command uses the machine of its revision, and one that writes keeps it.
CallOK(c) ==
  LET a == rcCall[c] IN
  /\ a.revision <= rcRevision
  /\ Guarded(c) /\ a.pc \in Busy => a.revision = rcRevision
  /\ c \in LocalCalls => a.pc \in {"idle", "asked", "write"}
  /\ c \in RemoteCalls => a.pc # "write"
  /\ a.pc \in {"connect", "call", "sent"} => LeadsTo(a.link, rcChosen[a.revision])
  /\ a.pc \in {"answered", "released", "ok"} => a.by = rcChosen[a.revision]
CallsOK == \A c \in RcCalls : CallOK(c)

\* A command that writes is written to one connection, and run there or not.
OnceOK ==
  \A c \in Mutating :
    /\ rcCall[c].pc \in Before => /\ \A k \in Link : <<c, k>> \notin rcInFlight
                                  /\ \A m \in Machines : rcRan[c][m] = 0
    /\ \A j, k \in Link : <<c, j>> \in rcInFlight /\ <<c, k>> \in rcInFlight => j = k
    /\ \A k \in Link, m \in Machines : <<c, k>> \in rcInFlight => rcRan[c][m] = 0

\* Whoever waits for a connection or has it.
Owned(k) ==
  \/ k = rcClient
  \/ \E c \in RemoteCalls : rcCall[c].pc = "connect" /\ rcCall[c].link = k
  \/ \E x \in Changers : rcChange[x].link = k
OwnedOK == \A k \in Link : Alive(k) => Owned(k)

\* Whoever would become the client takes over what is the client or will be it.
JoinOK ==
  ~rcClosed => \A c \in RemoteCalls :
    /\ rcCall[c].pc = "connect" /\ rcCall[c].revision = rcRevision /\ Alive(rcCall[c].link)
    => rcCall[c].link \in {rcAttempt, rcClient}

RemoteInv ==
  /\ Typed /\ LinksOK /\ ChangesOK /\ CountOK /\ CallsOK
  /\ OnceOK /\ WrittenOnce /\ OwnedOK /\ JoinOK

(***************************************************************************)
(* Connections.                                                            *)
(***************************************************************************)
\* What a step may do to connections: they keep their machine, and those that
\* were open stay open or closed.
LinksKept ==
  \A k \in Link : rcLinks[k].state # "none" =>
    /\ rcLinks'[k].machine = rcLinks[k].machine /\ rcLinks'[k].state # "none"
    /\ rcLinks[k].state \in {"open", "closed"} => rcLinks'[k].state \in {"open", "closed"}

\* And none of them begins.
LinksFade ==
  /\ rcLinks' \in [Link -> LinkRecord] /\ LinksKept
  /\ \A k \in Link : /\ Alive(k)' => Alive(k)
                     /\ rcLinks[k].state = "none" => rcLinks'[k].state = "none"

\* Closing makes none begin, and leaves none of the given ones open.
LEMMA Closing ==
  ASSUME Typed, NEW ks, rcLinks' = ClosedLinks(rcLinks, ks)
  PROVE  /\ LinksFade
         /\ \A k \in Link : k \in ks => rcLinks'[k].state # "open"
         /\ \A k \in Link : k \notin ks => rcLinks'[k] = rcLinks[k]
<1>1. ASSUME NEW k \in Link
      PROVE  /\ rcLinks[k] \in LinkRecord /\ rcLinks'[k] \in LinkRecord
             /\ rcLinks'[k].machine = rcLinks[k].machine
             /\ rcLinks'[k].state = IF k \in ks /\ rcLinks[k].state = "open" THEN "closed"
                                    ELSE rcLinks[k].state
             /\ k \notin ks => rcLinks'[k] = rcLinks[k]
  BY DEF Typed, ClosedLinks, LinkRecord
<1>2. rcLinks' \in [Link -> LinkRecord]
  <2>1. rcLinks' = [k \in Link |-> rcLinks'[k]]
    BY DEF ClosedLinks
  <2> QED
    BY <1>1, <2>1
<1> QED
  BY <1>1, <1>2 DEF LinksFade, LinksKept, Alive

LEMMA LinksSame ==
  ASSUME Typed, UNCHANGED rcLinks
  PROVE  LinksFade
BY DEF Typed, LinksFade, LinksKept, Alive

\* A connection that begins was not used before.
LEMMA NewLinkIsNew ==
  ASSUME Typed, CanConnect
  PROVE  NewLink \in Link /\ rcLinks[NewLink].state = "none"
BY DEF CanConnect, NewLink

LEMMA LinkBegins ==
  ASSUME Typed, CanConnect, NEW m \in Targets,
         rcLinks' = [rcLinks EXCEPT ![NewLink] = [machine |-> m, state |-> "connecting"]]
  PROVE  /\ rcLinks' \in [Link -> LinkRecord] /\ LinksKept
         /\ rcLinks'[NewLink] = [machine |-> m, state |-> "connecting"]
         /\ \A k \in Link : k # NewLink => rcLinks'[k] = rcLinks[k]
<1>1. NewLink \in Link /\ rcLinks[NewLink].state = "none"
  BY NewLinkIsNew
<1>2. [machine |-> m, state |-> "connecting"] \in LinkRecord
  BY DEF LinkRecord
<1>3. PICK n \in Link : n = NewLink
  BY <1>1
<1> QED
  BY <1>1, <1>2, <1>3 DEF Typed, LinksKept

(***************************************************************************)
(* Commands.                                                               *)
(***************************************************************************)
\* A command whose record stays keeps what is said of it, while the target
\* stays.
LEMMA CallStays ==
  ASSUME LinksKept, UNCHANGED rcPrefs, NEW c \in RcCalls, rcCall'[c] = rcCall[c], CallOK(c)
  PROVE  CallOK(c)'
<1>1. /\ rcCall'[c].pc = rcCall[c].pc /\ rcCall'[c].link = rcCall[c].link
      /\ rcCall'[c].revision = rcCall[c].revision /\ rcCall'[c].by = rcCall[c].by
  OBVIOUS
<1>2. rcCall[c].pc \in {"connect", "call", "sent"} =>
        LeadsTo(rcCall[c].link, rcChosen[rcCall[c].revision])'
  BY DEF CallOK, LeadsTo, LinksKept
<1> QED
  BY <1>1, <1>2 DEF CallOK, Guarded

\* A step of one command.
LEMMA OneCall ==
  ASSUME Typed, CallsOK, LinksKept, UNCHANGED rcPrefs,
         NEW c \in RcCalls, NEW r \in CallRecord,
         rcCall' = [rcCall EXCEPT ![c] = r], CallOK(c)'
  PROVE  CallsOK'
<1>1. ASSUME NEW d \in RcCalls, d # c  PROVE CallOK(d)'
  <2>1. rcCall'[d] = rcCall[d]
    BY <1>1 DEF Typed
  <2> QED
    BY <2>1, CallStays DEF CallsOK
<1> QED
  BY <1>1 DEF CallsOK

LEMMA CallsStay ==
  ASSUME CallsOK, LinksKept, UNCHANGED rcPrefs, UNCHANGED rcCall
  PROVE  CallsOK'
<1>1. ASSUME NEW d \in RcCalls  PROVE CallOK(d)'
  BY CallStays DEF CallsOK
<1> QED
  BY <1>1 DEF CallsOK

(***************************************************************************)
(* The counter.                                                            *)
(***************************************************************************)
LEMMA FiniteCalls == IsFiniteSet(Working) /\ Cardinality(Working) \in 0..Cardinality(RcCalls)
<1>1. IsFiniteSet(RcCalls)
  BY FS_Union DEF RcCalls
<1>2. Working \in SUBSET RcCalls
  BY DEF Working
<1>3. IsFiniteSet(Working) /\ Cardinality(Working) <= Cardinality(RcCalls)
  BY <1>1, <1>2, FS_Subset
<1> QED
  BY <1>1, <1>3, FS_CardinalityType

\* A command that keeps its guard, or has none.
LEMMA CountStays ==
  ASSUME Typed, CountOK, NEW c \in RcCalls, NEW r \in CallRecord,
         rcCall' = [rcCall EXCEPT ![c] = r],
         Guarded(c) => (r.pc \in Busy <=> rcCall[c].pc \in Busy),
         UNCHANGED <<rcWrites, rcChanging>>
  PROVE  CountOK'
<1>1. Working' = Working
  BY DEF Working, Typed, Guarded
<1> QED
  BY <1>1 DEF CountOK

\* A command that takes its guard.
LEMMA CountEnters ==
  ASSUME Typed, CountOK, ~rcChanging, NEW c \in RcCalls, NEW r \in CallRecord, Guarded(c),
         rcCall' = [rcCall EXCEPT ![c] = r], r.pc \in Busy, rcCall[c].pc \notin Busy,
         rcWrites' = rcWrites + 1, UNCHANGED rcChanging
  PROVE  CountOK'
<1>1. Working' = Working \cup {c} /\ c \notin Working
  BY DEF Working, Typed, Guarded
<1>2. Cardinality(Working \cup {c}) = Cardinality(Working) + 1
  BY <1>1, FiniteCalls, FS_AddElement
<1> QED
  BY <1>1, <1>2 DEF CountOK

\* A command that ends with its guard, if it had one.
LEMMA CountLeaves ==
  ASSUME Typed, CountOK, NEW c \in RcCalls, NEW r \in CallRecord,
         rcCall' = [rcCall EXCEPT ![c] = r], r.pc \notin Busy, rcCall[c].pc \in Busy,
         rcWrites' = IF Guarded(c) THEN rcWrites - 1 ELSE rcWrites, UNCHANGED rcChanging
  PROVE  CountOK' /\ rcWrites' \in Nat
<1>1. CASE ~Guarded(c)
  BY <1>1, CountStays DEF Typed
<1>2. CASE Guarded(c)
  <2>1. Working' = Working \ {c} /\ c \in Working
    BY <1>2 DEF Working, Typed, Guarded
  <2>2. Cardinality(Working \ {c}) = Cardinality(Working) - 1 /\ IsFiniteSet(Working \ {c})
    BY <2>1, FiniteCalls, FS_RemoveElement
  <2>3. Cardinality(Working \ {c}) \in Nat
    BY <2>2, FS_CardinalityType
  <2> QED
    BY <1>2, <2>1, <2>2, <2>3 DEF CountOK
<1> QED
  BY <1>1, <1>2

(***************************************************************************)
(* What most steps leave alone.                                            *)
(***************************************************************************)
LEMMA LinksStay ==
  ASSUME Typed, LinksOK, LinksFade, UNCHANGED rcPrefs,
         rcClient' \in {0, rcClient}, rcAttempt' \in {0, rcAttempt},
         rcInFlight' \subseteq rcInFlight
  PROVE  LinksOK'
<1>1. \A k \in Link : rcLinks'[k].state # "none" =>
        rcLinks[k].state # "none" /\ rcLinks'[k].machine = rcLinks[k].machine
  BY DEF LinksFade, LinksKept
<1>2. rcClient' # 0 => /\ LeadsTo(rcClient, rcTarget)'
                       /\ rcLinks'[rcClient'].state \in {"open", "closed"}
  BY DEF LinksOK, LeadsTo, LinksFade, LinksKept
<1>3. rcAttempt' # 0 => LeadsTo(rcAttempt, rcTarget)' /\ rcClient' = 0
  BY DEF LinksOK, LeadsTo, LinksFade, LinksKept
<1>4. ASSUME NEW c \in RemoteCalls, NEW k \in Link, <<c, k>> \in rcInFlight'
      PROVE  rcLinks'[k].state # "none"
  BY <1>4 DEF LinksOK, LinksFade, LinksKept
<1> QED
  BY <1>1, <1>2, <1>3, <1>4 DEF LinksOK, LeadsTo

LEMMA ChangesStay ==
  ASSUME ChangesOK, LinksKept, UNCHANGED <<rcChange, rcChanging, rcRevision>>
  PROVE  ChangesOK'
<1>1. ASSUME NEW x \in Changers  PROVE ChangeOK(x)'
  BY DEF ChangesOK, ChangeOK, LeadsTo, LinksKept
<1> QED
  BY <1>1 DEF ChangesOK

\* A command that writes never goes back to where nothing was written.
LEMMA OnceStays ==
  ASSUME Typed, OnceOK, WrittenOnce, UNCHANGED <<rcInFlight, rcRan>>,
         NEW c \in RcCalls, NEW r \in CallRecord, rcCall' = [rcCall EXCEPT ![c] = r],
         c \in Mutating /\ r.pc \in Before => rcCall[c].pc \in Before
  PROVE  OnceOK' /\ WrittenOnce'
<1>1. \A d \in Mutating : rcCall'[d].pc \in Before => rcCall[d].pc \in Before
  BY DEF Typed, RcCalls
<1> QED
  BY <1>1 DEF OnceOK, WrittenOnce

\* A connection keeps someone who waits for it, unless it is not alive any more.
LEMMA OwnedStays ==
  ASSUME Typed, OwnedOK, LinksFade, UNCHANGED rcChange,
         NEW c \in RcCalls, NEW r \in CallRecord, rcCall' = [rcCall EXCEPT ![c] = r],
         \A k \in Link : Alive(k)' /\ k = rcClient => rcClient' = k,
         \A k \in Link : Alive(k)' /\ rcCall[c].pc = "connect" /\ rcCall[c].link = k =>
           (r.pc = "connect" /\ r.link = k) \/ rcClient' = k
  PROVE  OwnedOK'
<1> SUFFICES ASSUME NEW k \in Link, Alive(k)'  PROVE Owned(k)'
  BY DEF OwnedOK
<1>1. Owned(k)
  BY DEF OwnedOK, LinksFade
<1>2. CASE k = rcClient
  BY <1>2 DEF Owned
<1>3. CASE \E x \in Changers : rcChange[x].link = k
  BY <1>3 DEF Owned
<1>4. CASE \E d \in RemoteCalls : rcCall[d].pc = "connect" /\ rcCall[d].link = k
  <2>1. PICK d \in RemoteCalls : rcCall[d].pc = "connect" /\ rcCall[d].link = k
    BY <1>4
  <2>2. CASE d = c
    BY <2>1, <2>2 DEF Owned, Typed
  <2>3. CASE d # c
    BY <2>1, <2>3 DEF Owned, Typed, RcCalls
  <2> QED
    BY <2>2, <2>3
<1> QED
  BY <1>1, <1>2, <1>3, <1>4 DEF Owned

LEMMA JoinStays ==
  ASSUME Typed, CallsOK, JoinOK, LinksFade, UNCHANGED <<rcRevision, rcClosed>>,
         NEW c \in RcCalls, NEW r \in CallRecord, rcCall' = [rcCall EXCEPT ![c] = r],
         \A k \in Link : Alive(k)' /\ k \in {rcAttempt, rcClient} => k \in {rcAttempt', rcClient'},
         r.pc = "connect" => r.link \in {rcAttempt', rcClient'} \/ r = rcCall[c]
  PROVE  JoinOK'
<1> SUFFICES ASSUME ~rcClosed', NEW d \in RemoteCalls, rcCall'[d].pc = "connect",
                    rcCall'[d].revision = rcRevision',
                    rcLinks'[rcCall'[d].link].state \in {"connecting", "open"}
             PROVE  rcCall'[d].link \in {rcAttempt', rcClient'}
  BY DEF JoinOK, Alive
<1>1. CASE d = c /\ r # rcCall[c]
  BY <1>1 DEF Typed
<1>2. CASE d # c \/ r = rcCall[c]
  <2>1. rcCall'[d] = rcCall[d] /\ d \in RcCalls
    BY <1>2 DEF Typed, RcCalls
  <2>2. rcCall[d].link \in Link
    BY <2>1 DEF CallsOK, CallOK, LeadsTo
  <2>3. Alive(rcCall[d].link) /\ rcLinks'[rcCall[d].link].state \in {"connecting", "open"}
    BY <2>1, <2>2 DEF LinksFade, Alive
  <2>4. rcCall[d].link \in {rcAttempt, rcClient}
    BY <2>1, <2>3 DEF JoinOK
  <2> QED
    BY <2>1, <2>2, <2>3, <2>4 DEF Alive
<1> QED
  BY <1>1, <1>2

(***************************************************************************)
(* The steps of a command.                                                 *)
(***************************************************************************)
\* A step in which only one command and the counter change.
LEMMA OnlyCallStep ==
  ASSUME RemoteInv, NEW c \in RcCalls, NEW r \in CallRecord, rcCall' = [rcCall EXCEPT ![c] = r],
         CallOK(c)', CountOK' /\ rcWrites' \in Nat,
         c \in Mutating /\ r.pc \in Before => rcCall[c].pc \in Before,
         rcCall[c].pc # "connect" /\ r.pc # "connect",
         UNCHANGED <<rcPrefs, rcChanging, rcClosed, rcClient, rcAttempt, rcLinks,
                     rcChange, rcInFlight, rcCuts, rcRan>>
  PROVE  RemoteInv'
<1>1. Typed /\ LinksFade /\ LinksKept
  BY LinksSame DEF RemoteInv, LinksFade
<1>2. Typed'
  BY DEF RemoteInv, Typed
<1>3. LinksOK' /\ ChangesOK'
  BY <1>1, LinksStay, ChangesStay DEF RemoteInv
<1>4. CallsOK'
  BY <1>1, OneCall DEF RemoteInv
<1>5. OnceOK' /\ WrittenOnce'
  BY OnceStays DEF RemoteInv
<1>6. OwnedOK'
  BY <1>1, OwnedStays DEF RemoteInv
<1>7. JoinOK'
  BY <1>1, JoinStays DEF RemoteInv
<1> QED
  BY <1>2, <1>3, <1>4, <1>5, <1>6, <1>7 DEF RemoteInv

\* What ends a command.
LEMMA OverIs ==
  ASSUME NEW c \in RcCalls, NEW o \in {"ok", "refused", "error"}
  PROVE  /\ Over(c, o) \in CallRecord
         /\ Over(c, o).pc = IF c \in Mutating THEN o ELSE "idle"
         /\ Over(c, o).revision = 0
<1>1. CallIdle \in CallRecord
  BY DEF CallIdle, CallRecord, Targets
<1>2. 0 \in 0..MaxRevision /\ 0 \in 0..MaxClients
  OBVIOUS
<1> QED
  BY <1>1, <1>2 DEF Over, CallIdle, CallRecord

LEMMA AskForKeeps ==
  ASSUME RemoteInv, NEW c \in RcCalls, AskFor(c)
  PROVE  RemoteInv'
<1> DEFINE r == [rcCall[c] EXCEPT !.pc = "asked", !.revision = rcRevision]
<1>1. rcCall[c] \in CallRecord /\ rcCall[c].pc = "idle"
  BY DEF AskFor, RemoteInv, Typed
<1>2. /\ r \in CallRecord /\ r.pc = "asked" /\ r.revision = rcRevision
      /\ rcCall' = [rcCall EXCEPT ![c] = r]
  BY <1>1 DEF AskFor, RemoteInv, Typed, CallRecord
<1>3. rcCall'[c] = r
  BY <1>2 DEF RemoteInv, Typed
<1> HIDE DEF r
<1>4. CallOK(c)'
  BY <1>2, <1>3 DEF CallOK, Busy, AskFor, RemoteInv, Typed
<1>5. CountOK' /\ rcWrites' \in Nat
  BY <1>1, <1>2, CountStays DEF Busy, AskFor, RemoteInv, Typed
<1> QED
  BY <1>1, <1>2, <1>4, <1>5, OnlyCallStep DEF AskFor, Before

LEMMA EnterKeeps ==
  ASSUME RemoteInv, NEW c \in RcCalls, Enter(c)
  PROVE  RemoteInv'
<1> DEFINE here == c \in LocalCalls
           admitted == Current(rcCall[c].revision) /\ (rcTarget = Local) = here
<1>1. rcCall[c] \in CallRecord /\ rcCall[c].pc = "asked" /\ CallOK(c)
  BY DEF Enter, RemoteInv, Typed, CallsOK
<1>0. rcRevision' = rcRevision /\ rcRevision \in Nat /\ UNCHANGED rcChanging
  BY DEF Enter, RemoteInv, Typed
<1>2. CASE admitted
  <2> DEFINE r == [rcCall[c] EXCEPT !.pc = IF here THEN "write" ELSE "ensure"]
  <2>1. /\ r \in CallRecord /\ r.pc = (IF here THEN "write" ELSE "ensure")
        /\ r.revision = rcRevision /\ ~rcChanging
        /\ rcCall' = [rcCall EXCEPT ![c] = r]
    BY <1>1, <1>2 DEF Enter, RemoteInv, Typed, CallRecord, Current
  <2>2. rcCall'[c] = r
    BY <2>1 DEF RemoteInv, Typed
  <2> HIDE DEF r
  <2>3. CallOK(c)'
    BY <1>0, <2>1, <2>2 DEF CallOK, RcCalls, Guarded
  <2>4. CountOK' /\ rcWrites' \in Nat
    <3>1. CASE Guarded(c)
      <4>1. rcWrites' = rcWrites + 1
        BY <1>2, <3>1 DEF Enter
      <4>2. r.pc \in Busy /\ rcCall[c].pc \notin Busy
        BY <1>1, <2>1 DEF Busy
      <4>3. Typed /\ CountOK /\ rcWrites + 1 \in Nat
        BY DEF RemoteInv, Typed
      <4> QED
        BY <1>0, <2>1, <3>1, <4>1, <4>2, <4>3, CountEnters
    <3>2. CASE ~Guarded(c)
      BY <1>1, <1>2, <2>1, <3>2, CountStays DEF Busy, Enter, RemoteInv, Typed
    <3> QED
      BY <3>1, <3>2
  <2> QED
    BY <1>1, <2>1, <2>3, <2>4, OnlyCallStep DEF Enter, Before
<1>3. CASE ~admitted
  <2> DEFINE r == Over(c, "refused")
  <2>1. /\ r \in CallRecord /\ r.pc = (IF c \in Mutating THEN "refused" ELSE "idle")
        /\ r.revision = 0 /\ rcCall' = [rcCall EXCEPT ![c] = r]
    BY <1>3, OverIs DEF Enter
  <2>2. rcCall'[c] = r
    BY <2>1 DEF RemoteInv, Typed
  <2> HIDE DEF r
  <2>3. CallOK(c)'
    BY <1>0, <2>1, <2>2 DEF CallOK, RcCalls, Guarded, Busy
  <2>4. CountOK' /\ rcWrites' \in Nat
    BY <1>1, <1>3, <2>1, CountStays DEF Busy, Enter, RemoteInv, Typed
  <2> QED
    BY <1>1, <2>1, <2>3, <2>4, OnlyCallStep DEF Enter, Before
<1> QED
  BY <1>2, <1>3

\* A command that ends gives back its guard.
LEMMA Ends ==
  ASSUME RemoteInv, NEW c \in RcCalls, NEW o \in {"ok", "refused", "error"}, CallEnds(c, o),
         o = "ok" => c \in LocalCalls, rcCall[c].pc \in Busy, UNCHANGED <<rcChanging, rcRevision>>
  PROVE  \E r \in CallRecord :
           /\ rcCall' = [rcCall EXCEPT ![c] = r] /\ r.pc \notin Busy
           /\ c \in Mutating => r.pc \notin Before
           /\ CallOK(c)' /\ CountOK' /\ rcWrites' \in Nat
<1> DEFINE r == Over(c, o)
<1>1. /\ r \in CallRecord /\ r.pc = (IF c \in Mutating THEN o ELSE "idle") /\ r.revision = 0
      /\ rcCall' = [rcCall EXCEPT ![c] = r]
  BY OverIs DEF CallEnds
<1>2. rcCall'[c] = r
  BY <1>1 DEF RemoteInv, Typed
<1> HIDE DEF r
<1>3. r.pc \notin Busy /\ (c \in Mutating => r.pc \notin Before)
  BY <1>1 DEF Busy, Before
<1>4. rcRevision' = rcRevision /\ rcRevision \in Nat
  BY DEF RemoteInv, Typed
<1>5. CallOK(c)'
  BY <1>1, <1>2, <1>3, <1>4 DEF CallOK, RcCalls
<1>6. CountOK' /\ rcWrites' \in Nat
  BY <1>1, <1>3, CountLeaves DEF CallEnds, RemoteInv
<1> QED
  BY <1>1, <1>3, <1>5, <1>6

LEMMA LocalWriteEndsKeeps ==
  ASSUME RemoteInv, NEW c \in RcCalls, LocalWriteEnds(c)
  PROVE  RemoteInv'
<1>1. rcCall[c].pc = "write" /\ CallEnds(c, "ok") /\ UNCHANGED <<rcChanging, rcRevision>>
  BY DEF LocalWriteEnds
<1>2. c \in LocalCalls
  BY <1>1 DEF RemoteInv, CallsOK, CallOK, RcCalls
<1>3. PICK r \in CallRecord :
        /\ rcCall' = [rcCall EXCEPT ![c] = r] /\ r.pc \notin Busy
        /\ c \in Mutating => r.pc \notin Before
        /\ CallOK(c)' /\ CountOK' /\ rcWrites' \in Nat
  BY <1>1, <1>2, Ends DEF Busy
<1> QED
  BY <1>1, <1>3, OnlyCallStep DEF Busy, LocalWriteEnds

LEMMA EnsureKeeps ==
  ASSUME RemoteInv, NEW c \in RcCalls, Ensure(c)
  PROVE  RemoteInv'
<1>1. /\ rcCall[c].pc = "ensure" /\ rcCall[c] \in CallRecord /\ c \in RemoteCalls
      /\ UNCHANGED <<rcTarget, rcRevision, rcChosen, rcChanging, rcClosed, rcChange, rcInFlight,
                     rcCuts, rcRan>>
  BY DEF Ensure, RemoteInv, Typed, CallsOK, CallOK, RcCalls
<1>2. CASE CallEnds(c, "refused") /\ UNCHANGED <<rcClient, rcAttempt, rcLinks>>
  <2>1. PICK r \in CallRecord :
          /\ rcCall' = [rcCall EXCEPT ![c] = r] /\ r.pc \notin Busy
          /\ c \in Mutating => r.pc \notin Before
          /\ CallOK(c)' /\ CountOK' /\ rcWrites' \in Nat
    BY <1>1, <1>2, Ends DEF Busy
  <2> QED
    BY <1>1, <1>2, <2>1, OnlyCallStep DEF Busy
<1>3. CASE /\ Usable(c) /\ IsOpen(rcClient)
           /\ rcCall' = [rcCall EXCEPT ![c].pc = "call", ![c].link = rcClient]
           /\ UNCHANGED <<rcWrites, rcClient, rcAttempt, rcLinks>>
  <2> DEFINE r == [rcCall[c] EXCEPT !.pc = "call", !.link = rcClient]
  <2>1. /\ r \in CallRecord /\ r.pc = "call" /\ r.link = rcClient
        /\ r.revision = rcCall[c].revision /\ rcCall' = [rcCall EXCEPT ![c] = r]
    BY <1>1, <1>3 DEF RemoteInv, Typed, CallRecord
  <2>2. rcCall'[c] = r
    BY <2>1 DEF RemoteInv, Typed
  <2> HIDE DEF r
  <2>3. LeadsTo(rcClient, rcTarget) /\ rcTarget = rcChosen[rcRevision]
        /\ rcCall[c].revision = rcRevision /\ rcRevision \in Nat
    <3>1. rcClient # 0
      BY <1>3 DEF IsOpen, Link
    <3> QED
      BY <1>3, <3>1 DEF RemoteInv, LinksOK, Usable, Current, Typed
  <2>4. CallOK(c)'
    BY <1>1, <1>3, <2>1, <2>2, <2>3 DEF CallOK, RcCalls, LeadsTo
  <2>5. CountOK' /\ rcWrites' \in Nat
    BY <1>1, <1>3, <2>1, CountStays DEF Busy, RemoteInv, Typed
  <2> QED
    BY <1>1, <1>3, <2>1, <2>4, <2>5, OnlyCallStep DEF Before
<1>4. CASE /\ Usable(c) /\ ~IsOpen(rcClient)
           /\ rcAttempt = 0 => CanConnect
           /\ LET k == IF rcAttempt # 0 THEN rcAttempt ELSE NewLink IN
              /\ rcAttempt' = k
              /\ rcClient' = 0
              /\ rcLinks' = IF rcAttempt # 0 THEN rcLinks
                  ELSE [rcLinks EXCEPT ![k] = [machine |-> rcTarget, state |-> "connecting"]]
              /\ rcCall' = [rcCall EXCEPT ![c].pc = "connect", ![c].link = k]
           /\ UNCHANGED rcWrites
  <2>1. PICK k : k = IF rcAttempt # 0 THEN rcAttempt ELSE NewLink
    OBVIOUS
  <2>0. /\ ~IsOpen(rcClient) /\ rcAttempt' = k /\ rcClient' = 0 /\ UNCHANGED rcWrites
        /\ rcLinks' = IF rcAttempt # 0 THEN rcLinks
                      ELSE [rcLinks EXCEPT ![k] = [machine |-> rcTarget, state |-> "connecting"]]
        /\ rcCall' = [rcCall EXCEPT ![c].pc = "connect", ![c].link = k]
    BY <1>4, <2>1
  <2>2. k \in Link /\ k \in 0..MaxClients
    BY <1>4, <2>1, NewLinkIsNew DEF RemoteInv, Typed, Link
  <2> DEFINE r == [rcCall[c] EXCEPT !.pc = "connect", !.link = k]
  <2>3. /\ r \in CallRecord /\ r.pc = "connect" /\ r.link = k
        /\ r.revision = rcCall[c].revision /\ rcCall' = [rcCall EXCEPT ![c] = r]
    <3>1. rcCall' = [rcCall EXCEPT ![c] = r]
      BY <1>1, <2>0 DEF RemoteInv, Typed
    <3> QED
      BY <1>1, <2>2, <3>1 DEF CallRecord
  <2>4. rcCall'[c] = r
    BY <2>3 DEF RemoteInv, Typed
  <2> HIDE DEF r
  <2>5. rcTarget = rcChosen[rcRevision] /\ rcCall[c].revision = rcRevision /\ rcRevision \in Nat
        /\ rcTarget \in Machines /\ rcTarget \in Targets
    BY <1>4 DEF RemoteInv, LinksOK, Usable, Current, Typed, Targets
  <2>6. /\ rcLinks' \in [Link -> LinkRecord] /\ LinksKept /\ LeadsTo(k, rcTarget)'
        /\ \A j \in Link : j # k => rcLinks'[j] = rcLinks[j]
    <3>1. CASE rcAttempt # 0
      BY <1>1, <2>0, <2>1, <2>2, <3>1 DEF RemoteInv, LinksOK, Typed, LinksKept, LeadsTo
    <3>2. CASE rcAttempt = 0
      <4>1. rcLinks' = [rcLinks EXCEPT ![NewLink] = [machine |-> rcTarget, state |-> "connecting"]]
        BY <2>0, <2>1, <3>2
      <4>2. rcLinks'[k] = [machine |-> rcTarget, state |-> "connecting"] /\ k = NewLink
        BY <1>4, <2>1, <2>5, <3>2, <4>1, LinkBegins DEF RemoteInv
      <4>3. LeadsTo(k, rcTarget)'
        BY <1>1, <2>2, <4>2 DEF LeadsTo
      <4>4. /\ rcLinks' \in [Link -> LinkRecord] /\ LinksKept
            /\ \A j \in Link : j # NewLink => rcLinks'[j] = rcLinks[j]
        BY <1>4, <2>5, <3>2, <4>1, LinkBegins DEF RemoteInv
      <4> QED
        BY <4>2, <4>3, <4>4
    <3> QED
      BY <3>1, <3>2
  <2>7. CallsOK'
    <3>1. CallOK(c)'
      BY <1>1, <2>2, <2>3, <2>4, <2>5, <2>6 DEF CallOK, RcCalls, LeadsTo
    <3> QED
      BY <1>1, <2>3, <2>6, <3>1, OneCall DEF RemoteInv
  <2>8. CountOK' /\ Typed'
    <3>1. CountOK'
      BY <1>1, <2>0, <2>3, CountStays DEF Busy, RemoteInv
    <3>2. Typed'
      <4>1. rcCall' \in [RcCalls -> CallRecord]
        BY <2>3 DEF RemoteInv, Typed
      <4>2. rcLinks' \in [Link -> LinkRecord] /\ 0 \in 0..MaxClients
        BY <2>6
      <4> QED
        BY <1>1, <2>0, <2>2, <4>1, <4>2 DEF RemoteInv, Typed
    <3> QED
      BY <3>1, <3>2
  <2>9. LinksOK'
    BY <1>1, <2>0, <2>2, <2>5, <2>6 DEF RemoteInv, LinksOK, LinksKept, LeadsTo
  <2>10. ChangesOK' /\ OnceOK' /\ WrittenOnce'
    BY <1>1, <2>3, <2>6, ChangesStay, OnceStays DEF RemoteInv, Before
  <2>11. OwnedOK'
    <3> SUFFICES ASSUME NEW j \in Link, Alive(j)'  PROVE Owned(j)'
      BY DEF OwnedOK
    <3>1. CASE j = k
      BY <1>1, <2>3, <2>4, <3>1 DEF Owned
    <3>2. CASE j # k
      <4>1. Alive(j) /\ Owned(j)
        BY <2>6, <3>2 DEF Alive, RemoteInv, OwnedOK
      <4>2. j # rcClient
        BY <2>0, <4>1 DEF RemoteInv, LinksOK, Alive, IsOpen, Link
      <4>3. CASE \E x \in Changers : rcChange[x].link = j
        BY <1>1, <4>3 DEF Owned
      <4>4. CASE \E d \in RemoteCalls : rcCall[d].pc = "connect" /\ rcCall[d].link = j
        <5>1. PICK d \in RemoteCalls : rcCall[d].pc = "connect" /\ rcCall[d].link = j
          BY <4>4
        <5>2. rcCall'[d] = rcCall[d]
          BY <1>1, <2>3, <5>1 DEF RemoteInv, Typed
        <5> QED
          BY <5>1, <5>2 DEF Owned
      <4> QED
        BY <4>1, <4>2, <4>3, <4>4 DEF Owned
    <3> QED
      BY <3>1, <3>2
  <2>12. JoinOK'
    <3> SUFFICES ASSUME NEW d \in RemoteCalls, ~rcClosed', rcCall'[d].pc = "connect",
                        rcCall'[d].revision = rcRevision',
                        rcLinks'[rcCall'[d].link].state \in {"connecting", "open"}
                 PROVE  rcCall'[d].link = k
      BY <2>0 DEF JoinOK, Alive
    <3>1. CASE d = c
      BY <2>3, <2>4, <3>1
    <3>2. CASE d # c /\ rcCall'[d].link # k
      <4>1. rcCall'[d] = rcCall[d] /\ d \in RcCalls
        BY <2>3, <3>2 DEF RemoteInv, Typed, RcCalls
      <4>2. rcCall[d].link \in Link
        BY <4>1 DEF RemoteInv, CallsOK, CallOK, LeadsTo
      <4>3. Alive(rcCall[d].link)
        BY <2>6, <3>2, <4>1, <4>2 DEF Alive
      <4>4. rcCall[d].link \in {rcAttempt, rcClient}
        BY <1>1, <4>1, <4>3 DEF RemoteInv, JoinOK
      <4>5. rcCall[d].link # rcClient
        BY <2>0, <4>2, <4>3 DEF RemoteInv, LinksOK, Alive, IsOpen, Link
      <4>6. rcAttempt # 0
        BY <4>2, <4>4, <4>5 DEF Link
      <4> QED
        BY <2>1, <3>2, <4>1, <4>4, <4>5, <4>6
    <3> QED
      BY <3>1, <3>2
  <2> QED
    BY <2>7, <2>8, <2>9, <2>10, <2>11, <2>12 DEF RemoteInv
<1> QED
  BY <1>2, <1>3, <1>4 DEF Ensure

\* A step in which one command changes, connections are closed and the client or
\* the attempt is given up or taken over.
LEMMA ClosingStep ==
  ASSUME RemoteInv, NEW c \in RcCalls, NEW r \in CallRecord, rcCall' = [rcCall EXCEPT ![c] = r],
         CallOK(c)', CountOK' /\ rcWrites' \in Nat, LinksFade, LinksOK',
         c \in Mutating /\ r.pc \in Before => rcCall[c].pc \in Before, r.pc # "connect",
         \A k \in Link : Alive(k)' /\ k = rcClient => rcClient' = k,
         \A k \in Link :
           Alive(k)' /\ rcCall[c].pc = "connect" /\ rcCall[c].link = k => rcClient' = k,
         \A k \in Link : Alive(k)' /\ k \in {rcAttempt, rcClient} => k \in {rcAttempt', rcClient'},
         rcClient' \in 0..MaxClients, rcAttempt' \in 0..MaxClients, rcCuts' \in 0..MaxCuts,
         UNCHANGED <<rcPrefs, rcChanging, rcClosed, rcChange, rcInFlight, rcRan>>
  PROVE  RemoteInv'
<1>1. rcCall' \in [RcCalls -> CallRecord]
  BY DEF RemoteInv, Typed
<1>2. Typed'
  BY <1>1 DEF RemoteInv, Typed, LinksFade
<1>3. ChangesOK'
  BY ChangesStay DEF RemoteInv, LinksFade
<1>4. CallsOK'
  BY OneCall DEF RemoteInv, LinksFade
<1>5. OnceOK' /\ WrittenOnce'
  BY OnceStays DEF RemoteInv
<1>6. OwnedOK'
  BY OwnedStays DEF RemoteInv
<1>7. JoinOK'
  BY JoinStays DEF RemoteInv
<1> QED
  BY <1>2, <1>3, <1>4, <1>5, <1>6, <1>7 DEF RemoteInv

LEMMA EnsuredKeeps ==
  ASSUME RemoteInv, NEW c \in RcCalls, Ensured(c)
  PROVE  RemoteInv'
<1> DEFINE k == rcCall[c].link
<1>1. /\ rcCall[c].pc = "connect" /\ rcCall[c] \in CallRecord /\ rcLinks[k].state # "connecting"
      /\ rcAttempt' = (IF rcAttempt = k THEN 0 ELSE rcAttempt)
      /\ UNCHANGED <<rcTarget, rcRevision, rcChosen, rcChanging, rcClosed, rcChange, rcInFlight,
                     rcCuts, rcRan>>
  BY DEF Ensured, RemoteInv, Typed
<1>2. CallOK(c) /\ c \in RemoteCalls /\ k \in Link
  BY <1>1 DEF RemoteInv, CallsOK, CallOK, LeadsTo, RcCalls
<1>3. rcAttempt' \in {0, rcAttempt} /\ rcAttempt' \in 0..MaxClients
  BY <1>1 DEF RemoteInv, Typed
<1>4. ASSUME \/ ~Usable(c) /\ rcLinks' = ClosedLinks(rcLinks, {k}) /\ CallEnds(c, "refused")
             \/ Usable(c) /\ ~IsOpen(k) /\ CallEnds(c, "error") /\ UNCHANGED rcLinks,
             UNCHANGED rcClient
      PROVE  RemoteInv'
  <2>1. LinksFade /\ rcLinks'[k].state \notin {"connecting", "open"}
    <3>1. CASE rcLinks' = ClosedLinks(rcLinks, {k})
      <4>1. LinksFade /\ rcLinks'[k].state # "open"
        BY <1>2, <3>1, Closing DEF RemoteInv
      <4> QED
        BY <1>1, <1>2, <4>1 DEF LinksFade, LinksKept, Alive
    <3>2. CASE ~IsOpen(k) /\ UNCHANGED rcLinks
      BY <1>1, <1>2, <3>2, LinksSame DEF RemoteInv, IsOpen, Alive
    <3> QED
      BY <1>4, <3>1, <3>2
  <2>2. PICK o \in {"ok", "refused", "error"} : o # "ok" /\ CallEnds(c, o)
    BY <1>4
  <2>3. PICK r \in CallRecord :
          /\ rcCall' = [rcCall EXCEPT ![c] = r] /\ r.pc \notin Busy
          /\ c \in Mutating => r.pc \notin Before
          /\ CallOK(c)' /\ CountOK' /\ rcWrites' \in Nat
    BY <1>1, <2>2, Ends DEF Busy
  <2>4. LinksOK'
    BY <1>1, <1>3, <1>4, <2>1, LinksStay DEF RemoteInv
  <2>5. \A j \in Link : Alive(j)' => j # k
    BY <2>1 DEF Alive
  <2>6. \A j \in Link : Alive(j)' /\ j \in {rcAttempt, rcClient} => j \in {rcAttempt', rcClient'}
    BY <1>1, <1>4, <2>5
  <2>7. rcClient' \in 0..MaxClients /\ rcCuts' \in 0..MaxCuts /\ r.pc # "connect"
    BY <1>1, <1>4, <2>3 DEF RemoteInv, Typed, Busy
  <2> QED
    BY <1>1, <1>3, <1>4, <2>1, <2>3, <2>4, <2>5, <2>6, <2>7, ClosingStep
<1>5. CASE /\ Usable(c) /\ IsOpen(k) /\ rcClient' = k
           /\ rcCall' = [rcCall EXCEPT ![c].pc = "call"] /\ UNCHANGED <<rcLinks, rcWrites>>
  <2> DEFINE r == [rcCall[c] EXCEPT !.pc = "call"]
  <2>1. /\ r \in CallRecord /\ r.pc = "call" /\ r.link = k /\ r.revision = rcCall[c].revision
        /\ rcCall' = [rcCall EXCEPT ![c] = r]
    BY <1>1, <1>5 DEF RemoteInv, Typed, CallRecord
  <2>2. rcCall'[c] = r
    BY <2>1 DEF RemoteInv, Typed
  <2> HIDE DEF r
  <2>3. /\ rcTarget = rcChosen[rcRevision] /\ rcCall[c].revision = rcRevision /\ rcRevision \in Nat
        /\ ~rcClosed
    BY <1>5 DEF RemoteInv, LinksOK, Usable, Current, Typed
  <2>4. LeadsTo(k, rcTarget) /\ rcLinks[k].state = "open" /\ k # 0
    BY <1>1, <1>2, <1>5, <2>3 DEF CallOK, IsOpen, Link
  <2>5. k \in {rcAttempt, rcClient}
    BY <1>1, <1>2, <2>3, <2>4 DEF RemoteInv, JoinOK, Alive
  <2>6. rcAttempt' = 0 /\ rcClient \in {0, k}
    BY <1>1, <2>4, <2>5 DEF RemoteInv, LinksOK
  <2>7. CallOK(c)'
    BY <1>1, <1>2, <1>5, <2>1, <2>2, <2>3, <2>4 DEF CallOK, RcCalls, LeadsTo
  <2>8. CountOK' /\ rcWrites' \in Nat
    BY <1>1, <1>5, <2>1, CountStays DEF Busy, RemoteInv, Typed
  <2>9. LinksFade
    BY <1>5, LinksSame DEF RemoteInv
  <2>10. LinksOK'
    BY <1>1, <1>5, <2>4, <2>6 DEF RemoteInv, LinksOK, LeadsTo
  <2>11. \A j \in Link : Alive(j)' /\ j = rcClient => rcClient' = j
    BY <1>5, <2>6 DEF Link
  <2>12. \A j \in Link : Alive(j)' /\ j \in {rcAttempt, rcClient} => j \in {rcAttempt', rcClient'}
    BY <1>1, <1>5, <2>6 DEF Link
  <2>13. rcClient' \in 0..MaxClients /\ rcCuts' \in 0..MaxCuts
    BY <1>1, <1>2, <1>5 DEF RemoteInv, Typed, Link
  <2> QED
    BY <1>1, <1>3, <1>5, <2>1, <2>7, <2>8, <2>9, <2>10, <2>11, <2>12, <2>13, ClosingStep
    DEF Before
<1> QED
  BY <1>4, <1>5 DEF Ensured

LEMMA TransportFailsKeeps ==
  ASSUME RemoteInv, NEW c \in RcCalls, TransportFails(c)
  PROVE  RemoteInv'
<1> DEFINE k == rcCall[c].link
<1>1. /\ rcCall[c].pc \in {"call", "sent"} /\ rcCall[c] \in CallRecord
      /\ rcLinks' = ClosedLinks(rcLinks, {k})
      /\ rcClient' = (IF rcClient = k THEN 0 ELSE rcClient)
      /\ UNCHANGED <<rcTarget, rcRevision, rcChosen, rcChanging, rcClosed, rcAttempt, rcChange,
                     rcInFlight, rcRan>>
      /\ rcCuts' \in 0..MaxCuts
  BY DEF TransportFails, RemoteInv, Typed, Cut
<1>2. CallOK(c) /\ c \in RemoteCalls /\ k \in Link
  BY <1>1 DEF RemoteInv, CallsOK, CallOK, LeadsTo, RcCalls
<1>3. LinksFade /\ rcLinks'[k].state # "open"
  BY <1>1, <1>2, Closing DEF RemoteInv
<1>4. rcClient' \in {0, rcClient} /\ rcClient' \in 0..MaxClients /\ rcAttempt' \in 0..MaxClients
  BY <1>1 DEF RemoteInv, Typed
<1>5. LinksOK'
  BY <1>1, <1>3, <1>4, LinksStay DEF RemoteInv
<1>6. \A j \in Link : Alive(j)' /\ j = rcClient => rcClient' = j
  <2>1. rcClient = k => rcLinks'[k].state = "closed"
    BY <1>2, <1>3 DEF RemoteInv, LinksOK, LinksFade, LinksKept, Link
  <2> QED
    BY <1>1, <2>1 DEF Alive
<1>7. \E r \in CallRecord :
        /\ rcCall' = [rcCall EXCEPT ![c] = r]
        /\ CallOK(c)' /\ CountOK' /\ rcWrites' \in Nat
        /\ c \in Mutating /\ r.pc \in Before => rcCall[c].pc \in Before
        /\ r.pc # "connect"
  <2>1. CASE MayRetry(c)
    <3> DEFINE r == [rcCall[c] EXCEPT !.pc = "ensure", !.retried = TRUE]
    <3>1. /\ r \in CallRecord /\ r.pc = "ensure" /\ r.revision = rcCall[c].revision
          /\ rcCall' = [rcCall EXCEPT ![c] = r] /\ UNCHANGED rcWrites
      BY <1>1, <2>1 DEF TransportFails, RemoteInv, Typed, CallRecord
    <3>2. rcCall'[c] = r
      BY <3>1 DEF RemoteInv, Typed
    <3>3. c \notin Mutating /\ ~Guarded(c)
      BY <1>2, <2>1 DEF MayRetry, Guarded
    <3> HIDE DEF r
    <3>4. CallOK(c)'
      BY <1>1, <1>2, <3>1, <3>2, <3>3 DEF CallOK, Guarded
    <3>5. CountOK' /\ rcWrites' \in Nat
      BY <1>1, <3>1, <3>3, CountStays DEF RemoteInv, Typed
    <3> QED
      BY <3>1, <3>3, <3>4, <3>5
  <2>2. CASE ~MayRetry(c)
    <3>1. CallEnds(c, "error")
      BY <2>2 DEF TransportFails
    <3> QED
      BY <1>1, <3>1, Ends DEF Busy
  <2> QED
    BY <2>1, <2>2
<1>8. PICK r \in CallRecord :
        /\ rcCall' = [rcCall EXCEPT ![c] = r]
        /\ CallOK(c)' /\ CountOK' /\ rcWrites' \in Nat
        /\ c \in Mutating /\ r.pc \in Before => rcCall[c].pc \in Before
        /\ r.pc # "connect"
  BY <1>7
<1> QED
  BY <1>1, <1>3, <1>4, <1>5, <1>6, <1>8, ClosingStep

LEMMA ReleaseKeeps ==
  ASSUME RemoteInv, NEW c \in RcCalls, Release(c)
  PROVE  RemoteInv'
<1> DEFINE r == [rcCall[c] EXCEPT !.pc = "released", !.link = 0, !.retried = FALSE]
<1>1. /\ rcCall[c] \in CallRecord /\ rcCall[c].pc = "answered" /\ CallOK(c)
      /\ rcRevision' = rcRevision /\ rcRevision \in Nat /\ rcChosen' = rcChosen
  BY DEF Release, RemoteInv, Typed, CallsOK
<1>2. /\ r \in CallRecord /\ r.pc = "released" /\ r.by = rcCall[c].by
      /\ r.revision = rcCall[c].revision /\ rcCall' = [rcCall EXCEPT ![c] = r]
  <2>1. 0 \in 0..MaxClients
    OBVIOUS
  <2> QED
    BY <1>1, <2>1 DEF Release, CallRecord
<1>3. rcCall'[c] = r
  BY <1>2 DEF RemoteInv, Typed
<1> HIDE DEF r
<1>4. CallOK(c)'
  BY <1>1, <1>2, <1>3 DEF CallOK, Busy, RcCalls
<1>5. CountOK' /\ rcWrites' \in Nat
  BY <1>1, <1>2, CountLeaves DEF Busy, Release, RemoteInv
<1> QED
  BY <1>1, <1>2, <1>4, <1>5, OnlyCallStep DEF Release, Before

LEMMA ReturnKeeps ==
  ASSUME RemoteInv, NEW c \in RcCalls, Return(c)
  PROVE  RemoteInv'
<1>1. /\ rcCall[c] \in CallRecord /\ rcCall[c].pc = "released" /\ CallOK(c)
      /\ rcRevision' = rcRevision /\ rcRevision \in Nat /\ rcChosen' = rcChosen
  BY DEF Return, RemoteInv, Typed, CallsOK
<1>2. c \in RemoteCalls
  BY <1>1 DEF CallOK, RcCalls
<1>3. PICK r \in CallRecord :
        /\ rcCall' = [rcCall EXCEPT ![c] = r]
        /\ \/ r.pc = "ok" /\ r.by = rcCall[c].by /\ r.revision = rcCall[c].revision
           \/ r.pc = (IF c \in Mutating THEN "refused" ELSE "idle") /\ r.revision = 0
  <2>1. CASE rcRevision = rcCall[c].revision
    <3>1. [rcCall[c] EXCEPT !.pc = "ok"] \in CallRecord
      BY <1>1 DEF CallRecord
    <3> QED
      BY <1>1, <2>1, <3>1 DEF Return, CallRecord
  <2>2. CASE rcRevision # rcCall[c].revision
    BY <2>2, OverIs DEF Return
  <2> QED
    BY <2>1, <2>2
<1>4. rcCall'[c] = r
  BY <1>3 DEF RemoteInv, Typed
<1>5. CallOK(c)'
  BY <1>1, <1>2, <1>3, <1>4 DEF CallOK, Busy
<1>6. r.pc \notin Busy /\ rcCall[c].pc \notin Busy
  BY <1>1, <1>3 DEF Busy
<1>7. CountOK' /\ rcWrites' \in Nat
  BY <1>3, <1>6, CountStays DEF Return, RemoteInv, Typed
<1> QED
  BY <1>1, <1>3, <1>5, <1>7, OnlyCallStep DEF Return, Before

(***************************************************************************)
(* Requests.                                                               *)
(***************************************************************************)
\* A step in which one command and what is written to the connections change.
LEMMA FlightStep ==
  ASSUME RemoteInv, NEW c \in RcCalls, NEW r \in CallRecord, rcCall' = [rcCall EXCEPT ![c] = r],
         CallOK(c)', r.pc \in Busy <=> rcCall[c].pc \in Busy,
         r = rcCall[c] \/ (r.pc # "connect" /\ rcCall[c].pc # "connect"),
         rcInFlight' \subseteq RemoteCalls \X Link,
         \A d \in RemoteCalls, k \in Link : <<d, k>> \in rcInFlight' => rcLinks[k].state # "none",
         rcRan' \in [Mutating -> [Machines -> Nat]], OnceOK', WrittenOnce',
         UNCHANGED <<rcPrefs, rcWrites, rcChanging, rcClosed, rcClient, rcAttempt, rcLinks,
                     rcChange, rcCuts>>
  PROVE  RemoteInv'
<1>1. LinksFade /\ LinksKept
  BY LinksSame DEF RemoteInv, LinksFade
<1>2. rcCall' \in [RcCalls -> CallRecord]
  BY DEF RemoteInv, Typed
<1>3. Typed'
  BY <1>2 DEF RemoteInv, Typed
<1>4. LinksOK'
  BY DEF RemoteInv, LinksOK, LeadsTo
<1>5. ChangesOK' /\ CountOK'
  BY <1>1, ChangesStay, CountStays DEF RemoteInv
<1>6. CallsOK'
  BY <1>1, OneCall DEF RemoteInv
<1>7. OwnedOK'
  BY <1>1, OwnedStays DEF RemoteInv
<1>8. JoinOK'
  BY <1>1, JoinStays DEF RemoteInv
<1> QED
  BY <1>3, <1>4, <1>5, <1>6, <1>7, <1>8 DEF RemoteInv

LEMMA CallKeeps ==
  ASSUME RemoteInv, NEW c \in RcCalls, Call(c)
  PROVE  RemoteInv'
<1> DEFINE r == [rcCall[c] EXCEPT !.pc = "sent"]
           k == rcCall[c].link
<1>1. /\ rcCall[c] \in CallRecord /\ rcCall[c].pc = "call" /\ CallOK(c)
      /\ UNCHANGED <<rcTarget, rcRevision, rcChosen, rcRan, rcLinks>> /\ rcRevision \in Nat
      /\ rcInFlight' = rcInFlight \cup {<<c, k>>}
  BY DEF Call, RemoteInv, Typed, CallsOK
<1>2. c \in RemoteCalls /\ LeadsTo(k, rcChosen[rcCall[c].revision])
  BY <1>1 DEF CallOK, RcCalls
<1>3. /\ r \in CallRecord /\ r.pc = "sent" /\ r.link = k
      /\ r.revision = rcCall[c].revision /\ rcCall' = [rcCall EXCEPT ![c] = r]
  BY <1>1 DEF Call, CallRecord, RemoteInv, Typed
<1>4. rcCall'[c] = r
  BY <1>3 DEF RemoteInv, Typed
<1> HIDE DEF r
<1>5. CallOK(c)'
  BY <1>1, <1>2, <1>3, <1>4 DEF CallOK, Busy, RcCalls, Guarded, LeadsTo
<1>6. rcInFlight' \subseteq RemoteCalls \X Link
  BY <1>1, <1>2 DEF RemoteInv, Typed, LeadsTo
<1>7. \A d \in RemoteCalls, j \in Link : <<d, j>> \in rcInFlight' => rcLinks[j].state # "none"
  BY <1>1, <1>2 DEF RemoteInv, LinksOK, LeadsTo
<1>8. OnceOK' /\ WrittenOnce'
  <2>1. ASSUME NEW d \in Mutating
        PROVE  /\ rcCall'[d].pc \in Before => rcCall[d].pc \in Before /\ d # c
               /\ d # c => \A j \in Link : <<d, j>> \in rcInFlight' => <<d, j>> \in rcInFlight
    BY <1>1, <1>3, <1>4 DEF RemoteInv, Typed, Before, RcCalls
  <2>2. c \in Mutating => /\ \A j \in Link : <<c, j>> \in rcInFlight' => j = k
                          /\ \A m \in Machines : rcRan[c][m] = 0
    BY <1>1 DEF RemoteInv, OnceOK, Before
  <2> QED
    BY <1>1, <2>1, <2>2 DEF RemoteInv, OnceOK, WrittenOnce
<1>9. rcRan' \in [Mutating -> [Machines -> Nat]]
  BY <1>1 DEF RemoteInv, Typed
<1> QED
  BY <1>1, <1>3, <1>5, <1>6, <1>7, <1>8, <1>9, FlightStep DEF Call, Busy

LEMMA ServeKeeps ==
  ASSUME RemoteInv, NEW c \in RemoteCalls, NEW k \in Link, Serve(c, k)
  PROVE  RemoteInv'
<1> DEFINE m == rcLinks[k].machine
           r == rcCall'[c]
<1>1. /\ <<c, k>> \in rcInFlight /\ rcInFlight' = rcInFlight \ {<<c, k>>}
      /\ rcRan' = (IF c \in Mutating THEN [rcRan EXCEPT ![c][m] = @ + 1] ELSE rcRan)
      /\ UNCHANGED <<rcTarget, rcRevision, rcChosen, rcLinks>>
      /\ c \in RcCalls /\ CallOK(c)
  BY DEF Serve, RemoteInv, CallsOK, RcCalls
<1>2. m \in Machines
  BY <1>1 DEF RemoteInv, LinksOK
<1>3. \/ UNCHANGED rcCall
      \/ /\ rcCall[c].pc = "sent" /\ rcCall[c].link = k
         /\ rcCall' = [rcCall EXCEPT ![c].pc = "answered", ![c].by = m]
  BY DEF Serve
<1>4. /\ r \in CallRecord /\ rcCall' = [rcCall EXCEPT ![c] = r]
      /\ \/ r = rcCall[c]
         \/ /\ rcCall[c].pc = "sent" /\ rcCall[c].link = k
            /\ r.pc = "answered" /\ r.by = m /\ r.revision = rcCall[c].revision
  <2>1. CASE UNCHANGED rcCall
    BY <1>1, <2>1 DEF RemoteInv, Typed
  <2>2. CASE rcCall' = [rcCall EXCEPT ![c].pc = "answered", ![c].by = m]
    <3>1. rcCall \in [RcCalls -> CallRecord] /\ rcCall[c] \in CallRecord /\ c \in RcCalls
      BY <1>1 DEF RemoteInv, Typed
    <3>2. PICK old \in CallRecord : old = rcCall[c]
      BY <3>1
    <3>3. PICK new : new = [old EXCEPT !.pc = "answered", !.by = m]
      OBVIOUS
    <3>4. new \in CallRecord /\ new.pc = "answered" /\ new.by = m /\ new.revision = old.revision
      BY <3>3, <1>2 DEF CallRecord, Targets
    <3>5. rcCall' = [rcCall EXCEPT ![c] = new]
      BY <2>2, <3>1, <3>2, <3>3
    <3>6. r = new
      BY <3>1, <3>5
    <3>7. CASE rcCall[c].pc = "sent" /\ rcCall[c].link = k
      BY <3>2, <3>4, <3>5, <3>6, <3>7
    <3>8. CASE UNCHANGED rcCall
      BY <1>1, <3>8 DEF RemoteInv, Typed
    <3> QED
      BY <1>3, <3>7, <3>8
  <2> QED
    BY <1>3, <2>1, <2>2
<1>5. CallOK(c)'
  <2>1. CASE r = rcCall[c]
    BY <1>1, <2>1, CallStays, LinksSame DEF RemoteInv, LinksFade
  <2>2. CASE r # rcCall[c]
    BY <1>1, <1>4, <2>2 DEF CallOK, RcCalls, Guarded, LeadsTo, Busy
  <2> QED
    BY <2>1, <2>2
<1>6. (r.pc \in Busy <=> rcCall[c].pc \in Busy) /\ (r.pc \in Before => rcCall[c].pc \in Before)
  BY <1>4 DEF Busy, Before
<1>7. r = rcCall[c] \/ (r.pc # "connect" /\ rcCall[c].pc # "connect")
  BY <1>4
<1>8. /\ rcRan' \in [Mutating -> [Machines -> Nat]]
      /\ \A d \in Mutating : d # c => rcRan'[d] = rcRan[d]
      /\ \A n \in Machines : c \in Mutating /\ n # m => rcRan'[c][n] = rcRan[c][n]
      /\ c \in Mutating => rcRan'[c][m] = rcRan[c][m] + 1
  BY <1>1, <1>2 DEF RemoteInv, Typed
<1>9. OnceOK' /\ WrittenOnce'
  <2>1. ASSUME NEW d \in Mutating
        PROVE  /\ rcCall'[d].pc \in Before => rcCall[d].pc \in Before
               /\ \A j \in Link : <<d, j>> \in rcInFlight' => <<d, j>> \in rcInFlight
    BY <1>1, <1>4, <1>6 DEF RemoteInv, Typed, RcCalls
  <2>2. c \in Mutating => /\ rcCall'[c].pc \notin Before
                          /\ \A j \in Link : <<c, j>> \notin rcInFlight'
                          /\ \A n \in Machines : rcRan[c][n] = 0
    BY <1>1, <1>6 DEF RemoteInv, OnceOK
  <2> QED
    BY <1>2, <1>8, <2>1, <2>2 DEF RemoteInv, OnceOK, WrittenOnce
<1>10. /\ rcInFlight' \subseteq RemoteCalls \X Link
       /\ \A d \in RemoteCalls, j \in Link : <<d, j>> \in rcInFlight' => rcLinks[j].state # "none"
  BY <1>1 DEF RemoteInv, Typed, LinksOK
<1> QED
  BY <1>1, <1>4, <1>5, <1>6, <1>7, <1>8, <1>9, <1>10, FlightStep DEF Serve

LEMMA LoseKeeps ==
  ASSUME RemoteInv, NEW c \in RemoteCalls, NEW k \in Link, Lose(c, k)
  PROVE  RemoteInv'
<1>1. /\ rcInFlight' \subseteq rcInFlight
      /\ UNCHANGED <<rcCall, rcRan, rcLinks, rcTarget, rcRevision, rcChosen>>
  BY DEF Lose
<1>2. c \in RcCalls /\ rcCall[c] \in CallRecord /\ rcCall' = [rcCall EXCEPT ![c] = rcCall[c]]
  BY <1>1 DEF RemoteInv, Typed, RcCalls
<1>3. CallOK(c)'
  BY <1>1, <1>2, CallStays, LinksSame DEF RemoteInv, CallsOK, LinksFade
<1>4. OnceOK' /\ WrittenOnce'
  BY <1>1 DEF RemoteInv, OnceOK, WrittenOnce
<1>5. /\ rcInFlight' \subseteq RemoteCalls \X Link
      /\ \A d \in RemoteCalls, j \in Link : <<d, j>> \in rcInFlight' => rcLinks[j].state # "none"
      /\ rcRan' \in [Mutating -> [Machines -> Nat]]
  BY <1>1 DEF RemoteInv, Typed, LinksOK
<1> QED
  BY <1>2, <1>3, <1>4, <1>5, FlightStep DEF Lose

(***************************************************************************)
(* Connections and changes of the machine.                                 *)
(***************************************************************************)
LEMMA CountSame ==
  ASSUME CountOK, UNCHANGED <<rcCall, rcWrites>>, rcChanging' => rcChanging \/ rcWrites = 0
  PROVE  CountOK'
<1>1. Working' = Working
  BY DEF Working, Guarded
<1>2. rcWrites = 0 => Working = {}
  BY FiniteCalls, FS_EmptySet DEF CountOK
<1> QED
  BY <1>1, <1>2 DEF CountOK

LEMMA JoinSame ==
  ASSUME CallsOK, JoinOK, UNCHANGED <<rcCall, rcRevision>>, rcClosed' = FALSE => rcClosed = FALSE,
         \A k \in Link : Alive(k)' /\ rcLinks[k].state # "none" => Alive(k),
         \A k \in Link : Alive(k)' /\ k \in {rcAttempt, rcClient} => k \in {rcAttempt', rcClient'},
         rcClosed' \in BOOLEAN, rcClosed \in BOOLEAN
  PROVE  JoinOK'
<1> SUFFICES ASSUME ~rcClosed', NEW d \in RemoteCalls, rcCall[d].pc = "connect",
                    rcCall[d].revision = rcRevision,
                    rcLinks'[rcCall[d].link].state \in {"connecting", "open"}
             PROVE  rcCall[d].link \in {rcAttempt', rcClient'}
  BY DEF JoinOK, Alive
<1>1. rcCall[d].link \in Link /\ rcLinks[rcCall[d].link].state # "none"
  BY DEF CallsOK, CallOK, LeadsTo, RcCalls
<1>2. Alive(rcCall[d].link)
  BY <1>1 DEF Alive
<1>3. rcCall[d].link \in {rcAttempt, rcClient}
  BY <1>2 DEF JoinOK
<1> QED
  BY <1>1, <1>3 DEF Alive

LEMMA LinkStep ==
  ASSUME RemoteInv, LinksFade, rcCuts' \in 0..MaxCuts,
         UNCHANGED <<rcPrefs, rcWrites, rcChanging, rcClosed, rcClient, rcAttempt, rcCall,
                     rcChange, rcInFlight, rcRan>>
  PROVE  RemoteInv'
<1>1. LinksKept /\ rcLinks' \in [Link -> LinkRecord]
  BY DEF LinksFade
<1>2. Typed'
  BY <1>1 DEF RemoteInv, Typed
<1>3. LinksOK' /\ ChangesOK'
  BY <1>1, LinksStay, ChangesStay DEF RemoteInv
<1>4. CallsOK' /\ CountOK'
  BY <1>1, CallsStay, CountSame DEF RemoteInv
<1>5. OnceOK' /\ WrittenOnce'
  BY DEF RemoteInv, OnceOK, WrittenOnce
<1>6. OwnedOK'
  BY DEF RemoteInv, OwnedOK, Owned, LinksFade
<1>7. JoinOK'
  BY JoinSame DEF RemoteInv, Typed, LinksFade
<1> QED
  BY <1>2, <1>3, <1>4, <1>5, <1>6, <1>7 DEF RemoteInv

LEMMA ConnectsKeeps ==
  ASSUME RemoteInv, NEW k \in Link, Connects(k)
  PROVE  RemoteInv'
<1>1. PICK a \in {"open", "failed"} : rcLinks' = [rcLinks EXCEPT ![k].state = a]
  BY DEF Connects
<1>2. rcLinks[k] \in LinkRecord /\ rcLinks[k].state = "connecting" /\ rcCuts' \in 0..MaxCuts
  BY DEF Connects, RemoteInv, Typed, Cut
<1>3. /\ rcLinks' \in [Link -> LinkRecord]
      /\ rcLinks'[k].state = a /\ rcLinks'[k].machine = rcLinks[k].machine
      /\ \A j \in Link : j # k => rcLinks'[j] = rcLinks[j]
  BY <1>1, <1>2 DEF RemoteInv, Typed, LinkRecord
<1>4. LinksFade
  BY <1>2, <1>3 DEF LinksFade, LinksKept, Alive
<1> QED
  BY <1>2, <1>4, LinkStep DEF Connects

LEMMA LinkLostKeeps ==
  ASSUME RemoteInv, NEW k \in Link, LinkLost(k)
  PROVE  RemoteInv'
<1>1. LinksFade
  BY Closing DEF LinkLost, RemoteInv
<1>2. rcCuts' \in 0..MaxCuts
  BY DEF LinkLost, Cut, RemoteInv, Typed
<1> QED
  BY <1>1, <1>2, LinkStep DEF LinkLost

LEMMA DisconnectKeeps ==
  ASSUME RemoteInv, Disconnect
  PROVE  RemoteInv'
<1>1. LinksFade /\ LinksKept /\ (rcClient \in Link => rcLinks'[rcClient].state # "open")
  BY Closing DEF Disconnect, RemoteInv, LinksFade
<1>2. /\ rcClosed' = TRUE /\ rcClient' = 0 /\ rcAttempt' = 0
      /\ UNCHANGED <<rcPrefs, rcWrites, rcChanging, rcCall, rcChange, rcInFlight, rcCuts, rcRan>>
  BY DEF Disconnect
<1>3. Typed'
  BY <1>1, <1>2 DEF RemoteInv, Typed, LinksFade
<1>4. LinksOK' /\ ChangesOK'
  BY <1>1, <1>2, LinksStay, ChangesStay DEF RemoteInv
<1>5. CallsOK' /\ CountOK'
  BY <1>1, <1>2, CallsStay, CountSame DEF RemoteInv
<1>6. OnceOK' /\ WrittenOnce' /\ JoinOK'
  BY <1>2 DEF RemoteInv, OnceOK, WrittenOnce, JoinOK
<1>7. OwnedOK'
  <2> SUFFICES ASSUME NEW k \in Link, Alive(k)'  PROVE Owned(k)'
    BY DEF OwnedOK
  <2>1. Alive(k) /\ Owned(k)
    BY <1>1 DEF RemoteInv, OwnedOK, LinksFade
  <2>2. k # rcClient
    BY <1>1, <2>1 DEF RemoteInv, LinksOK, LinksKept, Alive, Link
  <2> QED
    BY <1>2, <2>1, <2>2 DEF Owned
<1> QED
  BY <1>3, <1>4, <1>5, <1>6, <1>7 DEF RemoteInv

\* A change begins, with connection k for target t, or none.
LEMMA BeginStep ==
  ASSUME RemoteInv, NEW x \in Changers, NEW r \in ChangeRecord, rcChange[x].pc = "idle",
         rcRevision < MaxRevision, MayChange, rcChanging' = TRUE,
         rcChange' = [rcChange EXCEPT ![x] = r],
         r.pc # "idle", r.pc = "connect" => r.link # 0,
         r.pc = "commit" /\ r.link # 0 => rcLinks'[r.link].state \in {"open", "closed"},
         r.link # 0 => /\ r.link \in Link /\ rcLinks'[r.link].state # "none"
                       /\ rcLinks'[r.link].machine = r.target,
         rcLinks' \in [Link -> LinkRecord], LinksKept,
         \A k \in Link : rcLinks'[k] # rcLinks[k] =>
           k = r.link /\ rcLinks[k].state = "none" /\ rcLinks'[k].machine \in Machines,
         UNCHANGED <<rcPrefs, rcWrites, rcClosed, rcClient, rcAttempt, rcCall, rcInFlight, rcCuts,
                     rcRan>>
  PROVE  RemoteInv'
<1>1. /\ rcChange' \in [Changers -> ChangeRecord] /\ rcChange'[x] = r
      /\ \A y \in Changers : y # x => rcChange'[y] = rcChange[y]
  BY DEF RemoteInv, Typed
<1>2. Typed'
  BY <1>1 DEF RemoteInv, Typed
<1>3. LinksOK'
  BY DEF RemoteInv, LinksOK, LeadsTo, LinksKept
<1>4. ~rcChanging /\ rcWrites = 0 /\ \A y \in Changers : rcChange[y].pc = "idle"
  BY DEF MayChange, RemoteInv, ChangesOK, ChangeOK
<1>5. ChangesOK'
  <2>1. ChangeOK(x)'
    BY <1>1 DEF ChangeOK, LeadsTo
  <2>2. ASSUME NEW y \in Changers, y # x  PROVE ChangeOK(y)'
    BY <1>1, <1>4, <2>2 DEF RemoteInv, ChangesOK, ChangeOK
  <2> QED
    BY <1>1, <1>4, <2>1, <2>2 DEF ChangesOK
<1>6. CallsOK' /\ CountOK'
  BY <1>4, CallsStay, CountSame DEF RemoteInv
<1>7. OnceOK' /\ WrittenOnce'
  BY DEF RemoteInv, OnceOK, WrittenOnce
<1>8. OwnedOK'
  <2> SUFFICES ASSUME NEW k \in Link, Alive(k)'  PROVE Owned(k)'
    BY DEF OwnedOK
  <2>1. CASE k = r.link
    BY <1>1, <2>1 DEF Owned
  <2>2. CASE k # r.link
    <3>1. Alive(k) /\ Owned(k)
      BY <2>2 DEF Alive, RemoteInv, OwnedOK
    <3>2. ~\E y \in Changers : rcChange[y].link = k
      BY <1>4 DEF RemoteInv, ChangesOK, ChangeOK, Link
    <3> QED
      BY <3>1, <3>2 DEF Owned
  <2> QED
    BY <2>1, <2>2
<1>9. JoinOK'
  <2>1. \A k \in Link : Alive(k)' /\ rcLinks[k].state # "none" => Alive(k)
    BY DEF Alive
  <2> QED
    BY <2>1, JoinSame DEF RemoteInv, Typed
<1> QED
  BY <1>2, <1>3, <1>5, <1>6, <1>7, <1>8, <1>9 DEF RemoteInv

LEMMA BeginSelectKeeps ==
  ASSUME RemoteInv, NEW x \in Changers, NEW t \in Targets, BeginSelect(x, t)
  PROVE  RemoteInv'
<1>1. /\ rcChange[x].pc = "idle" /\ MayChange /\ rcRevision < MaxRevision /\ rcChanging' = TRUE
      /\ 0 \in 0..MaxClients
  BY DEF BeginSelect
<1>2. CASE t = Local
  <2> DEFINE r == [pc |-> "commit", target |-> Local, link |-> 0]
  <2>1. r \in ChangeRecord /\ r.pc = "commit" /\ r.link = 0
    BY <1>1 DEF ChangeRecord, Targets
  <2>2. rcChange' = [rcChange EXCEPT ![x] = r] /\ UNCHANGED rcLinks
    BY <1>2 DEF BeginSelect
  <2>3. LinksKept /\ rcLinks' \in [Link -> LinkRecord]
    BY <2>2, LinksSame DEF RemoteInv, LinksFade
  <2> HIDE DEF r
  <2> QED
    BY <1>1, <2>1, <2>2, <2>3, BeginStep DEF BeginSelect
<1>3. CASE t # Local
  <2> DEFINE r == [pc |-> "connect", target |-> t, link |-> NewLink]
  <2>1. CanConnect /\ NewLink \in Link /\ rcLinks[NewLink].state = "none" /\ t \in Machines
    BY <1>3, NewLinkIsNew DEF BeginSelect, RemoteInv, Targets
  <2>2. r \in ChangeRecord /\ r.pc = "connect" /\ r.link = NewLink /\ r.target = t /\ NewLink # 0
    BY <2>1 DEF ChangeRecord, Link
  <2>3. /\ rcChange' = [rcChange EXCEPT ![x] = r]
        /\ rcLinks' = [rcLinks EXCEPT ![NewLink] = [machine |-> t, state |-> "connecting"]]
    BY <1>3 DEF BeginSelect
  <2>4. /\ rcLinks' \in [Link -> LinkRecord] /\ LinksKept
        /\ rcLinks'[NewLink] = [machine |-> t, state |-> "connecting"]
        /\ \A k \in Link : k # NewLink => rcLinks'[k] = rcLinks[k]
    BY <2>1, <2>3, LinkBegins DEF RemoteInv
  <2> HIDE DEF r
  <2>5. rcLinks'[r.link].state = "connecting" /\ rcLinks'[r.link].machine = t
    BY <2>2, <2>4
  <2>6. \A k \in Link : rcLinks'[k] # rcLinks[k] =>
          k = r.link /\ rcLinks[k].state = "none" /\ rcLinks'[k].machine \in Machines
    BY <2>1, <2>2, <2>4, <2>5
  <2> QED
    BY <1>1, <2>1, <2>2, <2>3, <2>4, <2>5, <2>6, BeginStep DEF BeginSelect
<1> QED
  BY <1>2, <1>3

LEMMA BeginRemoveKeeps ==
  ASSUME RemoteInv, NEW x \in Changers, BeginRemove(x)
  PROVE  RemoteInv'
<1> DEFINE k == IF rcTarget = Local THEN 0 ELSE rcClient
           r == [pc |-> "commit", target |-> rcTarget, link |-> k]
<1>1. /\ rcChange[x].pc = "idle" /\ MayChange /\ rcRevision < MaxRevision /\ rcChanging' = TRUE
      /\ rcChange' = [rcChange EXCEPT ![x] = r] /\ UNCHANGED rcLinks
  BY DEF BeginRemove
<1>2. r \in ChangeRecord /\ r.pc = "commit" /\ r.link = k /\ r.target = rcTarget
  BY DEF RemoteInv, Typed, ChangeRecord
<1>3. k # 0 => LeadsTo(k, rcTarget) /\ rcLinks[k].state \in {"open", "closed"}
  BY DEF RemoteInv, LinksOK
<1>4. LinksKept /\ rcLinks' \in [Link -> LinkRecord]
  BY <1>1, LinksSame DEF RemoteInv, LinksFade
<1> HIDE DEF r, k
<1>5. r.link # 0 => /\ rcLinks'[r.link].state \in {"open", "closed"} /\ r.link \in Link
                    /\ rcLinks'[r.link].state # "none" /\ rcLinks'[r.link].machine = r.target
  BY <1>1, <1>2, <1>3 DEF LeadsTo
<1> QED
  BY <1>1, <1>2, <1>4, <1>5, BeginStep DEF BeginRemove

LEMMA ChangeConnectedKeeps ==
  ASSUME RemoteInv, NEW x \in Changers, ChangeConnected(x)
  PROVE  RemoteInv'
<1> DEFINE k == rcChange[x].link
<1>1. /\ rcChange[x].pc = "connect" /\ rcLinks[k].state # "connecting"
      /\ UNCHANGED <<rcPrefs, rcWrites, rcClosed, rcClient, rcAttempt, rcLinks, rcCall, rcInFlight,
                     rcCuts, rcRan>>
      /\ rcChange[x] \in ChangeRecord
  BY DEF ChangeConnected, RemoteInv, Typed
<1>2. /\ k # 0 /\ LeadsTo(k, rcChange[x].target) /\ rcChanging /\ rcRevision < MaxRevision
      /\ \A y \in Changers : y # x => rcChange[y].pc = "idle"
  BY <1>1 DEF RemoteInv, ChangesOK, ChangeOK
<1>3. PICK r \in ChangeRecord :
        /\ rcChange' = [rcChange EXCEPT ![x] = r]
        /\ \/ r = ChangeIdle /\ rcLinks[k].state = "failed" /\ rcChanging' = FALSE
           \/ /\ r.pc = "commit" /\ r.link = k /\ r.target = rcChange[x].target
              /\ rcLinks[k].state # "failed" /\ rcChanging' = rcChanging
  <2>1. CASE rcLinks[k].state = "failed"
    <3>1. ChangeIdle \in ChangeRecord
      BY DEF ChangeIdle, ChangeRecord, Targets
    <3> QED
      BY <2>1, <3>1 DEF ChangeConnected
  <2>2. CASE rcLinks[k].state # "failed"
    <3>1. [rcChange[x] EXCEPT !.pc = "commit"] \in ChangeRecord
      BY <1>1 DEF ChangeRecord
    <3> QED
      BY <1>1, <2>2, <3>1 DEF ChangeConnected, ChangeRecord
  <2> QED
    BY <2>1, <2>2
<1>4. /\ rcChange' \in [Changers -> ChangeRecord] /\ rcChange'[x] = r
      /\ \A y \in Changers : y # x => rcChange'[y] = rcChange[y]
  BY <1>3 DEF RemoteInv, Typed
<1>5. Typed' /\ LinksKept
  BY <1>1, <1>3, <1>4, LinksSame DEF RemoteInv, Typed, LinksFade
<1>6. LinksOK'
  BY <1>1 DEF RemoteInv, LinksOK, LeadsTo
<1>7. ChangesOK'
  <2>1. ChangeOK(x)'
    <3>1. CASE r = ChangeIdle
      BY <1>4, <3>1 DEF ChangeOK, ChangeIdle
    <3>2. CASE r # ChangeIdle
      <4>1. rcLinks[k].state \in {"open", "closed"}
        BY <1>1, <1>2, <1>3, <3>2 DEF RemoteInv, Typed, LinkRecord, LeadsTo
      <4> QED
        BY <1>1, <1>2, <1>3, <1>4, <3>2, <4>1 DEF ChangeOK, LeadsTo
    <3> QED
      BY <3>1, <3>2
  <2>2. ASSUME NEW y \in Changers, y # x  PROVE ChangeOK(y)'
    BY <1>2, <1>4, <2>2 DEF RemoteInv, ChangesOK, ChangeOK
  <2> QED
    BY <1>2, <1>4, <2>1, <2>2 DEF ChangesOK
<1>8. CallsOK' /\ CountOK'
  BY <1>1, <1>2, <1>5, CallsStay, CountSame DEF RemoteInv
<1>9. OnceOK' /\ WrittenOnce'
  BY <1>1 DEF RemoteInv, OnceOK, WrittenOnce
<1>10. OwnedOK'
  <2> SUFFICES ASSUME NEW j \in Link, Alive(j)'  PROVE Owned(j)'
    BY DEF OwnedOK
  <2>1. Alive(j) /\ Owned(j)
    BY <1>1 DEF Alive, RemoteInv, OwnedOK
  <2>2. ASSUME NEW y \in Changers, rcChange[y].link = j  PROVE rcChange'[y].link = j
    <3>1. CASE y = x
      BY <1>3, <1>4, <2>1, <2>2, <3>1 DEF Alive
    <3> QED
      BY <1>4, <2>2, <3>1
  <2> QED
    BY <1>1, <2>1, <2>2 DEF Owned
<1>11. JoinOK'
  BY <1>1 DEF RemoteInv, JoinOK, Alive
<1> QED
  BY <1>5, <1>6, <1>7, <1>8, <1>9, <1>10, <1>11 DEF RemoteInv

LEMMA CommitKeeps ==
  ASSUME RemoteInv, NEW x \in Changers, Commit(x)
  PROVE  RemoteInv'
<1> DEFINE k == rcChange[x].link
<1>1. /\ rcChange[x].pc = "commit" /\ rcChange[x] \in ChangeRecord
      /\ rcChange' = [rcChange EXCEPT ![x] = ChangeIdle] /\ rcChanging' = FALSE
      /\ UNCHANGED <<rcWrites, rcClosed, rcCall, rcInFlight, rcCuts, rcRan>>
  BY DEF Commit, RemoteInv, Typed
<1>2. /\ k # 0 => LeadsTo(k, rcChange[x].target) /\ rcLinks[k].state \in {"open", "closed"}
      /\ rcChanging /\ rcRevision < MaxRevision
      /\ \A y \in Changers : y # x => rcChange[y].pc = "idle"
  BY <1>1 DEF RemoteInv, ChangesOK, ChangeOK
<1>3. /\ rcChange' \in [Changers -> ChangeRecord] /\ rcChange'[x] = ChangeIdle
      /\ \A y \in Changers : y # x => rcChange'[y] = rcChange[y]
  BY <1>1 DEF RemoteInv, Typed, ChangeIdle, ChangeRecord, Targets
<1>4. ChangesOK'
  <2>1. \A y \in Changers : rcChange'[y].pc = "idle" /\ rcChange'[y].link = 0
    BY <1>2, <1>3 DEF RemoteInv, ChangesOK, ChangeOK, ChangeIdle
  <2> QED
    BY <2>1 DEF ChangesOK, ChangeOK
<1>5. CountOK' /\ OnceOK' /\ WrittenOnce'
  BY <1>1, CountSame DEF RemoteInv, OnceOK, WrittenOnce
<1>6. \A y \in Changers, j \in Link : rcChange[y].link = j => j = k
  BY <1>2 DEF RemoteInv, ChangesOK, ChangeOK, Link
<1>7. CASE /\ rcRevision' = rcRevision + 1 /\ rcTarget' = rcChange[x].target
           /\ rcChosen' = [rcChosen EXCEPT ![rcRevision + 1] = rcChange[x].target]
           /\ rcLinks' = ClosedLinks(rcLinks, {rcClient} \ {k})
           /\ rcAttempt' = 0 /\ rcClient' = k
  <2>1. /\ LinksFade /\ LinksKept
        /\ rcClient \in Link /\ rcClient # k => rcLinks'[rcClient].state # "open"
    <3>1. Typed /\ rcLinks' = ClosedLinks(rcLinks, {rcClient} \ {k})
      BY <1>7 DEF RemoteInv
    <3>2. /\ LinksFade
          /\ \A j \in Link : j \in {rcClient} \ {k} => rcLinks'[j].state # "open"
      BY <3>1, Closing
    <3>3. rcClient # k => rcClient \in {rcClient} \ {k}
      OBVIOUS
    <3> QED
      BY <3>2, <3>3 DEF LinksFade
  <2>2. /\ rcRevision \in Nat /\ rcRevision + 1 \in 0..MaxRevision
        /\ rcChosen' \in [0..MaxRevision -> Targets]
        /\ rcChosen'[rcRevision + 1] = rcChange[x].target
        /\ \A n \in 0..rcRevision : rcChosen'[n] = rcChosen[n]
    BY <1>1, <1>2, <1>7 DEF RemoteInv, Typed, ChangeRecord
  <2>3. Typed'
    <3>1. rcChange[x].target \in Targets /\ k \in 0..MaxClients /\ 0 \in 0..MaxClients
      BY <1>1 DEF ChangeRecord
    <3>2. rcLinks' \in [Link -> LinkRecord]
      BY <2>1 DEF LinksFade
    <3> HIDE DEF k
    <3> QED
      BY <1>1, <1>3, <1>7, <2>2, <3>1, <3>2 DEF RemoteInv, Typed
  <2>4. LinksOK'
    <3>1. \A j \in Link : rcLinks'[j].state # "none" => rcLinks'[j].machine \in Machines
      BY <2>1 DEF RemoteInv, LinksOK, LinksFade, LinksKept
    <3>2. k # 0 => /\ k \in Link /\ rcLinks'[k].state \in {"open", "closed"}
                   /\ rcLinks'[k].machine = rcChange[x].target
      BY <1>2, <2>1 DEF LeadsTo, LinksKept
    <3>3. \A c \in RemoteCalls, j \in Link : <<c, j>> \in rcInFlight' => rcLinks'[j].state # "none"
      BY <1>1, <2>1 DEF RemoteInv, LinksOK, LinksKept
    <3> HIDE DEF k
    <3> QED
      BY <1>7, <2>2, <3>1, <3>2, <3>3 DEF LinksOK, LeadsTo
  <2>5. CallsOK'
    <3>1. rcWrites = 0 /\ Working = {}
      BY <1>2, FiniteCalls, FS_EmptySet DEF RemoteInv, CountOK
    <3>2. ASSUME NEW c \in RcCalls  PROVE CallOK(c)'
      <4>1. CallOK(c) /\ rcCall[c].revision \in 0..rcRevision
        BY DEF RemoteInv, CallsOK, CallOK, Typed, CallRecord
      <4>2. ~(Guarded(c) /\ rcCall[c].pc \in Busy)
        BY <3>1 DEF Working
      <4>3. rcChosen'[rcCall[c].revision] = rcChosen[rcCall[c].revision]
        BY <2>2, <4>1
      <4>4. rcCall[c].pc \in {"connect", "call", "sent"} =>
              LeadsTo(rcCall[c].link, rcChosen[rcCall[c].revision])'
        BY <1>1, <2>1, <4>1, <4>3 DEF CallOK, LeadsTo, LinksKept
      <4> QED
        BY <1>1, <1>7, <2>2, <4>1, <4>2, <4>3, <4>4 DEF CallOK, Guarded
    <3> QED
      BY <3>2 DEF CallsOK
  <2>6. OwnedOK'
    <3> SUFFICES ASSUME NEW j \in Link, Alive(j)'  PROVE Owned(j)'
      BY DEF OwnedOK
    <3>1. Alive(j) /\ Owned(j)
      BY <2>1 DEF RemoteInv, OwnedOK, LinksFade
    <3>2. j = rcClient => j = k
      BY <2>1, <3>1 DEF RemoteInv, LinksOK, LinksKept, Alive, Link
    <3>3. CASE j = k
      BY <1>7, <3>3 DEF Owned
    <3>4. CASE j # k
      BY <1>1, <1>6, <3>1, <3>2, <3>4 DEF Owned
    <3> QED
      BY <3>3, <3>4
  <2>7. JoinOK'
    BY <1>1, <1>7, <2>2 DEF JoinOK, RemoteInv, CallsOK, CallOK, RcCalls, Typed, CallRecord
  <2> QED
    BY <1>4, <1>5, <2>3, <2>4, <2>5, <2>6, <2>7 DEF RemoteInv
<1>8. CASE /\ rcLinks' = ClosedLinks(rcLinks, {k} \ {rcClient})
           /\ UNCHANGED <<rcPrefs, rcAttempt, rcClient>>
  <2>1. /\ LinksFade /\ LinksKept
        /\ k \in Link /\ k # rcClient => rcLinks'[k].state # "open"
    <3>1. PICK ks : ks = {k} \ {rcClient} /\ rcLinks' = ClosedLinks(rcLinks, ks)
      BY <1>8
    <3>2. LinksFade /\ \A j \in Link : j \in ks => rcLinks'[j].state # "open"
      BY <3>1, Closing DEF RemoteInv
    <3> QED
      BY <3>1, <3>2 DEF LinksFade
  <2>2. Typed'
    BY <1>1, <1>3, <1>8, <2>1 DEF RemoteInv, Typed, LinksFade
  <2>3. LinksOK' /\ CallsOK'
    BY <1>1, <1>8, <2>1, LinksStay, CallsStay DEF RemoteInv
  <2>4. OwnedOK'
    <3> SUFFICES ASSUME NEW j \in Link, Alive(j)'  PROVE Owned(j)'
      BY DEF OwnedOK
    <3>1. Alive(j) /\ Owned(j)
      BY <2>1 DEF RemoteInv, OwnedOK, LinksFade
    <3>2. j = k => j = rcClient
      BY <1>2, <2>1, <3>1 DEF LinksKept, Alive, Link
    <3> QED
      BY <1>1, <1>6, <1>8, <3>1, <3>2 DEF Owned
  <2>5. JoinOK'
    BY <1>1, <1>8, <2>1, JoinSame DEF RemoteInv, Typed, LinksFade
  <2> QED
    BY <1>4, <1>5, <2>2, <2>3, <2>4, <2>5 DEF RemoteInv
<1> QED
  BY <1>7, <1>8 DEF Commit

(***************************************************************************)
(* Every state.                                                            *)
(***************************************************************************)
LEMMA RemoteStarts ==
  ASSUME RemoteInit
  PROVE  RemoteInv
<1>1. 0 \in 0..MaxRevision /\ 0 \in 0..MaxClients /\ 0 \in 0..MaxCuts /\ 0 \in Nat
  OBVIOUS
<1>2. CallIdle \in CallRecord /\ CallIdle.pc = "idle" /\ CallIdle.revision = 0
  BY <1>1 DEF CallIdle, CallRecord, Targets
<1>3. ChangeIdle \in ChangeRecord /\ ChangeIdle.pc = "idle" /\ ChangeIdle.link = 0
  BY <1>1 DEF ChangeIdle, ChangeRecord, Targets
<1>4. /\ \A c \in RcCalls : rcCall[c] = CallIdle
      /\ \A x \in Changers : rcChange[x] = ChangeIdle
      /\ \A k \in Link : rcLinks[k] = [machine |-> Local, state |-> "none"]
      /\ rcClient = 0 /\ rcAttempt = 0 /\ rcInFlight = {} /\ rcChosen[0] = rcTarget
      /\ \A c \in Mutating : \A m \in Machines : rcRan[c][m] = 0
  BY <1>1 DEF RemoteInit
<1>5. Typed
  <2>1. [machine |-> Local, state |-> "none"] \in LinkRecord
    BY DEF LinkRecord, Targets
  <2>2. rcChosen \in [0..MaxRevision -> Targets] /\ rcRan \in [Mutating -> [Machines -> Nat]]
    BY <1>1 DEF RemoteInit, Targets
  <2> QED
    BY <1>1, <1>2, <1>3, <2>1, <2>2 DEF RemoteInit, Typed
<1>6. LinksOK
  BY <1>4 DEF RemoteInit, LinksOK
<1>7. ChangesOK
  BY <1>3, <1>4 DEF ChangesOK, ChangeOK
<1>8. CountOK
  <2>1. Working = {}
    BY <1>2, <1>4 DEF Working, Busy
  <2> QED
    BY <2>1, FS_EmptySet DEF CountOK, RemoteInit
<1>9. CallsOK
  BY <1>1, <1>2, <1>4 DEF CallsOK, CallOK, RemoteInit, Busy
<1>10. OnceOK /\ WrittenOnce
  BY <1>4 DEF OnceOK, WrittenOnce
<1>11. OwnedOK /\ JoinOK
  BY <1>2, <1>4 DEF OwnedOK, JoinOK, Alive, RcCalls
<1> QED
  BY <1>5, <1>6, <1>7, <1>8, <1>9, <1>10, <1>11 DEF RemoteInv

LEMMA RemoteSteps ==
  ASSUME RemoteInv, [RemoteNext]_rcVars
  PROVE  RemoteInv'
<1>1. CASE UNCHANGED rcVars
  <2>1. Typed' /\ LinksOK' /\ ChangesOK'
    BY <1>1 DEF rcVars, RemoteInv, Typed, LinksOK, LeadsTo, ChangesOK, ChangeOK
  <2>2. CountOK' /\ CallsOK'
    BY <1>1, CountSame, CallsStay, LinksSame DEF rcVars, RemoteInv, LinksFade
  <2>3. OnceOK' /\ WrittenOnce' /\ OwnedOK' /\ JoinOK'
    BY <1>1 DEF rcVars, RemoteInv, OnceOK, WrittenOnce, OwnedOK, Owned, JoinOK, Alive
  <2> QED
    BY <2>1, <2>2, <2>3 DEF RemoteInv
<1>2. ASSUME NEW c \in RcCalls, AskFor(c) \/ CallStep(c)  PROVE RemoteInv'
  BY <1>2, AskForKeeps, EnterKeeps, LocalWriteEndsKeeps, EnsureKeeps, EnsuredKeeps, CallKeeps,
     ReleaseKeeps, ReturnKeeps, TransportFailsKeeps DEF CallStep
<1>3. ASSUME NEW k \in Link, Connects(k) \/ LinkLost(k)  PROVE RemoteInv'
  BY <1>3, ConnectsKeeps, LinkLostKeeps
<1>4. ASSUME NEW c \in RemoteCalls, NEW k \in Link, Serve(c, k) \/ Lose(c, k)  PROVE RemoteInv'
  BY <1>4, ServeKeeps, LoseKeeps
<1>5. ASSUME NEW x \in Changers, NEW t \in Targets, BeginSelect(x, t)  PROVE RemoteInv'
  BY <1>5, BeginSelectKeeps
<1>6. ASSUME NEW x \in Changers, BeginRemove(x) \/ ChangeConnected(x) \/ Commit(x)
      PROVE  RemoteInv'
  BY <1>6, BeginRemoveKeeps, ChangeConnectedKeeps, CommitKeeps
<1>7. CASE Disconnect
  BY <1>7, DisconnectKeeps
<1> QED
  BY <1>1, <1>2, <1>3, <1>4, <1>5, <1>6, <1>7 DEF RemoteNext

LEMMA RemoteAlways == RemoteSpec => []RemoteInv
BY RemoteStarts, RemoteSteps, PTL DEF RemoteSpec

\* Every variable keeps its type, and the guards that are held are never more
\* than the commands.
THEOREM RemoteHasType == RemoteSpec => []RemoteTypeOK
<1>1. RemoteInv => RemoteTypeOK
  BY FiniteCalls DEF RemoteInv, Typed, CountOK, RemoteTypeOK
<1> QED
  BY <1>1, RemoteAlways, PTL

\* What the user sees was answered by the machine whose view the user acted on,
\* and no machine is changed under a command that writes.
THEOREM RemoteAnswersOfItsMachine == RemoteSpec => []AnswerOfItsMachine
<1>1. ASSUME RemoteInv  PROVE AnswerOfItsMachine
  <2>1. \A c \in RemoteCalls : rcCall[c].pc = "ok" => rcCall[c].by = rcChosen[rcCall[c].revision]
    BY <1>1 DEF RemoteInv, CallsOK, CallOK, RcCalls
  <2>2. \A c \in RcCalls : Guarded(c) /\ rcCall[c].pc \in Busy =>
          rcTarget = rcChosen[rcCall[c].revision] /\ rcRevision = rcCall[c].revision
    BY <1>1 DEF RemoteInv, CallsOK, CallOK, LinksOK
  <2> QED
    BY <2>1, <2>2 DEF AnswerOfItsMachine, Busy
<1> QED
  BY <1>1, RemoteAlways, PTL

\* A command that writes is run at most once, on one machine.
THEOREM RemoteWrittenOnce == RemoteSpec => []WrittenOnce
<1>1. RemoteInv => WrittenOnce
  BY DEF RemoteInv
<1> QED
  BY <1>1, RemoteAlways, PTL

\* No connection is left open that nobody has or waits for.
THEOREM RemoteNoneLeftOpen == RemoteSpec => []NoneLeftOpen
<1>1. RemoteInv => NoneLeftOpen
  BY DEF RemoteInv, OwnedOK, Owned, Alive, NoneLeftOpen, IsOpen
<1> QED
  BY <1>1, RemoteAlways, PTL
=============================================================================
