-------------------------- MODULE DesktopAppProofs --------------------------
(***************************************************************************)
(* Parts of the App, for any number of images, threads, runs, owners,      *)
(* sessions and calls: the images a user pastes, the preview of hidden     *)
(* threads, the subscription of the interface to a thread, the answers to  *)
(* approvals, and the key of the stored queue.                             *)
(*                                                                         *)
(* Attachments.  An operation is a plan, the file-system calls that are    *)
(* left of it, and it may fail or end between any two of them; so the      *)
(* invariant is about plans: whatever prefix of the remaining calls        *)
(* succeeds, an image is written before an index names it, named only      *)
(* when whole, deleted only while the index in force calls it released     *)
(* and forgotten only when deleted.  Those are statements about positions  *)
(* in a sequence, and each is kept by taking its head away.                *)
(*                                                                         *)
(* Hidden scans.  What a run may conclude follows from what its scan is    *)
(* when the answer is made, but it concludes it later: the invariant says  *)
(* of a page on its way that the run can still take it (PageOK), and of an *)
(* error that the scan it leaves behind does not work or was stopped       *)
(* (ErrorOK).  That a start always finds a slot is a counting argument:    *)
(* without a worker, whatever holds a slot is finished and can go.         *)
(*                                                                         *)
(* Subscriptions.  An attach takes its intent when it begins, in the order *)
(* in which attaches are made (CallsOrdered), and selects only if nobody   *)
(* began since; the run that is current is the last made (RunOK), so once  *)
(* it is selected nothing but its own detach, which is sent when the run   *)
(* is left, takes the selection from it (ShownOK).  Whatever is selected   *)
(* and not held is on its way to be released, will be when its answer      *)
(* comes, or is of an older revision (SelectedOK).                         *)
(*                                                                         *)
(* Approvals.  DecidedAsShown is about what was written; that it stays so  *)
(* needs what the command in hand, the answers in the channel and the view *)
(* know of the session: ApprovalInv says that an answer that carries the   *)
(* number of the present session was decided on a view of the present      *)
(* link, and that no such answer waits while the worker reconnects.        *)
(*                                                                         *)
(* Keys.  KeyIsStable needs that one call at a time is past the lock, and  *)
(* that whoever found no key found nothing stored either and is alone when *)
(* it makes one: LockInv, RootInv and CallInv.                             *)
(***************************************************************************)
EXTENDS DesktopAttachments, HiddenScan, DesktopRuntime, DesktopApproval, DesktopKey,
        FiniteSetTheorems, SequenceTheorems, WellFoundedInduction, TLAPS

USE AttachmentsAssumption DEF AttachmentsAssumption

(***************************************************************************)
(* I. Attachments.                                                         *)
(***************************************************************************)
Steps == [kind : {"idle", "open", "import", "release", "retain"}, image : Images \cup {"none"},
          calls : Seq(Calls)]

\* Does a call leave the image of j without a whole file?
Spoils(c, j) == c.do \in {"create", "unlink"} /\ c.image = j
Fills(c, j) == c.do = "write" /\ c.image = j
Deletes(c, j) == c.do = "unlink" /\ c.image = j
Grows(c, j) == c.do \in {"create", "write"} /\ c.image = j
Renames(c) == c.do = "rename"

\* An image is deleted while the index in force calls it released.
DeletesReleased(calls, disk) ==
  \A n \in 1..Len(calls) : \A j \in Images : Deletes(calls[n], j) =>
    /\ \A m \in 1..(n - 1) : Renames(calls[m]) => calls[m].index[j] = "released"
    /\ disk[j] = "released" \/ \E m \in 1..(n - 1) : Renames(calls[m])

\* An image is written before any index knows it.
WritesUnknown(calls, indexed) ==
  \A n \in 1..Len(calls) : \A j \in Images : Grows(calls[n], j) =>
    /\ j \notin indexed
    /\ \A m \in 1..(n - 1) : Renames(calls[m]) => calls[m].index[j] = "none"

\* An image of a new index is whole by then.
NamesWhole(calls, file) ==
  \A n \in 1..Len(calls) : \A j \in Images :
    Renames(calls[n]) /\ calls[n].index[j] \in {"draft", "retained"} =>
      \/ file[j] = "whole" /\ \A k \in 1..(n - 1) : ~Spoils(calls[k], j)
      \/ \E m \in 1..(n - 1) : Fills(calls[m], j) /\ \A k \in m..(n - 1) : ~Spoils(calls[k], j)

\* An image is forgotten when it has no file any more.
ForgetsAbsent(calls, file, indexed) ==
  \A n \in 1..Len(calls) : \A j \in Images :
    /\ Renames(calls[n]) /\ calls[n].index[j] = "none"
    /\ j \in indexed \/ \E m \in 1..(n - 1) : Renames(calls[m]) /\ calls[m].index[j] # "none"
    => /\ file[j] = "absent" \/ \E m \in 1..(n - 1) : Deletes(calls[m], j)
       /\ \A k \in 1..(n - 1) : ~Grows(calls[k], j)

\* What was sent is not touched.
LeavesSent(calls, sent) ==
  \A n \in 1..Len(calls) : \A j \in sent :
    /\ ~Spoils(calls[n], j) /\ ~Grows(calls[n], j)
    /\ Renames(calls[n]) => calls[n].index[j] = "retained"

\* The mark of a message is made, or will be by the last call.
Marks ==
  atOp.kind = "retain" =>
    /\ atOp.image \in Images /\ atFile[atOp.image] = "whole"
    /\ \A n \in 1..Len(atOp.calls) :
         /\ ~Spoils(atOp.calls[n], atOp.image)
         /\ Renames(atOp.calls[n]) => atOp.calls[n].index[atOp.image] = "retained"
    /\ \/ atDisk[atOp.image] = "retained"
       \/ Len(atOp.calls) > 0 /\ Renames(atOp.calls[Len(atOp.calls)])


LEMMA Joined ==
  ASSUME NEW D, NEW s \in Seq(D), NEW t \in Seq(D)
  PROVE  /\ s \o t \in Seq(D) /\ Len(s \o t) = Len(s) + Len(t)
         /\ \A n \in 1..Len(s) : (s \o t)[n] = s[n]
         /\ \A n \in 1..Len(t) : (s \o t)[Len(s) + n] = t[n]
  OBVIOUS

(***************************************************************************)
(* The calls that delete released images.                                  *)
(***************************************************************************)
LEMMA UnlinkIs ==
  ASSUME NEW S \in SUBSET Images
  PROVE  /\ Cardinality(S) \in Nat /\ Len(Unlink(S)) = Cardinality(S)
         /\ Unlink(S) \in Seq(Calls)
         /\ \A n \in 1..Cardinality(S) : Unlink(S)[n].do = "unlink" /\ Unlink(S)[n].image \in S
         /\ \A j \in S : \E n \in 1..Cardinality(S) : Unlink(S)[n].image = j
<1> DEFINE k == Cardinality(S)
<1> DEFINE g == SetToSeq(S)
<1>1. IsFiniteSet(S) /\ k \in Nat /\ ExistsBijection(1..k, S)
  BY FS_Subset, FS_CardinalityType
<1>2. \E f \in [1..k -> S] : IsInjective(f)
  BY <1>1 DEF ExistsBijection, Bijection, Injection
<1>3. g \in [1..k -> S] /\ IsInjective(g)
  BY <1>2 DEF SetToSeq
<1> HIDE DEF g
<1>4. g \in Injection(1..k, S)
  BY <1>3 DEF Injection
<1>5. Cardinality(1..k) = k
  <2>1. Cardinality(1..k) = IF 1 > k THEN 0 ELSE k - 1 + 1
    BY <1>1, FS_Interval
  <2> QED  BY <2>1, <1>1
<1>6. g \in Surjection(1..k, S)
  BY <1>1, <1>4, <1>5, FS_Injection
<1>7. \A j \in S : \E n \in 1..k : g[n] = j
  BY <1>6 DEF Surjection
<1>8. Unlink(S) = [n \in 1..k |-> [do |-> "unlink", image |-> g[n]]]
  BY DEF Unlink, g
<1>9. \A n \in 1..k : /\ Unlink(S)[n] = [do |-> "unlink", image |-> g[n]] /\ g[n] \in S
                      /\ Unlink(S)[n] \in Calls
  BY <1>1, <1>3, <1>8 DEF Calls
<1>10. Unlink(S) \in Seq(Calls) /\ Len(Unlink(S)) = k
  BY <1>1, <1>8, <1>9
<1>11. \A n \in 1..k : Unlink(S)[n].do = "unlink" /\ Unlink(S)[n].image = g[n]
  <2> TAKE n \in 1..k
  <2>1. Unlink(S)[n] = [do |-> "unlink", image |-> g[n]]
    BY <1>9
  <2> QED  BY <2>1
<1>12. \A j \in S : \E n \in 1..k : Unlink(S)[n].image = j
  BY <1>7, <1>11
<1> QED
  BY <1>1, <1>9, <1>10, <1>11, <1>12

\* What a removal is made of: the index that names the released images, their
\* deletion, the index without them.
Removal(calls, next) ==
  /\ calls \in Seq(Calls)
  /\ \A n \in 1..Len(calls) :
       /\ calls[n].do \in {"temporary", "rename", "unlink"}
       /\ Renames(calls[n]) => calls[n].index \in {next, DropReleased(next)}
       /\ \A j \in Images : Deletes(calls[n], j) =>
            /\ next[j] = "released"
            /\ \E m \in 1..(n - 1) : Renames(calls[m])
            /\ \A m \in 1..(n - 1) : Renames(calls[m]) => calls[m].index = next
       /\ Renames(calls[n]) /\ calls[n].index # next =>
            \A j \in Images : next[j] = "released" /\ atFile[j] # "absent" =>
              \E m \in 1..(n - 1) : Deletes(calls[m], j)
  /\ \A j \in Images : next[j] = "released" /\ atFile[j] # "absent" =>
       \E m \in 1..Len(calls) : Deletes(calls[m], j)
  /\ \A j \in Images : next[j] = "released" => calls # <<>>

LEMMA DropIs ==
  ASSUME NEW next \in AtIndex
  PROVE  /\ DropReleased(next) \in AtIndex
         /\ \A j \in Images : /\ next[j] = "released" => DropReleased(next)[j] = "none"
                              /\ next[j] # "released" => DropReleased(next)[j] = next[j]
  BY DEF AtIndex, Retention, DropReleased

LEMMA RemoveIsRemoval ==
  ASSUME NEW next \in AtIndex
  PROVE  Removal(RemoveReleased(next), next)
<1> DEFINE drop == DropReleased(next)
<1> DEFINE U == {i \in Released(next) : atFile[i] # "absent"}
<1> DEFINE k == Cardinality(U)
<1> DEFINE u == Unlink(U)
<1>1. drop \in AtIndex
  BY DropIs
<1>2. /\ k \in Nat /\ Len(u) = k /\ u \in Seq(Calls)
      /\ \A n \in 1..k : u[n].do = "unlink" /\ u[n].image \in U
      /\ \A j \in U : \E n \in 1..k : u[n].image = j
  <2>1. U \in SUBSET Images
    BY DEF Released
  <2> HIDE DEF U
  <2> QED  BY <2>1, UnlinkIs
<1>3. /\ U \subseteq Images
      /\ \A j \in Images : j \in U <=> next[j] = "released" /\ atFile[j] # "absent"
  BY DEF Released
<1>4. CASE Released(next) = {}
  <2>1. RemoveReleased(next) = <<>>
    BY <1>4 DEF RemoveReleased
  <2>2. \A j \in Images : next[j] # "released"
    BY <1>4 DEF Released
  <2> QED  BY <2>1, <2>2 DEF Removal
<1>5. CASE Released(next) # {}
  <2> DEFINE a == <<[do |-> "temporary", index |-> next], [do |-> "rename", index |-> next]>>
  <2> DEFINE b == <<[do |-> "temporary", index |-> drop], [do |-> "rename", index |-> drop]>>
  <2> DEFINE calls == a \o u \o b
  <2>1. RemoveReleased(next) = calls
    BY <1>5 DEF RemoveReleased, Persist
  <2>2. a \in Seq(Calls) /\ b \in Seq(Calls) /\ Len(a) = 2 /\ Len(b) = 2
    BY <1>1 DEF Calls
  <2>3. /\ calls \in Seq(Calls) /\ Len(calls) = k + 4
        /\ calls[1] = a[1] /\ calls[2] = a[2]
        /\ \A n \in 1..k : calls[n + 2] = u[n]
        /\ calls[k + 3] = b[1] /\ calls[k + 4] = b[2]
    <3> HIDE DEF a, b, u, U, k
    <3>1. u \in Seq(Calls) /\ Len(u) = k /\ k \in Nat
      BY <1>2
    <3>2. /\ a \o u \in Seq(Calls) /\ Len(a \o u) = k + 2
          /\ (a \o u)[1] = a[1] /\ (a \o u)[2] = a[2]
          /\ \A n \in 1..k : (a \o u)[n + 2] = u[n]
      <4>1. /\ a \o u \in Seq(Calls) /\ Len(a \o u) = Len(a) + Len(u)
            /\ \A n \in 1..Len(a) : (a \o u)[n] = a[n]
            /\ \A n \in 1..Len(u) : (a \o u)[Len(a) + n] = u[n]
        <5>1. a \in Seq(Calls)
          BY <2>2
        <5>2. u \in Seq(Calls)
          BY <3>1
        <5> QED  BY <5>1, <5>2, Joined
      <4>2. Len(a \o u) = k + 2
        BY <4>1, <3>1, <2>2
      <4>3. (a \o u)[1] = a[1] /\ (a \o u)[2] = a[2]
        BY <4>1, <2>2
      <4>4. \A n \in 1..k : (a \o u)[2 + n] = u[n]
        BY <4>1, <3>1, <2>2
      <4>5. ASSUME NEW n \in 1..k PROVE (a \o u)[n + 2] = u[n]
        <5>1. 2 + n = n + 2
          OBVIOUS
        <5> QED  BY <4>4, <5>1
      <4> QED  BY <4>1, <4>2, <4>3, <4>5
    <3> DEFINE au == a \o u
    <3> HIDE DEF au
    <3>3. au \in Seq(Calls) /\ Len(au) = k + 2
      BY <3>2 DEF au
    <3>4. /\ au \o b \in Seq(Calls) /\ Len(au \o b) = k + 4
          /\ \A n \in 1..(k + 2) : (au \o b)[n] = au[n]
          /\ (au \o b)[k + 3] = b[1] /\ (au \o b)[k + 4] = b[2]
      <4>1. /\ au \o b \in Seq(Calls) /\ Len(au \o b) = Len(au) + Len(b)
            /\ \A n \in 1..Len(au) : (au \o b)[n] = au[n]
            /\ \A n \in 1..Len(b) : (au \o b)[Len(au) + n] = b[n]
        <5>1. au \in Seq(Calls)
          BY <3>3
        <5>2. b \in Seq(Calls)
          BY <2>2
        <5> QED  BY <5>1, <5>2, Joined
      <4>2. (k + 2) + 2 = k + 4 /\ (k + 2) + 1 = k + 3
        BY <3>1
      <4>3. (au \o b)[Len(au) + 1] = b[1] /\ (au \o b)[Len(au) + 2] = b[2]
        BY <4>1, <2>2
      <4> QED  BY <4>1, <4>2, <4>3, <3>1, <3>3, <2>2
    <3>5. 1 \in 1..(k + 2) /\ 2 \in 1..(k + 2) /\ \A n \in 1..k : n + 2 \in 1..(k + 2)
      BY <3>1
    <3> QED  BY <3>1, <3>2, <3>4, <3>5 DEF au
  <2>4. \A n \in 1..(k + 4) :
          n = 1 \/ n = 2 \/ n = k + 3 \/ n = k + 4 \/ (n - 2 \in 1..k /\ n = (n - 2) + 2)
    BY <1>2
  <2>5. /\ calls[1].do = "temporary" /\ calls[k + 3].do = "temporary"
        /\ calls[2].do = "rename" /\ calls[2].index = next
        /\ calls[k + 4].do = "rename" /\ calls[k + 4].index = drop
        /\ \A n \in 1..k : calls[n + 2].do = "unlink" /\ calls[n + 2].image = u[n].image
    <3> HIDE DEF calls, u, U
    <3>1. a[1].do = "temporary" /\ a[2].do = "rename" /\ a[2].index = next
      OBVIOUS
    <3>2. b[1].do = "temporary" /\ b[2].do = "rename" /\ b[2].index = drop
      OBVIOUS
    <3> QED  BY <3>1, <3>2, <2>3, <1>2
  <2> HIDE DEF calls, a, b, u, U, k, drop
  <2>6. \A j \in U : \E n \in 1..k : Deletes(calls[n + 2], j)
    <3> TAKE j \in U
    <3>1. PICK n \in 1..k : u[n].image = j
      BY <1>2
    <3>2. Deletes(calls[n + 2], j)
      BY <3>1, <2>5 DEF Deletes
    <3> QED  BY <3>2
  <2>7. \A j \in U : \E m \in 1..(k + 3) : m \in 1..(k + 4 - 1) /\ Deletes(calls[m], j)
    <3> TAKE j \in U
    <3>1. PICK n \in 1..k : Deletes(calls[n + 2], j)
      BY <2>6
    <3>2. n + 2 \in 1..(k + 3) /\ n + 2 \in 1..(k + 4 - 1)
      BY <1>2
    <3> QED  BY <3>1, <3>2
  <2>8. ASSUME NEW n \in 1..Len(calls)
        PROVE  /\ calls[n].do \in {"temporary", "rename", "unlink"}
               /\ Renames(calls[n]) => calls[n].index \in {next, drop}
               /\ \A j \in Images : Deletes(calls[n], j) =>
                    /\ next[j] = "released"
                    /\ \E m \in 1..(n - 1) : Renames(calls[m])
                    /\ \A m \in 1..(n - 1) : Renames(calls[m]) => calls[m].index = next
               /\ Renames(calls[n]) /\ calls[n].index # next =>
                    \A j \in Images : next[j] = "released" /\ atFile[j] # "absent" =>
                      \E m \in 1..(n - 1) : Deletes(calls[m], j)
    <3>1. CASE n = 1 \/ n = k + 3
      BY <3>1, <2>5 DEF Renames, Deletes
    <3>2. CASE n = 2
      BY <3>2, <2>5 DEF Renames, Deletes
    <3>3. CASE n = k + 4
      <4>1. 1..(n - 1) = 1..(k + 4 - 1)
        BY <3>3, <1>2
      <4>2. /\ calls[n].do = "rename" /\ calls[n].index = drop
            /\ Renames(calls[n]) /\ ~(\E j \in Images : Deletes(calls[n], j))
        BY <3>3, <2>5 DEF Renames, Deletes
      <4>3. ASSUME NEW j \in Images, next[j] = "released", atFile[j] # "absent"
            PROVE  \E m \in 1..(n - 1) : Deletes(calls[m], j)
        BY <4>1, <4>3, <2>7, <1>3
      <4> QED  BY <4>2, <4>3
    <3>4. CASE n - 2 \in 1..k /\ n = (n - 2) + 2
      <4>1. calls[n].do = "unlink" /\ calls[n].image \in U
        <5>1. calls[(n - 2) + 2].do = "unlink" /\ calls[(n - 2) + 2].image = u[n - 2].image
          BY <3>4, <2>5
        <5> QED  BY <3>4, <5>1, <1>2
      <4>2. 2 \in 1..(n - 1) /\ Renames(calls[2])
        BY <3>4, <2>5 DEF Renames
      <4>3. ASSUME NEW m \in 1..(n - 1), Renames(calls[m]) PROVE calls[m].index = next
        <5>1. m \in 1..(k + 4) /\ m # k + 4
          BY <3>4, <1>2
        <5>2. m = 2
          BY <5>1, <4>3, <2>4, <2>5 DEF Renames
        <5> QED  BY <5>2, <2>5
      <4> QED  BY <4>1, <4>2, <4>3, <1>3 DEF Renames, Deletes
    <3> QED  BY <3>1, <3>2, <3>3, <3>4, <2>3, <2>4
  <2>9. \A j \in Images : next[j] = "released" /\ atFile[j] # "absent" =>
          \E m \in 1..Len(calls) : Deletes(calls[m], j)
    <3>1. 1..(k + 3) \subseteq 1..Len(calls)
      BY <2>3, <1>2
    <3> QED  BY <3>1, <2>7, <1>3
  <2>10. calls # <<>>
    BY <2>3, <1>2
  <2>11. Removal(calls, next)
    BY <2>3, <2>8, <2>9, <2>10 DEF Removal, drop
  <2> QED  BY <2>1, <2>11
<1> QED
  BY <1>4, <1>5

(***************************************************************************)
(* Plans as they begin.                                                    *)
(***************************************************************************)
\* What a beginning knows of the index in force and the files.
Known(file, disk, indexed, sent) ==
  /\ disk \in AtIndex /\ sent \subseteq Images
  /\ \A j \in Images : /\ disk[j] \in {"draft", "retained"} => file[j] = "whole"
                       /\ disk[j] # "none" => j \in indexed
                       /\ j \in indexed /\ disk[j] = "none" => file[j] = "absent"
  /\ \A j \in sent : file[j] = "whole" /\ disk[j] = "retained"

\* Images of an index are released, and nothing else.
ReleasedFrom(disk, next) ==
  \A j \in Images : next[j] = disk[j] \/ (disk[j] = "draft" /\ next[j] = "released")

Planned(calls, file, disk, indexed, sent) ==
  /\ DeletesReleased(calls, disk) /\ WritesUnknown(calls, indexed)
  /\ NamesWhole(calls, file) /\ ForgetsAbsent(calls, file, indexed)
  /\ LeavesSent(calls, sent)

LEMMA NothingIsPlan ==
  ASSUME NEW file, NEW disk, NEW indexed, NEW sent
  PROVE  Planned(<<>>, file, disk, indexed, sent)
<1>1. 1..Len(<<>>) = {}
  OBVIOUS
<1> QED
  BY <1>1 DEF Planned, DeletesReleased, WritesUnknown, NamesWhole, ForgetsAbsent, LeavesSent

LEMMA RemovalIsPlan ==
  ASSUME NEW disk, NEW indexed, NEW sent, Known(atFile, disk, indexed, sent),
         NEW next \in AtIndex, ReleasedFrom(disk, next), NEW calls, Removal(calls, next)
  PROVE  Planned(calls, atFile, disk, indexed, sent)
<1> DEFINE drop == DropReleased(next)
<1>1. /\ drop \in AtIndex
      /\ \A j \in Images : /\ next[j] = "released" => drop[j] = "none"
                           /\ next[j] # "released" => drop[j] = next[j]
  BY DropIs
<1>2. \A j \in Images : next[j] = disk[j] \/ (disk[j] = "draft" /\ next[j] = "released")
  BY DEF ReleasedFrom
<1>3. \A n \in 1..Len(calls) : \A j \in Images : ~Grows(calls[n], j)
  BY DEF Removal, Grows
<1>4. \A n \in 1..Len(calls) : \A j \in Images : Spoils(calls[n], j) => Deletes(calls[n], j)
  BY DEF Removal, Spoils, Deletes
<1>5. \A n \in 1..Len(calls) : Renames(calls[n]) => calls[n].index \in {next, drop}
  BY DEF Removal
<1> HIDE DEF drop
<1>6. DeletesReleased(calls, disk)
  BY DEF Removal, DeletesReleased
<1>7. WritesUnknown(calls, indexed)
  BY <1>3 DEF WritesUnknown
<1>8. NamesWhole(calls, atFile)
  <2> SUFFICES ASSUME NEW n \in 1..Len(calls), NEW j \in Images, Renames(calls[n]),
                      calls[n].index[j] \in {"draft", "retained"}
               PROVE  atFile[j] = "whole" /\ \A k \in 1..(n - 1) : ~Spoils(calls[k], j)
    BY DEF NamesWhole
  <2>1. next[j] \in {"draft", "retained"} /\ disk[j] \in {"draft", "retained"}
    BY <1>1, <1>2, <1>5
  <2>2. ASSUME NEW k \in 1..(n - 1) PROVE ~Spoils(calls[k], j)
    <3>1. k \in 1..Len(calls)
      BY DEF Removal
    <3> QED  BY <3>1, <2>1, <1>4 DEF Removal
  <2> QED  BY <2>1, <2>2 DEF Known
<1>9. ForgetsAbsent(calls, atFile, indexed)
  <2> SUFFICES ASSUME NEW n \in 1..Len(calls), NEW j \in Images, Renames(calls[n]),
                      calls[n].index[j] = "none",
                      j \in indexed \/ \E m \in 1..(n - 1) : Renames(calls[m])
                                                             /\ calls[m].index[j] # "none"
               PROVE  /\ atFile[j] = "absent" \/ \E m \in 1..(n - 1) : Deletes(calls[m], j)
                      /\ \A k \in 1..(n - 1) : ~Grows(calls[k], j)
    BY DEF ForgetsAbsent
  <2>1. \A k \in 1..(n - 1) : k \in 1..Len(calls)
    BY DEF Removal
  <2>2. CASE next[j] = "none"
    <3>1. disk[j] = "none" /\ drop[j] = "none"
      BY <2>2, <1>1, <1>2
    <3>2. j \in indexed
      BY <2>1, <2>2, <3>1, <1>5
    <3> QED  BY <3>1, <3>2, <2>1, <1>3 DEF Known
  <2>3. CASE next[j] # "none"
    <3>1. next[j] = "released" /\ calls[n].index # next
      BY <2>3, <1>1, <1>5
    <3> QED  BY <3>1, <2>1, <1>3 DEF Removal
  <2> QED  BY <2>2, <2>3
<1>10. LeavesSent(calls, sent)
  <2> SUFFICES ASSUME NEW n \in 1..Len(calls), NEW j \in sent
               PROVE  /\ ~Spoils(calls[n], j) /\ ~Grows(calls[n], j)
                      /\ Renames(calls[n]) => calls[n].index[j] = "retained"
    BY DEF LeavesSent
  <2>1. j \in Images /\ next[j] = "retained" /\ drop[j] = "retained"
    BY <1>1, <1>2 DEF Known
  <2>2. ~Deletes(calls[n], j)
    BY <2>1 DEF Removal
  <2> QED  BY <2>1, <2>2, <1>3, <1>4, <1>5
<1> QED
  BY <1>6, <1>7, <1>8, <1>9, <1>10 DEF Planned

\* A paste: what is released goes first, then the image comes, then its index.
LEMMA ImportIsPlan ==
  ASSUME NEW disk, NEW indexed, NEW sent, Known(atFile, disk, indexed, sent),
         NEW next \in AtIndex, ReleasedFrom(disk, next), NEW head, Removal(head, next),
         NEW i \in Images, i \notin indexed, i \notin sent, atFile[i] = "absent",
         NEW new, new = [DropReleased(next) EXCEPT ![i] = "draft"],
         NEW tail, tail = <<[do |-> "create", image |-> i], [do |-> "write", image |-> i],
                            [do |-> "temporary", index |-> new], [do |-> "rename", index |-> new]>>
  PROVE  head \o tail \in Seq(Calls) /\ Planned(head \o tail, atFile, disk, indexed, sent)
<1> DEFINE drop == DropReleased(next)
<1> DEFINE h == Len(head)
<1> DEFINE calls == head \o tail
<1>1. /\ drop \in AtIndex
      /\ \A j \in Images : /\ next[j] = "released" => drop[j] = "none"
                           /\ next[j] # "released" => drop[j] = next[j]
  BY DropIs
<1>2. /\ new \in AtIndex /\ new[i] = "draft"
      /\ \A j \in Images \ {i} : new[j] = drop[j]
  BY <1>1 DEF AtIndex, Retention
<1>3. \A j \in Images : next[j] = disk[j] \/ (disk[j] = "draft" /\ next[j] = "released")
  BY DEF ReleasedFrom
<1>4. disk[i] = "none" /\ next[i] = "none" /\ drop[i] = "none"
  BY <1>1, <1>3 DEF Known
<1>5. head \in Seq(Calls) /\ tail \in Seq(Calls) /\ Len(tail) = 4 /\ h \in Nat
  <2>1. head \in Seq(Calls)
    BY DEF Removal
  <2>2. tail \in Seq(Calls) /\ Len(tail) = 4
    BY <1>2 DEF Calls
  <2> QED  BY <2>1, <2>2
<1>6. /\ calls \in Seq(Calls) /\ Len(calls) = h + 4
      /\ \A n \in 1..h : calls[n] = head[n]
      /\ \A n \in 1..4 : calls[h + n] = tail[n]
  <2>1. head \in Seq(Calls)
    BY <1>5
  <2>2. tail \in Seq(Calls)
    BY <1>5
  <2>3. /\ calls \in Seq(Calls) /\ Len(calls) = Len(head) + Len(tail)
        /\ \A n \in 1..Len(head) : calls[n] = head[n]
        /\ \A n \in 1..Len(tail) : calls[Len(head) + n] = tail[n]
    <3> HIDE DEF calls
    <3>1. calls = head \o tail
      BY DEF calls
    <3> QED  BY <3>1, <2>1, <2>2, Joined
  <2> QED  BY <2>3, <1>5
<1>7. Planned(head, atFile, disk, indexed, sent)
  BY RemovalIsPlan
<1>8. /\ calls[h + 1].do = "create" /\ calls[h + 1].image = i
      /\ calls[h + 2].do = "write" /\ calls[h + 2].image = i
      /\ calls[h + 3].do = "temporary"
      /\ calls[h + 4].do = "rename" /\ calls[h + 4].index = new
  <2>1. /\ tail[1].do = "create" /\ tail[1].image = i /\ tail[2].do = "write" /\ tail[2].image = i
        /\ tail[3].do = "temporary" /\ tail[4].do = "rename" /\ tail[4].index = new
    OBVIOUS
  <2>2. 1 \in 1..4 /\ 2 \in 1..4 /\ 3 \in 1..4 /\ 4 \in 1..4
    OBVIOUS
  <2> QED  BY <2>1, <2>2, <1>6
<1>9. \A n \in 1..Len(calls) : n \in 1..h \/ n = h + 1 \/ n = h + 2 \/ n = h + 3 \/ n = h + 4
  <2> HIDE DEF calls, h
  <2> QED  BY <1>5, <1>6
<1> HIDE DEF calls, drop, h
<1>10. \A n \in 1..h : /\ \A j \in Images : ~Grows(calls[n], j)
                       /\ \A j \in Images : Spoils(calls[n], j) => Deletes(calls[n], j)
                       /\ \A j \in Images : Deletes(calls[n], j) => next[j] = "released"
                       /\ Renames(calls[n]) => calls[n].index \in {next, drop}
  <2> TAKE n \in 1..h
  <2>1. n \in 1..Len(head) /\ calls[n] = head[n]
    BY <1>6 DEF h
  <2>2. /\ head[n].do \in {"temporary", "rename", "unlink"}
        /\ Renames(head[n]) => head[n].index \in {next, drop}
        /\ \A j \in Images : Deletes(head[n], j) => next[j] = "released"
    BY <2>1 DEF Removal, drop
  <2> QED  BY <2>1, <2>2 DEF Grows, Spoils, Deletes
<1>11. \A n \in 1..h : \A m \in 1..(n - 1) : m \in 1..h /\ calls[m] = head[m] /\ calls[n] = head[n]
  BY <1>5, <1>6
<1>12. DeletesReleased(calls, disk)
  <2> SUFFICES ASSUME NEW n \in 1..Len(calls), NEW j \in Images, Deletes(calls[n], j)
               PROVE  /\ \A m \in 1..(n - 1) : Renames(calls[m]) => calls[m].index[j] = "released"
                      /\ disk[j] = "released" \/ \E m \in 1..(n - 1) : Renames(calls[m])
    BY DEF DeletesReleased
  <2>1. n \in 1..h /\ calls[n] = head[n]
    BY <1>6, <1>8, <1>9 DEF Deletes
  <2>2. /\ \A m \in 1..(n - 1) : Renames(head[m]) => head[m].index[j] = "released"
        /\ disk[j] = "released" \/ \E m \in 1..(n - 1) : Renames(head[m])
    BY <2>1, <1>7 DEF Planned, DeletesReleased, h
  <2>3. \A m \in 1..(n - 1) : calls[m] = head[m]
    BY <2>1, <1>11
  <2> QED  BY <2>2, <2>3
<1>13. WritesUnknown(calls, indexed)
  <2> SUFFICES ASSUME NEW n \in 1..Len(calls), NEW j \in Images, Grows(calls[n], j)
               PROVE  /\ j \notin indexed
                      /\ \A m \in 1..(n - 1) : Renames(calls[m]) => calls[m].index[j] = "none"
    BY DEF WritesUnknown
  <2>1. j = i /\ (n = h + 1 \/ n = h + 2)
    BY <1>8, <1>9, <1>10 DEF Grows
  <2>2. ASSUME NEW m \in 1..(n - 1), Renames(calls[m]) PROVE calls[m].index[j] = "none"
    <3>1. m \in 1..h \/ m = h + 1
      BY <2>1, <1>5
    <3>2. m # h + 1
      BY <1>8, <2>2 DEF Renames
    <3> QED  BY <3>1, <3>2, <2>1, <2>2, <1>4, <1>10
  <2> QED  BY <2>1, <2>2
<1>14. NamesWhole(calls, atFile)
  <2> SUFFICES ASSUME NEW n \in 1..Len(calls), NEW j \in Images, Renames(calls[n]),
                      calls[n].index[j] \in {"draft", "retained"}
               PROVE  \/ atFile[j] = "whole" /\ \A k \in 1..(n - 1) : ~Spoils(calls[k], j)
                      \/ \E m \in 1..(n - 1) :
                           Fills(calls[m], j) /\ \A k \in m..(n - 1) : ~Spoils(calls[k], j)
    BY DEF NamesWhole
  <2>1. CASE n \in 1..h
    <3>1. j # i
      BY <2>1, <1>4, <1>10
    <3>2. next[j] \in {"draft", "retained"} /\ disk[j] \in {"draft", "retained"}
      BY <2>1, <1>1, <1>3, <1>10 DEF drop
    <3>3. \A k \in 1..(n - 1) : ~Spoils(calls[k], j)
      BY <2>1, <3>2, <1>10, <1>11
    <3> QED  BY <3>2, <3>3 DEF Known
  <2>2. CASE n = h + 4 /\ j # i
    <3>1. drop[j] \in {"draft", "retained"}
      BY <2>2, <1>2, <1>8
    <3>2. next[j] \in {"draft", "retained"} /\ disk[j] \in {"draft", "retained"}
      BY <3>1, <1>1, <1>3 DEF drop
    <3>3. ASSUME NEW k \in 1..(n - 1) PROVE ~Spoils(calls[k], j)
      <4>1. k \in 1..h \/ k = h + 1 \/ k = h + 2 \/ k = h + 3
        BY <2>2, <1>5
      <4> QED  BY <4>1, <2>2, <3>2, <1>8, <1>10 DEF Spoils
    <3> QED  BY <3>2, <3>3 DEF Known
  <2>3. CASE n = h + 4 /\ j = i
    <3>1. h + 2 \in 1..(n - 1) /\ Fills(calls[h + 2], j)
      BY <2>3, <1>5, <1>8 DEF Fills
    <3>2. ASSUME NEW k \in (h + 2)..(n - 1) PROVE ~Spoils(calls[k], j)
      <4>1. k = h + 2 \/ k = h + 3
        BY <2>3, <1>5
      <4> QED  BY <4>1, <1>8 DEF Spoils
    <3> QED  BY <3>1, <3>2
  <2> QED  BY <2>1, <2>2, <2>3, <1>8, <1>9 DEF Renames
<1>15. ForgetsAbsent(calls, atFile, indexed)
  <2> SUFFICES ASSUME NEW n \in 1..Len(calls), NEW j \in Images, Renames(calls[n]),
                      calls[n].index[j] = "none",
                      j \in indexed \/ \E m \in 1..(n - 1) : Renames(calls[m])
                                                             /\ calls[m].index[j] # "none"
               PROVE  /\ atFile[j] = "absent" \/ \E m \in 1..(n - 1) : Deletes(calls[m], j)
                      /\ \A k \in 1..(n - 1) : ~Grows(calls[k], j)
    BY DEF ForgetsAbsent
  <2>1. CASE n \in 1..h
    <3>1. /\ calls[n] = head[n] /\ \A m \in 1..(n - 1) : calls[m] = head[m]
      BY <2>1, <1>6, <1>11
    <3>2. n \in 1..Len(head)
      BY <2>1 DEF h
    <3>3. /\ Renames(head[n]) /\ head[n].index[j] = "none"
          /\ j \in indexed \/ \E m \in 1..(n - 1) : Renames(head[m]) /\ head[m].index[j] # "none"
      BY <3>1
    <3>4. /\ atFile[j] = "absent" \/ \E m \in 1..(n - 1) : Deletes(head[m], j)
          /\ \A k \in 1..(n - 1) : ~Grows(head[k], j)
      BY <3>2, <3>3, <1>7 DEF Planned, ForgetsAbsent
    <3> QED  BY <3>1, <3>4
  <2>2. CASE n = h + 4
    <3>1. j # i
      BY <2>2, <1>2, <1>8
    <3>2. drop[j] = "none"
      BY <2>2, <3>1, <1>2, <1>8
    <3>3. \A k \in 1..(n - 1) : k \in 1..h \/ k = h + 1 \/ k = h + 2 \/ k = h + 3
      BY <2>2, <1>5
    <3>4. \A k \in 1..(n - 1) : ~Grows(calls[k], j)
      BY <3>1, <3>3, <1>8, <1>10 DEF Grows
    <3>5. CASE next[j] = "released"
      <4>1. \A m \in 1..h : m \in 1..(n - 1)
        BY <2>2, <1>5
      <4>2. atFile[j] = "absent" \/ \E m \in 1..h : Deletes(head[m], j)
        BY <3>5 DEF Removal, h
      <4> QED  BY <4>1, <4>2, <3>4, <1>6
    <3>6. CASE next[j] # "released"
      <4>1. next[j] = "none" /\ disk[j] = "none"
        BY <3>2, <3>6, <1>1, <1>3 DEF drop
      <4>2. j \in indexed
        <5>1. \A m \in 1..(n - 1) : Renames(calls[m]) => calls[m].index \in {next, drop}
          BY <3>3, <1>8, <1>10 DEF Renames
        <5> QED  BY <5>1, <4>1, <3>2
      <4> QED  BY <4>1, <4>2, <3>4 DEF Known
    <3> QED  BY <3>5, <3>6
  <2> QED  BY <2>1, <2>2, <1>8, <1>9 DEF Renames
<1>16. LeavesSent(calls, sent)
  <2> SUFFICES ASSUME NEW n \in 1..Len(calls), NEW j \in sent
               PROVE  /\ ~Spoils(calls[n], j) /\ ~Grows(calls[n], j)
                      /\ Renames(calls[n]) => calls[n].index[j] = "retained"
    BY DEF LeavesSent
  <2>1. j \in Images /\ j # i /\ next[j] = "retained" /\ drop[j] = "retained"
    BY <1>1, <1>3 DEF Known, drop
  <2>2. CASE n \in 1..h
    BY <2>1, <2>2, <1>10
  <2>3. CASE n \notin 1..h
    <3>1. new[j] = "retained"
      BY <2>1, <1>2
    <3>2. n = h + 1 \/ n = h + 2 \/ n = h + 3 \/ n = h + 4
      BY <2>3, <1>9
    <3>3. CASE n = h + 4
      BY <3>1, <3>3, <1>8 DEF Spoils, Grows
    <3>4. CASE n # h + 4
      BY <2>1, <3>2, <3>4, <1>8 DEF Spoils, Grows, Renames
    <3> QED  BY <3>3, <3>4
  <2> QED  BY <2>2, <2>3
<1>17. Planned(calls, atFile, disk, indexed, sent)
  BY <1>12, <1>13, <1>14, <1>15, <1>16 DEF Planned
<1> QED
  BY <1>6, <1>17 DEF calls

(***************************************************************************)
(* One call of a plan.                                                     *)
(***************************************************************************)
FileAfter(c, file) ==
  CASE c.do = "create" -> [file EXCEPT ![c.image] = "partial"]
    [] c.do = "write" -> [file EXCEPT ![c.image] = "whole"]
    [] c.do = "unlink" -> [file EXCEPT ![c.image] = "absent"]
    [] OTHER -> file
DiskAfter(c, disk) == IF Renames(c) THEN c.index ELSE disk
IndexedAfter(c, indexed) ==
  IF Renames(c) THEN indexed \cup {i \in Images : c.index[i] # "none"} ELSE indexed

Files == [Images -> {"absent", "partial", "whole"}]

LEMMA CallIs ==
  ASSUME NEW c \in Calls
  PROVE  /\ c.do \in {"create", "write", "unlink", "temporary", "rename"}
         /\ c.do \in {"create", "write", "unlink"} => c.image \in Images
         /\ c.do \in {"temporary", "rename"} => c.index \in AtIndex
  BY DEF Calls

LEMMA FileIs ==
  ASSUME NEW c \in Calls, NEW file \in Files
  PROVE  /\ FileAfter(c, file) \in Files
         /\ \A j \in Images :
              /\ c.do = "create" /\ c.image = j => FileAfter(c, file)[j] = "partial"
              /\ Fills(c, j) => FileAfter(c, file)[j] = "whole"
              /\ Deletes(c, j) => FileAfter(c, file)[j] = "absent"
              /\ ~Spoils(c, j) /\ ~Fills(c, j) => FileAfter(c, file)[j] = file[j]
              /\ ~Grows(c, j) /\ ~Deletes(c, j) => FileAfter(c, file)[j] = file[j]
<1>1. CASE c.do = "create"
  BY <1>1, CallIs DEF FileAfter, Files, Fills, Deletes, Spoils, Grows
<1>2. CASE c.do = "write"
  BY <1>2, CallIs DEF FileAfter, Files, Fills, Deletes, Spoils, Grows
<1>3. CASE c.do = "unlink"
  BY <1>3, CallIs DEF FileAfter, Files, Fills, Deletes, Spoils, Grows
<1>4. CASE c.do \in {"temporary", "rename"}
  BY <1>4 DEF FileAfter, Files, Fills, Deletes, Spoils, Grows
<1> QED
  BY <1>1, <1>2, <1>3, <1>4, CallIs

LEMMA TailIs ==
  ASSUME NEW D, NEW s \in Seq(D), s # <<>>
  PROVE  /\ Head(s) = s[1] /\ s[1] \in D /\ Tail(s) \in Seq(D) /\ Len(s) \in Nat /\ Len(s) > 0
         /\ Len(Tail(s)) = Len(s) - 1
         /\ \A n \in 1..Len(Tail(s)) : Tail(s)[n] = s[n + 1] /\ n + 1 \in 1..Len(s)
  OBVIOUS

\* A call of a plan leaves the index and the files as the plan began with them.
LEMMA FirstCall ==
  ASSUME NEW calls \in Seq(Calls), calls # <<>>, NEW file \in Files, NEW disk, NEW indexed,
         NEW sent,
         Known(file, disk, indexed, sent), Planned(calls, file, disk, indexed, sent),
         NEW c, c = calls[1]
  PROVE  Known(FileAfter(c, file), DiskAfter(c, disk), IndexedAfter(c, indexed), sent)
<1> DEFINE file2 == FileAfter(c, file)
<1> DEFINE disk2 == DiskAfter(c, disk)
<1> DEFINE indexed2 == IndexedAfter(c, indexed)
<1>1. 1 \in 1..Len(calls) /\ 1..(1 - 1) = {} /\ c \in Calls
  OBVIOUS
<1>2. /\ \A j \in Images :
           /\ c.do = "create" /\ c.image = j => file2[j] = "partial"
           /\ Fills(c, j) => file2[j] = "whole"
           /\ Deletes(c, j) => file2[j] = "absent"
           /\ ~Spoils(c, j) /\ ~Fills(c, j) => file2[j] = file[j]
           /\ ~Grows(c, j) /\ ~Deletes(c, j) => file2[j] = file[j]
  BY <1>1, FileIs
<1>3. \A j \in Images : Deletes(c, j) => disk[j] = "released"
  BY <1>1 DEF Planned, DeletesReleased
<1>4. \A j \in Images : Grows(c, j) => j \notin indexed
  BY <1>1 DEF Planned, WritesUnknown
<1>5. \A j \in Images : Renames(c) /\ c.index[j] \in {"draft", "retained"} => file[j] = "whole"
  BY <1>1 DEF Planned, NamesWhole
<1>6. \A j \in Images : Renames(c) /\ c.index[j] = "none" /\ j \in indexed => file[j] = "absent"
  BY <1>1 DEF Planned, ForgetsAbsent
<1>7. \A j \in sent : /\ ~Spoils(c, j) /\ ~Grows(c, j)
                      /\ Renames(c) => c.index[j] = "retained"
  BY <1>1 DEF Planned, LeavesSent
<1>8. \A j \in Images : /\ Fills(c, j) => Grows(c, j)
                        /\ Spoils(c, j) => Deletes(c, j) \/ Grows(c, j)
                        /\ Grows(c, j) \/ Deletes(c, j) => ~Renames(c)
  BY DEF Fills, Spoils, Deletes, Grows, Renames
<1> HIDE DEF file2
<1>9. CASE Renames(c)
  <2>1. disk2 = c.index /\ indexed2 = indexed \cup {i \in Images : c.index[i] # "none"}
    BY <1>9 DEF DiskAfter, IndexedAfter
  <2>2. disk2 \in AtIndex
    BY <1>1, <1>9, <2>1, CallIs DEF Renames
  <2>3. \A j \in Images : file2[j] = file[j]
    BY <1>2, <1>8, <1>9
  <2>4. \A j \in Images : /\ disk2[j] \in {"draft", "retained"} => file2[j] = "whole"
                          /\ disk2[j] # "none" => j \in indexed2
                          /\ j \in indexed2 /\ disk2[j] = "none" => file2[j] = "absent"
    BY <1>5, <1>6, <1>9, <2>1, <2>3
  <2>5. sent \subseteq Images /\ \A j \in sent : file2[j] = "whole" /\ disk2[j] = "retained"
    BY <1>7, <1>9, <2>1, <2>3 DEF Known
  <2> HIDE DEF disk2, indexed2
  <2>6. Known(file2, disk2, indexed2, sent)
    BY <2>2, <2>4, <2>5 DEF Known
  <2> QED  BY <2>6 DEF file2, disk2, indexed2
<1>10. CASE ~Renames(c)
  <2>1. disk2 = disk /\ indexed2 = indexed
    BY <1>10 DEF DiskAfter, IndexedAfter
  <2>2. \A j \in Images : /\ disk[j] \in {"draft", "retained"} => file2[j] = "whole"
                          /\ j \in indexed /\ disk[j] = "none" => file2[j] = "absent"
    BY <1>2, <1>3, <1>4, <1>8 DEF Known
  <2>3. \A j \in sent : file2[j] = "whole"
    BY <1>2, <1>7, <1>8 DEF Known
  <2>4. Known(file2, disk, indexed, sent)
    BY <2>2, <2>3 DEF Known
  <2> HIDE DEF disk2, indexed2
  <2> QED  BY <2>1, <2>4 DEF file2, disk2, indexed2
<1> QED
  BY <1>9, <1>10

\* What is left of a plan is a plan.
LEMMA RestIsPlan ==
  ASSUME NEW calls \in Seq(Calls), calls # <<>>, NEW file \in Files, NEW disk, NEW indexed,
         NEW sent \in SUBSET Images, Planned(calls, file, disk, indexed, sent),
         NEW c, c = calls[1]
  PROVE  Planned(Tail(calls), FileAfter(c, file), DiskAfter(c, disk), IndexedAfter(c, indexed),
                 sent)
<1> DEFINE rest == Tail(calls)
<1> DEFINE file2 == FileAfter(c, file)
<1> DEFINE disk2 == DiskAfter(c, disk)
<1> DEFINE indexed2 == IndexedAfter(c, indexed)
<1>1. /\ Len(calls) \in Nat /\ Len(rest) = Len(calls) - 1 /\ c \in Calls
      /\ \A n \in 1..Len(rest) : rest[n] = calls[n + 1] /\ n + 1 \in 1..Len(calls)
  BY TailIs
<1> HIDE DEF rest
\* What came before a call of the plan, but for the first, comes before it in the rest.
<1>2. ASSUME NEW n \in 1..Len(rest)
      PROVE  /\ rest[n] = calls[n + 1] /\ n + 1 \in 1..Len(calls)
             /\ \A m \in 1..(n - 1) : rest[m] = calls[m + 1] /\ m + 1 \in 1..((n + 1) - 1)
             /\ 1 \in 1..((n + 1) - 1)
             /\ \A m \in 1..((n + 1) - 1) : m # 1 => m - 1 \in 1..(n - 1) /\ rest[m - 1] = calls[m]
             /\ \A m \in 1..((n + 1) - 1) : \A k \in (m - 1)..(n - 1) : k + 1 \in m..((n + 1) - 1)
  <2>1. n \in Nat /\ n >= 1 /\ n <= Len(calls) - 1
    BY <1>1
  <2>2. \A m \in 1..(n - 1) : m \in 1..Len(rest) /\ m + 1 \in 1..((n + 1) - 1)
    BY <2>1, <1>1
  <2>3. \A m \in 1..((n + 1) - 1) : m # 1 => m - 1 \in 1..(n - 1) /\ (m - 1) + 1 = m
    BY <2>1
  <2>4. \A m \in 1..((n + 1) - 1) : \A k \in (m - 1)..(n - 1) : k + 1 \in m..((n + 1) - 1)
    BY <2>1
  <2>5. 1 \in 1..((n + 1) - 1)
    BY <2>1
  <2> QED  BY <1>1, <2>2, <2>3, <2>4, <2>5
<1>3. \A j \in Images :
        /\ Fills(c, j) => file2[j] = "whole"
        /\ Deletes(c, j) => file2[j] = "absent"
        /\ ~Spoils(c, j) /\ ~Fills(c, j) => file2[j] = file[j]
        /\ ~Grows(c, j) /\ ~Deletes(c, j) => file2[j] = file[j]
  BY <1>1, FileIs
<1> HIDE DEF file2
<1>4. DeletesReleased(rest, disk2)
  <2> SUFFICES ASSUME NEW n \in 1..Len(rest), NEW j \in Images, Deletes(rest[n], j)
               PROVE  /\ \A m \in 1..(n - 1) : Renames(rest[m]) => rest[m].index[j] = "released"
                      /\ disk2[j] = "released" \/ \E m \in 1..(n - 1) : Renames(rest[m])
    BY DEF DeletesReleased
  <2>1. /\ \A m \in 1..((n + 1) - 1) : Renames(calls[m]) => calls[m].index[j] = "released"
        /\ disk[j] = "released" \/ \E m \in 1..((n + 1) - 1) : Renames(calls[m])
    BY <1>2 DEF Planned, DeletesReleased
  <2>2. ASSUME NEW m \in 1..(n - 1), Renames(rest[m]) PROVE rest[m].index[j] = "released"
    <3>1. rest[m] = calls[m + 1] /\ m + 1 \in 1..((n + 1) - 1)
      BY <1>2
    <3>2. Renames(calls[m + 1])
      BY <3>1, <2>2
    <3> QED  BY <3>1, <3>2, <2>1
  <2>3. CASE Renames(c)
    BY <1>2, <2>1, <2>2, <2>3 DEF DiskAfter
  <2>4. CASE ~Renames(c)
    BY <1>2, <2>1, <2>2, <2>4 DEF DiskAfter
  <2> QED  BY <2>3, <2>4
<1>5. WritesUnknown(rest, indexed2)
  <2> SUFFICES ASSUME NEW n \in 1..Len(rest), NEW j \in Images, Grows(rest[n], j)
               PROVE  /\ j \notin indexed2
                      /\ \A m \in 1..(n - 1) : Renames(rest[m]) => rest[m].index[j] = "none"
    BY DEF WritesUnknown
  <2>1. /\ j \notin indexed
        /\ \A m \in 1..((n + 1) - 1) : Renames(calls[m]) => calls[m].index[j] = "none"
    BY <1>2 DEF Planned, WritesUnknown
  <2>2. ASSUME NEW m \in 1..(n - 1), Renames(rest[m]) PROVE rest[m].index[j] = "none"
    <3>1. rest[m] = calls[m + 1] /\ m + 1 \in 1..((n + 1) - 1)
      BY <1>2
    <3>2. Renames(calls[m + 1])
      BY <3>1, <2>2
    <3> QED  BY <3>1, <3>2, <2>1
  <2>3. Renames(c) => c.index[j] = "none"
    BY <1>2, <2>1
  <2> QED  BY <2>1, <2>2, <2>3 DEF IndexedAfter
<1>6. NamesWhole(rest, file2)
  <2> SUFFICES ASSUME NEW n \in 1..Len(rest), NEW j \in Images, Renames(rest[n]),
                      rest[n].index[j] \in {"draft", "retained"}
               PROVE  \/ file2[j] = "whole" /\ \A k \in 1..(n - 1) : ~Spoils(rest[k], j)
                      \/ \E m \in 1..(n - 1) :
                           Fills(rest[m], j) /\ \A k \in m..(n - 1) : ~Spoils(rest[k], j)
    BY DEF NamesWhole
  <2>1. \/ file[j] = "whole" /\ \A k \in 1..((n + 1) - 1) : ~Spoils(calls[k], j)
        \/ \E m \in 1..((n + 1) - 1) :
             Fills(calls[m], j) /\ \A k \in m..((n + 1) - 1) : ~Spoils(calls[k], j)
    BY <1>2 DEF Planned, NamesWhole
  <2>2. CASE file[j] = "whole" /\ \A k \in 1..((n + 1) - 1) : ~Spoils(calls[k], j)
    <3>1. ~Spoils(c, j) /\ \A k \in 1..(n - 1) : ~Spoils(rest[k], j)
      BY <1>2, <2>2
    <3> QED  BY <3>1, <2>2, <1>3
  <2>3. ASSUME NEW m \in 1..((n + 1) - 1), Fills(calls[m], j),
               \A k \in m..((n + 1) - 1) : ~Spoils(calls[k], j)
        PROVE  \/ file2[j] = "whole" /\ \A k \in 1..(n - 1) : ~Spoils(rest[k], j)
               \/ \E l \in 1..(n - 1) :
                    Fills(rest[l], j) /\ \A k \in l..(n - 1) : ~Spoils(rest[k], j)
    <3>1. CASE m = 1
      <4>1. file2[j] = "whole"
        BY <3>1, <2>3, <1>3
      <4>2. \A k \in 1..(n - 1) : ~Spoils(rest[k], j)
        BY <3>1, <2>3, <1>2
      <4> QED  BY <4>1, <4>2
    <3>2. CASE m # 1
      <4>1. m - 1 \in 1..(n - 1) /\ rest[m - 1] = calls[m]
        BY <3>2, <1>2
      <4>2. \A k \in (m - 1)..(n - 1) : k \in 1..(n - 1)
        BY <4>1
      <4>3. \A k \in (m - 1)..(n - 1) : ~Spoils(rest[k], j)
        BY <4>2, <2>3, <1>2
      <4> QED  BY <4>1, <4>3, <2>3
    <3> QED  BY <3>1, <3>2
  <2> QED  BY <2>1, <2>2, <2>3
<1>7. ForgetsAbsent(rest, file2, indexed2)
  <2> SUFFICES ASSUME NEW n \in 1..Len(rest), NEW j \in Images, Renames(rest[n]),
                      rest[n].index[j] = "none",
                      j \in indexed2 \/ \E m \in 1..(n - 1) : Renames(rest[m])
                                                              /\ rest[m].index[j] # "none"
               PROVE  /\ file2[j] = "absent" \/ \E m \in 1..(n - 1) : Deletes(rest[m], j)
                      /\ \A k \in 1..(n - 1) : ~Grows(rest[k], j)
    BY DEF ForgetsAbsent
  <2>1. j \in indexed \/ \E m \in 1..((n + 1) - 1) : Renames(calls[m]) /\ calls[m].index[j] # "none"
    <3>1. CASE j \in indexed2
      <4>1. j \in indexed \/ (Renames(c) /\ c.index[j] # "none")
        BY <3>1 DEF IndexedAfter
      <4> QED  BY <4>1, <1>2
    <3>2. CASE \E m \in 1..(n - 1) : Renames(rest[m]) /\ rest[m].index[j] # "none"
      <4>1. PICK m \in 1..(n - 1) : Renames(rest[m]) /\ rest[m].index[j] # "none"
        BY <3>2
      <4>2. rest[m] = calls[m + 1] /\ m + 1 \in 1..((n + 1) - 1)
        BY <1>2
      <4>3. Renames(calls[m + 1]) /\ calls[m + 1].index[j] # "none"
        BY <4>1, <4>2
      <4> QED  BY <4>2, <4>3
    <3> QED  BY <3>1, <3>2
  <2>2. /\ file[j] = "absent" \/ \E m \in 1..((n + 1) - 1) : Deletes(calls[m], j)
        /\ \A k \in 1..((n + 1) - 1) : ~Grows(calls[k], j)
    BY <2>1, <1>2 DEF Planned, ForgetsAbsent
  <2>3. ~Grows(c, j) /\ \A k \in 1..(n - 1) : ~Grows(rest[k], j)
    BY <2>2, <1>2
  <2>4. CASE Deletes(c, j)
    BY <2>3, <2>4, <1>3
  <2>5. CASE ~Deletes(c, j)
    <3>1. file2[j] = file[j]
      BY <2>3, <2>5, <1>3
    <3> QED  BY <3>1, <2>2, <2>3, <2>5, <1>2
  <2> QED  BY <2>4, <2>5
<1>8. LeavesSent(rest, sent)
  <2>1. LeavesSent(calls, sent)
    BY DEF Planned
  <2> SUFFICES ASSUME NEW n \in 1..Len(rest), NEW j \in sent
               PROVE  /\ ~Spoils(rest[n], j) /\ ~Grows(rest[n], j)
                      /\ Renames(rest[n]) => rest[n].index[j] = "retained"
    BY DEF LeavesSent
  <2>2. n + 1 \in 1..Len(calls) /\ rest[n] = calls[n + 1]
    BY <1>2
  <2>3. /\ ~Spoils(calls[n + 1], j) /\ ~Grows(calls[n + 1], j)
        /\ Renames(calls[n + 1]) => calls[n + 1].index[j] = "retained"
    BY <2>1, <2>2 DEF LeavesSent
  <2> QED  BY <2>2, <2>3
<1> QED
  BY <1>4, <1>5, <1>6, <1>7, <1>8 DEF Planned, rest, file2

(***************************************************************************)
(* The invariant of the store.                                             *)
(***************************************************************************)
AttachmentsTyped ==
  AtTypeOK /\ atOp \in Steps /\ (atOp.kind \notin {"idle", "open"} => atOp.image \in Images)

StoreInv ==
  /\ atStore = "open" => atMem = atDisk
  /\ atOp.kind # "idle" => atStore = "open"
  /\ atOp.kind = "idle" => atOp = AtIdle

AttachmentsInv ==
  /\ AttachmentsTyped /\ StoreInv
  /\ Known(atFile, atDisk, atIndexed, atSent)
  /\ Planned(atOp.calls, atFile, atDisk, atIndexed, atSent)
  /\ Marks

LEMMA IdleIs ==
  /\ AtIdle \in Steps /\ AtIdle.kind = "idle" /\ AtIdle.calls = <<>>
  BY DEF AtIdle, Steps

LEMMA ExpiredIs ==
  ASSUME NEW index \in AtIndex
  PROVE  Expired(index) \in AtIndex /\ ReleasedFrom(index, Expired(index))
  BY DEF Expired, AtIndex, Retention, ReleasedFrom

\* An operation begins with a plan.
LEMMA Begins ==
  ASSUME AttachmentsInv, NEW kind \in {"open", "import", "release"}, NEW i \in Images \cup {"none"},
         kind # "open" => i \in Images,
         NEW calls \in Seq(Calls), Starts(kind, i, calls),
         atStore' = "open", atMem' \in AtIndex, atMem' = atDisk',
         atFile' = atFile, atDisk' = atDisk, atLitter' = atLitter, atFaults' = atFaults,
         atSent' = atSent, atOld' \subseteq Images, atGranted' \subseteq Images,
         atIndexed' \subseteq Images,
         Known(atFile, atDisk, atIndexed', atSent),
         Planned(calls, atFile, atDisk, atIndexed', atSent)
  PROVE  AttachmentsInv'
<1>1. atOp' = [kind |-> kind, image |-> i, calls |-> calls]
  BY DEF Starts
<1>2. atOp' \in Steps /\ atOp'.kind = kind /\ atOp'.image = i /\ atOp'.calls = calls
  BY <1>1 DEF Steps
<1>3. \A n \in DOMAIN atOp'.calls : atOp'.calls[n] \in Calls
  BY <1>2
<1>4. AttachmentsTyped'
  BY <1>2, <1>3 DEF AttachmentsInv, AttachmentsTyped, AtTypeOK
<1>5. StoreInv'
  BY <1>2 DEF StoreInv
<1>6. Marks'
  BY <1>2 DEF Marks
<1>7. Known(atFile, atDisk, atIndexed, atSent)'
  OBVIOUS
<1>8. Planned(atOp.calls, atFile, atDisk, atIndexed, atSent)'
  BY <1>2
<1> QED
  BY <1>4, <1>5, <1>6, <1>7, <1>8 DEF AttachmentsInv

LEMMA RemovalBegins ==
  ASSUME AttachmentsInv, NEW next \in AtIndex, ReleasedFrom(atDisk, next)
  PROVE  /\ RemoveReleased(next) \in Seq(Calls)
         /\ Planned(RemoveReleased(next), atFile, atDisk, atIndexed, atSent)
<1>1. Removal(RemoveReleased(next), next)
  BY RemoveIsRemoval
<1>2. RemoveReleased(next) \in Seq(Calls)
  BY <1>1 DEF Removal
<1> QED
  BY <1>1, <1>2, RemovalIsPlan DEF AttachmentsInv

LEMMA Opens ==
  ASSUME AttachmentsInv, OpenStore
  PROVE  AttachmentsInv'
<1>1. atDisk \in AtIndex
  BY DEF AttachmentsInv, Known
<1>2. Expired(atDisk) \in AtIndex /\ ReleasedFrom(atDisk, Expired(atDisk))
  BY <1>1, ExpiredIs
<1> DEFINE calls == RemoveReleased(Expired(atDisk))
<1>3. calls \in Seq(Calls) /\ Planned(calls, atFile, atDisk, atIndexed, atSent)
  BY <1>2, RemovalBegins
<1>4. Starts("open", "none", calls)
  BY DEF OpenStore
<1> HIDE DEF calls
<1> QED
  BY <1>1, <1>3, <1>4, Begins
  DEF OpenStore, AttachmentsInv, AttachmentsTyped, AtTypeOK

LEMMA Releases ==
  ASSUME AttachmentsInv, NEW i \in Images, Starts("release", i, Releasing(i)), atStore = "open",
         atGranted' \subseteq Images,
         UNCHANGED <<atFile, atDisk, atLitter, atMem, atStore, atOld, atFaults, atSent, atIndexed>>
  PROVE  AttachmentsInv'
<1> DEFINE next == [atMem EXCEPT ![i] = IF @ = "draft" THEN "released" ELSE @]
<1>1. atMem = atDisk /\ atDisk \in AtIndex
  BY DEF AttachmentsInv, StoreInv, Known
<1>2. next \in AtIndex /\ ReleasedFrom(atDisk, next)
  BY <1>1 DEF AtIndex, Retention, ReleasedFrom
<1> HIDE DEF next
<1> DEFINE calls == RemoveReleased(next)
<1>3. calls \in Seq(Calls) /\ Planned(calls, atFile, atDisk, atIndexed, atSent)
  BY <1>2, RemovalBegins
<1>4. Starts("release", i, calls)
  BY DEF Releasing, next
<1> HIDE DEF calls
<1> QED
  BY <1>1, <1>3, <1>4, Begins DEF AttachmentsInv, AttachmentsTyped, AtTypeOK

LEMMA FourIs ==
  ASSUME NEW a, NEW b, NEW c, NEW d
  PROVE  <<a, b>> \o <<c, d>> = <<a, b, c, d>>
<1> DEFINE D == {a, b, c, d}
<1> DEFINE s == <<a, b>> \o <<c, d>>
<1> DEFINE t == <<a, b, c, d>>
<1>1. <<a, b>> \in Seq(D) /\ <<c, d>> \in Seq(D) /\ t \in Seq(D) /\ Len(t) = 4
  OBVIOUS
<1>2. /\ s \in Seq(D) /\ Len(s) = 4
      /\ s[1] = a /\ s[2] = b /\ s[3] = c /\ s[4] = d
  BY <1>1
<1>3. t[1] = a /\ t[2] = b /\ t[3] = c /\ t[4] = d
  OBVIOUS
<1>4. \A n \in 1..Len(s) : s[n] = t[n]
  <2>1. \A n \in 1..4 : n = 1 \/ n = 2 \/ n = 3 \/ n = 4
    OBVIOUS
  <2> HIDE DEF s, t
  <2> QED  BY <2>1, <1>2, <1>3
<1> HIDE DEF s, t, D
<1>5. s = t
  BY <1>1, <1>2, <1>4, SeqEqual
<1> QED
  BY <1>5 DEF s, t

LEMMA Pastes ==
  ASSUME AttachmentsInv, NEW i \in Images, Paste(i)
  PROVE  AttachmentsInv'
<1> DEFINE next == Expired(atMem)
<1> DEFINE head == RemoveReleased(next)
<1> DEFINE new == [DropReleased(next) EXCEPT ![i] = "draft"]
<1> DEFINE tail == <<[do |-> "create", image |-> i], [do |-> "write", image |-> i],
                     [do |-> "temporary", index |-> new], [do |-> "rename", index |-> new]>>
<1>1. atMem = atDisk /\ atDisk \in AtIndex /\ atDisk[i] = "none" /\ i \notin atSent
      /\ atFile[i] = "absent" /\ atStore = "open" /\ atIndexed' = atIndexed \ {i}
  BY DEF AttachmentsInv, StoreInv, Known, Paste, Ready
<1>2. next \in AtIndex /\ ReleasedFrom(atDisk, next)
  BY <1>1, ExpiredIs
<1>3. Removal(head, next)
  <2> HIDE DEF next
  <2> QED  BY <1>2, RemoveIsRemoval
<1>4. head \in Seq(Calls)
  BY <1>3 DEF Removal
<1>5. Known(atFile, atDisk, atIndexed', atSent)
  BY <1>1 DEF AttachmentsInv, Known
<1>6. Importing(i) = head \/ Importing(i) = head \o tail
  <2>1. <<[do |-> "create", image |-> i], [do |-> "write", image |-> i]>> \o Persist(new) = tail
    BY FourIs DEF Persist
  <2>2. head \o <<>> = head
    <3> HIDE DEF head
    <3> QED  BY <1>4
  <2>3. Importing(i) = head \o tail \/ Importing(i) = head \o <<>>
    <3> HIDE DEF tail, head
    <3> QED  BY <2>1 DEF Importing, head
  <2> QED  BY <2>2, <2>3
<1> HIDE DEF next, head
<1>7. Planned(head, atFile, atDisk, atIndexed', atSent)
  BY <1>2, <1>3, <1>5, RemovalIsPlan
<1>8. head \o tail \in Seq(Calls) /\ Planned(head \o tail, atFile, atDisk, atIndexed', atSent)
  <2>1. i \notin atIndexed'
    BY <1>1
  <2> HIDE DEF new
  <2>2. new = [DropReleased(next) EXCEPT ![i] = "draft"]
    BY DEF new
  <2> HIDE DEF tail
  <2>3. tail = <<[do |-> "create", image |-> i], [do |-> "write", image |-> i],
                 [do |-> "temporary", index |-> new], [do |-> "rename", index |-> new]>>
    BY DEF tail
  <2> QED  BY <1>1, <1>2, <1>3, <1>5, <2>1, <2>2, <2>3, ImportIsPlan
<1> HIDE DEF tail, new
<1>9. PICK calls : calls = Importing(i)
  OBVIOUS
<1>10. calls \in Seq(Calls) /\ Planned(calls, atFile, atDisk, atIndexed', atSent)
  BY <1>4, <1>6, <1>7, <1>8, <1>9
<1>11. Starts("import", i, calls)
  BY <1>9 DEF Paste
<1> QED
  BY <1>1, <1>5, <1>10, <1>11, Begins
  DEF Paste, AttachmentsInv, AttachmentsTyped, AtTypeOK

\* The mark of a message.
LEMMA Retains ==
  ASSUME AttachmentsInv, NEW i \in Images, Retain(i)
  PROVE  AttachmentsInv'
<1> DEFINE next == [atMem EXCEPT ![i] = "retained"]
<1>1. /\ atMem = atDisk /\ atDisk \in AtIndex /\ atStore = "open" /\ atStore' = "open"
      /\ atDisk[i] \in {"draft", "retained"} /\ atFile[i] = "whole"
      /\ UNCHANGED <<atFile, atDisk, atLitter, atMem, atStore, atOld, atGranted, atFaults, atSent,
                     atIndexed>>
  BY DEF AttachmentsInv, StoreInv, Known, Retain, Ready
<1>2. next \in AtIndex /\ next[i] = "retained" /\ \A j \in Images \ {i} : next[j] = atDisk[j]
  BY <1>1 DEF AtIndex, Retention
<1>3. PICK calls : calls = Retaining(i)
  OBVIOUS
<1>4. atOp' = [kind |-> "retain", image |-> i, calls |-> calls]
  BY <1>3 DEF Retain, Starts
<1>5. \/ calls = <<>> /\ atDisk[i] = "retained"
      \/ calls = <<[do |-> "temporary", index |-> next], [do |-> "rename", index |-> next]>>
  BY <1>1, <1>3 DEF Retaining, Persist
<1> HIDE DEF next
<1>6. \/ calls = <<>> /\ atDisk[i] = "retained" /\ Len(calls) = 0
      \/ /\ Len(calls) = 2 /\ calls[1].do = "temporary" /\ calls[2].do = "rename"
         /\ calls[2].index = next
  BY <1>5
<1>7. calls \in Seq(Calls)
  <2>1. /\ [do |-> "temporary", index |-> next] \in Calls
        /\ [do |-> "rename", index |-> next] \in Calls
    BY <1>2 DEF Calls
  <2> DEFINE temporary == [do |-> "temporary", index |-> next]
  <2> DEFINE rename == [do |-> "rename", index |-> next]
  <2>2. calls = <<>> \/ calls = <<temporary, rename>>
    BY <1>5
  <2> HIDE DEF temporary, rename
  <2>3. temporary \in Calls /\ rename \in Calls
    BY <2>1 DEF temporary, rename
  <2>4. <<temporary, rename>> \in Seq(Calls)
    BY <2>3
  <2>5. <<>> \in Seq(Calls)
    OBVIOUS
  <2> QED  BY <2>2, <2>4, <2>5
<1>8. \A n \in 1..Len(calls) : /\ calls[n].do \in {"temporary", "rename"}
                               /\ Renames(calls[n]) => n = 2 /\ calls[n].index = next
  <2>1. CASE Len(calls) = 0
    BY <2>1
  <2>2. CASE Len(calls) = 2
    <3>1. \A n \in 1..Len(calls) : n = 1 \/ n = 2
      BY <2>2
    <3> QED  BY <3>1, <2>2, <1>6 DEF Renames
  <2> QED  BY <2>1, <2>2, <1>6
<1>9. \A n \in 1..Len(calls) : \A j \in Images :
        ~Spoils(calls[n], j) /\ ~Grows(calls[n], j) /\ ~Deletes(calls[n], j)
  BY <1>8 DEF Spoils, Grows, Deletes
<1>10. \A n \in 1..Len(calls) : \A m \in 1..(n - 1) : m \in 1..Len(calls) /\ ~Renames(calls[m])
  <2> TAKE n \in 1..Len(calls)
  <2> TAKE m \in 1..(n - 1)
  <2>1. m \in 1..Len(calls) /\ m < Len(calls) /\ m # 2
    <3>1. Len(calls) \in {0, 2}
      BY <1>6
    <3> QED  BY <3>1
  <2> QED  BY <2>1, <1>8
<1>11. DeletesReleased(calls, atDisk) /\ WritesUnknown(calls, atIndexed)
  BY <1>9 DEF DeletesReleased, WritesUnknown
<1>12. NamesWhole(calls, atFile)
  <2> SUFFICES ASSUME NEW n \in 1..Len(calls), NEW j \in Images, Renames(calls[n]),
                      calls[n].index[j] \in {"draft", "retained"}
               PROVE  atFile[j] = "whole" /\ \A k \in 1..(n - 1) : ~Spoils(calls[k], j)
    BY DEF NamesWhole
  <2>1. j = i \/ atDisk[j] \in {"draft", "retained"}
    BY <1>2, <1>8
  <2>2. atFile[j] = "whole"
    BY <2>1, <1>1 DEF AttachmentsInv, Known
  <2> QED  BY <2>2, <1>9, <1>10
<1>13. ForgetsAbsent(calls, atFile, atIndexed)
  <2> SUFFICES ASSUME NEW n \in 1..Len(calls), NEW j \in Images, Renames(calls[n]),
                      calls[n].index[j] = "none",
                      j \in atIndexed \/ \E m \in 1..(n - 1) : Renames(calls[m])
                                                               /\ calls[m].index[j] # "none"
               PROVE  atFile[j] = "absent" /\ \A k \in 1..(n - 1) : ~Grows(calls[k], j)
    BY DEF ForgetsAbsent
  <2>1. j \in atIndexed /\ atDisk[j] = "none"
    BY <1>2, <1>8, <1>10
  <2>2. atFile[j] = "absent"
    BY <2>1 DEF AttachmentsInv, Known
  <2> QED  BY <2>2, <1>9, <1>10
<1>14. LeavesSent(calls, atSent)
  <2>1. \A j \in atSent : j \in Images /\ next[j] = "retained"
    BY <1>2 DEF AttachmentsInv, Known
  <2> QED  BY <2>1, <1>8, <1>9 DEF LeavesSent
<1>15. Planned(calls, atFile, atDisk, atIndexed, atSent)
  BY <1>11, <1>12, <1>13, <1>14 DEF Planned
<1>16. atOp' \in Steps /\ atOp'.kind = "retain" /\ atOp'.image = i /\ atOp'.calls = calls
  BY <1>4, <1>7 DEF Steps
<1>17. Marks'
  <2>1. /\ \A n \in 1..Len(calls) :
             /\ ~Spoils(calls[n], i)
             /\ Renames(calls[n]) => calls[n].index[i] = "retained"
        /\ atDisk[i] = "retained" \/ (Len(calls) > 0 /\ Renames(calls[Len(calls)]))
    BY <1>2, <1>6, <1>8, <1>9 DEF Renames
  <2> QED  BY <2>1, <1>1, <1>16 DEF Marks
<1>18. \A n \in DOMAIN atOp'.calls : atOp'.calls[n] \in Calls
  BY <1>7, <1>16
<1>19. AttachmentsTyped'
  BY <1>1, <1>16, <1>18 DEF AttachmentsInv, AttachmentsTyped, AtTypeOK
<1>20. StoreInv'
  BY <1>1, <1>16 DEF StoreInv
<1>21. Known(atFile, atDisk, atIndexed, atSent)'
  BY <1>1 DEF AttachmentsInv
<1>22. Planned(atOp.calls, atFile, atDisk, atIndexed, atSent)'
  BY <1>1, <1>15, <1>16
<1> QED
  BY <1>17, <1>19, <1>20, <1>21, <1>22 DEF AttachmentsInv

\* An operation is over, or was broken off.
LEMMA PlanStops ==
  ASSUME AttachmentsInv, atOp' = AtIdle, AtTypeOK',
         atStore' = "open" => atMem' = atDisk',
         Known(atFile', atDisk', atIndexed', atSent')
  PROVE  AttachmentsInv'
<1>1. atOp' \in Steps /\ atOp'.kind = "idle" /\ atOp'.calls = <<>>
  BY IdleIs
<1>2. Planned(<<>>, atFile', atDisk', atIndexed', atSent')
  BY NothingIsPlan
<1>3. Planned(atOp.calls, atFile, atDisk, atIndexed, atSent)'
  BY <1>1, <1>2
<1>4. AttachmentsTyped' /\ StoreInv' /\ Marks'
  BY <1>1 DEF AttachmentsTyped, StoreInv, Marks
<1> QED
  BY <1>3, <1>4 DEF AttachmentsInv

LEMMA IdleTyped ==
  ASSUME atOp' = AtIdle
  PROVE  /\ atOp'.kind \in {"idle", "open", "import", "release", "retain"}
         /\ \A n \in DOMAIN atOp'.calls : atOp'.calls[n] \in Calls
<1>1. atOp'.kind = "idle" /\ atOp'.calls = <<>>
  BY IdleIs
<1>2. DOMAIN <<>> = {}
  OBVIOUS
<1> QED
  BY <1>1, <1>2

LEMMA CallReturnsInv ==
  ASSUME AttachmentsInv, CallReturns
  PROVE  AttachmentsInv'
<1> DEFINE c == Head(atOp.calls)
<1> DEFINE rest == Tail(atOp.calls)
<1>1. /\ atOp \in Steps /\ atOp.calls \in Seq(Calls) /\ atOp.calls # <<>>
      /\ atFile \in Files /\ atDisk \in AtIndex /\ atMem \in AtIndex
      /\ atSent \in SUBSET Images /\ atIndexed \subseteq Images
  BY DEF AttachmentsInv, AttachmentsTyped, AtTypeOK, Steps, Files, CallReturns
<1>2. /\ c = atOp.calls[1] /\ c \in Calls /\ rest \in Seq(Calls)
      /\ Len(rest) = Len(atOp.calls) - 1 /\ Len(atOp.calls) \in Nat /\ Len(atOp.calls) > 0
      /\ \A n \in 1..Len(rest) : rest[n] = atOp.calls[n + 1] /\ n + 1 \in 1..Len(atOp.calls)
  BY <1>1, TailIs
<1>3. /\ atOp' = [atOp EXCEPT !.calls = rest]
      /\ UNCHANGED <<atLitter, atStore, atOld, atGranted, atFaults, atSent>>
  BY DEF CallReturns
<1>4. Makes(c)
  BY DEF CallReturns
<1> HIDE DEF c, rest
<1>5. /\ atOp' \in Steps /\ atOp'.calls = rest /\ atOp'.kind = atOp.kind /\ atOp'.image = atOp.image
  BY <1>1, <1>2, <1>3 DEF Steps
<1>6. atFile' = FileAfter(c, atFile)
  BY <1>4 DEF Makes, FileAfter
<1>7. atDisk' = DiskAfter(c, atDisk) /\ atIndexed' = IndexedAfter(c, atIndexed)
  BY <1>4 DEF Makes, DiskAfter, IndexedAfter, Renames
<1>8. atMem' = IF Renames(c) THEN atDisk' ELSE atMem
  BY <1>4 DEF Makes, Renames
<1>9. atSent' = atSent
  BY <1>3
<1>10. Known(atFile, atDisk, atIndexed, atSent)'
  BY <1>1, <1>2, <1>6, <1>7, <1>9, FirstCall DEF AttachmentsInv
<1>11. Planned(rest, atFile', atDisk', atIndexed', atSent')
  BY <1>1, <1>2, <1>6, <1>7, <1>9, RestIsPlan DEF AttachmentsInv, rest
<1>12. Planned(atOp.calls, atFile, atDisk, atIndexed, atSent)'
  BY <1>5, <1>11
<1>13. atFile' \in Files /\ atDisk' \in AtIndex /\ atMem' \in AtIndex /\ atIndexed' \subseteq Images
  <2>1. atFile' \in Files
    BY <1>1, <1>2, <1>6, FileIs
  <2>2. atDisk' \in AtIndex
    BY <1>10 DEF Known
  <2>3. atIndexed' \subseteq Images
    BY <1>1, <1>7 DEF IndexedAfter
  <2> QED  BY <2>1, <2>2, <2>3, <1>1, <1>8
<1>14. \A n \in DOMAIN atOp'.calls : atOp'.calls[n] \in Calls
  BY <1>2, <1>5
<1>15. AttachmentsTyped'
  BY <1>3, <1>5, <1>9, <1>13, <1>14 DEF AttachmentsInv, AttachmentsTyped, AtTypeOK, Files
<1>16. StoreInv'
  <2>1. atStore' = atStore /\ atOp.kind # "idle"
    <3>1. atOp # AtIdle
      BY <1>1, IdleIs
    <3> QED  BY <3>1, <1>3 DEF AttachmentsInv, StoreInv
  <2> QED  BY <2>1, <1>5, <1>7, <1>8 DEF AttachmentsInv, StoreInv, DiskAfter
<1>17. Marks'
  <2> SUFFICES ASSUME atOp'.kind = "retain" PROVE Marks'
    BY DEF Marks
  <2> DEFINE i == atOp.image
  <2>1. /\ i \in Images /\ atFile[i] = "whole"
        /\ \A n \in 1..Len(atOp.calls) :
             /\ ~Spoils(atOp.calls[n], i)
             /\ Renames(atOp.calls[n]) => atOp.calls[n].index[i] = "retained"
        /\ atDisk[i] = "retained" \/ Renames(atOp.calls[Len(atOp.calls)])
    BY <1>5 DEF AttachmentsInv, Marks
  <2>2. 1 \in 1..Len(atOp.calls)
    BY <1>2
  <2>3. ~Spoils(c, i) /\ (Renames(c) => c.index[i] = "retained")
    BY <2>1, <2>2, <1>2
  <2>4. atFile'[i] = "whole"
    BY <2>1, <2>3, <1>1, <1>2, <1>6, FileIs
  <2>5. atDisk'[i] = "retained" \/ (Len(rest) > 0 /\ Renames(rest[Len(rest)]))
    <3>1. CASE Renames(c)
      BY <3>1, <2>3, <1>7 DEF DiskAfter
    <3>2. CASE ~Renames(c) /\ atDisk[i] = "retained"
      BY <3>2, <1>7 DEF DiskAfter
    <3>3. CASE ~Renames(c) /\ Renames(atOp.calls[Len(atOp.calls)])
      <4>1. Len(atOp.calls) # 1
        BY <3>3, <1>2
      <4>2. Len(rest) \in 1..Len(rest) /\ Len(rest) + 1 = Len(atOp.calls)
        <5>1. Len(rest) = Len(atOp.calls) - 1
          BY <1>2
        <5>2. Len(atOp.calls) \in Nat /\ Len(atOp.calls) > 0
          BY <1>2
        <5> DEFINE l == Len(atOp.calls)
        <5>3. l \in Nat /\ l > 0 /\ l # 1 /\ Len(rest) = l - 1
          BY <5>1, <5>2, <4>1
        <5> HIDE DEF l
        <5>4. Len(rest) \in 1..Len(rest) /\ Len(rest) + 1 = l
          BY <5>3
        <5> QED  BY <5>4 DEF l
      <4>3. rest[Len(rest)] = atOp.calls[Len(atOp.calls)]
        BY <4>2, <1>2
      <4> QED  BY <4>2, <4>3, <3>3
    <3> QED  BY <3>1, <3>2, <3>3, <2>1
  <2>6. \A n \in 1..Len(rest) : /\ ~Spoils(rest[n], i)
                                /\ Renames(rest[n]) => rest[n].index[i] = "retained"
    BY <2>1, <1>2
  <2> HIDE DEF i
  <2>7. atOp'.image = i
    BY <1>5 DEF i
  <2> QED  BY <2>1, <2>4, <2>5, <2>6, <2>7, <1>5 DEF Marks
<1> QED
  BY <1>10, <1>12, <1>15, <1>16, <1>17 DEF AttachmentsInv

LEMMA CallFailsInv ==
  ASSUME AttachmentsInv, CallFails
  PROVE  AttachmentsInv'
<1> DEFINE c == Head(atOp.calls)
<1>1. /\ atOp.calls \in Seq(Calls) /\ atOp.calls # <<>>
      /\ atFile \in Files /\ atDisk \in AtIndex /\ atMem \in AtIndex
      /\ atSent \in SUBSET Images /\ atIndexed \subseteq Images
  BY DEF AttachmentsInv, AttachmentsTyped, AtTypeOK, Steps, Files, CallFails
<1>2. c = atOp.calls[1] /\ c \in Calls
  BY <1>1, TailIs
<1>3. /\ atFile' \in CASE c.do = "create" -> {atFile, [atFile EXCEPT ![c.image] = "partial"]}
                      [] c.do = "write" -> {atFile, [atFile EXCEPT ![c.image] = "whole"]}
                      [] OTHER -> {atFile}
      /\ \/ c.do \in {"temporary", "rename"} /\ atLitter' = TRUE /\ UNCHANGED <<atDisk, atIndexed>>
         \/ c.do # "rename" /\ UNCHANGED <<atLitter, atDisk, atIndexed>>
         \/ /\ c.do = "rename"
            /\ atDisk' = c.index /\ UNCHANGED atLitter
            /\ atIndexed' = atIndexed \cup {i \in Images : c.index[i] # "none"}
      /\ atStore' = IF atOp.kind = "open" THEN "closed"
                    ELSE IF c.do \in {"temporary", "rename"} THEN "faulted" ELSE atStore
      /\ atOp' = AtIdle
      /\ UNCHANGED <<atMem, atOld, atGranted, atSent>>
  BY DEF CallFails
<1> HIDE DEF c
<1>4. /\ atFile' = atFile \/ (atFile' = FileAfter(c, atFile) /\ ~Renames(c))
      /\ \/ atDisk' = atDisk /\ atIndexed' = atIndexed
         \/ /\ Renames(c) /\ atDisk' = DiskAfter(c, atDisk)
            /\ atIndexed' = IndexedAfter(c, atIndexed)
  BY <1>2, <1>3, CallIs DEF FileAfter, DiskAfter, IndexedAfter, Renames
<1>5. Known(FileAfter(c, atFile), DiskAfter(c, atDisk), IndexedAfter(c, atIndexed), atSent)
  BY <1>1, <1>2, FirstCall DEF AttachmentsInv
<1>6. Renames(c) => FileAfter(c, atFile) = atFile
  BY DEF Renames, FileAfter
<1>7. ~Renames(c) => DiskAfter(c, atDisk) = atDisk /\ IndexedAfter(c, atIndexed) = atIndexed
  BY DEF DiskAfter, IndexedAfter
<1>8. atSent' = atSent
  BY <1>3
<1>9. Known(atFile', atDisk', atIndexed', atSent')
  <2>1. CASE Renames(c)
    BY <2>1, <1>4, <1>5, <1>6, <1>8 DEF AttachmentsInv
  <2>2. CASE ~Renames(c)
    BY <2>2, <1>4, <1>5, <1>7, <1>8 DEF AttachmentsInv
  <2> QED  BY <2>1, <2>2
<1>10. atFile' \in Files /\ atDisk' \in AtIndex /\ atIndexed' \subseteq Images
  <2>1. atFile' \in Files
    BY <1>1, <1>2, <1>4, FileIs
  <2> QED  BY <2>1, <1>1, <1>4, <1>9 DEF Known, IndexedAfter
<1>11. atStore' = "open" => atStore = "open" /\ atDisk' = atDisk
  BY <1>3, <1>4 DEF Renames
<1>12. AtTypeOK'
  BY <1>3, <1>10, IdleTyped DEF AttachmentsInv, AttachmentsTyped, AtTypeOK, Files
<1>13. atStore' = "open" => atMem' = atDisk'
  BY <1>3, <1>11 DEF AttachmentsInv, StoreInv
<1> QED
  BY <1>3, <1>9, <1>12, <1>13, PlanStops

LEMMA PastedInv ==
  ASSUME AttachmentsInv, Pasted
  PROVE  AttachmentsInv'
<1> DEFINE i == atOp.image
<1>1. /\ i \in Images /\ atStore = "open"
      /\ UNCHANGED <<atFile, atDisk, atLitter, atMem, atStore, atOld, atFaults, atSent, atIndexed>>
  BY DEF Pasted, AttachmentsInv, AttachmentsTyped, StoreInv
<1>2. CASE Starts("release", i, Releasing(i)) /\ UNCHANGED atGranted
  <2>1. atGranted' \subseteq Images
    BY <1>2 DEF AttachmentsInv, AttachmentsTyped, AtTypeOK
  <2> HIDE DEF i
  <2> QED  BY <1>1, <1>2, <2>1, Releases
<1>3. CASE atOp' = AtIdle /\ atGranted' \in {atGranted, atGranted \cup {i}}
  <2>1. AtTypeOK'
    BY <1>1, <1>3, IdleTyped DEF AttachmentsInv, AttachmentsTyped, AtTypeOK
  <2>2. /\ atStore' = "open" => atMem' = atDisk'
        /\ Known(atFile', atDisk', atIndexed', atSent')
    BY <1>1 DEF AttachmentsInv, StoreInv
  <2> QED  BY <1>3, <2>1, <2>2, PlanStops
<1> QED
  BY <1>2, <1>3 DEF Pasted

LEMMA HandedOverInv ==
  ASSUME AttachmentsInv, HandedOver
  PROVE  AttachmentsInv'
<1>1. /\ atOp.kind = "retain" /\ atOp.calls = <<>> /\ atOp.image \in Images /\ atOp' = AtIdle
      /\ atSent' \in {atSent, atSent \cup {atOp.image}}
      /\ UNCHANGED <<atFile, atDisk, atLitter, atMem, atStore, atOld, atGranted, atFaults,
                     atIndexed>>
  BY DEF HandedOver, AttachmentsInv, AttachmentsTyped
<1>2. Len(atOp.calls) = 0
  BY <1>1
<1>3. atFile[atOp.image] = "whole" /\ atDisk[atOp.image] = "retained"
  BY <1>1, <1>2 DEF AttachmentsInv, Marks
<1>4. Known(atFile', atDisk', atIndexed', atSent')
  BY <1>1, <1>3 DEF AttachmentsInv, Known
<1>5. AtTypeOK'
  BY <1>1, IdleTyped DEF AttachmentsInv, AttachmentsTyped, AtTypeOK
<1>6. atStore' = "open" => atMem' = atDisk'
  BY <1>1 DEF AttachmentsInv, StoreInv
<1> QED
  BY <1>1, <1>4, <1>5, <1>6, PlanStops

LEMMA OtherEndsInv ==
  ASSUME AttachmentsInv, OtherEnds
  PROVE  AttachmentsInv'
<1>1. AtTypeOK'
  BY IdleTyped DEF OtherEnds, AttachmentsInv, AttachmentsTyped, AtTypeOK
<1>2. /\ atOp' = AtIdle /\ (atStore' = "open" => atMem' = atDisk')
      /\ Known(atFile', atDisk', atIndexed', atSent')
  BY DEF OtherEnds, AttachmentsInv, StoreInv
<1> QED
  BY <1>1, <1>2, PlanStops

LEMMA AppEndsInv ==
  ASSUME AttachmentsInv, AppEnds
  PROVE  AttachmentsInv'
<1>1. NoEntries \in AtIndex
  BY DEF NoEntries, AtIndex, Retention
<1>2. atLitter' \in BOOLEAN
  BY DEF AppEnds, AttachmentsInv, AttachmentsTyped, AtTypeOK
<1>3. AtTypeOK'
  BY <1>1, <1>2, IdleTyped DEF AppEnds, AttachmentsInv, AttachmentsTyped, AtTypeOK
<1>4. /\ atOp' = AtIdle /\ atStore' = "closed"
      /\ Known(atFile', atDisk', atIndexed', atSent')
  BY DEF AppEnds, AttachmentsInv
<1> QED
  BY <1>3, <1>4, PlanStops

\* Time and handles.
LEMMA OthersKeep ==
  ASSUME AttachmentsInv, atOld' \subseteq Images, atGranted' \subseteq Images,
         UNCHANGED <<atFile, atDisk, atLitter, atMem, atStore, atOp, atFaults, atSent, atIndexed>>
  PROVE  AttachmentsInv'
<1>1. AttachmentsTyped' /\ StoreInv' /\ Marks'
  BY DEF AttachmentsInv, AttachmentsTyped, AtTypeOK, StoreInv, Marks
<1>2. /\ Known(atFile, atDisk, atIndexed, atSent)'
      /\ Planned(atOp.calls, atFile, atDisk, atIndexed, atSent)'
  BY DEF AttachmentsInv
<1> QED
  BY <1>1, <1>2 DEF AttachmentsInv

LEMMA AttachmentsBegin ==
  ASSUME AttachmentsInit
  PROVE  AttachmentsInv
<1>1. NoEntries \in AtIndex /\ \A j \in Images : NoEntries[j] = "none"
  BY DEF NoEntries, AtIndex, Retention
<1>2. atOp \in Steps /\ atOp.kind = "idle" /\ atOp.calls = <<>> /\ atOp = AtIdle
  BY IdleIs DEF AttachmentsInit
<1>3. \A n \in DOMAIN atOp.calls : atOp.calls[n] \in Calls
  <2>1. DOMAIN <<>> = {}
    OBVIOUS
  <2> QED  BY <2>1, <1>2
<1>4. AttachmentsTyped
  BY <1>1, <1>2, <1>3 DEF AttachmentsInit, AttachmentsTyped, AtTypeOK
<1>5. StoreInv /\ Marks
  BY <1>2 DEF AttachmentsInit, StoreInv, Marks
<1>6. Known(atFile, atDisk, atIndexed, atSent)
  BY <1>1 DEF AttachmentsInit, Known
<1>7. Planned(atOp.calls, atFile, atDisk, atIndexed, atSent)
  BY <1>2, NothingIsPlan
<1> QED
  BY <1>4, <1>5, <1>6, <1>7 DEF AttachmentsInv

LEMMA AttachmentsStep ==
  ASSUME AttachmentsInv, [AttachmentsNext]_atVars
  PROVE  AttachmentsInv'
<1>1. /\ atOld \subseteq Images /\ atGranted \subseteq Images
  BY DEF AttachmentsInv, AttachmentsTyped, AtTypeOK
<1>2. CASE OpenStore
  BY <1>2, Opens
<1>3. CASE CallReturns
  BY <1>3, CallReturnsInv
<1>4. CASE CallFails
  BY <1>4, CallFailsInv
<1>5. CASE Pasted
  BY <1>5, PastedInv
<1>6. CASE HandedOver
  BY <1>6, HandedOverInv
<1>7. CASE OtherEnds
  BY <1>7, OtherEndsInv
<1>8. CASE AppEnds
  BY <1>8, AppEndsInv
<1>9. ASSUME NEW i \in Images, Paste(i) PROVE AttachmentsInv'
  BY <1>9, Pastes
<1>10. ASSUME NEW i \in Images, RemoveImage(i) PROVE AttachmentsInv'
  BY <1>1, <1>10, Releases DEF RemoveImage, Ready
<1>11. ASSUME NEW i \in Images, Retain(i) PROVE AttachmentsInv'
  BY <1>11, Retains
<1>12. ASSUME NEW i \in Images, DraftAges(i) PROVE AttachmentsInv'
  BY <1>1, <1>12, OthersKeep DEF DraftAges
<1>13. ASSUME NEW i \in Images, GrantEnds(i) PROVE AttachmentsInv'
  BY <1>1, <1>13, OthersKeep DEF GrantEnds
<1>14. CASE UNCHANGED atVars
  BY <1>1, <1>14, OthersKeep DEF atVars
<1> QED
  BY <1>2, <1>3, <1>4, <1>5, <1>6, <1>7, <1>8, <1>9, <1>10, <1>11, <1>12, <1>13, <1>14
  DEF AttachmentsNext

LEMMA AttachmentsInvariant == AttachmentsSpec => []AttachmentsInv
<1>1. AttachmentsInit => AttachmentsInv
  BY AttachmentsBegin
<1>2. AttachmentsInv /\ [AttachmentsNext]_atVars => AttachmentsInv'
  BY AttachmentsStep
<1> QED
  BY <1>1, <1>2, PTL DEF AttachmentsSpec

\* The files, the indexes, the operation under way and its calls stay in their types
\* (AttachmentStore of attachments.rs).
THEOREM AttachmentsHaveType == AttachmentsSpec => []AtTypeOK
<1>1. AttachmentsInv => AtTypeOK
  BY DEF AttachmentsInv, AttachmentsTyped
<1> QED
  BY <1>1, AttachmentsInvariant, PTL

\* The image of a message that was handed to the queue stays whole and marked, for any number of
\* images, and wherever the calls of a paste, a removal or an expiry fail or the App ends
\* (retain_before_send, remove_released, import_png).
THEOREM SentImagesStay == AttachmentsSpec => []SentStays
<1>1. AttachmentsInv => SentStays
  BY DEF AttachmentsInv, Known, SentStays
<1> QED
  BY <1>1, AttachmentsInvariant, PTL

\* Between any two calls of the file system the index on the disk names no draft or retained
\* image without its whole file, and no image that was once named is forgotten before it is
\* deleted (persist, remove_released).
THEOREM IndexKeepsWithFiles == AttachmentsSpec => []IndexMatchesFiles
<1>1. AttachmentsInv => IndexMatchesFiles
  BY DEF AttachmentsInv, AttachmentsTyped, AtTypeOK, Known, IndexMatchesFiles
<1> QED
  BY <1>1, AttachmentsInvariant, PTL

(***************************************************************************)
(* II. The preview of hidden threads.                                      *)
(***************************************************************************)
USE HiddenScanAssumption DEF HiddenScanAssumption

HsErrors == {Error("refused"), Error("full"), Error("failed")}
HsAnswers == Page \cup {NoAnswer} \cup HsErrors
HsTyped == HsTypeOK /\ hsAnswer \in [HsRuns -> HsAnswers]

(***************************************************************************)
(* The invariant of the hidden scan, of a run r, its scan j and the answer *)
(* a to the request of the run, when the database has t hidden threads     *)
(* and f faults have happened.                                             *)
(***************************************************************************)
\* A scan that is over says so truly, and says it only when its worker is done.
ScanOK(j, t, f) ==
  /\ j.items <= t
  /\ j.phase = "complete" => j.items = t
  /\ j.phase \in Terminal => j.at \notin {"none", "working"}
  /\ j.at = "none" => ~j.listed /\ j.items = 0 /\ j.phase = "preparing" /\ ~j.cancelled
  /\ j.at # "none" /\ ~j.listed => f > 0 \/ j.at \in {"finished", "gone"}

\* What a run knows of its scan.
KnowsOK(r, j, a, t) ==
  /\ r.pc \in {"none", "start"} => ~r.known /\ r.got = 0
  /\ r.pc = "none" => j.at = "none"
  /\ r.pc = "start" /\ a = NoAnswer => j.at = "none"
  /\ r.pc \in {"poll", "pause", "stopping"} => r.known
  /\ r.known => j.at # "none"
  /\ r.cancel # "none" => r.known
  /\ r.got <= j.items
  /\ r.result # "none" => r.pc = "over"
  /\ r.result = "complete" => r.got = t
  /\ r.result \notin {"mismatch", "full"}

\* A page on its way is one the run can take.
PageOK(r, j, a, t) ==
  a \in Page =>
    /\ j.at # "none"
    /\ a.cursor = r.got /\ a.cursor + a.count <= a.processed /\ a.processed <= j.items
    /\ a.more => a.count > 0
    /\ a.phase = "complete" => a.processed = t /\ (~a.more => a.cursor + a.count = t)
    /\ a.phase \in Terminal => j.at # "working"

\* An error on its way leaves no scan at work for nobody.
ErrorOK(r, j, a) ==
  /\ a # NoAnswer => r.pc \in {"start", "poll"}
  /\ a # Error("full")
  /\ a = Error("refused") => r.pc = "start" /\ j.at = "none"
  /\ a = Error("failed") => r.pc = "poll" /\ j.at # "none" /\ ~j.listed

\* A scan works for a run, or was stopped.
ForSomebody(r, j, f) ==
  f = 0 /\ (r.cancel = "done" \/ (r.pc = "over" /\ r.cancel # "sent")) =>
    j.at # "working" \/ j.cancelled

Local(r, j, a, t, f) ==
  /\ ScanOK(j, t, f) /\ KnowsOK(r, j, a, t) /\ PageOK(r, j, a, t)
  /\ ErrorOK(r, j, a) /\ ForSomebody(r, j, f)

\* One worker has the lease; the slots hold what they can.
AtWork(j) == j.at \in {"working", "ended", "finished"}
LeaseOK ==
  /\ \A k \in HsRuns : AtWork(hsJob[k]) =>
       hsLeased /\ \A l \in HsRuns : AtWork(hsJob[l]) => l = k
  /\ Cardinality(InSlots(hsJob)) <= HsSlots

HiddenInv ==
  HsTyped /\ LeaseOK
  /\ \A k \in HsRuns : Local(hsRun[k], hsJob[k], hsAnswer[k], hsTotal, hsFaults)

(***************************************************************************)
(* Records and steps.                                                      *)
(***************************************************************************)
LEMMA AnswersAre ==
  /\ NoAnswer \notin Page /\ NoAnswer.is = "none"
  /\ \A why \in {"refused", "full", "failed"} :
       Error(why).is = why /\ Error(why) \notin Page /\ Error(why) # NoAnswer
  /\ Error("refused") # Error("full") /\ Error("refused") # Error("failed")
  /\ Error("full") # Error("failed")
  /\ \A p \in Page : p.is = "page"
<1>1. NoAnswer.is = "none" /\ \A why \in {"refused", "full", "failed"} : Error(why).is = why
  BY DEF NoAnswer, Error
<1>2. \A p \in Page : p.is = "page"
  BY DEF Page
<1> QED
  BY <1>1, <1>2

\* The types of a run, its scan and its answer, and what the invariant says of them.
LEMMA LocalIs ==
  ASSUME HiddenInv, NEW k \in HsRuns
  PROVE  /\ hsRun \in [HsRuns -> Run] /\ hsJob \in [HsRuns -> Job]
         /\ hsAnswer \in [HsRuns -> HsAnswers]
         /\ hsRun[k] \in Run /\ hsJob[k] \in Job /\ hsAnswer[k] \in HsAnswers
         /\ hsTotal \in Nat /\ hsTotal \in HsTotals
         /\ hsFaults \in Nat /\ hsFaults \in 0..HsMaxFaults /\ hsLeased \in BOOLEAN
         /\ Local(hsRun[k], hsJob[k], hsAnswer[k], hsTotal, hsFaults)
         /\ ScanOK(hsJob[k], hsTotal, hsFaults)
         /\ KnowsOK(hsRun[k], hsJob[k], hsAnswer[k], hsTotal)
         /\ PageOK(hsRun[k], hsJob[k], hsAnswer[k], hsTotal)
         /\ ErrorOK(hsRun[k], hsJob[k], hsAnswer[k])
         /\ ForSomebody(hsRun[k], hsJob[k], hsFaults)
<1>1. HsTyped /\ Local(hsRun[k], hsJob[k], hsAnswer[k], hsTotal, hsFaults)
  BY DEF HiddenInv
<1>2. /\ hsRun \in [HsRuns -> Run] /\ hsJob \in [HsRuns -> Job]
      /\ hsAnswer \in [HsRuns -> HsAnswers] /\ hsTotal \in HsTotals
      /\ hsFaults \in 0..HsMaxFaults /\ hsLeased \in BOOLEAN
  BY <1>1 DEF HsTyped, HsTypeOK
<1> QED
  BY <1>1, <1>2 DEF Local

LEMMA TypeStep ==
  ASSUME hsTotal' \in HsTotals, hsRun' \in [HsRuns -> Run], hsJob' \in [HsRuns -> Job],
         hsAnswer' \in [HsRuns -> HsAnswers], hsLeased' \in BOOLEAN, hsFaults' \in 0..HsMaxFaults
  PROVE  HsTyped'
<1>1. \A k \in HsRuns : hsAnswer'[k] \in Page \cup {NoAnswer, Error("refused"), Error("full"),
                                                    Error("failed")}
  BY DEF HsAnswers, HsErrors
<1> QED
  BY <1>1 DEF HsTyped, HsTypeOK

LEMMA NoAnswerIs ==
  /\ NoAnswer \in HsAnswers
  /\ \A why \in {"refused", "full", "failed"} : Error(why) \in HsAnswers
BY DEF HsAnswers, HsErrors

\* A scan that was retired.
Unlisted(j) == [j EXCEPT !.listed = FALSE]
LEMMA UnlistedIs ==
  ASSUME NEW j \in Job
  PROVE  /\ Unlisted(j) \in Job /\ ~Unlisted(j).listed /\ Unlisted(j).at = j.at
         /\ Unlisted(j).items = j.items /\ Unlisted(j).phase = j.phase
         /\ Unlisted(j).cancelled = j.cancelled
BY DEF Unlisted, Job

\* A step of one run and its scan: of the others, finished scans may be retired.
LEMMA LocalsStep ==
  ASSUME HiddenInv, NEW k \in HsRuns, NEW r \in Run, NEW j \in Job, NEW a \in HsAnswers,
         hsRun' = [hsRun EXCEPT ![k] = r], hsAnswer' = [hsAnswer EXCEPT ![k] = a],
         hsJob' \in [HsRuns -> Job], hsJob'[k] = j,
         \A l \in HsRuns \ {k} :
           \/ hsJob'[l] = hsJob[l]
           \/ hsJob[l].at \in {"finished", "gone"} /\ hsJob'[l] = Unlisted(hsJob[l]),
         hsTotal' = hsTotal, hsLeased' \in BOOLEAN,
         hsFaults' \in 0..HsMaxFaults, hsFaults' >= hsFaults,
         LeaseOK', Local(r, j, a, hsTotal, hsFaults')
  PROVE  HiddenInv'
<1>1. /\ hsRun \in [HsRuns -> Run] /\ hsAnswer \in [HsRuns -> HsAnswers]
      /\ hsJob \in [HsRuns -> Job] /\ hsTotal \in HsTotals /\ hsFaults \in Nat
      /\ hsFaults' \in Nat
  BY LocalIs
<1>2. /\ hsRun' \in [HsRuns -> Run] /\ hsAnswer' \in [HsRuns -> HsAnswers]
      /\ hsRun'[k] = r /\ hsAnswer'[k] = a
      /\ \A l \in HsRuns \ {k} : hsRun'[l] = hsRun[l] /\ hsAnswer'[l] = hsAnswer[l]
  BY <1>1
<1>3. HsTyped'
  BY <1>1, <1>2, TypeStep
<1>4. ASSUME NEW l \in HsRuns \ {k}
      PROVE  Local(hsRun[l], hsJob'[l], hsAnswer[l], hsTotal, hsFaults')
  <2>1. /\ hsJob[l] \in Job /\ ScanOK(hsJob[l], hsTotal, hsFaults)
        /\ KnowsOK(hsRun[l], hsJob[l], hsAnswer[l], hsTotal)
        /\ PageOK(hsRun[l], hsJob[l], hsAnswer[l], hsTotal)
        /\ ErrorOK(hsRun[l], hsJob[l], hsAnswer[l])
        /\ ForSomebody(hsRun[l], hsJob[l], hsFaults)
    BY LocalIs
  <2>2. PICK i \in Job : i = hsJob[l]
    BY <2>1
  <2>3. PICK n \in Job : n = hsJob'[l]
    BY <2>1
  <2>4. /\ n.at = i.at /\ n.items = i.items /\ n.phase = i.phase /\ n.cancelled = i.cancelled
        /\ n.listed = i.listed \/ (~n.listed /\ i.at \in {"finished", "gone"})
    BY <2>2, <2>3, UnlistedIs
  <2>5. ScanOK(n, hsTotal, hsFaults')
    BY <1>1, <2>1, <2>2, <2>4 DEF ScanOK
  <2>6. KnowsOK(hsRun[l], n, hsAnswer[l], hsTotal)
    BY <2>1, <2>2, <2>4 DEF KnowsOK
  <2>7. PageOK(hsRun[l], n, hsAnswer[l], hsTotal)
    BY <2>1, <2>2, <2>4 DEF PageOK
  <2>8. ErrorOK(hsRun[l], n, hsAnswer[l])
    BY <2>1, <2>2, <2>4 DEF ErrorOK
  <2>9. ForSomebody(hsRun[l], n, hsFaults')
    BY <1>1, <2>1, <2>2, <2>4 DEF ForSomebody
  <2> QED  BY <2>3, <2>5, <2>6, <2>7, <2>8, <2>9 DEF Local
<1>5. \A l \in HsRuns : Local(hsRun'[l], hsJob'[l], hsAnswer'[l], hsTotal', hsFaults')
  BY <1>2, <1>4
<1> QED
  BY <1>3, <1>5 DEF HiddenInv

\* Nobody comes to work, and no slot is taken.
LEMMA LeaseStep ==
  ASSUME HsTyped, LeaseOK,
         \A l \in HsRuns : /\ AtWork(hsJob'[l]) => AtWork(hsJob[l]) /\ hsLeased'
                           /\ Holds(hsJob', l) => Holds(hsJob, l)
  PROVE  LeaseOK'
<1>1. InSlots(hsJob') \subseteq InSlots(hsJob)
  BY DEF InSlots
<1>2. IsFiniteSet(InSlots(hsJob))
  <2>1. IsFiniteSet(HsRuns) /\ InSlots(hsJob) \subseteq HsRuns
    BY FS_Interval DEF HsRuns, HiddenScanAssumption, InSlots
  <2> QED  BY <2>1, FS_Subset
<1>3. Cardinality(InSlots(hsJob')) <= Cardinality(InSlots(hsJob)) /\ IsFiniteSet(InSlots(hsJob'))
  BY <1>1, <1>2, FS_Subset
<1>4. Cardinality(InSlots(hsJob')) \in Nat /\ Cardinality(InSlots(hsJob)) \in Nat
  BY <1>2, <1>3, FS_CardinalityType
<1>5. Cardinality(InSlots(hsJob')) <= HsSlots
  BY <1>3, <1>4 DEF LeaseOK, HiddenScanAssumption
<1>6. \A k \in HsRuns : AtWork(hsJob'[k]) =>
        hsLeased' /\ \A l \in HsRuns : AtWork(hsJob'[l]) => l = k
  BY DEF LeaseOK
<1> QED
  BY <1>5, <1>6 DEF LeaseOK

LEMMA ResponseIs ==
  ASSUME NEW j \in Job, NEW cursor \in Nat, cursor <= j.items
  PROVE  /\ Response(j, cursor) \in Page
         /\ Response(j, cursor).cursor = cursor /\ Response(j, cursor).processed = j.items
         /\ Response(j, cursor).phase = j.phase
         /\ cursor + Response(j, cursor).count <= j.items
         /\ Response(j, cursor).more => Response(j, cursor).count > 0
         /\ j.phase \in Terminal /\ ~Response(j, cursor).more =>
              cursor + Response(j, cursor).count = j.items
<1> DEFINE available == j.items - cursor
<1> DEFINE count == IF j.phase \in Terminal \/ available >= HsPage
                      THEN HsMin(available, HsPage) ELSE 0
<1>1. available \in Nat /\ available = j.items - cursor /\ j.items \in Nat /\ HsPage \in Nat \ {0}
  BY DEF Job, HiddenScanAssumption
<1> HIDE DEF available
<1>2. /\ count \in Nat /\ count <= available
      /\ (j.phase \in Terminal \/ available >= HsPage) =>
            (count = available \/ count = HsPage) /\ (available > 0 => count > 0)
      /\ ~(j.phase \in Terminal \/ available >= HsPage) => count = 0
      /\ count = HsPage \/ available - count < HsPage
  BY <1>1 DEF HsMin
<1>3. Response(j, cursor) = [is |-> "page", phase |-> j.phase, cursor |-> cursor, count |-> count,
                             processed |-> j.items, more |-> More(j.phase, available - count)]
  BY DEF Response, available
<1> HIDE DEF count
<1>4. More(j.phase, available - count) \in BOOLEAN
  BY DEF More
<1>5. More(j.phase, available - count) => count > 0
  BY <1>1, <1>2 DEF More
<1>6. j.phase \in Terminal /\ ~More(j.phase, available - count) => available = count
  BY <1>1, <1>2 DEF More
<1>7. Response(j, cursor) \in Page
  BY <1>1, <1>2, <1>3, <1>4 DEF Page, Job
<1>8. cursor + count <= j.items /\ (available = count => cursor + count = j.items)
  BY <1>1, <1>2
<1> QED
  BY <1>3, <1>5, <1>6, <1>7, <1>8

\* A step of one run and its scan, which does not begin to work.
LEMMA LocalStep ==
  ASSUME HiddenInv, NEW k \in HsRuns, NEW r \in Run, NEW j \in Job, NEW a \in HsAnswers,
         hsRun' = [hsRun EXCEPT ![k] = r], hsAnswer' = [hsAnswer EXCEPT ![k] = a],
         hsJob' = [hsJob EXCEPT ![k] = j], hsTotal' = hsTotal, hsLeased' \in BOOLEAN,
         hsFaults' \in 0..HsMaxFaults, hsFaults' >= hsFaults,
         AtWork(j) => AtWork(hsJob[k]), j.at = "none" \/ hsJob[k].at # "none",
         j.listed => hsJob[k].listed, hsJob[k].at = "gone" => j.at = "gone",
         hsLeased' = hsLeased \/ (AtWork(hsJob[k]) /\ ~AtWork(j)),
         Local(r, j, a, hsTotal, hsFaults')
  PROVE  HiddenInv'
<1>1. hsJob \in [HsRuns -> Job] /\ hsJob[k] \in Job /\ HsTyped /\ LeaseOK
  BY LocalIs DEF HiddenInv
<1>2. /\ hsJob' \in [HsRuns -> Job] /\ hsJob'[k] = j
      /\ \A l \in HsRuns \ {k} : hsJob'[l] = hsJob[l]
  BY <1>1
<1>3. LeaseOK'
  <2>1. ASSUME NEW l \in HsRuns
        PROVE  /\ AtWork(hsJob'[l]) => AtWork(hsJob[l]) /\ hsLeased'
               /\ Holds(hsJob', l) => Holds(hsJob, l)
    <3>1. AtWork(hsJob[l]) => hsLeased /\ (AtWork(hsJob[k]) => l = k)
      BY <1>1 DEF LeaseOK
    <3>2. CASE l = k
      BY <3>1, <3>2, <1>2 DEF Holds
    <3>3. CASE l # k
      BY <3>1, <3>3, <1>2 DEF Holds
    <3> QED  BY <3>2, <3>3
  <2> QED  BY <1>1, <2>1, LeaseStep
<1> QED
  BY <1>2, <1>3, LocalsStep

\* A step of the worker of k.
LEMMA WorkerStep ==
  ASSUME HiddenInv, NEW k \in HsRuns, NEW j \in Job, hsJob' = [hsJob EXCEPT ![k] = j],
         UNCHANGED <<hsTotal, hsRun, hsAnswer>>, hsLeased' \in BOOLEAN,
         hsFaults' \in 0..HsMaxFaults, hsFaults' >= hsFaults,
         AtWork(j) => AtWork(hsJob[k]), hsJob[k].at # "none", j.at # "none",
         j.listed => hsJob[k].listed, hsJob[k].at = "gone" => j.at = "gone",
         hsLeased' = hsLeased \/ (AtWork(hsJob[k]) /\ ~AtWork(j)),
         j.items >= hsJob[k].items,
         j.at = "working" => hsJob[k].at = "working" /\ (hsJob[k].cancelled => j.cancelled),
         ScanOK(j, hsTotal, hsFaults')
  PROVE  HiddenInv'
<1>1. /\ hsJob \in [HsRuns -> Job] /\ hsRun \in [HsRuns -> Run]
      /\ hsAnswer \in [HsRuns -> HsAnswers]
      /\ hsRun[k] \in Run /\ hsJob[k] \in Job /\ hsAnswer[k] \in HsAnswers
      /\ hsFaults \in Nat
      /\ KnowsOK(hsRun[k], hsJob[k], hsAnswer[k], hsTotal)
      /\ PageOK(hsRun[k], hsJob[k], hsAnswer[k], hsTotal)
      /\ ErrorOK(hsRun[k], hsJob[k], hsAnswer[k]) /\ ForSomebody(hsRun[k], hsJob[k], hsFaults)
  BY LocalIs
<1>2. hsRun[k].got \in Nat /\ j.items \in Nat /\ hsJob[k].items \in Nat
  BY <1>1 DEF Run, Job
<1>3. KnowsOK(hsRun[k], j, hsAnswer[k], hsTotal)
  BY <1>1, <1>2 DEF KnowsOK
<1>4. ErrorOK(hsRun[k], j, hsAnswer[k])
  BY <1>1 DEF ErrorOK
<1>5. PageOK(hsRun[k], j, hsAnswer[k], hsTotal)
  <2>1. CASE hsAnswer[k] \in Page
    <3>1. hsAnswer[k].processed \in Nat
      BY <2>1 DEF Page
    <3> QED  BY <3>1, <1>1, <1>2 DEF PageOK
  <2>2. CASE hsAnswer[k] \notin Page
    BY <2>2 DEF PageOK
  <2> QED  BY <2>1, <2>2
<1>6. ForSomebody(hsRun[k], j, hsFaults')
  BY <1>1 DEF ForSomebody
<1>7. hsRun' = [hsRun EXCEPT ![k] = hsRun[k]] /\ hsAnswer' = [hsAnswer EXCEPT ![k] = hsAnswer[k]]
  BY <1>1
<1>8. Local(hsRun[k], j, hsAnswer[k], hsTotal, hsFaults')
  BY <1>3, <1>4, <1>5, <1>6 DEF Local
<1> QED
  BY <1>1, <1>7, <1>8, LocalStep

\* A step of run k, which asks for nothing of the process.
LEMMA RunStep ==
  ASSUME HiddenInv, NEW k \in HsRuns, NEW r \in Run, NEW a \in HsAnswers,
         hsRun' = [hsRun EXCEPT ![k] = r], hsAnswer' = [hsAnswer EXCEPT ![k] = a],
         UNCHANGED <<hsTotal, hsJob, hsLeased>>,
         hsFaults' \in 0..HsMaxFaults, hsFaults' >= hsFaults,
         KnowsOK(r, hsJob[k], a, hsTotal), PageOK(r, hsJob[k], a, hsTotal),
         ErrorOK(r, hsJob[k], a), ForSomebody(r, hsJob[k], hsFaults')
  PROVE  HiddenInv'
<1>1. /\ hsJob \in [HsRuns -> Job] /\ hsJob[k] \in Job /\ hsLeased \in BOOLEAN
      /\ hsFaults \in Nat /\ hsFaults' \in Nat /\ ScanOK(hsJob[k], hsTotal, hsFaults)
  BY LocalIs
<1>2. hsJob' = [hsJob EXCEPT ![k] = hsJob[k]]
  BY <1>1
<1>3. ScanOK(hsJob[k], hsTotal, hsFaults')
  BY <1>1 DEF ScanOK
<1>4. Local(r, hsJob[k], a, hsTotal, hsFaults')
  BY <1>3 DEF Local
<1>5. PICK j \in Job : j = hsJob[k]
  BY <1>1
<1>6. hsJob' = [hsJob EXCEPT ![k] = j] /\ Local(r, j, a, hsTotal, hsFaults')
  BY <1>2, <1>4, <1>5
<1> QED
  BY <1>1, <1>5, <1>6, LocalStep

(***************************************************************************)
(* The process.                                                            *)
(***************************************************************************)
LEMMA Emits ==
  ASSUME HiddenInv, NEW k \in HsRuns, HsEmits(k)
  PROVE  HiddenInv'
<1>1. /\ hsJob[k] \in Job /\ hsTotal \in Nat /\ ScanOK(hsJob[k], hsTotal, hsFaults)
      /\ hsLeased \in BOOLEAN
      /\ hsFaults \in 0..HsMaxFaults /\ hsFaults \in Nat /\ hsJob \in [HsRuns -> Job]
  BY LocalIs
<1>2. hsJob[k].at = "working" /\ hsJob[k].items < hsTotal
      /\ UNCHANGED <<hsTotal, hsRun, hsAnswer, hsLeased, hsFaults>>
  BY DEF HsEmits
<1>3. PICK i \in Job : i = hsJob[k]
  BY <1>1
<1>4. i.items \in Nat /\ i.items + 1 \in Nat /\ "scanning" \in HsPhases
  BY DEF Job, HsPhases
<1>5. PICK n \in Nat : n = i.items + 1
  BY <1>4
<1>6. PICK j : j = [i EXCEPT !.items = n, !.phase = "scanning"]
  OBVIOUS
<1>7. j \in Job
  BY <1>4, <1>6 DEF Job
<1>8. /\ j.at = i.at /\ j.items = n /\ j.phase = "scanning"
      /\ j.listed = i.listed /\ j.cancelled = i.cancelled
  BY <1>6 DEF Job
<1>9. hsJob' = [hsJob EXCEPT ![k] = j]
  BY <1>1, <1>3, <1>5, <1>6 DEF HsEmits
<1>10. ScanOK(j, hsTotal, hsFaults)
  BY <1>1, <1>2, <1>3, <1>4, <1>5, <1>8 DEF ScanOK, Terminal
<1>11. j.items >= hsJob[k].items /\ AtWork(hsJob[k]) /\ hsFaults' >= hsFaults
  BY <1>1, <1>2, <1>3, <1>4, <1>5, <1>8 DEF AtWork
<1> QED
  BY <1>1, <1>2, <1>3, <1>7, <1>8, <1>9, <1>10, <1>11, WorkerStep

LEMMA Ends ==
  ASSUME HiddenInv, NEW k \in HsRuns, HsEnds(k) \/ HsFails(k)
  PROVE  HiddenInv'
<1>1. /\ hsJob[k] \in Job /\ hsTotal \in Nat /\ ScanOK(hsJob[k], hsTotal, hsFaults)
      /\ hsLeased \in BOOLEAN
      /\ hsFaults \in 0..HsMaxFaults /\ hsFaults \in Nat /\ hsJob \in [HsRuns -> Job]
  BY LocalIs
<1>2. PICK phase \in {"stopped", "complete", "failed"} :
        /\ hsJob' = [hsJob EXCEPT ![k].at = "ended", ![k].phase = phase]
        /\ phase = "complete" => hsJob[k].items = hsTotal
  BY DEF HsEnds, HsFails
<1>3. /\ hsJob[k].at = "working" /\ UNCHANGED <<hsTotal, hsRun, hsAnswer, hsLeased>>
      /\ hsFaults' \in 0..HsMaxFaults /\ hsFaults' >= hsFaults /\ hsFaults' \in Nat
  BY <1>1 DEF HsEnds, HsFails
<1>4. PICK i \in Job : i = hsJob[k]
  BY <1>1
<1>5. PICK j : j = [i EXCEPT !.at = "ended", !.phase = phase]
  OBVIOUS
<1>6. j \in Job
  BY <1>5 DEF Job, HsPhases
<1>7. /\ j.at = "ended" /\ j.items = i.items /\ j.phase = phase
      /\ j.listed = i.listed /\ j.cancelled = i.cancelled /\ i.items \in Nat
  BY <1>5 DEF Job
<1>8. hsJob' = [hsJob EXCEPT ![k] = j]
  BY <1>1, <1>2, <1>4, <1>5
<1>9. ScanOK(j, hsTotal, hsFaults')
  BY <1>1, <1>2, <1>3, <1>4, <1>7 DEF ScanOK, Terminal
<1>10. AtWork(hsJob[k]) /\ j.items >= hsJob[k].items
  BY <1>3, <1>4, <1>7 DEF AtWork
<1> QED
  BY <1>1, <1>3, <1>4, <1>6, <1>7, <1>8, <1>9, <1>10, WorkerStep

LEMMA Finishes ==
  ASSUME HiddenInv, NEW k \in HsRuns, HsFinishes(k) \/ HsTaskEnds(k)
  PROVE  HiddenInv'
<1>1. /\ hsJob[k] \in Job /\ hsTotal \in Nat /\ ScanOK(hsJob[k], hsTotal, hsFaults)
      /\ hsLeased \in BOOLEAN
      /\ hsFaults \in 0..HsMaxFaults /\ hsFaults \in Nat /\ hsJob \in [HsRuns -> Job]
  BY LocalIs
<1>2. PICK at \in {"finished", "gone"} :
        /\ hsJob' = [hsJob EXCEPT ![k].at = at]
        /\ at = "finished" => hsJob[k].at = "ended" /\ hsLeased' = hsLeased
        /\ at = "gone" => hsJob[k].at = "finished" /\ hsLeased' = FALSE
  BY DEF HsFinishes, HsTaskEnds
<1>3. UNCHANGED <<hsTotal, hsRun, hsAnswer, hsFaults>> /\ hsFaults' >= hsFaults
  BY <1>1 DEF HsFinishes, HsTaskEnds
<1>4. PICK i \in Job : i = hsJob[k]
  BY <1>1
<1>5. PICK j : j = [i EXCEPT !.at = at]
  OBVIOUS
<1>6. j \in Job
  BY <1>5 DEF Job
<1>7. /\ j.at = at /\ j.items = i.items /\ j.phase = i.phase
      /\ j.listed = i.listed /\ j.cancelled = i.cancelled /\ i.items \in Nat
  BY <1>5 DEF Job
<1>8. hsJob' = [hsJob EXCEPT ![k] = j]
  BY <1>1, <1>2, <1>4, <1>5
<1>9. ScanOK(j, hsTotal, hsFaults')
  BY <1>1, <1>2, <1>3, <1>4, <1>7 DEF ScanOK, Terminal
<1>10. /\ AtWork(hsJob[k]) /\ hsJob[k].at # "gone" /\ j.items >= hsJob[k].items
       /\ hsJob[k].at # "none" /\ j.at # "none"
  BY <1>1, <1>2, <1>4, <1>7 DEF AtWork
<1>11. hsLeased' \in BOOLEAN
  BY <1>1, <1>2
<1>12. hsLeased' = hsLeased \/ (AtWork(hsJob[k]) /\ ~AtWork(j))
  BY <1>2, <1>7, <1>10 DEF AtWork
<1> QED
  BY <1>1, <1>3, <1>4, <1>6, <1>7, <1>8, <1>9, <1>10, <1>11, <1>12, WorkerStep

LEMMA Expires ==
  ASSUME HiddenInv, NEW k \in HsRuns, HsExpires(k)
  PROVE  HiddenInv'
<1>1. /\ hsJob[k] \in Job /\ hsTotal \in Nat /\ ScanOK(hsJob[k], hsTotal, hsFaults)
      /\ hsLeased \in BOOLEAN
      /\ hsFaults \in 0..HsMaxFaults /\ hsFaults \in Nat /\ hsJob \in [HsRuns -> Job]
  BY LocalIs
<1>2. hsJob[k].listed /\ hsFaults < HsMaxFaults /\ hsFaults' = hsFaults + 1
      /\ UNCHANGED <<hsTotal, hsRun, hsAnswer, hsLeased>>
  BY DEF HsExpires
<1>3. PICK i \in Job : i = hsJob[k]
  BY <1>1
<1>4. PICK j : j = [i EXCEPT !.cancelled = TRUE, !.listed = FALSE]
  OBVIOUS
<1>5. j \in Job
  BY <1>4 DEF Job
<1>6. /\ j.at = i.at /\ j.items = i.items /\ j.phase = i.phase
      /\ ~j.listed /\ j.cancelled /\ i.items \in Nat
  BY <1>4 DEF Job
<1>7. hsJob' = [hsJob EXCEPT ![k] = j]
  BY <1>1, <1>3, <1>4 DEF HsExpires
<1>8. hsFaults' > 0 /\ hsFaults' >= hsFaults /\ hsFaults' \in 0..HsMaxFaults
  BY <1>1, <1>2, HiddenScanAssumption DEF HiddenScanAssumption
<1>9. hsJob[k].at # "none"
  BY <1>1, <1>2 DEF ScanOK
<1>10. ScanOK(j, hsTotal, hsFaults')
  BY <1>1, <1>2, <1>3, <1>6, <1>8, <1>9 DEF ScanOK
<1>11. j.items >= hsJob[k].items /\ (AtWork(j) => AtWork(hsJob[k]))
  BY <1>3, <1>6 DEF AtWork
<1> QED
  BY <1>1, <1>2, <1>3, <1>5, <1>6, <1>7, <1>8, <1>9, <1>10, <1>11, WorkerStep

LEMMA Polls ==
  ASSUME HiddenInv, NEW k \in HsRuns, HsPolls(k)
  PROVE  HiddenInv'
<1>1. /\ hsRun \in [HsRuns -> Run] /\ hsRun[k] \in Run /\ hsJob[k] \in Job
      /\ hsFaults \in Nat /\ hsFaults \in 0..HsMaxFaults
      /\ ScanOK(hsJob[k], hsTotal, hsFaults)
      /\ KnowsOK(hsRun[k], hsJob[k], hsAnswer[k], hsTotal)
      /\ ForSomebody(hsRun[k], hsJob[k], hsFaults)
  BY LocalIs
<1>2. PICK r \in Run : r = hsRun[k]
  BY <1>1
<1>3. PICK j \in Job : j = hsJob[k]
  BY <1>1
<1>4. /\ r.pc = "poll" /\ UNCHANGED <<hsTotal, hsRun, hsJob, hsLeased, hsFaults>>
      /\ hsFaults' >= hsFaults
  BY <1>1, <1>2 DEF HsPolls
<1>5. r.known /\ j.at # "none" /\ r.got <= j.items /\ r.got \in Nat
  BY <1>1, <1>2, <1>3, <1>4 DEF KnowsOK, Run
<1>6. PICK a : /\ a = IF j.listed THEN Response(j, r.got) ELSE Error("failed")
               /\ hsAnswer' = [hsAnswer EXCEPT ![k] = a]
  BY <1>2, <1>3 DEF HsPolls
<1>7. /\ Response(j, r.got) \in Page /\ Response(j, r.got).cursor = r.got
      /\ Response(j, r.got).processed = j.items /\ Response(j, r.got).phase = j.phase
      /\ r.got + Response(j, r.got).count <= j.items
      /\ Response(j, r.got).more => Response(j, r.got).count > 0
      /\ j.phase \in Terminal /\ ~Response(j, r.got).more =>
           r.got + Response(j, r.got).count = j.items
  BY <1>5, ResponseIs
<1>8. a \in HsAnswers
  BY <1>6, <1>7, NoAnswerIs DEF HsAnswers
<1>9. KnowsOK(r, j, a, hsTotal)
  BY <1>1, <1>2, <1>3, <1>4 DEF KnowsOK
<1>10. PageOK(r, j, a, hsTotal) /\ ErrorOK(r, j, a)
  <2>1. CASE j.listed
    <3>1. a = Response(j, r.got) /\ a \in Page
      BY <2>1, <1>6, <1>7
    <3>2. j.phase = "complete" => j.items = hsTotal
      BY <1>1, <1>3 DEF ScanOK
    <3>3. j.phase \in Terminal => j.at # "working"
      BY <1>1, <1>3 DEF ScanOK
    <3>4. a.processed <= j.items
      BY <1>7, <3>1 DEF Job
    <3>5. PageOK(r, j, a, hsTotal)
      BY <1>5, <1>7, <3>1, <3>2, <3>3, <3>4 DEF PageOK, Terminal
    <3>6. ErrorOK(r, j, a)
      BY <3>1, <1>4, AnswersAre DEF ErrorOK
    <3> QED  BY <3>5, <3>6
  <2>2. CASE ~j.listed
    <3>1. a = Error("failed") /\ a \notin Page
      BY <2>2, <1>6, AnswersAre
    <3> QED  BY <3>1, <2>2, <1>4, <1>5, AnswersAre DEF PageOK, ErrorOK
  <2> QED  BY <2>1, <2>2
<1>11. hsRun' = [hsRun EXCEPT ![k] = r]
  BY <1>1, <1>2, <1>4
<1>12. ForSomebody(r, hsJob[k], hsFaults')
  BY <1>1, <1>2, <1>4
<1> QED
  BY <1>1, <1>3, <1>4, <1>6, <1>8, <1>9, <1>10, <1>11, <1>12, RunStep


\* Of the numbers with a property that somebody has, there is a first one.
LEMMA First ==
  ASSUME NEW S \in SUBSET HsRuns, NEW x \in S
  PROVE  \E k \in S : \A l \in 1..(k - 1) : l \notin S
<1> DEFINE R == OpToRel(<, Nat)
<1>1. IsWellFoundedOn(R, Nat)
  BY NatLessThanWellFounded
<1>2. \A m, n \in Nat : m < n => <<m, n>> \in R
  BY DEF OpToRel
<1> HIDE DEF R
<1>3. S \subseteq Nat
  BY DEF HsRuns
<1>4. PICK k \in S : \A l \in S : ~(<<l, k>> \in R)
  BY <1>1, <1>3, WFMin
<1>5. ASSUME NEW l \in 1..(k - 1) PROVE l \notin S
  <2>1. k \in Nat /\ l \in Nat /\ l < k
    BY <1>3
  <2> QED  BY <1>2, <1>4, <2>1
<1> QED
  BY <1>5

\* A start finds room unless a worker is busy: of the scans that hold a slot, each
\* is finished, and the oldest of them is retired.
LEMMA MakesRoom ==
  ASSUME HiddenInv, ~hsLeased
  PROVE  /\ Retired \in [HsRuns -> Job]
         /\ \A l \in HsRuns : \/ Retired[l] = hsJob[l]
                              \/ /\ hsJob[l].at \in {"finished", "gone"}
                                 /\ Retired[l] = Unlisted(hsJob[l])
         /\ IsFiniteSet(InSlots(Retired)) /\ Cardinality(InSlots(Retired)) < HsSlots
<1>1. /\ hsJob \in [HsRuns -> Job] /\ HsTyped
      /\ \A k \in HsRuns : ~AtWork(hsJob[k])
      /\ Cardinality(InSlots(hsJob)) <= HsSlots
  BY DEF HiddenInv, LeaseOK, HsTyped, HsTypeOK
<1>2. IsFiniteSet(InSlots(hsJob)) /\ Cardinality(InSlots(hsJob)) \in Nat
  <2>1. IsFiniteSet(HsRuns) /\ InSlots(hsJob) \subseteq HsRuns
    BY FS_Interval DEF HsRuns, HiddenScanAssumption, InSlots
  <2> QED  BY <2>1, FS_Subset, FS_CardinalityType
<1>3. \A k \in HsRuns : k \in InSlots(hsJob) <=> Done(k)
  <2>1. ASSUME NEW k \in HsRuns PROVE k \in InSlots(hsJob) <=> Done(k)
    <3>1. hsJob[k] \in Job /\ ~AtWork(hsJob[k]) /\ ScanOK(hsJob[k], hsTotal, hsFaults)
      BY <1>1, LocalIs
    <3>2. hsJob[k].at \in {"none", "gone"}
      BY <3>1 DEF Job, AtWork
    <3>3. hsJob[k].at = "none" => ~hsJob[k].listed
      BY <3>1 DEF ScanOK
    <3> QED  BY <3>2, <3>3 DEF InSlots, Holds, Done, Announced
  <2> QED  BY <2>1
<1>4. CASE Cardinality(InSlots(hsJob)) < HsSlots \/ ~\E k \in HsRuns : Done(k)
  <2>1. Retired = hsJob
    BY <1>4 DEF Retired
  <2>2. Cardinality(InSlots(hsJob)) < HsSlots
    <3>1. CASE ~\E k \in HsRuns : Done(k)
      <4>1. InSlots(hsJob) = {}
        BY <1>3, <3>1 DEF InSlots
      <4> QED  BY <4>1, FS_EmptySet, HiddenScanAssumption DEF HiddenScanAssumption
    <3> QED  BY <1>4, <3>1
  <2> QED  BY <1>1, <1>2, <2>1, <2>2
<1>5. CASE ~(Cardinality(InSlots(hsJob)) < HsSlots \/ ~\E k \in HsRuns : Done(k))
  <2>1. PICK first \in HsRuns : Done(first) /\ \A l \in 1..(first - 1) : ~Done(l)
    <3>1. PICK x \in {k \in HsRuns : Done(k)} : TRUE
      BY <1>5
    <3>2. PICK k \in {l \in HsRuns : Done(l)} :
            \A l \in 1..(k - 1) : l \notin {m \in HsRuns : Done(m)}
      BY <3>1, First
    <3>3. \A l \in 1..(k - 1) : l \in HsRuns
      BY HiddenScanAssumption DEF HsRuns, HiddenScanAssumption
    <3> QED  BY <3>2, <3>3
  <2>2. PICK oldest \in HsRuns :
          Done(oldest) /\ Retired = [hsJob EXCEPT ![oldest].listed = FALSE]
    <3>1. LET oldest == CHOOSE k \in HsRuns : Done(k) /\ \A l \in 1..(k - 1) : ~Done(l)
          IN oldest \in HsRuns /\ Done(oldest)
      BY <2>1
    <3> QED  BY <1>5, <3>1 DEF Retired
  <2>3. hsJob[oldest] \in Job /\ hsJob[oldest].at = "gone" /\ oldest \in InSlots(hsJob)
    <3>1. hsJob[oldest] \in Job /\ ~AtWork(hsJob[oldest])
      BY <1>1
    <3>2. hsJob[oldest].at = "gone"
      BY <2>2, <3>1 DEF Done, Announced, AtWork
    <3> QED  BY <1>3, <2>2, <3>1, <3>2
  <2>4. Retired = [hsJob EXCEPT ![oldest] = Unlisted(hsJob[oldest])]
    BY <1>1, <2>2 DEF Unlisted
  <2>5. Retired \in [HsRuns -> Job] /\ Retired[oldest] = Unlisted(hsJob[oldest])
        /\ \A l \in HsRuns \ {oldest} : Retired[l] = hsJob[l]
    BY <1>1, <2>3, <2>4, UnlistedIs
  <2>6. InSlots(Retired) = InSlots(hsJob) \ {oldest}
    <3>1. ~Holds(Retired, oldest)
      BY <2>3, <2>5, UnlistedIs DEF Holds
    <3>2. \A l \in HsRuns \ {oldest} : Holds(Retired, l) <=> Holds(hsJob, l)
      BY <2>5 DEF Holds
    <3> QED  BY <3>1, <3>2 DEF InSlots
  <2>7. IsFiniteSet(InSlots(Retired))
        /\ Cardinality(InSlots(Retired)) = Cardinality(InSlots(hsJob)) - 1
    BY <1>2, <2>3, <2>6, FS_RemoveElement
  <2>8. Cardinality(InSlots(Retired)) < HsSlots
    BY <1>1, <1>2, <2>7, HiddenScanAssumption DEF HiddenScanAssumption
  <2> QED  BY <2>3, <2>5, <2>7, <2>8
<1> QED
  BY <1>4, <1>5

LEMMA ScanStarts ==
  ASSUME HiddenInv, NEW k \in HsRuns, HsStarts(k)
  PROVE  HiddenInv'
<1>1. /\ hsRun \in [HsRuns -> Run] /\ hsRun[k] \in Run
      /\ hsJob \in [HsRuns -> Job] /\ hsJob[k] \in Job
      /\ hsTotal \in Nat /\ hsFaults \in Nat /\ hsFaults \in 0..HsMaxFaults
      /\ ScanOK(hsJob[k], hsTotal, hsFaults)
      /\ KnowsOK(hsRun[k], hsJob[k], hsAnswer[k], hsTotal)
      /\ ForSomebody(hsRun[k], hsJob[k], hsFaults)
  BY LocalIs
<1>2. PICK r \in Run : r = hsRun[k]
  BY <1>1
<1>3. PICK i \in Job : i = hsJob[k]
  BY <1>1
<1>4. /\ r.pc = "start" /\ hsAnswer[k] = NoAnswer
      /\ UNCHANGED <<hsTotal, hsRun, hsFaults>> /\ hsFaults' >= hsFaults
      /\ hsRun' = [hsRun EXCEPT ![k] = r]
  BY <1>1, <1>2 DEF HsStarts
<1>5. /\ i.at = "none" /\ ~i.listed /\ i.items = 0 /\ i.phase = "preparing" /\ ~i.cancelled
      /\ ~r.known /\ r.got = 0 /\ r.cancel = "none" /\ r.result = "none"
  <2>1. i.at = "none" /\ ~r.known /\ r.got = 0
    BY <1>1, <1>2, <1>3, <1>4 DEF KnowsOK
  <2> QED  BY <2>1, <1>1, <1>2, <1>3, <1>4 DEF KnowsOK, ScanOK
<1>6. CASE hsLeased
  <2>1. PICK a \in HsAnswers : a = Error("refused")
    BY NoAnswerIs
  <2>2. hsAnswer' = [hsAnswer EXCEPT ![k] = a] /\ UNCHANGED <<hsJob, hsLeased>>
    BY <1>6, <2>1 DEF HsStarts
  <2>3. KnowsOK(r, i, a, hsTotal)
    BY <1>1, <1>2, <1>3, <1>4, <1>5 DEF KnowsOK
  <2>4. PageOK(r, i, a, hsTotal) /\ ErrorOK(r, i, a)
    BY <1>4, <1>5, <2>1, AnswersAre DEF PageOK, ErrorOK
  <2> QED
    BY <1>1, <1>2, <1>3, <1>4, <2>2, <2>3, <2>4, RunStep
<1>7. CASE ~hsLeased
  <2>1. /\ Retired \in [HsRuns -> Job]
        /\ \A l \in HsRuns : \/ Retired[l] = hsJob[l]
                             \/ /\ hsJob[l].at \in {"finished", "gone"}
                                /\ Retired[l] = Unlisted(hsJob[l])
        /\ IsFiniteSet(InSlots(Retired)) /\ Cardinality(InSlots(Retired)) < HsSlots
    BY <1>7, MakesRoom
  <2>2. PICK jobs \in [HsRuns -> Job] : jobs = Retired
    BY <2>1
  <2>3. jobs[k] = i
    BY <1>3, <1>5, <2>1, <2>2
  <2>4. PICK j : j = [i EXCEPT !.at = "working", !.listed = TRUE]
    OBVIOUS
  <2>5. j \in Job
    BY <2>4 DEF Job
  <2>6. /\ j.at = "working" /\ j.listed /\ j.items = 0 /\ j.phase = "preparing"
        /\ ~j.cancelled
    BY <1>5, <2>4 DEF Job
  <2>7. [Retired EXCEPT ![k].at = "working", ![k].listed = TRUE] = [jobs EXCEPT ![k] = j]
    BY <2>2, <2>3, <2>4
  <2>8. PICK a : a = Response(j, 0)
    OBVIOUS
  <2>9. hsJob' = [jobs EXCEPT ![k] = j] /\ hsLeased' = TRUE
    BY <1>7, <2>1, <2>7 DEF HsStarts
  <2>10. hsAnswer' = [hsAnswer EXCEPT ![k] = a]
    BY <1>7, <2>1, <2>7, <2>8 DEF HsStarts
  <2>11. hsJob' \in [HsRuns -> Job] /\ hsJob'[k] = j
         /\ \A l \in HsRuns \ {k} : hsJob'[l] = jobs[l]
    BY <2>5, <2>9
  <2>12. /\ a \in Page /\ a.cursor = 0 /\ a.processed = 0 /\ a.phase = "preparing"
         /\ a.cursor + a.count <= 0 /\ (a.more => a.count > 0)
    BY <2>5, <2>6, <2>8, ResponseIs
  <2>13. a \in HsAnswers /\ a # NoAnswer /\ \A e \in HsErrors : a # e
    BY <2>12, AnswersAre DEF HsAnswers, HsErrors
  <2>14. ScanOK(j, hsTotal, hsFaults)
    BY <1>1, <2>6 DEF ScanOK, Terminal
  <2>15. KnowsOK(r, j, a, hsTotal)
    BY <1>4, <1>5, <2>6, <2>13 DEF KnowsOK
  <2>16. PageOK(r, j, a, hsTotal)
    BY <1>5, <2>6, <2>12 DEF PageOK, Terminal
  <2>17. ErrorOK(r, j, a)
    BY <1>4, <2>13 DEF ErrorOK, HsErrors
  <2>18. ForSomebody(r, j, hsFaults)
    BY <1>4, <1>5 DEF ForSomebody
  <2>19. Local(r, j, a, hsTotal, hsFaults')
    BY <1>4, <2>14, <2>15, <2>16, <2>17, <2>18 DEF Local
  <2>20. LeaseOK'
    <3>1. \A l \in HsRuns \ {k} : ~AtWork(hsJob'[l])
      <4>1. ASSUME NEW l \in HsRuns \ {k} PROVE ~AtWork(hsJob'[l])
        <5>1. hsJob[l] \in Job /\ ~AtWork(hsJob[l])
          BY <1>1, <1>7 DEF HiddenInv, LeaseOK
        <5>2. hsJob'[l].at = hsJob[l].at
          BY <2>1, <2>2, <2>11, <5>1, UnlistedIs
        <5> QED  BY <5>1, <5>2 DEF AtWork
      <4> QED  BY <4>1
    <3>2. InSlots(hsJob') \subseteq InSlots(jobs) \cup {k}
      BY <2>11 DEF InSlots, Holds
    <3>3. /\ IsFiniteSet(InSlots(jobs) \cup {k})
          /\ Cardinality(InSlots(jobs) \cup {k}) <= Cardinality(InSlots(jobs)) + 1
          /\ Cardinality(InSlots(jobs)) \in Nat
      <4>1. IsFiniteSet(InSlots(jobs))
        BY <2>1, <2>2
      <4>2. Cardinality(InSlots(jobs)) \in Nat
        BY <4>1, FS_CardinalityType
      <4>3. /\ IsFiniteSet(InSlots(jobs) \cup {k})
            /\ \/ Cardinality(InSlots(jobs) \cup {k}) = Cardinality(InSlots(jobs))
               \/ Cardinality(InSlots(jobs) \cup {k}) = Cardinality(InSlots(jobs)) + 1
        BY <4>1, FS_AddElement
      <4> QED  BY <4>2, <4>3
    <3>4. /\ Cardinality(InSlots(hsJob')) <= Cardinality(InSlots(jobs) \cup {k})
          /\ Cardinality(InSlots(hsJob')) \in Nat
          /\ Cardinality(InSlots(jobs) \cup {k}) \in Nat
      BY <3>2, <3>3, FS_Subset, FS_CardinalityType
    <3>5. Cardinality(InSlots(hsJob')) <= HsSlots
      BY <2>1, <2>2, <3>3, <3>4, HiddenScanAssumption DEF HiddenScanAssumption
    <3> QED  BY <2>9, <3>1, <3>5 DEF LeaseOK
  <2>21. \A l \in HsRuns \ {k} :
           \/ hsJob'[l] = hsJob[l]
           \/ hsJob[l].at \in {"finished", "gone"} /\ hsJob'[l] = Unlisted(hsJob[l])
    BY <2>1, <2>2, <2>11
  <2> QED
    BY <1>1, <1>4, <2>5, <2>9, <2>10, <2>11, <2>13, <2>19, <2>20, <2>21, LocalsStep
<1> QED
  BY <1>6, <1>7

LEMMA Cancels ==
  ASSUME HiddenInv, NEW k \in HsRuns, HsCancels(k)
  PROVE  HiddenInv'
<1>1. /\ hsRun \in [HsRuns -> Run] /\ hsRun[k] \in Run
      /\ hsJob \in [HsRuns -> Job] /\ hsJob[k] \in Job
      /\ hsAnswer \in [HsRuns -> HsAnswers] /\ hsAnswer[k] \in HsAnswers
      /\ hsTotal \in Nat /\ hsFaults \in Nat /\ hsFaults \in 0..HsMaxFaults
      /\ hsLeased \in BOOLEAN
      /\ ScanOK(hsJob[k], hsTotal, hsFaults)
      /\ KnowsOK(hsRun[k], hsJob[k], hsAnswer[k], hsTotal)
      /\ PageOK(hsRun[k], hsJob[k], hsAnswer[k], hsTotal)
      /\ ErrorOK(hsRun[k], hsJob[k], hsAnswer[k])
  BY LocalIs
<1>2. PICK r \in Run : r = [hsRun[k] EXCEPT !.cancel = "done"]
  BY <1>1 DEF Run
<1>3. /\ hsRun[k].cancel = "sent" /\ UNCHANGED <<hsTotal, hsAnswer, hsLeased, hsFaults>>
      /\ hsFaults' >= hsFaults
  BY <1>1 DEF HsCancels
<1>4. hsRun' = [hsRun EXCEPT ![k] = r]
  BY <1>1, <1>2 DEF HsCancels
<1>5. /\ r.pc = hsRun[k].pc /\ r.known = hsRun[k].known /\ r.got = hsRun[k].got
      /\ r.result = hsRun[k].result /\ r.cancel = "done"
  BY <1>1, <1>2 DEF Run
<1>6. hsAnswer' = [hsAnswer EXCEPT ![k] = hsAnswer[k]]
  BY <1>1, <1>3
<1>7. r.known /\ hsJob[k].at # "none"
  BY <1>1, <1>3, <1>5 DEF KnowsOK
<1>8. PICK i \in Job : i = hsJob[k]
  BY <1>1
<1>9. PICK j : j = IF ~i.listed THEN i
                   ELSE [i EXCEPT !.cancelled = TRUE,
                                  !.phase = IF Announced(k) THEN "stopped" ELSE "stopping"]
  OBVIOUS
<1>10. j \in Job
  BY <1>9 DEF Job, HsPhases
<1>11. /\ j.at = i.at /\ j.items = i.items /\ j.listed = i.listed /\ i.items \in Nat
       /\ i.listed => j.cancelled /\ j.phase \in {"stopped", "stopping"}
                      /\ (j.phase = "stopped" => i.at \in {"finished", "gone"})
       /\ ~i.listed => j = i
  <2>1. CASE i.listed
    BY <2>1, <1>8, <1>9 DEF Job, Announced
  <2>2. CASE ~i.listed
    BY <2>2, <1>9 DEF Job
  <2> QED  BY <2>1, <2>2
<1>12. hsJob' = [hsJob EXCEPT ![k] = j]
  BY <1>1, <1>8, <1>9 DEF HsCancels
<1>13. ScanOK(j, hsTotal, hsFaults)
  <2>1. CASE i.listed
    BY <2>1, <1>1, <1>7, <1>8, <1>11 DEF ScanOK, Terminal
  <2>2. CASE ~i.listed
    BY <2>2, <1>1, <1>8, <1>11
  <2> QED  BY <2>1, <2>2
<1>14. KnowsOK(r, j, hsAnswer[k], hsTotal)
  BY <1>1, <1>5, <1>7, <1>8, <1>11 DEF KnowsOK
<1>15. PageOK(r, j, hsAnswer[k], hsTotal)
  BY <1>1, <1>5, <1>8, <1>11 DEF PageOK
<1>16. ErrorOK(r, j, hsAnswer[k])
  BY <1>1, <1>5, <1>8, <1>11 DEF ErrorOK
<1>17. ForSomebody(r, j, hsFaults)
  BY <1>1, <1>7, <1>8, <1>11 DEF ForSomebody, ScanOK
<1>18. Local(r, j, hsAnswer[k], hsTotal, hsFaults')
  BY <1>3, <1>13, <1>14, <1>15, <1>16, <1>17 DEF Local
<1>19. (AtWork(j) => AtWork(hsJob[k])) /\ (hsJob[k].at = "gone" => j.at = "gone")
       /\ (j.listed => hsJob[k].listed)
  BY <1>8, <1>11 DEF AtWork
<1> QED
  BY <1>1, <1>3, <1>4, <1>6, <1>7, <1>10, <1>12, <1>18, <1>19, LocalStep


(***************************************************************************)
(* The interface.                                                          *)
(***************************************************************************)
\* stop() of a run, and what becomes of one that throws.
LEMMA StoppedIs ==
  ASSUME NEW r \in Run
  PROVE  /\ Stopped(r) \in Run /\ Stopped(r).pc = r.pc /\ Stopped(r).known = r.known
         /\ Stopped(r).got = r.got /\ Stopped(r).result = r.result
         /\ Stopped(r).cancel = IF r.known /\ r.cancel = "none" THEN "sent" ELSE r.cancel
BY DEF Stopped, Run

LEMMA ThrownIs ==
  ASSUME NEW r \in Run, NEW why \in {"failed", "refused", "full", "mismatch"}
  PROVE  /\ Thrown(r, why) \in Run /\ Thrown(r, why).pc = "over"
         /\ Thrown(r, why).result = why
         /\ Thrown(r, why).known = r.known /\ Thrown(r, why).got = r.got
         /\ Thrown(r, why).cancel = IF r.known /\ r.cancel = "none" THEN "sent" ELSE r.cancel
<1>1. PICK s \in Run : s = Stopped(r)
  BY StoppedIs
<1>2. Thrown(r, why) = [s EXCEPT !.pc = "over", !.result = why]
  BY <1>1 DEF Thrown
<1>3. /\ Thrown(r, why) \in Run /\ Thrown(r, why).pc = "over" /\ Thrown(r, why).result = why
      /\ Thrown(r, why).known = s.known /\ Thrown(r, why).got = s.got
      /\ Thrown(r, why).cancel = s.cancel
  BY <1>2 DEF Run
<1> QED
  BY <1>1, <1>3, StoppedIs

LEMMA LateIs ==
  ASSUME NEW r \in Run
  PROVE  /\ Late(r) \in Run /\ Late(r).pc = "stopping" /\ Late(r).known
         /\ Late(r).got = r.got /\ Late(r).result = r.result
         /\ Late(r).cancel = IF r.cancel = "none" THEN "sent" ELSE r.cancel
<1>1. PICK s : s = [r EXCEPT !.known = TRUE]
  OBVIOUS
<1>2. s \in Run /\ s.known = TRUE /\ s.got = r.got /\ s.result = r.result /\ s.cancel = r.cancel
  BY <1>1 DEF Run
<1>3. PICK t \in Run : t = Stopped(s)
  BY <1>2, StoppedIs
<1>4. Late(r) = [t EXCEPT !.pc = "stopping"]
  BY <1>1, <1>3 DEF Late
<1>5. /\ Late(r) \in Run /\ Late(r).pc = "stopping" /\ Late(r).known = t.known
      /\ Late(r).got = t.got /\ Late(r).result = t.result /\ Late(r).cancel = t.cancel
  BY <1>4 DEF Run
<1>6. /\ t.known = TRUE /\ t.got = r.got /\ t.result = r.result
      /\ t.cancel = IF r.cancel = "none" THEN "sent" ELSE r.cancel
  BY <1>2, <1>3, StoppedIs
<1> QED
  BY <1>5, <1>6

\* What the invariant says where no answer is under way.
LEMMA QuietRun ==
  ASSUME NEW r \in Run, NEW j \in Job
  PROVE  PageOK(r, j, NoAnswer, hsTotal) /\ ErrorOK(r, j, NoAnswer)
BY AnswersAre DEF PageOK, ErrorOK

LEMMA RunBegins ==
  ASSUME HiddenInv, NEW k \in HsRuns, HsBegins(k)
  PROVE  HiddenInv'
<1>1. /\ hsRun \in [HsRuns -> Run] /\ hsRun[k] \in Run /\ hsJob[k] \in Job
      /\ hsAnswer \in [HsRuns -> HsAnswers] /\ hsAnswer[k] \in HsAnswers
      /\ hsFaults \in Nat /\ hsFaults \in 0..HsMaxFaults
      /\ KnowsOK(hsRun[k], hsJob[k], hsAnswer[k], hsTotal)
      /\ ErrorOK(hsRun[k], hsJob[k], hsAnswer[k])
  BY LocalIs
<1>2. /\ hsRun[k].pc = "none" /\ UNCHANGED <<hsTotal, hsAnswer, hsJob, hsLeased, hsFaults>>
      /\ hsFaults' >= hsFaults
  BY <1>1 DEF HsBegins
<1>3. PICK r : r = [hsRun[k] EXCEPT !.pc = "start"]
  OBVIOUS
<1>4. /\ r \in Run /\ r.pc = "start" /\ r.known = hsRun[k].known /\ r.got = hsRun[k].got
      /\ r.cancel = hsRun[k].cancel /\ r.result = hsRun[k].result
  BY <1>1, <1>3 DEF Run
<1>5. hsRun' = [hsRun EXCEPT ![k] = r] /\ hsAnswer' = [hsAnswer EXCEPT ![k] = hsAnswer[k]]
  BY <1>1, <1>2, <1>3 DEF HsBegins
<1>6. hsAnswer[k] = NoAnswer
  BY <1>1, <1>2 DEF ErrorOK
<1>7. KnowsOK(r, hsJob[k], NoAnswer, hsTotal)
  BY <1>1, <1>2, <1>4 DEF KnowsOK
<1>8. ForSomebody(r, hsJob[k], hsFaults')
  BY <1>1, <1>2, <1>4 DEF KnowsOK, ForSomebody
<1> QED
  BY <1>1, <1>2, <1>4, <1>5, <1>6, <1>7, <1>8, QuietRun, RunStep

LEMMA Abandons ==
  ASSUME HiddenInv, NEW k \in HsRuns, HsAbandons(k)
  PROVE  HiddenInv'
<1>1. /\ hsRun \in [HsRuns -> Run] /\ hsRun[k] \in Run /\ hsJob[k] \in Job
      /\ hsAnswer \in [HsRuns -> HsAnswers] /\ hsAnswer[k] \in HsAnswers
      /\ hsFaults \in Nat /\ hsFaults \in 0..HsMaxFaults
      /\ KnowsOK(hsRun[k], hsJob[k], hsAnswer[k], hsTotal)
      /\ PageOK(hsRun[k], hsJob[k], hsAnswer[k], hsTotal)
      /\ ErrorOK(hsRun[k], hsJob[k], hsAnswer[k])
      /\ ForSomebody(hsRun[k], hsJob[k], hsFaults)
  BY LocalIs
<1>2. /\ hsRun[k].pc \notin {"none", "over"} /\ hsFaults' = hsFaults /\ hsFaults' >= hsFaults
      /\ UNCHANGED <<hsTotal, hsAnswer, hsJob, hsLeased>>
  BY <1>1 DEF HsAbandons
<1>3. PICK r \in Run : r = Stopped(hsRun[k])
  BY <1>1, StoppedIs
<1>4. /\ r.pc = hsRun[k].pc /\ r.known = hsRun[k].known /\ r.got = hsRun[k].got
      /\ r.result = hsRun[k].result
      /\ r.cancel = IF r.known /\ hsRun[k].cancel = "none" THEN "sent" ELSE hsRun[k].cancel
  BY <1>1, <1>3, StoppedIs
<1>5. hsRun' = [hsRun EXCEPT ![k] = r] /\ hsAnswer' = [hsAnswer EXCEPT ![k] = hsAnswer[k]]
  BY <1>1, <1>2, <1>3 DEF HsAbandons
<1>6. KnowsOK(r, hsJob[k], hsAnswer[k], hsTotal)
  BY <1>1, <1>4 DEF KnowsOK
<1>7. PageOK(r, hsJob[k], hsAnswer[k], hsTotal) /\ ErrorOK(r, hsJob[k], hsAnswer[k])
  BY <1>1, <1>4 DEF PageOK, ErrorOK
<1>8. ForSomebody(r, hsJob[k], hsFaults')
  BY <1>1, <1>2, <1>4 DEF ForSomebody
<1> QED
  BY <1>1, <1>2, <1>5, <1>6, <1>7, <1>8, RunStep

\* A page that comes is one the run can take: what it then knows.
LEMMA TakenIs ==
  ASSUME NEW r \in Run, NEW j \in Job, NEW a \in Page, hsTotal \in Nat, hsFaults \in Nat,
         r.pc \in {"start", "poll"}, KnowsOK(r, j, a, hsTotal), PageOK(r, j, a, hsTotal),
         ScanOK(j, hsTotal, hsFaults), ForSomebody(r, j, hsFaults)
  PROVE  /\ Mergeable(r, a) /\ Taken(r, a) \in Run
         /\ KnowsOK(Taken(r, a), j, NoAnswer, hsTotal)
         /\ ForSomebody(Taken(r, a), j, hsFaults)
<1>1. /\ j.at # "none" /\ a.cursor = r.got /\ a.cursor + a.count <= a.processed
      /\ a.processed <= j.items /\ j.items <= hsTotal /\ (a.more => a.count > 0)
      /\ a.phase = "complete" => a.processed = hsTotal /\ (~a.more => a.cursor + a.count = hsTotal)
      /\ a.phase \in Terminal => j.at # "working"
      /\ a.cursor \in Nat /\ a.count \in Nat /\ a.processed \in Nat /\ j.items \in Nat
      /\ r.got \in Nat
  BY DEF PageOK, ScanOK, Page, Job, Run
<1>2. Mergeable(r, a)
  BY <1>1 DEF Mergeable
<1>3. PICK n \in Nat : n = r.got + a.count
  BY <1>1
<1>4. PICK s : s = [r EXCEPT !.known = TRUE, !.got = n]
  OBVIOUS
<1>5. /\ s \in Run /\ s.known = TRUE /\ s.got = n /\ s.pc = r.pc /\ s.cancel = r.cancel
      /\ s.result = r.result
  BY <1>4 DEF Run
<1>6. s = [r EXCEPT !.known = TRUE, !.got = @ + a.count]
  BY <1>3, <1>4
<1>7. /\ n <= j.items /\ r.result = "none"
      /\ a.phase = "complete" /\ ~a.more => n = hsTotal
  BY <1>1, <1>3 DEF KnowsOK, Run
<1>8. CASE a.phase = "failed"
  <2>1. Taken(r, a) = Thrown(s, "failed")
    BY <1>6, <1>8 DEF Taken
  <2>2. PICK t \in Run : t = Taken(r, a)
    BY <1>5, <2>1, ThrownIs
  <2>3. /\ t.pc = "over" /\ t.known = TRUE /\ t.got = n /\ t.result = "failed"
    BY <1>5, <2>1, <2>2, ThrownIs
  <2>4. KnowsOK(t, j, NoAnswer, hsTotal)
    BY <1>1, <1>7, <2>3 DEF KnowsOK
  <2>5. ForSomebody(t, j, hsFaults)
    BY <1>1, <1>8 DEF ForSomebody, Terminal
  <2> QED  BY <1>2, <2>2, <2>4, <2>5
<1>9. CASE a.phase # "failed"
  <2>1. PICK t : t = Taken(r, a)
    OBVIOUS
  <2>2. PICK pc, result :
          /\ t = [s EXCEPT !.pc = pc, !.result = result]
          /\ \/ pc = "over" /\ result = "stopped" /\ a.phase \in Terminal
             \/ pc = "over" /\ result = "complete" /\ a.phase = "complete" /\ ~a.more
             \/ pc \in {"poll", "pause"} /\ result = "none"
    <3>1. CASE a.phase = "stopped"
      <4>1. t = [s EXCEPT !.pc = "over", !.result = "stopped"]
        BY <1>6, <2>1, <3>1 DEF Taken
      <4> QED  BY <4>1, <3>1 DEF Terminal
    <3>2. CASE a.phase = "complete" /\ ~a.more
      <4>1. t = [s EXCEPT !.pc = "over", !.result = "complete"]
        BY <1>6, <2>1, <3>2 DEF Taken
      <4> QED  BY <4>1, <3>2
    <3>3. CASE a.phase # "stopped" /\ ~(a.phase = "complete" /\ ~a.more)
      <4>1. PICK pc \in {"poll", "pause"} : t = [s EXCEPT !.pc = pc]
        BY <1>6, <1>9, <2>1, <3>3 DEF Taken
      <4>2. t = [s EXCEPT !.pc = pc, !.result = "none"]
        BY <4>1, <1>5, <1>7 DEF Run
      <4> QED  BY <4>2
    <3> QED  BY <3>1, <3>2, <3>3
  <2>3. /\ t \in Run /\ t.pc = pc /\ t.result = result /\ t.known = TRUE /\ t.got = n
        /\ t.cancel = r.cancel
    BY <1>5, <2>2 DEF Run
  <2>4. KnowsOK(t, j, NoAnswer, hsTotal)
    BY <1>1, <1>7, <2>2, <2>3 DEF KnowsOK
  <2>5. ForSomebody(t, j, hsFaults)
    BY <1>1, <2>2, <2>3 DEF ForSomebody, Terminal
  <2> QED  BY <1>2, <2>1, <2>3, <2>4, <2>5
<1> QED
  BY <1>8, <1>9

LEMMA Receives ==
  ASSUME HiddenInv, NEW k \in HsRuns, HsReceives(k)
  PROVE  HiddenInv'
<1>1. /\ hsRun \in [HsRuns -> Run] /\ hsRun[k] \in Run /\ hsJob[k] \in Job
      /\ hsAnswer[k] \in HsAnswers
      /\ hsTotal \in Nat /\ hsFaults \in Nat /\ hsFaults \in 0..HsMaxFaults
      /\ ScanOK(hsJob[k], hsTotal, hsFaults)
      /\ KnowsOK(hsRun[k], hsJob[k], hsAnswer[k], hsTotal)
      /\ PageOK(hsRun[k], hsJob[k], hsAnswer[k], hsTotal)
      /\ ErrorOK(hsRun[k], hsJob[k], hsAnswer[k])
      /\ ForSomebody(hsRun[k], hsJob[k], hsFaults)
  BY LocalIs
<1>2. PICK r \in Run : r = hsRun[k]
  BY <1>1
<1>3. PICK j \in Job : j = hsJob[k]
  BY <1>1
<1>4. PICK a \in HsAnswers : a = hsAnswer[k]
  BY <1>1
<1>5. /\ r.pc \in {"start", "poll"} /\ a # NoAnswer /\ hsFaults' = hsFaults
      /\ hsAnswer' = [hsAnswer EXCEPT ![k] = NoAnswer] /\ UNCHANGED <<hsTotal, hsJob, hsLeased>>
      /\ hsFaults' >= hsFaults /\ r.result = "none"
  BY <1>1, <1>2, <1>4 DEF HsReceives, KnowsOK, Run
<1>6. PICK n : /\ hsRun' = [hsRun EXCEPT ![k] = n]
               /\ n = CASE a.is # "page" -> Thrown(r, a.is)
                        [] a.is = "page" /\ r.aborted -> Late(r)
                        [] a.is = "page" /\ ~r.aborted /\ ~Mergeable(r, a) ->
                             Thrown(r, "mismatch")
                        [] OTHER -> Taken(r, a)
  BY <1>2, <1>4 DEF HsReceives
<1>7. n \in Run /\ KnowsOK(n, j, NoAnswer, hsTotal) /\ ForSomebody(n, j, hsFaults)
  <2>1. CASE a \in Page /\ r.aborted
    <3>1. n = Late(r)
      BY <1>6, <2>1, AnswersAre
    <3>2. /\ n \in Run /\ n.pc = "stopping" /\ n.known /\ n.got = r.got /\ n.result = "none"
          /\ n.cancel = IF r.cancel = "none" THEN "sent" ELSE r.cancel
      BY <1>5, <3>1, LateIs
    <3>3. j.at # "none"
      BY <1>1, <1>3, <1>4, <2>1 DEF PageOK
    <3>4. KnowsOK(n, j, NoAnswer, hsTotal)
      BY <1>1, <1>2, <1>3, <3>2, <3>3 DEF KnowsOK
    <3>5. ForSomebody(n, j, hsFaults)
      BY <1>1, <1>2, <1>3, <3>2 DEF ForSomebody
    <3> QED  BY <3>2, <3>4, <3>5
  <2>2. CASE a \in Page /\ ~r.aborted
    <3>1. Mergeable(r, a) /\ Taken(r, a) \in Run
          /\ KnowsOK(Taken(r, a), j, NoAnswer, hsTotal) /\ ForSomebody(Taken(r, a), j, hsFaults)
      BY <1>1, <1>2, <1>3, <1>4, <1>5, <2>2, TakenIs
    <3>2. n = Taken(r, a)
      BY <1>6, <2>2, <3>1, AnswersAre
    <3> QED  BY <3>1, <3>2
  <2>3. CASE a \notin Page
    <3>1. PICK why \in {"refused", "failed"} : a = Error(why) /\ a.is = why
      BY <2>3, <1>1, <1>4, <1>5, AnswersAre DEF HsAnswers, HsErrors, ErrorOK
    <3>2. n = Thrown(r, why)
      BY <1>6, <3>1
    <3>3. /\ n \in Run /\ n.pc = "over" /\ n.result = why /\ n.known = r.known /\ n.got = r.got
          /\ n.cancel = IF r.known /\ r.cancel = "none" THEN "sent" ELSE r.cancel
      BY <3>2, ThrownIs
    <3>4. KnowsOK(n, j, NoAnswer, hsTotal)
      BY <1>1, <1>2, <1>3, <3>1, <3>3 DEF KnowsOK
    <3>5. ForSomebody(n, j, hsFaults)
      <4>1. CASE why = "refused"
        <5>1. j.at = "none"
          BY <4>1, <1>1, <1>3, <1>4, <3>1 DEF ErrorOK
        <5> QED  BY <5>1 DEF ForSomebody
      <4>2. CASE why = "failed"
        <5>1. j.at # "none" /\ ~j.listed
          BY <4>2, <1>1, <1>3, <1>4, <3>1 DEF ErrorOK
        <5> QED  BY <5>1, <1>1, <1>3 DEF ForSomebody, ScanOK
      <4> QED  BY <4>1, <4>2
    <3> QED  BY <3>3, <3>4, <3>5
  <2> QED  BY <2>1, <2>2, <2>3
<1> QED
  BY <1>1, <1>3, <1>5, <1>6, <1>7, NoAnswerIs, QuietRun, RunStep

LEMMA Wakes ==
  ASSUME HiddenInv, NEW k \in HsRuns, HsWakes(k) \/ HsRunStopped(k)
  PROVE  HiddenInv'
<1>1. /\ hsRun \in [HsRuns -> Run] /\ hsRun[k] \in Run /\ hsJob[k] \in Job
      /\ hsAnswer \in [HsRuns -> HsAnswers] /\ hsAnswer[k] \in HsAnswers
      /\ hsFaults \in Nat /\ hsFaults \in 0..HsMaxFaults
      /\ KnowsOK(hsRun[k], hsJob[k], hsAnswer[k], hsTotal)
      /\ ErrorOK(hsRun[k], hsJob[k], hsAnswer[k])
      /\ ForSomebody(hsRun[k], hsJob[k], hsFaults)
  BY LocalIs
<1>2. PICK r \in Run : r = hsRun[k]
  BY <1>1
<1>3. /\ r.pc \in {"pause", "stopping"} /\ hsFaults' = hsFaults /\ hsFaults' >= hsFaults
      /\ UNCHANGED <<hsTotal, hsAnswer, hsJob, hsLeased>> /\ r.known /\ r.result = "none"
  BY <1>1, <1>2 DEF HsWakes, HsRunStopped, KnowsOK, Run
<1>4. hsAnswer[k] = NoAnswer
  BY <1>1, <1>2, <1>3 DEF ErrorOK
<1>5. PICK n : /\ hsRun' = [hsRun EXCEPT ![k] = n]
               /\ \/ n = Late(r)
                  \/ n = [r EXCEPT !.pc = "poll"]
                  \/ n = [r EXCEPT !.pc = "over", !.result = "stopped"] /\ r.cancel = "done"
  BY <1>1, <1>2 DEF HsWakes, HsRunStopped
<1>6. /\ n \in Run /\ n.known /\ n.got = r.got
      /\ \/ n.pc \in {"poll", "stopping"} /\ n.result = "none"
         \/ n.pc = "over" /\ n.result = "stopped" /\ r.cancel = "done"
      /\ n.cancel = r.cancel \/ (r.cancel = "none" /\ n.cancel = "sent")
  <2>1. CASE n = Late(r)
    BY <2>1, <1>3, LateIs
  <2>2. CASE n = [r EXCEPT !.pc = "poll"]
    BY <2>2, <1>3 DEF Run
  <2>3. CASE n = [r EXCEPT !.pc = "over", !.result = "stopped"] /\ r.cancel = "done"
    BY <2>3, <1>3 DEF Run
  <2> QED  BY <1>5, <2>1, <2>2, <2>3
<1>7. KnowsOK(n, hsJob[k], NoAnswer, hsTotal)
  BY <1>1, <1>2, <1>3, <1>6 DEF KnowsOK
<1>8. ForSomebody(n, hsJob[k], hsFaults')
  BY <1>1, <1>2, <1>3, <1>6 DEF ForSomebody
<1>9. hsAnswer' = [hsAnswer EXCEPT ![k] = NoAnswer]
  BY <1>1, <1>3, <1>4
<1> QED
  BY <1>1, <1>3, <1>5, <1>6, <1>7, <1>8, <1>9, NoAnswerIs, QuietRun, RunStep

LEMMA Loses ==
  ASSUME HiddenInv, NEW k \in HsRuns, HsLoses(k)
  PROVE  HiddenInv'
<1>1. /\ hsRun \in [HsRuns -> Run] /\ hsRun[k] \in Run /\ hsJob[k] \in Job
      /\ hsAnswer \in [HsRuns -> HsAnswers] /\ hsAnswer[k] \in HsAnswers
      /\ hsFaults \in Nat /\ hsFaults \in 0..HsMaxFaults
      /\ KnowsOK(hsRun[k], hsJob[k], hsAnswer[k], hsTotal)
      /\ PageOK(hsRun[k], hsJob[k], hsAnswer[k], hsTotal)
      /\ ErrorOK(hsRun[k], hsJob[k], hsAnswer[k])
  BY LocalIs
<1>2. PICK r \in Run : r = hsRun[k]
  BY <1>1
<1>3. /\ hsFaults < HsMaxFaults /\ hsFaults' = hsFaults + 1
      /\ UNCHANGED <<hsTotal, hsJob, hsLeased>>
  BY DEF HsLoses
<1>4. hsFaults' > 0 /\ hsFaults' >= hsFaults /\ hsFaults' \in 0..HsMaxFaults
  BY <1>1, <1>3, HiddenScanAssumption DEF HiddenScanAssumption
<1>5. \A n : ForSomebody(n, hsJob[k], hsFaults')
  BY <1>4 DEF ForSomebody
<1>6. CASE /\ r.pc \in {"start", "poll"}
           /\ hsRun' = [hsRun EXCEPT ![k] = Thrown(r, "failed")]
           /\ hsAnswer' = [hsAnswer EXCEPT ![k] = NoAnswer]
  <2>1. PICK n \in Run : n = Thrown(r, "failed")
    BY ThrownIs
  <2>2. /\ n.pc = "over" /\ n.result = "failed" /\ n.known = r.known /\ n.got = r.got
        /\ n.cancel = IF r.known /\ r.cancel = "none" THEN "sent" ELSE r.cancel
    BY <2>1, ThrownIs
  <2>3. KnowsOK(n, hsJob[k], NoAnswer, hsTotal)
    BY <1>1, <1>2, <2>2 DEF KnowsOK
  <2> QED
    BY <1>1, <1>3, <1>4, <1>5, <1>6, <2>1, <2>3, NoAnswerIs, QuietRun, RunStep
<1>7. CASE /\ r.cancel = "sent" /\ hsRun' = [hsRun EXCEPT ![k].cancel = "done"]
           /\ UNCHANGED hsAnswer
  <2>1. PICK n : n = [r EXCEPT !.cancel = "done"]
    OBVIOUS
  <2>2. /\ n \in Run /\ n.pc = r.pc /\ n.result = r.result /\ n.known = r.known
        /\ n.got = r.got /\ n.cancel = "done"
    BY <2>1 DEF Run
  <2>3. hsRun' = [hsRun EXCEPT ![k] = n] /\ hsAnswer' = [hsAnswer EXCEPT ![k] = hsAnswer[k]]
    BY <1>1, <1>2, <1>7, <2>1
  <2>4. KnowsOK(n, hsJob[k], hsAnswer[k], hsTotal)
    BY <1>1, <1>2, <1>7, <2>2 DEF KnowsOK
  <2>5. PageOK(n, hsJob[k], hsAnswer[k], hsTotal) /\ ErrorOK(n, hsJob[k], hsAnswer[k])
    BY <1>1, <1>2, <2>2 DEF PageOK, ErrorOK
  <2> QED
    BY <1>1, <1>3, <1>4, <1>5, <2>2, <2>3, <2>4, <2>5, RunStep
<1> QED
  BY <1>2, <1>6, <1>7 DEF HsLoses

(***************************************************************************)
(* The scans.                                                              *)
(***************************************************************************)
LEMMA ScansBegin ==
  ASSUME HiddenScanInit
  PROVE  HiddenInv
<1>1. PICK r : r = [pc |-> "none", known |-> FALSE, got |-> 0, aborted |-> FALSE,
                    cancel |-> "none", result |-> "none"]
  OBVIOUS
<1>2. PICK j : j = [at |-> "none", listed |-> FALSE, items |-> 0, phase |-> "preparing",
                    cancelled |-> FALSE]
  OBVIOUS
<1>3. /\ hsRun = [k \in HsRuns |-> r] /\ hsJob = [k \in HsRuns |-> j]
      /\ hsAnswer = [k \in HsRuns |-> NoAnswer] /\ hsTotal \in HsTotals /\ hsTotal \in Nat
      /\ hsLeased = FALSE /\ hsFaults = 0
  BY <1>1, <1>2 DEF HiddenScanInit
<1>4. /\ r \in Run /\ r.pc = "none" /\ ~r.known /\ r.got = 0 /\ r.cancel = "none"
      /\ r.result = "none"
  BY <1>1 DEF Run
<1>5. /\ j \in Job /\ j.at = "none" /\ ~j.listed /\ j.items = 0 /\ j.phase = "preparing"
      /\ ~j.cancelled
  BY <1>2 DEF Job, HsPhases
<1>6. HsTyped
  <2>1. /\ hsRun \in [HsRuns -> Run] /\ hsJob \in [HsRuns -> Job]
        /\ hsAnswer \in [HsRuns -> HsAnswers]
    BY <1>3, <1>4, <1>5, NoAnswerIs
  <2>2. hsFaults \in 0..HsMaxFaults
    BY <1>3, HiddenScanAssumption DEF HiddenScanAssumption
  <2>3. \A k \in HsRuns : hsAnswer[k] = NoAnswer
    BY <1>3
  <2> QED  BY <1>3, <2>1, <2>2, <2>3 DEF HsTyped, HsTypeOK
<1>7. LeaseOK
  <2>1. \A k \in HsRuns : hsJob[k] = j
    BY <1>3
  <2>2. InSlots(hsJob) = {}
    BY <1>5, <2>1 DEF InSlots, Holds
  <2>3. Cardinality(InSlots(hsJob)) <= HsSlots
    BY <2>2, FS_EmptySet, HiddenScanAssumption DEF HiddenScanAssumption
  <2> QED  BY <1>5, <2>1, <2>3 DEF LeaseOK, AtWork
<1>8. Local(r, j, NoAnswer, hsTotal, hsFaults)
  <2>1. /\ ScanOK(j, hsTotal, hsFaults) /\ KnowsOK(r, j, NoAnswer, hsTotal)
        /\ ForSomebody(r, j, hsFaults)
    BY <1>3, <1>4, <1>5 DEF ScanOK, KnowsOK, ForSomebody, Terminal
  <2> QED  BY <1>4, <1>5, <2>1, QuietRun DEF Local
<1> QED
  BY <1>3, <1>6, <1>7, <1>8 DEF HiddenInv

LEMMA ScansStep ==
  ASSUME HiddenInv, [HiddenScanNext]_hsVars
  PROVE  HiddenInv'
<1>1. CASE HiddenScanNext
  <2>1. PICK k \in HsRuns :
          \/ HsStarts(k) \/ HsPolls(k) \/ HsCancels(k)
          \/ HsEmits(k) \/ HsEnds(k) \/ HsFails(k) \/ HsFinishes(k) \/ HsTaskEnds(k)
          \/ HsExpires(k)
          \/ HsBegins(k) \/ HsAbandons(k) \/ HsReceives(k) \/ HsWakes(k) \/ HsRunStopped(k)
          \/ HsLoses(k)
    BY <1>1 DEF HiddenScanNext
  <2> QED
    BY <2>1, ScanStarts, Polls, Cancels, Emits, Ends, Finishes, Expires, RunBegins, Abandons,
       Receives, Wakes, Loses
<1>2. CASE UNCHANGED hsVars
  BY <1>2 DEF hsVars, HiddenInv, HsTyped, HsTypeOK, LeaseOK, InSlots, Holds
<1> QED
  BY <1>1, <1>2

LEMMA ScansInvariant == HiddenScanSpec => []HiddenInv
<1>1. HiddenScanInit => HiddenInv
  BY ScansBegin
<1>2. HiddenInv /\ [HiddenScanNext]_hsVars => HiddenInv'
  BY ScansStep
<1> QED
  BY <1>1, <1>2, PTL DEF HiddenScanSpec

\* The records of the runs, of their answers and of the scans keep their types
\* (archive/hidden_scan.rs, lib/query/hiddenScan.ts).
THEOREM ScansHaveType == HiddenScanSpec => []HsTypeOK
<1>1. HiddenInv => HsTypeOK
  BY DEF HiddenInv, HsTyped
<1> QED
  BY <1>1, ScansInvariant, PTL

\* A run that ends as complete holds every candidate, whatever the pages, stops and
\* runs that crossed it; no page is refused as inconsistent, no start for want of a
\* slot; and while no fault happens, no scan works on for a run that is over with its
\* requests answered (hidden_scan.rs 133-163, 193-206, 308-325, hiddenScan.ts 5-17,
\* 41-68).
THEOREM ScansAreWholeOrStopped == HiddenScanSpec => []ScanIsWholeOrStopped
<1>1. ASSUME HiddenInv PROVE ScanIsWholeOrStopped
  <2>1. ASSUME NEW k \in HsRuns
        PROVE  /\ hsRun[k].result = "complete" => hsRun[k].got = hsTotal
               /\ hsRun[k].result \notin {"mismatch", "full"}
               /\ hsRun[k].pc = "over" /\ hsRun[k].cancel # "sent" /\ hsFaults = 0 =>
                    hsJob[k].at # "working" \/ hsJob[k].cancelled
    <3>1. /\ KnowsOK(hsRun[k], hsJob[k], hsAnswer[k], hsTotal)
          /\ ForSomebody(hsRun[k], hsJob[k], hsFaults)
      BY <1>1, LocalIs
    <3> QED  BY <3>1 DEF KnowsOK, ForSomebody
  <2> QED  BY <2>1 DEF ScanIsWholeOrStopped
<1> QED
  BY <1>1, ScansInvariant, PTL

(***************************************************************************)
(* III. The subscription of the interface.                                 *)
(***************************************************************************)
USE RuntimeAssumption DEF RuntimeAssumption

\* The attaches that were made, and those that took their intent.
Made == {s \in Subscriptions : duCalls[s] # NoSubscription}
Begun(s) == duCalls[s].stage \notin {"none", "sent"}

\* Attaches are made and begin in the order of their numbers.
CallsOrdered ==
  /\ \E n \in 0..DuMaxCalls : Made = 1..n
  /\ \A r, s \in Subscriptions : r < s /\ Begun(s) =>
       Begun(r) /\ duCalls[r].intent < duCalls[s].intent
  /\ \A s \in Made : duCalls[s].rev <= duUiRev /\ duCalls[s].intent <= duIntent

\* The attach of the current run is the last one.
RunOK == duRun # 0 =>
  /\ duVisible /\ duRun \in Made /\ duRun \notin duReleases
  /\ duCalls[duRun].thread = duThread /\ duCalls[duRun].rev = duUiRev
  /\ \A s \in Made : s <= duRun
  /\ duCalls[duRun].stage = "accepted" => duSelection = duRun

\* What is shown is selected, and only the run that is current shows anything.
ShownOK ==
  /\ duHeld \in {0, duView} /\ duView \in {0, duRun}
  /\ duView # 0 => duSelection = duView

\* Somebody will release the selected subscription, or it is of an older revision.
SelectedOK == duSelection # 0 =>
  /\ duSelection \in Made /\ duCalls[duSelection].stage \in {"accepted", "over"}
  /\ duCalls[duSelection].stage = "over" =>
       \/ duSelection = duHeld \/ duSelection \in duReleases
       \/ duCalls[duSelection].rev < duUiRev

\* What is on its way speaks of subscriptions that were made, to the thread shown then.
SentOK ==
  /\ duReleases \subseteq Made
  /\ \A a \in duActions : a.of \in Made /\ duCalls[a.of].thread = a.shown
  /\ \A g \in duGiven : g[1] = g[2]

\* The revision of the interface is behind only while it does not know of a change.
ChangeOK ==
  /\ duUiRev # duRevision => duChanging = "changed"
  /\ duChanging \in {"cleaning", "requested"} => duRevision < DuMaxRevision

RuntimeInv ==
  DuTypeOK /\ CallsOrdered /\ RunOK /\ ShownOK /\ SelectedOK /\ SentOK /\ ChangeOK

(***************************************************************************)
(* Calls.                                                                  *)
(***************************************************************************)
LEMMA RuntimeIs ==
  ASSUME RuntimeInv
  PROVE  /\ duThread \in DuThreads /\ duAsked \in BOOLEAN /\ duVisible \in BOOLEAN
         /\ duRun \in {0} \cup Subscriptions /\ duHeld \in {0} \cup Subscriptions
         /\ duView \in {0} \cup Subscriptions /\ duSelection \in {0} \cup Subscriptions
         /\ duChanging \in {"no", "cleaning", "requested", "changed", "failed"}
         /\ duRevision \in Nat /\ duRevision \in 0..DuMaxRevision
         /\ duUiRev \in Nat /\ duUiRev <= duRevision /\ duLocalAt \subseteq 0..DuMaxRevision
         /\ duIntent \in Nat /\ duWorkers \in [DuThreads -> {"none", "live", "closed"}]
         /\ duCalls \in [Subscriptions -> AttachCall \cup {NoSubscription}]
         /\ duReleases \subseteq Subscriptions
         /\ duActions \subseteq [of : Subscriptions, shown : DuThreads]
         /\ duGiven \subseteq DuThreads \X DuThreads
<1> QED
  BY DEF RuntimeInv, DuTypeOK

LEMMA MadeIs ==
  ASSUME RuntimeInv
  PROVE  /\ Subscriptions \subseteq Nat \ {0} /\ Made \subseteq Subscriptions
         /\ \A s \in Subscriptions :
              /\ s \in Made <=> duCalls[s].stage # "none"
              /\ s \in Made => duCalls[s] \in AttachCall /\ duCalls[s].rev \in Nat
                               /\ duCalls[s].intent \in Nat /\ duCalls[s].thread \in DuThreads
              /\ Begun(s) => s \in Made
<1>1. duCalls \in [Subscriptions -> AttachCall \cup {NoSubscription}]
  BY RuntimeIs
<1>2. \A c \in AttachCall : c.stage # "none" /\ c.rev \in Nat /\ c.intent \in Nat
                           /\ c.thread \in DuThreads /\ c # NoSubscription
  BY DEF AttachCall, NoSubscription
<1>3. NoSubscription.stage = "none"
  BY DEF NoSubscription
<1>4. Subscriptions \subseteq Nat \ {0}
  BY DEF Subscriptions
<1>5. ASSUME NEW s \in Subscriptions
      PROVE  /\ s \in Made <=> duCalls[s].stage # "none"
             /\ s \in Made => duCalls[s] \in AttachCall
             /\ Begun(s) => s \in Made
  BY <1>1, <1>2, <1>3 DEF Made, Begun
<1> QED
  BY <1>2, <1>4, <1>5 DEF Made

\* The step of an attach that was made.
LEMMA CallStep ==
  ASSUME RuntimeInv, NEW s \in Made, NEW d \in AttachCall,
         d.thread = duCalls[s].thread, d.rev = duCalls[s].rev,
         duCalls' = [duCalls EXCEPT ![s] = d]
  PROVE  /\ duCalls' \in [Subscriptions -> AttachCall \cup {NoSubscription}]
         /\ duCalls'[s] = d /\ \A r \in Subscriptions \ {s} : duCalls'[r] = duCalls[r]
         /\ \A r \in Subscriptions : /\ duCalls'[r].thread = duCalls[r].thread
                                     /\ duCalls'[r].rev = duCalls[r].rev
         /\ Made' = Made
<1>1. /\ duCalls \in [Subscriptions -> AttachCall \cup {NoSubscription}]
      /\ s \in Subscriptions /\ Made \subseteq Subscriptions
  BY RuntimeIs, MadeIs
<1>2. /\ duCalls' \in [Subscriptions -> AttachCall \cup {NoSubscription}]
      /\ duCalls'[s] = d /\ \A r \in Subscriptions \ {s} : duCalls'[r] = duCalls[r]
  BY <1>1
<1>3. d # NoSubscription
  BY DEF AttachCall, NoSubscription
<1>4. Made' = Made
  BY <1>2, <1>3 DEF Made
<1> QED
  BY <1>2, <1>4

\* An attach that took its intent goes on.
LEMMA OrderKept ==
  ASSUME RuntimeInv, NEW s \in Made, NEW d \in AttachCall, Begun(s),
         d.thread = duCalls[s].thread, d.rev = duCalls[s].rev, d.intent = duCalls[s].intent,
         d.stage # "sent", duCalls' = [duCalls EXCEPT ![s] = d],
         duUiRev' = duUiRev, duIntent' = duIntent
  PROVE  CallsOrdered'
<1>1. /\ duCalls'[s] = d /\ \A r \in Subscriptions \ {s} : duCalls'[r] = duCalls[r]
      /\ Made' = Made /\ Made \subseteq Subscriptions
  BY CallStep, MadeIs
<1>2. d.stage # "none"
  BY DEF AttachCall
<1>3. \A r \in Subscriptions : /\ Begun(r)' <=> Begun(r)
                              /\ duCalls'[r].intent = duCalls[r].intent
                              /\ duCalls'[r].rev = duCalls[r].rev
  BY <1>1, <1>2 DEF Begun
<1>4. CallsOrdered
  BY DEF RuntimeInv
<1> QED
  BY <1>1, <1>3, <1>4 DEF CallsOrdered

\* No attach changes.
LEMMA CallsKept ==
  ASSUME RuntimeInv, duCalls' = duCalls, duUiRev' \in Nat, duUiRev' >= duUiRev,
         duIntent' \in Nat, duIntent' >= duIntent
  PROVE  CallsOrdered' /\ Made' = Made
<1>1. Made' = Made /\ \A s \in Subscriptions : Begun(s)' <=> Begun(s)
  BY DEF Made, Begun
<1>2. CallsOrdered /\ duUiRev \in Nat /\ duIntent \in Nat
  BY RuntimeIs DEF RuntimeInv
<1>3. ASSUME NEW s \in Made PROVE duCalls[s].rev <= duUiRev' /\ duCalls[s].intent <= duIntent'
  <2>1. s \in Subscriptions /\ duCalls[s].rev \in Nat /\ duCalls[s].intent \in Nat
    BY MadeIs
  <2> QED  BY <1>2, <2>1 DEF CallsOrdered
<1> QED
  BY <1>1, <1>2, <1>3 DEF CallsOrdered

\* A run of the effect is left: nothing is shown, and what was held will be released.
LEMMA LeaveStep ==
  ASSUME RuntimeInv, duRun' = 0, duHeld' = 0, duView' = 0, duReleases' = Unmounting,
         duUiRev' \in Nat, duUiRev' >= duUiRev,
         UNCHANGED <<duCalls, duSelection, duIntent, duActions, duGiven>>
  PROVE  /\ CallsOrdered' /\ RunOK' /\ ShownOK' /\ SelectedOK' /\ SentOK'
         /\ duReleases' \subseteq Subscriptions
<1>1. /\ ShownOK /\ RunOK /\ SelectedOK /\ SentOK
      /\ duIntent \in Nat /\ duUiRev \in Nat /\ duReleases \subseteq Subscriptions
      /\ duHeld \in {0} \cup Subscriptions
  BY RuntimeIs DEF RuntimeInv
<1>2. CallsOrdered' /\ Made' = Made /\ duIntent' = duIntent
  BY <1>1, CallsKept
<1>3. RunOK' /\ ShownOK'
  BY DEF RunOK, ShownOK
<1>4. duHeld # 0 => duHeld \in Made
  BY <1>1 DEF ShownOK, RunOK
<1>5. SentOK' /\ duReleases' \subseteq Subscriptions
  BY <1>1, <1>2, <1>4 DEF SentOK, Unmounting
<1>6. SelectedOK'
  <2>1. ASSUME duSelection # 0
        PROVE  /\ duSelection \in Made /\ duCalls[duSelection].stage \in {"accepted", "over"}
               /\ duCalls[duSelection].stage = "over" =>
                    duSelection \in duReleases' \/ duCalls[duSelection].rev < duUiRev'
    <3>1. duSelection \in Made /\ duCalls[duSelection].rev \in Nat
      BY <1>1, <2>1, MadeIs DEF SelectedOK
    <3> QED  BY <1>1, <2>1, <3>1 DEF SelectedOK, Unmounting
  <2> QED  BY <1>2, <2>1 DEF SelectedOK
<1> QED
  BY <1>2, <1>3, <1>5, <1>6

\* The effect attaches.
LEMMA AttachStep ==
  ASSUME RuntimeInv, NEW confirm \in BOOLEAN, NEW rev \in 0..DuMaxRevision, rev >= duUiRev,
         NEW s, s = Cardinality(Made) + 1, s <= DuMaxCalls,
         duRun' = s, duHeld' = 0, duView' = 0, duReleases' = Unmounting,
         duCalls' = [duCalls EXCEPT ![s] = [stage |-> "sent", thread |-> duThread,
                                            confirm |-> confirm, rev |-> rev, intent |-> 0]],
         duUiRev' = rev, duVisible' = TRUE, duThread' = duThread,
         UNCHANGED <<duSelection, duIntent, duActions, duGiven>>
  PROVE  /\ CallsOrdered' /\ RunOK' /\ ShownOK' /\ SelectedOK' /\ SentOK'
         /\ duReleases' \subseteq Subscriptions /\ duRun' \in Subscriptions
         /\ duCalls' \in [Subscriptions -> AttachCall \cup {NoSubscription}]
<1>1. /\ ShownOK /\ RunOK /\ SelectedOK /\ SentOK /\ CallsOrdered /\ duThread \in DuThreads
      /\ duIntent \in Nat /\ duUiRev \in Nat /\ duReleases \subseteq Subscriptions
      /\ duHeld \in {0} \cup Subscriptions /\ rev \in Nat
      /\ duCalls \in [Subscriptions -> AttachCall \cup {NoSubscription}]
  BY RuntimeIs DEF RuntimeInv
<1>2. PICK n \in 0..DuMaxCalls : Made = 1..n
  BY <1>1 DEF CallsOrdered
<1>3. s = n + 1 /\ n \in Nat /\ s \in Subscriptions /\ s \notin Made
  <2>1. n \in Nat /\ Cardinality(1..n) = n
    BY <1>2, FS_Interval
  <2>2. s = n + 1
    BY <1>2, <2>1
  <2> QED  BY <1>2, <2>1, <2>2, RuntimeAssumption DEF RuntimeAssumption, Subscriptions
<1>4. PICK d : d = [stage |-> "sent", thread |-> duThread, confirm |-> confirm, rev |-> rev,
                    intent |-> 0]
  OBVIOUS
<1>5. /\ d \in AttachCall /\ d.stage = "sent" /\ d.thread = duThread /\ d.rev = rev
      /\ d.intent = 0
  BY <1>1, <1>4 DEF AttachCall
<1>6. /\ duCalls' \in [Subscriptions -> AttachCall \cup {NoSubscription}]
      /\ duCalls'[s] = d /\ \A r \in Subscriptions \ {s} : duCalls'[r] = duCalls[r]
  BY <1>1, <1>3, <1>4, <1>5
<1>7. Made' = Made \cup {s} /\ Made' = 1..(n + 1)
  <2>1. d # NoSubscription
    BY <1>5 DEF NoSubscription
  <2>2. Made' = Made \cup {s}
    BY <1>3, <1>6, <2>1 DEF Made
  <2> QED  BY <1>2, <1>3, <2>2
<1>8. CallsOrdered'
  <2>1. n + 1 \in 0..DuMaxCalls
    BY <1>2, <1>3
  <2>2. ~Begun(s) /\ ~Begun(s)' /\ \A r \in Subscriptions \ {s} : Begun(r)' <=> Begun(r)
    BY <1>3, <1>5, <1>6, MadeIs DEF Begun
  <2>3. \A r, q \in Subscriptions : r < q /\ Begun(q)' =>
          Begun(r)' /\ duCalls'[r].intent < duCalls'[q].intent
    <3>1. ASSUME NEW r \in Subscriptions, NEW q \in Subscriptions, r < q, Begun(q)'
          PROVE  Begun(r)' /\ duCalls'[r].intent < duCalls'[q].intent
      <4>1. q # s /\ Begun(q)
        BY <2>2, <3>1
      <4>2. Begun(r) /\ duCalls[r].intent < duCalls[q].intent
        BY <1>1, <3>1, <4>1 DEF CallsOrdered
      <4>3. r # s
        BY <2>2, <4>2
      <4> QED  BY <1>6, <2>2, <4>1, <4>2, <4>3
    <3> QED  BY <3>1
  <2>4. \A r \in Made : duCalls'[r].rev <= rev /\ duCalls'[r].intent <= duIntent
    <3>1. ASSUME NEW r \in Made PROVE duCalls'[r].rev <= rev /\ duCalls'[r].intent <= duIntent
      <4>1. r \in Subscriptions /\ r # s /\ duCalls[r].rev \in Nat /\ duCalls[r].intent \in Nat
        BY <1>3, MadeIs
      <4>2. duCalls[r].rev <= duUiRev /\ duCalls[r].intent <= duIntent
        BY <1>1 DEF CallsOrdered
      <4> QED  BY <1>1, <1>6, <4>1, <4>2
    <3> QED  BY <3>1
  <2>5. duCalls'[s].rev <= rev /\ duCalls'[s].intent <= duIntent
    BY <1>1, <1>5, <1>6
  <2>6. /\ \E m \in 0..DuMaxCalls : Made' = 1..m
        /\ \A r \in Made' : duCalls'[r].rev <= duUiRev' /\ duCalls'[r].intent <= duIntent'
    BY <1>7, <2>1, <2>4, <2>5
  <2> QED  BY <2>3, <2>6 DEF CallsOrdered
<1>9. duHeld # 0 => duHeld \in Made
  BY <1>1 DEF ShownOK, RunOK
<1>10. duReleases' \subseteq Made
  BY <1>1, <1>9 DEF SentOK, Unmounting
<1>11. RunOK'
  <2>1. \A r \in Made' : r <= s
    BY <1>3, <1>7
  <2> QED  BY <1>3, <1>5, <1>6, <1>7, <1>10, <2>1 DEF RunOK
<1>12. ShownOK'
  BY DEF ShownOK
<1>13. SentOK'
  <2>1. \A a \in duActions : a.of \in Made /\ duCalls'[a.of].thread = a.shown
    BY <1>1, <1>3, <1>6, MadeIs DEF SentOK
  <2> QED  BY <1>1, <1>7, <1>10, <2>1 DEF SentOK
<1>14. SelectedOK'
  <2>1. ASSUME duSelection # 0
        PROVE  /\ duSelection \in Made /\ duCalls'[duSelection].stage \in {"accepted", "over"}
               /\ duCalls'[duSelection].stage = "over" =>
                    duSelection \in duReleases' \/ duCalls'[duSelection].rev < rev
    <3>1. duSelection \in Made /\ duCalls[duSelection].rev \in Nat
          /\ duCalls'[duSelection] = duCalls[duSelection]
      BY <1>1, <1>3, <1>6, <2>1, MadeIs DEF SelectedOK
    <3> QED  BY <1>1, <2>1, <3>1 DEF SelectedOK, Unmounting
  <2> QED  BY <1>7, <2>1 DEF SelectedOK
<1> QED
  BY <1>3, <1>6, <1>8, <1>10, <1>11, <1>12, <1>13, <1>14, MadeIs

LEMMA EffectStep ==
  ASSUME RuntimeInv, NEW asked \in BOOLEAN, NEW visible \in BOOLEAN, NEW confirm \in BOOLEAN,
         NEW rev \in 0..DuMaxRevision, NEW may \in BOOLEAN, rev >= duUiRev,
         Effect(asked, visible, confirm, rev, may),
         duUiRev' = rev, duVisible' = visible, duThread' = duThread,
         UNCHANGED <<duSelection, duIntent, duActions, duGiven>>
  PROVE  /\ CallsOrdered' /\ RunOK' /\ ShownOK' /\ SelectedOK' /\ SentOK'
         /\ duReleases' \subseteq Subscriptions /\ duRun' \in {0} \cup Subscriptions
         /\ duHeld' = 0 /\ duView' = 0
         /\ duCalls' \in [Subscriptions -> AttachCall \cup {NoSubscription}]
<1>1. duHeld' = 0 /\ duView' = 0 /\ duReleases' = Unmounting
  BY DEF Effect
<1>2. CASE asked /\ visible /\ may /\ rev \in duLocalAt
  <2>1. PICK s : s = Cardinality(Made) + 1
    OBVIOUS
  <2>2. /\ s <= DuMaxCalls /\ duRun' = s
        /\ duCalls' = [duCalls EXCEPT ![s] = [stage |-> "sent", thread |-> duThread,
                                              confirm |-> confirm, rev |-> rev, intent |-> 0]]
    BY <1>2, <2>1 DEF Effect, Made
  <2> QED
    BY <1>1, <1>2, <2>1, <2>2, AttachStep
<1>3. CASE ~(asked /\ visible /\ may /\ rev \in duLocalAt)
  <2>1. duRun' = 0 /\ duCalls' = duCalls
    BY <1>3 DEF Effect
  <2> QED
    BY <1>1, <2>1, LeaveStep, RuntimeIs
<1> QED
  BY <1>2, <1>3

(***************************************************************************)
(* The interface.                                                          *)
(***************************************************************************)
LEMMA OpensThread ==
  ASSUME RuntimeInv, NEW t \in DuThreads, DuOpens(t)
  PROVE  RuntimeInv'
<1>1. /\ duThread' = t /\ duAsked' = FALSE /\ duRun' = 0 /\ duHeld' = 0 /\ duView' = 0
      /\ duReleases' = Unmounting
      /\ UNCHANGED <<duVisible, duMachine, duBridge, duCalls, duActions, duGiven>>
  BY DEF DuOpens
<1>2. /\ CallsOrdered' /\ RunOK' /\ ShownOK' /\ SelectedOK' /\ SentOK'
      /\ duReleases' \subseteq Subscriptions
  BY <1>1, RuntimeIs, LeaveStep DEF duMachine, duBridge
<1>3. DuTypeOK' /\ ChangeOK'
  BY <1>1, <1>2 DEF RuntimeInv, DuTypeOK, ChangeOK, duMachine, duBridge
<1> QED
  BY <1>2, <1>3 DEF RuntimeInv

LEMMA EffectRuns ==
  ASSUME RuntimeInv, DuConnects \/ DuHidesOrShows
  PROVE  RuntimeInv'
<1>1. PICK confirm \in BOOLEAN :
        /\ Effect(duAsked', duVisible', confirm, duUiRev, MayAsk)
        /\ duAsked' \in BOOLEAN /\ duVisible' \in BOOLEAN
        /\ UNCHANGED <<duThread, duMachine, duBridge, duActions, duGiven>>
  BY RuntimeIs DEF DuConnects, DuHidesOrShows
<1>2. MayAsk \in BOOLEAN /\ duUiRev \in 0..DuMaxRevision /\ duUiRev >= duUiRev
  BY RuntimeIs DEF MayAsk
<1>3. PICK asked \in BOOLEAN : asked = duAsked'
  BY <1>1
<1>4. PICK visible \in BOOLEAN : visible = duVisible'
  BY <1>1
<1>5. PICK may \in BOOLEAN : may = MayAsk
  BY <1>2
<1>6. Effect(asked, visible, confirm, duUiRev, may)
  BY <1>1, <1>3, <1>4, <1>5
<1>7. /\ UNCHANGED <<duUiRev, duThread, duSelection, duIntent, duActions, duGiven>>
      /\ UNCHANGED <<duChanging, duRevision, duLocalAt, duWorkers>>
  BY <1>1 DEF duMachine, duBridge
<1>8. /\ CallsOrdered' /\ RunOK' /\ ShownOK' /\ SelectedOK' /\ SentOK'
      /\ duReleases' \subseteq Subscriptions /\ duRun' \in {0} \cup Subscriptions
      /\ duHeld' = 0 /\ duView' = 0
      /\ duCalls' \in [Subscriptions -> AttachCall \cup {NoSubscription}]
  BY <1>2, <1>4, <1>6, <1>7, EffectStep
<1>9. DuTypeOK' /\ ChangeOK'
  BY <1>1, <1>7, <1>8 DEF RuntimeInv, DuTypeOK, ChangeOK
<1> QED
  BY <1>8, <1>9 DEF RuntimeInv

LEMMA ChangeBegins ==
  ASSUME RuntimeInv, DuChangeBegins
  PROVE  RuntimeInv'
<1>1. /\ duChanging = "no" /\ duRevision < DuMaxRevision /\ duChanging' = "cleaning"
      /\ duAsked' = FALSE /\ duRun' = 0 /\ duHeld' = 0 /\ duView' = 0 /\ duReleases' = Unmounting
      /\ UNCHANGED <<duThread, duVisible, duUiRev, duRevision, duLocalAt, duBridge, duCalls,
                     duActions, duGiven>>
  BY DEF DuChangeBegins
<1>2. /\ CallsOrdered' /\ RunOK' /\ ShownOK' /\ SelectedOK' /\ SentOK'
      /\ duReleases' \subseteq Subscriptions
  BY <1>1, RuntimeIs, LeaveStep DEF duBridge
<1>3. DuTypeOK' /\ ChangeOK'
  BY <1>1, <1>2 DEF RuntimeInv, DuTypeOK, ChangeOK, duBridge
<1> QED
  BY <1>2, <1>3 DEF RuntimeInv

\* A step of the change, of a worker or of an action leaves the calls and what is shown.
LEMMA QuietStep ==
  ASSUME RuntimeInv,
         UNCHANGED <<duThread, duVisible, duShown, duUiRev, duIntent, duSelection, duCalls,
                     duReleases>>,
         \A a \in duActions' : a.of \in Made /\ duCalls[a.of].thread = a.shown,
         \A g \in duGiven' : g[1] = g[2]
  PROVE  CallsOrdered' /\ RunOK' /\ ShownOK' /\ SelectedOK' /\ SentOK'
<1>1. CallsOrdered' /\ Made' = Made
  BY RuntimeIs, CallsKept
<1>2. RunOK' /\ ShownOK' /\ SelectedOK' /\ SentOK'
  BY <1>1 DEF RuntimeInv, RunOK, ShownOK, SelectedOK, SentOK, duShown
<1> QED
  BY <1>1, <1>2

LEMMA MachineChanges ==
  ASSUME RuntimeInv, DuChangeSent \/ DuMachineChanges
  PROVE  RuntimeInv'
<1>1. UNCHANGED <<duPage, duShown, duUiRev, duBridge, duSent>>
  BY DEF DuChangeSent, DuMachineChanges
<1>2. SentOK
  BY DEF RuntimeInv
<1>3. CallsOrdered' /\ RunOK' /\ ShownOK' /\ SelectedOK' /\ SentOK'
  BY <1>1, <1>2, QuietStep DEF duPage, duBridge, duSent, SentOK
<1>4. /\ duRevision \in Nat /\ duRevision \in 0..DuMaxRevision /\ duUiRev \in Nat
      /\ duUiRev <= duRevision /\ duLocalAt \subseteq 0..DuMaxRevision /\ ChangeOK
  BY RuntimeIs DEF RuntimeInv
<1>5. /\ duRevision' \in 0..DuMaxRevision /\ duUiRev <= duRevision'
      /\ duLocalAt' \subseteq 0..DuMaxRevision
      /\ duChanging' \in {"no", "cleaning", "requested", "changed", "failed"} /\ ChangeOK'
  <2>1. CASE DuChangeSent
    BY <1>1, <1>4, <2>1 DEF DuChangeSent, ChangeOK
  <2>2. CASE DuMachineChanges /\ duChanging' = "changed"
    <3>1. /\ duChanging = "requested" /\ duRevision' = duRevision + 1
          /\ \E local \in SUBSET {duRevision + 1} : duLocalAt' = duLocalAt \cup local
      BY <2>2 DEF DuMachineChanges
    <3>2. duRevision + 1 \in 0..DuMaxRevision
      BY <1>4, <3>1 DEF ChangeOK
    <3> QED  BY <1>1, <1>4, <2>2, <3>1, <3>2 DEF ChangeOK
  <2>3. CASE DuMachineChanges /\ duChanging' # "changed"
    BY <1>1, <1>4, <2>3 DEF DuMachineChanges, ChangeOK
  <2> QED  BY <2>1, <2>2, <2>3
<1>6. DuTypeOK'
  BY <1>1, <1>4, <1>5 DEF RuntimeInv, DuTypeOK, duPage, duShown, duBridge, duSent
<1> QED
  BY <1>3, <1>5, <1>6 DEF RuntimeInv

LEMMA ChangeKnown ==
  ASSUME RuntimeInv, DuChangeKnown
  PROVE  RuntimeInv'
<1>1. /\ duChanging \in {"changed", "failed"} /\ duChanging' = "no" /\ duUiRev' = duRevision
      /\ UNCHANGED <<duPage, duRevision, duLocalAt, duBridge, duActions, duGiven>>
      /\ duThread' = duThread /\ duVisible' = duVisible /\ duAsked' = duAsked
  BY DEF DuChangeKnown, duPage
<1>2. CASE duUiRev = duRevision
  <2>1. UNCHANGED <<duShown, duCalls, duReleases, duUiRev>>
    BY <1>1, <1>2 DEF DuChangeKnown
  <2>2. CallsOrdered' /\ RunOK' /\ ShownOK' /\ SelectedOK' /\ SentOK'
    BY <1>1, <2>1, QuietStep DEF duBridge, RuntimeInv, SentOK
  <2>3. DuTypeOK' /\ ChangeOK'
    BY <1>1, <1>2, <2>1 DEF RuntimeInv, DuTypeOK, ChangeOK, duShown, duBridge
  <2> QED  BY <2>2, <2>3 DEF RuntimeInv
<1>3. CASE duUiRev # duRevision
  <2>1. Effect(duAsked, duVisible, FALSE, duRevision, TRUE)
    BY <1>3 DEF DuChangeKnown
  <2>2. /\ duRevision \in 0..DuMaxRevision /\ duRevision >= duUiRev /\ duAsked \in BOOLEAN
        /\ duVisible \in BOOLEAN /\ UNCHANGED <<duSelection, duIntent, duActions, duGiven>>
    BY <1>1, RuntimeIs DEF duBridge
  <2>3. /\ CallsOrdered' /\ RunOK' /\ ShownOK' /\ SelectedOK' /\ SentOK'
        /\ duReleases' \subseteq Subscriptions /\ duRun' \in {0} \cup Subscriptions
        /\ duHeld' = 0 /\ duView' = 0
        /\ duCalls' \in [Subscriptions -> AttachCall \cup {NoSubscription}]
    BY <1>1, <2>1, <2>2, EffectStep
  <2>4. DuTypeOK' /\ ChangeOK'
    BY <1>1, <2>2, <2>3, RuntimeIs DEF RuntimeInv, DuTypeOK, ChangeOK, duBridge
  <2> QED  BY <2>3, <2>4 DEF RuntimeInv
<1> QED
  BY <1>2, <1>3

LEMMA Acts ==
  ASSUME RuntimeInv, DuActs \/ (\E a \in duActions : DuActionGiven(a))
  PROVE  RuntimeInv'
<1>1. UNCHANGED <<duPage, duShown, duMachine, duBridge, duCalls, duReleases>>
  BY DEF DuActs, DuActionGiven
<1>2. /\ SentOK /\ ShownOK /\ RunOK
      /\ duActions \subseteq [of : Subscriptions, shown : DuThreads]
      /\ duGiven \subseteq DuThreads \X DuThreads
      /\ duView \in {0} \cup Subscriptions /\ duThread \in DuThreads
  BY RuntimeIs DEF RuntimeInv
<1>3. /\ duActions' \subseteq [of : Subscriptions, shown : DuThreads]
      /\ duGiven' \subseteq DuThreads \X DuThreads
      /\ \A a \in duActions' : a.of \in Made /\ duCalls[a.of].thread = a.shown
      /\ \A g \in duGiven' : g[1] = g[2]
  <2>1. CASE DuActs
    <3>1. /\ duView # 0 /\ duGiven' = duGiven
          /\ duActions' = duActions \cup {[of |-> duView, shown |-> duThread]}
      BY <2>1 DEF DuActs
    <3>2. duView \in Made /\ duCalls[duView].thread = duThread
      BY <1>2, <3>1 DEF ShownOK, RunOK
    <3> QED  BY <1>2, <3>1, <3>2 DEF SentOK
  <2>2. ASSUME NEW a \in duActions, DuActionGiven(a)
        PROVE  /\ duActions' \subseteq duActions
               /\ duGiven' \subseteq DuThreads \X DuThreads
               /\ \A g \in duGiven' : g[1] = g[2]
    <3>1. /\ duActions' = duActions \ {a}
          /\ \/ duGiven' = duGiven
             \/ /\ duSelection = a.of
                /\ duGiven' = duGiven \cup {<<a.shown, duCalls[duSelection].thread>>}
      BY <2>2 DEF DuActionGiven
    <3>2. a.shown \in DuThreads /\ duCalls[a.of].thread = a.shown
      BY <1>2 DEF SentOK
    <3> QED  BY <1>2, <3>1, <3>2 DEF SentOK
  <2> QED  BY <1>2, <2>1, <2>2 DEF SentOK
<1>4. CallsOrdered' /\ RunOK' /\ ShownOK' /\ SelectedOK' /\ SentOK'
  BY <1>1, <1>3, QuietStep DEF duPage, duMachine, duBridge
<1>5. DuTypeOK' /\ ChangeOK'
  BY <1>1, <1>3 DEF RuntimeInv, DuTypeOK, ChangeOK, duPage, duShown, duMachine, duBridge
<1> QED
  BY <1>4, <1>5 DEF RuntimeInv

LEMMA WorkerEnds ==
  ASSUME RuntimeInv, NEW t \in DuThreads, DuWorkerEnds(t)
  PROVE  RuntimeInv'
<1>1. /\ UNCHANGED <<duPage, duShown, duMachine, duIntent, duSelection, duSent>>
      /\ duWorkers' = [duWorkers EXCEPT ![t] = "closed"]
  BY DEF DuWorkerEnds
<1>2. CallsOrdered' /\ RunOK' /\ ShownOK' /\ SelectedOK' /\ SentOK'
  BY <1>1, QuietStep DEF duPage, duMachine, duSent, RuntimeInv, SentOK
<1>3. DuTypeOK' /\ ChangeOK'
  BY <1>1 DEF RuntimeInv, DuTypeOK, ChangeOK, duPage, duShown, duMachine, duSent
<1> QED
  BY <1>2, <1>3 DEF RuntimeInv

(***************************************************************************)
(* The bridge.                                                             *)
(***************************************************************************)
\* An attach that goes on without being accepted or answered.
LEMMA AttachGoesOn ==
  ASSUME RuntimeInv, NEW s \in Made, NEW d \in AttachCall,
         duCalls[s].stage \notin {"accepted", "over"}, d.stage # "accepted",
         d.thread = duCalls[s].thread, d.rev = duCalls[s].rev,
         duCalls' = [duCalls EXCEPT ![s] = d], CallsOrdered',
         UNCHANGED <<duPage, duShown, duMachine, duSelection, duReleases, duActions, duGiven>>,
         duIntent' \in Nat, duWorkers' \in [DuThreads -> {"none", "live", "closed"}]
  PROVE  RuntimeInv'
<1>1. /\ duCalls' \in [Subscriptions -> AttachCall \cup {NoSubscription}]
      /\ duCalls'[s] = d /\ \A r \in Subscriptions \ {s} : duCalls'[r] = duCalls[r]
      /\ \A r \in Subscriptions : /\ duCalls'[r].thread = duCalls[r].thread
                                  /\ duCalls'[r].rev = duCalls[r].rev
      /\ Made' = Made /\ Made \subseteq Subscriptions
  BY CallStep, MadeIs
<1>2. RunOK /\ ShownOK /\ SelectedOK /\ SentOK /\ ChangeOK /\ DuTypeOK
  BY DEF RuntimeInv
<1>3. RunOK'
  BY <1>1, <1>2 DEF RunOK, duPage, duShown, duMachine
<1>4. ShownOK' /\ ChangeOK'
  BY <1>2 DEF ShownOK, ChangeOK, duShown, duMachine
<1>5. SelectedOK'
  <2>1. duSelection # 0 => duSelection \in Subscriptions \ {s}
    BY <1>1, <1>2 DEF SelectedOK
  <2> QED  BY <1>1, <1>2, <2>1 DEF SelectedOK, duShown, duMachine
<1>6. SentOK'
  BY <1>1, <1>2 DEF SentOK
<1>7. DuTypeOK'
  BY <1>1, <1>2 DEF DuTypeOK, duPage, duShown, duMachine
<1> QED
  BY <1>3, <1>4, <1>5, <1>6, <1>7 DEF RuntimeInv

LEMMA AttachBegins ==
  ASSUME RuntimeInv, NEW s \in Subscriptions, DuAttachBegins(s)
  PROVE  RuntimeInv'
<1>1. /\ duCalls[s].stage = "sent" /\ \A r \in 1..(s - 1) : duCalls[r].stage # "sent"
      /\ duIntent' = duIntent + 1
      /\ UNCHANGED <<duPage, duShown, duMachine, duSelection, duWorkers, duReleases, duActions,
                     duGiven>>
  BY DEF DuAttachBegins
<1>2. /\ s \in Made /\ duCalls[s] \in AttachCall /\ duIntent \in Nat /\ duIntent + 1 \in Nat
      /\ duCalls \in [Subscriptions -> AttachCall \cup {NoSubscription}]
      /\ Subscriptions \subseteq Nat \ {0} /\ CallsOrdered
  BY <1>1, RuntimeIs, MadeIs DEF RuntimeInv
<1>3. PICK d : d = [duCalls[s] EXCEPT !.intent = duIntent + 1,
                                     !.stage = IF RequireLocal(duCalls[s].rev) THEN "connecting"
                                               ELSE "refused"]
  OBVIOUS
<1>4. /\ d \in AttachCall /\ d.thread = duCalls[s].thread /\ d.rev = duCalls[s].rev
      /\ d.intent = duIntent + 1 /\ d.stage \in {"connecting", "refused"}
  BY <1>2, <1>3 DEF AttachCall
<1>5. duCalls' = [duCalls EXCEPT ![s] = d]
  BY <1>2, <1>3 DEF DuAttachBegins
<1>6. /\ duCalls'[s] = d /\ \A r \in Subscriptions \ {s} : duCalls'[r] = duCalls[r]
      /\ Made' = Made
  BY <1>2, <1>4, <1>5, CallStep
<1>7. CallsOrdered'
  <2>1. Begun(s)' /\ ~Begun(s) /\ \A r \in Subscriptions \ {s} : Begun(r)' <=> Begun(r)
    BY <1>1, <1>4, <1>6 DEF Begun
  <2>2. PICK n \in 0..DuMaxCalls : Made = 1..n
    BY <1>2 DEF CallsOrdered
  <2>3. ASSUME NEW r \in Subscriptions, NEW q \in Subscriptions, r < q, Begun(q)'
        PROVE  Begun(r)' /\ duCalls'[r].intent < duCalls'[q].intent
    <3>1. CASE q = s
      <4>1. r \in Made /\ r \in 1..(s - 1) /\ r # s
        BY <1>2, <2>2, <2>3, <3>1
      <4>2. duCalls[r].stage # "sent" /\ duCalls[r].stage # "none"
        BY <1>1, <4>1, MadeIs
      <4>3. duCalls[r].intent \in Nat /\ duCalls[r].intent <= duIntent
        BY <1>2, <4>1, MadeIs DEF CallsOrdered
      <4>4. Begun(r)
        BY <4>2 DEF Begun
      <4> QED  BY <1>2, <1>4, <1>6, <2>1, <3>1, <4>1, <4>3, <4>4
    <3>2. CASE q # s
      <4>1. Begun(q)
        BY <2>1, <2>3, <3>2
      <4>2. Begun(r) /\ duCalls[r].intent < duCalls[q].intent
        BY <1>2, <2>3, <4>1 DEF CallsOrdered
      <4>3. r # s
        BY <2>1, <4>2
      <4> QED  BY <1>6, <2>1, <3>2, <4>2, <4>3
    <3> QED  BY <3>1, <3>2
  <2>4. ASSUME NEW r \in Made
        PROVE  duCalls'[r].rev <= duUiRev' /\ duCalls'[r].intent <= duIntent'
    <3>1. /\ r \in Subscriptions /\ duCalls[r].intent \in Nat /\ duUiRev' = duUiRev
          /\ duCalls[r].rev <= duUiRev /\ duCalls[r].intent <= duIntent
      BY <1>1, <1>2, MadeIs DEF CallsOrdered, duMachine
    <3>2. CASE r = s
      BY <1>1, <1>2, <1>4, <1>6, <3>1, <3>2
    <3>3. CASE r # s
      BY <1>1, <1>2, <1>6, <3>1, <3>3
    <3> QED  BY <3>2, <3>3
  <2>5. /\ \E m \in 0..DuMaxCalls : Made' = 1..m
        /\ \A r \in Made' : duCalls'[r].rev <= duUiRev' /\ duCalls'[r].intent <= duIntent'
    BY <1>6, <2>2, <2>4
  <2> QED  BY <2>3, <2>5 DEF CallsOrdered
<1>8. duWorkers' \in [DuThreads -> {"none", "live", "closed"}]
  BY <1>1, RuntimeIs
<1> QED
  BY <1>1, <1>2, <1>4, <1>5, <1>7, <1>8, AttachGoesOn

LEMMA WorkersAre ==
  ASSUME RuntimeInv, NEW t \in DuThreads, NEW confirm \in BOOLEAN
  PROVE  WorkersWith(t, confirm) \subseteq [DuThreads -> {"none", "live", "closed"}]
<1> DEFINE live == [u \in DuThreads |-> IF duWorkers[u] = "closed" THEN "none" ELSE duWorkers[u]]
<1>1. live \in [DuThreads -> {"none", "live", "closed"}]
  BY RuntimeIs
<1>2. [live EXCEPT ![t] = "live"] \in [DuThreads -> {"none", "live", "closed"}]
  BY <1>1
<1>3. \A u \in DuThreads : [live EXCEPT ![t] = "live", ![u] = "none"]
                             \in [DuThreads -> {"none", "live", "closed"}]
  BY <1>1
<1>4. \/ WorkersWith(t, confirm) = {live} \/ WorkersWith(t, confirm) = {}
      \/ WorkersWith(t, confirm) = {[live EXCEPT ![t] = "live"]}
      \/ WorkersWith(t, confirm) =
           {[live EXCEPT ![t] = "live", ![u] = "none"] :
              u \in {u \in DuThreads : live[u] = "live" /\ ~SelectedThread(u)}}
  BY DEF WorkersWith
<1> HIDE DEF live
<1> QED
  BY <1>1, <1>2, <1>3, <1>4

LEMMA Attaches ==
  ASSUME RuntimeInv, NEW s \in Subscriptions, DuAttached(s) \/ DuAttachFails(s)
  PROVE  RuntimeInv'
<1>1. /\ duCalls[s].stage = "connecting"
      /\ UNCHANGED <<duPage, duShown, duMachine, duIntent, duSelection, duReleases, duActions,
                     duGiven>>
  BY DEF DuAttached, DuAttachFails, duBridge
<1>2. /\ s \in Made /\ duCalls[s] \in AttachCall /\ duIntent \in Nat /\ Begun(s)
      /\ duCalls \in [Subscriptions -> AttachCall \cup {NoSubscription}]
      /\ duWorkers \in [DuThreads -> {"none", "live", "closed"}]
  BY <1>1, RuntimeIs, MadeIs DEF Begun
<1>3. duWorkers' \in [DuThreads -> {"none", "live", "closed"}]
  <2>1. CASE DuAttached(s)
    <3>1. duWorkers' \in WorkersWith(duCalls[s].thread, duCalls[s].confirm)
      BY <2>1 DEF DuAttached
    <3>2. duCalls[s].thread \in DuThreads /\ duCalls[s].confirm \in BOOLEAN
      BY <1>2 DEF AttachCall
    <3> QED  BY <3>1, <3>2, WorkersAre
  <2>2. CASE DuAttachFails(s)
    BY <1>2, <2>2 DEF DuAttachFails, duBridge
  <2> QED  BY <2>1, <2>2
<1>4. PICK stage \in {"checked", "refused"} : duCalls' = [duCalls EXCEPT ![s].stage = stage]
  BY DEF DuAttached, DuAttachFails
<1>5. PICK d : d = [duCalls[s] EXCEPT !.stage = stage]
  OBVIOUS
<1>6. /\ d \in AttachCall /\ d.thread = duCalls[s].thread /\ d.rev = duCalls[s].rev
      /\ d.intent = duCalls[s].intent /\ d.stage \in {"checked", "refused"}
  BY <1>2, <1>5 DEF AttachCall
<1>7. duCalls' = [duCalls EXCEPT ![s] = d]
  BY <1>2, <1>4, <1>5
<1>8. CallsOrdered'
  BY <1>1, <1>2, <1>6, <1>7, OrderKept DEF duMachine
<1> QED
  BY <1>1, <1>2, <1>3, <1>6, <1>7, <1>8, AttachGoesOn

\* Whoever selects is the last that began, so it never takes the selection from the
\* attach of the current run.
LEMMA Selects ==
  ASSUME RuntimeInv, NEW s \in Subscriptions, DuSelects(s)
  PROVE  RuntimeInv'
<1>1. /\ duCalls[s].stage = "checked"
      /\ UNCHANGED <<duPage, duShown, duMachine, duIntent, duWorkers, duReleases, duActions,
                     duGiven>>
  BY DEF DuSelects
<1>2. /\ s \in Made /\ duCalls[s] \in AttachCall /\ duIntent \in Nat /\ Begun(s) /\ s \in Nat \ {0}
      /\ duCalls \in [Subscriptions -> AttachCall \cup {NoSubscription}]
      /\ duWorkers \in [DuThreads -> {"none", "live", "closed"}]
  BY <1>1, RuntimeIs, MadeIs DEF Begun
<1>3. PICK stage \in {"accepted", "refused"} :
        /\ duCalls' = [duCalls EXCEPT ![s].stage = stage]
        /\ stage = "accepted" => duIntent = duCalls[s].intent /\ duSelection' = s
        /\ stage = "refused" => duSelection' = duSelection
  BY DEF DuSelects, Newest
<1>4. PICK d : d = [duCalls[s] EXCEPT !.stage = stage]
  OBVIOUS
<1>5. /\ d \in AttachCall /\ d.thread = duCalls[s].thread /\ d.rev = duCalls[s].rev
      /\ d.intent = duCalls[s].intent /\ d.stage = stage
  BY <1>2, <1>4 DEF AttachCall
<1>6. duCalls' = [duCalls EXCEPT ![s] = d]
  BY <1>2, <1>3, <1>4
<1>7. CallsOrdered'
  BY <1>1, <1>2, <1>5, <1>6, OrderKept DEF duMachine
<1>8. CASE stage = "refused"
  BY <1>1, <1>2, <1>3, <1>5, <1>6, <1>7, <1>8, AttachGoesOn
<1>9. CASE stage = "accepted"
  <2>1. /\ duCalls' \in [Subscriptions -> AttachCall \cup {NoSubscription}]
        /\ duCalls'[s] = d /\ \A r \in Subscriptions \ {s} : duCalls'[r] = duCalls[r]
        /\ \A r \in Subscriptions : /\ duCalls'[r].thread = duCalls[r].thread
                                    /\ duCalls'[r].rev = duCalls[r].rev
        /\ Made' = Made /\ Made \subseteq Subscriptions /\ Subscriptions \subseteq Nat \ {0}
    BY <1>2, <1>5, <1>6, CallStep, MadeIs
  <2>2. RunOK /\ ShownOK /\ SelectedOK /\ SentOK /\ ChangeOK /\ DuTypeOK /\ CallsOrdered
    BY DEF RuntimeInv
  <2>3. \A q \in Subscriptions : Begun(q) => q <= s
    <3>1. ASSUME NEW q \in Subscriptions, Begun(q), s < q PROVE FALSE
      <4>1. q \in Made /\ duCalls[q].intent \in Nat /\ duCalls[s].intent \in Nat
        BY <1>2, <3>1, MadeIs
      <4>2. duCalls[s].intent < duCalls[q].intent /\ duCalls[q].intent <= duIntent
        BY <2>2, <3>1, <4>1 DEF CallsOrdered
      <4> QED  BY <1>2, <1>3, <1>9, <4>1, <4>2
    <3> QED  BY <1>2, <2>1, <3>1
  <2>4. duRun # 0 /\ duSelection = duRun => FALSE
    <3>1. ASSUME duRun # 0, duSelection = duRun PROVE FALSE
      <4>1. duRun \in Made /\ s <= duRun /\ duCalls[duRun].stage \in {"accepted", "over"}
        BY <1>2, <2>2, <3>1 DEF RunOK, SelectedOK
      <4>2. Begun(duRun) /\ duRun \in Subscriptions
        BY <2>1, <4>1 DEF Begun
      <4>3. duRun = s
        BY <1>2, <2>1, <2>3, <4>1, <4>2
      <4> QED  BY <1>1, <4>1, <4>3
    <3> QED  BY <3>1
  <2>5. duView = 0 /\ duHeld = 0
    BY <2>2, <2>4 DEF ShownOK
  <2>6. RunOK'
    <3>1. duRun # 0 => duCalls[duRun].stage # "accepted"
      BY <2>2, <2>4 DEF RunOK
    <3>2. ASSUME duRun # 0 PROVE duCalls'[duRun].stage = "accepted" => duRun = s
      <4>1. duRun \in Subscriptions
        BY <2>1, <2>2, <3>2 DEF RunOK
      <4> QED  BY <2>1, <3>1, <3>2, <4>1
    <3> QED  BY <1>1, <1>3, <1>9, <2>1, <2>2, <3>2 DEF RunOK, duPage, duShown, duMachine
  <2>7. ShownOK' /\ ChangeOK'
    BY <1>1, <2>2, <2>5 DEF ShownOK, ChangeOK, duShown, duMachine
  <2>8. SelectedOK'
    BY <1>2, <1>3, <1>5, <1>9, <2>1 DEF SelectedOK
  <2>9. SentOK'
    BY <1>1, <2>1, <2>2 DEF SentOK
  <2>10. DuTypeOK'
    BY <1>1, <1>3, <1>9, <2>1, <2>2 DEF DuTypeOK, duPage, duShown, duMachine
  <2> QED
    BY <1>7, <2>6, <2>7, <2>8, <2>9, <2>10 DEF RuntimeInv
<1> QED
  BY <1>8, <1>9

LEMMA ReleaseArrives ==
  ASSUME RuntimeInv, NEW s \in Subscriptions, DuReleased(s)
  PROVE  RuntimeInv'
<1>1. /\ s \in duReleases /\ duReleases' = duReleases \ {s}
      /\ \/ duSelection = s /\ duSelection' = 0 /\ duIntent' = duIntent + 1
         \/ duSelection # s /\ duSelection' = duSelection /\ duIntent' = duIntent
      /\ UNCHANGED <<duPage, duShown, duMachine, duWorkers, duCalls, duActions, duGiven>>
  BY DEF DuReleased, Revokes
<1>2. RunOK /\ ShownOK /\ SelectedOK /\ SentOK /\ ChangeOK /\ DuTypeOK /\ duIntent \in Nat
      /\ duUiRev \in Nat /\ s \in Nat \ {0}
  BY RuntimeIs, MadeIs DEF RuntimeInv
<1>3. /\ duIntent' \in Nat /\ duIntent' >= duIntent /\ duCalls' = duCalls
      /\ duUiRev' = duUiRev /\ duUiRev' \in Nat /\ duUiRev' >= duUiRev
  BY <1>1, <1>2 DEF duMachine
<1>4. CallsOrdered' /\ Made' = Made
  BY <1>3, CallsKept
<1>5. duRun # 0 => duRun # s
  BY <1>1, <1>2 DEF RunOK
<1>6. RunOK'
  BY <1>1, <1>2, <1>4, <1>5 DEF RunOK, duPage, duShown, duMachine
<1>7. ShownOK'
  BY <1>1, <1>2, <1>5 DEF ShownOK, duShown
<1>8. SelectedOK'
  BY <1>1, <1>2, <1>4 DEF SelectedOK, duShown, duMachine
<1>9. SentOK' /\ ChangeOK'
  BY <1>1, <1>2, <1>4 DEF SentOK, ChangeOK, duMachine
<1>10. DuTypeOK'
  BY <1>1, <1>2, <1>3 DEF DuTypeOK, duPage, duShown, duMachine
<1> QED
  BY <1>4, <1>6, <1>7, <1>8, <1>9, <1>10 DEF RuntimeInv

LEMMA Pushed ==
  ASSUME RuntimeInv, NEW s \in Subscriptions, DuPushed(s)
  PROVE  RuntimeInv'
<1>1. /\ duSelection = s /\ duRun = s /\ duView # s /\ duView' = s
      /\ UNCHANGED <<duPage, duRun, duHeld, duMachine, duBridge, duSent>>
  BY DEF DuPushed, Valid
<1>2. RunOK /\ ShownOK /\ SelectedOK /\ SentOK /\ ChangeOK /\ DuTypeOK /\ duIntent \in Nat
      /\ duUiRev \in Nat /\ duIntent \in Nat
  BY RuntimeIs DEF RuntimeInv
<1>3. CallsOrdered' /\ Made' = Made
  BY <1>1, <1>2, CallsKept DEF duMachine, duBridge, duSent
<1>4. duView = 0 /\ duHeld = 0
  BY <1>1, <1>2 DEF ShownOK
<1>5. RunOK' /\ SelectedOK' /\ SentOK' /\ ChangeOK'
  BY <1>1, <1>2, <1>3 DEF RunOK, SelectedOK, SentOK, ChangeOK, duPage, duMachine, duBridge, duSent
<1>6. ShownOK'
  BY <1>1, <1>4 DEF ShownOK, duBridge
<1>7. DuTypeOK'
  BY <1>1, <1>2 DEF DuTypeOK, duPage, duMachine, duBridge, duSent
<1> QED
  BY <1>3, <1>5, <1>6, <1>7 DEF RuntimeInv

LEMMA Answered ==
  ASSUME RuntimeInv, NEW s \in Subscriptions, DuAnswered(s)
  PROVE  RuntimeInv'
<1>1. /\ duCalls[s].stage \in {"accepted", "refused"}
      /\ duCalls' = [duCalls EXCEPT ![s].stage = "over"]
      /\ UNCHANGED <<duPage, duRun, duMachine, duBridge, duActions, duGiven>>
  BY DEF DuAnswered
<1>2. /\ s \in Made /\ duCalls[s] \in AttachCall /\ duIntent \in Nat /\ Begun(s) /\ s \in Nat \ {0}
      /\ duCalls \in [Subscriptions -> AttachCall \cup {NoSubscription}]
  BY <1>1, RuntimeIs, MadeIs DEF Begun
<1>3. PICK d : d = [duCalls[s] EXCEPT !.stage = "over"]
  OBVIOUS
<1>4. /\ d \in AttachCall /\ d.thread = duCalls[s].thread /\ d.rev = duCalls[s].rev
      /\ d.intent = duCalls[s].intent /\ d.stage = "over"
  BY <1>2, <1>3 DEF AttachCall
<1>5. duCalls' = [duCalls EXCEPT ![s] = d]
  BY <1>2, <1>1, <1>3
<1>6. CallsOrdered'
  BY <1>1, <1>2, <1>4, <1>5, OrderKept DEF duMachine, duBridge
<1>7. /\ duCalls' \in [Subscriptions -> AttachCall \cup {NoSubscription}]
      /\ duCalls'[s] = d /\ \A r \in Subscriptions \ {s} : duCalls'[r] = duCalls[r]
      /\ \A r \in Subscriptions : /\ duCalls'[r].thread = duCalls[r].thread
                                  /\ duCalls'[r].rev = duCalls[r].rev
      /\ Made' = Made /\ Made \subseteq Subscriptions
  BY <1>2, <1>4, <1>5, CallStep, MadeIs
<1>8. RunOK /\ ShownOK /\ SelectedOK /\ SentOK /\ ChangeOK /\ DuTypeOK /\ CallsOrdered
  BY DEF RuntimeInv
<1>9. duUiRev \in Nat /\ duCalls[s].rev \in Nat /\ duCalls[s].rev <= duUiRev
  BY <1>2, <1>8, RuntimeIs, MadeIs DEF CallsOrdered
\* What becomes of the answer.
<1>10. CASE duCalls[s].stage = "accepted" /\ duCalls[s].rev = duUiRev /\ Valid(s)
  <2>1. duHeld' = s /\ duView' = s /\ duReleases' = duReleases /\ duRun = s /\ duSelection = s
    <3>1. duHeld' = s /\ duView' = s /\ duReleases' = duReleases /\ duRun = s
      BY <1>10 DEF DuAnswered, Valid
    <3> QED  BY <1>2, <1>8, <1>10, <3>1 DEF RunOK
  <2>2. RunOK'
    BY <1>1, <1>4, <1>7, <1>8, <2>1 DEF RunOK, duPage, duMachine, duBridge
  <2>3. ShownOK' /\ ChangeOK'
    BY <1>1, <1>8, <2>1 DEF ShownOK, ChangeOK, duMachine, duBridge
  <2>4. SelectedOK'
    BY <1>1, <1>2, <1>4, <1>7, <2>1 DEF SelectedOK, duBridge
  <2>5. SentOK'
    BY <1>1, <1>7, <1>8, <2>1 DEF SentOK
  <2>6. DuTypeOK'
    BY <1>1, <1>7, <1>8, <2>1 DEF DuTypeOK, duPage, duMachine, duBridge
  <2> QED  BY <1>6, <2>2, <2>3, <2>4, <2>5, <2>6 DEF RuntimeInv
<1>11. CASE ~(duCalls[s].stage = "accepted" /\ duCalls[s].rev = duUiRev /\ Valid(s))
  <2>1. /\ duHeld' = duHeld /\ duView' = duView
        /\ duReleases' = IF duCalls[s].stage = "accepted" /\ duCalls[s].rev = duUiRev /\ ~Valid(s)
                           THEN duReleases \cup {s} ELSE duReleases
    BY <1>11 DEF DuAnswered
  <2>2. s \in duReleases' => s \in duReleases \/ s # duRun
    BY <1>2, <1>8, <2>1 DEF Valid, RunOK
  <2>3. RunOK'
    BY <1>1, <1>4, <1>7, <1>8, <2>1, <2>2 DEF RunOK, duPage, duMachine, duBridge
  <2>4. ShownOK' /\ ChangeOK'
    BY <1>1, <1>8, <2>1 DEF ShownOK, ChangeOK, duMachine, duBridge
  <2>5. SelectedOK'
    <3>1. CASE duSelection = s
      <4>1. duCalls[s].stage = "accepted"
        BY <1>1, <1>2, <1>8, <3>1 DEF SelectedOK
      <4>2. s \in duReleases' \/ duCalls[s].rev < duUiRev
        BY <1>9, <1>11, <2>1, <4>1
      <4> QED  BY <1>1, <1>2, <1>4, <1>7, <3>1, <4>2 DEF SelectedOK, duMachine, duBridge
    <3>2. CASE duSelection # s
      <4>1. duSelection # 0 => duSelection \in Subscriptions \ {s}
        BY <1>7, <1>8, <3>2 DEF SelectedOK
      <4> QED  BY <1>1, <1>7, <1>8, <2>1, <4>1 DEF SelectedOK, duMachine, duBridge
    <3> QED  BY <3>1, <3>2
  <2>6. SentOK'
    BY <1>1, <1>2, <1>7, <1>8, <2>1 DEF SentOK
  <2>7. DuTypeOK'
    BY <1>1, <1>7, <1>8, <2>1 DEF DuTypeOK, duPage, duMachine, duBridge
  <2> QED  BY <1>6, <2>3, <2>4, <2>5, <2>6, <2>7 DEF RuntimeInv
<1> QED
  BY <1>10, <1>11

(***************************************************************************)
(* The subscriptions.                                                      *)
(***************************************************************************)
LEMMA RuntimeBegins ==
  ASSUME RuntimeInit
  PROVE  RuntimeInv
<1>1. /\ duRun = 0 /\ duHeld = 0 /\ duView = 0 /\ duSelection = 0 /\ duIntent = 0
      /\ duUiRev = 0 /\ duRevision = 0 /\ duChanging = "no" /\ duLocalAt = {0}
      /\ duReleases = {} /\ duActions = {} /\ duGiven = {}
      /\ duThread \in DuThreads /\ duAsked = FALSE /\ duVisible = TRUE
      /\ \A s \in Subscriptions : duCalls[s] = NoSubscription
      /\ duCalls \in [Subscriptions -> AttachCall \cup {NoSubscription}]
      /\ duWorkers \in [DuThreads -> {"none", "live", "closed"}]
  BY DEF RuntimeInit
<1>2. Made = {} /\ 1..0 = {} /\ 0 \in 0..DuMaxCalls /\ \A s \in Subscriptions : ~Begun(s)
  BY <1>1, RuntimeAssumption DEF RuntimeAssumption, Made, Begun, NoSubscription
<1>3. CallsOrdered
  BY <1>2 DEF CallsOrdered
<1>4. 0 \in 0..DuMaxRevision /\ 0 \in 0..0
  BY RuntimeAssumption DEF RuntimeAssumption
<1>5. DuTypeOK
  BY <1>1, <1>4 DEF DuTypeOK
<1>6. RunOK /\ ShownOK /\ SelectedOK /\ SentOK /\ ChangeOK
  BY <1>1 DEF RunOK, ShownOK, SelectedOK, SentOK, ChangeOK
<1> QED
  BY <1>3, <1>5, <1>6 DEF RuntimeInv

LEMMA RuntimeStep ==
  ASSUME RuntimeInv, [RuntimeNext]_duVars
  PROVE  RuntimeInv'
<1>1. CASE \E t \in DuThreads : DuOpens(t) \/ DuWorkerEnds(t)
  BY <1>1, OpensThread, WorkerEnds
<1>2. CASE DuConnects \/ DuHidesOrShows \/ DuChangeBegins
  BY <1>2, EffectRuns, ChangeBegins
<1>3. CASE DuChangeSent \/ DuMachineChanges \/ DuChangeKnown
  BY <1>3, MachineChanges, ChangeKnown
<1>4. CASE \E s \in Subscriptions :
             DuAttachBegins(s) \/ DuAttached(s) \/ DuAttachFails(s) \/ DuSelects(s)
  BY <1>4, AttachBegins, Attaches, Selects
<1>5. CASE \E s \in Subscriptions : DuReleased(s) \/ DuPushed(s) \/ DuAnswered(s)
  BY <1>5, ReleaseArrives, Pushed, Answered
<1>6. CASE DuActs \/ (\E a \in duActions : DuActionGiven(a))
  BY <1>6, Acts
<1>7. CASE UNCHANGED duVars
  <2>1. UNCHANGED <<duThread, duAsked, duVisible, duShown, duMachine, duBridge, duCalls,
                    duReleases, duActions, duGiven>>
    BY <1>7 DEF duVars, duPage, duSent
  <2>2. CallsOrdered' /\ RunOK' /\ ShownOK' /\ SelectedOK' /\ SentOK'
    BY <2>1, QuietStep DEF duMachine, duBridge, RuntimeInv, SentOK
  <2>3. DuTypeOK' /\ ChangeOK'
    BY <2>1 DEF RuntimeInv, DuTypeOK, ChangeOK, duShown, duMachine, duBridge
  <2> QED  BY <2>2, <2>3 DEF RuntimeInv
<1> QED
  BY <1>1, <1>2, <1>3, <1>4, <1>5, <1>6, <1>7 DEF RuntimeNext

LEMMA RuntimeInvariant == RuntimeSpec => []RuntimeInv
<1>1. RuntimeInit => RuntimeInv
  BY RuntimeBegins
<1>2. RuntimeInv /\ [RuntimeNext]_duVars => RuntimeInv'
  BY RuntimeStep
<1> QED
  BY <1>1, <1>2, PTL DEF RuntimeSpec

\* The page, the attaches, the selection and what is on its way stay in their types
\* (useCodexDesktop.ts, codex_desktop.rs).
THEOREM SubscriptionsHaveType == RuntimeSpec => []DuTypeOK
<1>1. RuntimeInv => DuTypeOK
  BY DEF RuntimeInv
<1> QED
  BY <1>1, RuntimeInvariant, PTL

\* In whatever order attaches, views, answers and detaches arrive: at rest the view shown
\* is that of the selected subscription, to the thread shown, and a subscription of the
\* present revision is selected only if the interface will release it; and no action
\* reaches the worker of another thread (codex_desktop.rs 355-407, 283-297, 503-530,
\* useCodexDesktop.ts 31-81).
THEOREM SubscriptionsFollowViews == RuntimeSpec => []SubscriptionFollowsView
<1>1. ASSUME RuntimeInv PROVE SubscriptionFollowsView
  <2>1. RunOK /\ ShownOK /\ SelectedOK /\ SentOK /\ ChangeOK
    BY <1>1 DEF RuntimeInv
  <2>2. \A g \in duGiven : g[1] = g[2]
    BY <2>1 DEF SentOK
  <2>3. ASSUME AtRest
        PROVE  /\ duView = duHeld
               /\ duView # 0 => duSelection = duView /\ duCalls[duView].thread = duThread
               /\ duSelection # 0 /\ duCalls[duSelection].rev = duRevision =>
                    duSelection = duHeld
    <3>1. /\ duReleases = {} /\ duChanging = "no" /\ duUiRev = duRevision /\ duRevision \in Nat
          /\ \A s \in Subscriptions : duCalls[s].stage \in {"none", "over"}
      BY <1>1, <2>1, <2>3, RuntimeIs DEF AtRest, ChangeOK
    <3>2. ASSUME duSelection # 0, duCalls[duSelection].rev = duRevision
          PROVE  duSelection = duHeld
      <4>1. duSelection \in Made /\ duSelection \in Subscriptions
        BY <1>1, <2>1, <3>2, MadeIs DEF SelectedOK
      <4>2. duCalls[duSelection].stage = "over"
        BY <2>1, <3>1, <3>2, <4>1 DEF SelectedOK
      <4> QED  BY <2>1, <3>1, <3>2, <4>2 DEF SelectedOK
    <3>3. ASSUME duView # 0
          PROVE  /\ duSelection = duView /\ duCalls[duView].thread = duThread
                 /\ duCalls[duView].rev = duRevision
      BY <2>1, <3>1, <3>3 DEF ShownOK, RunOK
    <3>4. duView = duHeld
      BY <2>1, <3>2, <3>3 DEF ShownOK
    <3> QED  BY <3>2, <3>3, <3>4
  <2> QED  BY <2>2, <2>3 DEF SubscriptionFollowsView
<1> QED
  BY <1>1, RuntimeInvariant, PTL


(***************************************************************************)
(* IV. Approvals.                                                          *)
(***************************************************************************)
USE ApprovalAssumption DEF ApprovalAssumption, daNative, daWorker, daLinked

Founds == [owner : DaOwners, asked : Pending]
Views == [session : Nat, writable : BOOLEAN, asked : Pending, of : DaOwners]
Answers == [owner : DaOwners, id : DaIds, body : DaBodies, allow : BOOLEAN, session : Nat,
            of : DaOwners, seen : Pending]

(***************************************************************************)
(* The invariant.                                                          *)
(***************************************************************************)
\* The decision the worker works on was taken in its session, on a view of its client.
CommandInv ==
  daPc \in {"check", "wait"} =>
    daCmd \in Decision /\ daCmd.session = daSession /\ daCmd.of = daLink

\* So was a decision that waits in the channel, unless its session is over.
ChannelInv ==
  \A n \in 1..Len(daChan) :
    /\ daChan[n].session <= daSession
    /\ daChan[n].session = daSession => daPc # "reconnect" /\ daChan[n].of = daLink

\* A view of this session on which the user can decide shows its client.
ViewInv ==
  /\ daUi.session <= daSession
  /\ daUi.session = daSession /\ daUi.writable => daPc # "reconnect" /\ daUi.of = daLink
  /\ daPc = "reconnect" => daPhase = "reconnecting"

ApprovalInv ==
  DaTypeOK /\ daWire \subseteq Answers /\ CommandInv /\ ChannelInv /\ ViewInv /\ DecidedAsShown

(***************************************************************************)
(* What a view says, and the session that is rotated.                      *)
(***************************************************************************)
LEMMA ViewSays ==
  ASSUME DaTypeOK
  PROVE  /\ View \in Views /\ View.session = daSession /\ View.of = daLink
         /\ View.writable => daPhase = "connected"
<1>1. Writable \in BOOLEAN
  BY DEF Writable
<1> DEFINE asked == IF daPhase = "reconnecting" THEN NothingAsked ELSE daReplica
<1>2. asked \in Pending
  BY DEF DaTypeOK, Pending, NothingAsked
<1>3. View = [session |-> daSession, writable |-> Writable, of |-> daLink, asked |-> asked]
  BY DEF View
<1>4. daSession \in Nat /\ daLink \in DaOwners
  BY DEF DaTypeOK
<1>5. Writable => daPhase = "connected"
  BY DEF Writable
<1> HIDE DEF asked
<1> QED
  BY <1>1, <1>2, <1>3, <1>4, <1>5 DEF Views

\* Nothing that was decided before has the session that begins.
LEMMA RecoverKeeps ==
  ASSUME ApprovalInv, DaRecover, daSession < DaMaxSession
  PROVE  ApprovalInv'
<1>1. daSession' = daSession + 1 /\ daSession \in Nat /\ daSession + 1 \in 0..DaMaxSession
  BY DEF ApprovalInv, DaTypeOK, DaRecover
<1>2. DaTypeOK'
  BY <1>1 DEF ApprovalInv, DaRecover, DaTypeOK, Pending
<1>3. CommandInv' /\ DecidedAsShown' /\ daWire' \subseteq Answers
  BY DEF ApprovalInv, DaRecover, CommandInv, DecidedAsShown
<1>4. ChannelInv'
  <2>1. daChan \in Seq(Decision) /\ daChan' = daChan
    BY DEF ApprovalInv, DaTypeOK, DaRecover
  <2>2. ASSUME NEW n \in 1..Len(daChan)
        PROVE  daChan[n].session \in Nat /\ daChan[n].session <= daSession
    <3>1. daChan[n] \in Decision
      BY <2>1
    <3> QED  BY <3>1 DEF Decision, ApprovalInv, ChannelInv
  <2> QED
    BY <1>1, <2>1, <2>2 DEF ChannelInv
<1>5. ViewInv'
  BY <1>1 DEF ApprovalInv, DaRecover, ViewInv, DaTypeOK
<1> QED
  BY <1>2, <1>3, <1>4, <1>5 DEF ApprovalInv

(***************************************************************************)
(* The steps.                                                              *)
(***************************************************************************)
LEMMA DaAsksKeeps ==
  ASSUME ApprovalInv, NEW i \in DaIds, NEW body \in DaBodies, DaAsks(i, body)
  PROVE  ApprovalInv'
<1>1. DaTypeOK'
  BY DEF ApprovalInv, DaAsks, DaTypeOK, Pending, Answers
<1>2. daWire' \subseteq Answers
  BY DEF ApprovalInv, DaAsks, Answers
<1>3. CommandInv'
  BY DEF ApprovalInv, DaAsks, CommandInv, DaTypeOK
<1>4. ChannelInv'
  BY DEF ApprovalInv, DaAsks, ChannelInv, ViewInv, DaTypeOK
<1>5. ViewInv'
  BY DEF ApprovalInv, DaAsks, ViewInv, DaTypeOK
<1>6. DecidedAsShown'
  BY DEF ApprovalInv, DaAsks, DecidedAsShown
<1> QED
  BY <1>1, <1>2, <1>3, <1>4, <1>5, <1>6 DEF ApprovalInv

LEMMA DaSettledThereKeeps ==
  ASSUME ApprovalInv, NEW i \in DaIds, DaSettledThere(i)
  PROVE  ApprovalInv'
<1>1. DaTypeOK'
  BY DEF ApprovalInv, DaSettledThere, DaTypeOK, Pending, Answers
<1>2. daWire' \subseteq Answers
  BY DEF ApprovalInv, DaSettledThere, Answers
<1>3. CommandInv'
  BY DEF ApprovalInv, DaSettledThere, CommandInv, DaTypeOK
<1>4. ChannelInv'
  BY DEF ApprovalInv, DaSettledThere, ChannelInv, ViewInv, DaTypeOK
<1>5. ViewInv'
  BY DEF ApprovalInv, DaSettledThere, ViewInv, DaTypeOK
<1>6. DecidedAsShown'
  BY DEF ApprovalInv, DaSettledThere, DecidedAsShown
<1> QED
  BY <1>1, <1>2, <1>3, <1>4, <1>5, <1>6 DEF ApprovalInv

LEMMA DaOwnerMovesKeeps ==
  ASSUME ApprovalInv, NEW o \in DaOwners, DaOwnerMoves(o)
  PROVE  ApprovalInv'
<1>1. DaTypeOK'
  BY DEF ApprovalInv, DaOwnerMoves, NothingAsked, DaTypeOK, Pending, Answers
<1>2. daWire' \subseteq Answers
  BY DEF ApprovalInv, DaOwnerMoves, NothingAsked, Answers
<1>3. CommandInv'
  BY DEF ApprovalInv, DaOwnerMoves, NothingAsked, CommandInv, DaTypeOK
<1>4. ChannelInv'
  BY DEF ApprovalInv, DaOwnerMoves, NothingAsked, ChannelInv, ViewInv, DaTypeOK
<1>5. ViewInv'
  BY DEF ApprovalInv, DaOwnerMoves, NothingAsked, ViewInv, DaTypeOK
<1>6. DecidedAsShown'
  BY DEF ApprovalInv, DaOwnerMoves, NothingAsked, DecidedAsShown
<1> QED
  BY <1>1, <1>2, <1>3, <1>4, <1>5, <1>6 DEF ApprovalInv

LEMMA DaReceivesKeeps ==
  ASSUME ApprovalInv, NEW w \in daWire, DaReceives(w)
  PROVE  ApprovalInv'
<1>1. DaTypeOK'
  BY DEF ApprovalInv, DaReceives, DaTypeOK, Pending, Answers
<1>2. daWire' \subseteq Answers
  BY DEF ApprovalInv, DaReceives, Answers
<1>3. CommandInv'
  BY DEF ApprovalInv, DaReceives, CommandInv, DaTypeOK
<1>4. ChannelInv'
  BY DEF ApprovalInv, DaReceives, ChannelInv, ViewInv, DaTypeOK
<1>5. ViewInv'
  BY DEF ApprovalInv, DaReceives, ViewInv, DaTypeOK
<1>6. DecidedAsShown'
  BY DEF ApprovalInv, DaReceives, DecidedAsShown
<1> QED
  BY <1>1, <1>2, <1>3, <1>4, <1>5, <1>6 DEF ApprovalInv

LEMMA DaReadsEventKeeps ==
  ASSUME ApprovalInv, DaReadsEvent
  PROVE  ApprovalInv'
<1>1. DaTypeOK'
  BY DEF ApprovalInv, DaReadsEvent, DaTypeOK, Pending, Answers
<1>2. daWire' \subseteq Answers
  BY DEF ApprovalInv, DaReadsEvent, Answers
<1>3. CommandInv'
  BY DEF ApprovalInv, DaReadsEvent, CommandInv, DaTypeOK
<1>4. ChannelInv'
  BY DEF ApprovalInv, DaReadsEvent, ChannelInv, ViewInv, DaTypeOK
<1>5. ViewInv'
  BY DEF ApprovalInv, DaReadsEvent, ViewInv, DaTypeOK
<1>6. DecidedAsShown'
  BY DEF ApprovalInv, DaReadsEvent, DecidedAsShown
<1> QED
  BY <1>1, <1>2, <1>3, <1>4, <1>5, <1>6 DEF ApprovalInv

LEMMA DaShowsKeeps ==
  ASSUME ApprovalInv, DaShows
  PROVE  ApprovalInv'
<1>1. DaTypeOK'
  BY ViewSays DEF ApprovalInv, DaShows, DaTypeOK, Views
<1>2. daWire' \subseteq Answers
  BY DEF ApprovalInv, DaShows, Answers
<1>3. CommandInv'
  BY DEF ApprovalInv, DaShows, CommandInv, DaTypeOK
<1>4. ChannelInv'
  BY DEF ApprovalInv, DaShows, ChannelInv, ViewInv, DaTypeOK
<1>5. ViewInv'
  BY ViewSays DEF ApprovalInv, DaShows, ViewInv, DaTypeOK
<1>6. DecidedAsShown'
  BY DEF ApprovalInv, DaShows, DecidedAsShown
<1> QED
  BY <1>1, <1>2, <1>3, <1>4, <1>5, <1>6 DEF ApprovalInv

LEMMA DaPicksKeeps ==
  ASSUME ApprovalInv, NEW i \in DaIds, NEW allow \in BOOLEAN, DaPicks(i, allow)
  PROVE  ApprovalInv'
<1>1. DaTypeOK'
  <2>1. [id |-> i, body |-> daUi.asked[i], allow |-> allow,
         session |-> daUi.session, of |-> daUi.of] \in Decision
    BY DEF ApprovalInv, DaPicks, DaTypeOK, Pending, Decision
  <2>2. daChan' \in Seq(Decision) /\ Len(daChan') <= DaChanCap
    BY <2>1 DEF ApprovalInv, DaPicks, DaTypeOK
  <2> QED
    BY <2>2 DEF ApprovalInv, DaPicks, DaTypeOK
<1>2. daWire' \subseteq Answers
  BY DEF ApprovalInv, DaPicks, Answers
<1>3. CommandInv'
  BY DEF ApprovalInv, DaPicks, CommandInv, DaTypeOK
<1>4. ChannelInv'
  BY DEF ApprovalInv, DaPicks, ChannelInv, ViewInv, DaTypeOK
<1>5. ViewInv'
  BY DEF ApprovalInv, DaPicks, ViewInv, DaTypeOK
<1>6. DecidedAsShown'
  BY DEF ApprovalInv, DaPicks, DecidedAsShown
<1> QED
  BY <1>1, <1>2, <1>3, <1>4, <1>5, <1>6 DEF ApprovalInv

LEMMA DaTakesKeeps ==
  ASSUME ApprovalInv, DaTakes
  PROVE  ApprovalInv'
<1>1. DaTypeOK'
  BY DEF ApprovalInv, DaTakes, DaTypeOK, Pending, Answers
<1>2. daWire' \subseteq Answers
  BY DEF ApprovalInv, DaTakes, Answers
<1>3. CommandInv'
  <2>1. daChan[1] = Head(daChan) /\ daChan[1] \in Decision /\ 1 \in 1..Len(daChan)
    BY DEF ApprovalInv, DaTakes, DaTypeOK
  <2> QED
    BY <2>1 DEF ApprovalInv, DaTakes, Accepts, CommandInv, ChannelInv, DaTypeOK
<1>4. ChannelInv'
  BY DEF ApprovalInv, DaTakes, ChannelInv, ViewInv, DaTypeOK
<1>5. ViewInv'
  BY DEF ApprovalInv, DaTakes, ViewInv, DaTypeOK
<1>6. DecidedAsShown'
  BY DEF ApprovalInv, DaTakes, DecidedAsShown
<1> QED
  BY <1>1, <1>2, <1>3, <1>4, <1>5, <1>6 DEF ApprovalInv

LEMMA DaAnswersOwnerKeeps ==
  ASSUME ApprovalInv, DaAnswersOwner
  PROVE  ApprovalInv'
<1>1. DaTypeOK'
  BY DEF ApprovalInv, DaAnswersOwner, DaTypeOK, Pending, Answers
<1>2. daWire' \subseteq Answers
  BY DEF ApprovalInv, DaAnswersOwner, Answers
<1>3. CommandInv'
  BY DEF ApprovalInv, DaAnswersOwner, CommandInv, DaTypeOK
<1>4. ChannelInv'
  BY DEF ApprovalInv, DaAnswersOwner, ChannelInv, ViewInv, DaTypeOK
<1>5. ViewInv'
  BY DEF ApprovalInv, DaAnswersOwner, ViewInv, DaTypeOK
<1>6. DecidedAsShown'
  BY DEF ApprovalInv, DaAnswersOwner, DecidedAsShown
<1> QED
  BY <1>1, <1>2, <1>3, <1>4, <1>5, <1>6 DEF ApprovalInv

\* The answer that is written is about what the owner asked when it was checked.
LEMMA DaWritesKeeps ==
  ASSUME ApprovalInv, DaWrites
  PROVE  ApprovalInv'
<1> DEFINE seen == daFound.asked
           send == SameKey(seen, daCmd) /\ Reviewable(seen, daCmd)
           answer == [owner |-> daLink, id |-> daCmd.id, body |-> daCmd.body,
                      allow |-> daCmd.allow, session |-> daSession, of |-> daCmd.of,
                      seen |-> seen]
<1>1. /\ daCmd \in Decision /\ daCmd.session = daSession /\ daCmd.of = daLink
      /\ seen \in Pending
  BY DEF ApprovalInv, CommandInv, DaTypeOK, DaWrites, NotFound
<1>2. answer \in Answers
  BY <1>1 DEF Answers, Decision, ApprovalInv, DaTypeOK
<1>3. daWire' = IF send THEN daWire \cup {answer} ELSE daWire
  BY DEF DaWrites
<1>4. send => /\ answer.owner = answer.of /\ answer.seen[answer.id] = answer.body
              /\ answer.allow => answer.seen[answer.id] \notin DaOpaque
  BY <1>1 DEF SameKey, Reviewable
<1>5. /\ daReplica' = seen /\ daFound' = NotFound
      /\ daPc' \in {"wait", "loop"} /\ daCmd' \in {daCmd, NoCommand}
      /\ daPc' = "wait" => daCmd' = daCmd
      /\ UNCHANGED <<daNative, daSession, daPhase, daLink, daConfirmed, daUi, daChan, daDone>>
      /\ daPc = "check"
  BY DEF DaWrites
<1> HIDE DEF answer, send, seen
<1>6. daWire' \subseteq Answers
  BY <1>2, <1>3 DEF ApprovalInv
<1>7. DaTypeOK'
  BY <1>1, <1>5, <1>6 DEF ApprovalInv, DaTypeOK, Answers
<1>8. CommandInv' /\ ChannelInv' /\ ViewInv'
  BY <1>1, <1>5 DEF ApprovalInv, CommandInv, ChannelInv, ViewInv
<1>9. DecidedAsShown'
  BY <1>3, <1>4 DEF ApprovalInv, DecidedAsShown
<1> QED
  BY <1>6, <1>7, <1>8, <1>9 DEF ApprovalInv

LEMMA DaEndsKeeps ==
  ASSUME ApprovalInv, DaEnds
  PROVE  ApprovalInv'
<1>1. DaTypeOK'
  BY DEF ApprovalInv, DaEnds, DaTypeOK, Pending, Answers
<1>2. daWire' \subseteq Answers
  BY DEF ApprovalInv, DaEnds, Answers
<1>3. CommandInv'
  BY DEF ApprovalInv, DaEnds, CommandInv, DaTypeOK
<1>4. ChannelInv'
  BY DEF ApprovalInv, DaEnds, ChannelInv, ViewInv, DaTypeOK
<1>5. ViewInv'
  BY DEF ApprovalInv, DaEnds, ViewInv, DaTypeOK
<1>6. DecidedAsShown'
  BY DEF ApprovalInv, DaEnds, DecidedAsShown
<1> QED
  BY <1>1, <1>2, <1>3, <1>4, <1>5, <1>6 DEF ApprovalInv

LEMMA DaRefusesKeeps ==
  ASSUME ApprovalInv, DaRefuses
  PROVE  ApprovalInv'
<1>1. DaTypeOK'
  BY DEF ApprovalInv, DaRefuses, DaTypeOK, Pending, Answers
<1>2. daWire' \subseteq Answers
  BY DEF ApprovalInv, DaRefuses, Answers
<1>3. CommandInv'
  BY DEF ApprovalInv, DaRefuses, CommandInv, DaTypeOK
<1>4. ChannelInv'
  BY DEF ApprovalInv, DaRefuses, ChannelInv, ViewInv, DaTypeOK
<1>5. ViewInv'
  BY DEF ApprovalInv, DaRefuses, ViewInv, DaTypeOK
<1>6. DecidedAsShown'
  BY DEF ApprovalInv, DaRefuses, DecidedAsShown
<1> QED
  BY <1>1, <1>2, <1>3, <1>4, <1>5, <1>6 DEF ApprovalInv

LEMMA DaReconnectsKeeps ==
  ASSUME ApprovalInv, DaReconnects
  PROVE  ApprovalInv'
<1>1. DaTypeOK'
  BY DEF ApprovalInv, DaReconnects, DaTypeOK, Pending, Answers
<1>2. daWire' \subseteq Answers
  BY DEF ApprovalInv, DaReconnects, Answers
<1>3. CommandInv'
  BY DEF ApprovalInv, DaReconnects, CommandInv, DaTypeOK
<1>4. ChannelInv'
  BY DEF ApprovalInv, DaReconnects, ChannelInv, ViewInv, DaTypeOK
<1>5. ViewInv'
  BY DEF ApprovalInv, DaReconnects, ViewInv, DaTypeOK
<1>6. DecidedAsShown'
  BY DEF ApprovalInv, DaReconnects, DecidedAsShown
<1> QED
  BY <1>1, <1>2, <1>3, <1>4, <1>5, <1>6 DEF ApprovalInv

LEMMA DaConfirmsKeeps ==
  ASSUME ApprovalInv, DaConfirms
  PROVE  ApprovalInv'
<1>1. DaTypeOK'
  BY DEF ApprovalInv, DaConfirms, DaTypeOK, Pending, Answers
<1>2. daWire' \subseteq Answers
  BY DEF ApprovalInv, DaConfirms, Answers
<1>3. CommandInv'
  BY DEF ApprovalInv, DaConfirms, CommandInv, DaTypeOK
<1>4. ChannelInv'
  BY DEF ApprovalInv, DaConfirms, ChannelInv, ViewInv, DaTypeOK
<1>5. ViewInv'
  BY DEF ApprovalInv, DaConfirms, ViewInv, DaTypeOK
<1>6. DecidedAsShown'
  BY DEF ApprovalInv, DaConfirms, DecidedAsShown
<1> QED
  BY <1>1, <1>2, <1>3, <1>4, <1>5, <1>6 DEF ApprovalInv

(***************************************************************************)
(* The theorems.                                                           *)
(***************************************************************************)
LEMMA ApprovalInvInit == ApprovalInit => ApprovalInv
<1> SUFFICES ASSUME ApprovalInit PROVE ApprovalInv
  OBVIOUS
<1>1. NothingAsked \in Pending
  BY DEF NothingAsked, Pending
<1>2. /\ daUi \in Views /\ daUi.session = 0 /\ daUi.of = daLink
  BY <1>1 DEF ApprovalInit, View, Views, Writable
<1>3. DaTypeOK
  <2>1. /\ daChan \in Seq(Decision) /\ Len(daChan) <= DaChanCap
        /\ daSession \in 0..DaMaxSession /\ daMade \in 0..DaMaxAsked
    BY DEF ApprovalInit
  <2>2. daUi \in [session : Nat, writable : BOOLEAN, asked : Pending, of : DaOwners]
    BY <1>2 DEF Views
  <2> QED
    BY <1>1, <2>1, <2>2 DEF ApprovalInit, DaTypeOK
<1> QED
  BY <1>2, <1>3 DEF ApprovalInit, ApprovalInv, CommandInv, ChannelInv, ViewInv, DecidedAsShown

LEMMA ApprovalInvStep == ApprovalInv /\ [ApprovalNext]_daVars => ApprovalInv'
<1> SUFFICES ASSUME ApprovalInv, [ApprovalNext]_daVars PROVE ApprovalInv'
  OBVIOUS
<1>1. ASSUME NEW i \in DaIds, NEW body \in DaBodies, DaAsks(i, body) PROVE ApprovalInv'
  BY <1>1, DaAsksKeeps
<1>2. ASSUME NEW i \in DaIds, DaSettledThere(i) PROVE ApprovalInv'
  BY <1>2, DaSettledThereKeeps
<1>3. ASSUME NEW o \in DaOwners, DaOwnerMoves(o) PROVE ApprovalInv'
  BY <1>3, DaOwnerMovesKeeps
<1>4. ASSUME NEW w \in daWire, DaReceives(w) PROVE ApprovalInv'
  BY <1>4, DaReceivesKeeps
<1>5. ASSUME NEW i \in DaIds, NEW allow \in BOOLEAN, DaPicks(i, allow) PROVE ApprovalInv'
  BY <1>5, DaPicksKeeps
<1>6. CASE DaReadsEvent \/ DaShows \/ DaTakes \/ DaAnswersOwner \/ DaWrites \/ DaEnds
  BY <1>6, DaReadsEventKeeps, DaShowsKeeps, DaTakesKeeps, DaAnswersOwnerKeeps, DaWritesKeeps,
     DaEndsKeeps
<1>7. CASE DaLost \/ DaOtherOwner
  BY <1>7, RecoverKeeps DEF DaLost, DaOtherOwner
<1>8. CASE DaRefuses \/ DaReconnects \/ DaConfirms
  BY <1>8, DaRefusesKeeps, DaReconnectsKeeps, DaConfirmsKeeps
<1>9. CASE UNCHANGED daVars
  BY <1>9 DEF daVars, ApprovalInv, DaTypeOK, CommandInv, ChannelInv, ViewInv, DecidedAsShown
<1> QED
  BY <1>1, <1>2, <1>3, <1>4, <1>5, <1>6, <1>7, <1>8, <1>9 DEF ApprovalNext

\* The variables of the approval stay in their types: the channel of the worker holds answers of
\* sessions there were, the wire answers to questions that were asked.
THEOREM ApprovalsHaveType == ApprovalSpec => []DaTypeOK
<1>1. ApprovalInv => DaTypeOK
  BY DEF ApprovalInv
<1> QED
  BY <1>1, ApprovalInvInit, ApprovalInvStep, PTL DEF ApprovalSpec

\* An answer written to the desktop is what the user decided on the question as the view showed it,
\* goes to the owner the view showed, and allows nothing the view could not show: over
\* reconnections, changes of the owner, and questions
\* that were answered or asked anew in between (DesktopCommand::prepare, WorkerLoop of worker.rs).
THEOREM ApprovalsDecidedAsShown == ApprovalSpec => []DecidedAsShown
<1>1. ApprovalInv => DecidedAsShown
  BY DEF ApprovalInv
<1> QED
  BY <1>1, ApprovalInvInit, ApprovalInvStep, PTL DEF ApprovalSpec

(***************************************************************************)
(* V. The key.                                                             *)
(***************************************************************************)
USE DesktopKeyAssumption DEF DesktopKeyAssumption

CallAt == {"idle", "lock", "wait", "read", "make", "open", "recover", "ready"}
CallOf == [pc : CallAt, existing : BOOLEAN, key : Key, awaited : BOOLEAN]

(***************************************************************************)
(* The invariant.                                                          *)
(***************************************************************************)
\* One call holds the lock, from when it looks for what is stored on.
LockInv ==
  /\ \A c, d \in dkLock : c = d
  /\ \A c \in DkCalls : dkCall[c].pc \notin {"idle", "lock"} => c \in dkLock

\* What is stored is below the directory.
RootInv == dkRows # {} \/ dkIndex # NoKey => dkRoot

\* A call that found nothing still finds nothing until it has its key; the key it has is the one
\* of the key chain, unless the user removed that.
CallInv(c) ==
  /\ dkCall[c].pc \in {"wait", "read", "make"} /\ ~dkCall[c].existing => dkRows = {} /\ ~dkRoot
  /\ dkCall[c].pc = "make" => ~dkCall[c].existing
  /\ dkCall[c].pc \in {"open", "recover", "ready"} /\ dkChain # NoKey => dkCall[c].key = dkChain
  /\ dkCall[c].pc \in {"recover", "ready"} => dkRoot

KeyInv == DkTypeOK /\ LockInv /\ RootInv /\ KeyIsStable /\ \A c \in DkCalls : CallInv(c)

\* What a step of a call does that stores nothing.
StoreStays(c) ==
  /\ dkRows' = dkRows /\ dkIndex' = dkIndex /\ dkChain' \in Key /\ dkLast' \in Key
  /\ \/ dkRoot' = dkRoot /\ dkChain' = dkChain
     \/ dkCall[c].pc = "open" /\ dkRoot' = TRUE /\ dkChain' = dkChain
     \/ dkCall[c].pc = "make" /\ dkRoot' = dkRoot

(***************************************************************************)
(* A call goes on or ends.                                                 *)
(***************************************************************************)
LEMMA CallSet ==
  ASSUME DkTypeOK, NEW c \in DkCalls, NEW next \in CallOf, dkCall' = [dkCall EXCEPT ![c] = next]
  PROVE  /\ dkCall' \in [DkCalls -> CallOf] /\ dkCall'[c] = next
         /\ \A d \in DkCalls \ {c} : dkCall'[d] = dkCall[d]
  BY DEF DkTypeOK, CallOf, CallAt

LEMMA IdleCall == DkIdle \in CallOf /\ DkIdle.pc = "idle"
  BY DEF DkIdle, CallOf, CallAt, Key, NoKey

\* A call that ends disturbs nothing.
LEMMA StopsKeeps ==
  ASSUME KeyInv, NEW c \in DkCalls, Stops(c),
         StoreStays(c)
  PROVE  KeyInv'
<1>1. /\ dkCall' \in [DkCalls -> CallOf] /\ dkCall'[c].pc = "idle"
      /\ \A d \in DkCalls \ {c} : dkCall'[d] = dkCall[d]
      /\ dkLock' = dkLock \ {c}
  BY IdleCall, CallSet DEF Stops, KeyInv
<1>2. DkTypeOK'
  BY <1>1 DEF KeyInv, DkTypeOK, CallOf, CallAt, StoreStays
<1>3. LockInv'
  BY <1>1 DEF KeyInv, LockInv
<1>4. RootInv' /\ KeyIsStable'
  BY DEF KeyInv, RootInv, KeyIsStable, CallInv, StoreStays
<1>5. ASSUME NEW d \in DkCalls PROVE CallInv(d)'
  <2>1. CASE d = c
    BY <1>1, <2>1 DEF CallInv
  <2>2. CASE d # c /\ dkCall[c].pc \in {"open", "make"}
    <3>1. dkCall[d].pc \in {"idle", "lock"}
      BY <2>2 DEF KeyInv, LockInv
    <3> QED  BY <1>1, <2>2, <3>1 DEF CallInv
  <2>3. CASE d # c /\ dkRoot' = dkRoot /\ dkChain' = dkChain
    BY <1>1, <2>3 DEF KeyInv, CallInv, StoreStays
  <2> QED  BY <2>1, <2>2, <2>3 DEF StoreStays
<1> QED
  BY <1>2, <1>3, <1>4, <1>5 DEF KeyInv

\* A call that goes on under the lock.
LEMMA NextKeeps ==
  ASSUME KeyInv, NEW c \in DkCalls, NEW next \in CallOf,
         dkCall' = [dkCall EXCEPT ![c] = next], dkLock' = dkLock,
         next.pc \notin {"idle", "lock"} => c \in dkLock,
         StoreStays(c),
         CallInv(c)'
  PROVE  KeyInv'
<1>1. /\ dkCall' \in [DkCalls -> CallOf] /\ dkCall'[c] = next
      /\ \A d \in DkCalls \ {c} : dkCall'[d] = dkCall[d]
  BY CallSet DEF KeyInv
<1>2. DkTypeOK'
  BY <1>1 DEF KeyInv, DkTypeOK, CallOf, CallAt, StoreStays
<1>3. LockInv'
  BY <1>1 DEF KeyInv, LockInv
<1>4. RootInv' /\ KeyIsStable'
  BY DEF KeyInv, RootInv, KeyIsStable, CallInv, StoreStays
<1>5. ASSUME NEW d \in DkCalls \ {c} PROVE CallInv(d)'
  <2>1. CASE dkCall[c].pc \in {"open", "make"}
    <3>1. dkCall[d].pc \in {"idle", "lock"}
      BY <2>1 DEF KeyInv, LockInv
    <3> QED  BY <1>1, <2>1, <3>1 DEF CallInv
  <2>2. CASE dkRoot' = dkRoot /\ dkChain' = dkChain
    BY <1>1, <2>2 DEF KeyInv, CallInv, StoreStays
  <2> QED  BY <2>1, <2>2 DEF StoreStays
<1> QED
  BY <1>2, <1>3, <1>4, <1>5 DEF KeyInv

(***************************************************************************)
(* The steps of a call.                                                    *)
(***************************************************************************)
LEMMA DkBeginKeeps ==
  ASSUME KeyInv, NEW c \in DkCalls, DkBegin(c)
  PROVE  KeyInv'
<1> DEFINE next == [DkIdle EXCEPT !.pc = "lock", !.awaited = TRUE]
<1>1. next \in CallOf /\ next.pc = "lock"
  BY IdleCall DEF CallOf, CallAt
<1>2. dkCall' = [dkCall EXCEPT ![c] = next]
  BY DEF DkBegin
<1> HIDE DEF next
<1>3. CallInv(c)'
  <2>1. dkCall'[c] = next
    BY <1>1, <1>2, CallSet DEF KeyInv
  <2> QED  BY <1>1, <2>1 DEF CallInv
<1> QED
  BY <1>1, <1>2, <1>3, NextKeeps DEF DkBegin, KeyInv, DkTypeOK, StoreStays

LEMMA LockKeeps ==
  ASSUME KeyInv, NEW c \in DkCalls, Lock(c)
  PROVE  KeyInv'
<1>1. CASE dkLock # {} \/ ~dkCall[c].awaited
  BY <1>1, StopsKeeps DEF Lock, KeyInv, DkTypeOK, StoreStays
<1>2. CASE dkLock = {} /\ dkCall[c].awaited
  <2> DEFINE old == dkCall[c]
             next == [old EXCEPT !.pc = "wait", !.existing = dkRows # {} \/ dkRoot]
  <2>1. old \in CallOf
    BY DEF KeyInv, DkTypeOK, CallOf, CallAt
  <2>2. next \in CallOf /\ next.pc = "wait" /\ next.existing = (dkRows # {} \/ dkRoot)
    BY <2>1, Zenon DEF CallOf, CallAt
  <2>3. dkLock' = {c} /\ dkCall' = [dkCall EXCEPT ![c] = next]
    BY <1>2 DEF Lock, KeyInv, DkTypeOK
  <2> HIDE DEF next
  <2>4. /\ dkCall' \in [DkCalls -> CallOf] /\ dkCall'[c] = next
        /\ \A d \in DkCalls \ {c} : dkCall'[d] = dkCall[d]
    BY <2>2, <2>3, CallSet DEF KeyInv
  <2>5. \A d \in DkCalls : dkCall[d].pc \in {"idle", "lock"}
    BY <1>2 DEF KeyInv, LockInv
  <2>6. UNCHANGED <<dkChain, dkLast, dkRoot, dkRows, dkIndex>>
    BY DEF Lock
  <2>7. DkTypeOK'
    BY <2>3, <2>4, <2>6 DEF KeyInv, DkTypeOK, CallOf, CallAt
  <2>8. LockInv' /\ RootInv' /\ KeyIsStable'
    BY <2>3, <2>4, <2>5, <2>6 DEF KeyInv, LockInv, RootInv, KeyIsStable
  <2>9. \A d \in DkCalls : CallInv(d)'
    BY <2>2, <2>4, <2>5, <2>6 DEF CallInv
  <2> QED
    BY <2>7, <2>8, <2>9 DEF KeyInv
<1> QED
  BY <1>1, <1>2

LEMMA EnterGateKeeps ==
  ASSUME KeyInv, NEW c \in DkCalls, EnterGate(c)
  PROVE  KeyInv'
<1> DEFINE next == [dkCall[c] EXCEPT !.pc = "read"]
<1>1. dkCall[c] \in CallOf /\ dkCall[c].pc = "wait"
  BY DEF KeyInv, DkTypeOK, CallOf, CallAt, EnterGate, At
<1>2. next \in CallOf /\ next.pc = "read" /\ next.existing = dkCall[c].existing
  BY <1>1 DEF CallOf, CallAt
<1>3. dkCall' = [dkCall EXCEPT ![c] = next]
  BY DEF EnterGate, KeyInv, DkTypeOK
<1> HIDE DEF next
<1>4. CallInv(c)'
  <2>1. dkCall'[c] = next
    BY <1>2, <1>3, CallSet DEF KeyInv
  <2> QED  BY <1>1, <1>2, <2>1 DEF KeyInv, CallInv, EnterGate
<1>5. c \in dkLock
  BY <1>1 DEF KeyInv, LockInv
<1> QED
  BY <1>2, <1>3, <1>4, <1>5, NextKeeps DEF EnterGate, KeyInv, DkTypeOK, StoreStays

\* A step under the lock after which the call goes on if its caller still waits.
LEMMA GoesKeeps ==
  ASSUME KeyInv, NEW c \in DkCalls, NEW next \in CallOf, Goes(c, next), c \in dkLock,
         StoreStays(c),
         dkCall'[c] = next => CallInv(c)'
  PROVE  KeyInv'
<1>1. CASE dkCall[c].awaited
  <2>1. dkCall' = [dkCall EXCEPT ![c] = next] /\ dkLock' = dkLock
    BY <1>1 DEF Goes
  <2>2. dkCall'[c] = next
    BY <2>1, CallSet DEF KeyInv
  <2> QED
    BY <2>1, <2>2, NextKeeps
<1>2. CASE ~dkCall[c].awaited
  <2>1. Stops(c)
    BY <1>2 DEF Goes, Stops
  <2> QED
    BY <2>1, StopsKeeps
<1> QED
  BY <1>1, <1>2

LEMMA ReadKeyKeeps ==
  ASSUME KeyInv, NEW c \in DkCalls, ReadKey(c)
  PROVE  KeyInv'
<1>1. /\ dkCall[c] \in CallOf /\ dkCall[c].pc = "read" /\ c \in dkLock
      /\ UNCHANGED <<dkChain, dkRoot, dkRows, dkIndex>> /\ dkChain \in Key /\ StoreStays(c)
  BY DEF KeyInv, DkTypeOK, StoreStays, LockInv, CallOf, CallAt, ReadKey, At
<1>2. CASE dkChain # NoKey
  <2> DEFINE next == [dkCall[c] EXCEPT !.pc = "open", !.key = dkChain]
  <2>1. next \in CallOf /\ next.pc = "open" /\ next.key = dkChain
    BY <1>1 DEF CallOf, CallAt
  <2>2. Goes(c, next)
    BY <1>2 DEF ReadKey
  <2> HIDE DEF next
  <2>3. dkCall'[c] = next => CallInv(c)'
    BY <1>1, <2>1 DEF CallInv
  <2> QED
    BY <1>1, <2>1, <2>2, <2>3, GoesKeeps
<1>3. CASE dkChain = NoKey /\ dkCall[c].existing
  <2>1. Stops(c)
    BY <1>3 DEF ReadKey
  <2> QED
    BY <1>1, <2>1, StopsKeeps
<1>4. CASE dkChain = NoKey /\ ~dkCall[c].existing
  <2> DEFINE next == [dkCall[c] EXCEPT !.pc = "make"]
  <2>1. next \in CallOf /\ next.pc = "make" /\ next.existing = dkCall[c].existing
    BY <1>1 DEF CallOf, CallAt
  <2>2. dkCall' = [dkCall EXCEPT ![c] = next] /\ dkLock' = dkLock
    BY <1>4 DEF ReadKey, KeyInv, DkTypeOK
  <2> HIDE DEF next
  <2>3. CallInv(c)'
    <3>1. dkCall'[c] = next
      BY <2>1, <2>2, CallSet DEF KeyInv
    <3> QED  BY <1>1, <1>4, <2>1, <3>1 DEF KeyInv, CallInv
  <2> QED
    BY <1>1, <2>1, <2>2, <2>3, NextKeeps
<1> QED
  BY <1>2, <1>3, <1>4

LEMMA MakeKeyKeeps ==
  ASSUME KeyInv, NEW c \in DkCalls, MakeKey(c)
  PROVE  KeyInv'
<1>1. /\ dkCall[c] \in CallOf /\ dkCall[c].pc = "make" /\ c \in dkLock
      /\ dkLast + 1 \in Key /\ StoreStays(c)
  BY DEF KeyInv, DkTypeOK, LockInv, CallOf, CallAt, MakeKey, At, Key, StoreStays, Stops
<1>2. CASE dkChain' = dkLast + 1 /\ Goes(c, [dkCall[c] EXCEPT !.pc = "open", !.key = dkLast + 1])
  <2> DEFINE next == [dkCall[c] EXCEPT !.pc = "open", !.key = dkLast + 1]
  <2>1. next \in CallOf /\ next.pc = "open" /\ next.key = dkLast + 1
    BY <1>1 DEF CallOf, CallAt
  <2>2. Goes(c, next)
    BY <1>2
  <2> HIDE DEF next
  <2>3. dkCall'[c] = next => CallInv(c)'
    BY <1>2, <2>1 DEF CallInv
  <2> QED
    BY <1>1, <1>2, <2>1, <2>2, <2>3, GoesKeeps
<1>3. CASE dkChain' \in {dkChain, dkLast + 1} /\ Stops(c)
  BY <1>1, <1>3, StopsKeeps
<1> QED
  BY <1>2, <1>3 DEF MakeKey

LEMMA OpenAttachmentsKeeps ==
  ASSUME KeyInv, NEW c \in DkCalls, OpenAttachments(c)
  PROVE  KeyInv'
<1>1. /\ dkCall[c] \in CallOf /\ dkCall[c].pc = "open" /\ c \in dkLock
      /\ dkRoot' = TRUE /\ UNCHANGED dkChain /\ StoreStays(c)
  BY DEF KeyInv, DkTypeOK, StoreStays, LockInv, CallOf, CallAt, OpenAttachments, At
<1>2. CASE dkIndex \in {NoKey, dkCall[c].key}
  <2> DEFINE next == [dkCall[c] EXCEPT !.pc = "recover"]
  <2>1. next \in CallOf /\ next.pc = "recover" /\ next.key = dkCall[c].key
    BY <1>1 DEF CallOf, CallAt
  <2>2. Goes(c, next)
    BY <1>2 DEF OpenAttachments
  <2> HIDE DEF next
  <2>3. dkCall'[c] = next => CallInv(c)'
    BY <1>1, <2>1 DEF KeyInv, CallInv
  <2> QED
    BY <1>1, <2>1, <2>2, <2>3, GoesKeeps
<1>3. CASE dkIndex \notin {NoKey, dkCall[c].key}
  <2>1. Stops(c)
    BY <1>3 DEF OpenAttachments
  <2> QED
    BY <1>1, <2>1, StopsKeeps
<1> QED
  BY <1>2, <1>3

LEMMA RecoverQueueKeeps ==
  ASSUME KeyInv, NEW c \in DkCalls, RecoverQueue(c)
  PROVE  KeyInv'
<1>1. /\ dkCall[c] \in CallOf /\ dkCall[c].pc = "recover" /\ c \in dkLock
      /\ UNCHANGED <<dkChain, dkRoot, dkRows, dkIndex>> /\ dkChain \in Key /\ StoreStays(c)
  BY DEF KeyInv, DkTypeOK, StoreStays, LockInv, CallOf, CallAt, RecoverQueue, At
<1> DEFINE next == [dkCall[c] EXCEPT !.pc = "ready", !.awaited = FALSE]
<1>2. next \in CallOf /\ next.pc = "ready" /\ next.key = dkCall[c].key
  BY <1>1 DEF CallOf, CallAt
<1>3. Goes(c, next)
  BY DEF RecoverQueue
<1> HIDE DEF next
<1>4. dkCall'[c] = next => CallInv(c)'
  BY <1>1, <1>2 DEF KeyInv, CallInv
<1> QED
  BY <1>1, <1>2, <1>3, <1>4, GoesKeeps

LEMMA CallErrsKeeps ==
  ASSUME KeyInv, NEW c \in DkCalls, CallErrs(c)
  PROVE  KeyInv'
<1>1. StoreStays(c) /\ Stops(c)
  BY DEF KeyInv, DkTypeOK, CallErrs, At, StoreStays
<1> QED
  BY <1>1, StopsKeeps

LEMMA CallerDroppedKeeps ==
  ASSUME KeyInv, NEW c \in DkCalls, CallerDropped(c)
  PROVE  KeyInv'
<1>1. /\ dkCall[c] \in CallOf
      /\ UNCHANGED <<dkChain, dkRoot, dkRows, dkIndex>> /\ dkChain \in Key /\ StoreStays(c)
  BY DEF KeyInv, DkTypeOK, StoreStays, CallOf, CallAt, CallerDropped
<1>2. CASE Stops(c)
  BY <1>1, <1>2, StopsKeeps
<1>3. CASE dkCall' = [dkCall EXCEPT ![c].awaited = FALSE] /\ dkLock' = dkLock
  <2> DEFINE next == [dkCall[c] EXCEPT !.awaited = FALSE]
  <2>1. /\ next \in CallOf /\ next.pc = dkCall[c].pc /\ next.existing = dkCall[c].existing
        /\ next.key = dkCall[c].key
    BY <1>1 DEF CallOf, CallAt
  <2>2. dkCall' = [dkCall EXCEPT ![c] = next]
    BY <1>3 DEF KeyInv, DkTypeOK
  <2> HIDE DEF next
  <2>3. CallInv(c)'
    <3>1. dkCall'[c] = next
      BY <2>1, <2>2, CallSet DEF KeyInv
    <3> QED  BY <1>1, <2>1, <3>1 DEF KeyInv, CallInv
  <2>4. next.pc \notin {"idle", "lock"} => c \in dkLock
    BY <2>1 DEF KeyInv, LockInv
  <2> QED
    BY <1>1, <1>3, <2>1, <2>2, <2>3, <2>4, NextKeeps
<1> QED
  BY <1>2, <1>3 DEF CallerDropped

(***************************************************************************)
(* The runtime, the user and the process.                                  *)
(***************************************************************************)
LEMMA EncryptKeeps ==
  ASSUME KeyInv, NEW c \in DkCalls, Encrypt(c)
  PROVE  KeyInv'
<1>1. /\ dkCall[c].pc = "ready" /\ dkRoot /\ c \in dkLock /\ dkCall[c].key \in Key
      /\ dkChain # NoKey => dkCall[c].key = dkChain
  BY DEF KeyInv, DkTypeOK, CallInv, LockInv, Encrypt, At
<1>2. UNCHANGED <<dkChain, dkLast, dkRoot, dkLock, dkCall, dkFaults>>
  BY DEF Encrypt
<1>3. \/ dkRows' = dkRows \cup {dkCall[c].key} /\ UNCHANGED dkIndex
      \/ dkIndex' = dkCall[c].key /\ UNCHANGED dkRows
  BY DEF Encrypt
<1>4. DkTypeOK'
  BY <1>1, <1>2, <1>3 DEF KeyInv, DkTypeOK
<1>5. LockInv' /\ RootInv'
  BY <1>1, <1>2 DEF KeyInv, LockInv, RootInv
<1>6. KeyIsStable'
  BY <1>1, <1>2, <1>3 DEF KeyInv, KeyIsStable
<1>7. \A d \in DkCalls : CallInv(d)'
  BY <1>1, <1>2 DEF KeyInv, CallInv
<1> QED
  BY <1>4, <1>5, <1>6, <1>7 DEF KeyInv

LEMMA DkPurgeKeeps ==
  ASSUME KeyInv, NEW c \in DkCalls, DkPurge(c)
  PROVE  KeyInv'
<1>1. /\ dkRows' = {}
      /\ UNCHANGED <<dkChain, dkLast, dkRoot, dkIndex, dkLock, dkCall, dkFaults>>
  BY DEF DkPurge
<1>2. DkTypeOK' /\ LockInv' /\ RootInv' /\ KeyIsStable'
  BY <1>1 DEF KeyInv, DkTypeOK, LockInv, RootInv, KeyIsStable
<1>3. \A d \in DkCalls : CallInv(d)'
  BY <1>1 DEF KeyInv, CallInv
<1> QED
  BY <1>2, <1>3 DEF KeyInv

LEMMA UserDeletesKeyKeeps ==
  ASSUME KeyInv, UserDeletesKey
  PROVE  KeyInv'
<1>1. dkChain' = NoKey /\ UNCHANGED <<dkLast, dkRoot, dkRows, dkIndex, dkLock, dkCall>>
  BY DEF UserDeletesKey
<1>2. DkTypeOK' /\ LockInv' /\ RootInv' /\ KeyIsStable'
  BY <1>1 DEF KeyInv, DkTypeOK, LockInv, RootInv, KeyIsStable, Key, NoKey
<1>3. \A d \in DkCalls : CallInv(d)'
  BY <1>1 DEF KeyInv, CallInv
<1> QED
  BY <1>2, <1>3 DEF KeyInv

LEMMA AppDiesKeeps ==
  ASSUME KeyInv, NEW p \in Apps, AppDies(p)
  PROVE  KeyInv'
<1> DEFINE gone == {c \in DkCalls : AppOf[c] = p}
<1>1. /\ dkLock' = dkLock \ gone /\ UNCHANGED <<dkChain, dkLast, dkRoot, dkRows, dkIndex>>
      /\ dkCall' = [c \in DkCalls |-> IF c \in gone THEN DkIdle ELSE dkCall[c]]
  BY DEF AppDies
<1>2. \A c \in DkCalls : /\ (c \in gone => dkCall'[c] = DkIdle)
                         /\ (c \notin gone => dkCall'[c] = dkCall[c])
  BY <1>1
<1>3. dkCall' \in [DkCalls -> CallOf]
  BY <1>1, IdleCall DEF KeyInv, DkTypeOK, CallOf, CallAt
<1> HIDE DEF gone
<1>4. DkTypeOK'
  BY <1>1, <1>3 DEF KeyInv, DkTypeOK, CallOf, CallAt
<1>5. LockInv' /\ RootInv' /\ KeyIsStable'
  BY <1>1, <1>2, IdleCall DEF KeyInv, LockInv, RootInv, KeyIsStable
<1>6. \A c \in DkCalls : CallInv(c)'
  BY <1>1, <1>2, IdleCall DEF KeyInv, CallInv
<1> QED
  BY <1>4, <1>5, <1>6 DEF KeyInv

(***************************************************************************)
(* The theorems.                                                           *)
(***************************************************************************)
LEMMA KeyInvInit == KeyInit => KeyInv
<1> SUFFICES ASSUME KeyInit PROVE KeyInv
  OBVIOUS
<1>1. DkTypeOK
  <2>1. dkCall \in [DkCalls -> CallOf]
    BY IdleCall, Zenon DEF KeyInit
  <2>2. dkRoot \in BOOLEAN
    BY Zenon DEF KeyInit
  <2> QED
    BY <2>1, <2>2 DEF KeyInit, DkTypeOK, CallOf, CallAt, Key, NoKey
<1>2. LockInv /\ RootInv /\ KeyIsStable
  BY IdleCall DEF KeyInit, LockInv, RootInv, KeyIsStable
<1>3. \A c \in DkCalls : CallInv(c)
  BY IdleCall DEF KeyInit, CallInv
<1> QED
  BY <1>1, <1>2, <1>3 DEF KeyInv

LEMMA KeyInvStep == KeyInv /\ [KeyNext]_dkVars => KeyInv'
<1> SUFFICES ASSUME KeyInv, [KeyNext]_dkVars PROVE KeyInv'
  OBVIOUS
<1>1. ASSUME NEW c \in DkCalls,
             \/ DkBegin(c) \/ Lock(c) \/ EnterGate(c) \/ ReadKey(c) \/ MakeKey(c)
             \/ OpenAttachments(c) \/ RecoverQueue(c) \/ CallErrs(c) \/ CallerDropped(c)
             \/ Encrypt(c) \/ DkPurge(c)
      PROVE  KeyInv'
  BY <1>1, DkBeginKeeps, LockKeeps, EnterGateKeeps, ReadKeyKeeps, MakeKeyKeeps,
     OpenAttachmentsKeeps, RecoverQueueKeeps, CallErrsKeeps, CallerDroppedKeeps, EncryptKeeps,
     DkPurgeKeeps
<1>2. CASE UserDeletesKey
  BY <1>2, UserDeletesKeyKeeps
<1>3. ASSUME NEW p \in Apps, AppDies(p) PROVE KeyInv'
  BY <1>3, AppDiesKeeps
<1>4. CASE UNCHANGED dkVars
  BY <1>4 DEF dkVars, KeyInv, DkTypeOK, LockInv, RootInv, KeyIsStable, CallInv
<1> QED
  BY <1>1, <1>2, <1>3, <1>4 DEF KeyNext

\* The variables of the key and its calls stay in their types.
THEOREM KeysHaveType == KeySpec => []DkTypeOK
<1>1. KeyInv => DkTypeOK
  BY DEF KeyInv
<1> QED
  BY <1>1, KeyInvInit, KeyInvStep, PTL DEF KeySpec

\* What is stored under a key can be read with the key of the key chain: no call makes a second key
\* while rows or indexes of the first exist (CredentialAccess::transaction, `runtime' of
\* codex_desktop.rs).
THEOREM KeyStaysStable == KeySpec => []KeyIsStable
<1>1. KeyInv => KeyIsStable
  BY DEF KeyInv
<1> QED
  BY <1>1, KeyInvInit, KeyInvStep, PTL DEF KeySpec

\* While one call recovers the queue no other recovers it or has it open (lock_database): no
\* worker can have a submission in flight that recovery calls unknown.
THEOREM RecoveryIsAlone == KeySpec => []RecoversAlone
<1>1. KeyInv => RecoversAlone
  BY DEF KeyInv, LockInv, RecoversAlone, At
<1> QED
  BY <1>1, KeyInvInit, KeyInvStep, PTL DEF KeySpec
=============================================================================
