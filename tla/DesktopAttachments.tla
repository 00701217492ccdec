------------------------- MODULE DesktopAttachments -------------------------
(***************************************************************************)
(* The private store of pasted images, AttachmentStore (attachments.rs),   *)
(* with the App's operations on it: open, paste, remove from the draft,    *)
(* hand over to the queue.  The owner of the task reads the files, so they *)
(* are plain; which image belongs to whom is in an encrypted index next to *)
(* them.  A mutex makes an operation one at a time, but each is a sequence *)
(* of file system calls, any of which may fail or be the last before the   *)
(* process ends.                                                           *)
(***************************************************************************)
EXTENDS Naturals, FiniteSets, Sequences, SequencesExt

CONSTANTS
  Images,       \* images the user pastes
  MaxImages,    \* MAX_IMAGES
  MaxAtFaults   \* bound on calls that fail and ends of the process

ASSUME AttachmentsAssumption ==
  IsFiniteSet(Images) /\ MaxImages \in Nat \ {0} /\ MaxAtFaults \in Nat

Retention == {"none", "draft", "retained", "released"}
AtIndex == [Images -> Retention]

VARIABLES
  atFile,     \* the image files: absent, partial, whole
  atDisk,     \* the index file
  atLitter,   \* is the temporary file of an index left behind?
  atMem,      \* AttachmentStore::index
  atStore,    \* is the store "closed" (not opened, or refused), "open" or "faulted"?
  atOp,       \* the operation under way and the calls it has still to make
  atOld,      \* drafts of more than DRAFT_SECONDS
  atGranted,  \* images with a handle in the composer
  atFaults,
  \* history
  atSent,     \* images of messages that were handed to the queue
  atIndexed   \* images that were in the index since they were pasted

atVars == <<atFile, atDisk, atLitter, atMem, atStore, atOp, atOld, atGranted, atFaults, atSent,
            atIndexed>>

\* The calls that change something on the disk.
Calls == [do : {"create", "write", "unlink"}, image : Images]
         \cup [do : {"temporary", "rename"}, index : AtIndex]
AtIdle == [kind |-> "idle", image |-> "none", calls |-> <<>>]
NoEntries == [i \in Images |-> "none"]

AttachmentsInit ==
  /\ atFile = [i \in Images |-> "absent"]
  /\ atDisk = NoEntries /\ atMem = NoEntries
  /\ atLitter = FALSE /\ atStore = "closed" /\ atOp = AtIdle
  /\ atOld = {} /\ atGranted = {} /\ atFaults = 0
  /\ atSent = {} /\ atIndexed = {}

(***************************************************************************)
(* The operations as sequences of calls                                    *)
(***************************************************************************)
\* persist: a temporary file, synchronised, takes the place of the index.
Persist(next) == <<[do |-> "temporary", index |-> next], [do |-> "rename", index |-> next]>>

Released(index) == {i \in Images : index[i] = "released"}
DropReleased(index) == [i \in Images |-> IF index[i] = "released" THEN "none" ELSE index[i]]
Unlink(images) ==
  [n \in 1..Cardinality(images) |-> [do |-> "unlink", image |-> SetToSeq(images)[n]]]

\* Mutant: forgotten before it is deleted.
RemoveReleasedForgotten(next) ==
  IF Released(next) = {} THEN <<>>
  ELSE Persist(DropReleased(next)) \o Unlink({i \in Released(next) : atFile[i] # "absent"})

\* remove_released: marked first, then deleted, then forgotten.
RemoveReleased(next) ==
  IF Released(next) = {} THEN <<>>
  ELSE Persist(next) \o Unlink({i \in Released(next) : atFile[i] # "absent"})
       \o Persist(DropReleased(next))

Expired(index) ==
  [i \in Images |-> IF index[i] = "draft" /\ i \in atOld THEN "released" ELSE index[i]]

\* validate_inventory: every image of the index is there and whole, and no
\* file is that the index does not know.
Inventory(index, file) ==
  /\ ~atLitter
  /\ \A i \in Images :
       \/ index[i] = "none" /\ file[i] = "absent"
       \/ index[i] = "released"
       \/ index[i] \in {"draft", "retained"} /\ file[i] = "whole"

Importing(i) ==
  LET kept == DropReleased(Expired(atMem))
      file == [j \in Images |-> IF Expired(atMem)[j] = "released" THEN "absent" ELSE atFile[j]]
      room == Cardinality({j \in Images : kept[j] # "none"}) < MaxImages IN
  RemoveReleased(Expired(atMem))
  \o IF Inventory(kept, file) /\ room
       THEN <<[do |-> "create", image |-> i], [do |-> "write", image |-> i]>>
            \o Persist([kept EXCEPT ![i] = "draft"])
       ELSE <<>>

Releasing(i) == RemoveReleased([atMem EXCEPT ![i] = IF @ = "draft" THEN "released" ELSE @])
RetainingNothing(i) == <<>>  \* mutant: the mark is not made before the message
Retaining(i) == IF atMem[i] = "draft" THEN Persist([atMem EXCEPT ![i] = "retained"]) ELSE <<>>

Starts(kind, i, calls) == atOp' = [kind |-> kind, image |-> i, calls |-> calls]

(***************************************************************************)
(* Beginnings                                                              *)
(***************************************************************************)
\* AttachmentStore::open, of a new connection of the App.  A store that cannot
\* be accounted for in full is refused.
OpenStore ==
  /\ atStore = "closed" /\ atOp = AtIdle
  /\ Inventory(atDisk, atFile)
  /\ atMem' = atDisk /\ atStore' = "open"
  /\ Starts("open", "none", RemoveReleased(Expired(atDisk)))
  /\ UNCHANGED <<atFile, atDisk, atLitter, atOld, atGranted, atFaults, atSent, atIndexed>>

Ready == atStore = "open" /\ atOp = AtIdle

\* import_png of a paste.
Paste(i) ==
  /\ Ready /\ atMem[i] = "none" /\ atFile[i] = "absent" /\ i \notin atGranted \cup atSent
  /\ Starts("import", i, Importing(i))
  /\ atOld' = atOld \ {i} /\ atIndexed' = atIndexed \ {i}
  /\ UNCHANGED <<atFile, atDisk, atLitter, atMem, atStore, atGranted, atFaults, atSent>>

\* release, of an image the user takes out of the draft.
RemoveImage(i) ==
  /\ Ready /\ i \in atGranted
  /\ Starts("release", i, Releasing(i))
  /\ UNCHANGED <<atFile, atDisk, atLitter, atMem, atStore, atOld, atGranted, atFaults, atSent,
                 atIndexed>>

\* retain_before_send: refused for an image that is released or forgotten.
Retain(i) ==
  /\ Ready /\ i \in atGranted /\ atMem[i] \in {"draft", "retained"} /\ atFile[i] = "whole"
  /\ Starts("retain", i, Retaining(i))
  /\ UNCHANGED <<atFile, atDisk, atLitter, atMem, atStore, atOld, atGranted, atFaults, atSent,
                 atIndexed>>

(***************************************************************************)
(* Calls                                                                   *)
(***************************************************************************)
Makes(c) ==
  /\ atFile' = CASE c.do = "create" -> [atFile EXCEPT ![c.image] = "partial"]
                  [] c.do = "write" -> [atFile EXCEPT ![c.image] = "whole"]
                  [] c.do = "unlink" -> [atFile EXCEPT ![c.image] = "absent"]
                  [] OTHER -> atFile
  /\ IF c.do = "rename"
       THEN /\ atDisk' = c.index /\ atMem' = c.index
            /\ atIndexed' = atIndexed \cup {i \in Images : c.index[i] # "none"}
       ELSE UNCHANGED <<atDisk, atMem, atIndexed>>

CallReturns ==
  /\ atOp.calls # <<>>
  /\ Makes(Head(atOp.calls))
  /\ atOp' = [atOp EXCEPT !.calls = Tail(@)]
  /\ UNCHANGED <<atLitter, atStore, atOld, atGranted, atFaults, atSent>>

AtFault == atFaults < MaxAtFaults /\ atFaults' = atFaults + 1

\* A call fails and ends the operation.  What was created stays; the outcome
\* of a failed persist is not known, and the store takes no more operations.
CallFails ==
  LET c == Head(atOp.calls) IN
  /\ atOp.calls # <<>> /\ AtFault
  /\ atFile' \in CASE c.do = "create" -> {atFile, [atFile EXCEPT ![c.image] = "partial"]}
                   [] c.do = "write" -> {atFile, [atFile EXCEPT ![c.image] = "whole"]}
                   [] OTHER -> {atFile}
  /\ \/ c.do \in {"temporary", "rename"} /\ atLitter' = TRUE /\ UNCHANGED <<atDisk, atIndexed>>
     \/ c.do # "rename" /\ UNCHANGED <<atLitter, atDisk, atIndexed>>
     \/ /\ c.do = "rename"
        /\ atDisk' = c.index /\ UNCHANGED atLitter
        /\ atIndexed' = atIndexed \cup {i \in Images : c.index[i] # "none"}
  /\ atStore' = IF atOp.kind = "open" THEN "closed"
                ELSE IF c.do \in {"temporary", "rename"} THEN "faulted" ELSE atStore
  /\ atOp' = AtIdle
  /\ UNCHANGED <<atMem, atOld, atGranted, atSent>>

(***************************************************************************)
(* Ends                                                                    *)
(***************************************************************************)
\* A paste whose image is in the store: it gets a handle, or, when the
\* clipboard or the composer changed meanwhile, it is released again.
Pasted ==
  LET i == atOp.image IN
  /\ atOp.kind = "import" /\ atOp.calls = <<>>
  /\ \/ atMem[i] = "draft" /\ atGranted' = atGranted \cup {i} /\ atOp' = AtIdle
     \/ atMem[i] = "draft" /\ Starts("release", i, Releasing(i)) /\ UNCHANGED atGranted
     \/ atMem[i] # "draft" /\ atOp' = AtIdle /\ UNCHANGED atGranted
  /\ UNCHANGED <<atFile, atDisk, atLitter, atMem, atStore, atOld, atFaults, atSent, atIndexed>>

\* A message with a retained image is handed to the queue, or is not.
HandedOver ==
  /\ atOp.kind = "retain" /\ atOp.calls = <<>>
  /\ atSent' \in {atSent, atSent \cup {atOp.image}}
  /\ atOp' = AtIdle
  /\ UNCHANGED <<atFile, atDisk, atLitter, atMem, atStore, atOld, atGranted, atFaults, atIndexed>>

OtherEnds ==
  /\ atOp.kind \in {"open", "release"} /\ atOp.calls = <<>>
  /\ atOp' = AtIdle
  /\ UNCHANGED <<atFile, atDisk, atLitter, atMem, atStore, atOld, atGranted, atFaults, atSent,
                 atIndexed>>

\* The App ends, in the midst of a call or not.
AppEnds ==
  /\ atStore # "closed"
  /\ IF atOp = AtIdle THEN UNCHANGED atFaults ELSE AtFault
  /\ atLitter' = (atLitter \/ (atOp.calls # <<>> /\ Head(atOp.calls).do = "rename"))
  /\ atStore' = "closed" /\ atOp' = AtIdle /\ atMem' = NoEntries /\ atGranted' = {}
  /\ UNCHANGED <<atFile, atDisk, atOld, atSent, atIndexed>>

\* A draft comes of age; a handle is evicted, or ends with its revision.
DraftAges(i) ==
  /\ atDisk[i] = "draft" /\ i \notin atOld
  /\ atOld' = atOld \cup {i}
  /\ UNCHANGED <<atFile, atDisk, atLitter, atMem, atStore, atOp, atGranted, atFaults, atSent,
                 atIndexed>>

GrantEnds(i) ==
  /\ i \in atGranted
  /\ atGranted' = atGranted \ {i}
  /\ UNCHANGED <<atFile, atDisk, atLitter, atMem, atStore, atOp, atOld, atFaults, atSent,
                 atIndexed>>

(***************************************************************************)
(* Specification                                                           *)
(***************************************************************************)
AttachmentsNext ==
  \/ OpenStore \/ CallReturns \/ CallFails \/ Pasted \/ HandedOver \/ OtherEnds \/ AppEnds
  \/ \E i \in Images : Paste(i) \/ RemoveImage(i) \/ Retain(i) \/ DraftAges(i) \/ GrantEnds(i)

AttachmentsSpec == AttachmentsInit /\ [][AttachmentsNext]_atVars

(***************************************************************************)
(* Properties                                                              *)
(***************************************************************************)
AtTypeOK ==
  /\ atFile \in [Images -> {"absent", "partial", "whole"}]
  /\ atDisk \in AtIndex /\ atMem \in AtIndex
  /\ atLitter \in BOOLEAN /\ atStore \in {"closed", "open", "faulted"}
  /\ atOp.kind \in {"idle", "open", "import", "release", "retain"}
  /\ \A n \in DOMAIN atOp.calls : atOp.calls[n] \in Calls
  /\ atOld \cup atGranted \cup atSent \cup atIndexed \subseteq Images

\* The image of a message that was handed to the queue stays, and stays marked,
\* through every later paste, removal, expiry, failed call and end of the App.
SentStays == \A i \in atSent : atFile[i] = "whole" /\ atDisk[i] = "retained"

\* Wherever an operation stops, the index names no draft or retained image that
\* is not there in full (only what a paste or an index had just begun to write
\* can make the next open refuse the store), and a deletion that stops on either
\* side of its unlink can be finished: no image that was once in the index is
\* forgotten while its file is there.
IndexMatchesFiles ==
  /\ \A i \in Images : atDisk[i] \in {"draft", "retained"} => atFile[i] = "whole"
  /\ \A i \in atIndexed : atDisk[i] = "none" => atFile[i] = "absent"
=============================================================================
