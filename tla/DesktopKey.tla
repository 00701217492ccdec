----------------------------- MODULE DesktopKey -----------------------------
(***************************************************************************)
(* How the App comes to own the queue of the local desktop:                *)
(* CodexDesktopBridge::runtime (codex_desktop.rs), with the lock of the    *)
(* database and the access to the credential store (credentials.rs).       *)
(* Messages and the index of the pasted images are encrypted under one key *)
(* of the key chain, which is made on first use.  A caller may be dropped  *)
(* at any await while the blocking call it waits for runs on; a key made   *)
(* twice would leave what is stored unreadable.                            *)
(***************************************************************************)
EXTENDS Naturals, FiniteSets

CONSTANTS
  Apps,        \* App processes on the same database
  DkCalls,     \* calls of runtime
  AppOf,       \* the process of a call
  MaxKey,      \* bound on the keys ever made
  MaxDkFaults  \* bound on errors, time-outs, dropped callers and ends of a process

ASSUME DesktopKeyAssumption ==
  AppOf \in [DkCalls -> Apps] /\ MaxKey \in Nat \ {0} /\ MaxDkFaults \in Nat

NoKey == 0
Key == 0..MaxKey

VARIABLES
  dkChain,   \* the key in the key chain
  dkLast,    \* keys made so far: a new key is another one
  dkRoot,    \* does the directory of the attachments exist?
  dkRows,    \* keys of the messages in the ledger
  dkIndex,   \* key of the index of the attachments
  dkLock,    \* calls that hold the file lock, alone or as the runtime of their process
  dkCall,    \* calls: where each is, what it read, and whether its caller still waits
  dkFaults

dkVars == <<dkChain, dkLast, dkRoot, dkRows, dkIndex, dkLock, dkCall, dkFaults>>

DkIdle == [pc |-> "idle", existing |-> FALSE, key |-> NoKey, awaited |-> FALSE]

KeyInit ==
  /\ dkChain = NoKey /\ dkLast = 0 /\ dkRoot = FALSE /\ dkRows = {} /\ dkIndex = NoKey
  /\ dkLock = {} /\ dkCall = [c \in DkCalls |-> DkIdle] /\ dkFaults = 0

At(c, pc) == dkCall[c].pc = pc
DkFault == dkFaults < MaxDkFaults /\ dkFaults' = dkFaults + 1

\* The slot of the process is behind a mutex its caller holds.
SlotFree(c) ==
  \A d \in DkCalls \ {c} : AppOf[d] = AppOf[c] => ~dkCall[d].awaited /\ ~At(d, "ready")

\* One permit per process; a worker keeps it when its caller is gone.
GateFree(c) ==
  \A d \in DkCalls : AppOf[d] = AppOf[c] => dkCall[d].pc \notin {"read", "make"}

\* A call comes to its next step, or ends and drops the lock: because of an
\* error, or because nobody takes what its worker returns.
Goes(c, next) ==
  IF dkCall[c].awaited
    THEN dkCall' = [dkCall EXCEPT ![c] = next] /\ UNCHANGED dkLock
    ELSE dkCall' = [dkCall EXCEPT ![c] = DkIdle] /\ dkLock' = dkLock \ {c}
Stops(c) == dkCall' = [dkCall EXCEPT ![c] = DkIdle] /\ dkLock' = dkLock \ {c}

DkBegin(c) ==
  /\ At(c, "idle") /\ SlotFree(c)
  /\ dkCall' = [dkCall EXCEPT ![c] = [DkIdle EXCEPT !.pc = "lock", !.awaited = TRUE]]
  /\ UNCHANGED <<dkChain, dkLast, dkRoot, dkRows, dkIndex, dkLock, dkFaults>>

\* lock_database, and what there is to be read with an old key.
Lock(c) ==
  /\ At(c, "lock")
  /\ IF dkLock # {} \/ ~dkCall[c].awaited
       THEN Stops(c)
       ELSE /\ dkLock' = {c}
            /\ dkCall' = [dkCall EXCEPT ![c].pc = "wait", ![c].existing = dkRows # {} \/ dkRoot]
  /\ UNCHANGED <<dkChain, dkLast, dkRoot, dkRows, dkIndex, dkFaults>>

\* CredentialAccess::transaction: the wait for the gate is all that times out.
EnterGate(c) ==
  /\ At(c, "wait") /\ GateFree(c)
  /\ dkCall' = [dkCall EXCEPT ![c].pc = "read"]
  /\ UNCHANGED <<dkChain, dkLast, dkRoot, dkRows, dkIndex, dkLock, dkFaults>>

ReadKey(c) ==
  /\ At(c, "read")
  /\ CASE dkChain # NoKey -> Goes(c, [dkCall[c] EXCEPT !.pc = "open", !.key = dkChain])
       [] dkChain = NoKey /\ dkCall[c].existing -> Stops(c)
       [] OTHER -> dkCall' = [dkCall EXCEPT ![c].pc = "make"] /\ UNCHANGED dkLock
  /\ UNCHANGED <<dkChain, dkLast, dkRoot, dkRows, dkIndex, dkFaults>>

MakeKey(c) ==
  /\ At(c, "make") /\ dkLast < MaxKey
  /\ dkLast' = dkLast + 1
  /\ \/ /\ dkChain' = dkLast + 1 /\ UNCHANGED dkFaults
        /\ Goes(c, [dkCall[c] EXCEPT !.pc = "open", !.key = dkLast + 1])
     \/ dkChain' \in {dkChain, dkLast + 1} /\ Stops(c) /\ DkFault
  /\ UNCHANGED <<dkRoot, dkRows, dkIndex>>

\* AttachmentStore::open, which needs the key of the index.
OpenAttachments(c) ==
  /\ At(c, "open")
  /\ dkRoot' = TRUE
  /\ IF dkIndex \in {NoKey, dkCall[c].key}
     THEN Goes(c, [dkCall[c] EXCEPT !.pc = "recover"]) ELSE Stops(c)
  /\ UNCHANGED <<dkChain, dkLast, dkRows, dkIndex, dkFaults>>

\* DesktopLedger::recover, and the runtime takes the slot.
RecoverQueue(c) ==
  /\ At(c, "recover")
  /\ Goes(c, [dkCall[c] EXCEPT !.pc = "ready", !.awaited = FALSE])
  /\ UNCHANGED <<dkChain, dkLast, dkRoot, dkRows, dkIndex, dkFaults>>

\* An error of any of the steps, or the time-out of the gate.
CallErrs(c) ==
  /\ dkCall[c].pc \in {"lock", "wait", "read", "open", "recover"} /\ DkFault
  /\ dkRoot' \in IF At(c, "open") THEN {dkRoot, TRUE} ELSE {dkRoot}
  /\ Stops(c)
  /\ UNCHANGED <<dkChain, dkLast, dkRows, dkIndex>>

\* Mutant: the lock goes with the caller.
CallerDroppedWithLock(c) ==
  /\ dkCall[c].awaited /\ DkFault
  /\ \/ ~At(c, "make") /\ Stops(c)
     \/ ~At(c, "wait") /\ dkCall' = [dkCall EXCEPT ![c].awaited = FALSE] /\ dkLock' = dkLock \ {c}
  /\ UNCHANGED <<dkChain, dkLast, dkRoot, dkRows, dkIndex>>

\* The caller is dropped.  A call whose worker has not started goes with it;
\* one that runs in a worker goes on, and keeps the lock.
CallerDropped(c) ==
  /\ dkCall[c].awaited /\ DkFault
  /\ \/ ~At(c, "make") /\ Stops(c)
     \/ ~At(c, "wait") /\ dkCall' = [dkCall EXCEPT ![c].awaited = FALSE] /\ UNCHANGED dkLock
  /\ UNCHANGED <<dkChain, dkLast, dkRoot, dkRows, dkIndex>>

(***************************************************************************)
(* The runtime, the user and the process                                   *)
(***************************************************************************)
\* enqueue, and the index of the first pasted image.
Encrypt(c) ==
  /\ At(c, "ready")
  /\ \/ dkRows' = dkRows \cup {dkCall[c].key} /\ UNCHANGED dkIndex
     \/ dkIndex' = dkCall[c].key /\ UNCHANGED dkRows
  /\ UNCHANGED <<dkChain, dkLast, dkRoot, dkLock, dkCall, dkFaults>>

\* The messages of the queue end.
DkPurge(c) ==
  /\ At(c, "ready") /\ dkRows' = {}
  /\ UNCHANGED <<dkChain, dkLast, dkRoot, dkIndex, dkLock, dkCall, dkFaults>>

UserDeletesKey ==
  /\ dkChain # NoKey /\ DkFault
  /\ dkChain' = NoKey
  /\ UNCHANGED <<dkLast, dkRoot, dkRows, dkIndex, dkLock, dkCall>>

AppDies(p) ==
  LET gone == {c \in DkCalls : AppOf[c] = p} IN
  /\ \E c \in gone : ~At(c, "idle")
  /\ DkFault
  /\ dkCall' = [c \in DkCalls |-> IF c \in gone THEN DkIdle ELSE dkCall[c]]
  /\ dkLock' = dkLock \ gone
  /\ UNCHANGED <<dkChain, dkLast, dkRoot, dkRows, dkIndex>>

(***************************************************************************)
(* Specification and properties                                            *)
(***************************************************************************)
KeyNext ==
  \/ \E c \in DkCalls :
       \/ DkBegin(c) \/ Lock(c) \/ EnterGate(c) \/ ReadKey(c) \/ MakeKey(c)
       \/ OpenAttachments(c) \/ RecoverQueue(c) \/ CallErrs(c) \/ CallerDropped(c)
       \/ Encrypt(c) \/ DkPurge(c)
  \/ UserDeletesKey
  \/ \E p \in Apps : AppDies(p)

KeySpec == KeyInit /\ [][KeyNext]_dkVars

DkTypeOK ==
  /\ dkChain \in Key /\ dkLast \in Key /\ dkIndex \in Key /\ dkRows \subseteq Key
  /\ dkRoot \in BOOLEAN /\ dkLock \subseteq DkCalls
  /\ dkCall \in [DkCalls ->
                  [pc : {"idle", "lock", "wait", "read", "make", "open", "recover", "ready"},
                   existing : BOOLEAN, key : Key, awaited : BOOLEAN]]

\* Whatever is stored can be read with the key of the key chain, as long as the
\* user leaves a key there: a key is never replaced by a second one, although
\* callers are dropped while the key chain writes, steps fail and processes end.
KeyIsStable == dkChain # NoKey => dkRows \cup ({dkIndex} \ {NoKey}) \subseteq {dkChain}

\* The recovery marks the messages a stopped process was sending: it never runs
\* while another call owns the queue, in this process or another.
RecoversAlone ==
  \A c, d \in DkCalls : At(c, "recover") /\ dkCall[d].pc \in {"recover", "ready"} => c = d
=============================================================================
