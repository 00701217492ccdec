------------------------------ MODULE MCParts ------------------------------
(* Instance for TLC of the modules that share no state with each other, or *)
(* share it only through what each of them leaves to chance: a behaviour   *)
(* is one of theirs, and the others stay where they begin.                 *)
EXTENDS DesktopLedger, DesktopAttachments, DesktopKey, RemoteChannel,
        NativeProbe, HistoryWindow, CodexQuestions, CodexErrors, DesktopApproval,
        DesktopRuntime, HiddenScan, Jobs, TLC

CONSTANTS c1, c2, c3, c4, app1, app2

TwoApps == c1 :> app1 @@ c2 :> app1 @@ c3 :> app2 @@ c4 :> app2
Symmetry == Permutations(Machines)

VARIABLE part
parts ==
  <<ledger, atVars, dkVars, rcVars, npVars, hwVars, cqVars, ceVars, daVars,
    duVars, hsVars, jbVars, part>>

PartsInit ==
  /\ part \in {"ledger", "attachments", "key", "remote", "native", "history", "questions",
              "errors", "approval", "runtime", "hidden", "jobs"}
  /\ LedgerInit /\ AttachmentsInit /\ KeyInit /\ RemoteInit /\ NpInit
  /\ HistoryInit /\ CqInit /\ CeInit
  /\ ApprovalInit /\ RuntimeInit /\ HiddenScanInit /\ JobsInit
  /\ part # "remote" => rcTarget = Local
  /\ part # "native" => ~npOn
  /\ part # "questions" => cqOn /\ InUse = CHOOSE used \in CqUses : TRUE
  \* The first owner and the first thread shown stand for any other.
  /\ daOwner = CHOOSE owner \in DaOwners : TRUE
  /\ duThread = CHOOSE shown \in DuThreads : TRUE

PartsNext ==
  \/ /\ part = "ledger" /\ LedgerNext
     /\ UNCHANGED <<atVars, dkVars, rcVars, npVars, hwVars, cqVars, ceVars,
                    daVars, duVars, hsVars, jbVars, part>>
  \/ /\ part = "attachments" /\ AttachmentsNext
     /\ UNCHANGED <<ledger, dkVars, rcVars, npVars, hwVars, cqVars, ceVars,
                    daVars, duVars, hsVars, jbVars, part>>
  \/ /\ part = "key" /\ KeyNext
     /\ UNCHANGED <<ledger, atVars, rcVars, npVars, hwVars, cqVars, ceVars,
                    daVars, duVars, hsVars, jbVars, part>>
  \/ /\ part = "remote" /\ RemoteNext
     /\ UNCHANGED <<ledger, atVars, dkVars, npVars, hwVars, cqVars, ceVars,
                    daVars, duVars, hsVars, jbVars, part>>
  \/ /\ part = "native" /\ NpNext
     /\ UNCHANGED <<ledger, atVars, dkVars, rcVars, hwVars, cqVars, ceVars,
                    daVars, duVars, hsVars, jbVars, part>>
  \/ /\ part = "history" /\ HistoryNext
     /\ UNCHANGED <<ledger, atVars, dkVars, rcVars, npVars, cqVars, ceVars,
                    daVars, duVars, hsVars, jbVars, part>>
  \/ /\ part = "questions" /\ CqNext
     /\ UNCHANGED <<ledger, atVars, dkVars, rcVars, npVars, hwVars, ceVars,
                    daVars, duVars, hsVars, jbVars, part>>
  \/ /\ part = "errors" /\ CeNext
     /\ UNCHANGED <<ledger, atVars, dkVars, rcVars, npVars, hwVars, cqVars,
                    daVars, duVars, hsVars, jbVars, part>>
  \/ /\ part = "approval" /\ ApprovalNext
     /\ UNCHANGED <<ledger, atVars, dkVars, rcVars, npVars, hwVars, cqVars,
                    ceVars, duVars, hsVars, jbVars, part>>
  \/ /\ part = "runtime" /\ RuntimeNext
     /\ UNCHANGED <<ledger, atVars, dkVars, rcVars, npVars, hwVars, cqVars,
                    ceVars, daVars, hsVars, jbVars, part>>
  \/ /\ part = "hidden" /\ HiddenScanNext
     /\ UNCHANGED <<ledger, atVars, dkVars, rcVars, npVars, hwVars, cqVars,
                    ceVars, daVars, duVars, jbVars, part>>
  \/ /\ part = "jobs" /\ JobsNext
     /\ UNCHANGED <<ledger, atVars, dkVars, rcVars, npVars, hwVars, cqVars,
                    ceVars, daVars, duVars, hsVars, part>>

PartsSpec == PartsInit /\ [][PartsNext]_parts

\* Columns, files and local variables of every part stay in their domains.
PartsTypeOK ==
  CASE part = "ledger" -> LedgerTypeOK
    [] part = "attachments" -> AtTypeOK
    [] part = "key" -> DkTypeOK
    [] part = "remote" -> RemoteTypeOK
    [] part = "native" -> NpTypeOK
    [] part = "history" -> HwTypeOK
    [] part = "questions" -> CqTypeOK
    [] part = "errors" -> CeTypeOK
    [] part = "approval" -> DaTypeOK
    [] part = "runtime" -> DuTypeOK
    [] part = "hidden" -> HsTypeOK
    [] part = "jobs" -> JobsTypeOK
=============================================================================
