------------------------------ MODULE MCLoops ------------------------------
(* Instance for TLC of the loops that must get somewhere: the worker of a  *)
(* thread of the desktop and the two monitors.  They share no state, so    *)
(* each behaviour is of one of them, with the fairness of that one.        *)
EXTENDS DesktopWorker, GithubCi, NativeProbe, TLC

CONSTANTS r1, a1
Owner == r1 :> a1
OneRerun == r1 :> 2

VARIABLE loop
loops == <<vars, ciVars, npVars, loop>>

LoopsInit ==
  /\ loop \in {"worker", "ci", "native"} /\ Init /\ CiInit /\ NpInit
  /\ loop # "native" => ~npOn
  /\ loop # "ci" => ~ciOn
LoopsNext ==
  \/ loop = "worker" /\ Next /\ UNCHANGED <<ciVars, npVars, loop>>
  \/ loop = "ci" /\ CiNext /\ UNCHANGED <<vars, npVars, loop>>
  \/ loop = "native" /\ NpNext /\ UNCHANGED <<vars, ciVars, loop>>

\* FairSpec, CiFairSpec and NpFairSpec, each for its own behaviours
WorkerIsFair ==
  /\ WF_vars(loop = "worker" /\ Proceed)
  /\ SF_vars(loop = "worker" /\ Handle)
  /\ SF_vars(loop = "worker" /\ replica # native /\ Event)
  /\ WF_vars(loop = "worker" /\ EventLost /\ ~conn)
  /\ WF_vars(loop = "worker" /\ Finish /\ NativeTurns)
MonitorsAreFair ==
  /\ WF_ciVars(loop = "ci" /\ CiMonitor)
  /\ WF_npVars(loop = "native" /\ Begin(NpMonitor))
  /\ \A p \in NpProcs : WF_npVars(loop = "native" /\ NpStep(p))
  /\ WF_npVars(loop = "native" /\ \E k \in NpKey : Ages(k) /\ npFaults' = npFaults)
  /\ WF_npVars(loop = "native" /\ \E turn \in Turn : EvidenceComes(turn))

LoopsSpec == LoopsInit /\ [][LoopsNext]_loops /\ WorkerIsFair /\ MonitorsAreFair

\* Columns, files and local variables of every loop stay in their domains.
LoopsTypeOK == TypeOK /\ CiTypeOK /\ NpTypeOK
=============================================================================
