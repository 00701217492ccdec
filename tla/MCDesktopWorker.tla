--------------------------- MODULE MCDesktopWorker ---------------------------
(* Instance of DesktopWorker for TLC: identities, and owners, are model    *)
(* values that the specification and its safety properties treat alike.    *)
EXTENDS DesktopWorker, TLC

IdSymmetry == Permutations(Ids)
OwnerSymmetry == Permutations(Owners)
=============================================================================
