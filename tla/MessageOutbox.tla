---------------------------- MODULE MessageOutbox ----------------------------
(***************************************************************************)
(* What the desktop submission queue promises for each message, without    *)
(* ledger, connection or worker: a message is given to the model at most   *)
(* once and only between the moment it is taken from the queue and the     *)
(* moment it is put back; it is called delivered only after that; a        *)
(* message removed from the queue is never given to the model, and one     *)
(* abandoned in doubt may still be.                                        *)
(*                                                                         *)
(* docs/ARCHITECTURE.md, "local Codex desktop collaboration": the claim is *)
(* stored first, only a confirmation clears the text, nothing is resent    *)
(* automatically.  Distinct messages may take steps together.              *)
(***************************************************************************)
CONSTANT Ids

VARIABLES stage, ran

Stages == {"none", "pending", "inflight", "delivered", "removed", "abandoned", "forgotten"}

Init ==
    /\ stage = [m \in Ids |-> "none"]
    /\ ran = [m \in Ids |-> FALSE]

To(m, from, to) == stage[m] \in from /\ stage'[m] = to

Submit(m)  == To(m, {"none"}, "pending") /\ ran'[m] = ran[m]
Take(m)    == To(m, {"pending"}, "inflight") /\ ran'[m] = ran[m]
\* Only what has not been run goes back to the queue, and it is not run there.
Return(m)  == To(m, {"inflight"}, "pending") /\ ~ran[m] /\ ~ran'[m]
Confirm(m) == To(m, {"inflight"}, "delivered") /\ ran[m] /\ ran'[m]
Remove(m)  == To(m, {"pending"}, "removed") /\ ran'[m] = ran[m]
Abandon(m) == To(m, {"inflight"}, "abandoned") /\ ran'[m] = ran[m]
RunOnce(m) == /\ stage[m] \in {"inflight", "abandoned"} /\ stage'[m] = stage[m]
              /\ ~ran[m] /\ ran'[m]
\* The identity of a message that is over leaves the ledger.
Forget(m)  == To(m, {"delivered", "removed", "abandoned"}, "forgotten") /\ ~ran'[m]

Rest(m) == stage'[m] = stage[m] /\ ran'[m] = ran[m]

Step(m) ==
    \/ Submit(m) \/ Take(m) \/ Return(m) \/ Confirm(m) \/ Remove(m) \/ Abandon(m)
    \/ RunOnce(m) \/ Forget(m)

Next ==
    /\ stage' \in [Ids -> Stages]
    /\ ran' \in [Ids -> BOOLEAN]
    /\ \A m \in Ids : Step(m) \/ Rest(m)

Spec == Init /\ [][Next]_<<stage, ran>>
=============================================================================
