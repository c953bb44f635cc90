-------------------------- MODULE MCExecutorLedger --------------------------
(* Instances of ExecutorLedger for TLC: one attempt and two actions.         *)
EXTENDS ExecutorLedger, TLC

CONSTANTS t1, a1, a2

MCAttempts == {t1}
MCActions == {a1, a2}
MCAttemptOf == [a \in MCActions |-> t1]
MCComments == [a \in MCActions |-> "comment"]
MCSymmetry == Permutations(MCActions)
MCOneAction == {a1}
=============================================================================
