-------------------------- MODULE MCQueueController --------------------------
(* One or two worker groups for the controller to keep in their state.       *)
EXTENDS QueueController, TLC

CONSTANTS k1, k2

MCOneKey  == {k1}
MCTwoKeys == {k1, k2}
Symmetry  == Permutations(MCTwoKeys)
=============================================================================
