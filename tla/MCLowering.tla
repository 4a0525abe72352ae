------------------------------ MODULE MCLowering ------------------------------
(***************************************************************************)
(* Lowering: layouts, storage queries and copies (MCTensor), and the       *)
(* passes over the expanded graph (MCLowPasses).  A behaviour is one of    *)
(* one of them; the variables of the others stand still.                   *)
(***************************************************************************)
EXTENDS MCTensor, MCLowPasses

VARIABLE component

tensorVars == <<storageVars, layoutVars, copyVars>>

LowIdle ==
    /\ program = <<>> /\ tiles = <<>> /\ stage = "expand" /\ pool = <<>> /\ memory = <<>>
    /\ expected = <<>>

LoweringInit ==
    \/ component = "tensors" /\ TensorsInit /\ LowIdle
    \/ component = "passes" /\ LowInit /\ NoLayout /\ NoStorage /\ NoCopy

MovesTensors == component = "tensors" /\ TensorsNext /\ UNCHANGED <<component, lowVars>>
RunsPasses == component = "passes" /\ LowNext /\ UNCHANGED <<component, tensorVars>>

LoweringNext == MovesTensors \/ RunsPasses

LoweringSpec == LoweringInit /\ [][LoweringNext]_<<component, tensorVars, lowVars>>
===============================================================================
