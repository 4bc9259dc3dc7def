------------------------------- MODULE SeqNet -------------------------------
(***************************************************************************)
(* The network of a sequential circuit: which of its inputs are primary    *)
(* ones, which are outputs of flip-flops.                                  *)
(***************************************************************************)
EXTENDS SimNet

CONSTANTS
  Input,     \* the primary inputs: mPPIArray[0 .. mInputNum - 1]
  Dff        \* the flip-flops: pairs <<PPI of the output, PPO of the input>>
=============================================================================
