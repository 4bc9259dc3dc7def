------------------------------ MODULE FsimState -----------------------------
(***************************************************************************)
(* The node values that the calls of FsimX share.                          *)
(***************************************************************************)
VARIABLES
  val,       \* SimNode::mVal, between two simulate()s
  prevVal    \* mPrevValArray
=============================================================================
