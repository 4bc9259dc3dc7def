------------------------------- MODULE MCAtpg -------------------------------
(***************************************************************************)
(* Instances of Atpg for TLC: three faults, two vectors, every relation    *)
(* between them, and two orders of the faults.                             *)
(***************************************************************************)
EXTENDS Atpg

CONSTANTS f1, f2, f3

MCOrders == {<<f1, f2, f3>>, <<f3, f2, f1>>}

\* -drop in every command, and the vectors are kept.
DropAlways == {{"drop"}, {"drop", "verify"}}

\* The bound of the model: how often the command is given.
CONSTANT MaxCommands
VARIABLE commands

MCInit == AtpgInit /\ commands = 0
MCNext ==
  /\ AtpgNext
  /\ commands' = IF pc = "idle" THEN commands + 1 ELSE commands
  /\ commands' <= MaxCommands
MCSpec == MCInit /\ [][MCNext]_<<atpgVars, commands>>
=============================================================================
