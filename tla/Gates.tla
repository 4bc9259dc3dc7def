-------------------------------- MODULE Gates -------------------------------
(***************************************************************************)
(* The gates, as functions on the values "0", "1" and "X": what the        *)
(* fault simulator computes in one lane (the SnGate classes in fsim/) and  *)
(* what the test generator means by a GateType (the TpgLogic classes in    *)
(* tpg_network/).                                                          *)
(***************************************************************************)
EXTENDS Integers, Sequences, FiniteSets

GateTypes == {"Input", "Buff", "Not", "And", "Nand", "Or", "Nor", "Xor", "Xnor"}

Complement(v) == IF v = "0" THEN "1" ELSE IF v = "1" THEN "0" ELSE v

\* ins is the sequence of the fanin values.
Some(ins, x) == \E i \in DOMAIN ins : ins[i] = x

AndOf(ins) == IF Some(ins, "0") THEN "0" ELSE IF Some(ins, "X") THEN "X" ELSE "1"

OrOf(ins) == IF Some(ins, "1") THEN "1" ELSE IF Some(ins, "X") THEN "X" ELSE "0"

XorOf(ins) ==
  IF Some(ins, "X") THEN "X"
  ELSE IF Cardinality({i \in DOMAIN ins : ins[i] = "1"}) % 2 = 1 THEN "1" ELSE "0"

GateFunction(type, ins) ==
  LET base == IF type \in {"And", "Nand"} THEN AndOf(ins)
              ELSE IF type \in {"Or", "Nor"} THEN OrOf(ins)
              ELSE IF type \in {"Xor", "Xnor"} THEN XorOf(ins)
              ELSE ins[1]
  IN  IF type \in {"Not", "Nand", "Nor", "Xnor"} THEN Complement(base) ELSE base

-----------------------------------------------------------------------------
(* The controlling value of a gate and the output it forces, and the       *)
(* value of the other fanins with which the gate passes on a difference.    *)
(* Buffers, inverters, XOR and XNOR have none: "X".                        *)

\* cval(), nval().
ControlValue(type) ==
  IF type \in {"And", "Nand"} THEN "0" ELSE IF type \in {"Or", "Nor"} THEN "1" ELSE "X"
SideValue(type) == Complement(ControlValue(type))

\* coval().
ControlledOutput(type) ==
  IF type \in {"And", "Nor"} THEN "0" ELSE IF type \in {"Nand", "Or"} THEN "1" ELSE "X"
=============================================================================
