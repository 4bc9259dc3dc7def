---------------------------- MODULE MCCompaction ----------------------------
(***************************************************************************)
(* Instances of Compaction for TLC: three faults of two inputs, of which   *)
(* one may have two cubes, and up to two tests for each.                   *)
(***************************************************************************)
EXTENDS Compaction

Cube(a, b) == (1 :> a) @@ (2 :> b)

Faults ==
  {<<{Cube("X", "1")}, {Cube("1", "X")}, {Cube("0", "0")}>>,
   <<{Cube("X", "1")}, {Cube("1", "X")}, {Cube("0", "X")}>>,
   <<{Cube("0", "0")}, {Cube("X", "1")}, {Cube("0", "1"), Cube("1", "0")}>>,
   <<{Cube("0", "1"), Cube("1", "0")}, {Cube("X", "1")}, {Cube("1", "1")}>>}

AllSteps == <<"red1", "red2">>
AllVectors == [Bit -> Value]
AllBatches == (SUBSET AllVectors) \ {{}}

Init ==
  /\ cubes \in Faults
  /\ region \in {<<1, 1, 2>>, <<1, 2, 3>>}
  /\ CompactionInit

Spec == Init /\ [][CompactionNext]_compactionVars /\ CompactionFairness
=============================================================================
