-------------------------- MODULE CompactionProofs --------------------------
(***************************************************************************)
(* What TLAPS proves about fault reduction followed by colouring: the      *)
(* merged vectors detect every fault of the original list, for every list  *)
(* of vectors and faults, all batches, steps, block sizes and regions.     *)
(*                                                                         *)
(* First the colouring by itself.  The matrix and the graph are kept apart *)
(* in the code and follow each other only because of what each loop leaves *)
(* behind: Stages says where a node may be at each point, Colours that the *)
(* colour in use is that of the group.  IInv is the conjunction that is    *)
(* inductive.                                                              *)
(*                                                                         *)
(* Then the fault reducer by itself, for faults with any tests.  For       *)
(* stuck-at faults its deletions are right in whatever order they are      *)
(* made: the fault that justifies one may itself be deleted later, but     *)
(* then by a fault that implies both.                                      *)
(*                                                                         *)
(* Last both together.  While the reducer and the generator run there is   *)
(* nothing to colour.  The generator gives every fault on its list a test, *)
(* and those it has no test for keep their marks; then every fault on that *)
(* list has an element in the matrix, which the colouring keeps covered.   *)
(***************************************************************************)
EXTENDS Compaction, TLAPS

-----------------------------------------------------------------------------
(* The colouring.                                                          *)


Live == cols \cup selected
Grouping == {"selected", "cover", "colour"}

\* Where the nodes are in each loop.
Stages ==
  /\ phase \in {"matrix", "reduce", "propagate", "start", "merge", "merged"} \cup Grouping
  /\ cols \cap selected = {} /\ pending \cap Live = {}
  /\ phase \notin {"reduce", "propagate"} => pending = {}
  /\ phase \in {"matrix", "reduce", "propagate"} => colorNum = 0
  /\ phase = "matrix" => cols = Node
  /\ phase \in Grouping => group \subseteq Live /\ group # {}
  /\ phase \in {"selected", "cover"} => choices \subseteq Live
  /\ phase \in {"merge", "merged"} => selected = {} /\ rows = {}

\* A node that is left has no colour, except in the group that is being
\* coloured, and that group alone has the last colour.
Colours ==
  /\ phase # "colour" => Live \cap Coloured = {}
  /\ phase = "colour" =>
       /\ colorNum > 0
       /\ Live \cap Coloured \subseteq group
       /\ \A n \in group : colorMap[n] \in {0, colorNum}
       /\ \A n \in Node : colorMap[n] = colorNum => n \in group

\* The group is compatible, and what may join it is compatible with it.
GroupCompatible ==
  /\ phase \in Grouping => \A m, n \in group : Compatible(m, n)
  /\ phase \in {"selected", "cover"} => \A m \in choices, n \in group : Compatible(m, n)

\* Every colour has a vector, the last one when its group has been coloured.
ColoursUsed ==
  \A c \in 1 .. colorNum :
    (phase = "colour" /\ c = colorNum) \/ \E n \in Node : colorMap[n] = c
ColoursCompatible ==
  \A m, n \in Coloured : colorMap[m] = colorMap[n] => Compatible(m, n)

\* While the matrix is filled no element of the blocks done is missing;
\* afterwards every row has a column.
RowsHaveColumns ==
  /\ phase = "matrix" =>
       /\ matrix \subseteq rows \X Node
       /\ \A r \in rows : \E n \in Node : Detects(tv[n], r)
       /\ \A r \in rows, n \in Node : n <= base /\ Detects(tv[n], r) => <<r, n>> \in matrix
  /\ phase # "matrix" => \A r \in rows : ColsOf(r) # {}

\* Elements of the matrix are detections.
MatrixIsRight == \A e \in matrix : Detects(tv[e[2]], e[1])

\* A merged vector has what those merged into it have, and nothing else.
Merging ==
  /\ phase \notin {"merge", "merged"} => newTv = << >> /\ joined = {}
  /\ joined \subseteq GroupOf(Len(newTv))
  /\ \A k \in DOMAIN newTv : \A n \in GroupOf(k) :
       k < Len(newTv) \/ n \in joined => Refines(newTv[k], tv[n])
  /\ \A b \in Bit : newTv # << >> =>
       newTv[Len(newTv)][b] \in {"X"} \cup {tv[m][b] : m \in joined}
  /\ phase = "merged" => Len(newTv) = colorNum /\ Waiting = {}

IInv ==
  /\ tv \in Seq(Vec)
  /\ MinPatTypeOK
  /\ Stages
  /\ Colours
  /\ GroupCompatible
  /\ ColoursCompatible
  /\ ColoursUsed
  /\ GraphFollowsMatrix
  /\ RowsHaveColumns
  /\ RowsStayCovered
  /\ MatrixIsRight
  /\ Merging

-----------------------------------------------------------------------------
(* The lists and the graph.                                                *)

\* Two nodes conflict in a bit in which both are specified and differ.
LEMMA CompatibleMeans ==
  ASSUME NEW m \in Node, NEW n \in Node
  PROVE  Compatible(m, n) <=>
           ~ \E b \in ConflictBits : tv[m][b] \in Value /\ tv[n][b] = Opposite(tv[m][b])
<1> DEFINE Conflict(b) == tv[m][b] \in Value /\ tv[n][b] = Opposite(tv[m][b])
<1>1. ASSUME NEW b \in ConflictBits, Conflict(b)
      PROVE  Oids(m) \cap OwnLists(n) # {}
  <2> DEFINE o == <<b, tv[m][b]>>
  <2>1. o \in OwnLists(m)
    BY <1>1 DEF OwnLists
  <2>2. <<b, Opposite(tv[m][b])>> \in Oids(m)
    BY <2>1 DEF Oids
  <2>3. Opposite(tv[m][b]) \in Value
    BY DEF Value, Opposite
  <2>4. <<b, Opposite(tv[m][b])>> \in OwnLists(n)
    BY <1>1, <2>3 DEF OwnLists
  <2> QED
    BY <2>2, <2>4
<1>2. ASSUME NEW p \in Oids(m) \cap OwnLists(n)
      PROVE  \E b \in ConflictBits : Conflict(b)
  <2>1. PICK o \in OwnLists(m) : p = <<o[1], Opposite(o[2])>>
    BY <1>2 DEF Oids
  <2>2. o[1] \in ConflictBits /\ o[2] \in Value /\ tv[m][o[1]] = o[2]
    BY <2>1 DEF OwnLists
  <2>3. tv[n][p[1]] = p[2]
    BY <1>2 DEF OwnLists
  <2>4. p[1] = o[1] /\ p[2] = Opposite(o[2])
    BY <2>1
  <2> QED
    BY <2>2, <2>3, <2>4
<1> QED
  BY <1>1, <1>2 DEF Compatible

\* Compatibility does not depend on the order.
LEMMA CompatibleSymmetric ==
  ASSUME NEW m \in Node, NEW n \in Node, Compatible(m, n)
  PROVE  Compatible(n, m)
<1>1. \A v \in Value : Opposite(v) \in Value /\ Opposite(Opposite(v)) = v
  BY DEF Value, Opposite
<1> QED
  BY <1>1, CompatibleMeans

\* A node does not conflict with itself.
LEMMA CompatibleReflexive ==
  ASSUME NEW n \in Node
  PROVE  Compatible(n, n)
<1>1. \A v \in Value : Opposite(v) # v
  BY DEF Value, Opposite
<1> QED
  BY <1>1, CompatibleMeans

\* Nothing that a step does to the lists changes what the vectors are.
LEMMA SameVectors ==
  ASSUME tv' = tv, cubes' = cubes
  PROVE  /\ Node' = Node /\ ConflictBits' = ConflictBits
         /\ \A m, n : Compatible(m, n)' = Compatible(m, n)
         /\ \A n, f : Detects(tv[n], f)' = Detects(tv[n], f)
  BY DEF Node, ConflictBits, Compatible, Oids, OwnLists, Detects

-----------------------------------------------------------------------------
(* Every step keeps the vectors.                                           *)

LEMMA VectorsStay ==
  ASSUME MinPatNext
  PROVE  tv' = tv /\ cubes' = cubes
  BY DEF MinPatNext, GenerateMatrix, SelectEssential, DeleteDominatedCol, DeleteDominatedRow, PropagateDeletion, EndReduce, StartWithSelected, AddSelected, OfferColumns, StartWithColumn, AddColumn, NewColor, SetColor, UpdateMatrix, MergeTvList, inputVars

-----------------------------------------------------------------------------
(* Merging.                                                                *)

\* Compatible nodes have compatible vectors: a bit in which two vectors differ
\* is one of those that have lists.
LEMMA CompatibleVectors ==
  ASSUME tv \in Seq(Vec), NEW m \in Node, NEW n \in Node, Compatible(m, n)
  PROVE  IsCompat(tv[m], tv[n])
<1>1. tv[m] \in Vec /\ tv[n] \in Vec
  BY DEF Node
<1>2. ASSUME NEW b \in Bit, tv[m][b] # tv[n][b], tv[m][b] # "X", tv[n][b] # "X"
      PROVE  FALSE
  <2>1. tv[m][b] \in Value /\ tv[n][b] = Opposite(tv[m][b])
    BY <1>1, <1>2 DEF Vec, Value, Opposite
  <2>2. \A v \in Value : v = tv[m][b] \/ v = tv[n][b]
    BY <2>1 DEF Value, Opposite
  <2>3. b \in ConflictBits
    BY <2>2 DEF ConflictBits
  <2> QED
    BY <2>1, <2>3, CompatibleMeans
<1> QED
  BY <1>2 DEF IsCompat

\* The merge of two compatible vectors has what both have.
LEMMA MergeRefines ==
  ASSUME NEW u \in Vec, NEW v \in Vec, IsCompat(u, v)
  PROVE  /\ MergedWith(u, v) \in Vec
         /\ Refines(MergedWith(u, v), v)
         /\ \A w : Refines(u, w) => Refines(MergedWith(u, v), w)
         /\ \A b \in Bit : MergedWith(u, v)[b] \in {u[b], v[b]}
<1>1. MergedWith(u, v) = [b \in Bit |-> IF u[b] = "X" THEN v[b] ELSE u[b]]
  BY DEF MergedWith
<1> QED
  BY <1>1 DEF IsCompat, Refines, Vec

\* A vector begins with the first of a colour.
LEMMA BeginVectorStep ==
  ASSUME IInv, BeginVector, UNCHANGED <<inputVars, colourVars>>
  PROVE  MergeTypeOK' /\ Merging'
<1> DEFINE L == Len(newTv)
<1>1. PICK n \in GroupOf(L + 1) : newTv' = Append(newTv, tv[n]) /\ joined' = {n}
  BY DEF BeginVector, FirstOf
<1>2. /\ tv \in Seq(Vec) /\ newTv \in Seq(Vec) /\ L \in Nat /\ L < colorNum
      /\ colorNum \in Nat /\ phase = "merge" /\ phase' = phase /\ Waiting = {}
  BY DEF IInv, MinPatTypeOK, MergeTypeOK, BeginVector
<1>3. n \in Node /\ tv[n] \in Vec
  BY <1>1, <1>2 DEF GroupOf, Coloured, Node
<1>4. /\ newTv' \in Seq(Vec) /\ Len(newTv') = L + 1 /\ DOMAIN newTv' = 1 .. L + 1
      /\ \A k \in 1 .. L : newTv'[k] = newTv[k]
      /\ newTv'[L + 1] = tv[n]
  BY <1>1, <1>2, <1>3
<1>5. \A k : GroupOf(k)' = GroupOf(k)
  BY DEF GroupOf, Coloured, Node, inputVars, colourVars
<1>6. MergeTypeOK'
  BY <1>1, <1>2, <1>3, <1>4 DEF MergeTypeOK, Node, inputVars, colourVars
<1>7. ASSUME NEW k \in 1 .. L + 1, NEW i \in GroupOf(k), k < L + 1 \/ i \in joined'
      PROVE  Refines(newTv'[k], tv[i])
  <2>1. CASE k = L + 1
    BY <1>1, <1>2, <1>4, <1>7, <2>1 DEF Refines
  <2>2. CASE k # L + 1
    <3>1. k \in DOMAIN newTv /\ newTv'[k] = newTv[k]
      BY <1>2, <1>4, <2>2
    <3>2. k < L \/ i \in joined
      BY <1>2, <1>7, <2>2 DEF Waiting
    <3> QED
      BY <3>1, <3>2, <1>7 DEF IInv, Merging
  <2> QED
    BY <2>1, <2>2
<1>8. Merging'
  BY <1>1, <1>2, <1>4, <1>5, <1>7 DEF Merging, inputVars
<1> QED
  BY <1>6, <1>8

\* A further vector of the colour is compatible with those merged before.
LEMMA MergeNextStep ==
  ASSUME IInv, MergeNext, UNCHANGED <<inputVars, colourVars>>
  PROVE  MergeTypeOK' /\ Merging'
<1> DEFINE L == Len(newTv)
<1> DEFINE u == newTv[L]
<1>1. PICK n \in Waiting :
        newTv' = [newTv EXCEPT ![L] = MergedWith(u, tv[n])] /\ joined' = joined \cup {n}
  BY DEF MergeNext, FirstOf
<1>2. /\ tv \in Seq(Vec) /\ newTv \in Seq(Vec) /\ L \in Nat /\ L <= colorNum
      /\ colorMap \in [Node -> 0 .. colorNum] /\ colorNum \in Nat
      /\ joined \subseteq GroupOf(L) /\ phase = "merge" /\ phase' = phase
  BY DEF IInv, MinPatTypeOK, MergeTypeOK, Merging, MergeNext
<1>3. n \in GroupOf(L) /\ n \in Node /\ tv[n] \in Vec /\ L \in 1 .. L
  <2>1. n \in Node /\ colorMap[n] = L /\ colorMap[n] # 0
    BY <1>1 DEF Waiting, GroupOf, Coloured
  <2> QED
    BY <1>1, <1>2, <2>1 DEF Waiting, Node
<1>4. u \in Vec
  BY <1>2, <1>3
<1>5. IsCompat(u, tv[n])
  <2>1. ASSUME NEW m \in joined
        PROVE  IsCompat(tv[m], tv[n])
    <3>1. m \in Node /\ Compatible(m, n)
      BY <1>2, <1>3, <2>1 DEF IInv, ColoursCompatible, GroupOf, Coloured
    <3> QED
      BY <1>2, <1>3, <3>1, CompatibleVectors
  <2>2. \A b \in Bit : u[b] \in {"X"} \cup {tv[m][b] : m \in joined}
    BY <1>2, <1>3 DEF IInv, Merging
  <2> QED
    BY <2>1, <2>2 DEF IsCompat
<1>6. /\ MergedWith(u, tv[n]) \in Vec
      /\ Refines(MergedWith(u, tv[n]), tv[n])
      /\ \A w : Refines(u, w) => Refines(MergedWith(u, tv[n]), w)
      /\ \A b \in Bit : MergedWith(u, tv[n])[b] \in {u[b], tv[n][b]}
  BY <1>3, <1>4, <1>5, MergeRefines
<1>7. /\ newTv' \in Seq(Vec) /\ Len(newTv') = L /\ DOMAIN newTv' = 1 .. L
      /\ DOMAIN newTv = 1 .. L
      /\ \A k \in 1 .. L : k # L => newTv'[k] = newTv[k]
      /\ newTv'[L] = MergedWith(u, tv[n])
  BY <1>1, <1>2, <1>3, <1>6
<1>8. \A k : GroupOf(k)' = GroupOf(k)
  BY DEF GroupOf, Coloured, Node, inputVars, colourVars
<1>9. MergeTypeOK'
  BY <1>1, <1>2, <1>3, <1>7 DEF IInv, MinPatTypeOK, MergeTypeOK, Node, inputVars, colourVars
<1>10. ASSUME NEW k \in 1 .. L, NEW i \in GroupOf(k), k < L \/ i \in joined'
       PROVE  Refines(newTv'[k], tv[i])
  <2>1. k < L \/ i \in joined => Refines(newTv[k], tv[i])
    BY <1>7 DEF IInv, Merging
  <2>2. CASE k # L
    <3>1. k < L
      BY <1>2, <2>2
    <3> QED
      BY <1>7, <2>1, <2>2, <3>1
  <2>3. CASE k = L /\ i = n
    BY <1>6, <1>7, <2>3
  <2>4. CASE k = L /\ i \in joined
    BY <1>6, <1>7, <2>1, <2>4
  <2> QED
    BY <1>1, <1>2, <1>10, <2>2, <2>3, <2>4
<1>11. ASSUME NEW b \in Bit
       PROVE  newTv'[L][b] \in {"X"} \cup {tv[m][b] : m \in joined'}
  <2>1. u[b] \in {"X"} \cup {tv[m][b] : m \in joined}
    BY <1>2, <1>3 DEF IInv, Merging
  <2> QED
    BY <1>1, <1>6, <1>7, <2>1
<1>12. tv' = tv /\ joined' \subseteq GroupOf(L)
  BY <1>1, <1>2, <1>3 DEF inputVars
<1>13. \A k \in DOMAIN newTv' : \A i \in GroupOf(k)' :
         k < Len(newTv') \/ i \in joined' => Refines(newTv'[k], tv'[i])
  BY <1>7, <1>8, <1>10, <1>12
<1>14. Merging'
  BY <1>2, <1>7, <1>8, <1>11, <1>12, <1>13 DEF Merging
<1> QED
  BY <1>9, <1>14

\* Nothing is merged before merge_tv_list() is called.
LEMMA MergeStep ==
  ASSUME IInv, MinPatNext
  PROVE  MergeTypeOK' /\ Merging'
<1>a. MergeTypeOK /\ Merging /\ colorNum \in Nat
  BY DEF IInv, MinPatTypeOK
<1>b. Node' = Node
  BY VectorsStay, SameVectors
<1>1. CASE MergeTvList
  <2>1. UNCHANGED <<inputVars, colourVars>>
    BY <1>1 DEF MergeTvList
  <2>2. CASE BeginVector
    BY <2>1, <2>2, BeginVectorStep
  <2>3. CASE MergeNext
    BY <2>1, <2>3, MergeNextStep
  <2>4. CASE BeginMerge \/ EndMerge
    <3>0. /\ newTv' = newTv /\ joined' = joined /\ colorNum' = colorNum /\ tv' = tv
          /\ colorMap' = colorMap
      BY <2>1, <2>4 DEF BeginMerge, EndMerge, mergeVars, inputVars, colourVars
    <3>1. \A k : GroupOf(k)' = GroupOf(k)
      BY <1>b, <3>0 DEF GroupOf, Coloured
    <3>2. \/ phase' = "merge"
          \/ phase' = "merged" /\ Len(newTv) = colorNum /\ Waiting = {}
      BY <2>4 DEF BeginMerge, EndMerge
    <3> QED
      BY <1>a, <1>b, <3>0, <3>1, <3>2 DEF MergeTypeOK, Merging, Waiting
  <2> QED
    BY <1>1, <2>2, <2>3, <2>4 DEF MergeTvList
<1>2. CASE ~MergeTvList
  <2> DEFINE Early == /\ newTv' = newTv /\ joined' = joined
                      /\ phase \notin {"merge", "merged"}
                      /\ phase' \notin {"merge", "merged"}
                      /\ colorNum' \in Nat
  <2>a. ASSUME GenerateMatrix \/ SelectEssential \/ DeleteDominatedCol \/ DeleteDominatedRow
             PROVE  Early
    BY <1>a, <2>a DEF GenerateMatrix, SelectEssential, DeleteDominatedCol,
       DeleteDominatedRow, mergeVars, colourVars
  <2>b. ASSUME PropagateDeletion \/ EndReduce
             PROVE  Early
    BY <1>a, <2>b DEF PropagateDeletion, EndReduce, mergeVars, colourVars
  <2>c. ASSUME StartWithSelected \/ AddSelected \/ OfferColumns
             PROVE  Early
    BY <1>a, <2>c DEF StartWithSelected, AddSelected, OfferColumns, mergeVars, colourVars
  <2>d. ASSUME StartWithColumn \/ AddColumn
             PROVE  Early
    BY <1>a, <2>d DEF StartWithColumn, AddColumn, mergeVars, colourVars
  <2>e. ASSUME NewColor \/ SetColor \/ UpdateMatrix
             PROVE  Early
    BY <1>a, <2>e DEF NewColor, SetColor, UpdateMatrix, mergeVars, colourVars
  <2>1. Early
    BY <1>2, <2>a, <2>b, <2>c, <2>d, <2>e DEF MinPatNext
  <2>2. newTv = << >> /\ joined = {}
    BY <1>a, <2>1 DEF Merging
  <2> QED
    BY <2>1, <2>2 DEF MergeTypeOK, Merging
<1> QED
  BY <1>1, <1>2

\* Elements are added for detections only.
LEMMA MatrixIsRightStep ==
  ASSUME IInv, MinPatNext
  PROVE  MatrixIsRight'
<1>1. tv' = tv /\ \A n, f : Detects(tv[n], f)' = Detects(tv[n], f)
  BY VectorsStay, SameVectors
<1>2. matrix' = matrix \/ matrix' = matrix \cup Elements
  BY DEF MinPatNext, GenerateMatrix, SelectEssential, DeleteDominatedCol,
     DeleteDominatedRow, PropagateDeletion, EndReduce, StartWithSelected, AddSelected,
     OfferColumns, StartWithColumn, AddColumn, NewColor, SetColor, UpdateMatrix,
     MergeTvList, matrixVars
<1>3. \A e \in matrix' : Detects(tv[e[2]], e[1])
  BY <1>2 DEF IInv, MatrixIsRight, Elements
<1> QED
  BY <1>1, <1>3 DEF MatrixIsRight

-----------------------------------------------------------------------------
(* One lemma for each part of the invariant, one step for each action.     *)

\* Every action keeps the types: blocks add elements of the two lists only.
LEMMA TypeStep ==
  ASSUME IInv, MinPatNext
  PROVE  MinPatTypeOK'
<1>a. MinPatTypeOK
  BY DEF IInv
<1>b. Node' = Node /\ MergeTypeOK'
  BY VectorsStay, SameVectors, MergeStep
<1> USE <1>a, <1>b
    DEF inputVars, matrixVars, groupVars, colourVars, MinPatTypeOK
<1>1. CASE GenerateMatrix
  BY <1>1, PvBitLenAssumption DEF GenerateMatrix, Elements, Block
<1>2. CASE SelectEssential
  BY <1>2 DEF SelectEssential, RowsOf
<1>3. CASE DeleteDominatedCol
  BY <1>3 DEF DeleteDominatedCol
<1>4. CASE DeleteDominatedRow
  BY <1>4 DEF DeleteDominatedRow
<1>5. CASE PropagateDeletion
  BY <1>5 DEF PropagateDeletion, DeletePending, DeleteNode, Erase
<1>6. CASE EndReduce
  BY <1>6 DEF EndReduce
<1>7. CASE StartWithSelected
  BY <1>7 DEF StartWithSelected, Least
<1>8. CASE AddSelected
  BY <1>8 DEF AddSelected, Least
<1>9. CASE OfferColumns
  BY <1>9 DEF OfferColumns, JoiningColumns
<1>10. CASE StartWithColumn
  BY <1>10 DEF StartWithColumn, JoiningColumns, RowsOf
<1>11. CASE AddColumn
  BY <1>11 DEF AddColumn, Least, CompatibleChoices, RowsOf
<1>12. CASE NewColor
  BY <1>12 DEF NewColor
<1>13. CASE SetColor
  BY <1>13 DEF SetColor, DeleteNode, Erase
<1>14. CASE UpdateMatrix
  BY <1>14 DEF UpdateMatrix, RowsOf
<1>15. CASE MergeTvList
  BY <1>15 DEF MergeTvList, BeginMerge, BeginVector, MergeNext, EndMerge
<1> QED
  BY <1>1, <1>2, <1>3, <1>4, <1>5, <1>6, <1>7, <1>8, <1>9, <1>10, <1>11, <1>12, <1>13,
     <1>14, <1>15
  DEF MinPatNext

\* Nodes pass from the matrix to the group, and deleted ones to the graph.
LEMMA StagesStep ==
  ASSUME IInv, MinPatNext
  PROVE  Stages'
<1>a. MinPatTypeOK /\ Stages
  BY DEF IInv
<1>b. Node' = Node
  BY VectorsStay, SameVectors
<1> USE <1>a, <1>b
    DEF inputVars, matrixVars, groupVars, colourVars, MinPatTypeOK, Stages, Live,
        Grouping
<1>1. CASE GenerateMatrix
  BY <1>1 DEF GenerateMatrix
<1>2. CASE SelectEssential
  BY <1>2 DEF SelectEssential
<1>3. CASE DeleteDominatedCol
  BY <1>3 DEF DeleteDominatedCol
<1>4. CASE DeleteDominatedRow
  BY <1>4 DEF DeleteDominatedRow
<1>5. CASE PropagateDeletion
  BY <1>5 DEF PropagateDeletion, DeletePending
<1>6. CASE EndReduce
  BY <1>6 DEF EndReduce
<1>7. CASE StartWithSelected
  BY <1>7 DEF StartWithSelected, Least
<1>8. CASE AddSelected
  BY <1>8 DEF AddSelected, Least
<1>9. CASE OfferColumns
  BY <1>9 DEF OfferColumns, JoiningColumns
<1>10. CASE StartWithColumn
  BY <1>10 DEF StartWithColumn, JoiningColumns
<1>11. CASE AddColumn
  BY <1>11 DEF AddColumn, Least, CompatibleChoices
<1>12. CASE NewColor
  BY <1>12 DEF NewColor
<1>13. CASE SetColor
  BY <1>13 DEF SetColor
<1>14. CASE UpdateMatrix
  BY <1>14 DEF UpdateMatrix
<1>15. CASE MergeTvList
  BY <1>15 DEF MergeTvList, BeginMerge, BeginVector, MergeNext, EndMerge
<1> QED
  BY <1>1, <1>2, <1>3, <1>4, <1>5, <1>6, <1>7, <1>8, <1>9, <1>10, <1>11, <1>12, <1>13,
     <1>14, <1>15
  DEF MinPatNext

\* Only the nodes of the group get the new colour.
LEMMA ColoursStep ==
  ASSUME IInv, MinPatNext
  PROVE  Colours'
<1>a. MinPatTypeOK /\ Stages /\ Colours
  BY DEF IInv
<1>b. Node' = Node
  BY VectorsStay, SameVectors
<1> USE <1>a, <1>b
    DEF inputVars, matrixVars, groupVars, colourVars, MinPatTypeOK, Stages, Colours,
        Coloured, Live, Grouping
<1>1. CASE GenerateMatrix
  BY <1>1 DEF GenerateMatrix
<1>2. CASE SelectEssential
  BY <1>2 DEF SelectEssential
<1>3. CASE DeleteDominatedCol
  BY <1>3 DEF DeleteDominatedCol
<1>4. CASE DeleteDominatedRow
  BY <1>4 DEF DeleteDominatedRow
<1>5. CASE PropagateDeletion
  BY <1>5 DEF PropagateDeletion
<1>6. CASE EndReduce
  BY <1>6 DEF EndReduce
<1>7. CASE StartWithSelected
  BY <1>7 DEF StartWithSelected, Least
<1>8. CASE AddSelected
  BY <1>8 DEF AddSelected, Least
<1>9. CASE OfferColumns
  BY <1>9 DEF OfferColumns, JoiningColumns
<1>10. CASE StartWithColumn
  BY <1>10 DEF StartWithColumn, JoiningColumns
<1>11. CASE AddColumn
  BY <1>11 DEF AddColumn, Least, CompatibleChoices
<1>12. CASE NewColor
  BY <1>12 DEF NewColor
<1>13. CASE SetColor
  BY <1>13 DEF SetColor
<1>14. CASE UpdateMatrix
  BY <1>14 DEF UpdateMatrix
<1>15. CASE MergeTvList
  BY <1>15 DEF MergeTvList, BeginMerge, BeginVector, MergeNext, EndMerge
<1> QED
  BY <1>1, <1>2, <1>3, <1>4, <1>5, <1>6, <1>7, <1>8, <1>9, <1>10, <1>11, <1>12, <1>13,
     <1>14, <1>15
  DEF MinPatNext

\* What joins the group is compatible with all of it.
LEMMA GroupCompatibleStep ==
  ASSUME IInv, MinPatNext
  PROVE  GroupCompatible'
<1>a. MinPatTypeOK /\ Stages /\ GroupCompatible
  BY DEF IInv
<1>b. \A m, n : Compatible(m, n)' = Compatible(m, n)
  BY VectorsStay, SameVectors
<1>c. \A m, n \in Node : Compatible(m, n) => Compatible(n, m)
  BY CompatibleSymmetric
<1>d. \A n \in Node : Compatible(n, n)
  BY CompatibleReflexive
<1> USE <1>a, <1>b, <1>c, <1>d
    DEF inputVars, matrixVars, groupVars, colourVars, MinPatTypeOK, Stages,
        GroupCompatible, Live, Grouping
<1>1. CASE GenerateMatrix
  BY <1>1 DEF GenerateMatrix
<1>2. CASE SelectEssential
  BY <1>2 DEF SelectEssential
<1>3. CASE DeleteDominatedCol
  BY <1>3 DEF DeleteDominatedCol
<1>4. CASE DeleteDominatedRow
  BY <1>4 DEF DeleteDominatedRow
<1>5. CASE PropagateDeletion
  BY <1>5 DEF PropagateDeletion
<1>6. CASE EndReduce
  BY <1>6 DEF EndReduce
<1>7. CASE StartWithSelected
  BY <1>7 DEF StartWithSelected, Least
<1>8. CASE AddSelected
  BY <1>8 DEF AddSelected, Least
<1>9. CASE OfferColumns
  BY <1>9 DEF OfferColumns, JoiningColumns, CompatibleWith
<1>10. CASE StartWithColumn
  BY <1>10 DEF StartWithColumn, JoiningColumns, CompatibleWith
<1>11. CASE AddColumn
  BY <1>11 DEF AddColumn, Least, CompatibleChoices
<1>12. CASE NewColor
  BY <1>12 DEF NewColor
<1>13. CASE SetColor
  BY <1>13 DEF SetColor
<1>14. CASE UpdateMatrix
  BY <1>14 DEF UpdateMatrix
<1>15. CASE MergeTvList
  BY <1>15 DEF MergeTvList, BeginMerge, BeginVector, MergeNext, EndMerge
<1> QED
  BY <1>1, <1>2, <1>3, <1>4, <1>5, <1>6, <1>7, <1>8, <1>9, <1>10, <1>11, <1>12, <1>13,
     <1>14, <1>15
  DEF MinPatNext

\* The new colour is the group's, and the group is compatible.
LEMMA ColoursCompatibleStep ==
  ASSUME IInv, MinPatNext
  PROVE  ColoursCompatible'
<1>a. MinPatTypeOK /\ Stages /\ Colours /\ GroupCompatible /\ ColoursCompatible
  BY DEF IInv
<1>b. Node' = Node /\ \A m, n : Compatible(m, n)' = Compatible(m, n)
  BY VectorsStay, SameVectors
<1> USE <1>a, <1>b
    DEF inputVars, matrixVars, groupVars, colourVars, MinPatTypeOK, Stages, Colours,
        GroupCompatible, ColoursCompatible, Coloured, Live, Grouping
<1>1. CASE GenerateMatrix
  BY <1>1 DEF GenerateMatrix
<1>2. CASE SelectEssential
  BY <1>2 DEF SelectEssential
<1>3. CASE DeleteDominatedCol
  BY <1>3 DEF DeleteDominatedCol
<1>4. CASE DeleteDominatedRow
  BY <1>4 DEF DeleteDominatedRow
<1>5. CASE PropagateDeletion
  BY <1>5 DEF PropagateDeletion
<1>6. CASE EndReduce
  BY <1>6 DEF EndReduce
<1>7. CASE StartWithSelected
  BY <1>7 DEF StartWithSelected, Least
<1>8. CASE AddSelected
  BY <1>8 DEF AddSelected, Least
<1>9. CASE OfferColumns
  BY <1>9 DEF OfferColumns, JoiningColumns
<1>10. CASE StartWithColumn
  BY <1>10 DEF StartWithColumn, JoiningColumns
<1>11. CASE AddColumn
  BY <1>11 DEF AddColumn, Least, CompatibleChoices
<1>12. CASE NewColor
  BY <1>12 DEF NewColor
<1>13. CASE SetColor
  BY <1>13 DEF SetColor
<1>14. CASE UpdateMatrix
  BY <1>14 DEF UpdateMatrix
<1>15. CASE MergeTvList
  BY <1>15 DEF MergeTvList, BeginMerge, BeginVector, MergeNext, EndMerge
<1> QED
  BY <1>1, <1>2, <1>3, <1>4, <1>5, <1>6, <1>7, <1>8, <1>9, <1>10, <1>11, <1>12, <1>13,
     <1>14, <1>15
  DEF MinPatNext

\* A colour is given to a group that is not empty.
LEMMA ColoursUsedStep ==
  ASSUME IInv, MinPatNext
  PROVE  ColoursUsed'
<1>a. MinPatTypeOK /\ Stages /\ Colours /\ ColoursUsed
  BY DEF IInv
<1>b. Node' = Node
  BY VectorsStay, SameVectors
<1> USE <1>a, <1>b
    DEF inputVars, matrixVars, groupVars, colourVars, MinPatTypeOK, Stages, Colours,
        ColoursUsed, Coloured, Live, Grouping
<1>1. CASE GenerateMatrix
  BY <1>1 DEF GenerateMatrix
<1>2. CASE SelectEssential
  BY <1>2 DEF SelectEssential
<1>3. CASE DeleteDominatedCol
  BY <1>3 DEF DeleteDominatedCol
<1>4. CASE DeleteDominatedRow
  BY <1>4 DEF DeleteDominatedRow
<1>5. CASE PropagateDeletion
  BY <1>5 DEF PropagateDeletion
<1>6. CASE EndReduce
  BY <1>6 DEF EndReduce
<1>7. CASE StartWithSelected
  BY <1>7 DEF StartWithSelected, Least
<1>8. CASE AddSelected
  BY <1>8 DEF AddSelected, Least
<1>9. CASE OfferColumns
  BY <1>9 DEF OfferColumns, JoiningColumns
<1>10. CASE StartWithColumn
  BY <1>10 DEF StartWithColumn, JoiningColumns
<1>11. CASE AddColumn
  BY <1>11 DEF AddColumn, Least, CompatibleChoices
<1>12. CASE NewColor
  BY <1>12 DEF NewColor
<1>13. CASE SetColor
  BY <1>13 DEF SetColor
<1>14. CASE UpdateMatrix
  BY <1>14 DEF UpdateMatrix
<1>15. CASE MergeTvList
  BY <1>15 DEF MergeTvList, BeginMerge, BeginVector, MergeNext, EndMerge
<1> QED
  BY <1>1, <1>2, <1>3, <1>4, <1>5, <1>6, <1>7, <1>8, <1>9, <1>10, <1>11, <1>12, <1>13,
     <1>14, <1>15
  DEF MinPatNext

\* A node leaves the lists of the graph when it has left the matrix, once.
LEMMA GraphStep ==
  ASSUME IInv, MinPatNext
  PROVE  GraphFollowsMatrix'
<1>a. MinPatTypeOK /\ Stages /\ Colours /\ GraphFollowsMatrix
  BY DEF IInv
<1>b. Node' = Node /\ ConflictBits' = ConflictBits /\ tv' = tv
  BY VectorsStay, SameVectors
<1>c. \A n \in Node : \A o : o \in OwnLists(n) <=>
        o \in ConflictBits \X Value /\ tv[n][o[1]] = o[2]
  BY DEF OwnLists
<1> USE <1>a, <1>b, <1>c
    DEF inputVars, matrixVars, groupVars, colourVars, MinPatTypeOK, Stages, Colours,
        Coloured, Live, Grouping, GraphFollowsMatrix
<1>1. CASE GenerateMatrix
  BY <1>1 DEF GenerateMatrix
<1>2. CASE SelectEssential
  BY <1>2 DEF SelectEssential
<1>3. CASE DeleteDominatedCol
  BY <1>3 DEF DeleteDominatedCol
<1>4. CASE DeleteDominatedRow
  BY <1>4 DEF DeleteDominatedRow
<1>5. CASE PropagateDeletion
  <2>1. PICK n \in pending : DeletePending(n)
    BY <1>5 DEF PropagateDeletion
  <2>2. Coloured' = Coloured /\ Live' = Live /\ pending' = pending \ {n}
    BY <1>5, <2>1 DEF PropagateDeletion, DeletePending
  <2>3. \A o \in ConflictBits \X Value : lists'[o] = lists[o] \ {n}
    <3> SUFFICES ASSUME NEW o \in ConflictBits \X Value
                 PROVE  lists'[o] = lists[o] \ {n}
      OBVIOUS
    <3>1. o \in DOMAIN lists
      BY DEF ConflictBits
    <3>2. n \in lists[o] <=> tv[n][o[1]] = o[2]
      BY <2>1
    <3>3. o \in OwnLists(n) <=> tv[n][o[1]] = o[2]
      OBVIOUS
    <3> QED
      BY <2>1, <3>1, <3>2, <3>3 DEF DeletePending, DeleteNode, Erase
  <2> QED
    BY <2>1, <2>2, <2>3
<1>6. CASE EndReduce
  BY <1>6 DEF EndReduce
<1>7. CASE StartWithSelected
  BY <1>7 DEF StartWithSelected, Least
<1>8. CASE AddSelected
  BY <1>8 DEF AddSelected, Least
<1>9. CASE OfferColumns
  BY <1>9 DEF OfferColumns, JoiningColumns
<1>10. CASE StartWithColumn
  BY <1>10 DEF StartWithColumn, JoiningColumns
<1>11. CASE AddColumn
  BY <1>11 DEF AddColumn, Least, CompatibleChoices
<1>12. CASE NewColor
  BY <1>12 DEF NewColor
<1>13. CASE SetColor
  <2>1. PICK n \in group : /\ colorMap[n] # colorNum
                           /\ colorMap' = [colorMap EXCEPT ![n] = colorNum]
                           /\ DeleteNode(n)
    BY <1>13 DEF SetColor
  <2>2. /\ phase = "colour" /\ pending = {} /\ n \in Live \ Coloured
        /\ Live' = Live /\ pending' = pending
        /\ Coloured' = Coloured \cup {n}
    BY <1>13, <2>1 DEF SetColor
  <2>3. \A o \in ConflictBits \X Value : lists'[o] = lists[o] \ {n}
    <3> SUFFICES ASSUME NEW o \in ConflictBits \X Value
                 PROVE  lists'[o] = lists[o] \ {n}
      OBVIOUS
    <3>1. o \in DOMAIN lists
      BY DEF ConflictBits
    <3>2. n \in lists[o] <=> tv[n][o[1]] = o[2]
      BY <2>2
    <3>3. o \in OwnLists(n) <=> tv[n][o[1]] = o[2]
      BY <2>1
    <3> QED
      BY <2>1, <3>1, <3>2, <3>3 DEF DeleteNode, Erase
  <2> QED
    BY <2>2, <2>3
<1>14. CASE UpdateMatrix
  <2>1. Live' \ Coloured' = Live \ Coloured
    BY <1>14 DEF UpdateMatrix
  <2>2. lists' = lists /\ pending' = pending
    BY <1>14 DEF UpdateMatrix
  <2> QED
    BY <2>1, <2>2
<1>15. CASE MergeTvList
  BY <1>15 DEF MergeTvList, BeginMerge, BeginVector, MergeNext, EndMerge
<1> QED
  BY <1>1, <1>2, <1>3, <1>4, <1>5, <1>6, <1>7, <1>8, <1>9, <1>10, <1>11, <1>12, <1>13,
     <1>14, <1>15
  DEF MinPatNext

\* No row loses its last column: it is selected, or dominated by another one.
LEMMA RowsHaveColumnsStep ==
  ASSUME IInv, MinPatNext
  PROVE  RowsHaveColumns'
<1>a. MinPatTypeOK /\ Stages /\ RowsHaveColumns
  BY DEF IInv
<1>b. Node' = Node /\ tv' = tv /\ \A n, f : Detects(tv[n], f)' = Detects(tv[n], f)
  BY VectorsStay, SameVectors
<1>c. Node = 1 .. Len(tv) /\ Len(tv) \in Nat
  BY DEF IInv, Node
<1> USE <1>a, <1>b
    DEF inputVars, matrixVars, groupVars, colourVars, MinPatTypeOK, Stages,
        RowsHaveColumns, ColsOf, RowsOf, Grouping
<1>1. CASE GenerateMatrix
  <2>1. /\ rows' = rows /\ cols' = cols /\ cols = Node
        /\ base' = base + PvBitLen /\ base' \in Nat
    BY <1>1, PvBitLenAssumption DEF GenerateMatrix
  <2>2. matrix' \subseteq rows \X Node
    BY <1>1 DEF GenerateMatrix, Elements, Block
  <2>3. ASSUME NEW r \in rows, NEW n \in Node, n <= base', Detects(tv[n], r)
        PROVE  <<r, n>> \in matrix'
    <3>1. n \in Nat
      BY <1>c
    <3>2. CASE n <= base
      BY <1>1, <2>3, <3>2 DEF GenerateMatrix
    <3>3. CASE n > base
      <4>1. n \in Block
        BY <2>1, <2>3, <3>3, <1>1 DEF Block, GenerateMatrix
      <4>2. <<r, n>> \in Elements
        BY <2>3, <4>1 DEF Elements
      <4> QED
        BY <1>1, <4>2 DEF GenerateMatrix
    <3> QED
      BY <3>1, <3>2, <3>3, <1>c
  <2>4. CASE phase' = "matrix"
    BY <1>1, <2>1, <2>2, <2>3, <2>4 DEF GenerateMatrix
  <2>5. CASE phase' # "matrix"
    <3>1. base' >= Len(tv)
      BY <1>1, <2>5 DEF GenerateMatrix
    <3>2. \A n \in Node : n <= base'
      BY <2>1, <3>1, <1>c
    <3>3. \A r \in rows : \E n \in Node : <<r, n>> \in matrix'
      BY <1>1, <2>3, <3>2 DEF GenerateMatrix
    <3> QED
      BY <2>1, <2>5, <3>3
  <2> QED
    BY <2>4, <2>5
<1>2. CASE SelectEssential
  BY <1>2 DEF SelectEssential
<1>3. CASE DeleteDominatedCol
  BY <1>3 DEF DeleteDominatedCol
<1>4. CASE DeleteDominatedRow
  BY <1>4 DEF DeleteDominatedRow
<1>5. CASE PropagateDeletion
  BY <1>5 DEF PropagateDeletion
<1>6. CASE EndReduce
  BY <1>6 DEF EndReduce
<1>7. CASE StartWithSelected
  BY <1>7 DEF StartWithSelected, Least
<1>8. CASE AddSelected
  BY <1>8 DEF AddSelected, Least
<1>9. CASE OfferColumns
  BY <1>9 DEF OfferColumns, JoiningColumns
<1>10. CASE StartWithColumn
  BY <1>10 DEF StartWithColumn, JoiningColumns
<1>11. CASE AddColumn
  BY <1>11 DEF AddColumn, Least, CompatibleChoices
<1>12. CASE NewColor
  BY <1>12 DEF NewColor
<1>13. CASE SetColor
  <2>1. /\ phase = "colour" /\ phase' = phase /\ matrix' = matrix
        /\ rows' = rows /\ cols' = cols
    BY <1>13 DEF SetColor
  <2> QED
    BY <2>1
<1>14. CASE UpdateMatrix
  <2>1. /\ phase # "matrix" /\ phase' # "matrix" /\ matrix' = matrix
        /\ cols' = cols \ group
        /\ rows' = rows \ UNION {RowsOf(c) : c \in group \cap cols}
    BY <1>14 DEF UpdateMatrix
  <2>2. \A r \in rows' : r \in rows /\ ColsOf(r) \cap group = {}
    BY <2>1
  <2>3. \A r \in rows' : ColsOf(r)' = ColsOf(r)
    BY <2>1, <2>2
  <2> QED
    BY <2>1, <2>2, <2>3
<1>15. CASE MergeTvList
  BY <1>15 DEF MergeTvList, BeginMerge, BeginVector, MergeNext, EndMerge
<1> QED
  BY <1>1, <1>2, <1>3, <1>4, <1>5, <1>6, <1>7, <1>8, <1>9, <1>10, <1>11, <1>12, <1>13,
     <1>14, <1>15
  DEF MinPatNext

\* RowsStayCovered for one element of the matrix.
CoveredByRow(e) ==
  \E r \in rows : ColsOf(r) # {} /\ \A c \in ColsOf(r) : <<e[1], c>> \in matrix
CoveredElement(e) ==
  (\E c \in selected \cup Coloured : <<e[1], c>> \in matrix) \/ CoveredByRow(e)

\* RowsStayCovered, element by element.
LEMMA CoveredElementwise ==
  /\ RowsStayCovered <=> \A e \in matrix : CoveredElement(e)
  /\ RowsStayCovered' <=> \A e \in matrix' : CoveredElement(e)'
  BY DEF RowsStayCovered, CoveredElement, CoveredByRow

\* Selecting and colouring more nodes uncovers nothing.
LEMMA CoverStays ==
  ASSUME RowsStayCovered, matrix' = matrix, rows' = rows, cols' = cols,
         selected \cup Coloured \subseteq selected' \cup Coloured'
  PROVE  RowsStayCovered'
<1>1. \A r : ColsOf(r)' = ColsOf(r)
  BY DEF ColsOf
<1>2. ASSUME NEW e \in matrix, CoveredElement(e)
      PROVE  CoveredElement(e)'
  BY <1>1, <1>2 DEF CoveredElement, CoveredByRow
<1> QED
  BY <1>2, CoveredElementwise

\* A row goes when a column that covers it is taken, or for a row that asks for
\* no more.
LEMMA RowsStayCoveredStep ==
  ASSUME IInv, MinPatNext
  PROVE  RowsStayCovered'
<1>a. /\ MinPatTypeOK /\ Stages /\ Colours /\ RowsHaveColumns /\ RowsStayCovered
      /\ \A e \in matrix : CoveredElement(e)
  BY CoveredElementwise DEF IInv
<1>b. Node' = Node
  BY VectorsStay, SameVectors
<1> USE <1>a, <1>b
    DEF inputVars, matrixVars, groupVars, colourVars, MinPatTypeOK, Stages, Colours,
        Coloured, RowsHaveColumns, Grouping
<1>1. CASE GenerateMatrix
  <2>1. /\ rows' = rows /\ cols' = Node
        /\ matrix' \subseteq rows \X Node
    BY <1>1 DEF GenerateMatrix, Elements, Block
  <2>2. \A e \in matrix' : /\ e[1] \in rows'
                          /\ e[2] \in ColsOf(e[1])'
                          /\ \A c \in ColsOf(e[1])' : <<e[1], c>> \in matrix'
    BY <2>1 DEF ColsOf
  <2> QED
    BY <2>2 DEF RowsStayCovered
<1>2. CASE SelectEssential
  <2>1. PICK c \in cols : /\ selected' = selected \cup {c}
                         /\ cols' = cols \ {c}
                         /\ rows' = rows \ RowsOf(c)
    BY <1>2 DEF SelectEssential
  <2>2. matrix' = matrix /\ Coloured' = Coloured
    BY <1>2 DEF SelectEssential
  <2>3. \A r \in rows : IF c \in ColsOf(r) THEN r \notin rows' ELSE r \in rows' /\ ColsOf(r)' = ColsOf(r)
    BY <2>1, <2>2 DEF RowsOf, ColsOf
  <2>4. ASSUME NEW e \in matrix
        PROVE  CoveredElement(e)'
    <3>1. CASE \E d \in selected \cup Coloured : <<e[1], d>> \in matrix
      BY <2>1, <2>2, <3>1 DEF CoveredElement
    <3>2. CASE CoveredByRow(e)
      <4>1. PICK r \in rows : ColsOf(r) # {} /\ \A d \in ColsOf(r) : <<e[1], d>> \in matrix
        BY <3>2 DEF CoveredByRow
      <4>2. CASE c \in ColsOf(r)
        BY <2>1, <2>2, <4>1, <4>2 DEF CoveredElement
      <4>3. CASE c \notin ColsOf(r)
        BY <2>2, <2>3, <4>1, <4>3 DEF CoveredElement, CoveredByRow
      <4> QED
        BY <4>2, <4>3
    <3> QED
      BY <3>1, <3>2 DEF CoveredElement
  <2> QED
    BY <2>2, <2>4, CoveredElementwise
<1>3. CASE DeleteDominatedCol
  <2>1. PICK c1, c2 \in cols : /\ c1 # c2
                              /\ RowsOf(c1) \subseteq RowsOf(c2)
                              /\ cols' = cols \ {c1}
    BY <1>3 DEF DeleteDominatedCol
  <2>2. matrix' = matrix /\ rows' = rows /\ selected' = selected /\ Coloured' = Coloured
    BY <1>3 DEF DeleteDominatedCol
  <2>3. \A r \in rows : ColsOf(r)' = ColsOf(r) \ {c1}
    BY <2>1, <2>2 DEF ColsOf
  <2>4. \A r \in rows : c1 \in ColsOf(r) => c2 \in ColsOf(r)
    BY <2>1 DEF RowsOf, ColsOf
  <2>5. ASSUME NEW e \in matrix
        PROVE  CoveredElement(e)'
    <3>1. CASE \E d \in selected \cup Coloured : <<e[1], d>> \in matrix
      BY <2>2, <3>1 DEF CoveredElement
    <3>2. CASE CoveredByRow(e)
      <4>1. PICK r \in rows : ColsOf(r) # {} /\ \A d \in ColsOf(r) : <<e[1], d>> \in matrix
        BY <3>2 DEF CoveredByRow
      <4>2. ColsOf(r)' # {} /\ ColsOf(r)' \subseteq ColsOf(r)
        BY <2>1, <2>3, <2>4, <4>1
      <4>3. r \in rows' /\ \A d \in ColsOf(r)' : <<e[1], d>> \in matrix'
        BY <2>2, <4>1, <4>2
      <4> QED
        BY <4>2, <4>3 DEF CoveredElement, CoveredByRow
    <3> QED
      BY <3>1, <3>2 DEF CoveredElement
  <2> QED
    BY <2>2, <2>5, CoveredElementwise
<1>4. CASE DeleteDominatedRow
  <2>1. PICK r1, r2 \in rows : /\ r1 # r2
                              /\ ColsOf(r1) \subseteq ColsOf(r2)
                              /\ rows' = rows \ {r2}
    BY <1>4 DEF DeleteDominatedRow
  <2>2. matrix' = matrix /\ cols' = cols /\ selected' = selected /\ Coloured' = Coloured
    BY <1>4 DEF DeleteDominatedRow
  <2>3. \A r : ColsOf(r)' = ColsOf(r)
    BY <2>2 DEF ColsOf
  <2>4. ColsOf(r1) # {}
    BY <1>4 DEF DeleteDominatedRow
  <2>5. ASSUME NEW e \in matrix
        PROVE  CoveredElement(e)'
    <3>1. CASE \E d \in selected \cup Coloured : <<e[1], d>> \in matrix
      BY <2>2, <3>1 DEF CoveredElement
    <3>2. CASE CoveredByRow(e)
      <4>1. PICK r \in rows : ColsOf(r) # {} /\ \A d \in ColsOf(r) : <<e[1], d>> \in matrix
        BY <3>2 DEF CoveredByRow
      <4>2. CASE r = r2
        BY <2>1, <2>2, <2>3, <2>4, <4>1, <4>2 DEF CoveredElement, CoveredByRow
      <4>3. CASE r # r2
        BY <2>1, <2>2, <2>3, <4>1, <4>3 DEF CoveredElement, CoveredByRow
      <4> QED
        BY <4>2, <4>3
    <3> QED
      BY <3>1, <3>2 DEF CoveredElement
  <2> QED
    BY <2>2, <2>5, CoveredElementwise
<1>5. CASE PropagateDeletion
  <2>1. /\ matrix' = matrix /\ rows' = rows /\ cols' = cols
        /\ selected \cup Coloured \subseteq selected' \cup Coloured'
    BY <1>5 DEF PropagateDeletion
  <2> QED
    BY <2>1, CoverStays
<1>6. CASE EndReduce
  <2>1. /\ matrix' = matrix /\ rows' = rows /\ cols' = cols
        /\ selected \cup Coloured \subseteq selected' \cup Coloured'
    BY <1>6 DEF EndReduce
  <2> QED
    BY <2>1, CoverStays
<1>7. CASE StartWithSelected
  <2>1. /\ matrix' = matrix /\ rows' = rows /\ cols' = cols
        /\ selected \cup Coloured \subseteq selected' \cup Coloured'
    BY <1>7 DEF StartWithSelected
  <2> QED
    BY <2>1, CoverStays
<1>8. CASE AddSelected
  <2>1. /\ matrix' = matrix /\ rows' = rows /\ cols' = cols
        /\ selected \cup Coloured \subseteq selected' \cup Coloured'
    BY <1>8 DEF AddSelected
  <2> QED
    BY <2>1, CoverStays
<1>9. CASE OfferColumns
  <2>1. /\ matrix' = matrix /\ rows' = rows /\ cols' = cols
        /\ selected \cup Coloured \subseteq selected' \cup Coloured'
    BY <1>9 DEF OfferColumns
  <2> QED
    BY <2>1, CoverStays
<1>10. CASE StartWithColumn
  <2>1. /\ matrix' = matrix /\ rows' = rows /\ cols' = cols
        /\ selected \cup Coloured \subseteq selected' \cup Coloured'
    BY <1>10 DEF StartWithColumn
  <2> QED
    BY <2>1, CoverStays
<1>11. CASE AddColumn
  <2>1. /\ matrix' = matrix /\ rows' = rows /\ cols' = cols
        /\ selected \cup Coloured \subseteq selected' \cup Coloured'
    BY <1>11 DEF AddColumn
  <2> QED
    BY <2>1, CoverStays
<1>12. CASE NewColor
  <2>1. /\ matrix' = matrix /\ rows' = rows /\ cols' = cols
        /\ selected \cup Coloured \subseteq selected' \cup Coloured'
    BY <1>12 DEF NewColor
  <2> QED
    BY <2>1, CoverStays
<1>13. CASE SetColor
  <2>1. /\ matrix' = matrix /\ rows' = rows /\ cols' = cols
        /\ selected \cup Coloured \subseteq selected' \cup Coloured'
    BY <1>13 DEF SetColor
  <2> QED
    BY <2>1, CoverStays
<1>14. CASE UpdateMatrix
  <2>1. /\ matrix' = matrix /\ Coloured' = Coloured /\ cols' = cols \ group
        /\ selected' = selected \ group
        /\ rows' = rows \ UNION {RowsOf(c) : c \in group \cap cols}
    BY <1>14 DEF UpdateMatrix
  <2>2. group \subseteq Coloured
    BY <1>14 DEF UpdateMatrix, Live
  <2>3. ASSUME NEW r \in rows, ColsOf(r) \cap group = {}
        PROVE  r \in rows' /\ ColsOf(r)' = ColsOf(r)
    <3>1. \A c \in group \cap cols : r \notin RowsOf(c)
      BY <2>3 DEF RowsOf, ColsOf
    <3>2. r \in rows'
      BY <2>1, <3>1
    <3>3. ColsOf(r)' = ColsOf(r)
      BY <2>1, <2>3 DEF ColsOf
    <3> QED
      BY <3>2, <3>3
  <2>4. ASSUME NEW e \in matrix
        PROVE  CoveredElement(e)'
    <3>1. CASE \E d \in selected \cup Coloured : <<e[1], d>> \in matrix
      BY <2>1, <2>2, <3>1 DEF CoveredElement
    <3>2. CASE CoveredByRow(e)
      <4>1. PICK r \in rows : ColsOf(r) # {} /\ \A d \in ColsOf(r) : <<e[1], d>> \in matrix
        BY <3>2 DEF CoveredByRow
      <4>2. CASE ColsOf(r) \cap group = {}
        BY <2>1, <2>3, <4>1, <4>2 DEF CoveredElement, CoveredByRow
      <4>3. CASE ColsOf(r) \cap group # {}
        BY <2>1, <2>2, <4>1, <4>3 DEF CoveredElement
      <4> QED
        BY <4>2, <4>3
    <3> QED
      BY <3>1, <3>2 DEF CoveredElement
  <2> QED
    BY <2>1, <2>4, CoveredElementwise
<1>15. CASE MergeTvList
  <2>1. /\ matrix' = matrix /\ rows' = rows /\ cols' = cols
        /\ selected \cup Coloured \subseteq selected' \cup Coloured'
    BY <1>15 DEF MergeTvList, BeginMerge, BeginVector, MergeNext, EndMerge
  <2> QED
    BY <2>1, CoverStays
<1> QED
  BY <1>1, <1>2, <1>3, <1>4, <1>5, <1>6, <1>7, <1>8, <1>9, <1>10, <1>11, <1>12, <1>13,
     <1>14, <1>15
  DEF MinPatNext

-----------------------------------------------------------------------------
(* The invariant.                                                          *)

\* A step that changes nothing.
LEMMA StutteringStep ==
  ASSUME IInv, UNCHANGED minpatVars
  PROVE  IInv'
<1> USE DEF minpatVars, inputVars, matrixVars, groupVars, colourVars, mergeVars
<1>1. Node' = Node /\ \A m, n : Compatible(m, n)' = Compatible(m, n)
  BY SameVectors
<1>2. ConflictBits' = ConflictBits /\ \A n, f : Detects(tv[n], f)' = Detects(tv[n], f)
  BY SameVectors
<1>3. MinPatTypeOK' /\ Stages' /\ Colours'
  BY <1>1 DEF IInv, MinPatTypeOK, MergeTypeOK, Stages, Colours, Coloured, Live
<1>4. GroupCompatible' /\ ColoursCompatible' /\ ColoursUsed'
  BY <1>1 DEF IInv, GroupCompatible, ColoursCompatible, ColoursUsed, Coloured
<1>5. GraphFollowsMatrix'
  BY <1>1, <1>2 DEF IInv, GraphFollowsMatrix, Coloured
<1>6. RowsHaveColumns'
  BY <1>1, <1>2 DEF IInv, RowsHaveColumns, ColsOf
<1>7. RowsStayCovered'
  <2>1. Coloured' = Coloured
    BY <1>1 DEF Coloured
  <2> QED
    BY <2>1, CoverStays DEF IInv
<1>8. MatrixIsRight'
  BY <1>2 DEF IInv, MatrixIsRight
<1>9. Merging'
  <2>1. \A k : GroupOf(k)' = GroupOf(k)
    BY <1>1 DEF GroupOf, Coloured
  <2>2. Waiting' = Waiting
    BY <2>1 DEF Waiting
  <2> QED
    BY <2>1, <2>2 DEF IInv, Merging
<1> QED
  BY <1>3, <1>4, <1>5, <1>6, <1>7, <1>8, <1>9 DEF IInv

LEMMA IInvInit == MinPatInit => IInv
<1> SUFFICES ASSUME MinPatInit PROVE IInv
  OBVIOUS
<1> USE DEF MinPatInit, ColoringOf
<1>1. tv \in Seq(Vec) /\ Node = 1 .. Len(tv)
  BY DEF Node
<1>2. MinPatTypeOK
  BY DEF MinPatTypeOK, MergeTypeOK, GenConflictList
<1>3. \A n \in Node : colorMap[n] = 0
  OBVIOUS
<1>4. Coloured = {}
  BY <1>3 DEF Coloured
<1>5. Stages /\ Colours /\ GroupCompatible /\ ColoursCompatible /\ ColoursUsed
  BY <1>2, <1>4 DEF Stages, Colours, GroupCompatible, ColoursCompatible, ColoursUsed, Live,
     Grouping
<1>6. GraphFollowsMatrix
  BY <1>4 DEF GraphFollowsMatrix, GenConflictList, ConflictBits
<1>7. RowsHaveColumns
  BY <1>1 DEF RowsHaveColumns
<1>8. RowsStayCovered /\ MatrixIsRight /\ Merging
  BY DEF RowsStayCovered, MatrixIsRight, Merging
<1> QED
  BY <1>1, <1>2, <1>5, <1>6, <1>7, <1>8 DEF IInv

LEMMA IInvNext == IInv /\ [MinPatNext]_minpatVars => IInv'
<1> SUFFICES ASSUME IInv, [MinPatNext]_minpatVars PROVE IInv'
  OBVIOUS
<1>1. CASE MinPatNext
  <2>1. tv' \in Seq(Vec)
    BY <1>1, VectorsStay DEF IInv
  <2> QED
    BY <1>1, <2>1, TypeStep, StagesStep, ColoursStep, GroupCompatibleStep,
       ColoursCompatibleStep, ColoursUsedStep, GraphStep, RowsHaveColumnsStep,
       RowsStayCoveredStep, MatrixIsRightStep, MergeStep DEF IInv
<1>2. CASE UNCHANGED minpatVars
  BY <1>2, StutteringStep
<1> QED
  BY <1>1, <1>2

LEMMA Invariance == MinPatSpec => []IInv
  BY IInvInit, IInvNext, PTL DEF MinPatSpec

-----------------------------------------------------------------------------
(* Reducing loses no optimum.                                              *)

\* k colours suffice for the selected vectors and some others that cover R.
Feasible(needed, among, R, k) ==
  \E S \in SUBSET among :
    /\ \A r \in R : \E c \in S : <<r, c>> \in matrix
    /\ Colourable(S \cup needed, k)

\* As many colours suffice for what is left as for the whole matrix.  From the
\* first colour on there is nothing to compare.
OptimumStays ==
  phase \in {"reduce", "propagate"} \/ (phase = "start" /\ colorNum = 0) =>
    \A k \in Nat :
      Feasible(selected, cols, rows, k) <=> Feasible({}, Node, {e[1] : e \in matrix}, k)

\* What suffices depends on the vectors and the matrix only, besides the sets
\* that are asked for.
LEMMA FeasibleStays ==
  ASSUME tv' = tv, cubes' = cubes, matrix' = matrix, NEW k
  PROVE  /\ \A s, c, R : s = selected' /\ c = cols' /\ R = rows' =>
              (Feasible(selected, cols, rows, k)' <=> Feasible(s, c, R, k))
         /\ Feasible({}, Node, {e[1] : e \in matrix}, k)'
              <=> Feasible({}, Node, {e[1] : e \in matrix}, k)
<1>1. \A m, n : Compatible(m, n)' = Compatible(m, n)
  BY SameVectors
<1>2. Node' = Node
  BY SameVectors
<1>3. ASSUME NEW s, NEW c, NEW R, s = selected', c = cols', R = rows'
      PROVE  Feasible(selected, cols, rows, k)' <=> Feasible(s, c, R, k)
  <2>1. ASSUME NEW S
        PROVE  Colourable(S \cup selected, k)' <=> Colourable(S \cup s, k)
    BY <1>1, <1>3 DEF Colourable
  <2> QED
    BY <1>3, <2>1 DEF Feasible
<1>4. Feasible({}, Node, {e[1] : e \in matrix}, k)'
        <=> Feasible({}, Node, {e[1] : e \in matrix}, k)
  BY <1>1, <1>2 DEF Feasible, Colourable
<1> QED
  BY <1>3, <1>4

\* A vector that conflicts with no one that another does not conflict with may
\* stand for that one, among the vectors that the graph still has.
LEMMA MayStandFor ==
  ASSUME IInv, phase = "reduce", NEW c1 \in cols, NEW c2 \in cols, MpComp(c1, c2),
         NEW m \in Live, Compatible(m, c1)
  PROVE  Compatible(m, c2)
<1>1. /\ m \in Node /\ c1 \in Node /\ c2 \in Node /\ m \notin Coloured
      /\ GraphFollowsMatrix
  BY DEF IInv, MinPatTypeOK, Colours, Live
<1>2. Compatible(c1, m)
  BY <1>1, CompatibleSymmetric
<1>3. ASSUME NEW o \in Oids(c2) \cap OwnLists(m)
      PROVE  FALSE
  <2>1. o \in ConflictBits \X Value /\ tv[m][o[1]] = o[2]
    BY <1>3 DEF OwnLists
  <2>2. m \in lists[o]
    BY <1>1, <2>1 DEF GraphFollowsMatrix, Live
  <2>3. o \notin Oids(c1)
    BY <1>2, <1>3 DEF Compatible
  <2>4. PICK p \in Oids(c1) : m \in lists[p]
    BY <1>3, <2>2, <2>3 DEF MpComp, ContainmentCheck
  <2>5. p \in ConflictBits \X Value
    <3>1. \A v : Opposite(v) \in Value
      BY DEF Opposite, Value
    <3> QED
      BY <2>4, <3>1 DEF Oids, OwnLists
  <2>6. p \in OwnLists(m)
    BY <1>1, <2>4, <2>5 DEF GraphFollowsMatrix, OwnLists
  <2> QED
    BY <1>2, <2>4, <2>6 DEF Compatible
<1>4. Compatible(c2, m)
  BY <1>3 DEF Compatible
<1> QED
  BY <1>1, <1>4, CompatibleSymmetric

\* The vector takes the colour of the one it stands for.
LEMMA Recolour ==
  ASSUME IInv, phase = "reduce", NEW c1 \in cols, NEW c2 \in cols, c1 # c2, MpComp(c1, c2),
         NEW S \in SUBSET cols, c1 \in S, NEW k \in Nat, Colourable(S \cup selected, k)
  PROVE  Colourable(((S \ {c1}) \cup {c2}) \cup selected, k)
<1> DEFINE T == ((S \ {c1}) \cup {c2}) \cup selected
<1>1. PICK f \in [S \cup selected -> 1 .. k] :
        \A m, n \in S \cup selected : f[m] = f[n] => Compatible(m, n)
  BY DEF Colourable
<1> DEFINE g == [n \in T |-> IF n = c2 THEN f[c1] ELSE f[n]]
<1>2. /\ S \cup selected \subseteq Live /\ T \subseteq Live /\ Live \subseteq Node
      /\ \A n \in T : n = c2 \/ n \in S \cup selected
  BY DEF Live, IInv, MinPatTypeOK
<1>3. g \in [T -> 1 .. k]
  BY <1>1, <1>2
<1>4. ASSUME NEW n \in T, n # c2, g[n] = g[c2]
      PROVE  Compatible(n, c2) /\ Compatible(c2, n)
  <2>1. n \in S \cup selected /\ f[n] = f[c1]
    BY <1>2, <1>4
  <2>2. Compatible(n, c1)
    BY <1>1, <2>1
  <2>3. Compatible(n, c2)
    BY <1>2, <2>1, <2>2, MayStandFor
  <2> QED
    BY <1>2, <2>3, CompatibleSymmetric
<1>5. ASSUME NEW m \in T, NEW n \in T, g[m] = g[n]
      PROVE  Compatible(m, n)
  <2>1. CASE m = c2 /\ n = c2
    BY <1>2, <2>1, CompatibleReflexive
  <2>2. CASE m # c2 /\ n = c2
    BY <1>4, <1>5, <2>2
  <2>3. CASE m = c2 /\ n # c2
    <3>1. g[n] = g[c2]
      BY <1>5, <2>3
    <3> QED
      BY <1>4, <2>3, <3>1
  <2>4. CASE m # c2 /\ n # c2
    BY <1>1, <1>2, <1>5, <2>4
  <2> QED
    BY <2>1, <2>2, <2>3, <2>4
<1> QED
  BY <1>3, <1>5 DEF Colourable

\* The reductions, one by one: as many colours suffice before as after.
LEMMA EssentialIsFree ==
  ASSUME NEW c \in cols, NEW r0 \in rows, ColsOf(r0) = {c}, NEW k
  PROVE  Feasible(selected, cols, rows, k)
           <=> Feasible(selected \cup {c}, cols \ {c}, rows \ RowsOf(c), k)
<1>1. ASSUME NEW S \in SUBSET cols,
             \A r \in rows : \E d \in S : <<r, d>> \in matrix,
             Colourable(S \cup selected, k)
      PROVE  Feasible(selected \cup {c}, cols \ {c}, rows \ RowsOf(c), k)
  <2> DEFINE T == S \ {c}
  <2>1. PICK d \in S : <<r0, d>> \in matrix
    BY <1>1
  <2>2. c \in S
    BY <2>1 DEF ColsOf
  <2>3. T \cup (selected \cup {c}) = S \cup selected
    BY <2>2
  <2>4. \A r \in rows \ RowsOf(c) : \E d2 \in T : <<r, d2>> \in matrix
    BY <1>1 DEF RowsOf
  <2>5. T \in SUBSET (cols \ {c}) /\ Colourable(T \cup (selected \cup {c}), k)
    BY <1>1, <2>3
  <2> QED
    BY <2>4, <2>5 DEF Feasible
<1>2. ASSUME NEW S \in SUBSET (cols \ {c}),
             \A r \in rows \ RowsOf(c) : \E d \in S : <<r, d>> \in matrix,
             Colourable(S \cup (selected \cup {c}), k)
      PROVE  Feasible(selected, cols, rows, k)
  <2> DEFINE T == S \cup {c}
  <2>1. T \cup selected = S \cup (selected \cup {c})
    OBVIOUS
  <2>2. \A r \in rows : \E d \in T : <<r, d>> \in matrix
    BY <1>2 DEF RowsOf
  <2>3. T \in SUBSET cols /\ Colourable(T \cup selected, k)
    BY <1>2, <2>1
  <2> QED
    BY <2>2, <2>3 DEF Feasible
<1> QED
  BY <1>1, <1>2 DEF Feasible

LEMMA DominatedColIsFree ==
  ASSUME IInv, phase = "reduce", NEW c1 \in cols, NEW c2 \in cols, c1 # c2,
         RowsOf(c1) \subseteq RowsOf(c2), MpComp(c1, c2), NEW k \in Nat
  PROVE  Feasible(selected, cols, rows, k) <=> Feasible(selected, cols \ {c1}, rows, k)
<1>1. ASSUME NEW S \in SUBSET cols,
             \A r \in rows : \E d \in S : <<r, d>> \in matrix,
             Colourable(S \cup selected, k)
      PROVE  Feasible(selected, cols \ {c1}, rows, k)
  <2>1. CASE c1 \notin S
    <3>1. S \in SUBSET (cols \ {c1})
      BY <2>1
    <3> QED
      BY <1>1, <3>1 DEF Feasible
  <2>2. CASE c1 \in S
    <3> DEFINE T == (S \ {c1}) \cup {c2}
    <3>1. T \in SUBSET (cols \ {c1})
      OBVIOUS
    <3>2. \A r \in rows : <<r, c1>> \in matrix => <<r, c2>> \in matrix
      BY DEF RowsOf
    <3>3. \A r \in rows : \E d \in T : <<r, d>> \in matrix
      BY <1>1, <3>2
    <3>4. Colourable(T \cup selected, k)
      BY <1>1, <2>2, Recolour
    <3> QED
      BY <3>1, <3>3, <3>4 DEF Feasible
  <2> QED
    BY <2>1, <2>2
<1>2. \A S \in SUBSET (cols \ {c1}) : S \in SUBSET cols
  OBVIOUS
<1> QED
  BY <1>1, <1>2 DEF Feasible

LEMMA DominatedRowIsFree ==
  ASSUME NEW r1 \in rows, NEW r2 \in rows, r1 # r2, ColsOf(r1) \subseteq ColsOf(r2), NEW k
  PROVE  Feasible(selected, cols, rows, k) <=> Feasible(selected, cols, rows \ {r2}, k)
<1>1. ASSUME NEW S \in SUBSET cols,
             \A r \in rows \ {r2} : \E d \in S : <<r, d>> \in matrix
      PROVE  \A r \in rows : \E d \in S : <<r, d>> \in matrix
  <2>1. PICK d \in S : <<r1, d>> \in matrix
    BY <1>1
  <2>2. <<r2, d>> \in matrix
    BY <2>1 DEF ColsOf
  <2> QED
    BY <1>1, <2>2
<1> QED
  BY <1>1 DEF Feasible

\* The first reduction has the whole matrix before it, and each keeps what
\* suffices.
LEMMA OptimumStep ==
  ASSUME IInv, IInv', OptimumStays, MinPatNext
  PROVE  OptimumStays'
<1> DEFINE Whole(k) == Feasible({}, Node, {e[1] : e \in matrix}, k)
<1>a. tv' = tv /\ cubes' = cubes /\ Node' = Node
  BY VectorsStay, SameVectors
<1>b. MinPatTypeOK /\ Stages /\ Colours
  BY DEF IInv
<1>1. CASE GenerateMatrix
  <2>1. CASE phase' # "reduce"
    BY <1>1, <2>1 DEF GenerateMatrix, OptimumStays
  <2>2. CASE phase' = "reduce"
    <3>1. phase = "matrix" /\ rows' = rows /\ cols' = cols /\ selected' = selected
      BY <1>1 DEF GenerateMatrix
    <3>2. cols = Node /\ selected = {}
      BY <1>b, <3>1 DEF Stages, MinPatTypeOK
    <3>3. matrix' \subseteq rows \X Node
      BY <1>1, <3>1 DEF GenerateMatrix, Elements, Block, IInv, RowsHaveColumns
    <3>4. \A r \in rows' : ColsOf(r)' # {}
      BY <2>2 DEF IInv, RowsHaveColumns
    <3>5. rows' = {e[1] : e \in matrix'}
      <4>1. ASSUME NEW r \in rows'
            PROVE  \E e \in matrix' : r = e[1]
        <5>1. PICK c \in cols' : <<r, c>> \in matrix'
          BY <3>4 DEF ColsOf
        <5> QED
          BY <5>1
      <4>2. \A e \in matrix' : e[1] \in rows'
        BY <3>1, <3>3
      <4> QED
        BY <4>1, <4>2
    <3>6. cols' = Node' /\ selected' = {}
      BY <1>a, <3>1, <3>2
    <3> QED
      BY <3>5, <3>6 DEF OptimumStays
  <2> QED
    BY <2>1, <2>2
<1>2. CASE SelectEssential
  <2>1. PICK c \in cols : /\ \E r \in rows : ColsOf(r) = {c}
                          /\ selected' = selected \cup {c}
                          /\ cols' = cols \ {c}
                          /\ rows' = rows \ RowsOf(c)
    BY <1>2 DEF SelectEssential
  <2>2. matrix' = matrix /\ phase = "reduce" /\ phase' = "reduce"
    BY <1>2 DEF SelectEssential
  <2>3. ASSUME NEW k \in Nat
        PROVE  Feasible(selected, cols, rows, k)' <=> Whole(k)'
    <3>1. Feasible(selected, cols, rows, k)
            <=> Feasible(selected \cup {c}, cols \ {c}, rows \ RowsOf(c), k)
      BY <2>1, EssentialIsFree
    <3>2. Feasible(selected, cols, rows, k) <=> Whole(k)
      BY <2>2 DEF OptimumStays
    <3>3. Feasible(selected, cols, rows, k)'
            <=> Feasible(selected \cup {c}, cols \ {c}, rows \ RowsOf(c), k)
      BY <1>a, <2>1, <2>2, FeasibleStays
    <3>4. Whole(k)' <=> Whole(k)
      BY <1>a, <2>2, FeasibleStays
    <3> QED
      BY <3>1, <3>2, <3>3, <3>4
  <2> QED
    BY <2>3 DEF OptimumStays
<1>3. CASE DeleteDominatedCol
  <2>1. PICK c1 \in cols, c2 \in cols :
          /\ c1 # c2 /\ RowsOf(c1) \subseteq RowsOf(c2) /\ MpComp(c1, c2)
          /\ cols' = cols \ {c1}
    BY <1>3 DEF DeleteDominatedCol
  <2>2. /\ matrix' = matrix /\ phase = "reduce" /\ phase' = "reduce"
        /\ rows' = rows /\ selected' = selected
    BY <1>3 DEF DeleteDominatedCol
  <2>3. ASSUME NEW k \in Nat
        PROVE  Feasible(selected, cols, rows, k)' <=> Whole(k)'
    <3>1. Feasible(selected, cols, rows, k) <=> Feasible(selected, cols \ {c1}, rows, k)
      BY <2>1, <2>2, DominatedColIsFree
    <3>2. Feasible(selected, cols, rows, k) <=> Whole(k)
      BY <2>2 DEF OptimumStays
    <3>3. Feasible(selected, cols, rows, k)' <=> Feasible(selected, cols \ {c1}, rows, k)
      BY <1>a, <2>1, <2>2, FeasibleStays
    <3>4. Whole(k)' <=> Whole(k)
      BY <1>a, <2>2, FeasibleStays
    <3> QED
      BY <3>1, <3>2, <3>3, <3>4
  <2> QED
    BY <2>3 DEF OptimumStays
<1>4. CASE DeleteDominatedRow
  <2>1. PICK r1 \in rows, r2 \in rows :
          r1 # r2 /\ ColsOf(r1) \subseteq ColsOf(r2) /\ rows' = rows \ {r2}
    BY <1>4 DEF DeleteDominatedRow
  <2>2. /\ matrix' = matrix /\ phase = "reduce" /\ phase' = "reduce"
        /\ cols' = cols /\ selected' = selected
    BY <1>4 DEF DeleteDominatedRow
  <2>3. ASSUME NEW k \in Nat
        PROVE  Feasible(selected, cols, rows, k)' <=> Whole(k)'
    <3>1. Feasible(selected, cols, rows, k) <=> Feasible(selected, cols, rows \ {r2}, k)
      BY <2>1, DominatedRowIsFree
    <3>2. Feasible(selected, cols, rows, k) <=> Whole(k)
      BY <2>2 DEF OptimumStays
    <3>3. Feasible(selected, cols, rows, k)' <=> Feasible(selected, cols, rows \ {r2}, k)
      BY <1>a, <2>1, <2>2, FeasibleStays
    <3>4. Whole(k)' <=> Whole(k)
      BY <1>a, <2>2, FeasibleStays
    <3> QED
      BY <3>1, <3>2, <3>3, <3>4
  <2> QED
    BY <2>3 DEF OptimumStays
<1>5. CASE PropagateDeletion \/ EndReduce
  <2>1. /\ matrix' = matrix /\ rows' = rows /\ cols' = cols /\ selected' = selected
        /\ phase \in {"reduce", "propagate"}
    BY <1>5 DEF PropagateDeletion, EndReduce, matrixVars
  <2>2. ASSUME NEW k \in Nat
        PROVE  Feasible(selected, cols, rows, k)' <=> Whole(k)'
    <3>1. Feasible(selected, cols, rows, k) <=> Whole(k)
      BY <2>1 DEF OptimumStays
    <3>2. Feasible(selected, cols, rows, k)' <=> Feasible(selected, cols, rows, k)
      BY <1>a, <2>1, FeasibleStays
    <3>3. Whole(k)' <=> Whole(k)
      BY <1>a, <2>1, FeasibleStays
    <3> QED
      BY <3>1, <3>2, <3>3
  <2> QED
    BY <2>2 DEF OptimumStays
<1>6. CASE StartWithSelected \/ AddSelected \/ OfferColumns \/ StartWithColumn \/ AddColumn
  <2>1. phase' \notin {"reduce", "propagate", "start"}
    BY <1>6 DEF StartWithSelected, AddSelected, OfferColumns, StartWithColumn, AddColumn
  <2> QED
    BY <2>1 DEF OptimumStays
<1>7. CASE NewColor \/ SetColor \/ MergeTvList
  <2>1. phase' \notin {"reduce", "propagate", "start"}
    BY <1>7 DEF NewColor, SetColor, MergeTvList, BeginMerge, BeginVector, MergeNext, EndMerge
  <2> QED
    BY <2>1 DEF OptimumStays
<1>8. CASE UpdateMatrix
  <2>1. phase' = "start" /\ colorNum' # 0
    BY <1>8, <1>b DEF UpdateMatrix, colourVars, Colours, MinPatTypeOK
  <2> QED
    BY <2>1 DEF OptimumStays
<1> QED
  BY <1>1, <1>2, <1>3, <1>4, <1>5, <1>6, <1>7, <1>8 DEF MinPatNext

\* A step that changes none of what is compared.
LEMMA OptimumStutter ==
  ASSUME OptimumStays, UNCHANGED minpatVars
  PROVE  OptimumStays'
<1>1. /\ tv' = tv /\ cubes' = cubes /\ matrix' = matrix /\ rows' = rows /\ cols' = cols
      /\ selected' = selected /\ phase' = phase /\ colorNum' = colorNum
  BY DEF minpatVars, inputVars, matrixVars, colourVars
<1>2. ASSUME NEW k \in Nat
      PROVE  /\ Feasible(selected, cols, rows, k)' <=> Feasible(selected, cols, rows, k)
             /\ Feasible({}, Node, {e[1] : e \in matrix}, k)'
                  <=> Feasible({}, Node, {e[1] : e \in matrix}, k)
  BY <1>1, FeasibleStays
<1> QED
  BY <1>1, <1>2 DEF OptimumStays

\* The fewest colours are the least number that suffices.
LEMMA FewestMeans ==
  ASSUME NEW needed, NEW among, NEW R
  PROVE  FewestColours(needed, among, R)
           = Min({k \in 0 .. Len(tv) : Feasible(needed, among, R, k)})
  BY Zenon DEF FewestColours, Feasible

LEMMA OptimumIsKept ==
  ASSUME tv \in Seq(Vec), OptimumStays
  PROVE  ReductionKeepsOptimum
<1> SUFFICES ASSUME phase = "start" /\ colorNum = 0
             PROVE  FewestColours(selected, cols, rows)
                      = FewestColours({}, Node, {e[1] : e \in matrix})
  BY DEF ReductionKeepsOptimum
<1> DEFINE A == {k \in 0 .. Len(tv) : Feasible(selected, cols, rows, k)}
<1> DEFINE B == {k \in 0 .. Len(tv) : Feasible({}, Node, {e[1] : e \in matrix}, k)}
<1>1. \A k \in 0 .. Len(tv) : k \in Nat
  OBVIOUS
<1>2. A = B
  BY <1>1 DEF OptimumStays
<1>3. FewestColours(selected, cols, rows) = Min(A)
  BY FewestMeans
<1>4. FewestColours({}, Node, {e[1] : e \in matrix}) = Min(B)
  BY FewestMeans
<1> QED
  BY <1>2, <1>3, <1>4

-----------------------------------------------------------------------------
(* What follows from it.                                                   *)

\* The lists of coloring() hold nodes of the graph and rows of the matrix.
THEOREM MinPatTypeCorrect == MinPatSpec => []MinPatTypeOK
<1>1. IInv => MinPatTypeOK
  BY DEF IInv
<1> QED
  BY <1>1, Invariance, PTL

\* The graph and the matrix speak of the same vectors, so delete_node() never
\* meets a node that its lists do not have (MpColGraph.cc:97).
THEOREM GraphIsInStep == MinPatSpec => []GraphFollowsMatrix
<1>1. IInv => GraphFollowsMatrix
  BY DEF IInv
<1> QED
  BY <1>1, Invariance, PTL

\* The vectors that merge_tv_list() merges are pairwise compatible, and it is
\* never called for a colour without vectors (MinPatMgr.cc:602).
THEOREM ColoursCanBeMerged == MinPatSpec => []ColoursAreGroups
<1>1. IInv => ColoursAreGroups
  BY DEF IInv, ColoursAreGroups, ColoursCompatible, ColoursUsed
<1> QED
  BY <1>1, Invariance, PTL

\* No fault of the list is lost while rows and columns are dropped.
THEOREM NoRowIsLost == MinPatSpec => []RowsStayCovered
<1>1. IInv => RowsStayCovered
  BY DEF IInv
<1> QED
  BY <1>1, Invariance, PTL

\* When coloring() ends, every element of the matrix has a vector that detects
\* its fault and went into one of the merged vectors.
LEMMA MergedCover ==
  ASSUME IInv, phase = "merged", NEW e \in matrix
  PROVE  \E k \in DOMAIN newTv, c \in Node :
           <<e[1], c>> \in matrix /\ Refines(newTv[k], tv[c])
<1>1. rows = {} /\ selected = {}
  BY DEF IInv, Stages
<1>2. PICK c \in Coloured : <<e[1], c>> \in matrix
  BY <1>1 DEF IInv, RowsStayCovered
<1>3. /\ newTv \in Seq(Vec) /\ Len(newTv) = colorNum /\ colorNum \in Nat
      /\ colorMap \in [Node -> 0 .. colorNum]
      /\ Waiting = {}
  BY DEF IInv, MinPatTypeOK, MergeTypeOK, Merging
<1>4. c \in Node /\ colorMap[c] \in 1 .. colorNum /\ c \in GroupOf(colorMap[c])
  BY <1>3 DEF Coloured, GroupOf
<1>5. colorMap[c] \in DOMAIN newTv
  BY <1>3, <1>4
<1>6. colorMap[c] < Len(newTv) \/ c \in joined
  BY <1>3, <1>4 DEF Waiting
<1>7. Refines(newTv[colorMap[c]], tv[c])
  BY <1>4, <1>5, <1>6 DEF IInv, Merging
<1> QED
  BY <1>2, <1>4, <1>5, <1>7

\* A vector detects what those that it refines detect.
LEMMA RefinedDetects ==
  ASSUME NEW u, NEW v, NEW f, Refines(v, u), Detects(u, f)
  PROVE  Detects(v, f)
<1>1. \A c : Refines(u, c) => Refines(v, c)
  BY DEF Refines
<1> QED
  BY <1>1 DEF Detects

\* The merged vectors detect every fault of the matrix.
THEOREM CoverageIsKept == MinPatSpec => []CoverageKept
<1>1. ASSUME IInv, phase = "merged", NEW e \in matrix
      PROVE  \E k \in DOMAIN newTv : Detects(newTv[k], e[1])
  <2>1. PICK k \in DOMAIN newTv, c \in Node :
          <<e[1], c>> \in matrix /\ Refines(newTv[k], tv[c])
    BY <1>1, MergedCover
  <2>2. Detects(tv[c], e[1])
    BY <1>1, <2>1 DEF IInv, MatrixIsRight
  <2> QED
    BY <2>1, <2>2, RefinedDetects
<1>2. IInv => CoverageKept
  BY <1>1 DEF CoverageKept
<1> QED
  BY <1>2, Invariance, PTL

\* The steps of reduce() lose no optimum: the fewest colours that cover what is
\* left, with the vectors selected, are as many as for the whole matrix, because
\* containment_check() is asked which vector may stand for which.
THEOREM NoOptimumIsLost == MinPatSpec => []ReductionKeepsOptimum
<1>1. MinPatInit => IInv /\ OptimumStays
  BY IInvInit DEF MinPatInit, ColoringOf, OptimumStays
<1>2. IInv /\ OptimumStays /\ [MinPatNext]_minpatVars => (IInv /\ OptimumStays)'
  <2> SUFFICES ASSUME IInv, OptimumStays, [MinPatNext]_minpatVars
               PROVE  IInv' /\ OptimumStays'
    OBVIOUS
  <2>1. IInv'
    BY IInvNext
  <2>2. CASE MinPatNext
    BY <2>1, <2>2, OptimumStep
  <2>3. CASE UNCHANGED minpatVars
    BY <2>1, <2>3, OptimumStutter
  <2> QED
    BY <2>1, <2>2, <2>3
<1>3. IInv /\ OptimumStays => ReductionKeepsOptimum
  BY OptimumIsKept DEF IInv
<1> QED
  BY <1>1, <1>2, <1>3, PTL DEF MinPatSpec


-----------------------------------------------------------------------------
(* The fault reducer.                                                      *)

\* What the caller hands over.
ProperInput ==
  /\ Batches \subseteq SUBSET Vector
  /\ Steps \in Seq({"red1", "red2", "red3"})

\* Only transition faults have a condition on the cycle before.
StuckAt == \A f \in Fault : launch[f] = Vector /\ show[f] \subseteq Vector

\* A fault is counted when a pattern has detected it, and nothing is deleted
\* before the simulations are over.
Counting ==
  /\ \A f \in Fault : f \in counted <=> Tests(f) \cap seen # {}
  /\ stage \in {"tests", "random"} => deleted = {}

-----------------------------------------------------------------------------
(* Type correctness.                                                       *)

LEMMA TypeInit == ReducerInit => ReducerTypeOK
  BY DEF ReducerInit, ReducerTypeOK

LEMMA TypeNext ==
  ASSUME ProperInput, ReducerTypeOK, [ReducerNext]_reducerVars
  PROVE  ReducerTypeOK'
<1> USE DEF ProperInput, ReducerTypeOK, problemVars
<1>1. CASE SimulateTests
  BY <1>1 DEF SimulateTests, DoFsim, CandidatesAfter, Detected
<1>2. CASE SimulateRandom
  BY <1>2 DEF SimulateRandom, DoFsim, CandidatesAfter, Detected
<1>3. CASE FfrReduction
  BY <1>3 DEF FfrReduction, FfrImplied
<1>4. CASE DomReduction
  BY <1>4 DEF DomReduction
<1>5. CASE NextStep
  BY <1>5 DEF NextStep, LastStep
<1>6. CASE UNCHANGED reducerVars
  BY <1>6 DEF reducerVars
<1> QED
  BY <1>1, <1>2, <1>3, <1>4, <1>5, <1>6 DEF ReducerNext

\* The lists of the reducer hold faults of the list, its patterns are vectors.
THEOREM ReducerTypeCorrect ==
  ASSUME ProperInput
  PROVE  ReducerSpec => []ReducerTypeOK
  BY TypeInit, TypeNext, PTL DEF ReducerSpec

-----------------------------------------------------------------------------
(* The candidate lists.                                                    *)

\* A block keeps the lists exact: of a fault detected for the first time no
\* earlier pattern was a test, and of one not detected no new one is.
LEMMA SimulationStep ==
  ASSUME ReducerTypeOK, Counting, CandidatesExact, deleted = {}, deleted' = deleted,
         UNCHANGED problemVars, NEW batch, DoFsim(batch)
  PROVE  /\ CandidatesExact'
         /\ \A f \in Fault : f \in counted' <=> Tests(f)' \cap seen' # {}
<1>1. \A f : Tests(f)' = Tests(f)
  BY DEF Tests, problemVars
<1>2. seen' = seen \cup batch /\ counted' = counted \cup Detected(batch)
  BY DEF DoFsim
<1>3. \A f \in Fault : f \in counted' <=> Tests(f) \cap seen' # {}
  BY <1>2 DEF Counting, Detected
<1>4. ASSUME NEW f \in Fault
      PROVE  cand'[f] = IF f \notin counted' THEN {}
                        ELSE {g \in Fault \ {f} : Tests(f) \cap seen' \subseteq Tests(g)}
  <2>1. CASE f \notin Detected(batch)
    <3>1. Tests(f) \cap seen' = Tests(f) \cap seen
      BY <1>2, <2>1 DEF Detected
    <3>2. cand'[f] = cand[f] /\ (f \in counted' <=> f \in counted)
      BY <1>2, <2>1 DEF DoFsim, CandidatesAfter
    <3> QED
      BY <3>1, <3>2 DEF CandidatesExact
  <2>2. CASE f \in Detected(batch) /\ f \notin counted
    <3>1. Tests(f) \cap seen' = Tests(f) \cap batch
      BY <1>2, <2>2 DEF Counting
    <3>2. cand'[f] = {g \in Fault \ {f} : Tests(f) \cap batch \subseteq Tests(g)}
      BY <2>2 DEF DoFsim, CandidatesAfter, Superset
    <3> QED
      BY <1>2, <2>2, <3>1, <3>2
  <2>3. CASE f \in Detected(batch) /\ f \in counted
    <3>1. cand'[f] = {g \in cand[f] : Tests(f) \cap batch \subseteq Tests(g)}
      BY <2>3 DEF DoFsim, CandidatesAfter, Superset
    <3>2. cand[f] = {g \in Fault \ {f} : Tests(f) \cap seen \subseteq Tests(g)}
      BY <2>3 DEF CandidatesExact
    <3>3. \A g : Tests(f) \cap seen' \subseteq Tests(g) <=>
                   /\ Tests(f) \cap seen \subseteq Tests(g)
                   /\ Tests(f) \cap batch \subseteq Tests(g)
      BY <1>2
    <3> QED
      BY <1>2, <2>3, <3>1, <3>2, <3>3
  <2> QED
    BY <2>1, <2>2, <2>3
<1> QED
  BY <1>1, <1>3, <1>4 DEF CandidatesExact

LEMMA CandidatesInit == ReducerInit => Counting /\ CandidatesExact
  BY DEF ReducerInit, Counting, CandidatesExact, Tests

LEMMA CandidatesNext ==
  ASSUME ReducerTypeOK, Counting, CandidatesExact, [ReducerNext]_reducerVars
  PROVE  Counting' /\ CandidatesExact'
<1>1. CASE SimulateTests
  BY <1>1, SimulationStep DEF SimulateTests, Counting
<1>2. CASE SimulateRandom
  BY <1>2, SimulationStep DEF SimulateRandom, Counting
<1>3. CASE FfrReduction
  <2>1. PICK f \in todo :
          IF f \in deleted THEN UNCHANGED <<cand, deleted>>
          ELSE /\ deleted' = deleted \cup FfrImplied(f)
               /\ cand' = [g \in Fault |-> IF g \in FfrImplied(f) THEN {} ELSE cand[g]]
    BY <1>3 DEF FfrReduction
  <2>2. /\ \A g : Tests(g)' = Tests(g)
        /\ stage = "ffr" /\ stage' = stage /\ seen' = seen /\ counted' = counted
    BY <1>3 DEF FfrReduction, problemVars, Tests
  <2> QED
    BY <2>1, <2>2 DEF Counting, CandidatesExact
<1>4. CASE DomReduction
  <2>1. PICK f \in todo, now \in {TRUE, FALSE} :
          /\ deleted' = IF now THEN deleted \cup {f} ELSE deleted
          /\ cand' = IF now THEN [cand EXCEPT ![f] = {}] ELSE cand
    BY <1>4 DEF DomReduction, DeletedBy
  <2>2. /\ \A g : Tests(g)' = Tests(g)
        /\ stage = "dom" /\ stage' = stage /\ seen' = seen /\ counted' = counted
    BY <1>4 DEF DomReduction, problemVars, Tests
  <2> QED
    BY <2>1, <2>2 DEF Counting, CandidatesExact, ReducerTypeOK
<1>5. CASE NextStep
  BY <1>5 DEF NextStep, Counting, CandidatesExact, Tests, problemVars
<1>6. CASE UNCHANGED reducerVars
  BY <1>6 DEF reducerVars, Counting, CandidatesExact, Tests, problemVars
<1> QED
  BY <1>1, <1>2, <1>3, <1>4, <1>5, <1>6 DEF ReducerNext

\* The candidates of a fault are exactly the faults that all the patterns
\* simulated so far detect along with it.
THEOREM CandidatesAreExact ==
  ASSUME ProperInput
  PROVE  ReducerSpec => []CandidatesExact
  BY TypeInit, TypeNext, CandidatesInit, CandidatesNext, PTL DEF ReducerSpec

-----------------------------------------------------------------------------
(* Deletions.                                                              *)

\* A set of faults all implied by one that stays may be deleted.
LEMMA DeletionStep ==
  ASSUME DeletedIsImplied, UNCHANGED problemVars,
         NEW g \in Alive, NEW D \in SUBSET Fault, g \notin D,
         deleted' = deleted \cup D, \A f \in D : Tests(g) \subseteq Tests(f)
  PROVE  DeletedIsImplied'
<1>1. \A f : Tests(f)' = Tests(f)
  BY DEF Tests, problemVars
<1>2. Alive' = Alive \ D
  BY DEF Alive
<1>3. ASSUME NEW f \in deleted'
      PROVE  \E h \in Alive' : Tests(h) \subseteq Tests(f)
  <2>1. CASE f \in D
    BY <1>2, <2>1
  <2>2. CASE f \in deleted
    <3>1. PICK h \in Alive : Tests(h) \subseteq Tests(f)
      BY <2>2 DEF DeletedIsImplied
    <3>2. CASE h \in D
      BY <1>2, <3>1, <3>2
    <3>3. CASE h \notin D
      BY <1>2, <3>1, <3>3
    <3> QED
      BY <3>2, <3>3
  <2> QED
    BY <1>3, <2>1, <2>2
<1> QED
  BY <1>1, <1>3 DEF DeletedIsImplied

LEMMA DeletionNext ==
  ASSUME StuckAt, ReducerTypeOK, CandidatesExact, DeletedIsImplied,
         [ReducerNext]_reducerVars
  PROVE  DeletedIsImplied'
<1> SUFFICES ASSUME deleted' # deleted
             PROVE  DeletedIsImplied'
  <2>1. CASE deleted' = deleted
    <3>1. UNCHANGED problemVars
      BY DEF ReducerNext, reducerVars, SimulateTests, SimulateRandom, FfrReduction,
         DomReduction, NextStep
    <3>2. Alive' = Alive /\ \A f : Tests(f)' = Tests(f)
      BY <2>1, <3>1 DEF Alive, Tests, problemVars
    <3> QED
      BY <2>1, <3>2 DEF DeletedIsImplied
  <2> QED
    BY <2>1
<1>1. CASE FfrReduction
  <2>1. PICK f \in todo : f \notin deleted /\ deleted' = deleted \cup FfrImplied(f)
    BY <1>1 DEF FfrReduction
  <2>2. f \in Alive /\ FfrImplied(f) \in SUBSET Fault /\ f \notin FfrImplied(f)
    BY <2>1 DEF Alive, FfrImplied, ReducerTypeOK, CandidatesExact
  <2>3. \A g \in FfrImplied(f) : Tests(f) \subseteq Tests(g)
    BY DEF FfrImplied
  <2> QED
    BY <1>1, <2>1, <2>2, <2>3, DeletionStep DEF FfrReduction
<1>2. CASE DomReduction
  <2>1. PICK f \in todo : TRUE \in DeletedBy(f, Steps[step]) /\ deleted' = deleted \cup {f}
    BY <1>2 DEF DomReduction, DeletedBy
  <2>2. \E g \in Dominators(f) : NeverHidden(f, g)
    BY <2>1 DEF DeletedBy
  <2>3. PICK g \in Alive \ {f} : Tests(g) \subseteq show[f]
    BY <2>2 DEF Dominators, NeverHidden
  <2>4. f \in Fault
    BY <2>1 DEF ReducerTypeOK
  <2>5. show[f] = Tests(f)
    BY <2>4 DEF StuckAt, Tests
  <2>6. UNCHANGED problemVars
    BY <1>2 DEF DomReduction
  <2>7. g \in Alive /\ g \notin {f} /\ {f} \in SUBSET Fault
    BY <2>3, <2>4
  <2>8. \A h \in {f} : Tests(g) \subseteq Tests(h)
    BY <2>3, <2>5
  <2> QED
    BY <2>1, <2>6, <2>7, <2>8, DeletionStep
<1> QED
  BY <1>1, <1>2 DEF ReducerNext, SimulateTests, SimulateRandom, NextStep, reducerVars

\* Of stuck-at faults: every test of some fault that stays detects a fault
\* that was deleted.
THEOREM DeletionsAreRight ==
  ASSUME ProperInput
  PROVE  ReducerSpec /\ StuckAt => []DeletedIsImplied
<1>1. ReducerInit => DeletedIsImplied
  BY DEF ReducerInit, DeletedIsImplied
<1>2. StuckAt /\ [ReducerNext]_reducerVars => StuckAt'
  BY DEF StuckAt, ReducerNext, reducerVars, problemVars, SimulateTests, SimulateRandom,
     FfrReduction, DomReduction, NextStep
<1> QED
  BY <1>1, <1>2, TypeInit, TypeNext, CandidatesInit, CandidatesNext, DeletionNext, PTL
  DEF ReducerSpec

-----------------------------------------------------------------------------
(* The composition.                                                        *)

\* What the reducer knows of the circuit is what the colouring knows.
SharedCircuit ==
  /\ cubes \in [Row -> SUBSET Vec]
  /\ launch = [f \in Fault |-> Vector]
  /\ show = [f \in Fault |-> {v \in Vector : Detects(v, f)}]

NothingToColour == tv = << >> /\ ColoringOf({})

\* The faults that are left are marked or have a test on the list.
Generator ==
  /\ walk \subseteq faultMark /\ faultMark \subseteq Fault /\ faultList \subseteq Fault
  /\ tvList \in Seq(Vec)
  /\ program # "reduction" =>
       /\ Alive \subseteq faultMark \cup faultList
       /\ \A f \in faultList : \E n \in DOMAIN tvList : Detects(tvList[n], f)

\* The matrix has a column for every fault of the generator's list.
Coverable ==
  program = "coloring" =>
    IF phase = "matrix" THEN rows = faultList
    ELSE \A f \in faultList : \E c : <<f, c>> \in matrix

CInv ==
  /\ program \in {"reduction", "generation", "coloring"}
  /\ IInv
  /\ ReducerTypeOK /\ Counting /\ CandidatesExact /\ DeletedIsImplied
  /\ SharedCircuit
  /\ program # "reduction" => stage = "reduced"
  /\ program # "coloring" => NothingToColour
  /\ Generator
  /\ Coverable

LEMMA ProperCalls == ProperInput
  BY SameCircuit DEF ProperInput

LEMMA SharedIsStuckAt == SharedCircuit => StuckAt
  BY DEF SharedCircuit, StuckAt

\* Without vectors, coloring() of no faults begins as it does with any list.
LEMMA NothingIsSound ==
  ASSUME NothingToColour, cubes \in [Row -> SUBSET Vec]
  PROVE  IInv
<1>1. MinPatInit
  <2>1. tv \in Seq(Vec)
    BY DEF NothingToColour
  <2>2. {} \in SUBSET Row /\ \A f \in {} : \E n \in Node : Detects(tv[n], f)
    OBVIOUS
  <2> QED
    BY <2>1, <2>2 DEF MinPatInit, NothingToColour
<1> QED
  BY <1>1, IInvInit

LEMMA CInvInit == CompactionInit => CInv
<1> SUFFICES ASSUME CompactionInit PROVE CInv
  OBVIOUS
<1>1. NothingToColour /\ cubes \in [Row -> SUBSET Vec]
  BY DEF CompactionInit, NothingToColour
<1>2. ReducerTypeOK /\ Counting /\ CandidatesExact /\ DeletedIsImplied
  BY TypeInit, CandidatesInit DEF CompactionInit, ReducerInit, DeletedIsImplied
<1>3. SharedCircuit
  BY DEF CompactionInit, SharedCircuit
<1>4. Generator /\ Coverable /\ program = "reduction"
  BY SameCircuit DEF CompactionInit, Generator, Coverable
<1> QED
  BY <1>1, <1>2, <1>3, <1>4, NothingIsSound DEF CInv

-----------------------------------------------------------------------------
(* What the actions of one program leave to the others.                    *)

\* Colouring reads variables of its own only.
LEMMA ColouringStays ==
  ASSUME CInv, UNCHANGED minpatVars
  PROVE  /\ IInv' /\ NothingToColour' = NothingToColour
         /\ cubes' = cubes /\ phase' = phase /\ rows' = rows /\ matrix' = matrix
         /\ \A u, f : Detects(u, f)' = Detects(u, f)
<1>1. IInv'
  BY StutteringStep DEF CInv
<1>2. UNCHANGED <<tv, cubes, phase, base, matrix, rows, cols, lists, pending, selected, group,
                  choices, marked, colorNum, colorMap, newTv, joined>>
  BY DEF minpatVars, inputVars, matrixVars, groupVars, colourVars, mergeVars
<1>3. NothingToColour' = NothingToColour
  BY <1>2 DEF NothingToColour, ColoringOf, GenConflictList, Node
<1>4. \A u, f : Detects(u, f)' = Detects(u, f)
  BY <1>2 DEF Detects
<1> QED
  BY <1>1, <1>2, <1>3, <1>4

LEMMA ReducerStays ==
  ASSUME CInv, UNCHANGED reducerVars
  PROVE  /\ ReducerTypeOK' /\ Counting' /\ CandidatesExact' /\ DeletedIsImplied'
         /\ Alive' = Alive /\ launch' = launch /\ show' = show /\ stage' = stage
<1>1. ReducerTypeOK' /\ Counting' /\ CandidatesExact' /\ DeletedIsImplied'
  BY ProperCalls, SharedIsStuckAt, TypeNext, CandidatesNext, DeletionNext DEF CInv
<1>2. Alive' = Alive /\ launch' = launch /\ show' = show /\ stage' = stage
  BY DEF reducerVars, problemVars, Alive
<1> QED
  BY <1>1, <1>2

\* The fault list stays coverable when neither it nor the matrix changes.
LEMMA GeneratorStays ==
  ASSUME CInv, UNCHANGED generatorVars, Alive' = Alive, program' = program,
         \A u, f : Detects(u, f)' = Detects(u, f)
  PROVE  Generator'
<1>1. walk' = walk /\ faultMark' = faultMark /\ faultList' = faultList /\ tvList' = tvList
  BY DEF generatorVars
<1> QED
  BY <1>1 DEF CInv, Generator

-----------------------------------------------------------------------------
(* One lemma for each action.                                              *)

LEMMA ReductionStep ==
  ASSUME CInv, Reduction
  PROVE  CInv'
<1>1. /\ ReducerNext /\ UNCHANGED minpatVars /\ UNCHANGED generatorVars
      /\ program = "reduction" /\ program' = program
  BY DEF Reduction
<1>2. ReducerTypeOK' /\ Counting' /\ CandidatesExact' /\ DeletedIsImplied'
  BY <1>1, ProperCalls, SharedIsStuckAt, TypeNext, CandidatesNext, DeletionNext DEF CInv
<1>3. UNCHANGED problemVars
  BY <1>1 DEF ReducerNext, SimulateTests, SimulateRandom, FfrReduction, DomReduction, NextStep
<1>4. SharedCircuit'
  BY <1>1, <1>3, ColouringStays DEF CInv, SharedCircuit, problemVars
<1>5. Generator' /\ Coverable'
  BY <1>1 DEF CInv, Generator, Coverable, generatorVars
<1> QED
  BY <1>1, <1>2, <1>4, <1>5, ColouringStays DEF CInv

LEMMA ExecOneStep ==
  ASSUME CInv, ExecOne
  PROVE  CInv'
<1>1. /\ stage' = stage /\ step' = step /\ todo' = todo /\ deleted' = deleted
      /\ launch' = launch /\ show' = show /\ region' = region /\ cubes' = cubes
      /\ cand' = [f \in Fault |-> {}] /\ counted' = {} /\ seen' = {}
  BY DEF ExecOne, problemVars
<1>2. \A u, f : Detects(u, f)' = Detects(u, f)
  BY <1>1 DEF Detects
<1>3. \A f : Tests(f)' = Tests(f)
  BY <1>1 DEF Tests
<1>4. stage \notin {"tests", "random"}
  <2>1. stage = "reduced"
    BY DEF ExecOne, CInv
  <2> QED
    BY <2>1
<1>5. ReducerTypeOK' /\ Counting' /\ CandidatesExact'
  BY <1>1, <1>3, <1>4 DEF CInv, ReducerTypeOK, Counting, CandidatesExact
<1>6. Alive' = Alive /\ DeletedIsImplied'
  BY <1>1, <1>3 DEF CInv, Alive, DeletedIsImplied
<1>7. SharedCircuit'
  BY <1>1, <1>2 DEF CInv, SharedCircuit
<1>8. NothingToColour' /\ IInv'
  <2>1. NothingToColour'
    BY DEF ExecOne, NothingToColour, ColoringOf
  <2>2. (NothingToColour /\ cubes \in [Row -> SUBSET Vec])' => IInv'
    BY NothingIsSound, PTL
  <2> QED
    BY <1>7, <2>1, <2>2 DEF SharedCircuit
<1>9. program' = "generation" /\ Generator' /\ Coverable'
  BY <1>6 DEF ExecOne, Generator, Coverable, Alive
<1>10. stage' = "reduced"
  BY <1>1 DEF ExecOne, CInv
<1> QED
  BY <1>5, <1>6, <1>7, <1>8, <1>9, <1>10 DEF CInv

\* The tests of the engine are appended to the list: those that were there are
\* where they were.
LEMMA TestsAppended ==
  ASSUME NEW s \in Seq(Vec), NEW f, NEW tests \in TestLists(f)
  PROVE  /\ s \o tests \in Seq(Vec)
         /\ \E n \in DOMAIN (s \o tests) : Detects((s \o tests)[n], f)
         /\ \A n \in DOMAIN s : n \in DOMAIN (s \o tests) /\ (s \o tests)[n] = s[n]
<1>1. PICK k \in 1 .. MaxK : tests \in [1 .. k -> {v \in Vec : Detects(v, f)}]
  BY DEF TestLists
<1>2. k \in Nat /\ k >= 1
  BY <1>1, MaxKAssumption
<1>3. tests \in Seq(Vec) /\ Len(tests) = k /\ Detects(tests[1], f)
  BY <1>1, <1>2
<1>4. s \o tests \in Seq(Vec) /\ Len(s \o tests) = Len(s) + k
  BY <1>2, <1>3
<1>5. (s \o tests)[Len(s) + 1] = tests[1] /\ Len(s) + 1 \in DOMAIN (s \o tests)
  BY <1>2, <1>3, <1>4
<1>6. \A n \in DOMAIN s : n \in DOMAIN (s \o tests) /\ (s \o tests)[n] = s[n]
  BY <1>2, <1>3, <1>4
<1> QED
  BY <1>3, <1>4, <1>5, <1>6

LEMMA CallDtpgStep ==
  ASSUME CInv, CallDtpg
  PROVE  CInv'
<1>1. /\ program = "generation" /\ program' = program
      /\ UNCHANGED minpatVars /\ UNCHANGED reducerVars
  BY DEF CallDtpg
<1>2. PICK f \in walk :
        /\ walk' = walk \ {f}
        /\ \/ /\ \E tests \in TestLists(f) : tvList' = tvList \o tests
              /\ faultList' = faultList \cup {f}
              /\ faultMark' = faultMark \ {f}
           \/ faultMark' = faultMark /\ faultList' = faultList /\ tvList' = tvList
  BY DEF CallDtpg, FirstOf, GiveUp
<1>3. Generator'
  <2>1. f \in Fault /\ tvList \in Seq(Vec)
    BY DEF CInv, Generator
  <2>2. \A u, h : Detects(u, h)' = Detects(u, h)
    BY <1>1, ColouringStays
  <2>3. Alive' = Alive
    BY <1>1, ReducerStays
  <2>4. ASSUME NEW tests \in TestLists(f), tvList' = tvList \o tests,
               faultList' = faultList \cup {f}, faultMark' = faultMark \ {f}
        PROVE  Generator'
    <3>1. tvList' \in Seq(Vec)
      BY <2>1, <2>4, TestsAppended
    <3>2. \A h \in faultList : \E n \in DOMAIN tvList : Detects(tvList[n], h)
      BY <1>1 DEF CInv, Generator
    <3>3. ASSUME NEW h \in faultList'
          PROVE  \E n \in DOMAIN tvList' : Detects(tvList'[n], h)
      <4>1. CASE h = f
        BY <2>1, <2>4, <4>1, TestsAppended
      <4>2. CASE h # f
        <5>1. PICK n \in DOMAIN tvList : Detects(tvList[n], h)
          BY <2>4, <3>2, <3>3, <4>2
        <5>2. n \in DOMAIN tvList' /\ tvList'[n] = tvList[n]
          BY <2>1, <2>4, TestsAppended
        <5> QED
          BY <5>1, <5>2
      <4> QED
        BY <4>1, <4>2
    <3>4. walk' \subseteq faultMark' /\ faultMark' \subseteq Fault /\ faultList' \subseteq Fault
      BY <1>2, <2>1, <2>4 DEF CInv, Generator
    <3>5. Alive' \subseteq faultMark' \cup faultList'
      BY <1>1, <2>3, <2>4 DEF CInv, Generator
    <3>6. \A h \in faultList' : \E n \in DOMAIN tvList' : Detects(tvList[n], h)'
      BY <2>2, <3>3 DEF Detects
    <3> QED
      BY <3>1, <3>4, <3>5, <3>6 DEF Generator
  <2>5. ASSUME faultMark' = faultMark, faultList' = faultList, tvList' = tvList
        PROVE  Generator'
    BY <1>1, <1>2, <2>2, <2>3, <2>5 DEF CInv, Generator
  <2> QED
    BY <1>2, <2>4, <2>5
<1>4. SharedCircuit'
  BY <1>1, ColouringStays, ReducerStays DEF CInv, SharedCircuit
<1>5. Coverable'
  BY <1>1 DEF Coverable
<1> QED
  BY <1>1, <1>3, <1>4, <1>5, ColouringStays, ReducerStays DEF CInv

LEMMA ColoringStep ==
  ASSUME CInv, Coloring
  PROVE  CInv'
<1>1. /\ program = "generation" /\ program' = "coloring"
      /\ tv' = tvList /\ rows' = faultList /\ cubes' = cubes
      /\ UNCHANGED reducerVars /\ UNCHANGED generatorVars
  BY DEF Coloring
<1>2. \A u, f : Detects(u, f)' = Detects(u, f)
  BY <1>1 DEF Detects
<1>3. phase = "matrix" /\ phase' = "matrix"
  BY <1>1 DEF CInv, NothingToColour, ColoringOf, Coloring
<1>4. Generator
  BY DEF CInv
<1>5. IInv'
  <2>1. ColoringOf(faultList)'
    <3>1. faultList' = faultList
      BY <1>1 DEF generatorVars
    <3> QED
      BY <1>1, <3>1
      DEF CInv, Coloring, NothingToColour, ColoringOf, groupVars, mergeVars
  <2>2. tv' \in Seq(Vec) /\ cubes' \in [Row -> SUBSET Vec] /\ faultList' \in SUBSET Row
    BY <1>1, <1>4, SameCircuit DEF CInv, SharedCircuit, Generator, generatorVars
  <2>3. \A f \in faultList' : \E n \in Node' : Detects(tv[n], f)'
    BY <1>1, <1>2, <1>4 DEF Generator, Node, Detects, generatorVars
  <2>4. MinPatInit'
    BY <2>1, <2>2, <2>3 DEF MinPatInit
  <2>5. MinPatInit' => IInv'
    BY IInvInit, PTL
  <2> QED
    BY <2>4, <2>5
<1>6. SharedCircuit'
  BY <1>1, <1>2, ReducerStays DEF CInv, SharedCircuit
<1>7. Generator'
  BY <1>1, <1>2, <1>4, ReducerStays DEF Generator, generatorVars
<1>8. Coverable'
  BY <1>1, <1>3 DEF Coverable, generatorVars
<1> QED
  BY <1>1, <1>5, <1>6, <1>7, <1>8, ReducerStays DEF CInv

LEMMA ColouringStep ==
  ASSUME CInv, Colouring
  PROVE  CInv'
<1>1. /\ MinPatNext /\ UNCHANGED reducerVars /\ UNCHANGED generatorVars
      /\ program = "coloring" /\ program' = program
  BY DEF Colouring
<1>2. IInv'
  BY <1>1, IInvNext DEF CInv
<1>3. cubes' = cubes /\ \A u, f : Detects(u, f)' = Detects(u, f)
  BY <1>1, VectorsStay DEF Detects
<1>4. SharedCircuit' /\ Generator'
  BY <1>1, <1>3, ReducerStays, GeneratorStays DEF CInv, SharedCircuit
<1>5. faultList' = faultList
  BY <1>1 DEF generatorVars
<1>6. CASE GenerateMatrix
  <2>1. phase = "matrix" /\ rows' = rows /\ rows = faultList
    BY <1>1, <1>6 DEF GenerateMatrix, matrixVars, CInv, Coverable
  <2>2. ASSUME phase' # "matrix"
        PROVE  \A f \in faultList' : \E c : <<f, c>> \in matrix'
    <3>1. \A r \in rows' : ColsOf(r)' # {}
      BY <1>2, <2>2 DEF IInv, RowsHaveColumns
    <3> QED
      BY <1>5, <2>1, <3>1 DEF ColsOf
  <2>3. Coverable'
    BY <1>1, <1>5, <2>1, <2>2 DEF Coverable
  <2> QED
    BY <1>1, <1>2, <1>4, <2>3, ReducerStays DEF CInv
<1>7. CASE ~GenerateMatrix
  <2>1. phase # "matrix" /\ phase' # "matrix" /\ matrix' = matrix
    BY <1>1, <1>7
    DEF MinPatNext, SelectEssential, DeleteDominatedCol, DeleteDominatedRow,
        PropagateDeletion, EndReduce, StartWithSelected, AddSelected, OfferColumns,
        StartWithColumn, AddColumn, NewColor, SetColor, UpdateMatrix, MergeTvList,
        BeginMerge, BeginVector, MergeNext, EndMerge, matrixVars
  <2>2. Coverable'
    BY <1>1, <1>5, <2>1 DEF CInv, Coverable
  <2> QED
    BY <1>1, <1>2, <1>4, <2>2, ReducerStays DEF CInv
<1> QED
  BY <1>6, <1>7

LEMMA NothingChanges ==
  ASSUME CInv, UNCHANGED compactionVars
  PROVE  CInv'
<1>1. /\ UNCHANGED minpatVars /\ UNCHANGED reducerVars /\ UNCHANGED generatorVars
      /\ program' = program
  BY DEF compactionVars
<1>2. SharedCircuit' /\ Generator'
  BY <1>1, ColouringStays, ReducerStays, GeneratorStays DEF CInv, SharedCircuit
<1>3. Coverable'
  BY <1>1, ColouringStays DEF CInv, Coverable, generatorVars
<1> QED
  BY <1>1, <1>2, <1>3, ColouringStays, ReducerStays DEF CInv

LEMMA CompactionInvariance == CompactionSpec => []CInv
<1>1. CInv /\ [CompactionNext]_compactionVars => CInv'
  BY ReductionStep, ExecOneStep, CallDtpgStep, ColoringStep, ColouringStep, NothingChanges
  DEF CompactionNext
<1> QED
  BY <1>1, CInvInit, PTL DEF CompactionSpec

-----------------------------------------------------------------------------
(* What follows from it.                                                   *)

\* Types of the whole of it.
THEOREM CompactionTypeCorrect == CompactionSpec => []TypeOK
<1>1. CInv => TypeOK
  BY DEF CInv, IInv, Generator, TypeOK
<1> QED
  BY <1>1, CompactionInvariance, PTL

\* A fault that was deleted has a fault that was not, any test of which is a
\* test of it.  That one has a test, for no mark is left, and the test went
\* into a merged vector.
LEMMA MergedDetect ==
  ASSUME CInv, phase = "merged", faultMark = {}, NEW f \in Row
  PROVE  \E k \in DOMAIN newTv : \A v \in Vector : Refines(v, newTv[k]) => Detects(v, f)
<1>1. PICK g \in Alive : Tests(g) \subseteq Tests(f)
  <2>1. CASE f \in deleted
    BY <2>1 DEF CInv, DeletedIsImplied
  <2>2. CASE f \notin deleted
    BY <2>2, SameCircuit DEF Alive
  <2> QED
    BY <2>1, <2>2
<1>2. \A h \in Row : Tests(h) = {v \in Vector : Detects(v, h)}
  BY SameCircuit DEF CInv, SharedCircuit, Tests
<1>3. g \in Row
  BY SameCircuit DEF Alive
<1>4. PICK c0 : <<g, c0>> \in matrix
  <2>1. program = "coloring"
    BY DEF CInv, NothingToColour, ColoringOf
  <2>2. g \in faultList
    BY <2>1 DEF CInv, Generator
  <2> QED
    BY <2>1, <2>2 DEF CInv, Coverable
<1>5. PICK k \in DOMAIN newTv, c \in Node : <<g, c>> \in matrix /\ Refines(newTv[k], tv[c])
  BY <1>4, MergedCover DEF CInv
<1>6. Detects(tv[c], g)
  BY <1>5 DEF CInv, IInv, MatrixIsRight
<1>7. Detects(newTv[k], g)
  BY <1>5, <1>6, RefinedDetects
<1>8. ASSUME NEW v \in Vector, Refines(v, newTv[k])
      PROVE  Detects(v, f)
  <2>1. v \in Tests(g)
    BY <1>2, <1>3, <1>7, <1>8, RefinedDetects
  <2> QED
    BY <1>1, <1>2, <2>1
<1> QED
  BY <1>8

\* Unless the engine gave one up, neither reduction nor generation nor colouring
\* nor merging loses a fault.
THEOREM NoFaultIsLost == CompactionSpec => []EveryFaultDetected
<1>1. CInv => EveryFaultDetected
  BY MergedDetect DEF EveryFaultDetected
<1> QED
  BY <1>1, CompactionInvariance, PTL

\* In the composition the deletions of the reducer stay right.
THEOREM DeletionsStayRight == CompactionSpec => []DeletedIsImplied
<1>1. CInv => DeletedIsImplied
  BY DEF CInv
<1> QED
  BY <1>1, CompactionInvariance, PTL

\* Whatever list of tests coloring() is called with, reduce() loses no optimum.
THEOREM NoOptimumIsLostWithTests == CompactionSpec => []ReductionKeepsOptimum
<1>1. CompactionInit => OptimumStays
  BY DEF CompactionInit, ColoringOf, OptimumStays
<1>2. CInv /\ CInv' /\ OptimumStays /\ [CompactionNext]_compactionVars => OptimumStays'
  <2> SUFFICES ASSUME CInv, CInv', OptimumStays, [CompactionNext]_compactionVars
               PROVE  OptimumStays'
    OBVIOUS
  <2>1. CASE UNCHANGED minpatVars
    BY <2>1, OptimumStutter
  <2>2. CASE ExecOne
    BY <2>2 DEF ExecOne, OptimumStays
  <2>3. CASE Coloring
    <3>1. phase' = "matrix"
      BY <2>3 DEF Coloring, CInv, NothingToColour, ColoringOf
    <3> QED
      BY <3>1 DEF OptimumStays
  <2>4. CASE Colouring
    BY <2>4, OptimumStep DEF Colouring, CInv
  <2> QED
    BY <2>1, <2>2, <2>3, <2>4 DEF CompactionNext, Reduction, CallDtpg, compactionVars
<1>3. CInv /\ OptimumStays => ReductionKeepsOptimum
  BY OptimumIsKept DEF CInv, IInv
<1> QED
  BY <1>1, <1>2, <1>3, CompactionInvariance, PTL DEF CompactionSpec
=============================================================================
