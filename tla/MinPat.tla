------------------------------- MODULE MinPat -------------------------------
(***************************************************************************)
(* MinPatMgr::coloring(): a list of test vectors with X is made shorter.   *)
(* MatrixGen simulates which vector detects which fault, McMatrix (of an   *)
(* external library) and the conflict graph MpColGraph are reduced         *)
(* together, and groups of compatible vectors are then coloured until they *)
(* detect every fault.  The vectors of a colour are merged into one.       *)
(*                                                                         *)
(* Columns of the matrix and nodes of the graph are positions in tv.  What *)
(* fault simulation with three values reports is abstracted to cubes: a    *)
(* vector detects a fault if it agrees with all of one of its cubes.       *)
(***************************************************************************)
EXTENDS Integers, FiniteSetsExt, SequencesExt

CONSTANTS
  Bit,        \* the positions of a vector
  Row,        \* the faults that may be on the list
  PvBitLen    \* kPvBitLen

ASSUME PvBitLenAssumption == PvBitLen \in Nat \ {0}

VARIABLES
  tv,         \* tv_list
  cubes,      \* fault -> the cubes that detect it
  phase,      \* the loop that runs
  base,       \* tv_base of MatrixGen::generate()
  matrix,     \* the elements <<row, col>> of the matrix
  rows, cols, \* its active rows and columns
  lists,      \* mNodeListArray: <<bit, value>> -> the nodes with that value
  pending,    \* deleted_cols
  selected,   \* selected_cols
  group,      \* node_list of get_compatible_nodes()
  choices,    \* cand_list
  marked,     \* row_mark
  colorNum,   \* mColNum
  colorMap,   \* mColorMap
  newTv,      \* new_tv_list, the last entry being the vector under construction
  joined      \* the vectors merged into it so far

inputVars == <<tv, cubes>>
matrixVars == <<matrix, rows, cols>>
colourVars == <<colorNum, colorMap>>
groupVars == <<group, choices, marked>>
mergeVars == <<newTv, joined>>
minpatVars == <<inputVars, phase, base, matrixVars, lists, pending, selected, groupVars,
                colourVars, mergeVars>>

Node == DOMAIN tv
Value == {"0", "1"}
Opposite(v) == IF v = "0" THEN "1" ELSE "0"

-----------------------------------------------------------------------------
(* Vectors and cubes: functions from Bit to "0", "1" and "X".              *)

\* BitVectorRep::is_compat() and merge(), which changes nothing on a conflict.
IsCompat(u, v) == \A b \in Bit : u[b] = v[b] \/ u[b] = "X" \/ v[b] = "X"
MergedWith(u, v) ==
  IF IsCompat(u, v) THEN [b \in Bit |-> IF u[b] = "X" THEN v[b] ELSE u[b]] ELSE u

Refines(v, c) == \A b \in Bit : c[b] = "X" \/ v[b] = c[b]
Detects(v, f) == \E c \in cubes[f] : Refines(v, c)

-----------------------------------------------------------------------------
(* MpColGraph.                                                             *)

\* The bits that occur with both values: only their lists are kept up to date.
ConflictBits ==
  {b \in Bit : \A v \in Value : \E n \in Node : tv[n][b] = v}

\* gen_conflict_list(): the lists of a node (oid ^ 1) and those of the nodes it
\* conflicts with (mOidListArray).
OwnLists(n) == {o \in ConflictBits \X Value : tv[n][o[1]] = o[2]}
Oids(n) == {<<o[1], Opposite(o[2])>> : o \in OwnLists(n)}
GenConflictList == [o \in Bit \X Value |-> {n \in Node : tv[n][o[1]] = o[2]}]

\* compatible_check(), of two nodes and of a node with a list.
Compatible(m, n) == Oids(m) \cap OwnLists(n) = {}
CompatibleWith(n, S) == \A m \in S : Compatible(m, n)

\* get_conflict_list() and conflict_num().
ConflictList(n) == UNION {lists[o] : o \in Oids(n)}
ConflictNum(n) == Cardinality(ConflictList(n))

\* containment_check(): the lists that both have are left out, and with them
\* some nodes that do conflict with n2.
ContainmentCheck(n1, n2) ==
  \A o1 \in Oids(n1) \ Oids(n2) : \A m \in lists[o1] :
    \E o2 \in Oids(n2) \ Oids(n1) : m \in lists[o2]

\* delete_node(): of a list that does not have the node the last entry goes,
\* once the assertion is compiled out.
Erase(list, n) ==
  IF n \in list THEN list \ {n} ELSE {m \in list : \E k \in list : k > m}
DeleteNode_OtherValue(n) ==
  lists' = [o \in DOMAIN lists |-> IF o \in Oids(n) THEN Erase(lists[o], n) ELSE lists[o]]
DeleteNode(n) ==
  lists' = [o \in DOMAIN lists |-> IF o \in OwnLists(n) THEN Erase(lists[o], n) ELSE lists[o]]

-----------------------------------------------------------------------------
(* MatrixGen and McMatrix.                                                 *)

RowsOf(c) == {r \in rows : <<r, c>> \in matrix}
ColsOf(r) == {c \in cols : <<r, c>> \in matrix}

\* The columns of the block that do_fsim() is called with.
Block == {c \in Node : base < c /\ c <= base + PvBitLen}

\* The elements do_fsim() inserts for a block.  The rows are those of fault_list.
Elements_NoBase ==
  {<<e[1], e[2] - base>> : e \in {d \in rows \X Block : Detects(tv[d[2]], d[1])}}
Elements_Swapped == {<<e[2], e[1]>> : e \in {d \in rows \X Block : Detects(tv[d[2]], d[1])}}
Elements == {e \in rows \X Block : Detects(tv[e[2]], e[1])}

\* generate(): the next block of patterns.
GenerateMatrix ==
  /\ phase = "matrix"
  /\ matrix' = matrix \cup Elements
  /\ base' = base + PvBitLen
  /\ phase' = IF base' >= Len(tv) THEN "reduce" ELSE "matrix"
  /\ UNCHANGED <<inputVars, rows, cols, lists, pending, selected, groupVars, colourVars, mergeVars>>

\* McMatrix::reduce() does some of these steps, in an order of its own; which
\* it misses depends on marks (set_col_dirty()) that are left out.
SelectEssential ==
  /\ phase = "reduce"
  /\ \E c \in cols :
       /\ \E r \in rows : ColsOf(r) = {c}
       /\ selected' = selected \cup {c}
       /\ cols' = cols \ {c}
       /\ rows' = rows \ RowsOf(c)
  /\ UNCHANGED <<inputVars, phase, base, matrix, lists, pending, groupVars, colourVars, mergeVars>>

\* MpComp: col2 may stand for col1.
MpComp_Swapped(c1, c2) == ContainmentCheck(c1, c2)
MpComp(c1, c2) == ContainmentCheck(c2, c1)

\* Columns go from the matrix during a reduce(), and from the graph after it.
DeleteDominatedCol ==
  /\ phase = "reduce"
  /\ \E c1, c2 \in cols :
       /\ c1 # c2
       /\ RowsOf(c1) \subseteq RowsOf(c2)
       /\ MpComp(c1, c2)
       /\ cols' = cols \ {c1}
       /\ pending' = pending \cup {c1}
  /\ UNCHANGED <<inputVars, phase, base, matrix, rows, lists, selected, groupVars,
                 colourVars, mergeVars>>

DeleteDominatedRow ==
  /\ phase = "reduce"
  /\ \E r1, r2 \in rows :
       /\ r1 # r2
       /\ ColsOf(r1) \subseteq ColsOf(r2)
       /\ rows' = rows \ {r2}
  /\ UNCHANGED <<inputVars, phase, base, matrix, cols, lists, pending, selected, groupVars,
                 colourVars, mergeVars>>

\* reduce(): the loop over deleted_cols, one node each turn.
DeletePending_Keep(n) == DeleteNode(n) /\ UNCHANGED pending
DeletePending(n) == DeleteNode(n) /\ pending' = pending \ {n}
PropagateDeletion ==
  /\ phase \in {"reduce", "propagate"}
  /\ \E n \in pending : DeletePending(n)
  /\ phase' = IF pending' = {} THEN "reduce" ELSE "propagate"
  /\ UNCHANGED <<inputVars, base, matrixVars, selected, groupVars, colourVars, mergeVars>>

EndReduce ==
  /\ phase = "reduce" /\ pending = {}
  /\ phase' = "start"
  /\ UNCHANGED <<inputVars, base, matrixVars, lists, pending, selected, groupVars,
                 colourVars, mergeVars>>

-----------------------------------------------------------------------------
(* get_compatible_nodes().                                                 *)

Least(S, Key(_)) == {n \in S : \A m \in S : Key(n) <= Key(m)}

\* Begin with the selected node that has the fewest conflicts ...
StartWithSelected ==
  /\ phase = "start" /\ selected # {}
  /\ \E n \in Least(selected, ConflictNum) :
       /\ group' = {n}
       /\ choices' = {m \in selected \ {n} : Compatible(m, n)}
  /\ marked' = {}
  /\ phase' = "selected"
  /\ UNCHANGED <<inputVars, base, matrixVars, lists, pending, selected, colourVars, mergeVars>>

\* ... and add those compatible with the group, fewest conflicts among
\* themselves first (cnum_array).
ConflictsAmong(n) == Cardinality({m \in choices : ~Compatible(m, n)})
AddSelected ==
  /\ phase = "selected" /\ choices # {}
  /\ \E n \in Least(choices, ConflictsAmong) :
       /\ group' = group \cup {n}
       /\ choices' = {m \in choices \ {n} : Compatible(m, n)}
  /\ UNCHANGED <<inputVars, phase, base, matrixVars, lists, pending, selected, marked,
                 colourVars, mergeVars>>

\* The active columns that may still join: their rows are counted from the mark.
JoiningColumns(S) == {c \in cols \ S : CompatibleWith(c, S)}
OfferColumns ==
  /\ phase = "selected" /\ choices = {}
  /\ choices' = JoiningColumns(group)
  /\ phase' = "cover"
  /\ UNCHANGED <<inputVars, base, matrixVars, lists, pending, selected, group, marked,
                 colourVars, mergeVars>>

\* Without selected nodes: any column that covers a row (select_Simple() takes
\* the one with the largest weight, which is left out).
StartWithColumn ==
  /\ phase = "start" /\ selected = {} /\ rows # {}
  /\ \E c \in {d \in cols : RowsOf(d) # {}} :
       /\ group' = {c}
       /\ marked' = RowsOf(c)
       /\ choices' = JoiningColumns({c})
  /\ phase' = "cover"
  /\ UNCHANGED <<inputVars, base, matrixVars, lists, pending, selected, colourVars, mergeVars>>

\* The column with the most rows that the group does not cover yet.
NewRows(c) == RowsOf(c) \ marked
CompatibleChoices_All(n) == choices \ {n}
CompatibleChoices(n) == {m \in choices \ {n} : Compatible(m, n)}
AddColumn ==
  /\ phase = "cover"
  /\ \E c \in Least(choices, LAMBDA d : -Cardinality(NewRows(d))) :
       /\ NewRows(c) # {}
       /\ group' = group \cup {c}
       /\ marked' = marked \cup RowsOf(c)
       /\ choices' = CompatibleChoices(c)
  /\ UNCHANGED <<inputVars, phase, base, matrixVars, lists, pending, selected, colourVars, mergeVars>>

-----------------------------------------------------------------------------
(* heuristic1() and merge_tv_list().                                       *)

NewColor ==
  /\ phase = "cover"
  /\ \A c \in choices : NewRows(c) = {}
  /\ colorNum' = colorNum + 1
  /\ phase' = "colour"
  /\ UNCHANGED <<inputVars, base, matrixVars, lists, pending, selected, groupVars, colorMap,
                 mergeVars>>

\* set_color(), one node each turn.
SetColor ==
  /\ phase = "colour"
  /\ \E n \in {m \in group : colorMap[m] # colorNum} :
       /\ colorMap' = [colorMap EXCEPT ![n] = colorNum]
       /\ DeleteNode(n)
  /\ UNCHANGED <<inputVars, phase, base, matrixVars, pending, selected, groupVars, colorNum,
                 mergeVars>>

\* select_col() for the active columns of the group; the others are selected
\* already, and their rows gone.
UpdateMatrix ==
  /\ phase = "colour"
  /\ \A n \in group : colorMap[n] = colorNum
  /\ cols' = cols \ group
  /\ rows' = rows \ UNION {RowsOf(c) : c \in group \cap cols}
  /\ selected' = selected \ group
  /\ phase' = "start"
  /\ UNCHANGED <<inputVars, base, matrix, lists, pending, groupVars, colourVars, mergeVars>>

Coloured == {n \in Node : colorMap[n] # 0}

\* merge_tv_list(): the vectors of a colour are merged in the order of the
\* list, one each turn.
GroupOf(color) == {n \in Coloured : colorMap[n] = color}
Waiting == GroupOf(Len(newTv)) \ joined
FirstOf(S) == {n \in S : \A m \in S : n <= m}

BeginMerge ==
  /\ phase = "start" /\ selected = {} /\ rows = {}
  /\ phase' = "merge"
  /\ UNCHANGED mergeVars

BeginVector ==
  /\ phase = "merge" /\ Waiting = {} /\ Len(newTv) < colorNum
  /\ \E n \in FirstOf(GroupOf(Len(newTv) + 1)) :
       /\ newTv' = Append(newTv, tv[n])
       /\ joined' = {n}
  /\ UNCHANGED phase

MergeNext ==
  /\ phase = "merge"
  /\ \E n \in FirstOf(Waiting) :
       /\ newTv' = [newTv EXCEPT ![Len(newTv)] = MergedWith(newTv[Len(newTv)], tv[n])]
       /\ joined' = joined \cup {n}
  /\ UNCHANGED phase

EndMerge ==
  /\ phase = "merge" /\ Waiting = {} /\ Len(newTv) = colorNum
  /\ phase' = "merged"
  /\ UNCHANGED mergeVars

MergeTvList ==
  /\ BeginMerge \/ BeginVector \/ MergeNext \/ EndMerge
  /\ UNCHANGED <<inputVars, base, matrixVars, lists, pending, selected, groupVars, colourVars>>

-----------------------------------------------------------------------------
\* coloring() is called with a list of faults each of which some vector detects.
ColoringOf(faults) ==
  /\ phase = "matrix" /\ base = 0
  /\ matrix = {} /\ rows = faults /\ cols = Node
  /\ lists = GenConflictList
  /\ pending = {} /\ selected = {} /\ group = {} /\ choices = {} /\ marked = {}
  /\ colorNum = 0 /\ colorMap = [n \in Node |-> 0]
  /\ newTv = << >> /\ joined = {}

MinPatNext ==
  \/ GenerateMatrix
  \/ SelectEssential \/ DeleteDominatedCol \/ DeleteDominatedRow
  \/ PropagateDeletion \/ EndReduce
  \/ StartWithSelected \/ AddSelected \/ OfferColumns \/ StartWithColumn \/ AddColumn
  \/ NewColor \/ SetColor \/ UpdateMatrix \/ MergeTvList

Vec == [Bit -> {"0", "1", "X"}]
MinPatInit ==
  /\ tv \in Seq(Vec) /\ cubes \in [Row -> SUBSET Vec]
  /\ \E faults \in SUBSET Row :
       /\ \A f \in faults : \E n \in Node : Detects(tv[n], f)
       /\ ColoringOf(faults)

MinPatSpec == MinPatInit /\ [][MinPatNext]_minpatVars

-----------------------------------------------------------------------------
MergeTypeOK == newTv \in Seq(Vec) /\ Len(newTv) <= colorNum /\ joined \subseteq Node
MinPatTypeOK ==
  /\ base \in Nat
  /\ matrix \subseteq Row \X Node
  /\ rows \subseteq Row /\ cols \subseteq Node
  /\ lists \in [Bit \X Value -> SUBSET Node]
  /\ pending \subseteq Node /\ selected \subseteq Node
  /\ group \subseteq Node /\ choices \subseteq Node /\ marked \subseteq Row
  /\ colorNum \in Nat /\ colorMap \in [Node -> 0 .. colorNum]
  /\ MergeTypeOK

\* The matrix and the conflict graph speak of the same vectors: a list of the
\* graph holds the nodes with its value that are still columns or selected, so
\* that no node is deleted twice (the assertion MpColGraph.cc:97) and the
\* numbers of conflicts are those of the vectors that are left.
GraphFollowsMatrix ==
  \A o \in ConflictBits \X Value :
    lists[o] = {n \in ((cols \cup selected) \ Coloured) \cup pending : tv[n][o[1]] = o[2]}

\* Vectors of one colour are pairwise compatible (verify() of MpColGraph.h),
\* and every colour in use has a vector (the assertion MinPatMgr.cc:602).
ColoursAreGroups ==
  /\ \A m, n \in Coloured : colorMap[m] = colorMap[n] => Compatible(m, n)
  /\ phase = "merged" => \A c \in 1 .. colorNum : \E n \in Node : colorMap[n] = c

\* Every fault of the matrix is covered: by an active row that asks for no more
\* than it does, or by a vector selected or coloured.
RowsStayCovered ==
  \A e \in matrix :
    \/ \E c \in selected \cup Coloured : <<e[1], c>> \in matrix
    \/ \E r \in rows : ColsOf(r) # {} /\ \A c \in ColsOf(r) : <<e[1], c>> \in matrix

\* The merged vectors detect every fault that the list detects, although a
\* merge would drop a vector that conflicts without a word.
CoverageKept ==
  phase = "merged" =>
    \A e \in matrix : \E k \in DOMAIN newTv : Detects(newTv[k], e[1])

\* Reducing loses no optimum: the fewest colours that cover all rows with the
\* selected vectors and some of the columns left are as many as before.
Colourable(S, k) ==
  \E f \in [S -> 1 .. k] : \A m, n \in S : f[m] = f[n] => Compatible(m, n)
FewestColours(needed, among, R) ==
  Min({k \in 0 .. Len(tv) :
         \E S \in SUBSET among :
           /\ \A r \in R : \E c \in S : <<r, c>> \in matrix
           /\ Colourable(S \cup needed, k)})
ReductionKeepsOptimum ==
  phase = "start" /\ colorNum = 0 =>
    FewestColours(selected, cols, rows)
      = FewestColours({}, Node, {e[1] : e \in matrix})
=============================================================================
