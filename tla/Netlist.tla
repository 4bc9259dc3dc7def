------------------------------- MODULE Netlist ------------------------------
(***************************************************************************)
(* How FsimX::set_network() and the SnGate constructors derive the         *)
(* adjacency, the levels, the fanout-free regions and the size of the      *)
(* event queue from the fanins of the gates.  Every operator takes the     *)
(* fanin function it works on, so that a network can be built from it.     *)
(***************************************************************************)
EXTENDS Integers, Sequences, FiniteSets, SequencesExt

LOCAL Highest(S) == CHOOSE m \in S : \A k \in S : k <= m

\* The constructor of a gate: one more than the highest level of a fanin.
LevelOf(fanin) ==
  LET level[n \in DOMAIN fanin] ==
        IF fanin[n] = << >> THEN 0
        ELSE 1 + Highest({level[fanin[n][i]] : i \in DOMAIN fanin[n]})
  IN  level

\* The fanout list of each node, in the order in which set_network() meets
\* the edges: by gate, then by input position.  An edge is a pair <<gate, ipos>>.
EdgesFrom(fanin, m) ==
  LET edges == {e \in (DOMAIN fanin) \X (UNION {DOMAIN fanin[n] : n \in DOMAIN fanin}) :
                  /\ e[2] \in DOMAIN fanin[e[1]]
                  /\ fanin[e[1]][e[2]] = m}
  IN  SetToSortSeq(edges,
                   LAMBDA d, e : d[1] < e[1] \/ (d[1] = e[1] /\ d[2] < e[2]))

FanoutOf(fanin) ==
  [m \in DOMAIN fanin |->
     [i \in DOMAIN EdgesFrom(fanin, m) |-> EdgesFrom(fanin, m)[i][1]]]

\* fanout_ipos(): the input position of the last edge met (it is used only
\* where the fanout is single).
FanoutIposOf(fanin) ==
  [m \in DOMAIN fanin |->
     IF EdgesFrom(fanin, m) = << >> THEN 0 ELSE Last(EdgesFrom(fanin, m))[2]]

\* The nodes marked by set_ffr_root().
FfrRoots(fanin, output) ==
  {n \in DOMAIN fanin : n \in output \/ Len(EdgesFrom(fanin, n)) # 1}

\* ffr_root(): follow the single fanouts up to a marked node.
FfrRootOf(fanin, output) ==
  LET top == Highest(DOMAIN fanin)
      roots == FfrRoots(fanin, output)
      \* fanouts have greater ids: walk the nodes from the last to the first
      root[k \in 0..top] ==
        IF (top - k) \notin DOMAIN fanin \/ (top - k) \in roots THEN top - k
        ELSE root[top - EdgesFrom(fanin, top - k)[1][1]]
  IN  [n \in DOMAIN fanin |-> root[top - n]]

\* The argument of EventQ::init(): the highest level of mPPOArray, to which
\* the buffers of the DFF control terminals do not belong.
MaxLevelOf_LastOnly(fanin, ppo) == LevelOf(fanin)[Highest(ppo)]
MaxLevelOf(fanin, ppo) == Highest({0} \cup {LevelOf(fanin)[n] : n \in ppo})
=============================================================================
