---------------------------- MODULE CircuitProofs ----------------------------
(***************************************************************************)
(* The lemmas about the networks of the test generator: what the values,   *)
(* cones, regions and conditions of Circuit are, and when a fault shows.    *)
(*                                                                         *)
(* They are defined by recursive functions f[n \in S] == ... f[m] ...,     *)
(* which TLA+ defines as a CHOOSE of a solution of an equation.  The first *)
(* lemmas say, of functions and sets only, that such an equation has a     *)
(* solution, and no second one, when the argument decreases in a rank.     *)
(***************************************************************************)
EXTENDS Circuit, FiniteSetTheorems, WellFoundedInduction, TLAPS

-----------------------------------------------------------------------------
(* Recursion.                                                              *)

(* A set of natural numbers has a least element. *)
LEMMA NatLeast ==
  ASSUME NEW T, T \subseteq Nat, T # {}
  PROVE  \E x \in T : \A y \in T : x <= y
<1> DEFINE R == {r \in Nat \X Nat : r[1] < r[2]}
<1>1. IsWellFoundedOn(OpToRel(<, Nat), Nat)
  BY NatLessThanWellFounded
<1>2. OpToRel(<, Nat) = R
  BY DEF OpToRel
<1>3. IsWellFoundedOn(R, Nat)
  BY <1>1, <1>2
<1>4. PICK x \in T : \A y \in T : <<y, x>> \notin R
  <2> HIDE DEF R
  <2> QED BY <1>3, WFMin
<1>5. \A y \in T : ~ (y < x)
  BY <1>4
<1> QED BY <1>5

(* What holds of an element whenever it holds of all of lower rank holds of *)
(* every element.                                                           *)
LEMMA RankInduction ==
  ASSUME NEW S, NEW rank \in [S -> Nat], NEW T,
         \A n \in S : (\A m \in S : rank[m] < rank[n] => m \in T) => n \in T
  PROVE  S \subseteq T
<1> SUFFICES ASSUME NEW n0 \in S, n0 \notin T PROVE FALSE
  OBVIOUS
<1> DEFINE Bad == {rank[n] : n \in S \ T}
<1>1. Bad \subseteq Nat /\ Bad # {}
  OBVIOUS
<1>2. PICK x \in Bad : \A y \in Bad : x <= y
  <2> HIDE DEF Bad
  <2> QED BY <1>1, NatLeast
<1>3. PICK n \in S \ T : rank[n] = x
  BY <1>2
<1>4. ASSUME NEW m \in S, rank[m] < rank[n], m \notin T
      PROVE  FALSE
  <2>1. rank[m] \in Bad
    BY <1>4
  <2>2. x <= rank[m]
    <3> HIDE DEF Bad
    <3> QED BY <1>2, <2>1
  <2>3. rank[m] \in Nat /\ rank[n] \in Nat
    BY <1>3
  <2> QED BY <2>2, <2>3, <1>3, <1>4
<1> QED BY <1>3, <1>4

(* Two functions that agree on an element whenever they agree on all of     *)
(* lower rank are equal: a recursive definition has one solution at most.    *)
AgreeUpwards(f, g, S, rank) ==
  /\ rank \in [S -> Nat]
  /\ f = [n \in S |-> f[n]]
  /\ g = [n \in S |-> g[n]]
  /\ \A n \in S : (\A m \in S : rank[m] < rank[n] => f[m] = g[m]) => f[n] = g[n]

LEMMA RecursionUnique ==
  ASSUME NEW S, NEW rank, NEW f, NEW g, AgreeUpwards(f, g, S, rank)
  PROVE  f = g
<1> USE DEF AgreeUpwards
<1> DEFINE T == {n \in S : f[n] = g[n]}
<1>1. \A n \in S : (\A m \in S : rank[m] < rank[n] => m \in T) => n \in T
  OBVIOUS
<1>2. S \subseteq T
  <2> HIDE DEF T
  <2> QED BY <1>1, RankInduction
<1> QED BY <1>2

(* A function that maps approximations to better ones - its value at an     *)
(* element depends on lower elements only - has a fixed point.              *)
IsRecursion(G, S, V, rank) ==
  /\ rank \in [S -> Nat]
  /\ [S -> V] # {}
  /\ G \in [[S -> V] -> [S -> V]]
  /\ \A f, g \in [S -> V] : \A n \in S :
       (\A m \in S : rank[m] < rank[n] => f[m] = g[m]) => G[f][n] = G[g][n]

LEMMA RecursionExists ==
  ASSUME NEW S, NEW V, NEW rank, NEW G, IsRecursion(G, S, V, rank)
  PROVE  \E f \in [S -> V] : f = G[f]
<1> USE DEF IsRecursion
<1> DEFINE Good(k) == {f \in [S -> V] : \A n \in S : rank[n] < k => f[n] = G[f][n]}
<1>1. ASSUME NEW k \in Nat, Good(k) # {}
      PROVE  Good(k + 1) # {}
  <2>1. PICK f \in [S -> V] : \A n \in S : rank[n] < k => f[n] = G[f][n]
    BY <1>1
  <2>2. ASSUME NEW n \in S, rank[n] < k + 1
        PROVE  G[f][n] = G[G[f]][n]
    <3>1. \A m \in S : rank[m] < rank[n] => f[m] = G[f][m]
      BY <2>1, <2>2
    <3> QED BY <3>1
  <2>3. G[f] \in Good(k + 1)
    BY <2>2
  <2> QED BY <2>3
<1>2. \A k \in Nat : Good(k) # {}
  <2> DEFINE Empty == {k \in Nat : Good(k) = {}}
  <2>1. SUFFICES ASSUME Empty # {} PROVE FALSE
    <3> HIDE DEF Good
    <3> QED OBVIOUS
  <2>2. PICK k \in Empty : \A j \in Empty : k <= j
    <3>1. Empty \subseteq Nat
      OBVIOUS
    <3> HIDE DEF Empty
    <3> QED BY <2>1, <3>1, NatLeast
  <2>3. Good(0) # {}
    <3>1. PICK start \in [S -> V] : TRUE
      OBVIOUS
    <3>2. start \in Good(0)
      OBVIOUS
    <3> QED BY <3>2
  <2>4. k \in Nat /\ k # 0 /\ Good(k) = {}
    <3> HIDE DEF Good
    <3> QED BY <2>2, <2>3
  <2>5. k - 1 \in Nat /\ ~ (k <= k - 1)
    BY <2>4
  <2>6. Good(k - 1) # {}
    <3> HIDE DEF Good
    <3> QED BY <2>2, <2>5
  <2>7. Good((k - 1) + 1) # {}
    <3> HIDE DEF Good
    <3> QED BY <1>1, <2>5, <2>6
  <2>8. (k - 1) + 1 = k
    BY <2>4
  <2> HIDE DEF Good
  <2> QED BY <2>4, <2>7, <2>8
<1>3. ASSUME NEW k \in Nat, NEW j \in Nat, NEW f \in Good(k), NEW g \in Good(j)
      PROVE  \A n \in S : rank[n] < k /\ rank[n] < j => f[n] = g[n]
  <2> DEFINE T == {n \in S : rank[n] < k /\ rank[n] < j => f[n] = g[n]}
  <2>1. ASSUME NEW n \in S, \A m \in S : rank[m] < rank[n] => m \in T
        PROVE  n \in T
    <3>1. SUFFICES ASSUME rank[n] < k, rank[n] < j PROVE f[n] = g[n]
      OBVIOUS
    <3>2. \A m \in S : rank[m] < rank[n] => f[m] = g[m]
      BY <2>1, <3>1
    <3>3. f \in [S -> V] /\ g \in [S -> V]
      OBVIOUS
    <3>4. G[f][n] = G[g][n]
      BY <3>2, <3>3
    <3> QED BY <3>1, <3>4
  <2>2. S \subseteq T
    <3> HIDE DEF T
    <3> QED BY <2>1, RankInduction
  <2> QED BY <2>2
<1> DEFINE best(n) == CHOOSE f : f \in Good(rank[n] + 1)
           F == [n \in S |-> best(n)[n]]
<1>4. \A n \in S : best(n) \in Good(rank[n] + 1)
  <2> HIDE DEF Good
  <2> QED BY <1>2
<1>5. \A n \in S : best(n) \in [S -> V] /\ best(n)[n] = G[best(n)][n]
  <2> HIDE DEF best
  <2> QED BY <1>4
<1>6. F \in [S -> V]
  <2> HIDE DEF best
  <2> QED BY <1>5
<1>7. ASSUME NEW n \in S
      PROVE  F[n] = G[F][n]
  <2>1. ASSUME NEW m \in S, rank[m] < rank[n] PROVE F[m] = best(n)[m]
    <3>1. best(m)[m] = best(n)[m]
      <4>1. rank[m] < rank[m] + 1 /\ rank[m] < rank[n] + 1
        BY <2>1
      <4>2. rank[m] + 1 \in Nat /\ rank[n] + 1 \in Nat
        OBVIOUS
      <4> HIDE DEF Good, best
      <4> QED BY <1>3, <1>4, <4>1, <4>2
    <3> QED BY <3>1
  <2>2. G[F][n] = G[best(n)][n]
    <3> HIDE DEF F, best, Good
    <3> QED BY <2>1, <1>5, <1>6
  <2>3. F[n] = best(n)[n]
    OBVIOUS
  <2> HIDE DEF F, best, Good
  <2> QED BY <2>2, <2>3, <1>5
<1>8. F = G[F]
  <2>1. G[F] \in [S -> V]
    <3> HIDE DEF F, best, Good
    <3> QED BY <1>6
  <2> HIDE DEF F, best, Good
  <2> QED BY <1>6, <1>7, <2>1
<1> HIDE DEF F, best, Good
<1> QED BY <1>6, <1>8

\* Induction and recursion over 0 .. n.
LEMMA InductionTo ==
  ASSUME NEW n \in Nat, NEW T, 0 \in T, \A i \in 1 .. n : i - 1 \in T => i \in T
  PROVE  0 .. n \subseteq T
<1> DEFINE rank == [i \in 0 .. n |-> i]
<1>1. ASSUME NEW i \in 0 .. n, \A j \in 0 .. n : rank[j] < rank[i] => j \in T
      PROVE  i \in T
  <2>1. CASE i = 0
    BY <2>1
  <2>2. CASE i # 0
    <3>1. i \in 1 .. n /\ i - 1 \in 0 .. n /\ rank[i - 1] < rank[i]
      BY <2>2
    <3> QED BY <1>1, <3>1
  <2> QED BY <2>1, <2>2
<1>2. rank \in [0 .. n -> Nat]
  OBVIOUS
<1> DEFINE D == 0 .. n
<1>3. \A i \in D : (\A j \in D : rank[j] < rank[i] => j \in T) => i \in T
  BY <1>1
<1>4. rank \in [D -> Nat]
  BY <1>2
<1> HIDE DEF rank, D
<1>5. D \subseteq T
  BY <1>3, <1>4, RankInduction
<1> QED BY <1>5 DEF D

StepsIn(n, A, start, step) ==
  n \in Nat /\ start \in A /\ \A i \in 1 .. n, a \in A : step[i][a] \in A
Steps(n, start, step, g) == [i \in 0 .. n |-> IF i = 0 THEN start ELSE step[i][g[i - 1]]]

LEMMA RecursionTo ==
  ASSUME NEW n, NEW A, NEW start, NEW step, StepsIn(n, A, start, step)
  PROVE  \E g \in [0 .. n -> A] : g = Steps(n, start, step, g)
<1> USE DEF StepsIn, Steps
<1> DEFINE E(g) == [i \in 0 .. n |-> IF i = 0 THEN start ELSE step[i][g[i - 1]]]
           G == [g \in [0 .. n -> A] |-> E(g)]
           rank == [i \in 0 .. n |-> i]
<1>1. IsRecursion(G, 0 .. n, A, rank)
  <2>1. rank \in [0 .. n -> Nat] /\ [0 .. n -> A] # {}
    <3>1. rank \in [0 .. n -> Nat]
      OBVIOUS
    <3>2. [i \in 0 .. n |-> start] \in [0 .. n -> A]
      OBVIOUS
    <3> HIDE DEF rank
    <3> QED BY <3>1, <3>2
  <2>2. \A g \in [0 .. n -> A] : E(g) \in [0 .. n -> A]
    <3> SUFFICES ASSUME NEW g \in [0 .. n -> A], NEW i \in 1 .. n PROVE step[i][g[i - 1]] \in A
      OBVIOUS
    <3>1. g[i - 1] \in A
      <4>1. i - 1 \in 0 .. n
        OBVIOUS
      <4> QED BY <4>1
    <3> QED BY <3>1
  <2>3. ASSUME NEW g \in [0 .. n -> A], NEW h \in [0 .. n -> A], NEW i \in 0 .. n,
               \A j \in 0 .. n : rank[j] < rank[i] => g[j] = h[j]
        PROVE  G[g][i] = G[h][i]
    <3>1. i # 0 => i - 1 \in 0 .. n /\ rank[i - 1] < rank[i]
      OBVIOUS
    <3> QED BY <2>3, <3>1
  <2>4. G \in [[0 .. n -> A] -> [0 .. n -> A]]
    BY <2>2
  <2> HIDE DEF G, rank
  <2> QED BY <2>1, <2>3, <2>4 DEF IsRecursion
<1>2. PICK g \in [0 .. n -> A] : g = G[g]
  <2> HIDE DEF G
  <2> QED BY <1>1, RecursionExists
<1> QED BY <1>2

\* Over the nodes of a network, from the first to the last or the other way.
LEMMA UpInduction ==
  ASSUME NEW n \in Nat, NEW T,
         \A i \in 1 .. n : (\A j \in 1 .. n : j < i => j \in T) => i \in T
  PROVE  1 .. n \subseteq T
<1> DEFINE D == 1 .. n
           rank == [i \in D |-> i]
<1>1. \A i \in D : (\A j \in D : rank[j] < rank[i] => j \in T) => i \in T
  OBVIOUS
<1>2. rank \in [D -> Nat]
  OBVIOUS
<1> HIDE DEF rank, D
<1>3. D \subseteq T
  BY <1>1, <1>2, RankInduction
<1> QED BY <1>3 DEF D

LEMMA DownInduction ==
  ASSUME NEW n \in Nat, NEW T,
         \A i \in 1 .. n : (\A j \in 1 .. n : i < j => j \in T) => i \in T
  PROVE  1 .. n \subseteq T
<1> DEFINE D == 1 .. n
           rank == [i \in D |-> n - i]
<1>1. \A i \in D : (\A j \in D : rank[j] < rank[i] => j \in T) => i \in T
  <2> SUFFICES ASSUME NEW i \in D, \A j \in D : rank[j] < rank[i] => j \in T PROVE i \in T
    OBVIOUS
  <2>1. \A j \in D : i < j => rank[j] < rank[i]
    OBVIOUS
  <2> HIDE DEF rank
  <2> QED BY <2>1
<1>2. rank \in [D -> Nat]
  OBVIOUS
<1> HIDE DEF rank, D
<1>3. D \subseteq T
  BY <1>1, <1>2, RankInduction
<1> QED BY <1>3 DEF D

UpDependent(n, D, V, G) ==
  /\ n \in Nat /\ D = 1 .. n
  /\ [D -> V] # {} /\ G \in [[D -> V] -> [D -> V]]
  /\ \A f, g \in [D -> V] : \A i \in D :
       (\A j \in D : j < i => f[j] = g[j]) => G[f][i] = G[g][i]
DownDependent(n, D, V, G) ==
  /\ n \in Nat /\ D = 1 .. n
  /\ [D -> V] # {} /\ G \in [[D -> V] -> [D -> V]]
  /\ \A f, g \in [D -> V] : \A i \in D :
       (\A j \in D : i < j => f[j] = g[j]) => G[f][i] = G[g][i]

LEMMA UpRecursion ==
  ASSUME NEW n, NEW D, NEW V, NEW G, UpDependent(n, D, V, G)
  PROVE  \E f \in [D -> V] : f = G[f]
<1>0. n \in Nat /\ D = 1 .. n
  BY DEF UpDependent
<1> DEFINE rank == [i \in D |-> i]
<1>1. rank \in [D -> Nat]
  BY <1>0
<1>2. \A i, j \in D : rank[j] < rank[i] <=> j < i
  BY <1>0
<1> HIDE DEF rank
<1>3. [D -> V] # {} /\ G \in [[D -> V] -> [D -> V]]
  BY DEF UpDependent
<1>5. \A f, g \in [D -> V] : \A i \in D : (\A j \in D : j < i => f[j] = g[j]) => G[f][i] = G[g][i]
  BY Zenon DEF UpDependent
<1>4. IsRecursion(G, D, V, rank)
  <2> SUFFICES ASSUME NEW f \in [D -> V], NEW g \in [D -> V], NEW i \in D,
                      \A j \in D : rank[j] < rank[i] => f[j] = g[j]
               PROVE  G[f][i] = G[g][i]
    BY <1>1, <1>3 DEF IsRecursion
  <2>1. \A j \in D : j < i => f[j] = g[j]
    BY <1>2
  <2> QED BY Zenon, <2>1, <1>5
<1> HIDE DEF IsRecursion
<1>6. \A H, S, W, r : IsRecursion(H, S, W, r) => \E f \in [S -> W] : f = H[f]
  BY RecursionExists
<1> QED BY <1>4, <1>6

LEMMA DownRecursion ==
  ASSUME NEW n, NEW D, NEW V, NEW G, DownDependent(n, D, V, G)
  PROVE  \E f \in [D -> V] : f = G[f]
<1>0. n \in Nat /\ D = 1 .. n
  BY DEF DownDependent
<1> DEFINE rank == [i \in D |-> n - i]
<1>1. rank \in [D -> Nat]
  BY <1>0
<1>2. \A i, j \in D : rank[j] < rank[i] <=> i < j
  BY <1>0
<1> HIDE DEF rank
<1>3. [D -> V] # {} /\ G \in [[D -> V] -> [D -> V]]
  BY DEF DownDependent
<1>5. \A f, g \in [D -> V] : \A i \in D : (\A j \in D : i < j => f[j] = g[j]) => G[f][i] = G[g][i]
  BY Zenon DEF DownDependent
<1>4. IsRecursion(G, D, V, rank)
  <2> SUFFICES ASSUME NEW f \in [D -> V], NEW g \in [D -> V], NEW i \in D,
                      \A j \in D : rank[j] < rank[i] => f[j] = g[j]
               PROVE  G[f][i] = G[g][i]
    BY <1>1, <1>3 DEF IsRecursion
  <2>1. \A j \in D : i < j => f[j] = g[j]
    BY <1>2
  <2> QED BY Zenon, <2>1, <1>5
<1> HIDE DEF IsRecursion
<1>6. \A H, S, W, r : IsRecursion(H, S, W, r) => \E f \in [S -> W] : f = H[f]
  BY RecursionExists
<1> QED BY <1>4, <1>6

-----------------------------------------------------------------------------
(* The network.                                                            *)

Bin == {"0", "1"}
Nodes == DOMAIN Gate
Proper == ProperNetwork(Gate, Fanout)

LEMMA NodesAre ==
  ASSUME Proper
  PROVE  Len(Gate) \in Nat /\ Nodes = 1 .. Len(Gate)
  BY DEF Proper, ProperNetwork, Nodes

LEMMA FaninFacts ==
  ASSUME Proper, NEW n \in Nodes
  PROVE  /\ n \in Nat /\ Gate[n].type \in NodeTypes
         /\ Len(Gate[n].fanin) \in Nat /\ DOMAIN Gate[n].fanin = 1 .. Len(Gate[n].fanin)
         /\ \A k \in DOMAIN Gate[n].fanin : Gate[n].fanin[k] \in Nodes /\ Gate[n].fanin[k] < n
         /\ Gate[n].type \in NoFanin => DOMAIN Gate[n].fanin = {}
         /\ Gate[n].type \notin NoFanin => 1 \in DOMAIN Gate[n].fanin
         /\ Gate[n].type \in OneFanin => DOMAIN Gate[n].fanin = {1}
<1>1. /\ Gate[n].fanin \in Seq(1 .. n - 1) /\ n \in 1 .. Len(Gate) /\ Len(Gate) \in Nat
      /\ Gate[n].type \in NodeTypes
      /\ Gate[n].type \in NoFanin => Gate[n].fanin = << >>
      /\ Gate[n].type \in OneFanin => Len(Gate[n].fanin) = 1
      /\ Gate[n].type \notin NoFanin => Gate[n].fanin # << >>
  BY NodesAre DEF Proper, ProperNetwork, Nodes
<1>2. Len(Gate[n].fanin) \in Nat /\ DOMAIN Gate[n].fanin = 1 .. Len(Gate[n].fanin)
  BY <1>1
<1>3. \A k \in DOMAIN Gate[n].fanin : Gate[n].fanin[k] \in 1 .. n - 1
  BY <1>1
<1>4. Gate[n].fanin # << >> => 1 \in DOMAIN Gate[n].fanin
  BY <1>1
<1>5. \A k \in DOMAIN Gate[n].fanin : Gate[n].fanin[k] \in Nodes /\ Gate[n].fanin[k] < n
  BY <1>1, <1>3, NodesAre
<1>6. Gate[n].fanin = << >> => DOMAIN Gate[n].fanin = {}
  BY <1>2
<1>7. Len(Gate[n].fanin) = 1 => DOMAIN Gate[n].fanin = {1}
  BY <1>2
<1> QED BY <1>1, <1>2, <1>4, <1>5, <1>6, <1>7

LEMMA FanoutFacts ==
  ASSUME Proper, NEW n \in Nodes
  PROVE  /\ Len(Fanout[n]) \in Nat /\ DOMAIN Fanout[n] = 1 .. Len(Fanout[n])
         /\ \A k \in DOMAIN Fanout[n] : Fanout[n][k] \in Nodes
         /\ n \in PPOs => DOMAIN Fanout[n] = {} /\ Len(Fanout[n]) = 0
         /\ FanoutSet(n) \subseteq Nodes
         /\ \A o \in Nodes : o \in FanoutSet(n) <=> n \in FaninSet(o)
         /\ \A o \in FanoutSet(n) : n < o
<1>1. Fanout[n] \in Seq(Nodes) /\ (Gate[n].type \in PpoTypes => Fanout[n] = << >>)
  BY DEF Proper, ProperNetwork, Nodes
<1>2. Len(Fanout[n]) \in Nat /\ DOMAIN Fanout[n] = 1 .. Len(Fanout[n])
      /\ \A k \in DOMAIN Fanout[n] : Fanout[n][k] \in Nodes
  BY <1>1
<1>3. \A o \in Nodes : o \in FanoutSet(n) <=> n \in FaninSet(o)
  <2>1. \A m, o \in Nodes : (\E k \in DOMAIN Fanout[m] : Fanout[m][k] = o)
                            <=> (\E k \in DOMAIN Gate[o].fanin : Gate[o].fanin[k] = m)
    BY Zenon DEF Proper, ProperNetwork, Nodes
  <2> QED BY <2>1 DEF FanoutSet, FaninSet
<1>4. FanoutSet(n) \subseteq Nodes
  BY <1>2 DEF FanoutSet
<1>5. \A o \in FanoutSet(n) : n < o
  BY <1>3, <1>4, FaninFacts DEF FaninSet
<1>6. n \in PPOs => Fanout[n] = << >>
  BY <1>1 DEF PPOs
<1> QED BY <1>2, <1>3, <1>4, <1>5, <1>6

-----------------------------------------------------------------------------
(* The values of the nodes.                                                *)

LEMMA BinFacts ==
  /\ \A u \in Bin : Complement(u) \in Bin /\ Complement(u) # u /\ Complement(Complement(u)) = u
  /\ \A u, v \in Bin : u # v => v = Complement(u)
  BY DEF Bin, Complement

LEMMA OutputType ==
  ASSUME Proper, NEW n \in Nodes, Gate[n].type \notin PpiTypes,
         NEW ins \in [DOMAIN Gate[n].fanin -> Bin]
  PROVE  Output(Gate[n].type, ins) \in Bin
<1>1. Gate[n].type \in NoFanin => Gate[n].type \in {"Const0", "Const1"}
  BY DEF NoFanin
<1>2. Gate[n].type \notin NoFanin => ins[1] \in Bin
  BY FaninFacts
<1>3. AndOf(ins) \in Bin /\ OrOf(ins) \in Bin /\ XorOf(ins) \in Bin
  BY DEF AndOf, OrOf, XorOf, Some, Bin
<1>4. Gate[n].type \notin NoFanin => GateFunction(Gate[n].type, ins) \in Bin
  BY <1>2, <1>3, BinFacts DEF GateFunction
<1>5. CASE Gate[n].type \in NoFanin
  <2>1. Output(Gate[n].type, ins) \in {"0", "1"}
    <3>1. \A t : t = "Const0" => Output(t, ins) = "0"
      BY DEF Output, GateTypes
    <3>2. \A t : t = "Const1" => Output(t, ins) = "1"
      BY DEF Output, GateTypes
    <3> QED BY <1>1, <1>5, <3>1, <3>2
  <2> QED BY <2>1 DEF Bin
<1>6. CASE Gate[n].type \notin NoFanin
  <2>1. Gate[n].type # "Const0" /\ Gate[n].type # "Const1"
    BY <1>6 DEF NoFanin
  <2>2. Output(Gate[n].type, ins) = IF Gate[n].type \in GateTypes THEN GateFunction(Gate[n].type, ins) ELSE ins[1]
    BY <2>1 DEF Output
  <2> QED BY <1>2, <1>4, <1>6, <2>2
<1> QED BY <1>5, <1>6

\* What ValuesUnder() computes for a node from the values v of all nodes.
FaninValues(f, n, v) ==
  [k \in DOMAIN Gate[n].fanin |-> IF f.node = n /\ f.pos = k THEN f.val ELSE v[Gate[n].fanin[k]]]
NodeValue(in, f, n, v) ==
  IF f.node = n /\ f.pos = 0 THEN f.val
  ELSE IF Gate[n].type \in PpiTypes THEN in[n]
  ELSE Output(Gate[n].type, FaninValues(f, n, v))

LEMMA NodeValueDepends ==
  ASSUME NEW in, NEW f, NEW n, NEW u, NEW v, \A m \in FaninSet(n) : u[m] = v[m]
  PROVE  NodeValue(in, f, n, u) = NodeValue(in, f, n, v)
<1>1. FaninValues(f, n, u) = FaninValues(f, n, v)
  BY DEF FaninValues, FaninSet
<1> QED BY <1>1 DEF NodeValue

LEMMA NodeValueType ==
  ASSUME Proper, NEW in \in [PPIs -> Bin], NEW f, f.val \in Bin, NEW n \in Nodes,
         NEW v, \A m \in FaninSet(n) : v[m] \in Bin
  PROVE  NodeValue(in, f, n, v) \in Bin
<1>1. FaninValues(f, n, v) \in [DOMAIN Gate[n].fanin -> Bin]
  BY DEF FaninValues, FaninSet
<1>2. Gate[n].type \in PpiTypes => in[n] \in Bin
  BY DEF PPIs, Nodes
<1> QED BY <1>1, <1>2, OutputType DEF NodeValue

Evaluation(in, f, v) ==
  v \in [Nodes -> Bin] /\ \A n \in Nodes : v[n] = NodeValue(in, f, n, v)

LEMMA EvaluationExists ==
  ASSUME Proper, NEW in \in [PPIs -> Bin], NEW f, f.val \in Bin
  PROVE  \E v : Evaluation(in, f, v)
<1> DEFINE G == [v \in [Nodes -> Bin] |-> [n \in Nodes |-> NodeValue(in, f, n, v)]]
<1>1. \A n \in Nodes : FaninSet(n) \subseteq {m \in Nodes : m < n}
  BY FaninFacts DEF FaninSet
<1>2. G \in [[Nodes -> Bin] -> [Nodes -> Bin]]
  <2>1. \A v \in [Nodes -> Bin] : \A n \in Nodes : NodeValue(in, f, n, v) \in Bin
    BY <1>1, NodeValueType
  <2> QED BY <2>1
<1>3. [Nodes -> Bin] # {}
  <2>1. [n \in Nodes |-> "0"] \in [Nodes -> Bin]
    BY DEF Bin
  <2> QED BY <2>1
<1>4. ASSUME NEW u \in [Nodes -> Bin], NEW v \in [Nodes -> Bin], NEW n \in Nodes,
             \A m \in Nodes : m < n => u[m] = v[m]
      PROVE  G[u][n] = G[v][n]
  <2>1. NodeValue(in, f, n, u) = NodeValue(in, f, n, v)
    BY <1>1, <1>4, NodeValueDepends
  <2> QED BY <2>1
<1>5. UpDependent(Len(Gate), Nodes, Bin, G)
  <2> HIDE DEF G
  <2>1. \A u, v \in [Nodes -> Bin] : \A n \in Nodes :
          (\A m \in Nodes : m < n => u[m] = v[m]) => G[u][n] = G[v][n]
    BY <1>4
  <2> QED BY <1>2, <1>3, <2>1, NodesAre DEF UpDependent
<1>6. PICK v \in [Nodes -> Bin] : v = G[v]
  <2> HIDE DEF G
  <2> QED BY <1>5, UpRecursion
<1>7. \A n \in Nodes : v[n] = NodeValue(in, f, n, v)
  BY <1>6
<1> QED BY <1>6, <1>7 DEF Evaluation

LEMMA EvaluationUnique ==
  ASSUME Proper, NEW in, NEW f, NEW u, NEW v, Evaluation(in, f, u), Evaluation(in, f, v)
  PROVE  u = v
<1> DEFINE T == {n \in Nodes : u[n] = v[n]}
<1>1. ASSUME NEW n \in Nodes, \A m \in Nodes : m < n => m \in T PROVE n \in T
  <2>1. \A m \in FaninSet(n) : u[m] = v[m]
    BY <1>1, FaninFacts DEF FaninSet
  <2>2. NodeValue(in, f, n, u) = NodeValue(in, f, n, v)
    BY <2>1, NodeValueDepends
  <2> QED BY <2>2 DEF Evaluation
<1>2. Nodes \subseteq T
  <2> HIDE DEF T
  <2> QED BY <1>1, NodesAre, UpInduction
<1> QED BY <1>2 DEF Evaluation

\* The recursion of ValuesUnder(): the values of the nodes up to each one.
Prefixes(in, f, g) ==
  [n \in 0 .. Len(Gate) |-> IF n = 0 THEN << >> ELSE Append(g[n - 1], NodeValue(in, f, n, g[n - 1]))]

LEMMA ValuesUnderIs ==
  ASSUME NEW in, NEW f
  PROVE  ValuesUnder(in, f) = (CHOOSE g : g = Prefixes(in, f, g))[Len(Gate)]
  BY Zenon DEF ValuesUnder, Prefixes, NodeValue, FaninValues

LEMMA PrefixExtends ==
  ASSUME NEW v, NEW k \in Nat \ {0}, NEW x, x = v[k]
  PROVE  Append([i \in 1 .. k - 1 |-> v[i]], x) = [i \in 1 .. k |-> v[i]]
<1> DEFINE W == {v[i] : i \in 1 .. k}
           p == [i \in 1 .. k - 1 |-> v[i]]
           q == [i \in 1 .. k |-> v[i]]
<1>1. p \in [1 .. k - 1 -> W] /\ q \in [1 .. k -> W] /\ x \in W
  OBVIOUS
<1>2. k - 1 \in Nat /\ k \in Nat
  OBVIOUS
<1>3. p \in Seq(W) /\ Len(p) = k - 1 /\ q \in Seq(W) /\ Len(q) = k
  <2> HIDE DEF p, q, W
  <2> QED BY <1>1, <1>2
<1>4. /\ \A i \in 1 .. k - 1 : p[i] = v[i]
      /\ \A i \in 1 .. k : q[i] = v[i]
  OBVIOUS
<1>5. Append(p, x) = q
  <2> HIDE DEF p, q, W
  <2>1. Append(p, x) \in Seq(W) /\ Len(Append(p, x)) = k
    BY <1>1, <1>2, <1>3
  <2>2. \A i \in 1 .. k : Append(p, x)[i] = q[i]
    BY <1>1, <1>2, <1>3, <1>4
  <2> QED BY <1>3, <2>1, <2>2
<1> QED BY <1>5

(* ValuesUnder() evaluates the network: it is the one solution. *)
LEMMA ValuesSolve ==
  ASSUME Proper, NEW in \in [PPIs -> Bin], NEW f, f.val \in Bin
  PROVE  Evaluation(in, f, ValuesUnder(in, f))
<1> DEFINE N == Len(Gate)
<1>1. N \in Nat /\ Nodes = 1 .. N
  BY NodesAre
<1>2. PICK v : Evaluation(in, f, v)
  BY EvaluationExists
<1> DEFINE P(k) == [i \in 1 .. k |-> v[i]]
           p == [k \in 0 .. N |-> P(k)]
<1>3. ASSUME NEW k \in 1 .. N PROVE Append(P(k - 1), NodeValue(in, f, k, P(k - 1))) = P(k)
  <2>1. k \in Nodes /\ k \in Nat \ {0}
    BY <1>1
  <2>2. \A m \in FaninSet(k) : m \in 1 .. k - 1
    BY <1>1, <2>1, FaninFacts DEF FaninSet
  <2>3. \A m \in FaninSet(k) : P(k - 1)[m] = v[m]
    BY <2>2
  <2>4. NodeValue(in, f, k, P(k - 1)) = v[k]
    <3> HIDE DEF P
    <3>1. NodeValue(in, f, k, P(k - 1)) = NodeValue(in, f, k, v)
      BY <2>3, NodeValueDepends
    <3> QED BY <2>1, <3>1, <1>2 DEF Evaluation
  <2> QED BY <2>1, <2>4, PrefixExtends
<1>4. p = Prefixes(in, f, p)
  <2>1. ASSUME NEW k \in 0 .. N
        PROVE  p[k] = IF k = 0 THEN << >> ELSE Append(p[k - 1], NodeValue(in, f, k, p[k - 1]))
    <3>1. CASE k = 0
      <4>1. P(0) = << >>
        OBVIOUS
      <4> QED BY <3>1, <4>1
    <3>2. CASE k # 0
      <4>1. k \in 1 .. N /\ k - 1 \in 0 .. N
        BY <3>2, <1>1
      <4>2. p[k] = P(k) /\ p[k - 1] = P(k - 1)
        BY <4>1
      <4> HIDE DEF p, P
      <4> QED BY <3>2, <4>1, <4>2, <1>3
    <3> QED BY <3>1, <3>2
  <2> DEFINE q == Prefixes(in, f, p)
  <2>2. q = [k \in 0 .. N |-> IF k = 0 THEN << >> ELSE Append(p[k - 1], NodeValue(in, f, k, p[k - 1]))]
    BY DEF Prefixes
  <2> HIDE DEF q
  <2>3. \A k \in 0 .. N : p[k] = q[k]
    <3> HIDE DEF p
    <3> QED BY <2>1, <2>2
  <2>4. p = [k \in 0 .. N |-> p[k]]
    OBVIOUS
  <2>5. q = [k \in 0 .. N |-> q[k]]
    <3> HIDE DEF p
    <3> QED BY <2>2
  <2> HIDE DEF p
  <2>6. p = q
    BY <2>3, <2>4, <2>5
  <2> QED BY <2>6 DEF q
<1> DEFINE s == CHOOSE g : g = Prefixes(in, f, g)
<1>5. s = Prefixes(in, f, s)
  <2> HIDE DEF p
  <2> QED BY <1>4
<1> DEFINE T == {k \in 0 .. N : s[k] = p[k]}
<1>6. 0 .. N \subseteq T
  <2> HIDE DEF s, p
  <2>1. \A g : g = Prefixes(in, f, g) =>
          /\ g[0] = << >>
          /\ \A k \in 1 .. N : g[k] = Append(g[k - 1], NodeValue(in, f, k, g[k - 1]))
    <3> SUFFICES ASSUME NEW g, g = Prefixes(in, f, g)
                 PROVE  /\ g[0] = << >>
                        /\ \A k \in 1 .. N : g[k] = Append(g[k - 1], NodeValue(in, f, k, g[k - 1]))
      OBVIOUS
    <3>1. \A k \in 0 .. N : g[k] = IF k = 0 THEN << >> ELSE Append(g[k - 1], NodeValue(in, f, k, g[k - 1]))
      BY DEF Prefixes
    <3>2. 0 \in 0 .. N /\ \A k \in 1 .. N : k \in 0 .. N /\ k # 0
      BY <1>1
    <3> QED BY <3>1, <3>2
  <2>2. 0 \in T /\ \A k \in 1 .. N : k - 1 \in T => k \in T
    <3>1. 0 \in 0 .. N /\ \A k \in 1 .. N : k \in 0 .. N
      BY <1>1
    <3> QED BY <3>1, <2>1, <1>4, <1>5
  <2> HIDE DEF T
  <2> QED BY <2>2, <1>1, InductionTo
<1>7. s[N] = P(N)
  <2>1. N \in 0 .. N
    BY <1>1
  <2>2. p[N] = P(N)
    BY <2>1
  <2> HIDE DEF s, p
  <2> QED BY <2>1, <2>2, <1>6
<1>8. P(N) = v
  BY <1>1, <1>2 DEF Evaluation
<1>9. ValuesUnder(in, f) = v
  <2> HIDE DEF P
  <2> QED BY <1>7, <1>8, ValuesUnderIs
<1> HIDE DEF P, p, s
<1> QED BY <1>2, <1>9

-----------------------------------------------------------------------------
(* A difference at one fanin of a gate.                                    *)

\* ins and ins2 are values of the fanins of node n that differ at fanin k only.
DifferAt(n, k, ins, ins2) ==
  /\ k \in DOMAIN Gate[n].fanin
  /\ ins \in [DOMAIN Gate[n].fanin -> Bin] /\ ins2 \in [DOMAIN Gate[n].fanin -> Bin]
  /\ ins2[k] # ins[k]
  /\ \A j \in DOMAIN Gate[n].fanin : j # k => ins2[j] = ins[j]
SidesOpen(n, k, ins) ==
  Nval(n) # "X" => \A j \in DOMAIN Gate[n].fanin : j # k => ins[j] = Nval(n)

LEMMA GateCases ==
  ASSUME Proper, NEW n \in Nodes, DOMAIN Gate[n].fanin # {}
  PROVE  \/ Gate[n].type \in {"And", "Nand"} /\ Nval(n) = "1" /\ ControlValue(Gate[n].type) = "0"
         \/ Gate[n].type \in {"Or", "Nor"} /\ Nval(n) = "0" /\ ControlValue(Gate[n].type) = "1"
         \/ Gate[n].type \in {"Xor", "Xnor"} /\ Nval(n) = "X" /\ ControlValue(Gate[n].type) = "X"
         \/ /\ Gate[n].type \in OneFanin /\ Nval(n) = "X" /\ ControlValue(Gate[n].type) = "X"
            /\ DOMAIN Gate[n].fanin = {1}
<1>1. Gate[n].type \in NodeTypes /\ Gate[n].type \notin NoFanin
  BY FaninFacts
<1>2. Gate[n].type \in OneFanin => DOMAIN Gate[n].fanin = {1}
  BY FaninFacts
<1>3. \/ Gate[n].type \in {"And", "Nand"} \/ Gate[n].type \in {"Or", "Nor"}
      \/ Gate[n].type \in {"Xor", "Xnor"} \/ Gate[n].type \in OneFanin
  BY <1>1 DEF NodeTypes, GateTypes, NoFanin, OneFanin, PpiTypes
<1>4. /\ Gate[n].type \in {"And", "Nand"} => Nval(n) = "1" /\ ControlValue(Gate[n].type) = "0"
      /\ Gate[n].type \in {"Or", "Nor"} => Nval(n) = "0" /\ ControlValue(Gate[n].type) = "1"
      /\ Gate[n].type \in {"Xor", "Xnor"} => Nval(n) = "X" /\ ControlValue(Gate[n].type) = "X"
  BY DEF Nval, SideValue, ControlValue, Complement
<1>5. Gate[n].type \in OneFanin => Nval(n) = "X" /\ ControlValue(Gate[n].type) = "X"
  BY DEF Nval, SideValue, ControlValue, Complement, OneFanin, PpoTypes, ControlTypes
<1> QED BY <1>2, <1>3, <1>4, <1>5

LEMMA OutputIs ==
  ASSUME Proper, NEW n \in Nodes, DOMAIN Gate[n].fanin # {}, NEW ins
  PROVE  Output(Gate[n].type, ins) =
           IF Gate[n].type \in GateTypes THEN GateFunction(Gate[n].type, ins) ELSE ins[1]
<1>1. Gate[n].type \notin NoFanin
  BY FaninFacts
<1>2. Gate[n].type # "Const0" /\ Gate[n].type # "Const1"
  BY <1>1 DEF NoFanin
<1> QED BY <1>2 DEF Output

LEMMA ParityFlips ==
  ASSUME NEW S, NEW R, NEW k, IsFiniteSet(S), R = S \cup {k}, k \notin S
  PROVE  (Cardinality(R) % 2 = 1) # (Cardinality(S) % 2 = 1)
<1>1. Cardinality(S) \in Nat /\ Cardinality(R) = Cardinality(S) + 1
  BY FS_AddElement, FS_CardinalityType
<1>2. \A c \in Nat : ((c + 1) % 2 = 1) # (c % 2 = 1)
  OBVIOUS
<1> QED BY <1>1, <1>2

LEMMA XorFlips ==
  ASSUME Proper, NEW n \in Nodes, NEW k, NEW ins, NEW ins2, DifferAt(n, k, ins, ins2)
  PROVE  XorOf(ins2) = Complement(XorOf(ins))
<1> DEFINE D == DOMAIN Gate[n].fanin
           Ones(s) == {i \in D : s[i] = "1"}
<1>1. IsFiniteSet(D)
  <2>1. Len(Gate[n].fanin) \in Nat /\ D = 1 .. Len(Gate[n].fanin)
    BY FaninFacts
  <2>2. \A a, b \in Int : IsFiniteSet(a .. b)
    BY FS_Interval
  <2> HIDE DEF D
  <2> QED BY <2>1, <2>2
<1>2. DOMAIN ins = D /\ DOMAIN ins2 = D
  BY DEF DifferAt
<1>3. ~ Some(ins, "X") /\ ~ Some(ins2, "X")
  BY DEF Some, DifferAt, Bin
<1>4. XorOf(ins) = (IF Cardinality(Ones(ins)) % 2 = 1 THEN "1" ELSE "0")
      /\ XorOf(ins2) = (IF Cardinality(Ones(ins2)) % 2 = 1 THEN "1" ELSE "0")
  BY <1>2, <1>3 DEF XorOf
<1>5. IsFiniteSet(Ones(ins)) /\ IsFiniteSet(Ones(ins2))
  <2>1. Ones(ins) \subseteq D /\ Ones(ins2) \subseteq D
    OBVIOUS
  <2> HIDE DEF D, Ones
  <2> QED BY <1>1, <2>1, FS_Subset
<1>6. \/ Ones(ins2) = Ones(ins) \cup {k} /\ k \notin Ones(ins)
      \/ Ones(ins) = Ones(ins2) \cup {k} /\ k \notin Ones(ins2)
  <2>1. \A j \in D : ins[j] \in {"0", "1"} /\ ins2[j] \in {"0", "1"}
    BY DEF DifferAt, Bin
  <2>2. k \in D /\ ins2[k] # ins[k] /\ \A j \in D : j # k => ins2[j] = ins[j]
    BY DEF DifferAt
  <2>3. CASE ins[k] = "0"
    BY <2>1, <2>2, <2>3
  <2>4. CASE ins[k] = "1"
    BY <2>1, <2>2, <2>4
  <2> QED BY <2>1, <2>2, <2>3, <2>4
<1>7. (Cardinality(Ones(ins)) % 2 = 1) # (Cardinality(Ones(ins2)) % 2 = 1)
  <2> HIDE DEF Ones, D
  <2> QED BY <1>5, <1>6, ParityFlips
<1> HIDE DEF Ones, D
<1> QED BY <1>4, <1>7 DEF Complement

LEMMA DifferencePasses ==
  ASSUME Proper, NEW n \in Nodes, NEW k, NEW ins, NEW ins2,
         DifferAt(n, k, ins, ins2), SidesOpen(n, k, ins)
  PROVE  Output(Gate[n].type, ins2) = Complement(Output(Gate[n].type, ins))
<1> DEFINE D == DOMAIN Gate[n].fanin
<1>1. /\ k \in D /\ DOMAIN ins = D /\ DOMAIN ins2 = D
      /\ \A j \in D : ins[j] \in Bin /\ ins2[j] \in Bin
      /\ ins2[k] # ins[k] /\ \A j \in D : j # k => ins2[j] = ins[j]
  BY DEF DifferAt
<1>2. Gate[n].type \in {"And", "Nand"} /\ Nval(n) = "1" => AndOf(ins2) = Complement(AndOf(ins))
  BY <1>1 DEF SidesOpen, AndOf, Some, Complement, Bin
<1>3. Gate[n].type \in {"Or", "Nor"} /\ Nval(n) = "0" => OrOf(ins2) = Complement(OrOf(ins))
  BY <1>1 DEF SidesOpen, OrOf, Some, Complement, Bin
<1>4. XorOf(ins2) = Complement(XorOf(ins))
  BY XorFlips
<1>5. D = {1} => ins2[1] = Complement(ins[1])
  BY <1>1 DEF Complement, Bin
<1> DEFINE base(s) == IF Gate[n].type \in {"And", "Nand"} THEN AndOf(s)
                      ELSE IF Gate[n].type \in {"Or", "Nor"} THEN OrOf(s)
                      ELSE IF Gate[n].type \in {"Xor", "Xnor"} THEN XorOf(s) ELSE s[1]
<1>6. base(ins2) = Complement(base(ins))
  <2>1. D # {}
    BY <1>1
  <2>2. Gate[n].type \in OneFanin => Gate[n].type \notin {"And", "Nand", "Or", "Nor", "Xor", "Xnor"}
    BY DEF OneFanin, PpoTypes, ControlTypes
  <2> QED BY <1>2, <1>3, <1>4, <1>5, <2>1, <2>2, GateCases
<1>7. \A s : GateFunction(Gate[n].type, s) =
               IF Gate[n].type \in {"Not", "Nand", "Nor", "Xnor"} THEN Complement(base(s)) ELSE base(s)
  BY DEF GateFunction
<1>8. Gate[n].type \notin GateTypes => ins2[1] = Complement(ins[1])
  <2>1. D # {}
    BY <1>1
  <2>2. Gate[n].type \notin GateTypes => Gate[n].type \in OneFanin /\ D = {1}
    BY <2>1, GateCases DEF GateTypes
  <2> QED BY <2>2, <1>5
<1>9. \A s : Output(Gate[n].type, s) =
               IF Gate[n].type \in GateTypes THEN GateFunction(Gate[n].type, s) ELSE s[1]
  BY <1>1, OutputIs
<1> HIDE DEF base, D
<1> QED BY <1>6, <1>7, <1>8, <1>9

LEMMA DifferenceStops ==
  ASSUME Proper, NEW n \in Nodes, NEW k, NEW ins, NEW ins2,
         DifferAt(n, k, ins, ins2), ~ SidesOpen(n, k, ins)
  PROVE  Output(Gate[n].type, ins2) = Output(Gate[n].type, ins)
<1> DEFINE D == DOMAIN Gate[n].fanin
<1>1. /\ k \in D /\ DOMAIN ins = D /\ DOMAIN ins2 = D
      /\ \A j \in D : ins[j] \in Bin /\ ins2[j] \in Bin
      /\ ins2[k] # ins[k] /\ \A j \in D : j # k => ins2[j] = ins[j]
  BY DEF DifferAt
<1>2. Gate[n].type \in {"And", "Nand"} /\ Nval(n) = "1" => AndOf(ins2) = AndOf(ins)
  BY <1>1 DEF SidesOpen, AndOf, Some, Bin
<1>3. Gate[n].type \in {"Or", "Nor"} /\ Nval(n) = "0" => OrOf(ins2) = OrOf(ins)
  BY <1>1 DEF SidesOpen, OrOf, Some, Bin
<1>4. D # {}
  BY <1>1
<1>5. Nval(n) # "X"
  BY DEF SidesOpen
<1>6. \/ Gate[n].type \in {"And", "Nand"} /\ Nval(n) = "1"
      \/ Gate[n].type \in {"Or", "Nor"} /\ Nval(n) = "0"
  BY <1>4, <1>5, GateCases
<1>7. \A s : Output(Gate[n].type, s) =
               IF Gate[n].type \in GateTypes THEN GateFunction(Gate[n].type, s) ELSE s[1]
  BY <1>1, OutputIs
<1>8. Gate[n].type \in {"And", "Nand"} =>
        \A s, t : AndOf(s) = AndOf(t) => GateFunction(Gate[n].type, s) = GateFunction(Gate[n].type, t)
  BY DEF GateFunction
<1>9. Gate[n].type \in {"Or", "Nor"} =>
        \A s, t : OrOf(s) = OrOf(t) => GateFunction(Gate[n].type, s) = GateFunction(Gate[n].type, t)
  BY DEF GateFunction
<1>10. Gate[n].type \in GateTypes
  BY <1>6 DEF GateTypes
<1> QED BY <1>2, <1>3, <1>6, <1>7, <1>8, <1>9, <1>10

-----------------------------------------------------------------------------
(* A node that takes the other value, and what follows from it.            *)

Ins(n, v) == [k \in DOMAIN Gate[n].fanin |-> v[Gate[n].fanin[k]]]
GateValue(n, v) == Output(Gate[n].type, Ins(n, v))

\* v is what the network computes from its inputs.
Sound(v) == v \in [Nodes -> Bin] /\ \A n \in Nodes \ PPIs : v[n] = GateValue(n, v)

\* u is what becomes of v when node o is complemented.
Flipped(u, v, o) ==
  /\ u \in [Nodes -> Bin] /\ o \in Nodes /\ u[o] = Complement(v[o])
  /\ \A n \in Nodes \ {o} : u[n] = IF n \in PPIs THEN v[n] ELSE GateValue(n, u)

LEMMA SameIns ==
  ASSUME NEW u, NEW v, NEW n, \A m \in FaninSet(n) : u[m] = v[m]
  PROVE  Ins(n, u) = Ins(n, v) /\ GateValue(n, u) = GateValue(n, v)
<1>1. Ins(n, u) = Ins(n, v)
  BY DEF Ins, FaninSet
<1> QED BY <1>1 DEF GateValue

LEMMA InsType ==
  ASSUME Proper, NEW v \in [Nodes -> Bin], NEW n \in Nodes
  PROVE  Ins(n, v) \in [DOMAIN Gate[n].fanin -> Bin]
  BY FaninFacts DEF Ins

LEMMA InputsAre == Inputs = [PPIs -> Bin] /\ PPIs \subseteq Nodes /\ PPOs \subseteq Nodes
  BY DEF Inputs, Bin, PPIs, PPOs, Nodes

\* An evaluation of the network, with a fault or without.
LEMMA EvaluationIs ==
  ASSUME NEW in, NEW f, NEW v, Evaluation(in, f, v), NEW n \in Nodes, f.node # n
  PROVE  v[n] = IF n \in PPIs THEN in[n] ELSE GateValue(n, v)
<1>1. FaninValues(f, n, v) = Ins(n, v)
  BY DEF FaninValues, Ins
<1>2. n \in PPIs <=> Gate[n].type \in PpiTypes
  BY DEF PPIs, Nodes
<1> QED BY <1>1, <1>2 DEF Evaluation, NodeValue, GateValue

LEMMA GoodIsSound ==
  ASSUME Proper, NEW in \in Inputs
  PROVE  /\ Sound(Values(in)) /\ \A n \in PPIs : Values(in)[n] = in[n]
         /\ [n \in PPIs |-> Values(in)[n]] = in
<1>1. NoFault.val \in Bin /\ \A n \in Nodes : NoFault.node # n
  BY NodesAre DEF NoFault, Bin
<1>2. Evaluation(in, NoFault, Values(in))
  BY <1>1, ValuesSolve, InputsAre DEF Values
<1>3. \A n \in Nodes : Values(in)[n] = IF n \in PPIs THEN in[n] ELSE GateValue(n, Values(in))
  BY <1>1, <1>2, EvaluationIs
<1>4. \A n \in PPIs : Values(in)[n] = in[n]
  BY <1>3, InputsAre
<1>5. Sound(Values(in))
  BY <1>2, <1>3 DEF Sound, Evaluation
<1>6. in = [n \in PPIs |-> in[n]]
  BY InputsAre
<1> QED BY <1>4, <1>5, <1>6

LEMMA FlipIs ==
  ASSUME Proper, NEW in \in Inputs, NEW o \in Nodes
  PROVE  Flipped(ValuesUnder(in, [node |-> o, pos |-> 0, val |-> Complement(Values(in)[o])]),
                 Values(in), o)
<1> DEFINE f == [node |-> o, pos |-> 0, val |-> Complement(Values(in)[o])]
           u == ValuesUnder(in, f)
           v == Values(in)
<1>1. v[o] \in Bin /\ \A n \in PPIs : v[n] = in[n]
  BY GoodIsSound DEF Sound
<1>2. f.val \in Bin /\ f.node = o /\ f.pos = 0 /\ f.val = Complement(v[o])
  BY <1>1, BinFacts
<1> HIDE DEF f, v
<1>3. Evaluation(in, f, u)
  BY <1>2, ValuesSolve, InputsAre
<1> HIDE DEF u
<1>4. \A n \in Nodes \ {o} : u[n] = IF n \in PPIs THEN in[n] ELSE GateValue(n, u)
  BY <1>2, <1>3, EvaluationIs
<1>5. u[o] = f.val
  BY <1>2, <1>3 DEF Evaluation, NodeValue
<1>6. Flipped(u, v, o)
  BY <1>1, <1>2, <1>3, <1>4, <1>5 DEF Flipped, Evaluation
<1> QED BY <1>6 DEF u, f, v

\* Where the complemented node leads to bounds the change.
LEMMA FlippedOutside ==
  ASSUME Proper, NEW v, Sound(v), NEW o, NEW u, Flipped(u, v, o),
         NEW T, o \in T, \A n \in T : FanoutSet(n) \subseteq T
  PROVE  \A n \in Nodes \ T : u[n] = v[n]
<1> DEFINE S == {n \in Nodes : n \notin T => u[n] = v[n]}
<1>1. ASSUME NEW n \in Nodes, \A m \in Nodes : m < n => m \in S PROVE n \in S
  <2> SUFFICES ASSUME n \notin T PROVE u[n] = v[n]
    OBVIOUS
  <2>1. \A m \in FaninSet(n) : m \in Nodes /\ m < n /\ m \notin T
    BY FaninFacts, FanoutFacts DEF FaninSet
  <2>2. GateValue(n, u) = GateValue(n, v)
    BY <1>1, <2>1, SameIns
  <2> QED BY <2>2 DEF Flipped, Sound
<1>2. Nodes \subseteq S
  <2> HIDE DEF S
  <2> QED BY <1>1, NodesAre, UpInduction
<1> QED BY <1>2

LEMMA FlippedBelow ==
  ASSUME Proper, NEW v, Sound(v), NEW o, NEW u, Flipped(u, v, o)
  PROVE  \A n \in Nodes : n < o => u[n] = v[n]
<1> DEFINE T == {n \in Nodes : ~ (n < o)}
<1>1. o \in T /\ \A n \in T : FanoutSet(n) \subseteq T
  <2>1. o \in Nodes /\ \A n \in Nodes : n \in Nat
    BY NodesAre DEF Flipped
  <2>2. ASSUME NEW n \in T, NEW m \in FanoutSet(n) PROVE m \in T
    <3>1. m \in Nodes /\ n < m
      BY FanoutFacts
    <3> QED BY <2>1, <3>1
  <2>3. o \in T
    BY <2>1
  <2> QED BY <2>2, <2>3
<1>2. \A n \in Nodes \ T : u[n] = v[n]
  <2> HIDE DEF T
  <2> QED BY <1>1, FlippedOutside
<1> QED BY <1>2

LEMMA FlippedUnique ==
  ASSUME Proper, NEW v, NEW o, NEW u, NEW w, Flipped(u, v, o), Flipped(w, v, o)
  PROVE  u = w
<1> DEFINE S == {n \in Nodes : u[n] = w[n]}
<1>1. ASSUME NEW n \in Nodes, \A m \in Nodes : m < n => m \in S PROVE n \in S
  <2>1. \A m \in FaninSet(n) : m \in Nodes /\ m < n
    BY FaninFacts DEF FaninSet
  <2>2. GateValue(n, u) = GateValue(n, w)
    BY <1>1, <2>1, SameIns
  <2> QED BY <2>2 DEF Flipped
<1>2. Nodes \subseteq S
  <2> HIDE DEF S
  <2> QED BY <1>1, NodesAre, UpInduction
<1> QED BY <1>2 DEF Flipped

-----------------------------------------------------------------------------
(* The root of a fanout-free region, and the condition along the path to it. *)

SingleFanout(n) == Len(Fanout[n]) = 1

LEMMA SingleFanoutIs ==
  ASSUME Proper, NEW n \in Nodes, SingleFanout(n)
  PROVE  /\ Fanout[n][1] \in Nodes /\ n < Fanout[n][1] /\ FanoutSet(n) = {Fanout[n][1]}
         /\ n \notin PPOs /\ Fanout[n][1] \notin PPIs
         /\ \E k \in DOMAIN Gate[Fanout[n][1]].fanin :
              /\ Gate[Fanout[n][1]].fanin[k] = n
              /\ \A j \in DOMAIN Gate[Fanout[n][1]].fanin : Gate[Fanout[n][1]].fanin[j] = n => j = k
<1> DEFINE o == Fanout[n][1]
<1>1. DOMAIN Fanout[n] = {1}
  BY FanoutFacts DEF SingleFanout
<1>2. FanoutSet(n) = {o}
  BY <1>1 DEF FanoutSet
<1>3. o \in Nodes /\ n < o /\ n \in FaninSet(o)
  BY <1>2, FanoutFacts
<1>4. PICK k \in DOMAIN Gate[o].fanin : Gate[o].fanin[k] = n
  BY <1>3 DEF FaninSet
<1>5. \A j \in DOMAIN Gate[o].fanin : Gate[o].fanin[j] = n => j = k
  BY <1>3, <1>4 DEF Proper, ProperNetwork, Nodes, SingleFanout
<1>6. n \notin PPOs
  BY <1>1, FanoutFacts
<1>7. o \notin PPIs
  <2> HIDE DEF o
  <2> QED BY <1>3, <1>4, FaninFacts DEF PPIs, NoFanin
<1> QED BY <1>2, <1>3, <1>4, <1>5, <1>6, <1>7

RootsBy(g) == [k \in DOMAIN Gate |-> IF Len(Fanout[k]) # 1 THEN k ELSE g[Fanout[k][1]]]

LEMMA FfrRootStep ==
  ASSUME Proper, NEW n \in Nodes
  PROVE  FfrRoot(n) = IF SingleFanout(n) THEN FfrRoot(Fanout[n][1]) ELSE n
<1> DEFINE G == [g \in [Nodes -> Nodes] |-> RootsBy(g)]
           root == CHOOSE g : g = RootsBy(g)
<1>1. \A k \in Nodes : SingleFanout(k) => Fanout[k][1] \in Nodes /\ k < Fanout[k][1]
  BY SingleFanoutIs
<1>2. DownDependent(Len(Gate), Nodes, Nodes, G)
  <2>1. \A g \in [Nodes -> Nodes] : RootsBy(g) \in [Nodes -> Nodes]
    BY <1>1 DEF RootsBy, SingleFanout, Nodes
  <2>2. [k \in Nodes |-> k] \in [Nodes -> Nodes]
    OBVIOUS
  <2>3. ASSUME NEW g \in [Nodes -> Nodes], NEW h \in [Nodes -> Nodes], NEW k \in Nodes,
               \A j \in Nodes : k < j => g[j] = h[j]
        PROVE  RootsBy(g)[k] = RootsBy(h)[k]
    BY <1>1, <2>3 DEF RootsBy, SingleFanout, Nodes
  <2>4. [Nodes -> Nodes] # {}
    BY <2>2
  <2>5. G \in [[Nodes -> Nodes] -> [Nodes -> Nodes]]
    BY <2>1
  <2>6. \A g, h \in [Nodes -> Nodes] : \A k \in Nodes :
          (\A j \in Nodes : k < j => g[j] = h[j]) => G[g][k] = G[h][k]
    BY <2>3
  <2> HIDE DEF G
  <2> QED BY <2>4, <2>5, <2>6, NodesAre DEF DownDependent
<1>3. PICK g \in [Nodes -> Nodes] : g = G[g]
  <2> HIDE DEF G
  <2> QED BY <1>2, DownRecursion
<1>4. root = RootsBy(root)
  BY <1>3
<1>5. \A k : FfrRoot(k) = root[k]
  BY Zenon DEF FfrRoot, RootsBy
<1> HIDE DEF root
<1>6. root[n] = IF Len(Fanout[n]) # 1 THEN n ELSE root[Fanout[n][1]]
  <2>1. \A h : RootsBy(h)[n] = IF Len(Fanout[n]) # 1 THEN n ELSE h[Fanout[n][1]]
    BY DEF RootsBy, Nodes
  <2> QED BY <1>4, <2>1
<1> QED BY <1>5, <1>6 DEF SingleFanout

LEMMA FfrRootFacts ==
  ASSUME Proper, NEW n \in Nodes
  PROVE  /\ FfrRoot(n) \in Nodes /\ n <= FfrRoot(n) /\ ~ SingleFanout(FfrRoot(n))
         /\ FfrRoot(FfrRoot(n)) = FfrRoot(n)
<1> DEFINE T == {k \in Nodes : /\ FfrRoot(k) \in Nodes /\ k <= FfrRoot(k)
                               /\ ~ SingleFanout(FfrRoot(k)) /\ FfrRoot(FfrRoot(k)) = FfrRoot(k)}
<1>1. ASSUME NEW k \in Nodes, \A j \in Nodes : k < j => j \in T PROVE k \in T
  <2>0. \A j \in Nodes : j \in Nat
    BY NodesAre
  <2>1. CASE SingleFanout(k)
    <3>1. Fanout[k][1] \in T /\ k < Fanout[k][1] /\ FfrRoot(k) = FfrRoot(Fanout[k][1])
      BY <1>1, <2>1, SingleFanoutIs, FfrRootStep
    <3> QED BY <2>0, <3>1
  <2>2. CASE ~ SingleFanout(k)
    <3>1. FfrRoot(k) = k
      BY <2>2, FfrRootStep
    <3> QED BY <2>0, <2>2, <3>1
  <2> QED BY <2>1, <2>2
<1>2. Nodes \subseteq T
  <2> HIDE DEF T
  <2> QED BY <1>1, NodesAre, DownInduction
<1> QED BY <1>2

Assigns == [node : Nodes, time : {0, 1}, val : Bin]

LEMMA SideAtType ==
  ASSUME Proper, NEW n \in Nodes, NEW P, P \subseteq DOMAIN Gate[n].fanin
  PROVE  SideAt(n, P) \subseteq Assigns
<1>1. DOMAIN Gate[n].fanin # {} => Nval(n) \in {"0", "1", "X"}
  BY GateCases
<1>2. \A k \in P : Gate[n].fanin[k] \in Nodes
  BY FaninFacts
<1> QED BY <1>1, <1>2 DEF SideAt, Assign, Assigns, Bin

\* What the other fanins of its fanout have to be.
Beside(n) == {k \in DOMAIN Gate[Fanout[n][1]].fanin : Gate[Fanout[n][1]].fanin[k] # n}
AlongBy(g) == [m \in DOMAIN Gate |-> IF Len(Fanout[m]) # 1 THEN {}
                                     ELSE SideAt(Fanout[m][1], Beside(m)) \cup g[Fanout[m][1]]]

LEMMA PathConditionStep ==
  ASSUME Proper, NEW n \in Nodes
  PROVE  PathCondition(n) = IF SingleFanout(n)
                            THEN SideAt(Fanout[n][1], Beside(n)) \cup PathCondition(Fanout[n][1])
                            ELSE {}
<1> DEFINE V == SUBSET Assigns
           G == [g \in [Nodes -> V] |-> AlongBy(g)]
           along == CHOOSE g : g = AlongBy(g)
<1>1. \A k \in Nodes : SingleFanout(k) => Fanout[k][1] \in Nodes /\ k < Fanout[k][1]
  BY SingleFanoutIs
<1>2. DownDependent(Len(Gate), Nodes, V, G)
  <2>1. ASSUME NEW g \in [Nodes -> V] PROVE AlongBy(g) \in [Nodes -> V]
    <3>1. \A k \in Nodes : SingleFanout(k) => SideAt(Fanout[k][1], Beside(k)) \in V
      BY <1>1, SideAtType DEF Beside
    <3> HIDE DEF V
    <3>2. \A k \in Nodes : SingleFanout(k) => g[Fanout[k][1]] \in V
      BY <1>1
    <3>3. \A a, b \in V : a \cup b \in V /\ {} \in V
      BY DEF V
    <3>4. {} \in V
      BY DEF V
    <3> QED BY <3>1, <3>2, <3>3, <3>4 DEF AlongBy, SingleFanout, Nodes
  <2>2. [k \in Nodes |-> {}] \in [Nodes -> V]
    OBVIOUS
  <2>3. ASSUME NEW g \in [Nodes -> V], NEW h \in [Nodes -> V], NEW k \in Nodes,
               \A j \in Nodes : k < j => g[j] = h[j]
        PROVE  AlongBy(g)[k] = AlongBy(h)[k]
    BY <1>1, <2>3 DEF AlongBy, SingleFanout, Nodes
  <2>4. [Nodes -> V] # {}
    BY <2>2
  <2> HIDE DEF V
  <2>5. G \in [[Nodes -> V] -> [Nodes -> V]]
    BY <2>1
  <2>6. \A g, h \in [Nodes -> V] : \A k \in Nodes :
          (\A j \in Nodes : k < j => g[j] = h[j]) => G[g][k] = G[h][k]
    BY <2>3
  <2> HIDE DEF G
  <2> QED BY <2>4, <2>5, <2>6, NodesAre DEF DownDependent
<1>3. PICK g \in [Nodes -> V] : g = G[g]
  <2> HIDE DEF G, V
  <2> QED BY <1>2, DownRecursion
<1>4. along = AlongBy(along)
  BY <1>3
<1>5. \A k : PathCondition(k) = along[k]
  BY Zenon DEF PathCondition, AlongBy, Beside
<1> HIDE DEF along
<1>6. along[n] = IF Len(Fanout[n]) # 1 THEN {}
                 ELSE SideAt(Fanout[n][1], Beside(n)) \cup along[Fanout[n][1]]
  <2>1. \A h : AlongBy(h)[n] = IF Len(Fanout[n]) # 1 THEN {}
                               ELSE SideAt(Fanout[n][1], Beside(n)) \cup h[Fanout[n][1]]
    BY DEF AlongBy, Nodes
  <2> QED BY <1>4, <2>1
<1> QED BY <1>5, <1>6 DEF SingleFanout

LEMMA PathConditionType ==
  ASSUME Proper, NEW n \in Nodes
  PROVE  PathCondition(n) \subseteq Assigns /\ \A a \in PathCondition(n) : a.time = 1
<1> DEFINE T == {k \in Nodes : PathCondition(k) \subseteq Assigns
                               /\ \A a \in PathCondition(k) : a.time = 1}
<1>1. ASSUME NEW k \in Nodes, \A j \in Nodes : k < j => j \in T PROVE k \in T
  <2>1. CASE SingleFanout(k)
    <3>1. Fanout[k][1] \in T /\ Fanout[k][1] \in Nodes
      BY <1>1, <2>1, SingleFanoutIs
    <3>2. SideAt(Fanout[k][1], Beside(k)) \subseteq Assigns
      BY <3>1, SideAtType DEF Beside
    <3>3. \A a \in SideAt(Fanout[k][1], Beside(k)) : a.time = 1
      BY DEF SideAt, Assign
    <3> QED BY <2>1, <3>1, <3>2, <3>3, PathConditionStep
  <2>2. CASE ~ SingleFanout(k)
    BY <2>2, PathConditionStep
  <2> QED BY <2>1, <2>2
<1>2. Nodes \subseteq T
  <2> HIDE DEF T
  <2> QED BY <1>1, NodesAre, DownInduction
<1> QED BY <1>2

-----------------------------------------------------------------------------
(* When a fault shows at the root of its region, and that from there on it  *)
(* is as if the root took the other value.                                  *)

HoldsNow(condition, v) == \A a \in condition : a.time = 1 => v[a.node] = a.val

LEMMA SideAtHolds ==
  ASSUME NEW n, NEW P, NEW v
  PROVE  HoldsNow(SideAt(n, P), v) <=> (Nval(n) # "X" => \A j \in P : v[Gate[n].fanin[j]] = Nval(n))
<1>1. CASE Nval(n) = "X"
  BY <1>1 DEF SideAt, HoldsNow
<1>2. CASE Nval(n) # "X"
  <2>1. SideAt(n, P) = {Assign(Gate[n].fanin[k], 1, Nval(n)) : k \in P}
    BY <1>2 DEF SideAt
  <2>2. \A i, t, x : Assign(i, t, x).node = i /\ Assign(i, t, x).time = t /\ Assign(i, t, x).val = x
    BY DEF Assign
  <2>3. HoldsNow(SideAt(n, P), v) <=> \A k \in P : v[Gate[n].fanin[k]] = Nval(n)
    BY <2>1, <2>2 DEF HoldsNow
  <2> QED BY <1>2, <2>3
<1> QED BY <1>1, <1>2

LEMMA HoldsBoth ==
  ASSUME NEW c, NEW d, NEW v
  PROVE  HoldsNow(c \cup d, v) <=> HoldsNow(c, v) /\ HoldsNow(d, v)
  BY DEF HoldsNow

\* The position at which a node with one fanout is connected.
Position(n) == CHOOSE k \in DOMAIN Gate[Fanout[n][1]].fanin : Gate[Fanout[n][1]].fanin[k] = n

LEMMA PositionIs ==
  ASSUME Proper, NEW n \in Nodes, SingleFanout(n), NEW v
  PROVE  /\ Position(n) \in DOMAIN Gate[Fanout[n][1]].fanin
         /\ Gate[Fanout[n][1]].fanin[Position(n)] = n
         /\ \A j \in DOMAIN Gate[Fanout[n][1]].fanin : Gate[Fanout[n][1]].fanin[j] = n => j = Position(n)
         /\ HoldsNow(SideAt(Fanout[n][1], Beside(n)), v)
              <=> SidesOpen(Fanout[n][1], Position(n), Ins(Fanout[n][1], v))
<1> DEFINE o == Fanout[n][1]
           k == Position(n)
           D == DOMAIN Gate[o].fanin
<1>1. /\ k \in D /\ Gate[o].fanin[k] = n /\ \A j \in D : Gate[o].fanin[j] = n => j = k
  <2>1. PICK j \in D : Gate[o].fanin[j] = n /\ \A i \in D : Gate[o].fanin[i] = n => i = j
    BY SingleFanoutIs
  <2> QED BY <2>1 DEF Position
<1>2. Beside(n) = {j \in D : j # k}
  BY <1>1 DEF Beside
<1>3. \A j \in D : Ins(o, v)[j] = v[Gate[o].fanin[j]]
  BY DEF Ins
<1> HIDE DEF k, o, D
<1>4. HoldsNow(SideAt(o, Beside(n)), v) <=> (Nval(o) # "X" => \A j \in Beside(n) : v[Gate[o].fanin[j]] = Nval(o))
  BY SideAtHolds
<1>5. SidesOpen(o, k, Ins(o, v)) <=> (Nval(o) # "X" => \A j \in D : j # k => v[Gate[o].fanin[j]] = Nval(o))
  BY <1>3 DEF SidesOpen, D
<1> QED BY <1>1, <1>2, <1>4, <1>5 DEF k, o, D

(* One step along the path: the difference at a node with one fanout goes   *)
(* on to the fanout, or stops there.                                        *)
LEMMA PathStep ==
  ASSUME Proper, NEW v, Sound(v), NEW n \in Nodes, SingleFanout(n),
         NEW u, Flipped(u, v, n), NEW w, Flipped(w, v, Fanout[n][1])
  PROVE  IF HoldsNow(SideAt(Fanout[n][1], Beside(n)), v)
         THEN \A m \in Nodes \ {n} : u[m] = w[m]
         ELSE \A m \in Nodes \ {n} : u[m] = v[m]
<1> DEFINE o == Fanout[n][1]
           open == SidesOpen(o, Position(n), Ins(o, v))
           x(m) == IF open THEN w[m] ELSE v[m]
           T == {m \in Nodes : m # n => u[m] = x(m)}
<1>1. /\ o \in Nodes /\ n < o /\ FanoutSet(n) = {o} /\ o \notin PPIs /\ n # o
  BY SingleFanoutIs, NodesAre
<1>2. \A m \in Nodes : m < n => u[m] = v[m]
  BY FlippedBelow
<1>3. \A m \in Nodes : m < o => w[m] = v[m]
  BY FlippedBelow
<1>4. DifferAt(o, Position(n), Ins(o, v), Ins(o, u))
      \/ \E m \in Nodes : m < o /\ m # n /\ u[m] # v[m]
  <2> SUFFICES ASSUME \A m \in Nodes : m < o /\ m # n => u[m] = v[m]
               PROVE  DifferAt(o, Position(n), Ins(o, v), Ins(o, u))
    OBVIOUS
  <2>1. Ins(o, v) \in [DOMAIN Gate[o].fanin -> Bin] /\ Ins(o, u) \in [DOMAIN Gate[o].fanin -> Bin]
    BY <1>1, InsType DEF Sound, Flipped
  <2>2. u[n] # v[n]
    BY BinFacts DEF Flipped, Sound
  <2>3. \A j \in DOMAIN Gate[o].fanin : /\ Ins(o, u)[j] = u[Gate[o].fanin[j]]
                                        /\ Ins(o, v)[j] = v[Gate[o].fanin[j]]
    BY DEF Ins
  <2>4. \A j \in DOMAIN Gate[o].fanin : Gate[o].fanin[j] \in Nodes /\ Gate[o].fanin[j] < o
    BY <1>1, FaninFacts
  <2>5. /\ Position(n) \in DOMAIN Gate[o].fanin /\ Gate[o].fanin[Position(n)] = n
        /\ \A j \in DOMAIN Gate[o].fanin : Gate[o].fanin[j] = n => j = Position(n)
    BY PositionIs
  <2> HIDE DEF o
  <2> QED BY <2>1, <2>2, <2>3, <2>4, <2>5 DEF DifferAt
<1>5. GateValue(o, v) = v[o] /\ GateValue(o, u) = u[o]
  BY <1>1 DEF Sound, Flipped
<1>6. ASSUME NEW m \in Nodes, \A j \in Nodes : j < m => j \in T PROVE m \in T
  <2> SUFFICES ASSUME m # n PROVE u[m] = x(m)
    OBVIOUS
  <2>0. \A j \in Nodes : j \in Nat
    BY NodesAre
  <2>1. CASE m = o
    <3>1. \A j \in Nodes : j < o /\ j # n => u[j] = v[j]
      BY <1>3, <1>6, <2>1
    <3>2. DifferAt(o, Position(n), Ins(o, v), Ins(o, u))
      BY <1>4, <3>1
    <3>3. CASE open
      <4>1. u[o] = Complement(v[o])
        BY <1>1, <1>5, <3>2, <3>3, DifferencePasses DEF GateValue
      <4> QED BY <2>1, <3>3, <4>1 DEF Flipped
    <3>4. CASE ~ open
      <4>1. u[o] = v[o]
        BY <1>1, <1>5, <3>2, <3>4, DifferenceStops DEF GateValue
      <4> QED BY <2>1, <3>4, <4>1
    <3> QED BY <3>3, <3>4
  <2>2. CASE m # o
    <3>1. \A j \in FaninSet(m) : j \in Nodes /\ j < m /\ j # n
      <4>1. \A j \in FaninSet(m) : j \in Nodes /\ j < m
        BY FaninFacts DEF FaninSet
      <4>2. n \notin FaninSet(m)
        BY <1>1, <2>2, FanoutFacts
      <4> QED BY <4>1, <4>2
    <3>2. \A j \in FaninSet(m) : u[j] = x(j)
      BY <1>6, <3>1
    <3>3. CASE open
      <4>1. GateValue(m, u) = GateValue(m, w)
        BY <3>2, <3>3, SameIns
      <4> QED BY <2>2, <3>3, <4>1 DEF Flipped
    <3>4. CASE ~ open
      <4>1. GateValue(m, u) = GateValue(m, v)
        BY <3>2, <3>4, SameIns
      <4> QED BY <2>2, <3>4, <4>1 DEF Flipped, Sound
    <3> QED BY <3>3, <3>4
  <2> QED BY <2>1, <2>2
<1>7. Nodes \subseteq T
  <2> HIDE DEF T
  <2> QED BY <1>6, NodesAre, UpInduction
<1>8. HoldsNow(SideAt(o, Beside(n)), v) <=> open
  BY PositionIs
<1> HIDE DEF open
<1> QED BY <1>7, <1>8

FlipOf(in, o) == ValuesUnder(in, [node |-> o, pos |-> 0, val |-> Complement(Values(in)[o])])

\* Outside of the inner nodes of the region with root r.
Beyond(r) == {m \in Nodes : FfrRoot(m) = r => m = r}

LEMMA FlipOfIs ==
  ASSUME Proper, NEW in \in Inputs
  PROVE  Sound(Values(in)) /\ \A o \in Nodes : Flipped(FlipOf(in, o), Values(in), o)
  BY FlipIs, GoodIsSound DEF FlipOf

LEMMA RegionPath ==
  ASSUME Proper, NEW in \in Inputs, NEW n \in Nodes
  PROVE  IF HoldsNow(PathCondition(n), Values(in))
         THEN \A m \in Beyond(FfrRoot(n)) : FlipOf(in, n)[m] = FlipOf(in, FfrRoot(n))[m]
         ELSE \A m \in Beyond(FfrRoot(n)) : FlipOf(in, n)[m] = Values(in)[m]
<1> DEFINE v == Values(in)
           T == {k \in Nodes :
                   IF HoldsNow(PathCondition(k), v)
                   THEN \A m \in Beyond(FfrRoot(k)) : FlipOf(in, k)[m] = FlipOf(in, FfrRoot(k))[m]
                   ELSE \A m \in Beyond(FfrRoot(k)) : FlipOf(in, k)[m] = v[m]}
<1>1. Sound(v) /\ \A k \in Nodes : Flipped(FlipOf(in, k), v, k)
  BY FlipOfIs
<1> HIDE DEF v
<1>2. ASSUME NEW k \in Nodes, \A j \in Nodes : k < j => j \in T PROVE k \in T
  <2>1. CASE SingleFanout(k)
    <3> DEFINE o == Fanout[k][1]
               side == HoldsNow(SideAt(o, Beside(k)), v)
    <3>1. o \in Nodes /\ k < o
      BY <2>1, SingleFanoutIs
    <3>2. o \in T
      BY <1>2, <3>1
    <3>3. FfrRoot(k) = FfrRoot(o)
      BY <2>1, FfrRootStep
    <3>4. HoldsNow(PathCondition(k), v) <=> side /\ HoldsNow(PathCondition(o), v)
      BY <2>1, PathConditionStep, HoldsBoth
    <3>5. k \notin Beyond(FfrRoot(k))
      BY <2>1, FfrRootFacts DEF Beyond
    <3>6. Beyond(FfrRoot(k)) \subseteq Nodes \ {k}
      BY <3>5 DEF Beyond
    <3>7. IF side THEN \A m \in Nodes \ {k} : FlipOf(in, k)[m] = FlipOf(in, o)[m]
                  ELSE \A m \in Nodes \ {k} : FlipOf(in, k)[m] = v[m]
      BY <1>1, <2>1, <3>1, PathStep
    <3> HIDE DEF o, side
    <3> QED BY <3>2, <3>3, <3>4, <3>6, <3>7
  <2>2. CASE ~ SingleFanout(k)
    <3>1. FfrRoot(k) = k /\ PathCondition(k) = {}
      BY <2>2, FfrRootStep, PathConditionStep
    <3>2. HoldsNow(PathCondition(k), v)
      BY <3>1 DEF HoldsNow
    <3> QED BY <3>1, <3>2
  <2> QED BY <2>1, <2>2
<1>3. Nodes \subseteq T
  <2> HIDE DEF T
  <2> QED BY <1>2, NodesAre, DownInduction
<1> QED BY <1>3 DEF v

-----------------------------------------------------------------------------
(* A fault.                                                                *)

IsFault(f) ==
  /\ f.node \in Nodes /\ f.val \in Bin
  /\ f.pos = 0 \/ f.pos \in DOMAIN Gate[f.node].fanin

\* The line has the other value and the gate lets a difference at it pass.
Exposed(f, v) ==
  /\ v[FaultyLine(f)] = Complement(f.val)
  /\ f.pos # 0 => SidesOpen(f.node, f.pos, Ins(f.node, v))

LEMMA FaultyLineIs ==
  ASSUME Proper, NEW f, IsFault(f)
  PROVE  FaultyLine(f) \in Nodes /\ (f.pos # 0 => FaultyLine(f) < f.node)
  BY FaninFacts DEF FaultyLine, IsFault

LEMMA ExposedIs ==
  ASSUME Proper, NEW f, IsFault(f), NEW type, NEW v
  PROVE  HoldsNow(FfrCondition(f, type), v) <=> Exposed(f, v) /\ HoldsNow(PathCondition(f.node), v)
<1>1. HoldsNow(Activation(f, type), v) <=> v[FaultyLine(f)] = Complement(f.val)
  <2> DEFINE now == Assign(FaultyLine(f), 1, Complement(f.val))
             before == Assign(FaultyLine(f), 0, f.val)
  <2>1. now.time = 1 /\ before.time = 0 /\ now.node = FaultyLine(f) /\ now.val = Complement(f.val)
    BY DEF Assign
  <2>2. Activation(f, type) = {now} \cup (IF type = "TD" THEN {before} ELSE {})
    BY DEF Activation
  <2> HIDE DEF now, before
  <2>3. \A a \in Activation(f, type) : a = now \/ a.time = 0
    BY <2>1, <2>2
  <2>4. now \in Activation(f, type)
    BY <2>2
  <2> QED BY <2>1, <2>3, <2>4 DEF HoldsNow
<1>2. HoldsNow(BranchCondition(f), v) <=> (f.pos # 0 => SidesOpen(f.node, f.pos, Ins(f.node, v)))
  <2>1. CASE f.pos = 0
    BY <2>1 DEF BranchCondition, HoldsNow
  <2>2. CASE f.pos # 0
    <3> DEFINE D == DOMAIN Gate[f.node].fanin
    <3>1. HoldsNow(BranchCondition(f), v)
            <=> (Nval(f.node) # "X" => \A j \in D \ {f.pos} : v[Gate[f.node].fanin[j]] = Nval(f.node))
      BY <2>2, SideAtHolds DEF BranchCondition
    <3>2. \A j \in D : Ins(f.node, v)[j] = v[Gate[f.node].fanin[j]]
      BY DEF Ins
    <3>3. SidesOpen(f.node, f.pos, Ins(f.node, v))
            <=> (Nval(f.node) # "X" => \A j \in D : j # f.pos => v[Gate[f.node].fanin[j]] = Nval(f.node))
      BY <3>2 DEF SidesOpen
    <3> HIDE DEF D
    <3> QED BY <2>2, <3>1, <3>3
  <2> QED BY <2>1, <2>2
<1> QED BY <1>1, <1>2, HoldsBoth DEF FfrCondition, Exposed

(* A fault that is exposed complements its node, another changes nothing. *)
LEMMA FaultAtNode ==
  ASSUME Proper, NEW in \in Inputs, NEW f, IsFault(f)
  PROVE  IF Exposed(f, Values(in)) THEN ValuesUnder(in, f) = FlipOf(in, f.node)
                                   ELSE ValuesUnder(in, f) = Values(in)
<1> DEFINE v == Values(in)
           u == ValuesUnder(in, f)
           n == f.node
           D == DOMAIN Gate[n].fanin
<1>1. Sound(v) /\ \A k \in PPIs : v[k] = in[k]
  BY GoodIsSound
<1>2. Evaluation(in, f, u)
  BY ValuesSolve, InputsAre DEF IsFault
<1>3. u \in [Nodes -> Bin] /\ v \in [Nodes -> Bin] /\ n \in Nodes
  BY <1>1, <1>2 DEF Sound, Evaluation, IsFault
<1>4. Flipped(FlipOf(in, n), v, n)
  BY <1>3, FlipOfIs
<1> HIDE DEF v, u
<1>5. \A m \in Nodes \ {n} : u[m] = IF m \in PPIs THEN v[m] ELSE GateValue(m, u)
  BY <1>1, <1>2, EvaluationIs
<1>6. ASSUME u[n] = Complement(v[n]) PROVE u = FlipOf(in, n)
  <2>1. Flipped(u, v, n)
    BY <1>3, <1>5, <1>6 DEF Flipped
  <2> QED BY <1>4, <2>1, FlippedUnique
<1>7. ASSUME u[n] = v[n] PROVE u = v
  <2> DEFINE T == {m \in Nodes : u[m] = v[m]}
  <2>1. ASSUME NEW m \in Nodes, \A j \in Nodes : j < m => j \in T PROVE m \in T
    <3>1. CASE m = n
      BY <1>7, <3>1
    <3>2. CASE m # n
      <4>1. \A j \in FaninSet(m) : j \in Nodes /\ j < m
        BY FaninFacts DEF FaninSet
      <4>2. GateValue(m, u) = GateValue(m, v)
        BY <2>1, <4>1, SameIns
      <4> QED BY <1>1, <1>5, <3>2, <4>2 DEF Sound
    <3> QED BY <3>1, <3>2
  <2>2. Nodes \subseteq T
    <3> HIDE DEF T
    <3> QED BY <2>1, NodesAre, UpInduction
  <2> QED BY <1>3, <2>2
<1>8. CASE f.pos = 0
  <2>1. u[n] = f.val
    BY <1>2, <1>3, <1>8 DEF Evaluation, NodeValue
  <2>2. Exposed(f, v) <=> v[n] = Complement(f.val)
    BY <1>8 DEF Exposed, FaultyLine
  <2>3. f.val \in Bin /\ v[n] \in Bin
    BY <1>3 DEF IsFault
  <2>4. IF Exposed(f, v) THEN u[n] = Complement(v[n]) ELSE u[n] = v[n]
    BY <2>1, <2>2, <2>3, BinFacts
  <2> QED BY <1>6, <1>7, <2>4 DEF u, v
<1>9. CASE f.pos # 0
  <2> DEFINE k == f.pos
             ins == Ins(n, v)
             ins2 == FaninValues(f, n, u)
  <2>1. /\ k \in D /\ f.val \in Bin /\ n \notin PPIs
    BY <1>9, FaninFacts DEF IsFault, PPIs, NoFanin
  <2>2. \A m \in Nodes : m < n => u[m] = v[m]
    <3> DEFINE T == {m \in Nodes : m < n => u[m] = v[m]}
    <3>1. ASSUME NEW m \in Nodes, \A j \in Nodes : j < m => j \in T PROVE m \in T
      <4> SUFFICES ASSUME m < n PROVE u[m] = v[m]
        OBVIOUS
      <4>1. \A j \in FaninSet(m) : j \in Nodes /\ j < m
        BY FaninFacts DEF FaninSet
      <4>2. \A j \in Nodes : j \in Nat
        BY NodesAre
      <4>3. \A j \in FaninSet(m) : u[j] = v[j]
        BY <1>3, <3>1, <4>1, <4>2
      <4>4. GateValue(m, u) = GateValue(m, v)
        BY <4>3, SameIns
      <4>5. m # n
        BY <1>3, <4>2
      <4> QED BY <1>1, <1>5, <4>4, <4>5 DEF Sound
    <3>2. Nodes \subseteq T
      <4> HIDE DEF T
      <4> QED BY <3>1, NodesAre, UpInduction
    <3> QED BY <3>2
  <2>3. u[n] = Output(Gate[n].type, ins2) /\ v[n] = Output(Gate[n].type, ins)
    <3>1. u[n] = NodeValue(in, f, n, u)
      BY <1>2, <1>3 DEF Evaluation
    <3>2. NodeValue(in, f, n, u) = Output(Gate[n].type, ins2)
      BY <1>3, <1>9, <2>1 DEF NodeValue, PPIs, Nodes
    <3> QED BY <1>1, <1>3, <2>1, <3>1, <3>2 DEF Sound, GateValue
  <2>4. \A j \in D : /\ ins[j] = v[Gate[n].fanin[j]] /\ ins[j] \in Bin
                     /\ ins2[j] = IF j = k THEN f.val ELSE ins[j]
    <3>1. \A j \in D : Gate[n].fanin[j] \in Nodes /\ Gate[n].fanin[j] < n
      BY <1>3, FaninFacts
    <3>2. \A j \in D : ins[j] = v[Gate[n].fanin[j]]
      BY DEF Ins
    <3>3. \A j \in D : ins2[j] = IF j = k THEN f.val ELSE u[Gate[n].fanin[j]]
      BY DEF FaninValues
    <3> HIDE DEF ins, ins2
    <3> QED BY <1>3, <2>2, <3>1, <3>2, <3>3
  <2>5. ins \in [D -> Bin] /\ ins2 \in [D -> Bin]
    <3>1. ins = [j \in D |-> ins[j]] /\ ins2 = [j \in D |-> ins2[j]]
      BY DEF Ins, FaninValues
    <3> HIDE DEF ins, ins2
    <3> QED BY <2>1, <2>4, <3>1
  <2>6. FaultyLine(f) = Gate[n].fanin[k]
    BY <1>9 DEF FaultyLine
  <2> HIDE DEF ins, ins2
  <2>7. Exposed(f, v) <=> ins[k] = Complement(f.val) /\ SidesOpen(n, k, ins)
    BY <1>9, <2>1, <2>4, <2>6 DEF Exposed, ins
  <2>8. CASE ins[k] = f.val
    <3>1. \A j \in D : ins2[j] = ins[j]
      BY <2>4, <2>8
    <3>2. ins2 = ins
      BY <2>5, <3>1
    <3>3. ~ Exposed(f, v)
      BY <2>1, <2>7, <2>8, BinFacts
    <3> QED BY <1>7, <2>3, <3>2, <3>3 DEF u, v
  <2>9. CASE ins[k] # f.val
    <3>1. DifferAt(n, k, ins, ins2)
      BY <2>1, <2>4, <2>5, <2>9 DEF DifferAt
    <3>2. ins[k] = Complement(f.val)
      BY <2>1, <2>4, <2>9, BinFacts
    <3>3. IF Exposed(f, v) THEN u[n] = Complement(v[n]) ELSE u[n] = v[n]
      BY <1>3, <2>3, <2>7, <3>1, <3>2, DifferencePasses, DifferenceStops
    <3> QED BY <1>6, <1>7, <3>3 DEF u, v
  <2> QED BY <2>8, <2>9
<1> QED BY <1>8, <1>9

(* The condition of a region is exact: with it the fault is, beyond the      *)
(* region's inner nodes, the complement of the root, without it nothing.     *)
LEMMA RegionExact ==
  ASSUME Proper, NEW in \in Inputs, NEW f, IsFault(f), NEW type
  PROVE  IF HoldsNow(FfrCondition(f, type), Values(in))
         THEN \A m \in Beyond(FfrRoot(f.node)) :
                ValuesUnder(in, f)[m] = FlipOf(in, FfrRoot(f.node))[m]
         ELSE \A m \in Beyond(FfrRoot(f.node)) : ValuesUnder(in, f)[m] = Values(in)[m]
  BY ExposedIs, FaultAtNode, RegionPath DEF IsFault

-----------------------------------------------------------------------------
(* Cones: what one sweep over the nodes collects.                          *)

Sweeps(n, S, at, next, g) ==
  [k \in 0 .. n |-> IF k = 0 THEN S
                    ELSE g[k - 1] \cup IF at[k] \in g[k - 1] THEN next[at[k]] ELSE {}]

\* at lists the elements of D so that next leads to later ones.
IsSweep(n, D, S, at, next) ==
  /\ n \in Nat /\ S \subseteq D /\ at \in [1 .. n -> D] /\ next \in [D -> SUBSET D]
  /\ \A d \in D : \E i \in 1 .. n : at[i] = d
  /\ \A i \in 1 .. n : \A j \in 1 .. i : at[j] \notin next[at[i]]

Closed(T, next) == \A d \in T : next[d] \subseteq T

LEMMA SweepExists ==
  ASSUME NEW n, NEW D, NEW S, NEW at, NEW next, IsSweep(n, D, S, at, next)
  PROVE  \E g : g = Sweeps(n, S, at, next, g)
<1> USE DEF IsSweep
<1> DEFINE A == SUBSET D
           step == [i \in 1 .. n |-> [a \in A |-> a \cup IF at[i] \in a THEN next[at[i]] ELSE {}]]
<1>1. StepsIn(n, A, S, step)
  <2>1. ASSUME NEW i \in 1 .. n, NEW a \in A PROVE step[i][a] \in A
    <3>1. next[at[i]] \subseteq D
      OBVIOUS
    <3> QED BY <3>1
  <2>2. n \in Nat /\ S \in A
    OBVIOUS
  <2> HIDE DEF step, A, IsSweep
  <2>3. \A i \in 1 .. n, a \in A : step[i][a] \in A
    BY <2>1
  <2> QED BY <2>2, <2>3, Zenon DEF StepsIn
<1>2. PICK g \in [0 .. n -> A] : g = Steps(n, S, step, g)
  <2> HIDE DEF step, A, IsSweep
  <2>1. \A B, t, h : StepsIn(n, B, t, h) => \E g \in [0 .. n -> B] : g = Steps(n, t, h, g)
    BY RecursionTo
  <2> QED BY <1>1, <2>1
<1>3. \A i \in 1 .. n : i - 1 \in 0 .. n /\ g[i - 1] \in A
  OBVIOUS
<1>4. \A i \in 1 .. n : step[i][g[i - 1]] = g[i - 1] \cup IF at[i] \in g[i - 1] THEN next[at[i]] ELSE {}
  BY <1>3
<1>5. Steps(n, S, step, g) = Sweeps(n, S, at, next, g)
  <2> HIDE DEF step, A
  <2>1. \A i \in 0 .. n : i # 0 => i \in 1 .. n
    OBVIOUS
  <2> QED BY <1>4, <2>1 DEF Steps, Sweeps
<1> QED BY <1>2, <1>5

LEMMA SweepCollects ==
  ASSUME NEW n, NEW D, NEW S, NEW at, NEW next, IsSweep(n, D, S, at, next),
         NEW g, g = Sweeps(n, S, at, next, g)
  PROVE  /\ S \subseteq g[n] /\ g[n] \subseteq D /\ Closed(g[n], next)
         /\ \A T : S \subseteq T /\ Closed(T, next) => g[n] \subseteq T
<1> USE DEF IsSweep
<1>1. /\ g[0] = S
      /\ \A i \in 1 .. n : g[i] = g[i - 1] \cup IF at[i] \in g[i - 1] THEN next[at[i]] ELSE {}
  <2>1. \A i \in 0 .. n : g[i] = IF i = 0 THEN S ELSE g[i - 1] \cup IF at[i] \in g[i - 1] THEN next[at[i]] ELSE {}
    BY DEF Sweeps
  <2>2. 0 \in 0 .. n /\ \A i \in 1 .. n : i \in 0 .. n /\ i # 0
    OBVIOUS
  <2> QED BY <2>1, <2>2
<1> DEFINE Fine(i) == /\ S \subseteq g[i] /\ g[i] \subseteq D
                      /\ \A j \in 1 .. i : at[j] \in g[i] => next[at[j]] \subseteq g[i]
                      /\ \A T : S \subseteq T /\ Closed(T, next) => g[i] \subseteq T
           F == {i \in 0 .. n : Fine(i)}
<1>2. 0 .. n \subseteq F
  <2>1. 0 \in F
    BY <1>1
  <2>2. ASSUME NEW i \in 1 .. n, i - 1 \in F PROVE i \in F
    <3>1. Fine(i - 1) /\ i \in 0 .. n
      BY <2>2
    <3>2. g[i] = g[i - 1] \cup IF at[i] \in g[i - 1] THEN next[at[i]] ELSE {}
      BY <1>1
    <3>3. at[i] \in D /\ next[at[i]] \subseteq D
      OBVIOUS
    <3>4. S \subseteq g[i] /\ g[i] \subseteq D
      BY <3>1, <3>2, <3>3
    <3>5. ASSUME NEW j \in 1 .. i, at[j] \in g[i] PROVE next[at[j]] \subseteq g[i]
      <4>1. at[j] \notin next[at[i]]
        OBVIOUS
      <4>2. at[j] \in g[i - 1]
        BY <3>2, <3>5, <4>1
      <4>3. CASE j = i
        BY <3>2, <4>2, <4>3
      <4>4. CASE j # i
        <5>1. j \in 1 .. i - 1
          BY <4>4
        <5> QED BY <3>1, <3>2, <4>2, <5>1
      <4> QED BY <4>3, <4>4
    <3>6. ASSUME NEW T, S \subseteq T, Closed(T, next) PROVE g[i] \subseteq T
      <4>1. g[i - 1] \subseteq T
        BY <3>1, <3>6
      <4>2. at[i] \in g[i - 1] => next[at[i]] \subseteq T
        BY <4>1, <3>6 DEF Closed
      <4> QED BY <3>2, <4>1, <4>2
    <3> QED BY <3>1, <3>4, <3>5, <3>6
  <2> HIDE DEF F
  <2> QED BY <2>1, <2>2, InductionTo
<1>3. Fine(n)
  BY <1>2
<1>4. Closed(g[n], next)
  <2> SUFFICES ASSUME NEW d \in g[n] PROVE next[d] \subseteq g[n]
    BY DEF Closed
  <2>1. PICK i \in 1 .. n : at[i] = d
    BY <1>3
  <2> QED BY <1>3, <2>1
<1> QED BY <1>3, <1>4

\* As the definitions write it.
ForwardBy(S, g) ==
  [k \in 0 .. Len(Gate) |-> IF k = 0 THEN S
     ELSE LET rest == g[k - 1] IN rest \cup IF k \in rest THEN FanoutSet(k) ELSE {}]

LEMMA TfoFacts ==
  ASSUME Proper, NEW S, S \subseteq Nodes
  PROVE  /\ S \subseteq Tfo(S) /\ Tfo(S) \subseteq Nodes
         /\ \A n \in Tfo(S) : FanoutSet(n) \subseteq Tfo(S)
         /\ \A T : S \subseteq T /\ (\A n \in T \cap Nodes : FanoutSet(n) \subseteq T) => Tfo(S) \subseteq T
<1> DEFINE N == Len(Gate)
           at == [k \in 1 .. N |-> k]
           next == [k \in Nodes |-> FanoutSet(k)]
           s == CHOOSE g : g = ForwardBy(S, g)
<1>1. N \in Nat /\ Nodes = 1 .. N
  BY NodesAre
<1>2. IsSweep(N, Nodes, S, at, next)
  <2>1. \A k \in Nodes : FanoutSet(k) \subseteq Nodes /\ \A o \in FanoutSet(k) : k < o
    BY FanoutFacts
  <2>2. at \in [1 .. N -> Nodes] /\ next \in [Nodes -> SUBSET Nodes]
    BY <1>1, <2>1
  <2>3. \A d \in Nodes : \E i \in 1 .. N : at[i] = d
    BY <1>1
  <2>4. \A i \in 1 .. N : \A j \in 1 .. i : at[j] \notin next[at[i]]
    <3> SUFFICES ASSUME NEW i \in 1 .. N, NEW j \in 1 .. i, j \in FanoutSet(i) PROVE FALSE
      BY <1>1
    <3>1. i < j
      BY <1>1, <2>1
    <3> QED BY <1>1, <3>1
  <2> HIDE DEF at, next
  <2> QED BY <1>1, <2>2, <2>3, <2>4 DEF IsSweep
<1>3. \A g : ForwardBy(S, g) = Sweeps(N, S, at, next, g)
  <2> SUFFICES ASSUME NEW g PROVE ForwardBy(S, g) = Sweeps(N, S, at, next, g)
    OBVIOUS
  <2>1. \A k \in 0 .. N : k # 0 => at[k] = k /\ next[at[k]] = FanoutSet(k)
    BY <1>1
  <2> HIDE DEF at, next
  <2> QED BY <2>1 DEF ForwardBy, Sweeps
<1>4. \E g : g = ForwardBy(S, g)
  <2> HIDE DEF at, next
  <2> QED BY <1>2, <1>3, SweepExists
<1>5. s = Sweeps(N, S, at, next, s)
  <2>1. s = ForwardBy(S, s)
    BY <1>4
  <2> HIDE DEF s, at, next
  <2> QED BY <1>3, <2>1
<1>6. Tfo(S) = s[N]
  BY Zenon DEF Tfo, ForwardBy
<1>7. /\ S \subseteq s[N] /\ s[N] \subseteq Nodes /\ Closed(s[N], next)
      /\ \A T : S \subseteq T /\ Closed(T, next) => s[N] \subseteq T
  <2> HIDE DEF s, at, next
  <2> QED BY <1>2, <1>5, SweepCollects
<1>8. \A n \in s[N] : FanoutSet(n) \subseteq s[N]
  <2> HIDE DEF s
  <2> QED BY <1>7 DEF Closed
<1>9. ASSUME NEW T, S \subseteq T, \A n \in T \cap Nodes : FanoutSet(n) \subseteq T PROVE s[N] \subseteq T
  <2> HIDE DEF s
  <2>1. Closed(T \cap Nodes, next)
    BY <1>9, FanoutFacts DEF Closed
  <2>2. S \subseteq T \cap Nodes
    BY <1>9
  <2> HIDE DEF next
  <2>3. s[N] \subseteq T \cap Nodes
    BY <2>1, <2>2, <1>7
  <2> QED BY <2>3
<1> HIDE DEF s, next, at
<1> QED BY <1>6, <1>7, <1>8, <1>9

BackwardBy(S, g) ==
  [k \in 0 .. Len(Gate) |-> IF k = 0 THEN S
     ELSE LET rest == g[k - 1]
          IN  rest \cup IF Len(Gate) + 1 - k \in rest THEN FaninSet(Len(Gate) + 1 - k) ELSE {}]

\* A sweep from the last node to the first, with fanins or some of them.
LEMMA DownSweep ==
  ASSUME Proper, NEW S, S \subseteq Nodes, NEW next \in [Nodes -> SUBSET Nodes],
         \A n \in Nodes : next[n] \subseteq FaninSet(n)
  PROVE  IsSweep(Len(Gate), Nodes, S, [k \in 1 .. Len(Gate) |-> Len(Gate) + 1 - k], next)
<1> DEFINE N == Len(Gate)
           at == [k \in 1 .. N |-> N + 1 - k]
<1>1. N \in Nat /\ Nodes = 1 .. N
  BY NodesAre
<1>2. at \in [1 .. N -> Nodes]
  BY <1>1
<1>3. ASSUME NEW d \in Nodes PROVE \E i \in 1 .. N : at[i] = d
  <2>1. N + 1 - d \in 1 .. N /\ at[N + 1 - d] = d
    BY <1>1
  <2> HIDE DEF at
  <2> QED BY <2>1
<1>4. ASSUME NEW i \in 1 .. N, NEW j \in 1 .. i PROVE at[j] \notin next[at[i]]
  <2>1. at[i] \in Nodes /\ at[j] \in Nodes /\ ~ (at[j] < at[i])
    BY <1>1
  <2> HIDE DEF at
  <2> QED BY <2>1, FaninFacts DEF FaninSet
<1> HIDE DEF at
<1>5. IsSweep(N, Nodes, S, at, next)
  BY <1>1, <1>2, <1>3, <1>4 DEF IsSweep
<1> QED BY <1>5 DEF at

LEMMA TfiFacts ==
  ASSUME Proper, NEW S, S \subseteq Nodes
  PROVE  /\ S \subseteq Tfi(S) /\ Tfi(S) \subseteq Nodes
         /\ \A n \in Tfi(S) : FaninSet(n) \subseteq Tfi(S)
         /\ \A T : S \subseteq T /\ (\A n \in T \cap Nodes : FaninSet(n) \subseteq T) => Tfi(S) \subseteq T
<1> DEFINE N == Len(Gate)
           at == [k \in 1 .. N |-> N + 1 - k]
           next == [k \in Nodes |-> FaninSet(k)]
           s == CHOOSE g : g = BackwardBy(S, g)
<1>1. N \in Nat /\ Nodes = 1 .. N
  BY NodesAre
<1>2. IsSweep(N, Nodes, S, at, next)
  <2>1. next \in [Nodes -> SUBSET Nodes] /\ \A n \in Nodes : next[n] \subseteq FaninSet(n)
    BY FaninFacts DEF FaninSet
  <2> HIDE DEF next
  <2> QED BY <2>1, DownSweep
<1>3. \A g : BackwardBy(S, g) = Sweeps(N, S, at, next, g)
  <2> SUFFICES ASSUME NEW g PROVE BackwardBy(S, g) = Sweeps(N, S, at, next, g)
    OBVIOUS
  <2>1. \A k \in 0 .. N : k # 0 => at[k] = N + 1 - k /\ next[at[k]] = FaninSet(N + 1 - k)
    BY <1>1
  <2> HIDE DEF at, next
  <2> QED BY <2>1 DEF BackwardBy, Sweeps
<1>4. \E g : g = BackwardBy(S, g)
  <2> HIDE DEF at, next
  <2> QED BY <1>2, <1>3, SweepExists
<1>5. s = Sweeps(N, S, at, next, s)
  <2>1. s = BackwardBy(S, s)
    BY <1>4
  <2> HIDE DEF s, at, next
  <2> QED BY <1>3, <2>1
<1>6. Tfi(S) = s[N]
  BY Zenon DEF Tfi, BackwardBy
<1>7. /\ S \subseteq s[N] /\ s[N] \subseteq Nodes /\ Closed(s[N], next)
      /\ \A T : S \subseteq T /\ Closed(T, next) => s[N] \subseteq T
  <2> HIDE DEF s, at, next
  <2> QED BY <1>2, <1>5, SweepCollects
<1>8. \A n \in s[N] : FaninSet(n) \subseteq s[N]
  <2> HIDE DEF s
  <2> QED BY <1>7 DEF Closed
<1>9. ASSUME NEW T, S \subseteq T, \A n \in T \cap Nodes : FaninSet(n) \subseteq T PROVE s[N] \subseteq T
  <2> HIDE DEF s
  <2>1. Closed(T \cap Nodes, next)
    BY <1>9, FaninFacts DEF Closed, FaninSet
  <2>2. S \subseteq T \cap Nodes
    BY <1>9
  <2> HIDE DEF next
  <2>3. s[N] \subseteq T \cap Nodes
    BY <2>1, <2>2, <1>7
  <2> QED BY <2>3
<1> HIDE DEF s, next, at
<1> QED BY <1>6, <1>7, <1>8, <1>9

\* The data part: with a node its fanins, and a fanout unless it is an output.
LEMMA DataFacts ==
  ASSUME Proper
  PROVE  /\ DataNodes \subseteq Nodes
         /\ \A n \in DataNodes : FaninSet(n) \subseteq DataNodes
         /\ \A n \in DataNodes : n \in PPOs \/ \E o \in FanoutSet(n) : o \in DataNodes
<1>1. PPOs \subseteq Nodes
  BY InputsAre
<1>2. /\ PPOs \subseteq DataNodes /\ DataNodes \subseteq Nodes
      /\ \A n \in DataNodes : FaninSet(n) \subseteq DataNodes
      /\ \A T : PPOs \subseteq T /\ (\A n \in T \cap Nodes : FaninSet(n) \subseteq T) => DataNodes \subseteq T
  BY <1>1, TfiFacts DEF DataNodes
<1> DEFINE T == {n \in DataNodes : n \in PPOs \/ \E o \in FanoutSet(n) : o \in DataNodes}
<1>3. \A n \in T \cap Nodes : FaninSet(n) \subseteq T
  <2> SUFFICES ASSUME NEW n \in T, NEW m \in FaninSet(n) PROVE m \in T
    OBVIOUS
  <2>1. n \in DataNodes /\ n \in Nodes /\ m \in DataNodes /\ m \in Nodes
    BY <1>2
  <2>2. n \in FanoutSet(m)
    BY <2>1, FanoutFacts
  <2> QED BY <2>1, <2>2
<1>4. PPOs \subseteq T
  BY <1>2
<1> HIDE DEF T
<1>5. DataNodes \subseteq T
  BY <1>2, <1>3, <1>4
<1> QED BY <1>2, <1>5 DEF T

(* The fault cone of a node: nothing outside it changes with the node, and   *)
(* a node of it other than the first is a gate with a fanin in it.            *)
LEMMA ConeFacts ==
  ASSUME Proper, NEW o \in Nodes
  PROVE  /\ o \in Tfo({o}) /\ Tfo({o}) \subseteq Nodes
         /\ \A n \in Tfo({o}) : FanoutSet(n) \subseteq Tfo({o})
         /\ \A n \in Tfo({o}) : n # o => n \notin PPIs /\ \E i \in FaninSet(n) : i \in Tfo({o})
         /\ \A i \in FaninSet(o) : i \notin Tfo({o})
<1> DEFINE T == Tfo({o})
           T2 == {n \in T : n = o \/ \E i \in FaninSet(n) : i \in T}
           T3 == {n \in Nodes : o <= n}
<1>1. /\ o \in T /\ T \subseteq Nodes /\ \A n \in T : FanoutSet(n) \subseteq T
      /\ \A U : o \in U /\ (\A n \in U \cap Nodes : FanoutSet(n) \subseteq U) => T \subseteq U
  BY TfoFacts
<1> HIDE DEF T
<1>2. T \subseteq T2
  <2>1. o \in T2
    BY <1>1
  <2>2. ASSUME NEW n \in T2 \cap Nodes, NEW x \in FanoutSet(n) PROVE x \in T2
    <3>1. x \in T /\ n \in T
      BY <1>1
    <3>2. n \in FaninSet(x)
      BY <1>1, <3>1, FanoutFacts
    <3> QED BY <3>1, <3>2
  <2> HIDE DEF T2
  <2> QED BY <1>1, <2>1, <2>2
<1>3. T \subseteq T3
  <2>1. o \in T3
    BY NodesAre
  <2>2. ASSUME NEW n \in T3 \cap Nodes, NEW x \in FanoutSet(n) PROVE x \in T3
    BY FanoutFacts, NodesAre
  <2> HIDE DEF T3
  <2> QED BY <1>1, <2>1, <2>2
<1>4. ASSUME NEW n \in T, n # o PROVE n \notin PPIs /\ \E i \in FaninSet(n) : i \in T
  <2>1. PICK i \in FaninSet(n) : i \in T
    BY <1>2, <1>4
  <2>2. n \notin PPIs
    BY <1>1, <2>1, FaninFacts DEF FaninSet, PPIs, NoFanin
  <2> QED BY <2>1, <2>2
<1>5. \A i \in FaninSet(o) : i \notin T
  <2>1. \A i \in FaninSet(o) : i \in Nodes /\ i < o
    BY FaninFacts DEF FaninSet
  <2> QED BY <1>3, <2>1, NodesAre
<1> QED BY <1>1, <1>4, <1>5 DEF T

-----------------------------------------------------------------------------
(* Values that decide others.                                              *)

(* A fanin with the controlling value decides the output of its gate.       *)
LEMMA ControlledIs ==
  ASSUME Proper, NEW n \in Nodes, NEW v \in [Nodes -> Bin],
         NEW i \in FaninSet(n), v[i] = ControlValue(Gate[n].type)
  PROVE  GateValue(n, v) = ControlledOutput(Gate[n].type)
<1> DEFINE ins == Ins(n, v)
<1>1. PICK k \in DOMAIN Gate[n].fanin : Gate[n].fanin[k] = i
  BY DEF FaninSet
<1>2. DOMAIN ins = DOMAIN Gate[n].fanin /\ \A j \in DOMAIN ins : ins[j] \in Bin
  BY FaninFacts DEF Ins
<1>3. ins[k] = ControlValue(Gate[n].type)
  BY <1>1 DEF Ins
<1>4. ins[k] # "X"
  BY <1>1, <1>2 DEF Bin
<1>5. \/ Gate[n].type \in {"And", "Nand"} /\ ControlValue(Gate[n].type) = "0"
      \/ Gate[n].type \in {"Or", "Nor"} /\ ControlValue(Gate[n].type) = "1"
  <2>1. DOMAIN Gate[n].fanin # {}
    BY <1>1
  <2> HIDE DEF ins
  <2> QED BY <2>1, <1>3, <1>4, GateCases
<1>6. Output(Gate[n].type, ins) = GateFunction(Gate[n].type, ins)
  <2>1. DOMAIN Gate[n].fanin # {} /\ Gate[n].type \in GateTypes
    BY <1>1, <1>5 DEF GateTypes
  <2> HIDE DEF ins
  <2> QED BY <2>1, OutputIs
<1> HIDE DEF ins
<1>7. Gate[n].type \in {"And", "Nand"} => AndOf(ins) = "0"
  BY <1>1, <1>2, <1>3, <1>5 DEF AndOf, Some
<1>8. Gate[n].type \in {"Or", "Nor"} => OrOf(ins) = "1"
  BY <1>1, <1>2, <1>3, <1>5 DEF OrOf, Some
<1>9. GateFunction(Gate[n].type, ins) = ControlledOutput(Gate[n].type)
  BY <1>5, <1>7, <1>8 DEF GateFunction, ControlledOutput, Complement
<1> QED BY <1>6, <1>9 DEF GateValue, ins

(* Justification.  Nodes that each have either a fanin with the controlling  *)
(* value or all of their fanins among them have their values for every input *)
(* that has those of the inputs among them.                                  *)
Justified(M, v) ==
  /\ M \subseteq Nodes
  /\ \A n \in M : \/ n \in PPIs
                  \/ \E i \in FaninSet(n) \cap M : v[i] = ControlValue(Gate[n].type)
                  \/ FaninSet(n) \subseteq M

LEMMA JustifiedAgree ==
  ASSUME Proper, NEW v, Sound(v), NEW w, Sound(w), NEW M, Justified(M, v),
         \A n \in M \cap PPIs : w[n] = v[n]
  PROVE  \A n \in M : w[n] = v[n]
<1> DEFINE S == {n \in Nodes : n \in M => w[n] = v[n]}
<1>1. ASSUME NEW n \in Nodes, \A j \in Nodes : j < n => j \in S PROVE n \in S
  <2> SUFFICES ASSUME n \in M, n \notin PPIs PROVE w[n] = v[n]
    OBVIOUS
  <2>1. \A i \in FaninSet(n) \cap M : w[i] = v[i]
    BY <1>1, FaninFacts DEF FaninSet
  <2>2. v[n] = GateValue(n, v) /\ w[n] = GateValue(n, w)
    BY DEF Sound
  <2>3. CASE \E i \in FaninSet(n) \cap M : v[i] = ControlValue(Gate[n].type)
    BY <2>1, <2>2, <2>3, ControlledIs DEF Sound
  <2>4. CASE FaninSet(n) \subseteq M
    BY <2>1, <2>2, <2>4, SameIns
  <2> QED BY <2>3, <2>4 DEF Justified
<1>2. Nodes \subseteq S
  <2> HIDE DEF S
  <2> QED BY <1>1, NodesAre, UpInduction
<1> QED BY <1>2 DEF Justified

(* Extraction.  u is v with node o complemented, x is w with node o          *)
(* complemented.  Swapped: the node says in w and x what it says in v and u, *)
(* the other way round if o has other values in w and v.                     *)
Swapped(n, o, v, u, w, x) ==
  IF w[o] = v[o] THEN w[n] = v[n] /\ x[n] = u[n] ELSE w[n] = u[n] /\ x[n] = v[n]

LEMMA SwappedAtOrigin ==
  ASSUME NEW o, NEW v, Sound(v), NEW u, Flipped(u, v, o), NEW w, Sound(w), NEW x, Flipped(x, w, o)
  PROVE  Swapped(o, o, v, u, w, x)
<1>1. /\ v[o] \in Bin /\ w[o] \in Bin
      /\ u[o] = Complement(v[o]) /\ x[o] = Complement(w[o])
  BY DEF Sound, Flipped
<1> QED BY <1>1, BinFacts DEF Swapped

\* Outside the cone the two pairs are equal.
LEMMA SwappedOutside ==
  ASSUME Proper, NEW o \in Nodes, NEW v, Sound(v), NEW u, Flipped(u, v, o),
         NEW w, Sound(w), NEW x, Flipped(x, w, o), NEW n \in Nodes \ Tfo({o})
  PROVE  u[n] = v[n] /\ x[n] = w[n] /\ (w[n] = v[n] => Swapped(n, o, v, u, w, x))
<1>1. o \in Tfo({o}) /\ \A i \in Tfo({o}) : FanoutSet(i) \subseteq Tfo({o})
  BY ConeFacts
<1>2. u[n] = v[n] /\ x[n] = w[n]
  BY <1>1, FlippedOutside
<1> QED BY <1>2 DEF Swapped

\* A gate inherits it from all of its fanins, or from one that blocks it.
LEMMA SwappedGate ==
  ASSUME Proper, NEW o, NEW v, Sound(v), NEW u, Flipped(u, v, o),
         NEW w, Sound(w), NEW x, Flipped(x, w, o),
         NEW n \in Nodes \ PPIs, n # o,
         \/ \A i \in FaninSet(n) : Swapped(i, o, v, u, w, x)
         \/ \E i \in FaninSet(n) : /\ Swapped(i, o, v, u, w, x) /\ u[i] = v[i]
                                   /\ v[i] = ControlValue(Gate[n].type)
  PROVE  Swapped(n, o, v, u, w, x)
<1>1. /\ v[n] = GateValue(n, v) /\ u[n] = GateValue(n, u)
      /\ w[n] = GateValue(n, w) /\ x[n] = GateValue(n, x)
  BY DEF Sound, Flipped
<1>2. v \in [Nodes -> Bin] /\ u \in [Nodes -> Bin] /\ w \in [Nodes -> Bin] /\ x \in [Nodes -> Bin]
  BY DEF Sound, Flipped
<1>3. CASE \A i \in FaninSet(n) : Swapped(i, o, v, u, w, x)
  <2>1. CASE w[o] = v[o]
    <3>1. \A i \in FaninSet(n) : w[i] = v[i] /\ x[i] = u[i]
      BY <1>3, <2>1 DEF Swapped
    <3> QED BY <2>1, <3>1, <1>1, SameIns DEF Swapped
  <2>2. CASE w[o] # v[o]
    <3>1. \A i \in FaninSet(n) : w[i] = u[i] /\ x[i] = v[i]
      BY <1>3, <2>2 DEF Swapped
    <3> QED BY <2>2, <3>1, <1>1, SameIns DEF Swapped
  <2> QED BY <2>1, <2>2
<1>4. ASSUME NEW i \in FaninSet(n), Swapped(i, o, v, u, w, x), u[i] = v[i],
             v[i] = ControlValue(Gate[n].type)
      PROVE  Swapped(n, o, v, u, w, x)
  <2>1. w[i] = v[i] /\ x[i] = v[i]
    BY <1>4 DEF Swapped
  <2>2. /\ v[n] = ControlledOutput(Gate[n].type) /\ u[n] = ControlledOutput(Gate[n].type)
        /\ w[n] = ControlledOutput(Gate[n].type) /\ x[n] = ControlledOutput(Gate[n].type)
    BY <1>1, <1>2, <1>4, <2>1, ControlledIs
  <2> QED BY <2>2 DEF Swapped
<1> QED BY <1>3, <1>4

(* What Extractor records: the nodes of R are in the cone of o, and each is  *)
(* followed to all of its fanins in the cone, or has a fanin outside of it   *)
(* that blocks the difference.  Side are the fanins outside of the cone.     *)
Sensitised(R, side, o, v) ==
  /\ R \subseteq Tfo({o})
  /\ \A n \in R : \/ \A i \in FaninSet(n) : IF i \in Tfo({o}) THEN i \in R ELSE i \in side
                  \/ \E i \in FaninSet(n) : /\ i \notin Tfo({o}) /\ i \in side
                                            /\ v[i] = ControlValue(Gate[n].type)

LEMMA SensitisedSwaps ==
  ASSUME Proper, NEW o \in Nodes, NEW v, Sound(v), NEW u, Flipped(u, v, o),
         NEW w, Sound(w), NEW x, Flipped(x, w, o),
         NEW R, NEW side, Sensitised(R, side, o, v), \A i \in side : w[i] = v[i]
  PROVE  \A n \in R : Swapped(n, o, v, u, w, x)
<1> DEFINE S == {n \in Nodes : n \in R => Swapped(n, o, v, u, w, x)}
<1>1. ASSUME NEW n \in Nodes, \A j \in Nodes : j < n => j \in S PROVE n \in S
  <2> SUFFICES ASSUME n \in R PROVE Swapped(n, o, v, u, w, x)
    OBVIOUS
  <2>1. CASE n = o
    BY <2>1, SwappedAtOrigin
  <2>2. CASE n # o
    <3>1. n \notin PPIs
      BY <2>2, ConeFacts DEF Sensitised
    <3>2. \A i \in FaninSet(n) : i \in Nodes /\ i < n
      BY FaninFacts DEF FaninSet
    <3>3. \A i \in FaninSet(n) \cap R : Swapped(i, o, v, u, w, x)
      BY <1>1, <3>2
    <3>4. \A i \in FaninSet(n) : i \in side /\ i \notin Tfo({o}) => Swapped(i, o, v, u, w, x) /\ u[i] = v[i]
      BY <3>2, SwappedOutside
    <3>5. \/ \A i \in FaninSet(n) : Swapped(i, o, v, u, w, x)
          \/ \E i \in FaninSet(n) : /\ Swapped(i, o, v, u, w, x) /\ u[i] = v[i]
                                    /\ v[i] = ControlValue(Gate[n].type)
      BY <3>3, <3>4 DEF Sensitised
    <3> QED BY <2>2, <3>1, <3>5, SwappedGate
  <2> QED BY <2>1, <2>2
<1>2. Nodes \subseteq S
  <2> HIDE DEF S
  <2> QED BY <1>1, NodesAre, UpInduction
<1>3. R \subseteq Nodes
  BY ConeFacts DEF Sensitised
<1> QED BY <1>2, <1>3

\* A node that is swapped shows the difference in one pair iff in the other.
LEMMA SwappedDiffers ==
  ASSUME NEW n, NEW o, NEW v, NEW u, NEW w, NEW x, Swapped(n, o, v, u, w, x), v[n] # u[n]
  PROVE  w[n] # x[n]
  BY DEF Swapped

(* Propagation.  A carrier of the difference between v and u is a set of     *)
(* nodes that differ and are outputs or have a fanout in it.                  *)
Carrier(Q, v, u) ==
  /\ Q \subseteq Nodes
  /\ \A n \in Q : v[n] # u[n] /\ (n \in PPOs \/ \E x \in FanoutSet(n) : x \in Q)

\* The nodes from which the difference reaches an output.
Carriers(v, u) == UNION {Q \in SUBSET Nodes : Carrier(Q, v, u)}

LEMMA CarriersCarry ==
  ASSUME NEW v, NEW u
  PROVE  /\ Carrier(Carriers(v, u), v, u)
         /\ \A Q : Carrier(Q, v, u) => Q \subseteq Carriers(v, u)
  BY DEF Carriers, Carrier

LEMMA Greatest ==
  ASSUME Proper, NEW Q, Q \subseteq Nodes, Q # {}
  PROVE  \E x \in Q : \A y \in Q : ~ (x < y)
<1> DEFINE N == Len(Gate)
           T == {N - x : x \in Q}
<1>1. N \in Nat /\ \A x \in Q : x \in Nat /\ x <= N
  BY NodesAre
<1>2. T \subseteq Nat /\ T # {}
  BY <1>1
<1>3. PICK t \in T : \A s \in T : t <= s
  <2> HIDE DEF T
  <2> QED BY <1>2, NatLeast
<1>4. PICK x \in Q : t = N - x
  BY <1>3
<1>5. ASSUME NEW y \in Q PROVE ~ (x < y)
  <2>1. N - x <= N - y
    BY <1>3, <1>4
  <2> QED BY <2>1, <1>1
<1> QED BY <1>5

(* An output that differs: the difference reaches it from the complemented   *)
(* node, every node on the way lets it pass.                                 *)
LEMMA OriginCarries ==
  ASSUME Proper, NEW o \in Nodes, NEW v, Sound(v), NEW u, Flipped(u, v, o),
         NEW p \in PPOs, v[p] # u[p]
  PROVE  o \in Carriers(v, u)
<1> DEFINE P == Carriers(v, u)
<1>1. Carrier(P, v, u) /\ \A Q : Carrier(Q, v, u) => Q \subseteq P
  BY CarriersCarry
<1>2. p \in P
  <2>1. Carrier({p}, v, u)
    BY InputsAre DEF Carrier
  <2> QED BY <1>1, <2>1
<1> HIDE DEF P
<1>3. P \subseteq Nodes
  BY <1>1 DEF Carrier
<1>4. PICK x \in P : \A y \in P : x <= y
  <2>1. P \subseteq Nat
    BY <1>3, NodesAre
  <2> QED BY <1>2, <2>1, NatLeast
<1>5. CASE x = o
  BY <1>5 DEF P
<1>6. CASE x # o
  <2>1. x \in Nodes /\ v[x] # u[x]
    BY <1>1, <1>3 DEF Carrier
  <2>2. x \notin PPIs
    BY <1>6, <2>1 DEF Flipped
  <2>3. v[x] = GateValue(x, v) /\ u[x] = GateValue(x, u)
    BY <1>6, <2>1, <2>2 DEF Sound, Flipped
  <2>4. PICK y \in FaninSet(x) : u[y] # v[y]
    BY <2>1, <2>3, SameIns
  <2>5. y \in Nodes /\ y < x /\ x \in FanoutSet(y)
    <3>1. y \in Nodes /\ y < x
      BY <2>1, FaninFacts DEF FaninSet
    <3> QED BY <3>1, <2>1, FanoutFacts
  <2>6. Carrier(P \cup {y}, v, u)
    BY <1>1, <2>4, <2>5 DEF Carrier
  <2>7. y \in P
    BY <1>1, <2>6
  <2> QED BY <1>3, <1>4, <2>5, <2>7, NodesAre
<1> QED BY <1>5, <1>6

\* A carrier ends in an output.
LEMMA CarrierEnds ==
  ASSUME Proper, NEW v, NEW u, NEW P, Carrier(P, v, u), NEW x \in P
  PROVE  \E y \in P : y \in PPOs /\ y \in Tfo({x})
<1>1. x \in Tfo({x}) /\ \A n \in Tfo({x}) : FanoutSet(n) \subseteq Tfo({x})
  BY ConeFacts DEF Carrier
<1>2. PICK y \in P \cap Tfo({x}) : \A z \in P \cap Tfo({x}) : ~ (y < z)
  <2>1. P \cap Tfo({x}) \subseteq Nodes /\ P \cap Tfo({x}) # {}
    BY <1>1 DEF Carrier
  <2> QED BY <2>1, Greatest
<1>3. y \in PPOs
  <2> SUFFICES ASSUME y \notin PPOs PROVE FALSE
    OBVIOUS
  <2>1. PICK z \in FanoutSet(y) : z \in P
    BY DEF Carrier
  <2>2. z \in Tfo({x}) /\ y < z
    BY <1>1, FanoutFacts DEF Carrier
  <2> QED BY <1>2, <2>1, <2>2
<1> QED BY <1>2, <1>3

(* A node d on all ways of n to an output: the nodes of S lead to d only.    *)
LEMMA CarrierPasses ==
  ASSUME Proper, NEW v, NEW u, NEW P, Carrier(P, v, u), NEW n \in P, NEW d,
         NEW S, n \in S, S \subseteq Nodes, d \notin S,
         \A m \in S : m \notin PPOs /\ \A x \in FanoutSet(m) : x \in S \cup {d}
  PROVE  d \in P
<1> SUFFICES ASSUME d \notin P PROVE FALSE
  OBVIOUS
<1>1. PICK y \in P \cap S : \A z \in P \cap S : ~ (y < z)
  <2>1. P \cap S \subseteq Nodes /\ P \cap S # {}
    OBVIOUS
  <2> QED BY <2>1, Greatest
<1>2. PICK z \in FanoutSet(y) : z \in P
  BY DEF Carrier
<1>3. z \in S /\ y < z
  BY <1>2, FanoutFacts
<1> QED BY <1>1, <1>2, <1>3

(* The assignments of a condition: the one in the cycle before says that the *)
(* line has the faulty value there, for a transition fault.                   *)
LEMMA ConditionType ==
  ASSUME Proper, NEW f, IsFault(f), NEW type
  PROVE  /\ FfrCondition(f, type) \subseteq Assigns
         /\ \A a \in FfrCondition(f, type) :
              a.time = 1 \/ (type = "TD" /\ a = Assign(FaultyLine(f), 0, f.val))
         /\ type = "TD" => Assign(FaultyLine(f), 0, f.val) \in FfrCondition(f, type)
<1>1. f.node \in Nodes /\ FaultyLine(f) \in Nodes /\ f.val \in Bin /\ Complement(f.val) \in Bin
  BY FaultyLineIs, BinFacts DEF IsFault
<1>2. PathCondition(f.node) \subseteq Assigns /\ \A a \in PathCondition(f.node) : a.time = 1
  BY <1>1, PathConditionType
<1>3. BranchCondition(f) \subseteq Assigns /\ \A a \in BranchCondition(f) : a.time = 1
  <2>1. \A P : P \subseteq DOMAIN Gate[f.node].fanin => SideAt(f.node, P) \subseteq Assigns
    BY <1>1, SideAtType
  <2>2. \A P : \A a \in SideAt(f.node, P) : a.time = 1
    BY DEF SideAt, Assign
  <2> QED BY <2>1, <2>2 DEF BranchCondition
<1>4. Activation(f, type) = {Assign(FaultyLine(f), 1, Complement(f.val))}
        \cup (IF type = "TD" THEN {Assign(FaultyLine(f), 0, f.val)} ELSE {})
  BY DEF Activation
<1>5. /\ Assign(FaultyLine(f), 1, Complement(f.val)) \in Assigns
      /\ Assign(FaultyLine(f), 0, f.val) \in Assigns
      /\ Assign(FaultyLine(f), 1, Complement(f.val)).time = 1
  BY <1>1 DEF Assign, Assigns
<1> QED BY <1>2, <1>3, <1>4, <1>5 DEF FfrCondition
=============================================================================
